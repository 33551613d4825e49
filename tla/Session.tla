------------------------------- MODULE Session -------------------------------
(***************************************************************************)
(* One connection, from connect to the requests, message by message: the   *)
(* client's thread (client/Client.cpp 11-120, 151-177, 260-346, main.cpp), *)
(* its sender threads, which muSend lets in one at a time, and the threads *)
(* of the server that handle this user in turn (server/Server.cpp          *)
(* 156-283).                                                               *)
(*                                                                         *)
(* Both ends run sendFile and receiveFile, reduced here to their messages: *)
(* the user leaves alone the path that is being sent (FileExchange has     *)
(* him edit it), files are not empty and there are no directories.  A      *)
(* checksum stands for the folder it is of.  The client's checksum takes   *)
(* some time to succeed (269-275 try for ever).  A write to a connection   *)
(* the server has closed is accepted once; the next one raises SIGPIPE,    *)
(* which nobody handles.                                                   *)
(*                                                                         *)
(* A reply carries, as a history, what it answers.                         *)
(***************************************************************************)
EXTENDS Integers, Sequences, FiniteSets

CONSTANTS
    Path,
    MaxEdits,    \* bound: edits of the user during the synchronisation
    MaxFaults,   \* bound: reads that fail
    MaxErrors    \* NUM_POSSIBLE_TRY_RESOLVE_ERROR

ASSUME SessionAssumption ==
    /\ Path # {}
    /\ MaxEdits \in Nat /\ MaxFaults \in Nat /\ MaxErrors \in Nat \ {0}

VARIABLES
    pc,            \* where each end is
    in,            \* what is on the way to each end
    dir,           \* each folder: the version of each file, 0 for none
    cur,           \* the file each end is sending or receiving
    todo,          \* what is left of the listing each end sends
    task,          \* what each end transfers files for
    sum,           \* checksumClient
    request,       \* the client's queue
    freezed, first_syncrinize,
    cont_error,
    conn,          \* open, closed by the server, or reset
    edits, faults,
    ignored,       \* history: paths edited while the watcher was frozen
    slips          \* history: what has put the two ends out of step

vars == <<pc, in, dir, cur, todo, task, sum, request, freezed,
          first_syncrinize, cont_error, conn, edits, faults, ignored, slips>>

Client == "client"
Server == "server"
Side   == {Client, Server}
Peer(x) == IF x = Client THEN Server ELSE Client

Statuses == {"created", "modified", "erased"}
Verb == [created |-> "CREATE", modified |-> "MODIFY", erased |-> "ERASE"]

Nothing == [p \in Path |-> 0]
Listing(x) == {p \in Path : dir[x][p] # 0}
Queue == {p \in Path : request[p] # "none"}

\* Messages; the checksum and the data of a file are bytes without a frame.
Text(word)        == [w |-> word, of |-> "none"]
Reply(word, of)   == [w |-> word, of |-> of]
Ack(of)           == Reply("ACK", of)
Info(p, st)       == [w |-> "INFO", path |-> p, status |-> st]
Data(version)     == [w |-> "DATA", version |-> version]
Sum(folder)       == [w |-> "SUM", folder |-> folder]
Rest              == [w |-> "REST"]
Raw               == {"DATA", "SUM", "REST"}

Words == {"LOGIN", "SYNC", "UPDATE", "DOWNLOAD", "END", "FILE", "FILE_DEL",
          "CREATE", "MODIFY", "ERASE", "OK", "NOT_OK", "ACK", "PRESENT"}
Whats == {"none", "LOGIN", "UPDATE", "DOWNLOAD", "REQUEST", "COMMAND", "INFO",
          "DONE", "END", "NOTHING"}
Version == 0 .. (2 + MaxEdits)
Message == [w : Words, of : Whats]
             \cup [w : {"INFO"}, path : Path, status : Statuses]
             \cup [w : {"DATA"}, version : Version]
             \cup [w : {"SUM"}, folder : [Path -> Version]]
             \cup {Rest}

\* Where an end waits for a message, and the client for what.
AwaitsReply ==
    {"logged?", "update?", "download?", "end?", "request?",
     "send.cmd", "send.info", "send.end"}
AwaitsMessage ==
    AwaitsReply \cup {"accept", "free", "choice", "recv", "recv.info", "bye"}
Waits == AwaitsMessage \cup {"sum", "recv.data"}
Place == Waits \cup {"connect", "login", "start", "list", "idle", "exited",
                     "gone", "lost"}

Init ==
    /\ pc = [x \in Side |-> IF x = Client THEN "connect" ELSE "accept"]
    /\ in = [x \in Side |-> <<>>]
    /\ dir \in {d \in [Side -> [Path -> 0 .. 2]] :
                  \A p \in Path : d[Server][p] # 2}
    /\ cur = [x \in Side |-> [path |-> CHOOSE p \in Path : TRUE,
                              status |-> "modified", word |-> "FILE"]]
    /\ todo = [x \in Side |-> {}]
    /\ task = [x \in Side |-> "none"]
    /\ sum = Nothing
    /\ request = [p \in Path |-> "none"]
    /\ freezed = FALSE
    /\ first_syncrinize = TRUE
    /\ cont_error = 0
    /\ conn = "open"
    /\ edits = 0 /\ faults = 0
    /\ ignored = {}
    /\ slips = {}

-----------------------------------------------------------------------------
(* Steps of an end *)

Goto(x, to) == pc' = [pc EXCEPT ![x] = to]

\* x writes, and rest is what is left on the way to it.
Write(x, rest, ms) ==
    \/ /\ ms = <<>> \/ conn = "open"
       /\ in' = [in EXCEPT ![x] = rest, ![Peer(x)] = @ \o ms]
       /\ UNCHANGED conn
    \/ /\ ms # <<>> /\ conn = "closed"
       /\ in' = [in EXCEPT ![x] = rest]
       /\ conn' = "reset"

\* Writing; reading one message and writing the answers.
Post(x, ms)   == Write(x, in[x], ms)
Answer(x, ms) == Write(x, Tail(in[x]), ms)

\* A message has come, and is what the function that reads it gets.
Comes(x, at) ==
    /\ pc[x] = at
    /\ in[x] # <<>>
    /\ Head(in[x]).w \notin Raw

Got(x) == Head(in[x]).w

syncVars  == <<sum, request, freezed, first_syncrinize, slips>>
faultVars == <<cont_error, edits, faults, ignored>>

-----------------------------------------------------------------------------
(* sendFile *)

\* Its first message.
Begin(x, p, status) ==
    LET word == IF dir[x][p] = 0 THEN "FILE_DEL" ELSE "FILE" IN
    /\ cur' = [cur EXCEPT ![x] = [path |-> p, status |-> status, word |-> word]]
    /\ Goto(x, "send.cmd")

Command(x, p) == Text(IF dir[x][p] = 0 THEN "FILE_DEL" ELSE "FILE")

SendInfo(x) ==
    /\ Comes(x, "send.cmd")
    /\ Answer(x, <<Info(cur[x].path, cur[x].status)>>)
    /\ Goto(x, "send.info")
    /\ UNCHANGED <<dir, cur, todo, task, syncVars, faultVars>>

\* Data, unless it is refused; a receiver told that the file is erased reads
\* none.
SendData(x) ==
    LET data == Got(x) = "ACK" /\ cur[x].word = "FILE" IN
    /\ Comes(x, "send.info")
    /\ Answer(x, IF data THEN <<Data(dir[x][cur[x].path])>> ELSE <<>>)
    /\ Goto(x, "send.end")
    /\ slips' = slips \cup IF data /\ cur[x].status = "erased" THEN {"erased"} ELSE {}
    /\ UNCHANGED <<dir, cur, todo, task, sum, request, freezed,
                   first_syncrinize, faultVars>>

SendEnds(x) ==
    /\ Comes(x, "send.end")
    /\ Answer(x, <<>>)
    /\ Goto(x, IF task[x] = "request" THEN "idle" ELSE "list")
    /\ UNCHANGED <<dir, cur, todo, task, syncVars, faultVars>>

-----------------------------------------------------------------------------
(* receiveFile *)

\* Where the caller goes on: the next file, or the next packet of the user.
Received(x) == IF task[x] = "request" THEN "free" ELSE "recv"

ReceiveCommand(x) ==
    /\ Comes(x, "recv") /\ Got(x) # "END"
    /\ Answer(x, <<Ack("COMMAND")>>)
    /\ cur' = [cur EXCEPT ![x].word = Got(x)]
    /\ Goto(x, "recv.info")
    /\ UNCHANGED <<dir, todo, task, syncVars, faultVars>>

\* A file said to be created that is there: nothing is read, but the end is
\* acknowledged as ever.
RefusalTwice == <<Reply("PRESENT", "INFO"), Ack("INFO"), Ack("DONE")>>
Refusal == <<Reply("PRESENT", "INFO"), Ack("DONE")>>

ReceiveInfo(x) ==
    LET info    == Head(in[x])
        refused == info.status = "created" /\ dir[x][info.path] # 0
        data    == cur[x].word = "FILE" /\ info.status # "erased"
    IN
    /\ Comes(x, "recv.info") /\ Got(x) = "INFO"
    /\ Answer(x, IF refused THEN Refusal
                 ELSE IF data THEN <<Ack("INFO")>>
                 ELSE <<Ack("INFO"), Ack("DONE")>>)
    /\ Goto(x, IF data /\ ~refused THEN "recv.data" ELSE Received(x))
    /\ cur' = [cur EXCEPT ![x].path = info.path]
    /\ dir' = IF refused THEN dir ELSE [dir EXCEPT ![x][info.path] = 0]
    /\ UNCHANGED <<todo, task, syncVars, faultVars>>

ReceiveData(x) ==
    /\ pc[x] = "recv.data" /\ in[x] # <<>> /\ Got(x) = "DATA"
    /\ dir' = [dir EXCEPT ![x][cur[x].path] = Head(in[x]).version]
    /\ Answer(x, <<Ack("DONE")>>)
    /\ Goto(x, Received(x))
    /\ UNCHANGED <<cur, todo, task, syncVars, faultVars>>

-----------------------------------------------------------------------------
(* A whole folder: the loops around sendFile, of both ends *)

SendNext(x) ==
    /\ pc[x] = "list"
    /\ \E p \in todo[x] :
         /\ todo' = [todo EXCEPT ![x] = @ \ {p}]
         /\ Post(x, <<Command(x, p)>>)
         /\ Begin(x, p, IF x = Client THEN "modified" ELSE "created")
    /\ UNCHANGED <<dir, task, syncVars, faultVars>>

SendEndNot(x) ==
    /\ pc[x] = "list" /\ todo[x] = {}
    /\ Post(x, <<>>)
    /\ Goto(x, IF x = Client THEN "end?" ELSE "bye")
    /\ UNCHANGED <<dir, cur, todo, task, syncVars, faultVars>>

SendEnd(x) ==
    /\ pc[x] = "list" /\ todo[x] = {}
    /\ Post(x, <<Text("END")>>)
    /\ Goto(x, IF x = Client THEN "end?" ELSE "bye")
    /\ UNCHANGED <<dir, cur, todo, task, syncVars, faultVars>>

-----------------------------------------------------------------------------
(* The server *)

\* handleLogin; a socket that is refused goes with its scope.
HandleLogin ==
    /\ Comes(Server, "accept")
    /\ \/ /\ Answer(Server, <<Reply("OK", "LOGIN")>>)
          /\ Goto(Server, "free")
       \/ /\ in' = [in EXCEPT ![Client] = Append(@, Reply("NOT_OK", "LOGIN"))]
          /\ Goto(Server, "gone")
          /\ conn' = "closed"
    /\ UNCHANGED <<dir, cur, todo, task, syncVars, faultVars>>

\* parsePacket, and sendChecksum for SYNC.
ParsePacket ==
    LET msg == Got(Server)
        exchange == msg \in {Verb[st] : st \in Statuses}
    IN
    /\ Comes(Server, "free")
    /\ Answer(Server, IF msg = "SYNC" THEN <<Sum(dir[Server])>>
                      ELSE IF exchange THEN <<Ack("REQUEST")>>
                      ELSE <<>>)
    /\ Goto(Server, IF msg = "SYNC" THEN "choice"
                    ELSE IF exchange THEN "recv" ELSE "free")
    /\ task' = [task EXCEPT ![Server] = IF exchange THEN "request" ELSE @]
    /\ UNCHANGED <<dir, cur, todo, syncVars, faultVars>>

\* The rest of synchronize.
OkOrUnknown ==
    /\ Comes(Server, "choice") /\ Got(Server) \notin {"UPDATE", "DOWNLOAD"}
    /\ Answer(Server, <<>>)
    /\ Goto(Server, "free")
    /\ UNCHANGED <<dir, cur, todo, task, syncVars, faultVars>>

Update ==
    /\ Comes(Server, "choice") /\ Got(Server) = "UPDATE"
    /\ Answer(Server, <<Ack("UPDATE")>>)
    /\ Goto(Server, "recv")
    /\ dir' = [dir EXCEPT ![Server] = Nothing]
    /\ task' = [task EXCEPT ![Server] = "update"]
    /\ UNCHANGED <<cur, todo, syncVars, faultVars>>

Download ==
    /\ Comes(Server, "choice") /\ Got(Server) = "DOWNLOAD"
    /\ Answer(Server, <<Ack("DOWNLOAD")>>)
    /\ Goto(Server, "list")
    /\ todo' = [todo EXCEPT ![Server] = Listing(Server)]
    /\ task' = [task EXCEPT ![Server] = "download"]
    /\ UNCHANGED <<dir, cur, syncVars, faultVars>>

\* END, acknowledged by receiveFile and by downloadDirectory.
UploadEnds ==
    /\ Comes(Server, "recv") /\ Got(Server) = "END"
    /\ Answer(Server, <<Ack("END"), Ack("NOTHING")>>)
    /\ Goto(Server, "free")
    /\ UNCHANGED <<dir, cur, todo, task, syncVars, faultVars>>

\* uploadDirectory reads one of the two acknowledgements of its END.
DownloadEnds ==
    /\ Comes(Server, "bye")
    /\ Answer(Server, <<>>)
    /\ Goto(Server, "free")
    /\ UNCHANGED <<dir, cur, todo, task, syncVars, faultVars>>

-----------------------------------------------------------------------------
(* The client *)

\* The constructor.
Connect ==
    /\ pc[Client] = "connect" /\ conn = "open"
    /\ Goto(Client, "login")
    /\ UNCHANGED <<in, conn, dir, cur, todo, task, syncVars, faultVars>>

ConnectFails ==
    /\ pc[Client] = "connect"
    /\ cont_error' = cont_error + 1
    /\ Goto(Client, IF cont_error' = MaxErrors THEN "exited" ELSE "connect")
    /\ UNCHANGED <<in, conn, dir, cur, todo, task, syncVars, edits, faults,
                   ignored>>

Login ==
    /\ pc[Client] = "login"
    /\ Post(Client, <<Text("LOGIN")>>)
    /\ Goto(Client, "logged?")
    /\ UNCHANGED <<dir, cur, todo, task, syncVars, faultVars>>

\* main() goes on whatever doLogin returns.
LoggedIn ==
    /\ Comes(Client, "logged?")
    /\ Answer(Client, <<>>)
    /\ Goto(Client, IF Got(Client) \in {"OK", "NOT_OK"} THEN "start" ELSE "login")
    /\ UNCHANGED <<dir, cur, todo, task, syncVars, faultVars>>

StartSync ==
    /\ pc[Client] = "start"
    /\ Post(Client, <<Text("SYNC")>>)
    /\ sum' = dir[Client]
    /\ Goto(Client, "sum")
    /\ UNCHANGED <<dir, cur, todo, task, request, freezed,
                   first_syncrinize, slips, faultVars>>

\* FileWatcher::restart.
NoRestart == UNCHANGED freezed
Restart == freezed' = FALSE

\* The end of the synchronisation.
EndSync ==
    /\ Goto(Client, "idle")
    /\ first_syncrinize' = FALSE
    /\ task' = [task EXCEPT ![Client] = "request"]

\* Its last lines: threads are made for what has been queued since, if
\* anything, and then the watcher is released.
Watch ==
    /\ EndSync
    /\ IF Queue = {} THEN UNCHANGED freezed ELSE Restart

\* The three outcomes.
Choice(folder) == IF folder = sum THEN "OK"
                  ELSE IF folder # Nothing /\ sum = Nothing THEN "DOWNLOAD"
                  ELSE "UPDATE"

Chosen(choice) ==
    \/ /\ choice = "OK"
       /\ Watch
    \/ /\ choice = "DOWNLOAD"
       /\ Goto(Client, "download?")
       /\ freezed' = TRUE
       /\ UNCHANGED <<first_syncrinize, task>>
    \/ /\ choice = "UPDATE"
       /\ Goto(Client, "update?")
       /\ UNCHANGED <<freezed, first_syncrinize, task>>

Compare ==
    LET choice == Choice(Head(in[Client]).folder) IN
    /\ pc[Client] = "sum" /\ in[Client] # <<>> /\ Got(Client) = "SUM"
    /\ Answer(Client, <<Text(choice)>>)
    /\ Chosen(choice)
    /\ UNCHANGED <<dir, cur, todo, sum, request, slips, faultVars>>

\* Any four bytes are taken for the checksum: those of a message are its
\* length, which may be that of the client but not that of an empty folder,
\* and the rest of it stays.
CompareOther ==
    /\ pc[Client] = "sum" /\ in[Client] # <<>> /\ Got(Client) # "SUM"
    /\ \E choice \in {"OK", Choice([p \in Path |-> 1])} :
         /\ choice = "OK" => sum # Nothing \/ Got(Client) \in Raw
         /\ Write(Client, <<Rest>> \o Tail(in[Client]), <<Text(choice)>>)
         /\ Chosen(choice)
         /\ slips' = slips \cup IF choice = "OK" THEN {"misread", "equal"}
                                               ELSE {"misread"}
    /\ UNCHANGED <<dir, cur, todo, sum, request, faultVars>>

\* sendMessageWithResponse: the question again until the answer is ACK.
Asks(at, question, then) ==
    /\ Comes(Client, at)
    /\ Answer(Client, IF Got(Client) = "ACK" THEN <<>> ELSE <<Text(question)>>)
    /\ Goto(Client, IF Got(Client) = "ACK" THEN then ELSE at)

UpdateGranted ==
    /\ Asks("update?", "UPDATE", "list")
    /\ IF Got(Client) = "ACK"
         THEN /\ todo' = [todo EXCEPT ![Client] = Listing(Client)]
              /\ task' = [task EXCEPT ![Client] = "update"]
         ELSE UNCHANGED <<todo, task>>
    /\ UNCHANGED <<dir, cur, syncVars, faultVars>>

\* downloadDirectory wipes the folder.
DownloadGranted ==
    /\ Asks("download?", "DOWNLOAD", "recv")
    /\ IF Got(Client) = "ACK"
         THEN /\ dir' = [dir EXCEPT ![Client] = Nothing]
              /\ task' = [task EXCEPT ![Client] = "download"]
         ELSE UNCHANGED <<dir, task>>
    /\ UNCHANGED <<cur, todo, syncVars, faultVars>>

EndGranted ==
    /\ Comes(Client, "end?")
    /\ IF Got(Client) = "ACK"
         THEN /\ Answer(Client, <<>>)
              /\ Watch
              /\ slips' = slips \cup {"update"}
         ELSE /\ Answer(Client, <<Text("END")>>)
              /\ UNCHANGED <<pc, first_syncrinize, task, freezed, slips>>
    /\ UNCHANGED <<dir, cur, todo, sum, request, faultVars>>

\* END of a download, acknowledged by receiveFile and by downloadDirectory.
\* The watcher is released, and reports some of what has come.
DownloadReceived ==
    /\ Comes(Client, "recv") /\ Got(Client) = "END"
    /\ Answer(Client, <<Ack("END"), Ack("NOTHING")>>)
    /\ EndSync
    /\ Restart
    /\ \E seen \in SUBSET Listing(Client) :
         request' = [p \in Path |-> IF p \in seen /\ request[p] = "none"
                                      THEN "created" ELSE request[p]]
    /\ UNCHANGED <<dir, cur, todo, sum, slips, faultVars>>

\* A sender thread that has got muSend.
SendRequest ==
    /\ pc[Client] = "idle"
    /\ \E p \in Queue :
         /\ Post(Client, <<Text(Verb[request[p]])>>)
         /\ cur' = [cur EXCEPT ![Client].path = p, ![Client].status = request[p]]
         /\ request' = [request EXCEPT ![p] = "none"]
    /\ Goto(Client, "request?")
    /\ UNCHANGED <<dir, todo, task, sum, freezed, first_syncrinize, slips,
                   faultVars>>

RequestGranted ==
    LET file == cur[Client] IN
    /\ Comes(Client, "request?")
    /\ IF Got(Client) = "ACK"
         THEN /\ Answer(Client, <<Command(Client, file.path)>>)
              /\ Begin(Client, file.path, file.status)
         ELSE /\ Answer(Client, <<Text(Verb[file.status])>>)
              /\ UNCHANGED <<pc, cur>>
    /\ UNCHANGED <<dir, todo, task, syncVars, faultVars>>

-----------------------------------------------------------------------------
(* What goes wrong *)

\* A user who is dropped, but whose socket is left open.
DropUser ==
    /\ Goto(Server, "gone")
    /\ UNCHANGED <<conn, todo, cont_error>>

\* The server drops the connection of a user it failed on.
Drop ==
    /\ Goto(Server, "gone")
    /\ conn' = "closed"
    /\ UNCHANGED <<todo, cont_error>>

\* An upload begins again on the same connection, and is not counted.
UploadAgain ==
    /\ task[Client] = "update"
    /\ Goto(Client, "list")
    /\ todo' = [todo EXCEPT ![Client] = Listing(Client)]
    /\ UNCHANGED <<cont_error, conn>>

\* A sender thread has no handler: the process ends.
ThreadEnds ==
    /\ task[Client] = "request"
    /\ Goto(Client, "exited")
    /\ UNCHANGED <<todo, cont_error, conn>>

\* The errors that count.  MaxErrors + 1 stands for every count beyond the
\* bound.
LastError == cont_error + 1 = MaxErrors

Count ==
    /\ task[Client] \in {"none", "download"}
    /\ cont_error' = IF cont_error > MaxErrors THEN cont_error ELSE cont_error + 1
    /\ UNCHANGED todo

\* The last one deletes a pointer nobody has set, which may end the process,
\* and returns to main() with the socket closed.
LoginFails ==
    /\ pc[Client] \in {"login", "logged?"}
    /\ Count
    /\ \/ ~LastError /\ Goto(Client, "login") /\ UNCHANGED conn
       \/ LastError /\ Goto(Client, "exited") /\ UNCHANGED conn
       \/ LastError /\ Goto(Client, "start") /\ conn' = "shut"

\* The synchronisation is tried again, or the process ends.
SyncFails ==
    /\ pc[Client] \notin {"login", "logged?"}
    /\ Count
    /\ Goto(Client, IF LastError THEN "exited" ELSE "start")
    /\ UNCHANGED conn

\* The handlers around what the client is at.
Catch == UploadAgain \/ ThreadEnds \/ LoginFails \/ SyncFails

\* Where an end that has read its message asks the file system or the
\* database.
Accesses ==
    {"accept", "free", "choice", "download?", "recv.info", "send.info"}

\* A message of which recv returns a part does not parse, and the rest of it
\* stays; or it is read whole, and the access that follows throws.
ReadFails(x) ==
    /\ faults < MaxFaults /\ in[x] # <<>> /\ pc[x] \in AwaitsMessage
    /\ conn = "open"
    /\ faults' = faults + 1
    /\ \E rest \in {<<Rest>>} \cup IF pc[x] \in Accesses THEN {<<>>} ELSE {} :
         in' = [in EXCEPT ![x] = rest \o Tail(@)]
    /\ IF x = Client THEN Catch ELSE Drop
    /\ UNCHANGED <<dir, cur, task, syncVars, edits, ignored>>

\* The client takes what is left of a message, or a checksum, for the length
\* of the next one, reads that many bytes of what has come, and they do not
\* parse.
Garbled ==
    /\ pc[Client] \in AwaitsMessage
    /\ in[Client] # <<>> /\ Got(Client) \in {"REST", "SUM"}
    /\ \E come \in 1 .. Len(in[Client]) :
         in' = [in EXCEPT ![Client] = SubSeq(@, come + 1, Len(@))]
    /\ slips' = slips \cup {"misread"}
    /\ Catch
    /\ UNCHANGED <<dir, cur, task, sum, request, freezed, first_syncrinize,
                   edits, faults, ignored>>

\* The bytes at hand are not what x reads: nothing is said of what follows.
Misread(x) ==
    /\ in[x] # <<>>
    /\ \/ pc[x] \in AwaitsMessage /\ Got(x) = "DATA"
       \/ pc[x] = "recv.info" /\ Got(x) # "INFO"
       \/ pc[x] = "recv.data" /\ Got(x) # "DATA"
    /\ Goto(x, "lost")
    /\ UNCHANGED <<in, conn, dir, cur, todo, task, syncVars, faultVars>>

\* The server stops, or another of its clients stops it.
ServerStops ==
    /\ conn = "open" /\ pc[Server] # "lost"
    /\ Drop
    /\ in' = [in EXCEPT ![Server] = <<>>]
    /\ UNCHANGED <<dir, cur, task, syncVars, edits, faults, ignored>>

\* Reading from a connection that is closed, writing to a socket that is.
ConnectionFails ==
    /\ \/ pc[Client] \in Waits /\ in[Client] = <<>> /\ conn \in {"closed", "reset"}
       \/ pc[Client] = "start" /\ conn = "shut"
    /\ Catch
    /\ UNCHANGED <<in, dir, cur, task, syncVars, edits, faults, ignored>>

\* A write to a connection the server has closed.
SigPipe ==
    /\ conn \in {"closed", "reset"}
    /\ \/ pc[Client] \in {"login", "start", "list"}
       \/ pc[Client] = "idle" /\ Queue # {}
       \/ /\ in[Client] # <<>>
          /\ pc[Client] \in {"sum", "request?", "send.cmd", "send.info",
                             "recv", "recv.info", "recv.data"}
    /\ Goto(Client, "exited")
    /\ UNCHANGED <<in, conn, dir, cur, todo, task, syncVars, faultVars>>

\* The end of a client that has exited.
HangUp ==
    /\ pc[Client] = "exited" /\ pc[Server] \in Waits /\ in[Server] = <<>>
    /\ Drop
    /\ UNCHANGED <<in, dir, cur, task, syncVars, edits, faults, ignored>>

\* The user changes a file, and the watcher queues what it sees: the first
\* status for a path stays.  While it is frozen it sees nothing but that a file
\* it knew is gone.
InsertLater(p, status) ==
    request' = [request EXCEPT ![p] = IF first_syncrinize THEN @ ELSE status]
Insert(p, status) ==
    request' = [request EXCEPT ![p] = IF @ = "none" THEN status ELSE @]

Sees(p, status) ==
    \/ /\ ~freezed \/ status = "erased"
       /\ Insert(p, status)
       /\ UNCHANGED ignored
    \/ /\ freezed
       /\ ignored' = ignored \cup {p}
       /\ UNCHANGED request

Edit(p) ==
    /\ first_syncrinize /\ edits < MaxEdits
    /\ pc[Client] \notin {"connect", "login", "logged?", "exited", "lost"}
    /\ ~(pc[Client] \in {"send.cmd", "send.info", "send.end", "recv.data"}
         /\ cur[Client].path = p)
    /\ \E v \in {0, 3 + edits} \ {dir[Client][p]} :
         /\ dir' = [dir EXCEPT ![Client][p] = v]
         /\ Sees(p, IF v = 0 THEN "erased"
                    ELSE IF dir[Client][p] = 0 THEN "created" ELSE "modified")
    /\ edits' = edits + 1
    /\ UNCHANGED <<pc, in, conn, cur, todo, task, sum, freezed,
                   first_syncrinize, slips, cont_error, faults>>

-----------------------------------------------------------------------------

Exchange(x) ==
    \/ SendInfo(x) \/ SendData(x) \/ SendEnds(x) \/ SendNext(x) \/ SendEnd(x)
    \/ ReceiveCommand(x) \/ ReceiveInfo(x) \/ ReceiveData(x)
    \/ Misread(x)

ServerStep ==
    \/ Exchange(Server) \/ HandleLogin \/ ParsePacket \/ OkOrUnknown
    \/ Update \/ Download \/ UploadEnds \/ DownloadEnds \/ HangUp

ClientStep ==
    \/ Exchange(Client) \/ Connect \/ ConnectFails \/ Login \/ LoggedIn
    \/ StartSync \/ Compare
    \/ UpdateGranted \/ DownloadGranted \/ EndGranted \/ DownloadReceived
    \/ SendRequest \/ RequestGranted \/ ConnectionFails \/ SigPipe

\* The client takes other bytes for what it waits for, and goes on.
Stray == CompareOther \/ Garbled

Next ==
    \/ ClientStep \/ Stray \/ ServerStep
    \/ ServerStops
    \/ \E x \in Side : ReadFails(x)
    \/ \E p \in Path : Edit(p)

Spec == Init /\ [][Next]_vars

\* Both programs go on; a user may stop editing, and nothing need fail.
FairSpec == Spec /\ WF_vars(ClientStep \/ Stray) /\ WF_vars(ServerStep)

-----------------------------------------------------------------------------
(* Properties *)

\* What each variable may be; a server that has gone has closed its socket,
\* and its thread serves nobody on a closed one.
TypeOK ==
    /\ pc \in [Side -> Place]
    /\ in \in [Side -> Seq(Message)]
    /\ dir \in [Side -> [Path -> Version]]
    /\ cur \in [Side -> [path : Path, status : Statuses, word : Words \cup {"INFO"}]]
    /\ todo \in [Side -> SUBSET Path]
    /\ task \in [Side -> {"none", "update", "download", "request"}]
    /\ sum \in [Path -> Version]
    /\ request \in [Path -> Statuses \cup {"none"}]
    /\ edits \in 0 .. MaxEdits /\ faults \in 0 .. MaxFaults
    /\ cont_error \in 0 .. (MaxErrors + 1)
    /\ conn \in {"open", "closed", "reset", "shut"}
    /\ pc[Server] = "gone" => conn # "open"
    /\ conn \in {"closed", "reset"} => pc[Server] = "gone"
    /\ freezed \in BOOLEAN /\ first_syncrinize \in BOOLEAN

\* What the reply an end waits for should answer; and what it does answer
\* when one reply was left over.
Expected ==
    [at \in AwaitsReply \cup {"bye"} |->
       CASE at = "logged?"   -> "LOGIN"
         [] at = "update?"   -> "UPDATE"
         [] at = "download?" -> "DOWNLOAD"
         [] at = "request?"  -> "REQUEST"
         [] at = "send.cmd"  -> "COMMAND"
         [] at = "send.info" -> "INFO"
         [] at = "send.end"  -> "DONE"
         [] OTHER            -> "END"]

Delayed ==
    [at \in {"request?", "send.cmd", "send.info", "send.end"} |->
       CASE at = "request?"  -> {"NOTHING", "DONE"}
         [] at = "send.cmd"  -> {"REQUEST"}
         [] at = "send.info" -> {"COMMAND"}
         [] at = "send.end"  -> {"INFO"}]

\* An end that waits for a reply reads the reply to what it asked; after an
\* update, whose END is acknowledged twice (Exchanger.cpp:58, Server.cpp:270),
\* the client always reads the one before.  No end misreads what it gets,
\* but for the server, after an update or a file sent as erased.
Answers(m, of) == \E w \in {"ACK", "PRESENT", "OK", "NOT_OK"} : m = Reply(w, of)

InStep ==
    faults = 0 =>
      \A x \in Side :
        /\ pc[x] = "lost" => x = Server /\ slips # {}
        /\ in[x] # <<>> /\ pc[x] \in DOMAIN Expected =>
             IF x = Client /\ "update" \in slips
               THEN \E of \in Delayed[pc[x]] : Answers(Head(in[x]), of)
               ELSE Answers(Head(in[x]), Expected[pc[x]])

\* What differs is queued, or was edited while the watcher was frozen.
Accounted ==
    \A p \in Path : \/ dir[Client][p] = dir[Server][p]
                    \/ request[p] # "none"
                    \/ p \in ignored

\* So it is when the client takes the folders for synchronised
\* (Client.cpp:309), also after a failure, of a read or of the server, the
\* retry (303, 312), and what it misreads then; unless four other bytes happen
\* to be its own checksum.  A second failed read can put the client two
\* replies ahead: its END is then acknowledged before the last file is stored.
SyncedOrQueued ==
    [][first_syncrinize /\ ~first_syncrinize' /\ faults <= 1 /\ "equal" \notin slips'
         => Accounted']_vars

\* Once the synchronisation is over the watcher is not frozen.  restart is not
\* reached when a download fails (Client.cpp:287), and the attempt that
\* succeeds later leaves the watcher frozen: but it comes only after one that
\* has taken other bytes for the checksum, the upload of the server being
\* under way.
ReleasedAfterSync == first_syncrinize \/ ~freezed \/ "misread" \in slips

\* The synchronisation ends, or the client does (Client.cpp:261), unless a
\* read has failed on a connection that stayed open; or doLogin has closed
\* the socket at the last error and returned to main(), which goes on, with
\* the count already past its bound (Client.cpp:103, main.cpp:18).
SyncEnds ==
    <>(\/ ~first_syncrinize
       \/ pc[Client] = "exited"
       \/ faults > 0
       \/ conn = "shut")
=============================================================================
