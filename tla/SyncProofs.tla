----------------------------- MODULE SyncProofs -----------------------------
(***************************************************************************)
(* What a synchronisation promises, proved for every set of files and      *)
(* every bound on the edits: when the client takes the two folders for     *)
(* synchronised, what differs is queued or was edited while the watcher    *)
(* was frozen.  One read may have failed, and the server may have stopped; *)
(* but the client has not yet taken other bytes for what it waited for.    *)
(***************************************************************************)
EXTENDS DialogueProofs

-----------------------------------------------------------------------------
(* The comparison *)

\* The client compares what its folder was with what the server's is.
Comparing ==
    ~freezed /\ pc[Client] = "sum" =>
      /\ \A p \in Path : dir[Client][p] = sum[p] \/ request[p] # "none"
      /\ in[Client] # <<>> /\ Head(in[Client]).w = "SUM" =>
           Head(in[Client]).folder = dir[Server]

-----------------------------------------------------------------------------
(* A download *)

\* What is due is still to come, and the client has nothing there; the rest is
\* the same on both sides; but for what was edited in the meantime.
Noted == {p \in Path : p \in ignored \/ request[p] # "none"}
Alike(p) == dir[Client][p] = dir[Server][p] \/ p \in Noted
Fetched(due) ==
    /\ \A p \in Path \ due : Alike(p)
    /\ \A p \in due : dir[Client][p] = 0 \/ p \in Noted

\* The same before the client's folder is wiped.
Vacant(due) == \A p \in Path \ due : dir[Server][p] = 0

\* The file that the server is sending, and those behind it.
Offering == todo[Server] \cup {cur[Server].path}

Offers ==
    pc[Server] \in Sending =>
      /\ cur[Server].path \notin todo[Server]
      /\ cur[Server].word = "FILE_DEL" => dir[Server][cur[Server].path] = 0

ToWipe ==
    /\ Tail(in[Client]) = <<Text("END")>> => Vacant({})
    /\ pc[Server] = "list" => Vacant(todo[Server])
    /\ pc[Server] \in Sending => Vacant(Offering)

ToFetch ==
    /\ in[Client] = <<Text("END")>> => Fetched({})
    /\ pc[Server] = "list" => Fetched(todo[Server])
    /\ pc[Server] \in Sending =>
         Fetched(IF in[Client] = <<>> THEN todo[Server] ELSE Offering)

ToStore ==
    /\ cur[Client].path = cur[Server].path
    /\ \A v \in Version : in[Client] = <<Data(v)>> => v = dir[Server][cur[Client].path]

Fetches ==
    freezed =>
      /\ pc[Client] = "download?" /\ in[Client] # <<>> => ToWipe
      /\ pc[Client] = "recv" => ToFetch
      /\ pc[Client] \in {"recv.info", "recv.data"} /\ pc[Server] \in Sending =>
           Fetched(Offering)
      /\ pc[Client] = "recv.data" => ToStore

-----------------------------------------------------------------------------
(* An upload *)

\* The server has the client's version, or will get a request for the file.
Kept(p)     == dir[Client][p] = dir[Server][p] \/ request[p] # "none"
Stored(due) == \A p \in Path \ due : Kept(p)

\* What the server has at all is kept: it begins with nothing.
Wiped == \A p \in Path : dir[Server][p] = 0 \/ Kept(p)

Granted ==
    pc[Client] = "update?" => Granting /\ (in[Client] # <<>> => dir[Server] = Nothing)

Here  == {cur[Client].path}
There == {cur[Server].path}
Same  == cur[Server].path = cur[Client].path
Sent  == Data(dir[Client][cur[Client].path])

\* Data of the file that the server is receiving, as the client has it now.
Owed(v) == v = dir[Client][cur[Server].path] \/ request[cur[Server].path] # "none"

\* The user does not change the file while it is sent.
TheFile ==
    pc[Client] \in Sending =>
      /\ cur[Client].status = "modified"
      /\ cur[Client].word = IF dir[Client][cur[Client].path] = 0 THEN "FILE_DEL" ELSE "FILE"

\* The client reads the reply to what it sent last.
ListInTime == Joint(<<>>, "recv", <<>>) /\ Stored(todo[Client])

CommandInTime ==
    /\ Stored(todo[Client] \cup Here)
    /\ \/ Joint(<<>>, "recv", <<TheCommand>>)
       \/ Joint(<<Ack("COMMAND")>>, "recv.info", <<>>) /\ Told

InfoInTime ==
    \/ Joint(<<>>, "recv.info", <<TheInfo>>) /\ Told /\ Stored(todo[Client] \cup Here)
    \/ /\ Joint(<<Ack("INFO")>>, "recv.data", <<>>) /\ Same /\ Carries
       /\ Stored(todo[Client] \cup Here)
    \/ Joint(<<Ack("INFO"), Ack("DONE")>>, "recv", <<>>) /\ ~Carries /\ Stored(todo[Client])

EndInTime ==
    \/ Joint(<<>>, "recv.data", <<Sent>>) /\ Same /\ Stored(todo[Client] \cup Here)
    \/ Joint(<<Ack("DONE")>>, "recv", <<>>) /\ Stored(todo[Client])

EndOfAllInTime ==
    /\ Stored({})
    /\ \/ Joint(<<>>, "recv", <<Text("END")>>)
       \/ Joint(<<Ack("END"), Ack("NOTHING")>>, "free", <<>>)

InTime ==
    /\ pc[Client] = "list"      => ListInTime
    /\ pc[Client] = "send.cmd"  => CommandInTime
    /\ pc[Client] = "send.info" => InfoInTime
    /\ pc[Client] = "send.end"  => EndInTime
    /\ pc[Client] = "end?"      => EndOfAllInTime

\* The client is a reply ahead, having begun again behind the access to a file
\* that failed: each place with the replies of the one before.
ListAhead ==
    \/ Joint(<<Ack("DONE")>>, "recv", <<>>) /\ Stored(todo[Client])
    \/ \E v \in Version : /\ Joint(<<>>, "recv.data", <<Data(v)>>) /\ Owed(v)
                          /\ Stored(todo[Client] \cup There)

CommandAhead ==
    \/ Joint(<<Ack("DONE")>>, "recv", <<TheCommand>>) /\ Stored(todo[Client] \cup Here)
    \/ /\ Joint(<<Ack("DONE"), Ack("COMMAND")>>, "recv.info", <<>>) /\ Told
       /\ Stored(todo[Client] \cup Here)
    \/ \E v \in Version : /\ Joint(<<>>, "recv.data", <<Data(v), TheCommand>>) /\ Owed(v)
                          /\ Stored(todo[Client] \cup Here \cup There)

InfoAhead ==
    \/ Joint(<<>>, "recv", <<TheCommand, TheInfo>>) /\ Stored(todo[Client] \cup Here)
    \/ /\ Joint(<<Ack("COMMAND")>>, "recv.info", <<TheInfo>>) /\ Told
       /\ Stored(todo[Client] \cup Here)
    \/ /\ Joint(<<Ack("COMMAND"), Ack("INFO")>>, "recv.data", <<>>) /\ Same /\ Carries
       /\ Stored(todo[Client] \cup Here)
    \/ /\ Joint(<<Ack("COMMAND"), Ack("INFO"), Ack("DONE")>>, "recv", <<>>) /\ ~Carries
       /\ Stored(todo[Client])

EndAhead ==
    \/ /\ Joint(<<>>, "recv.info", <<TheInfo, Sent>>) /\ Told /\ Carries
       /\ Stored(todo[Client] \cup Here)
    \/ /\ Joint(<<>>, "recv.info", <<TheInfo>>) /\ Told /\ ~Carries
       /\ Stored(todo[Client] \cup Here)
    \/ /\ Joint(<<Ack("INFO")>>, "recv.data", <<Sent>>) /\ Same
       /\ Stored(todo[Client] \cup Here)
    \/ Joint(<<Ack("INFO"), Ack("DONE")>>, "recv", <<>>) /\ Stored(todo[Client])

EndOfAllAhead ==
    \/ \E v \in Version : /\ Joint(<<>>, "recv.data", <<Data(v), Text("END")>>) /\ Owed(v)
                          /\ Stored(There)
    \/ Joint(<<Ack("DONE")>>, "recv", <<Text("END")>>) /\ Stored({})
    \/ Joint(<<Ack("DONE"), Ack("END"), Ack("NOTHING")>>, "free", <<>>) /\ Stored({})

Ahead ==
    /\ pc[Client] = "list"      => ListAhead
    /\ pc[Client] = "send.cmd"  => CommandAhead
    /\ pc[Client] = "send.info" => InfoAhead
    /\ pc[Client] = "send.end"  => EndAhead
    /\ pc[Client] = "end?"      => EndOfAllAhead

\* Nobody answers the client any more.
Deserted ==
    /\ in[Client] = <<>> /\ pc[Client] \in {"list", "send.cmd", "end?"}
    /\ \/ Silent
       \/ /\ pc[Server] = "recv.data"
          /\ in[Server] # <<>> => Head(in[Server]).w # "DATA"

Follows == Wiped /\ TheFile /\ For("update") /\ (InTime \/ (Ahead /\ faults > 0))

Storing ==
    task[Client] = "update" /\ faults <= 1 /\ pc[Client] \notin Over =>
      (Spoilt /\ faults > 0) \/ Deserted \/ Follows

SyncInv == Comparing /\ Offers /\ Fetches /\ Granted /\ Storing

-----------------------------------------------------------------------------
(* What a step of one end leaves of the other, and of the folders *)

LEMMA ServerLeaves ==
    ASSUME Typed, ServerStep
    PROVE  /\ UNCHANGED <<dir[Client], todo[Client], request, sum, ignored>>
           /\ pc[Server] \notin {"choice", "recv.info", "recv.data"} => dir' = dir
           /\ in[Server] = <<>> => dir' = dir
<1> USE Sides DEF Typed, Placed, Contents, Comes, syncVars, faultVars
<1>1. CASE SendInfo(Server)
  BY <1>1 DEF SendInfo
<1>2. CASE SendData(Server)
  BY <1>2 DEF SendData
<1>3. CASE SendEnds(Server)
  BY <1>3 DEF SendEnds
<1>4. CASE SendNext(Server)
  BY <1>4 DEF SendNext
<1>5. CASE SendEnd(Server)
  BY <1>5 DEF SendEnd
<1>6. CASE ReceiveCommand(Server)
  BY <1>6 DEF ReceiveCommand
<1>7. CASE ReceiveInfo(Server)
  <2>1. Head(in[Server]).path \in Path
    BY <1>7, Reading, MessageParts DEF ReceiveInfo, Got
  <2> QED  BY <1>7, <2>1 DEF ReceiveInfo
<1>8. CASE ReceiveData(Server)
  BY <1>8 DEF ReceiveData
<1>9. CASE Misread(Server)
  BY <1>9 DEF Misread
<1>10. CASE HandleLogin \/ ParsePacket \/ OkOrUnknown
  BY <1>10 DEF HandleLogin, ParsePacket, OkOrUnknown
<1>11. CASE Update
  BY <1>11 DEF Update
<1>12. CASE Download
  BY <1>12 DEF Download
<1>13. CASE UploadEnds \/ DownloadEnds
  BY <1>13 DEF UploadEnds, DownloadEnds
<1>14. CASE HangUp
  BY <1>14 DEF HangUp, Drop
<1> QED
  BY <1>1, <1>2, <1>3, <1>4, <1>5, <1>6, <1>7, <1>8, <1>9, <1>10, <1>11, <1>12, <1>13,
     <1>14
  DEF ServerStep, Exchange

\* What the client leaves, of the server and of what it knows itself.
Yonder == <<pc[Server], cur[Server], todo[Server], dir[Server], ignored>>

LEMMA CatchLeaves ==
    ASSUME Typed, Catch
    PROVE  UNCHANGED <<pc[Server], todo[Server]>>
BY Sides DEF Catch, UploadAgain, ThreadEnds, LoginFails, SyncFails, Count, Goto, Typed,
             Placed, Contents

LEMMA ClientLeaves ==
    ASSUME Typed, ClientStep
    PROVE  UNCHANGED Yonder /\ faults' = faults
<1> USE Sides DEF Typed, Placed, Contents, Goto, syncVars, faultVars, Yonder
<1>1. CASE SendInfo(Client) \/ SendData(Client) \/ SendEnds(Client) \/ Misread(Client)
  BY <1>1 DEF SendInfo, SendData, SendEnds, Misread
<1>2. CASE SendNext(Client) \/ SendEnd(Client)
  <2>1. CASE SendNext(Client)
    <3>1. PICK p \in todo[Client] :
            /\ todo' = [todo EXCEPT ![Client] = @ \ {p}]
            /\ Begin(Client, p, "modified")
      BY <2>1 DEF SendNext
    <3>2. /\ pc'[Server] = pc[Server] /\ cur'[Server] = cur[Server]
          /\ todo'[Server] = todo[Server]
      BY <3>1 DEF Begin
    <3> QED  BY <2>1, <3>2 DEF SendNext
  <2>2. CASE SendEnd(Client)
    BY <2>2 DEF SendEnd
  <2> QED  BY <1>2, <2>1, <2>2
<1>3. CASE ReceiveCommand(Client)
  BY <1>3 DEF ReceiveCommand
<1>4. CASE ReceiveInfo(Client)
  <2>1. Head(in[Client]).path \in Path
    BY <1>4, Reading, MessageParts DEF ReceiveInfo, Comes, Got
  <2> QED  BY <1>4, <2>1 DEF ReceiveInfo
<1>5. CASE ReceiveData(Client)
  BY <1>5 DEF ReceiveData
<1>6. CASE Connect \/ ConnectFails \/ Login \/ LoggedIn \/ StartSync
  BY <1>6 DEF Connect, ConnectFails, Login, LoggedIn, StartSync
<1>7. CASE Compare
  BY <1>7 DEF Compare, Chosen, Watch, EndSync
<1>8. CASE UpdateGranted \/ DownloadGranted
  BY <1>8 DEF UpdateGranted, DownloadGranted, Asks
<1>9. CASE EndGranted
  BY <1>9 DEF EndGranted, Watch, EndSync
<1>10. CASE DownloadReceived
  BY <1>10 DEF DownloadReceived, EndSync
<1>11. CASE SendRequest \/ RequestGranted
  <2>1. CASE SendRequest
    BY <2>1 DEF SendRequest
  <2>2. CASE RequestGranted
    BY <2>2 DEF RequestGranted, Begin
  <2> QED  BY <1>11, <2>1, <2>2
<1>12. CASE ConnectionFails
  BY <1>12, CatchLeaves DEF ConnectionFails
<1>13. CASE SigPipe
  BY <1>13 DEF SigPipe
<1> QED
  BY <1>1, <1>2, <1>3, <1>4, <1>5, <1>6, <1>7, <1>8, <1>9, <1>10, <1>11, <1>12, <1>13
  DEF ClientStep, Exchange

-----------------------------------------------------------------------------
(* The server stores what is uploaded *)

\* What the two folders agree on stays so.
Keeps(p) == Kept(p) => Kept(p)'

LEMMA FolderStays ==
    ASSUME dir' = dir, request' = request
    PROVE  (\A p \in Path : Keeps(p)) /\ (Wiped => Wiped')
BY DEF Keeps, Kept, Wiped

LEMMA CommandOn ==
    ASSUME Typed, ServerStep, pc[Client] # "exited",
           cur[Client].word \in {"FILE", "FILE_DEL"}, NEW pre, NEW ms,
           Joint(pre, "recv", ms), ms # <<>>, Head(ms) = TheCommand
    PROVE  /\ in'[Client] = pre \o <<Ack("COMMAND")>> /\ in'[Server] = Tail(ms)
           /\ pc'[Server] = "recv.info" /\ Told' /\ task' = task
           /\ \A p \in Path : Keeps(p)
           /\ Wiped => Wiped'
<1>1. ~Silent /\ cur'[Client] = cur[Client]
  BY ServerNow
<1>2. in[Client] = pre /\ pc[Server] = "recv" /\ in[Server] = ms
  BY <1>1 DEF Joint, Serves
<1>3. Got(Server) = cur[Client].word
  BY <1>2 DEF Got, TheCommand, Text
<1>4. /\ Says(<<Ack("COMMAND")>>) /\ task' = task
      /\ pc'[Server] = "recv.info" /\ cur'[Server].word = cur[Client].word
  BY <1>2, <1>3, ReadsCommand
<1>5. dir' = dir /\ request' = request
  BY <1>2, ServerLeaves
<1> QED  BY <1>1, <1>2, <1>4, <1>5, FolderStays DEF Says, Told

\* The server makes room for the file, and has it already if there is none.
LEMMA InfoOn ==
    ASSUME Typed, ServerStep, pc[Client] \in Sending, TheFile, For("update"), Told,
           NEW pre, NEW ms, Joint(pre, "recv.info", ms), ms # <<>>, Head(ms) = TheInfo
    PROVE  /\ in'[Server] = Tail(ms) /\ task' = task /\ Same'
           /\ \/ /\ Carries /\ in'[Client] = pre \o <<Ack("INFO")>>
                 /\ pc'[Server] = "recv.data"
              \/ /\ ~Carries /\ in'[Client] = pre \o <<Ack("INFO"), Ack("DONE")>>
                 /\ pc'[Server] = "recv" /\ Kept(cur[Client].path)'
           /\ \A p \in Path \ Here : Keeps(p)
           /\ Wiped => Wiped'
<1>1. ~Silent /\ cur'[Client] = cur[Client] /\ pc[Client] # "exited"
  BY ServerNow DEF Sending
<1>2. in[Client] = pre /\ pc[Server] = "recv.info" /\ in[Server] = ms
  BY <1>1 DEF Joint, Serves
<1>3. /\ cur[Client].status = "modified" /\ cur[Client].path \in Path
      /\ Carries <=> dir[Client][cur[Client].path] # 0
  BY Sides DEF TheFile, Carries, Typed, Contents
<1>4. /\ Head(in[Server]).path = cur[Client].path /\ Head(in[Server]).status = "modified"
      /\ Got(Server) = "INFO"
  BY <1>2, <1>3 DEF TheInfo, Info, Got
<1>5. ReceiveInfo(Server)
  BY <1>1, <1>2, <1>4, ReceiverAt
<1>6. /\ dir' = [dir EXCEPT ![Server][cur[Client].path] = 0]
      /\ cur' = [cur EXCEPT ![Server].path = cur[Client].path]
  BY <1>4, <1>5 DEF ReceiveInfo
<1>7. /\ dir'[Client] = dir[Client] /\ request' = request
      /\ \A p \in Path : dir'[Server][p] = IF p = cur[Client].path THEN 0 ELSE dir[Server][p]
      /\ cur'[Server].path = cur[Client].path
  BY <1>3, <1>6, ServerLeaves, Sides DEF Typed, Contents
<1>8. /\ \/ Carries /\ Says(<<Ack("INFO")>>) /\ pc'[Server] = "recv.data"
         \/ ~Carries /\ Says(<<Ack("INFO"), Ack("DONE")>>) /\ pc'[Server] = "recv"
      /\ task' = task
  <2>1. ~Says(Refusal) \/ Carries \/ ~Carries
    OBVIOUS
  <2>2. cur[Server].word = cur[Client].word /\ task[Server] = "update"
    BY <1>1 DEF Told, For
  <2>3. /\ <<Ack("INFO")>> \in Seq(Message)
        /\ <<Ack("INFO"), Ack("DONE")>> \in Seq(Message)
    BY MessagesMade, MessageSeqs DEF Whats
  <2>4. \A to : Goto(Server, to) => pc'[Server] = to
    BY Sides DEF Goto, Typed, Placed
  <2>5. \A ans \in Seq(Message) : Answer(Server, ans) => Says(ans)
    BY <1>1, <1>2, ServerSays
  <2>6. Received(Server) = "recv" /\ task' = task
    BY <1>5, <2>2 DEF Received, ReceiveInfo
  <2>7. CASE Carries
    <3>1. Answer(Server, <<Ack("INFO")>>) /\ Goto(Server, "recv.data")
      BY <1>3, <1>4, <1>5, <2>2, <2>7 DEF ReceiveInfo, Carries
    <3> QED  BY <2>3, <2>4, <2>5, <2>6, <2>7, <3>1
  <2>8. CASE ~Carries
    <3>1. Answer(Server, <<Ack("INFO"), Ack("DONE")>>) /\ Goto(Server, "recv")
      BY <1>3, <1>4, <1>5, <2>2, <2>6, <2>8 DEF ReceiveInfo, Carries
    <3> QED  BY <2>3, <2>4, <2>5, <2>6, <2>8, <3>1
  <2> QED  BY <2>7, <2>8
<1>9. \A p \in Path \ Here : Keeps(p)
  BY <1>3, <1>7 DEF Here, Keeps, Kept
<1>10. Wiped => Wiped'
  BY <1>3, <1>7 DEF Wiped, Kept
<1>11. ~Carries => Kept(cur[Client].path)'
  BY <1>1, <1>3, <1>7 DEF Kept
<1> QED  BY <1>1, <1>2, <1>7, <1>8, <1>9, <1>10, <1>11 DEF Says, Same

\* The server stores the file as the client has it, or will send it.
LEMMA DataOn ==
    ASSUME Typed, ServerStep, pc[Client] # "exited", For("update"),
           NEW pre, NEW ms, NEW v \in Version, Joint(pre, "recv.data", ms), Owed(v),
           ms # <<>>, Head(ms) = Data(v)
    PROVE  /\ in'[Client] = pre \o <<Ack("DONE")>> /\ in'[Server] = Tail(ms)
           /\ pc'[Server] = "recv" /\ task' = task /\ cur'[Server] = cur[Server]
           /\ \A p \in Path : Keeps(p)
           /\ Kept(cur[Server].path)' /\ (Wiped => Wiped')
<1>1. ~Silent
  BY ServerNow
<1>2. in[Client] = pre /\ pc[Server] = "recv.data" /\ in[Server] = ms
      /\ task[Server] = "update"
  BY <1>1 DEF Joint, Serves, For
<1>3. Got(Server) = "DATA" /\ Head(in[Server]).version = v
  BY <1>2 DEF Got, Data
<1>4. ReceiveData(Server)
  BY <1>2, <1>3, ReceiverAt
<1>5. Says(<<Ack("DONE")>>) /\ pc'[Server] = "recv" /\ task' = task
  BY <1>2, <1>3, ReadsData DEF Received
<1>6. cur' = cur /\ cur[Server].path \in Path
      /\ dir' = [dir EXCEPT ![Server][cur[Server].path] = v]
  BY <1>3, <1>4, Sides DEF ReceiveData, Typed, Contents
<1>7. /\ dir'[Client] = dir[Client] /\ request' = request
      /\ \A p \in Path : dir'[Server][p] = IF p = cur[Server].path THEN v ELSE dir[Server][p]
  BY <1>6, ServerLeaves, Sides DEF Typed, Contents
<1>8. Kept(cur[Server].path)'
  BY <1>6, <1>7 DEF Owed, Kept
<1>9. \A p \in Path : Keeps(p)
  BY <1>6, <1>7, <1>8 DEF Keeps, Kept
<1>10. Wiped => Wiped'
  BY <1>6, <1>7, <1>8 DEF Wiped, Kept
<1> QED  BY <1>2, <1>5, <1>6, <1>8, <1>9, <1>10 DEF Says

LEMMA EndOn ==
    ASSUME Typed, ServerStep, pc[Client] # "exited", NEW pre, NEW ms,
           Joint(pre, "recv", ms), ms # <<>>, Head(ms) = Text("END")
    PROVE  /\ in'[Client] = pre \o <<Ack("END"), Ack("NOTHING")>> /\ in'[Server] = Tail(ms)
           /\ pc'[Server] = "free" /\ task' = task
           /\ \A p \in Path : Keeps(p)
           /\ Wiped => Wiped'
<1>1. ~Silent
  BY ServerNow
<1>2. in[Client] = pre /\ pc[Server] = "recv" /\ in[Server] = ms
  BY <1>1 DEF Joint, Serves
<1>3. Got(Server) = "END"
  BY <1>2 DEF Got, Text
<1>4. Says(<<Ack("END"), Ack("NOTHING")>>) /\ pc'[Server] = "free" /\ task' = task
  BY <1>2, <1>3, ReadsEnd
<1>5. dir' = dir /\ request' = request
  BY <1>2, ServerLeaves
<1> QED  BY <1>2, <1>4, <1>5, FolderStays DEF Says

\* What the client sends does not change meanwhile.
LEMMA ClientWaits ==
    ASSUME Typed, ServerStep, pc[Client] # "exited"
    PROVE  /\ ~Silent
           /\ UNCHANGED <<pc[Client], todo[Client], Here, TheCommand, TheInfo, Sent, Carries>>
           /\ TheFile => TheFile'
<1>1. /\ ~Silent /\ cur'[Client] = cur[Client] /\ pc'[Client] = pc[Client]
      /\ dir'[Client] = dir[Client] /\ todo'[Client] = todo[Client]
  BY ServerNow, ServerLeaves
<1> QED  BY <1>1 DEF Here, TheCommand, TheInfo, Sent, Carries, TheFile

LEMMA StoredOn ==
    ASSUME NEW S, \A p \in Path \ S : Keeps(p), Stored(S)
    PROVE  \A p \in Path \ S : Kept(p)'
BY DEF Stored, Keeps

\* What a step of the server keeps of an upload.
Goes == Wiped /\ For("update")

LEMMA ListServer ==
    ASSUME Typed, ServerStep, pc[Client] # "exited", Goes, ListAhead
    PROVE  ListAhead' /\ Goes'
<1>1. ~Silent /\ todo'[Client] = todo[Client]
  BY ClientWaits
<1>2. ~Joint(<<Ack("DONE")>>, "recv", <<>>)
  BY ServerNow
<1>3. PICK v \in Version : /\ Joint(<<>>, "recv.data", <<Data(v)>>) /\ Owed(v)
                           /\ Stored(todo[Client] \cup There)
  BY <1>2 DEF ListAhead
<1>4. <<Data(v)>> # <<>> /\ Head(<<Data(v)>>) = Data(v) /\ Tail(<<Data(v)>>) = <<>>
  BY Lists
<1>5. /\ in'[Client] = <<>> \o <<Ack("DONE")>> /\ in'[Server] = <<>>
      /\ pc'[Server] = "recv" /\ task' = task /\ cur'[Server] = cur[Server]
      /\ \A p \in Path : Keeps(p)
      /\ Kept(cur[Server].path)' /\ Wiped'
  BY <1>3, <1>4, DataOn DEF Goes
<1>6. in'[Client] = <<Ack("DONE")>>
  BY <1>5, Chains, Exchanged DEF Whats
<1>7. Stored(todo[Client])'
  <2>1. \A p \in Path \ (todo[Client] \cup There) : Kept(p)'
    BY <1>3, <1>5, StoredOn
  <2> QED  BY <1>1, <1>5, <2>1 DEF There, Stored
<1>8. Goes'
  BY <1>1, <1>5 DEF Goes, For
<1> QED  BY <1>5, <1>6, <1>7, <1>8 DEF ListAhead, Joint, Serves

LEMMA CommandServes ==
    ASSUME Typed, ServerStep, pc[Client] # "exited", Goes,
           cur[Client].word \in {"FILE", "FILE_DEL"}
    PROVE  /\ CommandInTime => CommandInTime' /\ Goes'
           /\ CommandAhead => CommandAhead' /\ Goes'
<1>1. ~Silent /\ UNCHANGED <<todo[Client], Here, TheCommand>>
  BY ClientWaits
<1>2. /\ ~Joint(<<Ack("COMMAND")>>, "recv.info", <<>>)
      /\ ~Joint(<<Ack("DONE"), Ack("COMMAND")>>, "recv.info", <<>>)
  BY ServerNow
<1>3. <<TheCommand>> # <<>> /\ Head(<<TheCommand>>) = TheCommand /\ Tail(<<TheCommand>>) = <<>>
  BY Lists
<1>4. TheCommand \in Message
  BY Exchanged
<1>5. ASSUME CommandInTime  PROVE CommandInTime' /\ Goes'
  <2>1. Joint(<<>>, "recv", <<TheCommand>>) /\ Stored(todo[Client] \cup Here)
    BY <1>2, <1>5 DEF CommandInTime
  <2>2. /\ in'[Client] = <<>> \o <<Ack("COMMAND")>> /\ in'[Server] = <<>>
        /\ pc'[Server] = "recv.info" /\ Told' /\ task' = task
        /\ \A p \in Path : Keeps(p)
        /\ Wiped'
    BY <1>3, <2>1, CommandOn DEF Goes
  <2>3. in'[Client] = <<Ack("COMMAND")>>
    BY <2>2, Chains, Exchanged DEF Whats
  <2>4. Stored(todo[Client] \cup Here)'
    BY <1>1, <2>1, <2>2, StoredOn DEF Stored
  <2> QED  BY <1>1, <2>2, <2>3, <2>4 DEF CommandInTime, Joint, Serves, Goes, For
<1>6. ASSUME CommandAhead, Joint(<<Ack("DONE")>>, "recv", <<TheCommand>>),
             Stored(todo[Client] \cup Here)
      PROVE  CommandAhead' /\ Goes'
  <2>1. /\ in'[Client] = <<Ack("DONE")>> \o <<Ack("COMMAND")>> /\ in'[Server] = <<>>
        /\ pc'[Server] = "recv.info" /\ Told' /\ task' = task
        /\ \A p \in Path : Keeps(p)
        /\ Wiped'
    BY <1>3, <1>6, CommandOn DEF Goes
  <2>2. in'[Client] = <<Ack("DONE"), Ack("COMMAND")>>
    BY <2>1, Chains, Exchanged DEF Whats
  <2>3. Stored(todo[Client] \cup Here)'
    BY <1>1, <1>6, <2>1, StoredOn DEF Stored
  <2> QED  BY <1>1, <2>1, <2>2, <2>3 DEF CommandAhead, Joint, Serves, Goes, For
<1>7. ASSUME NEW v \in Version, Joint(<<>>, "recv.data", <<Data(v), TheCommand>>), Owed(v),
             Stored(todo[Client] \cup Here \cup There)
      PROVE  CommandAhead' /\ Goes'
  <2>1. /\ <<Data(v), TheCommand>> # <<>> /\ Head(<<Data(v), TheCommand>>) = Data(v)
        /\ Tail(<<Data(v), TheCommand>>) = <<TheCommand>>
    BY Lists
  <2>2. /\ in'[Client] = <<>> \o <<Ack("DONE")>> /\ in'[Server] = <<TheCommand>>
        /\ pc'[Server] = "recv" /\ task' = task /\ cur'[Server] = cur[Server]
        /\ \A p \in Path : Keeps(p)
        /\ Kept(cur[Server].path)' /\ Wiped'
    BY <1>7, <2>1, DataOn DEF Goes
  <2>3. in'[Client] = <<Ack("DONE")>>
    BY <2>2, Chains, Exchanged DEF Whats
  <2>4. Stored(todo[Client] \cup Here)'
    <3>1. \A p \in Path \ (todo[Client] \cup Here \cup There) : Kept(p)'
      BY <1>7, <2>2, StoredOn
    <3> QED  BY <1>1, <2>2, <3>1 DEF There, Stored
  <2> QED  BY <1>1, <2>2, <2>3, <2>4 DEF CommandAhead, Joint, Serves, Goes, For
<1> QED  BY <1>2, <1>5, <1>6, <1>7 DEF CommandAhead

\* The files still due, when the server has read an info.
LEMMA InfoStores ==
    ASSUME Typed, ServerStep, pc[Client] # "exited", \A p \in Path \ Here : Keeps(p),
           Stored(todo[Client] \cup Here)
    PROVE  /\ Stored(todo[Client] \cup Here)'
           /\ Kept(cur[Client].path)' => Stored(todo[Client])'
<1>1. UNCHANGED <<todo[Client], Here>> /\ cur'[Client] = cur[Client]
  BY ClientWaits, ServerNow
<1>2. \A p \in Path \ (todo[Client] \cup Here) : Kept(p)'
  BY StoredOn
<1> QED  BY <1>1, <1>2 DEF Stored, Here

LEMMA InfoIsRead ==
    ASSUME Typed, ServerStep, pc[Client] \in Sending, Goes, TheFile, NEW pre, NEW ms,
           Joint(pre, "recv.info", ms), Told, Stored(todo[Client] \cup Here),
           ms # <<>>, Head(ms) = TheInfo
    PROVE  /\ in'[Server] = Tail(ms) /\ Same' /\ Goes'
           /\ Carries => /\ in'[Client] = pre \o <<Ack("INFO")>> /\ pc'[Server] = "recv.data"
                         /\ Stored(todo[Client] \cup Here)'
           /\ ~Carries => /\ in'[Client] = pre \o <<Ack("INFO"), Ack("DONE")>>
                          /\ pc'[Server] = "recv" /\ Stored(todo[Client])'
<1>1. ~Silent /\ pc[Client] # "exited"
  BY ClientWaits DEF Sending
<1>2. /\ in'[Server] = Tail(ms) /\ task' = task /\ Same'
      /\ \/ /\ Carries /\ in'[Client] = pre \o <<Ack("INFO")>>
            /\ pc'[Server] = "recv.data"
         \/ /\ ~Carries /\ in'[Client] = pre \o <<Ack("INFO"), Ack("DONE")>>
            /\ pc'[Server] = "recv" /\ Kept(cur[Client].path)'
      /\ \A p \in Path \ Here : Keeps(p)
      /\ Wiped'
  BY InfoOn DEF Goes
<1>3. /\ Stored(todo[Client] \cup Here)'
      /\ Kept(cur[Client].path)' => Stored(todo[Client])'
  BY <1>1, <1>2, InfoStores
<1>4. Goes'
  BY <1>1, <1>2 DEF Goes, For
<1> QED  BY <1>2, <1>3, <1>4

LEMMA InfoServes ==
    ASSUME Typed, ServerStep, pc[Client] \in Sending, Goes, TheFile, InfoInTime
    PROVE  InfoInTime' /\ Goes'
<1>1. pc[Client] # "exited" /\ UNCHANGED <<todo[Client], Here, TheInfo, Carries>>
  BY ClientWaits DEF Sending
<1>2. /\ ~Joint(<<Ack("INFO")>>, "recv.data", <<>>)
      /\ ~Joint(<<Ack("INFO"), Ack("DONE")>>, "recv", <<>>)
  BY <1>1, ServerNow
<1>3. Joint(<<>>, "recv.info", <<TheInfo>>) /\ Told /\ Stored(todo[Client] \cup Here)
  BY <1>2 DEF InfoInTime
<1>4. PICK ms : /\ Joint(<<>>, "recv.info", ms) /\ ms # <<>> /\ Head(ms) = TheInfo
                /\ Tail(ms) = <<>>
  BY <1>3, Lists
<1>5. /\ <<>> \o <<Ack("INFO")>> = <<Ack("INFO")>>
      /\ <<>> \o <<Ack("INFO"), Ack("DONE")>> = <<Ack("INFO"), Ack("DONE")>>
  BY Chains, Exchanged DEF Whats
<1>6. /\ in'[Server] = <<>> /\ Same' /\ Goes'
      /\ Carries => /\ in'[Client] = <<Ack("INFO")>> /\ pc'[Server] = "recv.data"
                    /\ Stored(todo[Client] \cup Here)'
      /\ ~Carries => /\ in'[Client] = <<Ack("INFO"), Ack("DONE")>>
                     /\ pc'[Server] = "recv" /\ Stored(todo[Client])'
  BY <1>3, <1>4, <1>5, InfoIsRead
<1> QED  BY <1>1, <1>6 DEF InfoInTime, Joint, Serves

LEMMA InfoServesAhead ==
    ASSUME Typed, ServerStep, pc[Client] \in Sending, Goes, TheFile, InfoAhead
    PROVE  InfoAhead' /\ Goes'
<1>1. /\ ~Silent /\ pc[Client] # "exited"
      /\ UNCHANGED <<todo[Client], Here, TheInfo, Carries>>
  BY ClientWaits DEF Sending
<1>2. /\ ~Joint(<<Ack("COMMAND"), Ack("INFO")>>, "recv.data", <<>>)
      /\ ~Joint(<<Ack("COMMAND"), Ack("INFO"), Ack("DONE")>>, "recv", <<>>)
  BY <1>1, ServerNow
<1>3. Ack("COMMAND") \in Message /\ Ack("INFO") \in Message /\ Ack("DONE") \in Message
  BY Exchanged DEF Whats
<1>4. CASE Joint(<<>>, "recv", <<TheCommand, TheInfo>>) /\ Stored(todo[Client] \cup Here)
  <2>1. cur[Client].word \in {"FILE", "FILE_DEL"}
    BY DEF TheFile
  <2>2. /\ <<TheCommand, TheInfo>> # <<>> /\ Head(<<TheCommand, TheInfo>>) = TheCommand
        /\ Tail(<<TheCommand, TheInfo>>) = <<TheInfo>>
    BY Lists
  <2>3. /\ in'[Client] = <<>> \o <<Ack("COMMAND")>> /\ in'[Server] = <<TheInfo>>
        /\ pc'[Server] = "recv.info" /\ Told' /\ task' = task
        /\ \A p \in Path : Keeps(p)
        /\ Wiped'
    BY <1>1, <1>4, <2>1, <2>2, CommandOn DEF Goes
  <2>4. in'[Client] = <<Ack("COMMAND")>>
    BY <1>3, <2>3, Chains
  <2>5. Stored(todo[Client] \cup Here)'
    BY <1>1, <1>4, <2>3, InfoStores
  <2> QED  BY <1>1, <2>3, <2>4, <2>5 DEF InfoAhead, Joint, Serves, Goes, For
<1>5. CASE /\ Joint(<<Ack("COMMAND")>>, "recv.info", <<TheInfo>>) /\ Told
           /\ Stored(todo[Client] \cup Here)
  <2>1. PICK ms : /\ Joint(<<Ack("COMMAND")>>, "recv.info", ms) /\ ms # <<>>
                  /\ Head(ms) = TheInfo /\ Tail(ms) = <<>>
    BY <1>5, Lists
  <2>2. /\ <<Ack("COMMAND")>> \o <<Ack("INFO")>> = <<Ack("COMMAND"), Ack("INFO")>>
        /\ <<Ack("COMMAND")>> \o <<Ack("INFO"), Ack("DONE")>>
             = <<Ack("COMMAND"), Ack("INFO"), Ack("DONE")>>
    BY <1>3, Chains
  <2>3. /\ in'[Server] = <<>> /\ Same' /\ Goes'
        /\ Carries => /\ in'[Client] = <<Ack("COMMAND"), Ack("INFO")>>
                      /\ pc'[Server] = "recv.data" /\ Stored(todo[Client] \cup Here)'
        /\ ~Carries => /\ in'[Client] = <<Ack("COMMAND"), Ack("INFO"), Ack("DONE")>>
                       /\ pc'[Server] = "recv" /\ Stored(todo[Client])'
    BY <1>5, <2>1, <2>2, InfoIsRead
  <2> QED  BY <1>1, <2>3 DEF InfoAhead, Joint, Serves
<1> QED  BY <1>2, <1>4, <1>5 DEF InfoAhead

\* The data that the server is sent is what the client has.
LEMMA SentIsOwed ==
    ASSUME Typed, Same
    PROVE  \E v \in Version : Sent = Data(v) /\ Owed(v)
<1>1. dir[Client][cur[Client].path] \in Version
  BY Sides DEF Typed, Contents
<1> QED  BY <1>1 DEF Sent, Owed, Same

\* The server stores the file that is due.
LEMMA DataStores ==
    ASSUME Typed, ServerStep, pc[Client] \in Sending, Goes, NEW pre,
           Joint(pre, "recv.data", <<Sent>>), Same, Stored(todo[Client] \cup Here)
    PROVE  /\ in'[Client] = pre \o <<Ack("DONE")>> /\ in'[Server] = <<>>
           /\ pc'[Server] = "recv" /\ Stored(todo[Client])' /\ Goes'
<1>1. ~Silent /\ pc[Client] # "exited" /\ UNCHANGED <<todo[Client], Here>>
  BY ClientWaits DEF Sending
<1>2. PICK v \in Version : Sent = Data(v) /\ Owed(v)
  BY SentIsOwed
<1>3. <<Data(v)>> # <<>> /\ Head(<<Data(v)>>) = Data(v) /\ Tail(<<Data(v)>>) = <<>>
  BY Lists
<1>4. Joint(pre, "recv.data", <<Data(v)>>)
  BY <1>2
<1>5. /\ in'[Client] = pre \o <<Ack("DONE")>> /\ in'[Server] = <<>>
      /\ pc'[Server] = "recv" /\ task' = task /\ cur'[Server] = cur[Server]
      /\ \A p \in Path : Keeps(p)
      /\ Kept(cur[Server].path)' /\ Wiped'
  BY <1>1, <1>2, <1>3, <1>4, DataOn DEF Goes
<1>6. cur'[Client] = cur[Client] /\ cur[Server].path = cur[Client].path
  BY <1>1, ServerNow DEF Same
<1>7. Kept(cur[Client].path)'
  BY <1>5, <1>6
<1>8. Stored(todo[Client])'
  BY <1>1, <1>5, <1>7, InfoStores
<1> QED  BY <1>1, <1>5, <1>8 DEF Goes, For

LEMMA EndServes ==
    ASSUME Typed, ServerStep, pc[Client] \in Sending, Goes, EndInTime
    PROVE  EndInTime' /\ Goes'
<1>1. ~Silent /\ pc[Client] # "exited"
  BY ClientWaits DEF Sending
<1>2. Joint(<<>>, "recv.data", <<Sent>>) /\ Same /\ Stored(todo[Client] \cup Here)
  BY <1>1, ServerNow DEF EndInTime
<1>3. /\ in'[Client] = <<>> \o <<Ack("DONE")>> /\ in'[Server] = <<>>
      /\ pc'[Server] = "recv" /\ Stored(todo[Client])' /\ Goes'
  BY <1>2, DataStores
<1>4. in'[Client] = <<Ack("DONE")>>
  BY <1>3, Chains, Exchanged DEF Whats
<1> QED  BY <1>3, <1>4 DEF EndInTime, Joint, Serves

LEMMA EndServesAhead ==
    ASSUME Typed, ServerStep, pc[Client] \in Sending, Goes, TheFile, EndAhead
    PROVE  EndAhead' /\ Goes'
<1>1. /\ ~Silent /\ pc[Client] # "exited"
      /\ UNCHANGED <<todo[Client], Here, TheInfo, Sent, Carries>>
  BY ClientWaits DEF Sending
<1>2. ~Joint(<<Ack("INFO"), Ack("DONE")>>, "recv", <<>>)
  BY <1>1, ServerNow
<1>3. /\ \A s \in Seq(Message) : <<>> \o s = s
      /\ <<Ack("INFO")>> \o <<Ack("DONE")>> = <<Ack("INFO"), Ack("DONE")>>
      /\ <<Ack("INFO")>> \in Seq(Message) /\ <<Ack("INFO"), Ack("DONE")>> \in Seq(Message)
  BY Joined, Chains, Exchanged, MessageSeqs DEF Whats
<1>4. ASSUME NEW ms, Joint(<<>>, "recv.info", ms), Told, Stored(todo[Client] \cup Here),
             ms # <<>>, Head(ms) = TheInfo
      PROVE  /\ in'[Server] = Tail(ms) /\ Same' /\ Goes'
             /\ Carries => /\ in'[Client] = <<Ack("INFO")>> /\ pc'[Server] = "recv.data"
                           /\ Stored(todo[Client] \cup Here)'
             /\ ~Carries => /\ in'[Client] = <<Ack("INFO"), Ack("DONE")>>
                            /\ pc'[Server] = "recv" /\ Stored(todo[Client])'
  BY <1>3, <1>4, InfoIsRead
<1>5. CASE /\ Joint(<<>>, "recv.info", <<TheInfo, Sent>>) /\ Told /\ Carries
           /\ Stored(todo[Client] \cup Here)
  <2>1. /\ <<TheInfo, Sent>> # <<>> /\ Head(<<TheInfo, Sent>>) = TheInfo
        /\ Tail(<<TheInfo, Sent>>) = <<Sent>>
    BY Lists
  <2> QED  BY <1>1, <1>4, <1>5, <2>1 DEF EndAhead, Joint, Serves
<1>6. CASE /\ Joint(<<>>, "recv.info", <<TheInfo>>) /\ Told /\ ~Carries
           /\ Stored(todo[Client] \cup Here)
  <2>1. <<TheInfo>> # <<>> /\ Head(<<TheInfo>>) = TheInfo /\ Tail(<<TheInfo>>) = <<>>
    BY Lists
  <2> QED  BY <1>4, <1>6, <2>1 DEF EndAhead, Joint, Serves
<1>7. CASE /\ Joint(<<Ack("INFO")>>, "recv.data", <<Sent>>) /\ Same
           /\ Stored(todo[Client] \cup Here)
  <2>1. /\ in'[Client] = <<Ack("INFO")>> \o <<Ack("DONE")>> /\ in'[Server] = <<>>
        /\ pc'[Server] = "recv" /\ Stored(todo[Client])' /\ Goes'
    BY <1>7, DataStores
  <2> QED  BY <1>3, <2>1 DEF EndAhead, Joint, Serves
<1> QED  BY <1>2, <1>5, <1>6, <1>7 DEF EndAhead

LEMMA EndOfAllServes ==
    ASSUME Typed, ServerStep, pc[Client] # "exited", Goes
    PROVE  /\ EndOfAllInTime => EndOfAllInTime' /\ Goes'
           /\ EndOfAllAhead => EndOfAllAhead' /\ Goes'
<1>1. ~Silent
  BY ServerNow
<1>2. /\ ~Joint(<<Ack("END"), Ack("NOTHING")>>, "free", <<>>)
      /\ ~Joint(<<Ack("DONE"), Ack("END"), Ack("NOTHING")>>, "free", <<>>)
  BY ServerNow
<1>3. /\ <<Text("END")>> # <<>> /\ Head(<<Text("END")>>) = Text("END")
      /\ Tail(<<Text("END")>>) = <<>>
  BY Lists
<1>4. Ack("END") \in Message /\ Ack("NOTHING") \in Message /\ Ack("DONE") \in Message
  BY Exchanged DEF Whats
<1>5. ASSUME NEW pre, Joint(pre, "recv", <<Text("END")>>), Stored({})
      PROVE  /\ in'[Client] = pre \o <<Ack("END"), Ack("NOTHING")>> /\ in'[Server] = <<>>
             /\ pc'[Server] = "free" /\ Stored({})' /\ Goes'
  <2>1. /\ in'[Client] = pre \o <<Ack("END"), Ack("NOTHING")>> /\ in'[Server] = <<>>
        /\ pc'[Server] = "free" /\ task' = task
        /\ \A p \in Path : Keeps(p)
        /\ Wiped'
    BY <1>3, <1>5, EndOn DEF Goes
  <2>2. Stored({})'
    BY <1>5, <2>1, StoredOn DEF Stored
  <2> QED  BY <1>1, <2>1, <2>2 DEF Goes, For
<1>6. ASSUME EndOfAllInTime  PROVE EndOfAllInTime' /\ Goes'
  <2>1. Joint(<<>>, "recv", <<Text("END")>>) /\ Stored({})
    BY <1>2, <1>6 DEF EndOfAllInTime
  <2>2. <<>> \o <<Ack("END"), Ack("NOTHING")>> = <<Ack("END"), Ack("NOTHING")>>
    BY <1>4, Chains
  <2> QED  BY <1>5, <2>1, <2>2 DEF EndOfAllInTime, Joint, Serves
<1>7. ASSUME Joint(<<Ack("DONE")>>, "recv", <<Text("END")>>), Stored({})
      PROVE  EndOfAllAhead' /\ Goes'
  <2>1. <<Ack("DONE")>> \o <<Ack("END"), Ack("NOTHING")>>
          = <<Ack("DONE"), Ack("END"), Ack("NOTHING")>>
    BY <1>4, Chains
  <2> QED  BY <1>5, <1>7, <2>1 DEF EndOfAllAhead, Joint, Serves
<1>8. ASSUME NEW v \in Version, Joint(<<>>, "recv.data", <<Data(v), Text("END")>>), Owed(v),
             Stored(There)
      PROVE  EndOfAllAhead' /\ Goes'
  <2>1. /\ <<Data(v), Text("END")>> # <<>> /\ Head(<<Data(v), Text("END")>>) = Data(v)
        /\ Tail(<<Data(v), Text("END")>>) = <<Text("END")>>
    BY Lists
  <2>2. /\ in'[Client] = <<>> \o <<Ack("DONE")>> /\ in'[Server] = <<Text("END")>>
        /\ pc'[Server] = "recv" /\ task' = task /\ cur'[Server] = cur[Server]
        /\ \A p \in Path : Keeps(p)
        /\ Kept(cur[Server].path)' /\ Wiped'
    BY <1>8, <2>1, DataOn DEF Goes
  <2>3. in'[Client] = <<Ack("DONE")>>
    BY <1>4, <2>2, Chains
  <2>4. Stored({})'
    <3>1. \A p \in Path \ There : Kept(p)'
      BY <1>8, <2>2, StoredOn
    <3> QED  BY <2>2, <3>1 DEF There, Stored
  <2> QED  BY <1>1, <2>2, <2>3, <2>4 DEF EndOfAllAhead, Joint, Serves, Goes, For
<1>9. ASSUME EndOfAllAhead  PROVE EndOfAllAhead' /\ Goes'
  <2>1. \/ Joint(<<Ack("DONE")>>, "recv", <<Text("END")>>) /\ Stored({})
        \/ \E v \in Version : /\ Joint(<<>>, "recv.data", <<Data(v), Text("END")>>)
                              /\ Owed(v) /\ Stored(There)
    BY <1>2, <1>9 DEF EndOfAllAhead
  <2> QED  BY <1>7, <1>8, <2>1
<1> QED  BY <1>6, <1>9

\* Data that the server waits for and does not get.
LEMMA DesertedServer ==
    ASSUME Typed, ServerStep, pc[Client] # "exited", Deserted
    PROVE  Deserted'
<1>1. /\ ~Silent /\ pc'[Client] = pc[Client] /\ in[Client] = <<>>
      /\ pc[Server] = "recv.data" /\ in[Server] # <<>> /\ Got(Server) # "DATA"
  BY ServerNow, ReceiverAt DEF Deserted, Got
<1>2. Misread(Server)
  BY <1>1, Sides
  DEF ServerStep, Exchange, SendInfo, SendData, SendEnds, SendNext, SendEnd, ReceiveCommand,
      ReceiveInfo, ReceiveData, HandleLogin, ParsePacket, OkOrUnknown, Update, Download,
      UploadEnds, DownloadEnds, HangUp, Comes
<1>3. pc'[Server] = "lost" /\ in' = in
  BY <1>2, Sides DEF Misread, Goto, Typed, Placed
<1> QED  BY <1>1, <1>3 DEF Deserted, Silent

\* Where the client is in an upload.
Stations == Sending \cup {"list", "end?"}

LEMMA AtStation ==
    ASSUME Course, task[Client] = "update", pc[Client] \notin Over
    PROVE  pc[Client] \in Stations /\ ~freezed /\ first_syncrinize
BY DEF Course, Joining, Fetching, Uploading, Watching, Stations

LEMMA InTimeServer ==
    ASSUME Typed, ServerStep, pc[Client] \in Stations, Goes, TheFile, InTime
    PROVE  InTime' /\ Goes'
<1>1. pc'[Client] = pc[Client] /\ pc[Client] # "exited"
  BY ServerNow DEF Stations, Sending
<1>2. CASE pc[Client] = "list"
  <2>1. ListInTime
    BY <1>2 DEF InTime
  <2> QED  BY <1>1, <1>2, <2>1, ServerNow DEF ListInTime
<1>3. CASE pc[Client] = "send.cmd"
  <2>1. CommandInTime /\ cur[Client].word \in {"FILE", "FILE_DEL"}
    BY <1>3 DEF InTime, TheFile, Sending
  <2>2. CommandInTime' /\ Goes'
    BY <1>1, <2>1, CommandServes
  <2> QED  BY <1>1, <1>3, <2>2 DEF InTime
<1>4. CASE pc[Client] = "send.info"
  <2>1. InfoInTime /\ pc[Client] \in Sending
    BY <1>4 DEF InTime, Sending
  <2>2. InfoInTime' /\ Goes'
    BY <2>1, InfoServes
  <2> QED  BY <1>1, <1>4, <2>2 DEF InTime
<1>5. CASE pc[Client] = "send.end"
  <2>1. EndInTime /\ pc[Client] \in Sending
    BY <1>5 DEF InTime, Sending
  <2>2. EndInTime' /\ Goes'
    BY <2>1, EndServes
  <2> QED  BY <1>1, <1>5, <2>2 DEF InTime
<1>6. CASE pc[Client] = "end?"
  <2>1. EndOfAllInTime
    BY <1>6 DEF InTime
  <2>2. EndOfAllInTime' /\ Goes'
    BY <1>1, <2>1, EndOfAllServes
  <2> QED  BY <1>1, <1>6, <2>2 DEF InTime
<1> QED  BY <1>2, <1>3, <1>4, <1>5, <1>6 DEF Stations, Sending

LEMMA AheadServer ==
    ASSUME Typed, ServerStep, pc[Client] \in Stations, Goes, TheFile, Ahead
    PROVE  Ahead' /\ Goes'
<1>1. pc'[Client] = pc[Client] /\ pc[Client] # "exited"
  BY ServerNow DEF Stations, Sending
<1>2. CASE pc[Client] = "list"
  <2>1. ListAhead
    BY <1>2 DEF Ahead
  <2>2. ListAhead' /\ Goes'
    BY <1>1, <2>1, ListServer
  <2> QED  BY <1>1, <1>2, <2>2 DEF Ahead
<1>3. CASE pc[Client] = "send.cmd"
  <2>1. CommandAhead /\ cur[Client].word \in {"FILE", "FILE_DEL"}
    BY <1>3 DEF Ahead, TheFile, Sending
  <2>2. CommandAhead' /\ Goes'
    BY <1>1, <2>1, CommandServes
  <2> QED  BY <1>1, <1>3, <2>2 DEF Ahead
<1>4. CASE pc[Client] = "send.info"
  <2>1. InfoAhead /\ pc[Client] \in Sending
    BY <1>4 DEF Ahead, Sending
  <2>2. InfoAhead' /\ Goes'
    BY <2>1, InfoServesAhead
  <2> QED  BY <1>1, <1>4, <2>2 DEF Ahead
<1>5. CASE pc[Client] = "send.end"
  <2>1. EndAhead /\ pc[Client] \in Sending
    BY <1>5 DEF Ahead, Sending
  <2>2. EndAhead' /\ Goes'
    BY <2>1, EndServesAhead
  <2> QED  BY <1>1, <1>5, <2>2 DEF Ahead
<1>6. CASE pc[Client] = "end?"
  <2>1. EndOfAllAhead
    BY <1>6 DEF Ahead
  <2>2. EndOfAllAhead' /\ Goes'
    BY <1>1, <2>1, EndOfAllServes
  <2> QED  BY <1>1, <1>6, <2>2 DEF Ahead
<1> QED  BY <1>2, <1>3, <1>4, <1>5, <1>6 DEF Stations, Sending

LEMMA StoringServer ==
    ASSUME Typed, Course, Storing, ServerStep
    PROVE  Storing'
<1>1. SUFFICES ASSUME task'[Client] = "update", faults' <= 1, pc'[Client] \notin Over
               PROVE  (Spoilt /\ faults > 0)' \/ Deserted' \/ Follows'
  BY DEF Storing
<1>2. /\ task[Client] = "update" /\ faults <= 1 /\ pc[Client] \notin Over /\ faults' = faults
      /\ \E ms \in Seq(Message) : in'[Client] = in[Client] \o ms
  BY <1>1, ServerDoes DEF ClientSide
<1>3. pc[Client] \in Stations /\ pc[Client] # "exited"
  BY <1>2, AtStation DEF Over
<1>4. CASE Spoilt /\ faults > 0
  BY <1>2, <1>4, SpoiltStays
<1>5. CASE Deserted
  BY <1>3, <1>5, DesertedServer
<1>6. CASE Follows
  <2>1. Goes /\ TheFile /\ TheFile'
    BY <1>3, <1>6, ClientWaits DEF Follows, Goes
  <2>2. CASE InTime
    BY <1>3, <2>1, <2>2, InTimeServer DEF Follows, Goes
  <2>3. CASE Ahead /\ faults > 0
    BY <1>2, <1>3, <2>1, <2>3, AheadServer DEF Follows, Goes
  <2> QED  BY <1>6, <2>2, <2>3 DEF Follows
<1> QED  BY <1>2, <1>4, <1>5, <1>6 DEF Storing

-----------------------------------------------------------------------------
(* The user, and what stops the server *)

\* The client waits; the server does, or stops.
Pauses ==
    /\ UNCHANGED <<pc[Client], in[Client], cur, task, todo[Client]>>
    /\ Silent' \/ UNCHANGED <<pc[Server], in[Server]>>
    /\ faults > 0 => faults' > 0
    /\ faults' <= 1 => faults <= 1
    /\ \A p \in Path : Keeps(p)
    /\ Wiped => Wiped'
    /\ TheFile => TheFile'
    /\ pc[Client] \in Sending => Sent' = Sent
    /\ \A v \in Version : Owed(v) => Owed(v)'

LEMMA JointStays ==
    ASSUME Pauses, NEW pre, NEW at, NEW ms, Joint(pre, at, ms)
    PROVE  in'[Client] = pre /\ (~Silent' => pc'[Server] = at /\ in'[Server] = ms)
BY DEF Pauses, Joint, Serves, Silent

LEMMA FileStays ==
    ASSUME Pauses
    PROVE  /\ UNCHANGED <<pc[Client], todo[Client], Here, There, TheCommand, TheInfo,
                          Carries, Same>>
           /\ Told => Told'
           /\ Stored({}) => Stored({})'
           /\ Stored(There) => Stored(There)'
           /\ Stored(todo[Client]) => Stored(todo[Client])'
           /\ Stored(todo[Client] \cup Here) => Stored(todo[Client] \cup Here)'
           /\ Stored(todo[Client] \cup There) => Stored(todo[Client] \cup There)'
           /\ Stored(todo[Client] \cup Here \cup There) =>
                Stored(todo[Client] \cup Here \cup There)'
<1>1. /\ UNCHANGED <<pc[Client], todo[Client], Here, There, TheCommand, TheInfo,
                     Carries, Same>>
      /\ Told => Told'
  BY DEF Pauses, Here, There, TheCommand, TheInfo, Carries, Same, Told, Silent
<1>2. \A p \in Path : Kept(p) => Kept(p)'
  BY DEF Pauses, Keeps
<1> QED  BY <1>1, <1>2 DEF Stored

LEMMA InfoInTimeStays ==
    ASSUME Pauses, InfoInTime
    PROVE  InfoInTime'
<1> USE JointStays, FileStays
<1>1. CASE Joint(<<>>, "recv.info", <<TheInfo>>) /\ Told /\ Stored(todo[Client] \cup Here)
  BY <1>1 DEF InfoInTime, Joint, Serves
<1>2. CASE /\ Joint(<<Ack("INFO")>>, "recv.data", <<>>) /\ Same /\ Carries
           /\ Stored(todo[Client] \cup Here)
  BY <1>2 DEF InfoInTime, Joint, Serves
<1>3. CASE /\ Joint(<<Ack("INFO"), Ack("DONE")>>, "recv", <<>>) /\ ~Carries
           /\ Stored(todo[Client])
  BY <1>3 DEF InfoInTime, Joint, Serves
<1> QED  BY <1>1, <1>2, <1>3 DEF InfoInTime

LEMMA EndInTimeStays ==
    ASSUME Pauses, EndInTime, Sent' = Sent
    PROVE  EndInTime'
<1> USE JointStays, FileStays
<1>1. CASE Joint(<<>>, "recv.data", <<Sent>>) /\ Same /\ Stored(todo[Client] \cup Here)
  BY <1>1 DEF EndInTime, Joint, Serves
<1>2. CASE Joint(<<Ack("DONE")>>, "recv", <<>>) /\ Stored(todo[Client])
  BY <1>2 DEF EndInTime, Joint, Serves
<1> QED  BY <1>1, <1>2 DEF EndInTime

LEMMA InTimeStays ==
    ASSUME Pauses, InTime
    PROVE  InTime'
<1>1. pc'[Client] = pc[Client]
  BY DEF Pauses
<1>2. CASE pc[Client] = "list"
  BY <1>2, JointStays, FileStays DEF InTime, ListInTime, Joint, Serves
<1>3. CASE pc[Client] = "send.cmd"
  BY <1>3, JointStays, FileStays DEF InTime, CommandInTime, Joint, Serves
<1>4. CASE pc[Client] = "send.info"
  BY <1>1, <1>4, InfoInTimeStays DEF InTime
<1>5. CASE pc[Client] = "send.end"
  BY <1>1, <1>5, EndInTimeStays DEF InTime, Pauses, Sending
<1>6. CASE pc[Client] = "end?"
  BY <1>6, JointStays, FileStays DEF InTime, EndOfAllInTime, Joint, Serves
<1> QED  BY <1>1, <1>2, <1>3, <1>4, <1>5, <1>6 DEF InTime

LEMMA InfoAheadStays ==
    ASSUME Pauses, InfoAhead
    PROVE  InfoAhead'
<1> USE JointStays, FileStays
<1>1. CASE Joint(<<>>, "recv", <<TheCommand, TheInfo>>) /\ Stored(todo[Client] \cup Here)
  BY <1>1 DEF InfoAhead, Joint, Serves
<1>2. CASE /\ Joint(<<Ack("COMMAND")>>, "recv.info", <<TheInfo>>) /\ Told
           /\ Stored(todo[Client] \cup Here)
  BY <1>2 DEF InfoAhead, Joint, Serves
<1>3. CASE /\ Joint(<<Ack("COMMAND"), Ack("INFO")>>, "recv.data", <<>>) /\ Same /\ Carries
           /\ Stored(todo[Client] \cup Here)
  BY <1>3 DEF InfoAhead, Joint, Serves
<1>4. CASE /\ Joint(<<Ack("COMMAND"), Ack("INFO"), Ack("DONE")>>, "recv", <<>>)
           /\ ~Carries /\ Stored(todo[Client])
  BY <1>4 DEF InfoAhead, Joint, Serves
<1> QED  BY <1>1, <1>2, <1>3, <1>4 DEF InfoAhead

LEMMA CommandAheadStays ==
    ASSUME Pauses, CommandAhead
    PROVE  CommandAhead'
<1> USE JointStays, FileStays
<1>1. CASE Joint(<<Ack("DONE")>>, "recv", <<TheCommand>>) /\ Stored(todo[Client] \cup Here)
  BY <1>1 DEF CommandAhead, Joint, Serves
<1>2. CASE /\ Joint(<<Ack("DONE"), Ack("COMMAND")>>, "recv.info", <<>>) /\ Told
           /\ Stored(todo[Client] \cup Here)
  BY <1>2 DEF CommandAhead, Joint, Serves
<1>3. ASSUME NEW v \in Version, Joint(<<>>, "recv.data", <<Data(v), TheCommand>>), Owed(v),
             Stored(todo[Client] \cup Here \cup There)
      PROVE  CommandAhead'
  <2>1. Owed(v)'
    BY <1>3 DEF Pauses
  <2>2. Stored(todo[Client] \cup Here \cup There)' /\ TheCommand' = TheCommand
    BY <1>3
  <2>3. Joint(<<>>, "recv.data", <<Data(v), TheCommand>>)'
    BY <1>3, <2>2 DEF Joint, Serves
  <2> QED  BY <2>1, <2>2, <2>3 DEF CommandAhead
<1> QED  BY <1>1, <1>2, <1>3 DEF CommandAhead

LEMMA EndAheadStays ==
    ASSUME Pauses, EndAhead, Sent' = Sent
    PROVE  EndAhead'
<1> USE JointStays, FileStays
<1>1. CASE /\ Joint(<<>>, "recv.info", <<TheInfo, Sent>>) /\ Told /\ Carries
           /\ Stored(todo[Client] \cup Here)
  BY <1>1 DEF EndAhead, Joint, Serves
<1>2. CASE /\ Joint(<<>>, "recv.info", <<TheInfo>>) /\ Told /\ ~Carries
           /\ Stored(todo[Client] \cup Here)
  BY <1>2 DEF EndAhead, Joint, Serves
<1>3. CASE /\ Joint(<<Ack("INFO")>>, "recv.data", <<Sent>>) /\ Same
           /\ Stored(todo[Client] \cup Here)
  BY <1>3 DEF EndAhead, Joint, Serves
<1>4. CASE Joint(<<Ack("INFO"), Ack("DONE")>>, "recv", <<>>) /\ Stored(todo[Client])
  BY <1>4 DEF EndAhead, Joint, Serves
<1> QED  BY <1>1, <1>2, <1>3, <1>4 DEF EndAhead

LEMMA AheadStays ==
    ASSUME Pauses, Ahead
    PROVE  Ahead'
<1>1. pc'[Client] = pc[Client] /\ \A v \in Version : Owed(v) => Owed(v)'
  BY DEF Pauses
<1>2. CASE pc[Client] = "list"
  BY <1>1, <1>2, JointStays, FileStays DEF Ahead, ListAhead, Joint, Serves
<1>3. CASE pc[Client] = "send.cmd"
  BY <1>1, <1>3, CommandAheadStays DEF Ahead
<1>4. CASE pc[Client] = "send.info"
  BY <1>1, <1>4, InfoAheadStays DEF Ahead
<1>5. CASE pc[Client] = "send.end"
  BY <1>1, <1>5, EndAheadStays DEF Ahead, Pauses, Sending
<1>6. CASE pc[Client] = "end?"
  BY <1>1, <1>6, JointStays, FileStays DEF Ahead, EndOfAllAhead, Joint, Serves
<1> QED  BY <1>1, <1>2, <1>3, <1>4, <1>5, <1>6 DEF Ahead

LEMMA StoringStays ==
    ASSUME Course, Storing, Pauses
    PROVE  Storing'
<1>1. SUFFICES ASSUME task'[Client] = "update", faults' <= 1, pc'[Client] \notin Over
               PROVE  (Spoilt /\ faults > 0)' \/ Deserted' \/ Follows'
  BY DEF Storing
<1>2. task[Client] = "update" /\ faults <= 1 /\ pc[Client] \notin Over
  BY <1>1 DEF Pauses
<1>3. CASE Spoilt /\ faults > 0
  BY <1>3 DEF Pauses, Spoilt
<1>4. CASE Deserted
  BY <1>4 DEF Pauses, Deserted, Silent
<1>5. CASE Follows
  <2>1. Wiped' /\ TheFile' /\ For("update")'
    BY <1>5 DEF Pauses, Follows, For, Silent
  <2>2. InTime' \/ (Ahead' /\ faults' > 0)
    BY <1>5, InTimeStays, AheadStays DEF Pauses, Follows
  <2> QED  BY <2>1, <2>2 DEF Follows
<1> QED  BY <1>2, <1>3, <1>4, <1>5 DEF Storing

\* The server stops.
LEMMA ServerPauses ==
    ASSUME Typed, ServerStops \/ ReadFails(Server)
    PROVE  Pauses /\ UNCHANGED <<dir, todo, request, sum, ignored>>
<1>1. UNCHANGED <<dir, todo, request, sum, ignored>>
  BY Sides DEF ServerStops, ReadFails, Drop, syncVars
<1>2. faults' <= 1 => faults <= 1
  BY DEF ServerStops, ReadFails, Typed, Contents
<1>3. (\A p \in Path : Keeps(p)) /\ (Wiped => Wiped')
  BY <1>1, FolderStays
<1>4. /\ Silent' /\ pc'[Client] = pc[Client] /\ in'[Client] = in[Client]
      /\ UNCHANGED <<task, cur>>
      /\ faults > 0 => faults' > 0
  BY ServerFails
<1>5. (TheFile => TheFile') /\ Sent' = Sent /\ \A v \in Version : Owed(v) => Owed(v)'
  BY <1>1, <1>4 DEF TheFile, Sent, Owed
<1> QED  BY <1>1, <1>2, <1>3, <1>4, <1>5 DEF Pauses

\* The user changes a file that is not being sent, and the watcher queues it.
LEMMA Edited ==
    ASSUME Typed, NEW p \in Path, Edit(p)
    PROVE  /\ UNCHANGED <<pc, in, cur, todo, task, sum, freezed, faults, dir[Server]>>
           /\ \A q \in Path \ {p} : /\ dir'[Client][q] = dir[Client][q]
                                    /\ request'[q] = request[q]
           /\ ~freezed => request'[p] # "none" /\ ignored' = ignored
           /\ Noted' = Noted \cup {p}
           /\ pc[Client] \in Sending \cup {"recv.data"} => cur[Client].path # p
<1>1. PICK v \in {0, 3 + edits} \ {dir[Client][p]} :
        /\ dir' = [dir EXCEPT ![Client][p] = v]
        /\ Sees(p, IF v = 0 THEN "erased"
                   ELSE IF dir[Client][p] = 0 THEN "created" ELSE "modified")
  BY DEF Edit
<1>2. dir'[Server] = dir[Server]
      /\ \A q \in Path \ {p} : dir'[Client][q] = dir[Client][q]
  BY <1>1, Sides DEF Typed, Contents
<1>3. /\ \A q \in Path \ {p} : request'[q] = request[q]
      /\ ~freezed => request'[p] # "none" /\ ignored' = ignored
      /\ p \in ignored' \/ request'[p] # "none"
      /\ ignored' \in {ignored, ignored \cup {p}}
      /\ request[p] # "none" => request'[p] # "none"
  BY <1>1 DEF Sees, Insert, Typed, Contents
<1>4. Noted' = Noted \cup {p}
  BY <1>3 DEF Noted
<1>5. /\ UNCHANGED <<pc, in, cur, todo, task, sum, freezed, faults>>
      /\ pc[Client] \in Sending \cup {"recv.data"} => cur[Client].path # p
  BY DEF Edit, Sending
<1> QED  BY <1>2, <1>3, <1>4, <1>5

LEMMA UserPauses ==
    ASSUME Typed, ~freezed, NEW p \in Path, Edit(p)
    PROVE  Pauses
<1>1. /\ UNCHANGED <<pc, in, cur, todo, task, faults, dir[Server]>>
      /\ \A q \in Path \ {p} : /\ dir'[Client][q] = dir[Client][q]
                               /\ request'[q] = request[q]
      /\ request'[p] # "none"
      /\ pc[Client] \in Sending => cur[Client].path # p
  BY Edited
<1>2. cur[Client].path \in Path /\ cur[Server].path \in Path
  BY Sides DEF Typed, Contents
<1>3. (\A q \in Path : Keeps(q)) /\ (Wiped => Wiped')
  BY <1>1 DEF Keeps, Kept, Wiped
<1>4. (TheFile => TheFile') /\ (pc[Client] \in Sending => Sent' = Sent)
  BY <1>1, <1>2 DEF TheFile, Sent
<1>5. \A v \in Version : Owed(v) => Owed(v)'
  BY <1>1, <1>2 DEF Owed
<1> QED  BY <1>1, <1>3, <1>4, <1>5 DEF Pauses

LEMMA StoringRests ==
    ASSUME Typed, Course, Storing,
           \/ UNCHANGED vars \/ ServerStops \/ ReadFails(Server)
           \/ \E p \in Path : Edit(p)
    PROVE  Storing'
<1>1. CASE UNCHANGED vars
  <2>1. Pauses
    <3>1. (\A p \in Path : Keeps(p)) /\ (Wiped => Wiped')
      BY <1>1, FolderStays DEF vars
    <3> QED  BY <1>1, <3>1 DEF vars, Pauses, TheFile, Sent, Owed
  <2> QED  BY <2>1, StoringStays
<1>2. CASE ServerStops \/ ReadFails(Server)
  BY <1>2, ServerPauses, StoringStays
<1>3. ASSUME NEW p \in Path, Edit(p)
      PROVE  Storing'
  <2>1. CASE ~freezed
    BY <1>3, <2>1, UserPauses, StoringStays
  <2>2. CASE freezed
    <3>1. task[Client] # "update"
      BY <2>2 DEF Course, Joining, Fetching, Uploading, Watching
    <3> QED  BY <1>3, <3>1, Edited DEF Storing
  <2> QED  BY <2>1, <2>2
<1> QED  BY <1>1, <1>2, <1>3

-----------------------------------------------------------------------------
(* The client uploads *)

\* The client goes on with what is at the server, and the folders stay.
GoesOn(ms) == Stays /\ Sends(ms) /\ UNCHANGED <<dir, request>>

LEMMA StillGoes ==
    ASSUME NEW ms, GoesOn(ms)
    PROVE  /\ Silent' = Silent
           /\ Goes => Goes'
           /\ \A p \in Path : Kept(p)' <=> Kept(p)
           /\ \A at, s : Serves(at, s) /\ ~Silent'
                => pc'[Server] = at /\ in'[Server] = s \o ms
<1>1. Silent' = Silent /\ (For("update") => For("update")')
  BY DEF GoesOn, Stays, Silent, For
<1>2. /\ \A p \in Path : Kept(p)' <=> Kept(p)
      /\ Wiped => Wiped'
  BY DEF GoesOn, Kept, Wiped
<1>3. \A at, s : Serves(at, s) /\ ~Silent'
                 => pc'[Server] = at /\ in'[Server] = s \o ms
  BY <1>1 DEF GoesOn, Stays, Sends, Serves
<1> QED  BY <1>1, <1>2, <1>3 DEF Goes

LEMMA InfoGoes ==
    ASSUME Typed, SendInfo(Client)
    PROVE  /\ pc[Client] = "send.cmd" /\ pc'[Client] = "send.info"
           /\ in'[Client] = Tail(in[Client]) /\ GoesOn(<<TheInfo>>)
           /\ UNCHANGED <<cur, todo, task>>
<1>1. /\ pc[Client] = "send.cmd" /\ in[Client] # <<>> /\ Answer(Client, <<TheInfo>>)
      /\ UNCHANGED <<cur, todo, task, dir, request>>
  BY DEF SendInfo, Comes, TheInfo, syncVars
<1>2. pc'[Client] = "send.info" /\ pc'[Server] = pc[Server]
  BY Sides DEF SendInfo, Goto, Typed, Placed
<1>3. /\ in'[Client] = Tail(in[Client]) /\ Sends(<<TheInfo>>)
      /\ conn' = "shut" => conn = "shut"
  BY <1>1, Exchanged, ClientSays, MessageSeqs
<1> QED  BY <1>1, <1>2, <1>3 DEF GoesOn, Stays

LEMMA InfoFollows ==
    ASSUME Typed, SendInfo(Client), Goes, TheFile
    PROVE  /\ Goes' /\ TheFile'
           /\ CommandInTime => InfoInTime'
           /\ CommandAhead => InfoAhead'
<1>1. /\ pc[Client] = "send.cmd" /\ pc'[Client] = "send.info" /\ in[Client] # <<>>
      /\ in'[Client] = Tail(in[Client]) /\ GoesOn(<<TheInfo>>)
      /\ UNCHANGED <<cur, todo, task, dir, request>>
  BY InfoGoes DEF SendInfo, Comes, GoesOn
<1>2. /\ Silent' = Silent /\ Goes'
      /\ \A p \in Path : Kept(p)' <=> Kept(p)
      /\ \A at, s : Serves(at, s) /\ ~Silent'
           => pc'[Server] = at /\ in'[Server] = s \o <<TheInfo>>
  BY <1>1, StillGoes
<1>3. /\ UNCHANGED <<TheCommand, TheInfo, Here>> /\ (Told => Told')
      /\ Stored(todo[Client] \cup Here) => Stored(todo[Client] \cup Here)'
  BY <1>1, <1>2 DEF TheCommand, TheInfo, Here, Told, Stored
<1>4. TheFile' /\ TheCommand \in Message /\ TheInfo \in Message
  BY <1>1, Exchanged DEF TheFile, Sending
<1>5. ASSUME CommandInTime  PROVE InfoInTime'
  <2>1. /\ Joint(<<Ack("COMMAND")>>, "recv.info", <<>>) /\ Told
        /\ Stored(todo[Client] \cup Here)
    BY <1>1, <1>5 DEF CommandInTime, Joint
  <2>2. in'[Client] = <<>> /\ <<>> \o <<TheInfo>> = <<TheInfo>>
    BY <1>1, <1>4, <2>1, Lists, Chains DEF Joint
  <2>3. Joint(<<>>, "recv.info", <<TheInfo>>)'
    BY <1>2, <1>3, <2>1, <2>2 DEF Joint, Serves
  <2> QED  BY <1>3, <2>1, <2>3 DEF InfoInTime
<1>6. ASSUME Joint(<<Ack("DONE")>>, "recv", <<TheCommand>>), Stored(todo[Client] \cup Here)
      PROVE  InfoAhead'
  <2>1. in'[Client] = <<>> /\ <<TheCommand>> \o <<TheInfo>> = <<TheCommand, TheInfo>>
    BY <1>1, <1>4, <1>6, Lists, Chains DEF Joint
  <2>2. Joint(<<>>, "recv", <<TheCommand, TheInfo>>)'
    BY <1>2, <1>3, <1>6, <2>1 DEF Joint, Serves
  <2> QED  BY <1>3, <1>6, <2>2 DEF InfoAhead
<1>7. ASSUME Joint(<<Ack("DONE"), Ack("COMMAND")>>, "recv.info", <<>>), Told,
             Stored(todo[Client] \cup Here)
      PROVE  InfoAhead'
  <2>1. in'[Client] = <<Ack("COMMAND")>> /\ <<>> \o <<TheInfo>> = <<TheInfo>>
    BY <1>1, <1>4, <1>7, Lists, Chains DEF Joint
  <2>2. Joint(<<Ack("COMMAND")>>, "recv.info", <<TheInfo>>)'
    BY <1>2, <1>3, <1>7, <2>1 DEF Joint, Serves
  <2> QED  BY <1>3, <1>7, <2>2 DEF InfoAhead
<1>8. CommandAhead => InfoAhead'
  BY <1>1, <1>6, <1>7 DEF CommandAhead, Joint
<1> QED  BY <1>2, <1>4, <1>5, <1>8

LEMMA DataGoes ==
    ASSUME Typed, SendData(Client), TheFile
    PROVE  /\ pc[Client] = "send.info" /\ pc'[Client] = "send.end"
           /\ in'[Client] = Tail(in[Client]) /\ UNCHANGED <<cur, todo, task>>
           /\ Got(Client) = "ACK" /\ Carries => GoesOn(<<Sent>>)
           /\ ~Carries => GoesOn(<<>>)
<1>1. /\ pc[Client] = "send.info"
      /\ UNCHANGED <<cur, todo, task, dir, request>>
  BY DEF SendData, Comes
<1>2. SentOn(dir[Client][cur[Client].path])
  BY SendsOn
<1>3. cur[Client].status # "erased"
  BY <1>1 DEF TheFile, Sending
<1>4. /\ Got(Client) = "ACK" /\ Carries => GoesOn(<<Sent>>)
      /\ ~Carries => GoesOn(<<>>)
  BY <1>1, <1>2, <1>3 DEF SentOn, GoesOn, Carries, Sent
<1> QED  BY <1>1, <1>2, <1>4 DEF SentOn

LEMMA DataFollows ==
    ASSUME Typed, SendData(Client), Goes, TheFile
    PROVE  /\ InfoInTime \/ InfoAhead => Goes' /\ TheFile'
           /\ InfoInTime => EndInTime'
           /\ InfoAhead => EndAhead'
<1>1. /\ pc[Client] = "send.info" /\ pc'[Client] = "send.end" /\ in[Client] # <<>>
      /\ in'[Client] = Tail(in[Client]) /\ UNCHANGED <<cur, todo, task, dir, request>>
      /\ Got(Client) = "ACK" /\ Carries => GoesOn(<<Sent>>)
      /\ ~Carries => GoesOn(<<>>)
  BY DataGoes DEF SendData, Comes
<1>2. /\ UNCHANGED <<TheInfo, Sent, Carries, Here>>
      /\ Sent \in Message /\ TheInfo \in Message
      /\ \A of \in Whats : Ack(of) \in Message
  <2>1. dir[Client][cur[Client].path] \in Version
    BY Sides DEF Typed, Contents
  <2> QED  BY <1>1, <2>1, Exchanged DEF TheInfo, Sent, Carries, Here
<1>3. TheFile'
  BY <1>1 DEF TheFile, Sending
<1>4. /\ \A p \in Path : Kept(p)' <=> Kept(p)
      /\ Stored(todo[Client] \cup Here) => Stored(todo[Client] \cup Here)'
      /\ Stored(todo[Client]) => Stored(todo[Client])'
  BY <1>1, <1>2 DEF Kept, Stored
<1>5. InfoInTime \/ InfoAhead => Got(Client) = "ACK"
  BY <1>1, Lists, Chains DEF InfoInTime, InfoAhead, Joint, Got, Ack, Reply
<1>6. ASSUME InfoInTime \/ InfoAhead
      PROVE  \E ms \in {<<>>, <<Sent>>} : GoesOn(ms) /\ (Carries <=> ms = <<Sent>>)
  BY <1>1, <1>5, <1>6
<1>7. InfoInTime \/ InfoAhead =>
        Goes' /\ Silent' = Silent /\ UNCHANGED <<cur[Server].path>> /\ (Told => Told')
  BY <1>1, <1>6, StillGoes DEF GoesOn, Stays, Told
<1>8. ASSUME NEW at, NEW ms \in Seq(Message), Serves(at, ms), InfoInTime \/ InfoAhead
      PROVE  ~Silent' => /\ pc'[Server] = at
                         /\ in'[Server] = IF Carries THEN ms \o <<Sent>> ELSE ms
  <2>1. CASE Carries
    <3>1. GoesOn(<<Sent>>)
      BY <1>1, <1>5, <1>8, <2>1
    <3>2. ~Silent' => pc'[Server] = at /\ in'[Server] = ms \o <<Sent>>
      BY <1>8, <3>1, StillGoes
    <3> QED  BY <2>1, <3>2
  <2>2. CASE ~Carries
    <3>1. GoesOn(<<>>) /\ ms \o <<>> = ms
      BY <1>1, <2>2, Joined
    <3>2. ~Silent' => pc'[Server] = at /\ in'[Server] = ms \o <<>>
      BY <1>8, <3>1, StillGoes
    <3> QED  BY <2>2, <3>1, <3>2
  <2> QED  BY <2>1, <2>2
<1>9. ASSUME InfoInTime  PROVE EndInTime'
  <2>1. ASSUME Joint(<<Ack("INFO")>>, "recv.data", <<>>), Same, Carries,
               Stored(todo[Client] \cup Here)
        PROVE  EndInTime'
    <3>1. in'[Client] = <<>> /\ <<>> \o <<Sent>> = <<Sent>>
      BY <1>1, <1>2, <2>1, Lists, Chains DEF Joint
    <3>2. Joint(<<>>, "recv.data", <<Sent>>)'
      BY <1>2, <1>8, <1>9, <2>1, <3>1, MessageSeqs DEF Joint, Serves
    <3> QED  BY <1>1, <1>4, <2>1, <3>2 DEF EndInTime, Same
  <2>2. ASSUME Joint(<<Ack("INFO"), Ack("DONE")>>, "recv", <<>>), ~Carries,
               Stored(todo[Client])
        PROVE  EndInTime'
    <3>1. in'[Client] = <<Ack("DONE")>>
      BY <1>1, <2>2, Lists DEF Joint
    <3>2. Joint(<<Ack("DONE")>>, "recv", <<>>)'
      BY <1>8, <1>9, <2>2, <3>1, MessageSeqs DEF Joint, Serves
    <3> QED  BY <1>4, <2>2, <3>2 DEF EndInTime
  <2> QED  BY <1>1, <1>9, <2>1, <2>2 DEF InfoInTime, Joint
<1>10. ASSUME InfoAhead  PROVE EndAhead'
  <2>1. ASSUME Joint(<<Ack("COMMAND")>>, "recv.info", <<TheInfo>>), Told,
               Stored(todo[Client] \cup Here)
        PROVE  EndAhead'
    <3>1. in'[Client] = <<>> /\ <<TheInfo>> \o <<Sent>> = <<TheInfo, Sent>>
      BY <1>1, <1>2, <2>1, Lists, Chains DEF Joint
    <3>2. <<TheInfo>> \in Seq(Message)
      BY <1>2, MessageSeqs
    <3>3. Carries => Joint(<<>>, "recv.info", <<TheInfo, Sent>>)'
      BY <1>2, <1>8, <1>10, <2>1, <3>1, <3>2 DEF Joint, Serves
    <3>4. ~Carries => Joint(<<>>, "recv.info", <<TheInfo>>)'
      BY <1>2, <1>8, <1>10, <2>1, <3>1, <3>2 DEF Joint, Serves
    <3>5. Told' /\ Carries' = Carries /\ Stored(todo[Client] \cup Here)'
      BY <1>2, <1>4, <1>7, <1>10, <2>1
    <3> QED  BY <3>3, <3>4, <3>5 DEF EndAhead
  <2>2. ASSUME Joint(<<Ack("COMMAND"), Ack("INFO")>>, "recv.data", <<>>), Same, Carries,
               Stored(todo[Client] \cup Here)
        PROVE  EndAhead'
    <3>1. in'[Client] = <<Ack("INFO")>> /\ <<>> \o <<Sent>> = <<Sent>>
      BY <1>1, <1>2, <2>2, Lists, Chains DEF Joint
    <3>2. Joint(<<Ack("INFO")>>, "recv.data", <<Sent>>)'
      BY <1>2, <1>8, <1>10, <2>2, <3>1, MessageSeqs DEF Joint, Serves
    <3> QED  BY <1>1, <1>4, <2>2, <3>2 DEF EndAhead, Same
  <2>3. ASSUME Joint(<<Ack("COMMAND"), Ack("INFO"), Ack("DONE")>>, "recv", <<>>), ~Carries,
               Stored(todo[Client])
        PROVE  EndAhead'
    <3>1. in'[Client] = <<Ack("INFO"), Ack("DONE")>>
      BY <1>1, <1>2, <2>3, Chains DEF Joint, Whats
    <3>2. Joint(<<Ack("INFO"), Ack("DONE")>>, "recv", <<>>)'
      BY <1>8, <1>10, <2>3, <3>1, MessageSeqs DEF Joint, Serves
    <3> QED  BY <1>4, <2>3, <3>2 DEF EndAhead
  <2> QED  BY <1>1, <1>10, <2>1, <2>2, <2>3 DEF InfoAhead, Joint
<1> QED  BY <1>3, <1>7, <1>9, <1>10

LEMMA EndFollows ==
    ASSUME Typed, SendEnds(Client), task[Client] = "update", Goes
    PROVE  /\ pc'[Client] = "list" /\ Goes'
           /\ EndInTime => ListInTime'
           /\ EndAhead => ListAhead'
<1>1. /\ pc[Client] = "send.end" /\ in[Client] # <<>> /\ Answer(Client, <<>>)
      /\ UNCHANGED <<cur, todo, task, dir, request>>
  BY DEF SendEnds, Comes, syncVars
<1>2. pc'[Client] = "list" /\ pc'[Server] = pc[Server]
  BY Sides DEF SendEnds, Goto, Typed, Placed
<1>3. in'[Client] = Tail(in[Client]) /\ GoesOn(<<>>)
  BY <1>1, <1>2, ClientSays, MessageSeqs DEF GoesOn, Stays
<1>4. /\ Silent' = Silent /\ Goes' /\ \A p \in Path : Kept(p)' <=> Kept(p)
  BY <1>3, StillGoes
<1>5. \A at, ms : Serves(at, ms) => Serves(at, ms)'
  BY <1>2, <1>3, StillServes DEF GoesOn
<1>6. /\ Stored(todo[Client]) => Stored(todo[Client])'
      /\ Stored(todo[Client] \cup There) => Stored(todo[Client] \cup There)'
  BY <1>1, <1>4 DEF Stored, There
<1>7. ASSUME EndInTime  PROVE ListInTime'
  <2>1. Joint(<<Ack("DONE")>>, "recv", <<>>) /\ Stored(todo[Client])
    BY <1>1, <1>7 DEF EndInTime, Joint
  <2>2. in'[Client] = <<>> /\ Serves("recv", <<>>)'
    BY <1>3, <1>5, <2>1, Lists DEF Joint
  <2> QED  BY <1>6, <2>1, <2>2 DEF ListInTime, Joint
<1>8. ASSUME Joint(<<Ack("INFO")>>, "recv.data", <<Sent>>), Same,
             Stored(todo[Client] \cup Here)
      PROVE  ListAhead'
  <2>1. PICK v \in Version : Sent = Data(v) /\ Owed(v)
    BY <1>8, SentIsOwed
  <2>2. Serves("recv.data", <<Data(v)>>)
    BY <1>8, <2>1 DEF Joint
  <2>3. in'[Client] = <<>> /\ (~Silent' => pc'[Server] = "recv.data" /\ in'[Server] = <<Data(v)>>)
    BY <1>1, <1>3, <1>5, <1>8, <2>2, Lists DEF Joint, Serves
  <2>4. Owed(v)'
    BY <1>1, <2>1 DEF Owed
  <2>5. Stored(todo[Client] \cup There)'
    BY <1>6, <1>8 DEF Same, Here, There
  <2> QED  BY <2>3, <2>4, <2>5 DEF ListAhead, Joint, Serves
<1>9. ASSUME Joint(<<Ack("INFO"), Ack("DONE")>>, "recv", <<>>), Stored(todo[Client])
      PROVE  ListAhead'
  <2>1. in'[Client] = <<Ack("DONE")>> /\ Serves("recv", <<>>)'
    BY <1>3, <1>5, <1>9, Lists DEF Joint
  <2> QED  BY <1>6, <1>9, <2>1 DEF ListAhead, Joint
<1>10. EndAhead => ListAhead'
  BY <1>1, <1>8, <1>9 DEF EndAhead, Joint
<1> QED  BY <1>2, <1>4, <1>7, <1>10

\* The next file.
LEMMA NextGoes ==
    ASSUME Typed, SendNext(Client)
    PROVE  \E p \in todo[Client] :
             /\ pc[Client] = "list" /\ pc'[Client] = "send.cmd" /\ in'[Client] = in[Client]
             /\ cur'[Client].path = p /\ todo'[Client] = todo[Client] \ {p}
             /\ TheCommand' \in Message /\ TheCommand'.w # "DATA"
             /\ GoesOn(<<TheCommand'>>) /\ TheFile' /\ task' = task
<1>1. PICK p \in todo[Client] :
        /\ todo' = [todo EXCEPT ![Client] = @ \ {p}]
        /\ Post(Client, <<Command(Client, p)>>) /\ Begin(Client, p, "modified")
  BY DEF SendNext
<1>2. p \in Path
  BY Sides DEF Typed, Contents
<1>3. pc[Client] = "list" /\ UNCHANGED <<task, dir, request>>
  BY DEF SendNext, syncVars
<1>4. /\ cur'[Client].word = (IF dir[Client][p] = 0 THEN "FILE_DEL" ELSE "FILE")
      /\ cur'[Client].status = "modified" /\ cur'[Client].path = p
      /\ cur'[Server] = cur[Server] /\ todo'[Client] = todo[Client] \ {p}
      /\ pc'[Client] = "send.cmd" /\ pc'[Server] = pc[Server]
  BY <1>1, Sides DEF Begin, Goto, Typed, Placed, Contents
<1>5. /\ Command(Client, p) \in Message /\ Command(Client, p) = TheCommand'
      /\ TheCommand'.w # "DATA"
  BY <1>2, <1>4, Spoken, Sides DEF Command, TheCommand, Text
<1>6. /\ in'[Client] = in[Client] /\ Sends(<<TheCommand'>>)
      /\ conn' = "shut" => conn = "shut"
  BY <1>1, <1>5, ClientPosts, MessageSeqs
<1>7. GoesOn(<<TheCommand'>>) /\ TheFile'
  BY <1>3, <1>4, <1>6 DEF GoesOn, Stays, TheFile
<1> QED  BY <1>3, <1>4, <1>5, <1>6, <1>7

LEMMA NextFollows ==
    ASSUME Typed, SendNext(Client), Goes
    PROVE  /\ Goes' /\ TheFile'
           /\ ListInTime => CommandInTime'
           /\ ListAhead => CommandAhead'
<1>1. PICK p \in todo[Client] :
        /\ in'[Client] = in[Client]
        /\ cur'[Client].path = p /\ todo'[Client] = todo[Client] \ {p}
        /\ TheCommand' \in Message /\ GoesOn(<<TheCommand'>>) /\ TheFile'
  BY NextGoes
<1>2. PICK m \in Message : m = TheCommand' /\ GoesOn(<<m>>)
  BY <1>1
<1>3. /\ Silent' = Silent /\ Goes'
      /\ \A q \in Path : Kept(q)' <=> Kept(q)
      /\ \A at, s : Serves(at, s) /\ ~Silent'
           => pc'[Server] = at /\ in'[Server] = s \o <<m>>
  BY <1>2, StillGoes
<1>4. /\ Here' = {p} /\ There' = There /\ todo[Client] = todo'[Client] \cup Here'
      /\ dir' = dir /\ request' = request /\ cur'[Server] = cur[Server]
  BY <1>1 DEF Here, There, GoesOn, Stays
<1>5. /\ Stored(todo[Client]) => Stored(todo[Client] \cup Here)'
      /\ Stored(todo[Client] \cup There) => Stored(todo[Client] \cup Here \cup There)'
  BY <1>3, <1>4 DEF Stored
<1>6. ASSUME ListInTime  PROVE CommandInTime'
  <2>1. in'[Client] = <<>> /\ <<>> \o <<m>> = <<m>>
    BY <1>1, <1>6, Chains DEF ListInTime, Joint
  <2>2. Joint(<<>>, "recv", <<TheCommand>>)'
    BY <1>2, <1>3, <1>6, <2>1 DEF ListInTime, Joint, Serves
  <2> QED  BY <1>5, <1>6, <2>2 DEF ListInTime, CommandInTime
<1>7. ASSUME Joint(<<Ack("DONE")>>, "recv", <<>>), Stored(todo[Client])
      PROVE  CommandAhead'
  <2>1. in'[Client] = <<Ack("DONE")>> /\ <<>> \o <<m>> = <<m>>
    BY <1>1, <1>7, Chains DEF Joint
  <2>2. Joint(<<Ack("DONE")>>, "recv", <<TheCommand>>)'
    BY <1>2, <1>3, <1>7, <2>1 DEF Joint, Serves
  <2> QED  BY <1>5, <1>7, <2>2 DEF CommandAhead
<1>8. ASSUME NEW v \in Version, Joint(<<>>, "recv.data", <<Data(v)>>), Owed(v),
             Stored(todo[Client] \cup There)
      PROVE  CommandAhead'
  <2>1. in'[Client] = <<>> /\ <<Data(v)>> \o <<m>> = <<Data(v), m>>
    BY <1>1, <1>8, Chains, Exchanged DEF Joint
  <2>2. Joint(<<>>, "recv.data", <<Data(v), TheCommand>>)'
    BY <1>2, <1>3, <1>8, <2>1 DEF Joint, Serves
  <2>3. Owed(v)'
    BY <1>4, <1>8 DEF Owed
  <2> QED  BY <1>5, <1>8, <2>2, <2>3 DEF CommandAhead
<1> QED  BY <1>1, <1>3, <1>6, <1>7, <1>8 DEF ListAhead

\* The end of the listing.
LEMMA ListingGoes ==
    ASSUME Typed, SendEnd(Client)
    PROVE  /\ pc[Client] = "list" /\ pc'[Client] = "end?" /\ in'[Client] = in[Client]
           /\ todo[Client] = {} /\ GoesOn(<<Text("END")>>) /\ UNCHANGED <<cur, todo, task>>
<1>1. /\ pc[Client] = "list" /\ todo[Client] = {} /\ Post(Client, <<Text("END")>>)
      /\ UNCHANGED <<cur, todo, task, dir, request>>
  BY DEF SendEnd, syncVars
<1>2. pc'[Client] = "end?" /\ pc'[Server] = pc[Server]
  BY Sides DEF SendEnd, Goto, Typed, Placed
<1>3. Text("END") \in Message
  BY MessagesMade DEF Words
<1>4. /\ in'[Client] = in[Client] /\ Sends(<<Text("END")>>)
      /\ conn' = "shut" => conn = "shut"
  BY <1>1, <1>3, ClientPosts, MessageSeqs
<1> QED  BY <1>1, <1>2, <1>4 DEF GoesOn, Stays

LEMMA ListingFollows ==
    ASSUME Typed, SendEnd(Client), Goes
    PROVE  /\ Goes'
           /\ ListInTime => EndOfAllInTime'
           /\ ListAhead => EndOfAllAhead'
<1>1. /\ in'[Client] = in[Client] /\ todo[Client] = {}
      /\ GoesOn(<<Text("END")>>) /\ UNCHANGED <<cur, todo, task>>
  BY ListingGoes
<1>2. /\ Silent' = Silent /\ Goes'
      /\ \A q \in Path : Kept(q)' <=> Kept(q)
      /\ \A at, s : Serves(at, s) /\ ~Silent'
           => pc'[Server] = at /\ in'[Server] = s \o <<Text("END")>>
  BY <1>1, StillGoes
<1>3. /\ Stored(todo[Client]) => Stored({})'
      /\ Stored(todo[Client] \cup There) => Stored(There)'
  BY <1>1, <1>2 DEF Stored, There
<1>4. Text("END") \in Message
  BY MessagesMade DEF Words
<1>5. ASSUME ListInTime  PROVE EndOfAllInTime'
  <2>1. in'[Client] = <<>> /\ <<>> \o <<Text("END")>> = <<Text("END")>>
    BY <1>1, <1>4, <1>5, Chains DEF ListInTime, Joint
  <2>2. Joint(<<>>, "recv", <<Text("END")>>)'
    BY <1>2, <1>5, <2>1 DEF ListInTime, Joint, Serves
  <2> QED  BY <1>3, <1>5, <2>2 DEF ListInTime, EndOfAllInTime
<1>6. ASSUME Joint(<<Ack("DONE")>>, "recv", <<>>), Stored(todo[Client])
      PROVE  EndOfAllAhead'
  <2>1. in'[Client] = <<Ack("DONE")>> /\ <<>> \o <<Text("END")>> = <<Text("END")>>
    BY <1>1, <1>4, <1>6, Chains DEF Joint
  <2>2. Joint(<<Ack("DONE")>>, "recv", <<Text("END")>>)'
    BY <1>2, <1>6, <2>1 DEF Joint, Serves
  <2> QED  BY <1>3, <1>6, <2>2 DEF EndOfAllAhead
<1>7. ASSUME NEW v \in Version, Joint(<<>>, "recv.data", <<Data(v)>>), Owed(v),
             Stored(todo[Client] \cup There)
      PROVE  EndOfAllAhead'
  <2>1. in'[Client] = <<>> /\ <<Data(v)>> \o <<Text("END")>> = <<Data(v), Text("END")>>
    BY <1>1, <1>4, <1>7, Chains, Exchanged DEF Joint
  <2>2. Joint(<<>>, "recv.data", <<Data(v), Text("END")>>)'
    BY <1>2, <1>7, <2>1 DEF Joint, Serves
  <2>3. Owed(v)'
    BY <1>1, <1>7 DEF Owed, GoesOn
  <2> QED  BY <1>3, <1>7, <2>2, <2>3 DEF EndOfAllAhead
<1> QED  BY <1>2, <1>5, <1>6, <1>7 DEF ListAhead

\* A client nobody answers sends its listing all the same.
LEMMA DesertedSends ==
    ASSUME Typed, Deserted, SendNext(Client) \/ SendEnd(Client)
    PROVE  Deserted'
<1>1. PICK m \in Message : /\ GoesOn(<<m>>) /\ m.w # "DATA" /\ in'[Client] = in[Client]
                           /\ pc'[Client] \in {"send.cmd", "end?"}
  <2>1. CASE SendNext(Client)
    BY <2>1, NextGoes
  <2>2. CASE SendEnd(Client)
    <3>1. Text("END") \in Message /\ Text("END").w # "DATA"
      BY MessagesMade DEF Words, Text
    <3> QED  BY <2>2, <3>1, ListingGoes
  <2> QED  BY <2>1, <2>2
<1>2. CASE Silent
  BY <1>1, <1>2, StillGoes DEF Deserted
<1>3. CASE ~Silent
  <2>1. /\ pc'[Server] = "recv.data" /\ in'[Server] = in[Server] \o <<m>>
        /\ in[Server] # <<>> => Head(in[Server]).w # "DATA"
    BY <1>1, <1>3 DEF Deserted, GoesOn, Stays, Sends
  <2>2. Head(in'[Server]).w # "DATA"
    <3>1. in[Server] \in Seq(Message) /\ <<m>> \in Seq(Message)
      BY Reading, MessageSeqs, Sides DEF Typed
    <3>2. CASE in[Server] = <<>>
      BY <1>1, <2>1, <3>2, Chains, Lists
    <3>3. CASE in[Server] # <<>>
      BY <2>1, <3>1, <3>3, Joined
    <3> QED  BY <3>2, <3>3
  <2> QED  BY <1>1, <2>1, <2>2 DEF Deserted
<1> QED  BY <1>2, <1>3

\* The server has wiped its folder, and the client begins with its listing.
LEMMA UploadStarts ==
    ASSUME Typed, Granted, UpdateGranted
    PROVE  Follows'
<1>1. pc[Client] = "update?" /\ in[Client] # <<>>
  BY DEF UpdateGranted, Asks, Comes
<1>2. Joint(<<Ack("UPDATE")>>, "recv", <<>>) /\ For("update") /\ dir[Server] = Nothing
  BY <1>1 DEF Granted, Granting, Joint
<1>3. Got(Client) = "ACK"
  BY <1>2, Lists DEF Joint, Got, Ack, Reply
<1>4. /\ Answer(Client, <<>>) /\ dir' = dir
      /\ pc'[Client] = "list" /\ pc'[Server] = pc[Server]
      /\ task'[Server] = task[Server] /\ todo'[Client] = Listing(Client)
  BY <1>3, Sides DEF UpdateGranted, Asks, Goto, Typed, Placed, Contents
<1>5. in'[Client] = Tail(in[Client]) /\ Sends(<<>>)
  BY <1>1, <1>4, ClientSays, MessageSeqs
<1>6. in'[Client] = <<>> /\ Serves("recv", <<>>)' /\ For("update")'
  BY <1>2, <1>4, <1>5, StillServes, Lists DEF Joint, For
<1>7. \A p \in Path : dir'[Server][p] = 0
  BY <1>2, <1>4 DEF Nothing
<1>8. Stored(todo[Client])' /\ Wiped'
  <2>1. \A p \in Path \ todo'[Client] : dir'[Client][p] = 0
    BY <1>4 DEF Listing
  <2> QED  BY <1>7, <2>1 DEF Stored, Kept, Wiped
<1>9. TheFile' /\ InTime'
  BY <1>4, <1>6, <1>8 DEF TheFile, InTime, ListInTime, Joint, Sending
<1> QED  BY <1>6, <1>8, <1>9 DEF Follows

\* An upload that fails begins again.
LEMMA UploadCaught ==
    ASSUME Typed, Catch, task[Client] = "update"
    PROVE  /\ pc'[Client] = "list" /\ pc'[Server] = pc[Server]
           /\ todo'[Client] = Listing(Client)
BY Sides DEF Catch, UploadAgain, ThreadEnds, LoginFails, SyncFails, Count, Goto, Typed,
             Placed, Contents

LEMMA UploadDeserted ==
    ASSUME Typed, ConnectionFails, task[Client] = "update", pc[Client] \in Stations
    PROVE  Deserted' /\ in[Client] = <<>>
<1>1. in[Client] = <<>> /\ conn \in {"closed", "reset"} /\ in' = in /\ Catch
  BY DEF ConnectionFails, Stations, Sending
<1>2. pc[Server] = "gone"
  BY <1>1 DEF Typed, Placed
<1> QED  BY <1>1, <1>2, UploadCaught DEF Deserted, Silent

\* A file the client fails to open, when the server expects its data: the
\* client begins again and the server does not.  One that is not there is
\* stored by then.
LEMMA UploadFails ==
    ASSUME Typed, Course, Storing, ReadFails(Client), task[Client] = "update", faults' <= 1
    PROVE  (Spoilt /\ faults > 0)' \/ Deserted' \/ Follows'
<1>1. /\ faults = 0 /\ faults' > 0 /\ in[Client] # <<>> /\ pc[Client] \in AwaitsMessage
      /\ Catch /\ UNCHANGED <<dir, cur, task, request>>
  BY Sides DEF ReadFails, Typed, Contents, syncVars
<1>2. pc[Client] \in Stations
  <2>1. pc[Client] \notin Over
    BY <1>1 DEF AwaitsMessage, AwaitsReply, Over
  <2> QED  BY <2>1, AtStation
<1>3. Follows /\ InTime
  <2>1. pc[Client] \notin Over
    BY <1>2 DEF Stations, Sending, Over
  <2> QED  BY <1>1, <2>1 DEF Storing, Deserted, Follows
<1>4. /\ pc'[Client] = "list" /\ pc'[Server] = pc[Server]
      /\ todo'[Client] = Listing(Client)
  BY <1>1, UploadCaught
<1>5. PICK rest \in {<<Rest>>} \cup IF pc[Client] \in Accesses THEN {<<>>} ELSE {} :
        in' = [in EXCEPT ![Client] = rest \o Tail(@)]
  BY DEF ReadFails
<1>6. in'[Client] = rest \o Tail(in[Client]) /\ in'[Server] = in[Server]
  BY <1>5, Sides DEF Typed, Placed
<1>7. Tail(in[Client]) \in Seq(Message)
  BY <1>1, Reading, Sides DEF Typed
<1>8. CASE rest = <<Rest>>
  BY <1>1, <1>6, <1>7, <1>8, Joined, MessagesMade DEF Spoilt
<1>9. CASE rest = <<>> /\ pc[Client] = "send.info"
  <2>1. in'[Client] = Tail(in[Client]) /\ InfoInTime
    BY <1>3, <1>6, <1>7, <1>9, Joined DEF InTime
  <2>2. CASE Joint(<<Ack("INFO")>>, "recv.data", <<>>)
    <3>1. in'[Client] = <<>>
      BY <2>1, <2>2, Lists DEF Joint
    <3>2. Silent' \/ (pc'[Server] = "recv.data" /\ in'[Server] = <<>>)
      BY <1>4, <1>6, <2>2 DEF Joint, Serves, Silent
    <3> QED  BY <1>4, <3>1, <3>2 DEF Deserted
  <2>3. CASE Joint(<<Ack("INFO"), Ack("DONE")>>, "recv", <<>>)
    <3>1. in'[Client] = <<Ack("DONE")>> /\ Serves("recv", <<>>)'
      BY <1>4, <1>6, <2>1, <2>3, Lists DEF Joint, Serves, Silent
    <3>2. Wiped' /\ For("update")'
      BY <1>1, <1>3, <1>4 DEF Follows, Wiped, Kept, For, Silent
    <3>3. Stored(todo[Client])'
      <4>1. \A p \in Path \ todo'[Client] : dir'[Client][p] = 0
        BY <1>1, <1>4 DEF Listing
      <4> QED  BY <3>2, <4>1 DEF Stored, Wiped, Kept
    <3>4. TheFile' /\ Ahead'
      BY <1>4, <3>1, <3>3 DEF TheFile, Ahead, ListAhead, Joint, Sending
    <3> QED  BY <1>1, <3>2, <3>4 DEF Follows
  <2> QED  BY <1>1, <2>1, <2>2, <2>3 DEF InfoInTime, Joint
<1> QED  BY <1>2, <1>5, <1>8, <1>9 DEF Stations, Sending, Accesses

\* The steps of an upload.
LEMMA UploadSteps ==
    ASSUME Typed, Course, ClientStep, ~UpdateGranted, task'[Client] = "update",
           pc'[Client] \notin Over
    PROVE  /\ task[Client] = "update" /\ pc[Client] \in Stations
           /\ \/ SendInfo(Client) \/ SendData(Client) \/ SendEnds(Client)
              \/ SendNext(Client) \/ SendEnd(Client) \/ ConnectionFails
              \/ EndGranted /\ Got(Client) # "ACK"
<1>1. task[Client] = "update"
  <2>1. CASE Exchange(Client)
    BY <2>1
    DEF Exchange, SendInfo, SendData, SendEnds, SendNext, SendEnd, ReceiveCommand,
        ReceiveInfo, ReceiveData, Misread
  <2>2. CASE Connect \/ ConnectFails \/ Login \/ LoggedIn \/ StartSync \/ ConnectionFails
    BY <2>2 DEF Connect, ConnectFails, Login, LoggedIn, StartSync, ConnectionFails
  <2>3. CASE Compare \/ EndGranted \/ DownloadReceived
    BY <2>3, Sides DEF Compare, Chosen, EndGranted, DownloadReceived, Watch, EndSync, Typed, Contents
  <2>4. CASE DownloadGranted \/ SendRequest \/ RequestGranted \/ SigPipe
    BY <2>4, Sides DEF DownloadGranted, SendRequest, RequestGranted, SigPipe, Typed, Contents
  <2> QED  BY <2>1, <2>2, <2>3, <2>4 DEF ClientStep
<1>2. pc[Client] \in Stations \cup Over
  BY <1>1, AtStation
<1>3. CASE Exchange(Client)
  <2>1. ~(ReceiveCommand(Client) \/ ReceiveInfo(Client) \/ ReceiveData(Client))
    BY <1>2 DEF ReceiveCommand, ReceiveInfo, ReceiveData, Comes, Stations, Sending, Over
  <2>2. ~Misread(Client)
    BY Sides DEF Misread, Goto, Over, Typed, Placed
  <2>3. \/ SendInfo(Client) \/ SendData(Client) \/ SendEnds(Client)
        \/ SendNext(Client) \/ SendEnd(Client)
    BY <1>3, <2>1, <2>2 DEF Exchange
  <2>4. pc[Client] \in Stations
    BY <2>3 DEF SendInfo, SendData, SendEnds, SendNext, SendEnd, Comes, Stations, Sending
  <2> QED  BY <1>1, <2>3, <2>4
<1>4. CASE EndGranted
  <2>1. pc[Client] = "end?" /\ Got(Client) # "ACK"
    BY <1>4, Sides DEF EndGranted, Comes, Watch, EndSync, Typed, Contents
  <2> QED  BY <1>1, <1>4, <2>1 DEF Stations
<1>5. CASE ConnectionFails
  <2>1. pc[Client] \in Waits \cup {"start"}
    BY <1>5 DEF ConnectionFails
  <2>2. pc[Client] \notin Over
    BY <2>1 DEF Waits, AwaitsMessage, AwaitsReply, Over
  <2> QED  BY <1>1, <1>2, <1>5, <2>2
<1>6. ~(Connect \/ ConnectFails \/ Login \/ LoggedIn \/ StartSync \/ Compare)
  BY <1>2
  DEF Connect, ConnectFails, Login, LoggedIn, StartSync, Compare, Comes, Stations, Sending, Over
<1>7. ~(DownloadGranted \/ DownloadReceived \/ SendRequest \/ RequestGranted)
  BY <1>2
  DEF DownloadGranted, Asks, DownloadReceived, SendRequest, RequestGranted, Comes, Stations,
      Sending, Over
<1>8. ~SigPipe
  BY Sides DEF SigPipe, Goto, Over, Typed, Placed
<1> QED  BY <1>3, <1>4, <1>5, <1>6, <1>7, <1>8 DEF ClientStep

\* A step that reads a reply, or goes on with the listing.
LEMMA StoringFollows ==
    ASSUME Typed, Follows,
           \/ SendInfo(Client) \/ SendData(Client) \/ SendEnds(Client)
           \/ SendNext(Client) \/ SendEnd(Client),
           task[Client] = "update", faults' = faults
    PROVE  Follows'
<1> USE DEF Follows, Goes
<1>1. CASE SendInfo(Client)
  <2>1. pc[Client] = "send.cmd" /\ pc'[Client] = "send.info"
    BY <1>1, InfoGoes
  <2> QED  BY <1>1, <2>1, InfoFollows DEF InTime, Ahead
<1>2. CASE SendData(Client)
  <2>1. pc[Client] = "send.info" /\ pc'[Client] = "send.end"
    BY <1>2, DataGoes
  <2> QED  BY <1>2, <2>1, DataFollows DEF InTime, Ahead
<1>3. CASE SendEnds(Client)
  <2>1. pc[Client] = "send.end" /\ pc'[Client] = "list"
    BY <1>3, EndFollows DEF SendEnds, Comes
  <2>2. TheFile'
    BY <2>1 DEF TheFile, Sending
  <2> QED  BY <1>3, <2>1, <2>2, EndFollows DEF InTime, Ahead
<1>4. CASE SendNext(Client)
  <2>1. pc[Client] = "list" /\ pc'[Client] = "send.cmd"
    BY <1>4, NextGoes
  <2> QED  BY <1>4, <2>1, NextFollows DEF InTime, Ahead
<1>5. CASE SendEnd(Client)
  <2>1. pc[Client] = "list" /\ pc'[Client] = "end?"
    BY <1>5, ListingGoes
  <2>2. TheFile'
    BY <2>1 DEF TheFile, Sending
  <2> QED  BY <1>5, <2>1, <2>2, ListingFollows DEF InTime, Ahead
<1> QED  BY <1>1, <1>2, <1>3, <1>4, <1>5

\* The END of an upload is not refused.
LEMMA EndIsGranted ==
    ASSUME Follows, EndGranted
    PROVE  Got(Client) = "ACK" /\ Stored({})
<1>1. pc[Client] = "end?" /\ in[Client] # <<>>
  BY DEF EndGranted, Comes
<1>2. CASE EndOfAllInTime
  <2>1. in[Client] = <<Ack("END"), Ack("NOTHING")>> /\ Stored({})
    BY <1>1, <1>2 DEF EndOfAllInTime, Joint
  <2> QED  BY <2>1, Lists DEF Got, Ack, Reply
<1>3. CASE EndOfAllAhead
  <2>1. Stored({}) /\ \/ in[Client] = <<Ack("DONE")>>
                      \/ in[Client] = <<Ack("DONE"), Ack("END"), Ack("NOTHING")>>
    BY <1>1, <1>3 DEF EndOfAllAhead, Joint
  <2>2. Head(in[Client]) = Ack("DONE")
    BY <2>1, Lists, Chains
  <2> QED  BY <2>1, <2>2 DEF Got, Ack, Reply
<1> QED  BY <1>1, <1>2, <1>3 DEF Follows, InTime, Ahead

LEMMA StoringClient ==
    ASSUME Typed, Course, Granted, Storing, ClientStep
    PROVE  Storing'
<1> SUFFICES ASSUME task'[Client] = "update", faults' <= 1, pc'[Client] \notin Over
             PROVE  (Spoilt /\ faults > 0)' \/ Deserted' \/ Follows'
  BY DEF Storing
<1>1. faults' = faults
  BY ClientLeaves
<1>2. CASE UpdateGranted
  BY <1>2, UploadStarts
<1>3. CASE ~UpdateGranted
  <2>1. /\ task[Client] = "update" /\ pc[Client] \in Stations
        /\ \/ SendInfo(Client) \/ SendData(Client) \/ SendEnds(Client)
           \/ SendNext(Client) \/ SendEnd(Client) \/ ConnectionFails
           \/ EndGranted /\ Got(Client) # "ACK"
    BY <1>3, UploadSteps
  <2>2. CASE ConnectionFails
    BY <2>1, <2>2, UploadDeserted
  <2>3. (Spoilt /\ faults > 0) \/ Deserted \/ Follows
    BY <1>1, <2>1 DEF Storing, Stations, Sending, Over
  <2>4. CASE SendInfo(Client) \/ SendData(Client) \/ SendEnds(Client) \/ EndGranted
    <3>1. in[Client] # <<>> /\ ~Spoilt
      BY <2>4, NotSpoilt DEF SendInfo, SendData, SendEnds, EndGranted, Comes
    <3>2. Follows
      BY <2>3, <3>1 DEF Deserted
    <3> QED  BY <1>1, <2>1, <2>2, <2>4, <3>2, StoringFollows, EndIsGranted
  <2>5. CASE SendNext(Client) \/ SendEnd(Client)
    <3>1. in'[Client] = in[Client]
      BY <2>5, NextGoes, ListingGoes
    <3> QED  BY <1>1, <2>1, <2>3, <2>5, <3>1, StoringFollows, DesertedSends DEF Spoilt
  <2> QED  BY <2>1, <2>2, <2>4, <2>5
<1> QED  BY <1>2, <1>3

\* Every step of an upload.
LEMMA StoringNext ==
    ASSUME Typed, Course, Granted, Storing, [Straight]_vars
    PROVE  Storing'
<1>1. CASE ClientStep
  BY <1>1, StoringClient
<1>2. CASE ServerStep
  BY <1>2, StoringServer
<1>3. CASE ReadFails(Client)
  <2>1. task' = task
    BY <1>3 DEF ReadFails
  <2> QED  BY <1>3, <2>1, UploadFails DEF Storing
<1> QED  BY <1>1, <1>2, <1>3, StoringRests, Sides DEF Straight

-----------------------------------------------------------------------------
(* Where the client comes from *)

LEMMA ClientReaches ==
    ASSUME Typed, ClientStep
    PROVE  /\ pc'[Client] = "sum" => StartSync
           /\ pc'[Client] = "update?" => Compare \/ UpdateGranted
           /\ pc'[Client] = "download?" => Compare \/ DownloadGranted
           /\ pc'[Client] = "recv" =>
                DownloadGranted \/ ReceiveInfo(Client) \/ ReceiveData(Client)
           /\ pc'[Client] = "recv.info" => ReceiveCommand(Client)
           /\ pc'[Client] = "recv.data" => ReceiveInfo(Client)
<1> USE Sides DEF Typed, Placed, Goto
<1>1. CASE SendInfo(Client) \/ SendData(Client) \/ SendEnds(Client) \/ Misread(Client)
  BY <1>1 DEF SendInfo, SendData, SendEnds, Misread
<1>2. CASE SendNext(Client) \/ SendEnd(Client)
  BY <1>2 DEF SendNext, SendEnd, Begin
<1>3. CASE ReceiveCommand(Client) \/ ReceiveInfo(Client) \/ ReceiveData(Client)
  BY <1>3 DEF ReceiveCommand, ReceiveInfo, ReceiveData, Received
<1>4. CASE Connect \/ ConnectFails \/ Login \/ LoggedIn \/ StartSync
  BY <1>4 DEF Connect, ConnectFails, Login, LoggedIn, StartSync
<1>5. CASE Compare \/ UpdateGranted \/ DownloadGranted
  BY <1>5 DEF Compare, Chosen, Watch, EndSync, UpdateGranted, DownloadGranted, Asks
<1>6. CASE EndGranted
  BY <1>6 DEF EndGranted, Comes, Watch, EndSync
<1>7. CASE DownloadReceived \/ SendRequest \/ RequestGranted \/ SigPipe
  BY <1>7 DEF DownloadReceived, EndSync, SendRequest, RequestGranted, Comes, Begin, SigPipe
<1>8. CASE ConnectionFails
  <2>1. pc'[Client] \in {"list", "exited", "login", "start"}
    BY <1>8 DEF ConnectionFails, Catch, UploadAgain, ThreadEnds, LoginFails, SyncFails
  <2> QED  BY <2>1
<1> QED
  BY <1>1, <1>2, <1>3, <1>4, <1>5, <1>6, <1>7, <1>8 DEF ClientStep, Exchange

LEMMA FailingReaches ==
    ASSUME Typed, ReadFails(Client)
    PROVE  pc'[Client] \in {"list", "exited", "login", "start"}
BY Sides DEF ReadFails, Catch, UploadAgain, ThreadEnds, LoginFails, SyncFails, Goto, Typed, Placed

-----------------------------------------------------------------------------
(* The comparison *)

\* What the server says of its folder is what it is.
LEMMA SumIsSent ==
    ASSUME Typed, ServerStep, pc[Client] = "sum", in[Client] = <<>>,
           Serves("free", <<Text("SYNC")>>)
    PROVE  in'[Client] = <<Sum(dir[Server])>> /\ dir' = dir
<1>1. ~Silent
  BY ServerDoes
<1>2. pc[Server] = "free" /\ in[Server] = <<Text("SYNC")>>
  BY <1>1 DEF Serves
<1>3. ParsePacket
  BY <1>2, ServerAt, Lists DEF Text, Raw
<1>4. Answer(Server, <<Sum(dir[Server])>>) /\ dir' = dir
  BY <1>2, <1>3, Lists DEF ParsePacket, Got, Text
<1>5. Text("SYNC") \in Message /\ Sum(dir[Server]) \in Message
  BY Spoken, Sides DEF Words
<1> QED  BY <1>2, <1>4, <1>5, MessageSeqs, ServerReplies

LEMMA ComparingServer ==
    ASSUME IInv, Comparing, ServerStep
    PROVE  Comparing'
<1> SUFFICES ASSUME ~freezed', pc'[Client] = "sum"  PROVE  Comparing'
  BY DEF Comparing
<1>1. /\ Typed /\ ~freezed /\ pc[Client] = "sum"
      /\ UNCHANGED <<dir[Client], sum, request>>
  BY ServerDoes, ServerLeaves DEF ClientSide, IInv
<1>2. \A p \in Path : dir'[Client][p] = sum'[p] \/ request'[p] # "none"
  BY <1>1 DEF Comparing
<1>3. CASE Spoilt
  <2>1. Spoilt'
    BY <1>1, <1>3, ServerDoes, SpoiltStays
  <2> QED  BY <1>2, <2>1 DEF Comparing, Spoilt, Rest
<1>4. CASE in[Client] = <<>> /\ Serves("free", <<Text("SYNC")>>)
  <2>1. in'[Client] = <<Sum(dir[Server])>> /\ dir' = dir
    BY <1>1, <1>4, SumIsSent
  <2>2. Head(in'[Client]).folder = dir'[Server]
    BY <2>1, Lists DEF Sum
  <2> QED  BY <1>2, <2>2 DEF Comparing
<1>5. ~Serves("choice", <<>>)
  <2>1. ~Joint(in[Client], "choice", <<>>)
    BY <1>1, ServerNow
  <2> QED  BY <2>1 DEF Joint
<1> QED  BY <1>1, <1>3, <1>4, <1>5 DEF IInv, Entering

LEMMA ComparingNext ==
    ASSUME IInv, Comparing, [Straight]_vars
    PROVE  Comparing'
<1> SUFFICES ASSUME ~freezed', pc'[Client] = "sum"  PROVE  Comparing'
  BY DEF Comparing
<1>1. Typed
  BY DEF IInv
<1>2. CASE ClientStep
  <2>1. StartSync /\ Post(Client, <<Text("SYNC")>>)
    BY <1>1, <1>2, ClientReaches DEF StartSync
  <2>2. ~freezed /\ pc[Client] = "start" /\ dir' = dir /\ sum' = dir[Client]
    BY <2>1 DEF StartSync
  <2>3. in'[Client] = in[Client]
    BY <1>1, <2>1, ClientPosts, MessageSeqs, MessagesMade DEF Words
  <2>4. in[Client] # <<>> => Head(in[Client]) = Rest
    BY <2>2 DEF IInv, Entering, Spoilt
  <2> QED  BY <2>2, <2>3, <2>4 DEF Comparing, Rest
<1>3. CASE ServerStep
  BY <1>3, ComparingServer
<1>4. CASE ServerStops \/ ReadFails(Server)
  <2>1. /\ UNCHANGED <<dir, sum, request>>
        /\ pc'[Client] = pc[Client] /\ in'[Client] = in[Client] /\ freezed' = freezed
    BY <1>1, <1>4, ServerPauses, ServerFails
  <2> QED  BY <2>1 DEF Comparing
<1>5. CASE ReadFails(Client)
  BY <1>1, <1>5, FailingReaches
<1>6. ASSUME NEW p \in Path, Edit(p)
      PROVE  Comparing'
  BY <1>1, <1>6, Edited DEF Comparing
<1>7. CASE UNCHANGED vars
  BY <1>7 DEF vars, Comparing
<1> QED  BY <1>2, <1>3, <1>4, <1>5, <1>6, <1>7, Sides DEF Straight

\* Equal checksums leave nothing to do but what has been queued since.
LEMMA ComparedEqual ==
    ASSUME IInv, Comparing, Compare, ~first_syncrinize'
    PROVE  Accounted'
<1>1. Joining
  BY ComparesOnce
<1>2. /\ pc[Client] = "sum" /\ in[Client] # <<>> /\ Head(in[Client]).w = "SUM"
      /\ UNCHANGED <<dir, request>>
  BY DEF Compare, Got
<1>3. Head(in[Client]).folder = sum
  BY <1>1 DEF Compare, Chosen, Choice, Joining
<1>4. \A p \in Path : dir[Client][p] = dir[Server][p] \/ request[p] # "none"
  BY <1>1, <1>2, <1>3 DEF Comparing, Joining
<1> QED  BY <1>2, <1>4 DEF Accounted

-----------------------------------------------------------------------------
(* The server wipes its folder *)

LEMMA GrantedServer ==
    ASSUME Typed, Granted, ServerStep
    PROVE  Granted'
<1> SUFFICES ASSUME pc'[Client] = "update?"  PROVE  Granted'
  BY DEF Granted
<1>1. pc[Client] = "update?" /\ Granting /\ ~Silent
  BY ServerDoes DEF ClientSide, Granted
<1>2. Granting'
  BY <1>1, GrantingServer
<1>3. pc[Server] = "choice" /\ in[Server] = <<Text("UPDATE")>>
  BY <1>1, ServerNow DEF Granting, Joint, Serves
<1>4. Head(in[Server]).w = "UPDATE"
  BY <1>3, Lists DEF Text
<1>5. Update
  BY <1>1, <1>3, <1>4, ServerAt DEF OkOrUnknown, Download, Got, Raw
<1>6. dir'[Server] = Nothing
  BY <1>5, Sides DEF Update, Typed, Contents
<1> QED  BY <1>2, <1>6 DEF Granted

LEMMA GrantedClient ==
    ASSUME IInv, Granted, ClientStep
    PROVE  Granted'
<1> SUFFICES ASSUME pc'[Client] = "update?"  PROVE  Granted'
  BY DEF Granted
<1>1. Typed
  BY DEF IInv
<1>2. CASE UpdateGranted
  <2>1. pc[Client] = "update?" /\ in[Client] # <<>>
    BY <1>2 DEF UpdateGranted, Asks, Comes
  <2>2. in[Client] = <<Ack("UPDATE")>>
    BY <2>1 DEF Granted, Granting, Joint
  <2>3. Got(Client) = "ACK"
    BY <2>2, Lists DEF Got, Ack, Reply
  <2>4. pc'[Client] = "list"
    BY <1>1, <1>2, <2>3, Sides DEF UpdateGranted, Asks, Goto, Typed, Placed
  <2> QED  BY <2>4
<1>3. CASE Compare
  <2>1. Joining /\ ~Spoilt /\ pc[Client] = "sum" /\ in[Client] # <<>>
    BY <1>3, ComparesOnce DEF Compare
  <2>2. PICK f \in [Path -> Version] : in[Client] = <<Sum(f)>> /\ Serves("choice", <<>>)
    BY <2>1 DEF IInv, Entering, Joining
  <2>3. Answer(Client, <<Text("UPDATE")>>) /\ pc'[Server] = pc[Server]
    BY <1>1, <1>3, Sides DEF Compare, Chosen, Watch, EndSync, Goto, Typed, Placed
  <2>4. Text("UPDATE") \in Message
    BY MessagesMade DEF Words
  <2>5. in'[Client] = <<>> /\ Sends(<<Text("UPDATE")>>)
    BY <1>1, <2>1, <2>2, <2>3, <2>4, ClientSays, MessageSeqs, Lists
  <2>6. Serves("choice", <<Text("UPDATE")>>)'
    BY <2>2, <2>3, <2>4, <2>5, Chains DEF Serves, Sends, Silent
  <2> QED  BY <2>5, <2>6 DEF Granted, Granting, Joint
<1> QED  BY <1>1, <1>2, <1>3, ClientReaches

LEMMA GrantedNext ==
    ASSUME IInv, Granted, [Straight]_vars
    PROVE  Granted'
<1>1. Typed
  BY DEF IInv
<1>2. CASE ServerStops \/ ReadFails(Server)
  <2>1. /\ Silent' /\ dir' = dir
        /\ pc'[Client] = pc[Client] /\ in'[Client] = in[Client]
    BY <1>1, <1>2, ServerPauses, ServerFails
  <2> QED  BY <2>1 DEF Granted, Granting, Joint, Serves, For
<1>3. CASE ReadFails(Client)
  BY <1>1, <1>3, FailingReaches DEF Granted
<1>4. ASSUME NEW p \in Path, Edit(p)
      PROVE  Granted'
  BY <1>1, <1>4, Edited DEF Granted, Granting, Joint, Serves, For, Silent
<1>5. CASE UNCHANGED vars
  BY <1>5 DEF vars, Granted, Granting, Joint, Serves, For, Silent
<1> QED
  BY <1>1, <1>2, <1>3, <1>4, <1>5, GrantedServer, GrantedClient, Sides DEF Straight

-----------------------------------------------------------------------------
(* The server offers its files *)

\* Only a download, or the file before, brings the server to the next one.
LEMMA ServerReaches ==
    ASSUME Typed, ServerStep
    PROVE  /\ pc'[Server] \in Sending => SendNext(Server) \/ SendInfo(Server) \/ SendData(Server)
           /\ pc'[Server] = "list" => SendEnds(Server) \/ Download
           /\ pc'[Server] = "bye" => SendEnd(Server)
           /\ Silent' => Misread(Server) \/ HandleLogin \/ HangUp
<1> USE Sides DEF Typed, Placed, Goto, Sending, Silent
<1>1. CASE SendInfo(Server) \/ SendData(Server) \/ SendEnds(Server) \/ Misread(Server)
  BY <1>1 DEF SendInfo, SendData, SendEnds, Misread
<1>2. CASE SendNext(Server) \/ SendEnd(Server)
  BY <1>2 DEF SendNext, SendEnd, Begin
<1>3. CASE ReceiveCommand(Server) \/ ReceiveInfo(Server) \/ ReceiveData(Server)
  BY <1>3 DEF ReceiveCommand, ReceiveInfo, ReceiveData, Received
<1>4. CASE HandleLogin \/ ParsePacket \/ OkOrUnknown \/ Update \/ Download
  BY <1>4 DEF HandleLogin, ParsePacket, OkOrUnknown, Update, Download
<1>5. CASE UploadEnds \/ DownloadEnds \/ HangUp
  BY <1>5 DEF UploadEnds, DownloadEnds, HangUp, Drop
<1> QED  BY <1>1, <1>2, <1>3, <1>4, <1>5 DEF ServerStep, Exchange

\* The next file.
LEMMA OffersNext ==
    ASSUME Typed, SendNext(Server)
    PROVE  /\ pc[Server] = "list" /\ pc'[Server] = "send.cmd" /\ dir' = dir
           /\ cur'[Server].path \notin todo'[Server] /\ Offering' = todo[Server]
           /\ cur'[Server].word = "FILE_DEL" => dir[Server][cur'[Server].path] = 0
<1>1. PICK p \in todo[Server] :
        /\ todo' = [todo EXCEPT ![Server] = @ \ {p}] /\ Begin(Server, p, "created")
  BY Sides DEF SendNext
<1>2. /\ todo'[Server] = todo[Server] \ {p} /\ cur'[Server].path = p
      /\ cur'[Server].word = (IF dir[Server][p] = 0 THEN "FILE_DEL" ELSE "FILE")
      /\ pc'[Server] = "send.cmd"
  BY <1>1, Sides DEF Begin, Goto, Typed, Placed, Contents
<1>3. pc[Server] = "list" /\ dir' = dir
  BY DEF SendNext
<1> QED  BY <1>2, <1>3 DEF Offering

\* The file that is being sent, and the end of the listing.
LEMMA OffersSame ==
    ASSUME Typed
    PROVE  /\ SendInfo(Server) \/ SendData(Server) \/ SendEnds(Server) =>
                /\ pc[Server] \in Sending /\ UNCHANGED <<dir, cur, todo>>
                /\ pc'[Server] \in {"send.info", "send.end", "list", "idle"}
           /\ SendEnd(Server) =>
                /\ pc[Server] = "list" /\ todo[Server] = {}
                /\ UNCHANGED dir /\ pc'[Server] = "bye"
           /\ Download => /\ pc'[Server] = "list" /\ todo'[Server] = Listing(Server)
                          /\ dir' = dir
<1> USE Sides DEF Typed, Placed, Contents, Goto, Comes, Sending
<1>1. SendInfo(Server) \/ SendData(Server) \/ SendEnds(Server) =>
        /\ pc[Server] \in Sending /\ UNCHANGED <<dir, cur, todo>>
        /\ pc'[Server] \in {"send.info", "send.end", "list", "idle"}
  BY DEF SendInfo, SendData, SendEnds
<1>2. SendEnd(Server) => /\ pc[Server] = "list" /\ todo[Server] = {}
                         /\ UNCHANGED dir /\ pc'[Server] = "bye"
  BY DEF SendEnd
<1>3. Download => /\ pc'[Server] = "list" /\ todo'[Server] = Listing(Server) /\ dir' = dir
  BY DEF Download
<1> QED  BY <1>1, <1>2, <1>3

LEMMA OffersServer ==
    ASSUME Typed, Offers, ServerStep
    PROVE  Offers'
<1> SUFFICES ASSUME pc'[Server] \in Sending
             PROVE  /\ cur'[Server].path \notin todo'[Server]
                    /\ cur'[Server].word = "FILE_DEL" => dir'[Server][cur'[Server].path] = 0
  BY DEF Offers
<1>1. CASE SendNext(Server)
  BY <1>1, OffersNext
<1>2. CASE SendInfo(Server) \/ SendData(Server)
  BY <1>2, OffersSame DEF Offers
<1> QED  BY <1>1, <1>2, ServerReaches

LEMMA OffersAll ==
    ASSUME Typed, Offers, [Straight]_vars
    PROVE  Offers'
<1>1. CASE ClientStep
  BY <1>1, ClientLeaves DEF Offers, Yonder
<1>2. CASE ServerStops \/ ReadFails(Server)
  BY <1>2, ServerFails DEF Offers, Silent, Sending
<1>3. CASE ReadFails(Client)
  <2>1. UNCHANGED <<dir, cur>> /\ Catch
    BY <1>3, Sides DEF ReadFails
  <2>2. pc'[Server] = pc[Server] /\ todo'[Server] = todo[Server]
    BY <2>1, CatchLeaves
  <2> QED  BY <2>1, <2>2 DEF Offers
<1>4. ASSUME NEW p \in Path, Edit(p)
      PROVE  Offers'
  BY <1>4, Edited DEF Offers
<1>5. CASE UNCHANGED vars
  BY <1>5 DEF vars, Offers
<1> QED  BY <1>1, <1>2, <1>3, <1>4, <1>5, OffersServer, Sides DEF Straight

-----------------------------------------------------------------------------
(* The server goes through its listing in a download *)


\* Before the client has read that it is granted.
LEMMA ToWipeServer ==
    ASSUME IInv, freezed, pc[Client] = "download?", ServerStep,
           in[Client] # <<>> => ToWipe
    PROVE  ToWipe'
<1>1. Typed /\ Asked /\ Offered /\ ~Silent
  BY ServerDoes DEF IInv, Downloading
<1>2. Offered'
  BY <1>1, OfferedServer
<1>3. CASE in[Client] = <<>> /\ Serves("choice", <<Text("DOWNLOAD")>>)
  <2>1. pc[Server] = "choice" /\ in[Server] = <<Text("DOWNLOAD")>>
    BY <1>1, <1>3 DEF Serves
  <2>2. Head(in[Server]).w = "DOWNLOAD"
    BY <2>1, Lists DEF Text
  <2>3. Download /\ Answer(Server, <<Ack("DOWNLOAD")>>)
    BY <1>1, <2>1, <2>2, ServerAt DEF OkOrUnknown, Update, Download, Got, Raw
  <2>4. pc'[Server] = "list" /\ todo'[Server] = Listing(Server) /\ dir' = dir
    BY <1>1, <2>3, OffersSame
  <2>5. Text("DOWNLOAD") \in Message /\ Ack("DOWNLOAD") \in Message
    BY MessagesMade DEF Words, Whats
  <2>6. in'[Client] = <<Ack("DOWNLOAD")>>
    BY <1>1, <1>3, <2>1, <2>3, <2>5, ServerReplies, MessageSeqs
  <2>7. Tail(in'[Client]) = <<>>
    BY <2>6, Lists
  <2>8. Vacant(todo[Server])'
    BY <2>4 DEF Vacant, Listing
  <2> QED  BY <2>4, <2>7, <2>8, Lists DEF ToWipe, Sending
<1>4. ASSUME NEW ms \in Seq(Message), in[Client] = <<Ack("DOWNLOAD")>> \o ms, Coming(ms)
      PROVE  ToWipe'
  <2>1. Ack("DOWNLOAD") \in Message
    BY MessagesMade DEF Whats
  <2>2. ToWipe
    BY <1>4, <2>1, Joined
  <2>3. PICK new \in Seq(Message) :
          ms = <<>> /\ in'[Client] = in[Client] \o new /\ Coming(new)'
    BY <1>1, <1>4, ComingServer
  <2>4. Tail(in'[Client]) = new
    BY <1>4, <2>1, <2>3, Joined
  <2>5. pc[Server] = "list" /\ in[Server] = <<>>
    BY <1>1, <1>4, <2>3, Lists DEF Coming, Downloads, Serves
  <2>6. Vacant(todo[Server])
    BY <2>2, <2>5 DEF ToWipe
  <2>7. CASE SendNext(Server)
    <3>1. pc'[Server] = "send.cmd" /\ dir' = dir /\ Offering' = todo[Server]
      BY <1>1, <2>7, OffersNext
    <3>2. new = <<Text(cur'[Server].word)>> /\ cur'[Server].word \in {"FILE", "FILE_DEL"}
      BY <1>2, <2>3, <3>1 DEF Coming, Downloads, Serves, Silent, Offered, Sending
    <3>3. new # <<Text("END")>>
      BY <3>2, Lists DEF Text
    <3> QED  BY <2>4, <2>6, <3>1, <3>3 DEF ToWipe, Vacant
  <2>8. CASE SendEnd(Server)
    <3>1. pc'[Server] = "bye" /\ todo[Server] = {} /\ dir' = dir
      BY <1>1, <2>8, OffersSame
    <3> QED  BY <2>6, <3>1 DEF ToWipe, Vacant, Sending
  <2> QED  BY <1>1, <2>5, <2>7, <2>8, ServerDoes
<1> QED  BY <1>1, <1>3, <1>4 DEF Asked

\* Where the server is when a client that receives waits for it.
LEMMA ReceivesAt ==
    ASSUME Typed, ServerStep, pc[Client] = "recv", Receives
    PROVE  /\ in[Client] = <<>>
           /\ \/ pc[Server] = "list" /\ (SendNext(Server) \/ SendEnd(Server))
              \/ /\ pc[Server] \in Sending
                 /\ SendInfo(Server) \/ SendData(Server) \/ SendEnds(Server)
<1>1. ~Silent /\ in[Client] \in Seq(Message)
  BY ServerDoes, Reading, Sides DEF Typed
<1>2. CASE Coming(in[Client])
  <2>1. in[Client] = <<>>
    BY <1>1, <1>2, ComingServer
  <2>2. pc[Server] = "list" /\ in[Server] = <<>>
    BY <1>1, <1>2, <2>1, Lists DEF Coming, Downloads, Serves
  <2> QED  BY <1>1, <2>1, <2>2, ServerDoes
<1>3. CASE in[Client] = <<>> /\ Downloads("send.end", <<Ack("DONE")>>)
  <2>1. pc[Server] = "send.end" /\ Head(in[Server]).w = "ACK"
    BY <1>1, <1>3, Lists DEF Downloads, Serves, Ack, Reply
  <2> QED  BY <1>1, <1>3, <2>1, ServerAt DEF Raw, Sending
<1>4. CASE /\ in[Client] = <<>>
           /\ \/ Downloads("send.info", Refusal)
              \/ Downloads("send.info", <<Ack("INFO"), Ack("DONE")>>)
  <2>1. pc[Server] = "send.info" /\ Head(in[Server]).w \in {"ACK", "PRESENT"}
    BY <1>1, <1>4, Lists DEF Downloads, Serves, Refusal, Ack, Reply
  <2> QED  BY <1>1, <1>4, <2>1, ServerAt DEF Raw, Sending
<1> QED  BY <1>2, <1>3, <1>4 DEF Receives

LEMMA ToFetchServer ==
    ASSUME IInv, freezed, pc[Client] = "recv", ToFetch, ServerStep
    PROVE  ToFetch'
<1>1. Typed /\ Receives /\ Offered /\ Noted' = Noted
  BY ServerLeaves DEF IInv, Downloading, Noted
<1>2. Receives' /\ Offered'
  BY <1>1, ReceivesServer, OfferedServer
<1>3. CASE SendNext(Server)
  <2>1. /\ pc[Server] = "list" /\ pc'[Server] = "send.cmd" /\ dir' = dir
        /\ Offering' = todo[Server]
    BY <1>1, <1>3, OffersNext
  <2>2. /\ in'[Client] = <<Text(cur'[Server].word)>>
        /\ cur'[Server].word \in {"FILE", "FILE_DEL"}
    BY <1>2, <2>1 DEF Receives, Coming, Downloads, Serves, Silent, Offered, Sending
  <2>3. in'[Client] # <<>> /\ in'[Client] # <<Text("END")>>
    BY <2>2, Lists DEF Text
  <2>4. Fetched(todo[Server])
    BY <2>1 DEF ToFetch
  <2>5. Fetched(Offering)'
    BY <1>1, <2>1, <2>4 DEF Fetched, Alike
  <2> QED  BY <2>1, <2>3, <2>5 DEF ToFetch
<1>4. CASE SendEnd(Server)
  <2>1. pc[Server] = "list" /\ todo[Server] = {} /\ dir' = dir /\ pc'[Server] = "bye"
    BY <1>1, <1>4, OffersSame
  <2>2. Fetched({})
    BY <2>1 DEF ToFetch
  <2>3. Fetched({})'
    BY <1>1, <2>1, <2>2 DEF Fetched, Alike
  <2> QED  BY <2>1, <2>3 DEF ToFetch, Sending
<1>5. CASE /\ pc[Server] \in Sending
           /\ SendInfo(Server) \/ SendData(Server) \/ SendEnds(Server)
  <2>1. /\ UNCHANGED <<dir, cur, todo>>
        /\ pc'[Server] \in {"send.info", "send.end", "list", "idle"}
    BY <1>1, <1>5, OffersSame
  <2>2. in'[Client] = <<>>
    BY <1>2, <2>1 DEF Receives, Coming, Downloads, Serves, Silent
  <2>3. Fetched(todo[Server])
    BY <1>1, <1>5, ReceivesAt DEF ToFetch
  <2>4. Fetched(todo[Server])'
    BY <1>1, <2>1, <2>3 DEF Fetched, Alike
  <2> QED  BY <2>2, <2>4, Lists DEF ToFetch
<1> QED  BY <1>1, <1>3, <1>4, <1>5, ReceivesAt

LEMMA ReceivingServer ==
    ASSUME IInv, freezed, Fetches, pc[Client] \in {"recv.info", "recv.data"}, ServerStep,
           pc'[Server] \in Sending
    PROVE  Fetched(Offering)'
<1>1. Typed /\ ~Silent /\ Noted' = Noted
  BY ServerDoes, ServerLeaves DEF IInv, Noted
<1>2. pc[Server] # "list"
  BY <1>1 DEF IInv, Downloading, ReceivesInfo, ReceivesData, Downloads, Serves
<1>3. CASE SendInfo(Server) \/ SendData(Server)
  <2>1. pc[Server] \in Sending /\ UNCHANGED <<dir, cur, todo>>
    BY <1>1, <1>3, OffersSame
  <2>2. Fetched(Offering)
    BY <2>1 DEF Fetches
  <2> QED  BY <1>1, <2>1, <2>2 DEF Fetched, Alike, Offering
<1> QED  BY <1>1, <1>2, <1>3, ServerReaches DEF SendNext

\* What comes is the file as the server has it.
LEMMA ToStoreServer ==
    ASSUME IInv, freezed, pc[Client] = "recv.data", ToStore, ServerStep
    PROVE  ToStore'
<1>1. Typed /\ ~Silent /\ cur'[Client] = cur[Client]
  BY ServerDoes DEF IInv, ClientSide
<1>2. ReceivesData
  BY DEF IInv, Downloading
<1>3. \A v \in Version : ~(in[Client] = <<Data(v)>> /\ Downloads("send.end", <<>>))
  BY <1>1, ServerNow DEF Downloads, Joint
<1>4. /\ in[Client] = <<>> /\ pc[Server] = "send.info" /\ in[Server] = <<Ack("INFO")>>
      /\ cur[Server].word = "FILE"
  BY <1>1, <1>2, <1>3 DEF ReceivesData, Downloads, Serves
<1>5. Head(in[Server]).w = "ACK"
  BY <1>4, Lists DEF Ack, Reply
<1>6. SendData(Server)
  BY <1>1, <1>4, <1>5, ServerAt DEF Raw
<1>7. PICK m \in Message : m = Data(dir[Server][cur[Server].path])
  BY <1>1, Spoken, Sides
<1>8. Answer(Server, <<m>>)
  BY <1>4, <1>5, <1>6, <1>7 DEF SendData, Got
<1>9. in'[Client] = <<m>>
  BY <1>1, <1>4, <1>7, <1>8, ServerReplies, MessageSeqs, MessagesMade DEF Whats
<1>10. UNCHANGED <<dir, cur>>
  BY <1>6 DEF SendData
<1>11. \A v \in Version : in'[Client] = <<Data(v)>> => v = dir'[Server][cur'[Client].path]
  <2> TAKE v \in Version
  <2> HAVE in'[Client] = <<Data(v)>>
  <2>1. m = Data(v)
    BY <1>9, Lists
  <2>2. v = dir[Server][cur[Server].path]
    BY <1>7, <2>1 DEF Data
  <2> QED  BY <1>10, <2>2 DEF ToStore
<1> QED  BY <1>10, <1>11 DEF ToStore

LEMMA FetchesServer ==
    ASSUME IInv, Fetches, ServerStep
    PROVE  Fetches'
<1> SUFFICES ASSUME freezed'  PROVE Fetches'
  BY DEF Fetches
<1>1. freezed /\ pc'[Client] = pc[Client]
  BY ServerDoes DEF ClientSide, IInv
<1>2. CASE pc[Client] = "download?"
  BY <1>1, <1>2, ToWipeServer DEF Fetches
<1>3. CASE pc[Client] = "recv"
  BY <1>1, <1>3, ToFetchServer DEF Fetches
<1>4. CASE pc[Client] = "recv.info"
  BY <1>1, <1>4, ReceivingServer DEF Fetches
<1>5. CASE pc[Client] = "recv.data"
  BY <1>1, <1>5, ReceivingServer, ToStoreServer DEF Fetches
<1> QED  BY <1>1, <1>2, <1>3, <1>4, <1>5 DEF Fetches

-----------------------------------------------------------------------------
(* The client wipes its folder and fetches the files *)

LEMMA FetchStarts ==
    ASSUME IInv, freezed, ToWipe, DownloadGranted
    PROVE  pc'[Client] = "recv" /\ ToFetch'
<1>1. Typed /\ Asked /\ in[Client] # <<>>
  BY DEF IInv, Downloading, DownloadGranted, Asks, Comes
<1>2. PICK ms \in Seq(Message) : in[Client] = <<Ack("DOWNLOAD")>> \o ms /\ Coming(ms)
  BY <1>1 DEF Asked
<1>3. Head(in[Client]) = Ack("DOWNLOAD") /\ Tail(in[Client]) = ms
  BY <1>2, Joined, MessagesMade DEF Whats
<1>4. Got(Client) = "ACK"
  BY <1>3 DEF Got, Ack, Reply
<1>5. /\ Answer(Client, <<>>) /\ UNCHANGED <<cur, todo, Noted>>
      /\ pc'[Client] = "recv" /\ pc'[Server] = pc[Server]
      /\ dir'[Client] = Nothing /\ dir'[Server] = dir[Server]
  BY <1>1, <1>4, Sides
  DEF DownloadGranted, Asks, Goto, faultVars, syncVars, Noted, Typed, Placed, Contents
<1>6. in'[Client] = ms
  BY <1>1, <1>3, <1>5, ClientSays, MessageSeqs
<1>7. /\ todo'[Server] \subseteq Path /\ Offering \subseteq Path
      /\ \A p \in Path : dir'[Client][p] = 0 /\ (dir[Server][p] = 0 => Alike(p)')
  BY <1>1, <1>5, Sides DEF Alike, Nothing, Offering, Typed, Contents
<1>8. pc[Server] \in Sending => ms # <<>>
  BY <1>2, Lists DEF Coming, Downloads, Serves, Silent, Sending
<1>9. ms = <<Text("END")>> => Fetched({})'
  BY <1>3, <1>7 DEF ToWipe, Vacant, Fetched
<1>10. pc'[Server] = "list" => Fetched(todo[Server])'
  BY <1>5, <1>7 DEF ToWipe, Vacant, Fetched
<1>11. pc'[Server] \in Sending => Fetched(Offering)'
  BY <1>5, <1>7 DEF ToWipe, Vacant, Fetched, Offering
<1> QED  BY <1>5, <1>6, <1>8, <1>9, <1>10, <1>11 DEF ToFetch

\* The info of the file that the server is sending.
LEMMA FetchesTheInfo ==
    ASSUME IInv, Offers, freezed, Fetches, ReceiveInfo(Client)
    PROVE  /\ pc'[Client] = "recv" => ToFetch'
           /\ pc'[Client] = "recv.data" =>
                ToStore' /\ (pc'[Server] \in Sending => Fetched(Offering)')
<1> DEFINE info == Head(in[Client])
           data == cur[Client].word = "FILE" /\ info.status # "erased"
<1>1. /\ Typed /\ pc[Client] = "recv.info" /\ in[Client] # <<>> /\ Offered /\ ReceivesInfo
  BY DEF IInv, ReceiveInfo, Comes, Downloading
<1>2. /\ in[Client] = <<Info(cur[Server].path, cur[Server].status)>>
      /\ Downloads("send.info", <<>>) /\ cur[Client].word = cur[Server].word
  BY <1>1 DEF ReceivesInfo
<1>3. /\ info.path = cur[Server].path /\ info.status = cur[Server].status
      /\ Tail(in[Client]) = <<>>
  BY <1>2, Lists DEF Info
<1>4. info.path \in Path /\ task[Client] # "request"
  BY <1>1, <1>3, Sides DEF Typed, Contents, IInv, Course, Joining, Fetching, Uploading, Watching
<1>5. /\ cur'[Client].path = cur[Server].path /\ UNCHANGED <<todo, Noted>>
      /\ cur'[Server] = cur[Server] /\ pc'[Server] = pc[Server]
      /\ dir'[Server] = dir[Server]
      /\ \A p \in Path \ There : dir'[Client][p] = dir[Client][p]
      /\ dir'[Client] = dir[Client] \/ dir'[Client][cur[Server].path] = 0
  <2>1. /\ cur' = [cur EXCEPT ![Client].path = info.path]
        /\ dir' = dir \/ dir' = [dir EXCEPT ![Client][info.path] = 0]
        /\ UNCHANGED <<todo, Noted>>
        /\ \E to : Goto(Client, to)
    BY <1>1 DEF ReceiveInfo, faultVars, syncVars, Noted
  <2>2. pc'[Server] = pc[Server]
    BY <1>1, <2>1, Sides DEF Goto, Typed, Placed
  <2>3. cur'[Client].path = cur[Server].path /\ cur'[Server] = cur[Server]
    BY <1>1, <1>3, <2>1, Sides DEF Typed, Contents
  <2>4. /\ dir'[Server] = dir[Server]
        /\ \A p \in Path \ There : dir'[Client][p] = dir[Client][p]
        /\ dir'[Client] = dir[Client] \/ dir'[Client][cur[Server].path] = 0
    BY <1>1, <1>3, <1>4, <2>1, Sides DEF Typed, Contents, There
  <2> QED  BY <2>1, <2>2, <2>3, <2>4
<1>6. in'[Client] = <<>>
  <2>1. /\ Refusal \in Seq(Message) /\ <<Ack("INFO")>> \in Seq(Message)
        /\ <<Ack("INFO"), Ack("DONE")>> \in Seq(Message)
    BY MessageSeqs, MessagesMade DEF Refusal, Words, Whats
  <2>2. PICK ms \in Seq(Message) : Answer(Client, ms)
    BY <2>1 DEF ReceiveInfo
  <2> QED  BY <1>1, <1>3, <2>2, ClientSays
<1>7. CASE Silent
  <2>1. Silent'
    BY <1>5, <1>7 DEF Silent
  <2>2. ToStore'
    BY <1>5, <1>6, Lists DEF ToStore
  <2> QED  BY <1>6, <2>1, <2>2, Lists DEF ToFetch, Silent, Sending
<1>8. CASE ~Silent
  <2>1. pc[Server] = "send.info" /\ info.status = "created"
        /\ cur[Server].word \in {"FILE", "FILE_DEL"}
    BY <1>1, <1>2, <1>3, <1>8 DEF Downloads, Serves, Offered, Sending
  <2>2. Fetched(Offering)
    BY <1>1, <2>1 DEF Fetches, Sending
  <2>3. Fetched(Offering)'
    <3>1. Offering \subseteq Path /\ Offering' = Offering
      BY <1>1, <1>5, Sides DEF Offering, Typed, Contents
    <3>2. \A p \in Path : dir'[Client][p] = dir[Client][p] \/ dir'[Client][p] = 0
      BY <1>5 DEF There
    <3>3. \A p \in Path \ Offering : Alike(p)'
      BY <1>5, <2>2 DEF Fetched, Alike, There, Offering
    <3> QED  BY <1>5, <2>2, <3>1, <3>2, <3>3 DEF Fetched
  <2>4. ASSUME pc'[Client] = "recv"
        PROVE  Alike(cur[Server].path)'
    <3>1. CASE dir[Client][info.path] # 0
      BY <1>3, <1>4, <1>5, <2>2, <3>1 DEF Fetched, Alike, Offering
    <3>2. CASE dir[Client][info.path] = 0
      <4>1. ~data
        BY <1>1, <2>4, <3>2, Sides DEF ReceiveInfo, Goto, Typed, Placed
      <4>2. cur[Server].word = "FILE_DEL"
        BY <1>2, <2>1, <4>1
      <4>3. dir[Server][cur[Server].path] = 0
        BY <2>1, <4>2 DEF Offers, Sending
      <4> QED  BY <1>3, <1>5, <3>2, <4>3 DEF Alike
    <3> QED  BY <3>1, <3>2
  <2>5. ASSUME pc'[Client] = "recv"
        PROVE  ToFetch'
    <3>1. Fetched(todo[Server])'
      BY <1>5, <2>3, <2>4, <2>5 DEF Fetched, Offering
    <3> QED  BY <1>5, <1>6, <2>1, <3>1, Lists DEF ToFetch
  <2>6. ToStore'
    BY <1>5, <1>6, Lists DEF ToStore
  <2> QED  BY <2>3, <2>5, <2>6
<1> QED  BY <1>7, <1>8

\* Its data.
LEMMA FetchesTheData ==
    ASSUME IInv, Offers, freezed, Fetches, ReceiveData(Client)
    PROVE  ToFetch'
<1>1. /\ Typed /\ pc[Client] = "recv.data" /\ in[Client] # <<>> /\ ReceivesData /\ ToStore
  BY DEF IInv, ReceiveData, Downloading, Fetches
<1>2. PICK v \in Version : in[Client] = <<Data(v)>> /\ Downloads("send.end", <<>>)
  BY <1>1 DEF ReceivesData
<1>3. /\ Head(in[Client]).version = v /\ Tail(in[Client]) = <<>>
      /\ v = dir[Server][cur[Server].path] /\ cur[Client].path = cur[Server].path
  BY <1>1, <1>2, Lists DEF Data, ToStore
<1>4. /\ dir' = [dir EXCEPT ![Client][cur[Client].path] = v]
      /\ UNCHANGED <<todo, cur, Noted>> /\ Answer(Client, <<Ack("DONE")>>)
  BY <1>3 DEF ReceiveData, faultVars, syncVars, Noted
<1>5. /\ dir'[Client][cur[Server].path] = v /\ dir'[Server] = dir[Server]
      /\ \A p \in Path \ There : dir'[Client][p] = dir[Client][p]
      /\ pc'[Server] = pc[Server]
  BY <1>1, <1>3, <1>4, Sides DEF Typed, Placed, Contents, ReceiveData, Goto, There
<1>6. in'[Client] = <<>>
  BY <1>1, <1>3, <1>4, ClientSays, MessageSeqs, MessagesMade DEF Whats
<1>7. CASE Silent
  BY <1>5, <1>6, <1>7, Lists DEF ToFetch, Silent, Sending
<1>8. CASE ~Silent
  <2>1. pc[Server] = "send.end"
    BY <1>2, <1>8 DEF Downloads, Serves
  <2>2. Fetched(Offering) /\ cur[Server].path \notin todo[Server]
    BY <1>1, <2>1 DEF Fetches, Offers, Sending
  <2>3. Fetched(todo[Server])'
    BY <1>3, <1>4, <1>5, <2>2 DEF Fetched, Alike, Offering, There
  <2> QED  BY <1>5, <1>6, <2>1, <2>3, Lists DEF ToFetch
<1> QED  BY <1>7, <1>8

LEMMA FetchesClient ==
    ASSUME IInv, Offers, Fetches, ClientStep
    PROVE  Fetches'
<1> SUFFICES ASSUME freezed',
                    pc'[Client] \in {"download?", "recv", "recv.info", "recv.data"}
             PROVE  Fetches'
  BY DEF Fetches
<1>1. Typed
  BY DEF IInv
<1>2. CASE Compare
  <2>1. Joining /\ ~Spoilt /\ pc[Client] = "sum" /\ in[Client] # <<>>
    BY <1>2, ComparesOnce DEF Compare
  <2>2. PICK f \in [Path -> Version] : in[Client] = <<Sum(f)>>
    BY <2>1 DEF IInv, Entering, Joining
  <2>3. pc'[Client] = "download?"
    BY <1>2, FetchAsked
  <2>4. PICK choice \in {"OK", "DOWNLOAD", "UPDATE"} : Answer(Client, <<Text(choice)>>)
    BY <1>2 DEF Compare, Choice
  <2>5. <<Text(choice)>> \in Seq(Message)
    BY MessagesMade, MessageSeqs DEF Words
  <2>6. in'[Client] = <<>>
    BY <1>1, <2>1, <2>2, <2>4, <2>5, ClientSays, Lists
  <2> QED  BY <2>3, <2>6 DEF Fetches
<1>3. CASE DownloadGranted
  <2>1. freezed /\ pc[Client] = "download?" /\ in[Client] # <<>>
    BY <1>3 DEF DownloadGranted, Asks, Comes, syncVars
  <2>2. ToWipe
    BY <2>1 DEF Fetches
  <2> QED  BY <1>3, <2>1, <2>2, FetchStarts DEF Fetches
<1>4. CASE ReceiveCommand(Client)
  <2>1. freezed /\ pc[Client] = "recv" /\ in[Client] # <<>> /\ UNCHANGED <<dir, Noted>>
    BY <1>4 DEF ReceiveCommand, Comes, syncVars, faultVars, Noted
  <2>2. pc'[Client] = "recv.info"
    BY <1>1, <1>4, Sides DEF ReceiveCommand, Goto, Typed, Placed
  <2>3. UNCHANGED Yonder
    BY <1>1, ClientLeaves
  <2>4. pc[Server] \in Sending => Fetched(Offering)
    BY <2>1 DEF Fetches, ToFetch
  <2>5. pc'[Server] \in Sending => Fetched(Offering)'
    BY <2>1, <2>3, <2>4 DEF Fetched, Alike, Offering, Yonder
  <2> QED  BY <2>2, <2>5 DEF Fetches
<1>5. CASE ReceiveInfo(Client)
  <2>1. freezed
    BY <1>5 DEF ReceiveInfo, syncVars
  <2>2. pc'[Client] \in {"recv", "recv.data"}
    BY <1>1, <1>5, Sides DEF ReceiveInfo, Received, Goto, Typed, Placed
  <2> QED  BY <1>5, <2>1, <2>2, FetchesTheInfo DEF Fetches
<1>6. CASE ReceiveData(Client)
  <2>1. freezed
    BY <1>6 DEF ReceiveData, syncVars
  <2>2. pc'[Client] \in {"recv", "free"}
    BY <1>1, <1>6, Sides DEF ReceiveData, Received, Goto, Typed, Placed
  <2> QED  BY <1>6, <2>1, <2>2, FetchesTheData DEF Fetches
<1> QED  BY <1>1, <1>2, <1>3, <1>4, <1>5, <1>6, ClientReaches

\* The user may edit what has come, seen or not, or what is to come.
LEMMA FetchesEdited ==
    ASSUME Typed, Fetches, NEW p \in Path, Edit(p)
    PROVE  Fetches'
<1> SUFFICES ASSUME freezed'  PROVE Fetches'
  BY DEF Fetches
<1>1. /\ UNCHANGED <<pc, in, cur, todo, freezed, dir[Server]>>
      /\ \A q \in Path \ {p} : dir'[Client][q] = dir[Client][q]
      /\ Noted' = Noted \cup {p}
  BY Edited
<1>2. \A q \in Path : /\ Alike(q) => Alike(q)'
                      /\ dir[Client][q] = 0 \/ q \in Noted =>
                           dir'[Client][q] = 0 \/ q \in Noted'
  BY <1>1 DEF Alike
<1>3. todo[Server] \subseteq Path /\ Offering \subseteq Path /\ Offering' = Offering
  BY <1>1, Sides DEF Offering, Typed, Contents
<1>4. ToWipe => ToWipe'
  BY <1>1, <1>3 DEF ToWipe, Vacant
<1>5. /\ Fetched({}) => Fetched({})'
      /\ Fetched(todo[Server]) => Fetched(todo[Server])'
      /\ Fetched(Offering) => Fetched(Offering)'
  BY <1>1, <1>2, <1>3 DEF Fetched
<1>6. ToFetch => ToFetch'
  BY <1>1, <1>5 DEF ToFetch
<1>7. ToStore => ToStore'
  BY <1>1 DEF ToStore
<1> QED  BY <1>1, <1>4, <1>5, <1>6, <1>7 DEF Fetches

LEMMA FetchesNext ==
    ASSUME IInv, Offers, Fetches, [Straight]_vars
    PROVE  Fetches'
<1>1. Typed
  BY DEF IInv
<1>2. CASE ServerStops \/ ReadFails(Server)
  <2>1. /\ Silent' /\ UNCHANGED <<dir, cur, freezed, Noted>>
        /\ pc'[Client] = pc[Client] /\ in'[Client] = in[Client]
    BY <1>1, <1>2, ServerPauses, ServerFails DEF Noted
  <2>2. pc'[Server] \notin Sending \cup {"list"}
    BY <2>1 DEF Silent, Sending
  <2>3. Vacant({}) = Vacant({})' /\ Fetched({}) = Fetched({})'
    BY <2>1 DEF Vacant, Fetched, Alike
  <2> QED  BY <2>1, <2>2, <2>3 DEF Fetches, ToWipe, ToFetch, ToStore
<1>3. CASE ReadFails(Client)
  BY <1>1, <1>3, FailingReaches DEF Fetches
<1>4. CASE UNCHANGED vars
  BY <1>4 DEF vars, Fetches, ToWipe, ToFetch, ToStore, Fetched, Vacant, Alike, Noted,
             Offering
<1> QED
  BY <1>1, <1>2, <1>3, <1>4, FetchesServer, FetchesClient, FetchesEdited, Sides DEF Straight

\* The END of a download is read when everything has come.
LEMMA DownloadedAll ==
    ASSUME IInv, Fetches, DownloadReceived
    PROVE  Accounted'
<1>1. /\ Typed /\ pc[Client] = "recv" /\ in[Client] # <<>> /\ Head(in[Client]).w = "END"
      /\ UNCHANGED dir
  BY DEF IInv, DownloadReceived, Comes, Got, faultVars
<1>2. freezed
  BY <1>1 DEF IInv, Course, Joining, Fetching, Uploading, Watching, Sending, Over
<1>3. Receives
  BY <1>1, <1>2 DEF IInv, Downloading
<1>4. PICK w \in {"END", cur[Server].word} : in[Client] = <<Text(w)>>
  BY <1>1, <1>3 DEF Receives, Coming
<1>5. w = "END"
  BY <1>1, <1>4, Lists DEF Text
<1>6. Fetched({})
  BY <1>1, <1>2, <1>4, <1>5 DEF Fetches, ToFetch
<1>7. \A p \in Noted : p \in ignored' \/ request'[p] # "none"
  BY DEF Noted, DownloadReceived, faultVars
<1> QED  BY <1>1, <1>6, <1>7 DEF Accounted, Fetched, Alike

-----------------------------------------------------------------------------
(* Every step *)

LEMMA SyncInit == Init => SyncInv
<1> SUFFICES ASSUME Init PROVE SyncInv
  OBVIOUS
<1>1. pc[Client] = "connect" /\ pc[Server] = "accept" /\ ~freezed /\ task[Client] = "none"
  BY Sides DEF Init
<1> QED  BY <1>1 DEF SyncInv, Comparing, Offers, Fetches, Granted, Storing, Sending

LEMMA SyncNext == IInv /\ SyncInv /\ [Straight]_vars => SyncInv'
BY ComparingNext, OffersAll, FetchesNext, GrantedNext, StoringNext DEF IInv, SyncInv

\* The three ways in which the client takes the folders for synchronised.
LEMMA TakenForSynced ==
    ASSUME Typed, [Straight]_vars, first_syncrinize, ~first_syncrinize'
    PROVE  Compare \/ DownloadReceived \/ (EndGranted /\ Got(Client) = "ACK")
<1> USE DEF syncVars
<1>1. CASE ClientStep
  <2>1. CASE Exchange(Client)
    BY <2>1
    DEF Exchange, SendInfo, SendData, SendEnds, SendNext, SendEnd, ReceiveCommand,
        ReceiveInfo, ReceiveData, Misread
  <2>2. ~(Connect \/ ConnectFails \/ Login \/ LoggedIn \/ StartSync \/ UpdateGranted
            \/ DownloadGranted \/ SendRequest \/ RequestGranted \/ ConnectionFails \/ SigPipe)
    BY DEF Connect, ConnectFails, Login, LoggedIn, StartSync, UpdateGranted,
           DownloadGranted, SendRequest, RequestGranted, ConnectionFails, SigPipe
  <2>3. EndGranted => Got(Client) = "ACK"
    BY DEF EndGranted
  <2> QED  BY <1>1, <2>1, <2>2, <2>3 DEF ClientStep
<1>2. CASE ServerStep
  BY <1>2, ServerDoes DEF ClientSide
<1>3. CASE ServerStops \/ \E x \in Side : ReadFails(x)
  BY <1>3 DEF ServerStops, ReadFails
<1>4. CASE (\E p \in Path : Edit(p)) \/ UNCHANGED vars
  BY <1>4 DEF Edit, vars
<1> QED  BY <1>1, <1>2, <1>3, <1>4 DEF Straight

\* The END of an upload is acknowledged when everything is stored, or will be.
LEMMA UploadedAll ==
    ASSUME IInv, Storing, EndGranted, first_syncrinize, Got(Client) = "ACK", faults <= 1
    PROVE  Accounted'
<1>1. /\ pc[Client] = "end?" /\ in[Client] # <<>> /\ ~Spoilt
      /\ UNCHANGED <<dir, request>>
  BY NotSpoilt DEF EndGranted, Comes
<1>2. task[Client] = "update"
  BY <1>1 DEF IInv, Course, Joining, Fetching, Uploading, Watching, Receiving, Sending, Over
<1>3. Follows
  BY <1>1, <1>2 DEF Storing, Deserted, Over
<1>4. Stored({})
  BY <1>3, EndIsGranted
<1> QED  BY <1>1, <1>4 DEF Accounted, Stored, Kept

\* What differs, when the client takes the folders for synchronised
\* (Client.cpp:309), is queued for the server, or was edited while the watcher
\* was frozen (285): SyncedOrQueued, up to the first time the client takes
\* other bytes for what it waits for (277); also when a read has failed or the
\* server has stopped, and the client has tried again (303, 312).
THEOREM SyncAccounted ==
    Spec => [][first_syncrinize /\ ~first_syncrinize' /\ faults <= 1
                 /\ "misread" \notin slips' => Accounted']_vars
<1> DEFINE Inv == Typed /\ ("misread" \in slips \/ (IInv /\ SyncInv))
           Promise == first_syncrinize /\ ~first_syncrinize' /\ faults <= 1
                        /\ "misread" \notin slips' => Accounted'
<1>1. Init => Inv
  BY InvInit, SyncInit DEF IInv
<1>2. Inv /\ [Next]_vars => Inv'
  BY Strays, TypedNext, InvNext, SyncNext
<1>3. Inv /\ [Next]_vars => [Promise]_vars
  <2> SUFFICES ASSUME Inv, [Next]_vars, first_syncrinize, ~first_syncrinize',
                      faults <= 1, "misread" \notin slips'
               PROVE  Accounted'
    OBVIOUS
  <2>1. IInv /\ SyncInv /\ [Straight]_vars
    BY Strays
  <2>2. Compare \/ DownloadReceived \/ (EndGranted /\ Got(Client) = "ACK")
    BY <2>1, TakenForSynced DEF IInv
  <2> QED  BY <2>1, <2>2, ComparedEqual, DownloadedAll, UploadedAll DEF SyncInv
<1> QED  BY <1>1, <1>2, <1>3, PTL DEF Spec

=============================================================================
