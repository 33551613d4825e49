---------------------------- MODULE SessionProofs ----------------------------
(***************************************************************************)
(* What holds of a session whatever fails on the way, proved for every     *)
(* set of files and every bound: what the variables hold, and that the     *)
(* watcher is not left frozen behind a synchronisation that is over,       *)
(* unless the client has taken other bytes for what it waited for.         *)
(***************************************************************************)
EXTENDS Session, SequenceTheorems, TLAPS

-----------------------------------------------------------------------------
(* Types *)

\* Where the ends are, and what is between them.
Placed ==
    /\ pc \in [Side -> Place]
    /\ in \in [Side -> Seq(Message)]
    /\ conn \in {"open", "closed", "reset", "shut"}
    /\ pc[Server] = "gone" => conn # "open"
    /\ conn \in {"closed", "reset"} => pc[Server] = "gone"

Contents ==
    /\ dir \in [Side -> [Path -> Version]]
    /\ cur \in [Side -> [path : Path, status : Statuses, word : Words \cup {"INFO"}]]
    /\ todo \in [Side -> SUBSET Path]
    /\ task \in [Side -> {"none", "update", "download", "request"}]
    /\ sum \in [Path -> Version]
    /\ request \in [Path -> Statuses \cup {"none"}]
    /\ edits \in 0 .. MaxEdits /\ faults \in 0 .. MaxFaults
    /\ cont_error \in 0 .. (MaxErrors + 1)
    /\ freezed \in BOOLEAN /\ first_syncrinize \in BOOLEAN

\* A client that is still connecting has errors left.
Typed ==
    /\ Placed /\ Contents
    /\ pc[Client] = "connect" => cont_error < MaxErrors

LEMMA Sides ==
    /\ Client \in Side /\ Server \in Side /\ Client # Server
    /\ Peer(Client) = Server /\ Peer(Server) = Client
    /\ \A x \in Side : Peer(x) \in Side /\ Peer(x) # x /\ Peer(Peer(x)) = x
    /\ \A x \in Side : x = Client \/ x = Server
BY DEF Client, Server, Side, Peer

LEMMA MessageParts ==
    ASSUME NEW m \in Message
    PROVE  /\ m.w = "INFO" => m.path \in Path /\ m.status \in Statuses
           /\ m.w = "DATA" => m.version \in Version
           /\ m.w = "SUM" => m.folder \in [Path -> Version]
           /\ m.w \notin Raw \cup {"INFO"} => m.w \in Words
<1>1. CASE m \in [w : Words, of : Whats]
  <2>1. m.w \in Words
    BY <1>1
  <2>2. \A w \in Words : w # "INFO" /\ w # "DATA" /\ w # "SUM"
    BY DEF Words
  <2> QED  BY <2>1, <2>2
<1>2. CASE m \in [w : {"INFO"}, path : Path, status : Statuses]
  BY <1>2
<1>3. CASE m \in [w : {"DATA"}, version : Version]
  BY <1>3 DEF Raw
<1>4. CASE m \in [w : {"SUM"}, folder : [Path -> Version]]
  BY <1>4 DEF Raw
<1>5. CASE m = Rest
  BY <1>5 DEF Raw, Rest
<1> QED  BY <1>1, <1>2, <1>3, <1>4, <1>5 DEF Message

LEMMA MessagesMade ==
    /\ \A w \in Words : Text(w) \in Message
    /\ \A w \in Words, of \in Whats : Reply(w, of) \in Message
    /\ \A of \in Whats : Ack(of) \in Message
    /\ \A p \in Path, st \in Statuses : Info(p, st) \in Message
    /\ \A v \in Version : Data(v) \in Message
    /\ \A f \in [Path -> Version] : Sum(f) \in Message
    /\ Rest \in Message
<1>1. \A w \in Words, of \in Whats : Reply(w, of) \in Message
  BY DEF Reply, Message
<1>2. \A w \in Words : Text(w) \in Message
  BY DEF Text, Message, Whats
<1>3. "ACK" \in Words
  BY DEF Words
<1>4. \A of \in Whats : Ack(of) \in Message
  BY <1>1, <1>3 DEF Ack
<1> QED
  BY <1>1, <1>2, <1>4 DEF Info, Data, Sum, Message

\* What is read is a message, and messages are left.
LEMMA Reading ==
    ASSUME Placed, NEW x \in Side
    PROVE  /\ in[x] \in Seq(Message)
           /\ in[x] # <<>> => Head(in[x]) \in Message /\ Tail(in[x]) \in Seq(Message)
<1>1. in[x] \in Seq(Message)
  BY DEF Placed
<1> QED
  BY <1>1, HeadTailProperties

\* What a write does to the two directions; a write that is lost closes the
\* connection for good.
LEMMA Writing ==
    ASSUME Placed, NEW x \in Side, NEW rest \in Seq(Message),
           NEW ms \in Seq(Message), Write(x, rest, ms)
    PROVE  /\ in' \in [Side -> Seq(Message)]
           /\ in'[x] = rest
           /\ \/ in'[Peer(x)] = in[Peer(x)] \o ms /\ conn' = conn
              \/ /\ in'[Peer(x)] = in[Peer(x)]
                 /\ conn = "closed" /\ conn' = "reset" /\ ms # <<>>
<1> USE DEF Placed
<1>1. in[Peer(x)] \o ms \in Seq(Message)
  BY Sides, ConcatProperties
<1>2. CASE /\ in' = [in EXCEPT ![x] = rest, ![Peer(x)] = @ \o ms]
           /\ UNCHANGED conn
  BY <1>1, <1>2, Sides
<1>3. CASE /\ in' = [in EXCEPT ![x] = rest]
           /\ ms # <<>> /\ conn = "closed" /\ conn' = "reset"
  BY <1>3, Sides
<1> QED  BY <1>2, <1>3 DEF Write

\* An end that reads or writes and goes on.
LEMMA Moving ==
    ASSUME Placed, NEW x \in Side, NEW rest \in Seq(Message),
           NEW ms \in Seq(Message), NEW to \in Place \ {"gone"},
           pc[x] # "gone", Write(x, rest, ms), Goto(x, to)
    PROVE  /\ Placed'
           /\ pc'[x] = to /\ pc'[Peer(x)] = pc[Peer(x)]
<1>1. /\ pc' \in [Side -> Place]
      /\ pc'[x] = to /\ pc'[Peer(x)] = pc[Peer(x)]
  BY Sides DEF Goto, Placed
<1>2. pc'[Server] = "gone" <=> pc[Server] = "gone"
  BY <1>1, Sides
<1>3. in' \in [Side -> Seq(Message)]
  BY Writing
<1>4. conn' = conn \/ (conn = "closed" /\ conn' = "reset")
  BY Writing
<1> QED  BY <1>1, <1>2, <1>3, <1>4 DEF Placed

LEMMA TypedIsType == Typed => TypeOK
BY DEF Typed, Placed, Contents, TypeOK

LEMMA TypedInit == Init => Typed
<1> SUFFICES ASSUME Init PROVE Typed
  OBVIOUS
<1> USE SessionAssumption DEF Init
<1>1. (CHOOSE p \in Path : TRUE) \in Path
  OBVIOUS
<1>2. Nothing \in [Path -> Version]
  BY DEF Nothing, Version
<1>3. dir \in [Side -> [Path -> Version]]
  <2>1. 0 .. 2 \subseteq Version
    BY DEF Version
  <2> QED  BY <2>1
<1>4. cur \in [Side -> [path : Path, status : Statuses, word : Words \cup {"INFO"}]]
  <2>1. [path |-> CHOOSE p \in Path : TRUE, status |-> "modified", word |-> "FILE"]
          \in [path : Path, status : Statuses, word : Words \cup {"INFO"}]
    BY <1>1 DEF Statuses, Words
  <2> QED  BY <2>1
<1>5. Placed
  <2>1. pc \in [Side -> Place] /\ pc[Server] = "accept"
    BY Sides DEF Place, Waits, AwaitsMessage
  <2>2. in \in [Side -> Seq(Message)]
    BY EmptySeq
  <2> QED  BY <2>1, <2>2 DEF Placed
<1>6. Contents
  <2>1. 0 \in 0 .. (MaxErrors + 1) /\ 0 \in 0 .. MaxEdits /\ 0 \in 0 .. MaxFaults
    OBVIOUS
  <2>2. /\ todo \in [Side -> SUBSET Path]
        /\ task \in [Side -> {"none", "update", "download", "request"}]
        /\ request \in [Path -> Statuses \cup {"none"}]
    OBVIOUS
  <2>3. /\ edits = 0 /\ faults = 0 /\ cont_error = 0
        /\ freezed \in BOOLEAN /\ first_syncrinize \in BOOLEAN /\ sum = Nothing
    OBVIOUS
  <2> HIDE DEF Init
  <2> QED  BY <1>2, <1>3, <1>4, <2>1, <2>2, <2>3 DEF Contents
<1> QED  BY <1>5, <1>6 DEF Typed

\* Sequences of one, two and three messages.
LEMMA MessageSeqs ==
    /\ <<>> \in Seq(Message)
    /\ \A a \in Message : <<a>> \in Seq(Message)
    /\ \A a, b \in Message : <<a, b>> \in Seq(Message)
    /\ \A a, b, c \in Message : <<a, b, c>> \in Seq(Message)
OBVIOUS

LEMMA Going ==
    {"logged?", "update?", "download?", "end?", "request?", "send.cmd", "send.info",
     "send.end", "accept", "free", "choice", "recv", "recv.info", "bye", "sum",
     "recv.data", "connect", "login", "start", "list", "idle", "exited", "lost"}
      \subseteq Place \ {"gone"}
BY DEF Place, Waits, AwaitsMessage, AwaitsReply

\* What an end reads and writes are messages.
LEMMA ExchangeTyped ==
    ASSUME Typed, NEW x \in Side, Exchange(x)
    PROVE  Typed'
<1> USE DEF Typed
<1>1. CASE SendInfo(x)
  <2>1. Info(cur[x].path, cur[x].status) \in Message
    BY MessagesMade DEF Contents
  <2>2. Placed' /\ pc'[x] = "send.info" /\ pc'[Peer(x)] = pc[Peer(x)]
    BY <1>1, <2>1, Moving, Reading, MessageSeqs, Going DEF SendInfo, Comes, Answer
  <2> QED
    BY <1>1, <2>2, Sides DEF SendInfo, Contents, syncVars, faultVars
<1>2. CASE SendData(x)
  <2>1. Data(dir[x][cur[x].path]) \in Message
    BY MessagesMade DEF Contents
  <2>2. Placed' /\ pc'[x] = "send.end" /\ pc'[Peer(x)] = pc[Peer(x)]
    BY <1>2, <2>1, Moving, Reading, MessageSeqs, Going DEF SendData, Comes, Answer
  <2> QED
    BY <1>2, <2>2, Sides DEF SendData, Contents, faultVars
<1>3. CASE SendEnds(x)
  <2>1. \E to \in {"idle", "list"} :
          Placed' /\ pc'[x] = to /\ pc'[Peer(x)] = pc[Peer(x)]
    BY <1>3, Moving, Reading, MessageSeqs, Going DEF SendEnds, Comes, Answer
  <2> QED
    BY <1>3, <2>1, Sides DEF SendEnds, Contents, syncVars, faultVars
<1>4. CASE SendNext(x)
  <2>1. PICK p \in todo[x] :
          /\ todo' = [todo EXCEPT ![x] = @ \ {p}]
          /\ Post(x, <<Command(x, p)>>)
          /\ Begin(x, p, IF x = Client THEN "modified" ELSE "created")
    BY <1>4 DEF SendNext
  <2>2. Command(x, p) \in Message
    BY MessagesMade DEF Command, Words
  <2>3. Placed' /\ pc'[x] = "send.cmd" /\ pc'[Peer(x)] = pc[Peer(x)]
    <3>1. /\ Goto(x, "send.cmd") /\ Write(x, in[x], <<Command(x, p)>>)
          /\ pc[x] # "gone" /\ in[x] \in Seq(Message)
      BY <1>4, <2>1, Reading DEF SendNext, Post, Begin
    <3> QED  BY <2>2, <3>1, Moving, MessageSeqs, Going
  <2>4. p \in Path /\ todo' \in [Side -> SUBSET Path]
    BY <2>1 DEF Contents
  <2>5. cur' \in [Side -> [path : Path, status : Statuses, word : Words \cup {"INFO"}]]
    BY <2>1, <2>4 DEF Begin, Contents, Statuses, Words
  <2> QED
    BY <1>4, <2>3, <2>4, <2>5, Sides DEF SendNext, Contents, syncVars, faultVars
<1>5. CASE SendEnd(x)
  <2>1. Text("END") \in Message
    BY MessagesMade DEF Words
  <2>2. \E to \in {"end?", "bye"} :
          Placed' /\ pc'[x] = to /\ pc'[Peer(x)] = pc[Peer(x)]
    BY <1>5, <2>1, Moving, Reading, MessageSeqs, Going DEF SendEnd, Post
  <2> QED
    BY <1>5, <2>2, Sides DEF SendEnd, Contents, syncVars, faultVars
<1>6. CASE ReceiveCommand(x)
  <2>1. Ack("COMMAND") \in Message
    BY MessagesMade DEF Whats
  <2>2. Placed' /\ pc'[x] = "recv.info" /\ pc'[Peer(x)] = pc[Peer(x)]
    <3>1. /\ pc[x] = "recv" /\ Goto(x, "recv.info")
          /\ Write(x, Tail(in[x]), <<Ack("COMMAND")>>)
          /\ Tail(in[x]) \in Seq(Message)
      BY <1>6, Reading DEF ReceiveCommand, Comes, Answer
    <3> QED  BY <2>1, <3>1, Moving, MessageSeqs, Going
  <2>3. Got(x) \in Words \cup {"INFO"}
    BY <1>6, Reading, MessageParts DEF ReceiveCommand, Comes, Got
  <2>4. cur' \in [Side -> [path : Path, status : Statuses, word : Words \cup {"INFO"}]]
    <3>1. cur' = [cur EXCEPT ![x].word = Got(x)]
      BY <1>6 DEF ReceiveCommand
    <3>2. cur[x] \in [path : Path, status : Statuses, word : Words \cup {"INFO"}]
      BY DEF Contents
    <3>3. [cur[x] EXCEPT !.word = Got(x)]
            \in [path : Path, status : Statuses, word : Words \cup {"INFO"}]
      BY <2>3, <3>2
    <3> QED  BY <3>1, <3>3 DEF Contents
  <2> QED
    BY <1>6, <2>2, <2>4, Sides DEF ReceiveCommand, Contents, syncVars, faultVars
<1>7. CASE ReceiveInfo(x)
  <2>1. /\ Ack("INFO") \in Message /\ Ack("DONE") \in Message
        /\ Reply("PRESENT", "INFO") \in Message
    BY MessagesMade DEF Whats, Words
  <2>2. PICK to \in {"recv.data", "free", "recv"}, ms \in Seq(Message) :
          Goto(x, to) /\ Answer(x, ms)
    BY <1>7, <2>1, MessageSeqs DEF ReceiveInfo, Received, Refusal
  <2>3. Placed' /\ pc'[x] = to /\ pc'[Peer(x)] = pc[Peer(x)]
    <3>1. pc[x] = "recv.info" /\ Tail(in[x]) \in Seq(Message)
      BY <1>7, Reading DEF ReceiveInfo, Comes
    <3>2. Write(x, Tail(in[x]), ms) /\ to \in Place \ {"gone"} /\ pc[x] # "gone"
      BY <2>2, <3>1, Going DEF Answer
    <3> QED  BY <2>2, <3>1, <3>2, Moving
  <2>4. Head(in[x]).path \in Path
    BY <1>7, Reading, MessageParts DEF ReceiveInfo, Comes, Got
  <2>5. cur' \in [Side -> [path : Path, status : Statuses, word : Words \cup {"INFO"}]]
    <3>1. cur' = [cur EXCEPT ![x].path = Head(in[x]).path]
      BY <1>7 DEF ReceiveInfo
    <3>2. cur[x] \in [path : Path, status : Statuses, word : Words \cup {"INFO"}]
      BY DEF Contents
    <3>3. [cur[x] EXCEPT !.path = Head(in[x]).path]
            \in [path : Path, status : Statuses, word : Words \cup {"INFO"}]
      BY <2>4, <3>2
    <3> QED  BY <3>1, <3>3 DEF Contents
  <2>6. dir' \in [Side -> [Path -> Version]]
    <3>1. 0 \in Version
      BY SessionAssumption DEF Version
    <3> QED  BY <1>7, <2>4, <3>1 DEF ReceiveInfo, Contents
  <2> QED
    BY <1>7, <2>2, <2>3, <2>5, <2>6, Sides
    DEF ReceiveInfo, Contents, syncVars, faultVars
<1>8. CASE ReceiveData(x)
  <2>1. Ack("DONE") \in Message
    BY MessagesMade DEF Whats
  <2>2. \E to \in {"free", "recv"} :
          Placed' /\ pc'[x] = to /\ pc'[Peer(x)] = pc[Peer(x)]
    BY <1>8, <2>1, Moving, Reading, MessageSeqs, Going
    DEF ReceiveData, Answer, Received
  <2>3. dir' \in [Side -> [Path -> Version]]
    <3>1. Head(in[x]).version \in Version
      BY <1>8, Reading, MessageParts DEF ReceiveData, Got
    <3> QED  BY <1>8, <3>1 DEF ReceiveData, Contents
  <2> QED
    BY <1>8, <2>2, <2>3, Sides DEF ReceiveData, Contents, syncVars, faultVars
<1>9. CASE Misread(x)
  <2>1. pc[x] # "gone"
    BY <1>9 DEF Misread, AwaitsMessage, AwaitsReply
  <2>2. Placed' /\ pc'[x] = "lost" /\ pc'[Peer(x)] = pc[Peer(x)]
    BY <1>9, <2>1, Sides, Going DEF Misread, Goto, Placed
  <2> QED
    BY <1>9, <2>2, Sides DEF Misread, Contents, syncVars, faultVars
<1> QED
  BY <1>1, <1>2, <1>3, <1>4, <1>5, <1>6, <1>7, <1>8, <1>9 DEF Exchange

\* An end that is told to stop, and whose connection is closed.
LEMMA Dropping ==
    ASSUME Placed, Drop, in' \in [Side -> Seq(Message)]
    PROVE  /\ Placed' /\ pc'[Server] = "gone" /\ pc'[Client] = pc[Client]
           /\ conn' = "closed"
BY Sides DEF Placed, Drop, Goto, Place

LEMMA ServerTyped ==
    ASSUME Typed, ServerStep
    PROVE  Typed'
<1> USE DEF Typed
<1>1. CASE Exchange(Server)
  BY <1>1, ExchangeTyped, Sides
<1>2. CASE HandleLogin
  <2>1. /\ Reply("OK", "LOGIN") \in Message /\ Reply("NOT_OK", "LOGIN") \in Message
    BY MessagesMade DEF Whats, Words
  <2>2. Placed' /\ pc'[Client] = pc[Client]
    <3>1. CASE Answer(Server, <<Reply("OK", "LOGIN")>>) /\ Goto(Server, "free")
      BY <1>2, <2>1, <3>1, Moving, Reading, MessageSeqs, Going, Sides
      DEF HandleLogin, Comes, Answer
    <3>2. CASE /\ in' = [in EXCEPT ![Client] = Append(@, Reply("NOT_OK", "LOGIN"))]
               /\ Goto(Server, "gone")
               /\ conn' = "closed"
      <4>1. in' \in [Side -> Seq(Message)]
        BY <2>1, <3>2, Reading, AppendProperties, Sides DEF Placed
      <4> QED
        BY <3>2, <4>1, Sides DEF Goto, Placed, Place
    <3> QED  BY <1>2, <3>1, <3>2 DEF HandleLogin
  <2> QED
    BY <1>2, <2>2 DEF HandleLogin, Contents, syncVars, faultVars
<1>3. CASE ParsePacket
  <2>1. /\ Sum(dir[Server]) \in Message /\ Ack("REQUEST") \in Message
    BY MessagesMade, Sides DEF Whats, Contents
  <2>2. PICK to \in {"choice", "recv", "free"}, ms \in Seq(Message) :
          Goto(Server, to) /\ Answer(Server, ms)
    BY <1>3, <2>1, MessageSeqs DEF ParsePacket
  <2>3. Placed' /\ pc'[Client] = pc[Client]
    BY <1>3, <2>2, Moving, Reading, Going, Sides DEF ParsePacket, Comes, Answer
  <2>4. task' \in [Side -> {"none", "update", "download", "request"}]
    BY <1>3, Sides DEF ParsePacket, Contents
  <2> QED
    BY <1>3, <2>3, <2>4 DEF ParsePacket, Contents, syncVars, faultVars
<1>4. CASE OkOrUnknown
  <2>1. Placed' /\ pc'[Client] = pc[Client]
    BY <1>4, Moving, Reading, MessageSeqs, Going, Sides DEF OkOrUnknown, Comes, Answer
  <2> QED
    BY <1>4, <2>1 DEF OkOrUnknown, Contents, syncVars, faultVars
<1>5. CASE Update
  <2>1. Ack("UPDATE") \in Message
    BY MessagesMade DEF Whats
  <2>2. Placed' /\ pc'[Client] = pc[Client]
    BY <1>5, <2>1, Moving, Reading, MessageSeqs, Going, Sides DEF Update, Comes, Answer
  <2>3. Nothing \in [Path -> Version]
    BY SessionAssumption DEF Nothing, Version
  <2>4. /\ task' \in [Side -> {"none", "update", "download", "request"}]
        /\ dir' \in [Side -> [Path -> Version]]
    BY <1>5, <2>3, Sides DEF Update, Contents
  <2> QED
    BY <1>5, <2>2, <2>4 DEF Update, Contents, syncVars, faultVars
<1>6. CASE Download
  <2>1. Ack("DOWNLOAD") \in Message
    BY MessagesMade DEF Whats
  <2>2. Placed' /\ pc'[Client] = pc[Client]
    BY <1>6, <2>1, Moving, Reading, MessageSeqs, Going, Sides DEF Download, Comes, Answer
  <2>3. /\ task' \in [Side -> {"none", "update", "download", "request"}]
        /\ todo' \in [Side -> SUBSET Path]
    BY <1>6, Sides DEF Download, Contents, Listing
  <2> QED
    BY <1>6, <2>2, <2>3 DEF Download, Contents, syncVars, faultVars
<1>7. CASE UploadEnds
  <2>1. Ack("END") \in Message /\ Ack("NOTHING") \in Message
    BY MessagesMade DEF Whats
  <2>2. Placed' /\ pc'[Client] = pc[Client]
    BY <1>7, <2>1, Moving, Reading, MessageSeqs, Going, Sides
    DEF UploadEnds, Comes, Answer
  <2> QED
    BY <1>7, <2>2 DEF UploadEnds, Contents, syncVars, faultVars
<1>8. CASE DownloadEnds
  <2>1. Placed' /\ pc'[Client] = pc[Client]
    BY <1>8, Moving, Reading, MessageSeqs, Going, Sides DEF DownloadEnds, Comes, Answer
  <2> QED
    BY <1>8, <2>1 DEF DownloadEnds, Contents, syncVars, faultVars
<1>9. CASE HangUp
  <2>1. Placed' /\ pc'[Client] = pc[Client]
    BY <1>9, Dropping DEF HangUp, Placed
  <2> QED
    BY <1>9, <2>1 DEF HangUp, Drop, Contents, syncVars, faultVars
<1> QED
  BY <1>1, <1>2, <1>3, <1>4, <1>5, <1>6, <1>7, <1>8, <1>9 DEF ServerStep

LEMMA ClientMoving ==
    ASSUME Placed, NEW rest \in Seq(Message), NEW ms \in Seq(Message),
           NEW to \in Place \ {"gone"},
           pc[Client] # "gone", Write(Client, rest, ms), Goto(Client, to)
    PROVE  Placed' /\ pc'[Client] = to /\ pc'[Server] = pc[Server]
BY Moving, Sides

\* The client says one thing, having read a message or not.
LEMMA ClientSpeaks ==
    ASSUME Placed, NEW m \in Message, NEW to \in Place \ {"gone"},
           pc[Client] # "gone", Goto(Client, to),
           Post(Client, <<m>>) \/ (in[Client] # <<>> /\ Answer(Client, <<m>>))
    PROVE  Placed' /\ pc'[Client] = to /\ pc'[Server] = pc[Server]
<1>1. PICK rest \in Seq(Message) : Write(Client, rest, <<m>>)
  BY Reading, Sides DEF Post, Answer
<1>2. <<m>> \in Seq(Message)
  BY MessageSeqs
<1> QED  BY <1>1, <1>2, ClientMoving

\* What the handlers of the client leave.
LEMMA Catching ==
    ASSUME Placed, Contents, Catch, in' \in [Side -> Seq(Message)], pc[Client] # "connect"
    PROVE  /\ Placed' /\ pc'[Server] = pc[Server]
           /\ pc'[Client] \in {"list", "exited", "login", "start"}
           /\ todo' \in [Side -> SUBSET Path]
           /\ cont_error' \in 0 .. (MaxErrors + 1)
<1>1. PICK to \in {"list", "exited", "login", "start"} : Goto(Client, to)
  BY DEF Catch, UploadAgain, ThreadEnds, LoginFails, SyncFails
<1>2. /\ pc' \in [Side -> Place] /\ pc'[Server] = pc[Server]
      /\ pc'[Client] \in {"list", "exited", "login", "start"}
  BY <1>1, Sides, Going DEF Goto, Placed
<1>3. UNCHANGED conn \/ conn' = "shut"
  BY DEF Catch, UploadAgain, ThreadEnds, LoginFails, SyncFails
<1>4. Placed'
  BY <1>2, <1>3 DEF Placed
<1>5. todo' \in [Side -> SUBSET Path]
  BY Sides
  DEF Catch, UploadAgain, ThreadEnds, LoginFails, SyncFails, Count, Contents, Listing
<1>6. cont_error' \in 0 .. (MaxErrors + 1)
  BY SessionAssumption
  DEF Catch, UploadAgain, ThreadEnds, LoginFails, SyncFails, Count, Contents
<1> QED  BY <1>2, <1>4, <1>5, <1>6

\* A question and its repetitions.
LEMMA Asking ==
    ASSUME Placed, NEW at \in Place \ {"gone", "connect"},
           NEW to \in Place \ {"gone", "connect"}, NEW question \in Words,
           Asks(at, question, to)
    PROVE  Placed' /\ pc'[Client] # "connect" /\ pc'[Server] = pc[Server]
<1>1. Text(question) \in Message
  BY MessagesMade
<1>2. PICK ms \in Seq(Message), next \in {at, to} :
        Answer(Client, ms) /\ Goto(Client, next)
  BY <1>1, MessageSeqs DEF Asks
<1> QED
  BY <1>2, ClientMoving, Reading, Sides DEF Asks, Comes, Answer

LEMMA ClientTyped ==
    ASSUME Typed, ClientStep
    PROVE  Typed'
<1> USE DEF Typed
<1>1. CASE Exchange(Client)
  BY <1>1, ExchangeTyped, Sides
<1>2. CASE Connect
  <2>1. Placed' /\ pc'[Client] = "login"
    BY <1>2, Sides, Going DEF Connect, Goto, Placed
  <2> QED
    BY <1>2, <2>1 DEF Connect, Contents, syncVars, faultVars
<1>3. CASE ConnectFails
  <2>1. cont_error' \in 0 .. (MaxErrors + 1)
    BY <1>3, SessionAssumption DEF ConnectFails, Contents
  <2>2. Placed' /\ (pc'[Client] = "connect" => cont_error' # MaxErrors)
    BY <1>3, Sides, Going DEF ConnectFails, Goto, Placed
  <2>3. cont_error' <= MaxErrors
    BY <1>3, SessionAssumption DEF ConnectFails, Contents
  <2>4. pc'[Client] = "connect" => cont_error' < MaxErrors
    BY <2>1, <2>2, <2>3, SessionAssumption
  <2> QED
    BY <1>3, <2>1, <2>2, <2>4 DEF ConnectFails, Contents, syncVars
<1>4. CASE Login
  <2>1. Text("LOGIN") \in Message
    BY MessagesMade DEF Words
  <2>2. Placed' /\ pc'[Client] = "logged?"
    BY <1>4, <2>1, ClientMoving, Reading, MessageSeqs, Going, Sides DEF Login, Post
  <2> QED
    BY <1>4, <2>2 DEF Login, Contents, syncVars, faultVars
<1>5. CASE LoggedIn
  <2>1. Placed' /\ pc'[Client] # "connect"
    BY <1>5, ClientMoving, Reading, MessageSeqs, Going, Sides DEF LoggedIn, Comes, Answer
  <2> QED
    BY <1>5, <2>1 DEF LoggedIn, Contents, syncVars, faultVars
<1>6. CASE StartSync
  <2>1. Text("SYNC") \in Message
    BY MessagesMade DEF Words
  <2>2. Placed' /\ pc'[Client] = "sum"
    BY <1>6, <2>1, ClientSpeaks, Going DEF StartSync
  <2> QED
    BY <1>6, <2>2, Sides DEF StartSync, Contents, faultVars
<1>7. CASE Compare
  <2>1. Choice(Head(in[Client]).folder) \in {"OK", "DOWNLOAD", "UPDATE"}
    BY DEF Choice
  <2>2. Text(Choice(Head(in[Client]).folder)) \in Message
    BY <2>1, MessagesMade DEF Words
  <2>3. PICK to \in {"idle", "download?", "update?"} : Goto(Client, to)
    BY <1>7 DEF Compare, Chosen, Watch, EndSync
  <2>4. Placed' /\ pc'[Client] = to
    <3>1. /\ pc[Client] = "sum" /\ in[Client] # <<>>
          /\ Answer(Client, <<Text(Choice(Head(in[Client]).folder))>>)
      BY <1>7 DEF Compare
    <3> QED  BY <2>2, <2>3, <3>1, ClientSpeaks, Going
  <2>5. /\ freezed' \in BOOLEAN /\ first_syncrinize' \in BOOLEAN
        /\ task' \in [Side -> {"none", "update", "download", "request"}]
    BY <1>7 DEF Compare, Chosen, Watch, EndSync, Restart, Contents
  <2> QED
    BY <1>7, <2>3, <2>4, <2>5 DEF Compare, Contents, faultVars
<1>8. CASE UpdateGranted
  <2>1. Placed' /\ pc'[Client] # "connect"
    BY <1>8, Asking, Going DEF UpdateGranted, Words
  <2>2. /\ task' \in [Side -> {"none", "update", "download", "request"}]
        /\ todo' \in [Side -> SUBSET Path]
    <3>1. Listing(Client) \in SUBSET Path
      BY DEF Listing
    <3>2. CASE Got(Client) = "ACK"
      <4>1. /\ task' = [task EXCEPT ![Client] = "update"]
            /\ todo' = [todo EXCEPT ![Client] = Listing(Client)]
        BY <1>8, <3>2 DEF UpdateGranted
      <4> QED  BY <3>1, <4>1, Sides DEF Contents
    <3>3. CASE Got(Client) # "ACK"
      BY <1>8, <3>3 DEF UpdateGranted, Contents
    <3> QED  BY <3>2, <3>3
  <2> QED
    BY <1>8, <2>1, <2>2 DEF UpdateGranted, Contents, syncVars, faultVars
<1>9. CASE DownloadGranted
  <2>1. Placed' /\ pc'[Client] # "connect"
    BY <1>9, Asking, Going DEF DownloadGranted, Words
  <2>2. Nothing \in [Path -> Version]
    BY SessionAssumption DEF Nothing, Version
  <2>3. /\ task' \in [Side -> {"none", "update", "download", "request"}]
        /\ dir' \in [Side -> [Path -> Version]]
    <3>1. CASE Got(Client) = "ACK"
      <4>1. /\ task' = [task EXCEPT ![Client] = "download"]
            /\ dir' = [dir EXCEPT ![Client] = Nothing]
        BY <1>9, <3>1 DEF DownloadGranted
      <4> QED  BY <2>2, <4>1, Sides DEF Contents
    <3>2. CASE Got(Client) # "ACK"
      BY <1>9, <3>2 DEF DownloadGranted, Contents
    <3> QED  BY <3>1, <3>2
  <2> QED
    BY <1>9, <2>1, <2>3 DEF DownloadGranted, Contents, syncVars, faultVars
<1>10. CASE EndGranted
  <2>1. Text("END") \in Message
    BY MessagesMade DEF Words
  <2>2. PICK to \in {"idle", "end?"}, ms \in Seq(Message) :
          pc' = [pc EXCEPT ![Client] = to] /\ Answer(Client, ms)
    <3>1. CASE Got(Client) = "ACK"
      BY <1>10, <3>1, MessageSeqs DEF EndGranted, Watch, EndSync, Goto
    <3>2. CASE Got(Client) # "ACK"
      <4>1. pc' = [pc EXCEPT ![Client] = "end?"]
        BY <1>10, <3>2 DEF EndGranted, Comes, Placed
      <4> QED  BY <1>10, <2>1, <3>2, <4>1, MessageSeqs DEF EndGranted
    <3> QED  BY <3>1, <3>2
  <2>3. Placed' /\ pc'[Client] = to
    BY <1>10, <2>2, ClientMoving, Reading, Going, Sides DEF EndGranted, Comes, Answer, Goto
  <2>4. /\ freezed' \in BOOLEAN /\ first_syncrinize' \in BOOLEAN
        /\ task' \in [Side -> {"none", "update", "download", "request"}]
    BY <1>10 DEF EndGranted, Watch, EndSync, Restart, Contents
  <2> QED
    BY <1>10, <2>3, <2>4 DEF EndGranted, Contents, faultVars
<1>11. CASE DownloadReceived
  <2>1. Ack("END") \in Message /\ Ack("NOTHING") \in Message
    BY MessagesMade DEF Whats
  <2>2. Placed' /\ pc'[Client] = "idle"
    BY <1>11, <2>1, ClientMoving, Reading, MessageSeqs, Going, Sides
    DEF DownloadReceived, Comes, Answer, EndSync
  <2>3. request' \in [Path -> Statuses \cup {"none"}]
    BY <1>11 DEF DownloadReceived, Contents, Statuses
  <2>4. /\ freezed' \in BOOLEAN /\ first_syncrinize' \in BOOLEAN
        /\ task' \in [Side -> {"none", "update", "download", "request"}]
    BY <1>11 DEF DownloadReceived, EndSync, Restart, Contents
  <2> QED
    BY <1>11, <2>2, <2>3, <2>4 DEF DownloadReceived, Contents, faultVars
<1>12. CASE SendRequest
  <2>1. PICK p \in Queue :
          /\ Post(Client, <<Text(Verb[request[p]])>>)
          /\ cur' = [cur EXCEPT ![Client].path = p, ![Client].status = request[p]]
          /\ request' = [request EXCEPT ![p] = "none"]
    BY <1>12 DEF SendRequest
  <2>2. p \in Path /\ request[p] \in Statuses
    BY DEF Queue, Contents
  <2>3. Verb[request[p]] \in Words
    BY <2>2 DEF Verb, Statuses, Words
  <2>4. Placed' /\ pc'[Client] = "request?"
    <3>1. pc[Client] = "idle" /\ Goto(Client, "request?")
      BY <1>12 DEF SendRequest
    <3>2. Text(Verb[request[p]]) \in Message
      BY <2>3, MessagesMade
    <3> QED  BY <2>1, <3>1, <3>2, ClientSpeaks, Going
  <2>5. request' \in [Path -> Statuses \cup {"none"}]
    BY <2>1, <2>2 DEF Contents
  <2>6. cur' \in [Side -> [path : Path, status : Statuses, word : Words \cup {"INFO"}]]
    <3> DEFINE file == [cur[Client] EXCEPT !.path = p, !.status = request[p]]
    <3>1. cur[Client] \in [path : Path, status : Statuses, word : Words \cup {"INFO"}]
      BY Sides DEF Contents
    <3>2. file \in [path : Path, status : Statuses, word : Words \cup {"INFO"}]
      BY <2>2, <3>1
    <3>3. cur' = [cur EXCEPT ![Client] = file]
      BY <2>1
    <3> QED  BY <3>2, <3>3 DEF Contents
  <2> QED
    BY <1>12, <2>4, <2>5, <2>6 DEF SendRequest, Contents, faultVars
<1>13. CASE RequestGranted
  <2>1. Verb[cur[Client].status] \in Words
    BY Sides DEF Verb, Statuses, Words, Contents
  <2>2. Command(Client, cur[Client].path) \in Message
    BY MessagesMade DEF Command, Words
  <2>3. PICK to \in {"request?", "send.cmd"}, ms \in Seq(Message) :
          pc' = [pc EXCEPT ![Client] = to] /\ Answer(Client, ms)
    <3>1. CASE Got(Client) = "ACK"
      BY <1>13, <2>2, <3>1, MessageSeqs DEF RequestGranted, Begin, Goto
    <3>2. CASE Got(Client) # "ACK"
      <4>1. pc' = [pc EXCEPT ![Client] = "request?"]
        BY <1>13, <3>2 DEF RequestGranted, Comes, Placed
      <4> QED
        BY <1>13, <2>1, <3>2, <4>1, MessagesMade, MessageSeqs DEF RequestGranted
    <3> QED  BY <3>1, <3>2
  <2>4. Placed' /\ pc'[Client] = to
    BY <1>13, <2>3, ClientMoving, Reading, Going, Sides DEF RequestGranted, Comes, Answer, Goto
  <2>5. cur' \in [Side -> [path : Path, status : Statuses, word : Words \cup {"INFO"}]]
    BY <1>13, Sides DEF RequestGranted, Begin, Contents, Words
  <2> QED
    BY <1>13, <2>4, <2>5 DEF RequestGranted, Contents, syncVars, faultVars
<1>14. CASE ConnectionFails
  <2>1. pc[Client] # "connect" /\ Catch /\ UNCHANGED in
    BY <1>14 DEF ConnectionFails, Waits, AwaitsMessage, AwaitsReply
  <2>2. in' \in [Side -> Seq(Message)]
    BY <2>1 DEF Placed
  <2> QED
    BY <1>14, <2>1, <2>2, Catching DEF ConnectionFails, Contents, syncVars
<1>15. CASE SigPipe
  <2>1. Placed' /\ pc'[Client] = "exited"
    BY <1>15, Sides, Going DEF SigPipe, Goto, Placed
  <2> QED
    BY <1>15, <2>1 DEF SigPipe, Contents, syncVars, faultVars
<1> QED
  BY <1>1, <1>2, <1>3, <1>4, <1>5, <1>6, <1>7, <1>8, <1>9, <1>10, <1>11, <1>12,
     <1>13, <1>14, <1>15
  DEF ClientStep

LEMMA FailureTyped ==
    ASSUME Typed, \/ ServerStops
                  \/ \E x \in Side : ReadFails(x)
                  \/ \E p \in Path : Edit(p)
    PROVE  Typed'
<1> USE DEF Typed
<1>1. CASE ServerStops
  <2>1. in' \in [Side -> Seq(Message)]
    BY <1>1, MessageSeqs DEF ServerStops, Placed
  <2>2. Placed' /\ pc'[Client] = pc[Client]
    BY <1>1, <2>1, Dropping DEF ServerStops
  <2> QED
    BY <1>1, <2>2 DEF ServerStops, Drop, Contents, syncVars
<1>2. ASSUME NEW x \in Side, ReadFails(x)
      PROVE  Typed'
  <2>1. PICK rest \in {<<Rest>>, <<>>} : in' = [in EXCEPT ![x] = rest \o Tail(@)]
    BY <1>2 DEF ReadFails
  <2>2. in' \in [Side -> Seq(Message)]
    <3>1. rest \o Tail(in[x]) \in Seq(Message)
      BY <1>2, MessagesMade, MessageSeqs, Reading, ConcatProperties DEF ReadFails
    <3> QED  BY <2>1, <3>1 DEF Placed
  <2>3. faults' \in 0 .. MaxFaults
    BY <1>2, SessionAssumption DEF ReadFails, Contents
  <2>4. CASE x = Client
    <3>1. Catch /\ pc[Client] # "connect"
      BY <1>2, <2>4 DEF ReadFails, AwaitsMessage, AwaitsReply
    <3> QED
      BY <1>2, <2>2, <2>3, <3>1, Catching DEF ReadFails, Contents, syncVars
  <2>5. CASE x = Server
    <3>1. Drop
      BY <1>2, <2>5, Sides DEF ReadFails
    <3>2. Placed' /\ pc'[Client] = pc[Client]
      BY <2>2, <3>1, Dropping
    <3> QED
      BY <1>2, <2>3, <3>1, <3>2 DEF ReadFails, Drop, Contents, syncVars
  <2> QED  BY <2>4, <2>5, Sides
<1>3. ASSUME NEW p \in Path, Edit(p)
      PROVE  Typed'
  <2>1. PICK v \in {0, 3 + edits} :
          /\ dir' = [dir EXCEPT ![Client][p] = v]
          /\ Sees(p, IF v = 0 THEN "erased"
                     ELSE IF dir[Client][p] = 0 THEN "created" ELSE "modified")
    BY <1>3 DEF Edit
  <2>2. v \in Version /\ edits' \in 0 .. MaxEdits
    BY <1>3, SessionAssumption DEF Edit, Contents, Version
  <2>3. dir' \in [Side -> [Path -> Version]]
    BY <2>1, <2>2, Sides DEF Contents
  <2>4. request' \in [Path -> Statuses \cup {"none"}]
    BY <2>1 DEF Sees, Insert, Contents, Statuses
  <2> QED
    BY <1>3, <2>2, <2>3, <2>4 DEF Edit, Placed, Contents
<1> QED  BY <1>1, <1>2, <1>3

\* What the client takes the bytes at hand for, it writes and reads on.
LEMMA StrayTyped ==
    ASSUME Typed, Stray
    PROVE  Typed'
<1> USE Sides DEF Typed
<1>1. CASE CompareOther
  <2>1. PICK choice \in {"OK", Choice([p \in Path |-> 1])} :
          /\ Write(Client, <<Rest>> \o Tail(in[Client]), <<Text(choice)>>)
          /\ Chosen(choice)
    BY <1>1 DEF CompareOther
  <2>2. choice \in {"OK", "DOWNLOAD", "UPDATE"}
    BY DEF Choice
  <2>3. <<Text(choice)>> \in Seq(Message)
    BY <2>2, MessagesMade, MessageSeqs DEF Words
  <2>4. <<Rest>> \o Tail(in[Client]) \in Seq(Message)
    BY <1>1, MessagesMade, MessageSeqs, Reading, ConcatProperties DEF CompareOther
  <2>5. PICK to \in {"idle", "download?", "update?"} : Goto(Client, to)
    BY <2>1 DEF Chosen, Watch, EndSync
  <2>6. Placed' /\ pc'[Client] = to
    <3>1. pc[Client] # "gone" /\ to \in Place \ {"gone"}
      BY <1>1, Going DEF CompareOther
    <3> QED  BY <2>1, <2>3, <2>4, <2>5, <3>1, ClientMoving
  <2>7. /\ freezed' \in BOOLEAN /\ first_syncrinize' \in BOOLEAN
        /\ task' \in [Side -> {"none", "update", "download", "request"}]
    BY <2>1 DEF Chosen, Watch, EndSync, Restart, Contents
  <2> QED
    BY <1>1, <2>5, <2>6, <2>7 DEF CompareOther, Contents, faultVars
<1>2. CASE Garbled
  <2>1. PICK come \in 1 .. Len(in[Client]) :
          in' = [in EXCEPT ![Client] = SubSeq(@, come + 1, Len(@))]
    BY <1>2 DEF Garbled
  <2>2. SubSeq(in[Client], come + 1, Len(in[Client])) \in Seq(Message)
    <3>1. in[Client] \in Seq(Message) /\ come \in Nat
      BY Reading
    <3> QED  BY <3>1
  <2>3. in' \in [Side -> Seq(Message)]
    BY <2>1, <2>2 DEF Placed
  <2>4. Catch /\ pc[Client] # "connect"
    BY <1>2 DEF Garbled, AwaitsMessage, AwaitsReply
  <2> QED
    BY <1>2, <2>3, <2>4, Catching DEF Garbled, Contents
<1> QED  BY <1>1, <1>2 DEF Stray

LEMMA TypedNext == Typed /\ [Next]_vars => Typed'
<1> SUFFICES ASSUME Typed, [Next]_vars PROVE Typed'
  OBVIOUS
<1>1. CASE Next
  BY <1>1, ClientTyped, StrayTyped, ServerTyped, FailureTyped DEF Next
<1>2. CASE UNCHANGED vars
  BY <1>2 DEF vars, Typed, Placed, Contents
<1> QED  BY <1>1, <1>2

\* TypeOK: what each variable holds, and that the server serves nobody on a
\* connection it has closed, nor leaves one open behind (Server.cpp:28, 82,
\* where it erases a user, and 114, where a refused socket leaves its scope).
THEOREM TypeCorrect == Spec => []TypeOK
<1>1. Spec => []Typed
  BY TypedInit, TypedNext, PTL DEF Spec
<1> QED  BY <1>1, TypedIsType, PTL

-----------------------------------------------------------------------------
(* Why the watcher is released: the client compares the checksums once, as *)
(* long as it takes nothing else for a checksum                            *)

\* The steps of a client that reads what it waits for.
Straight ==
    \/ ClientStep \/ ServerStep
    \/ ServerStops
    \/ \E x \in Side : ReadFails(x)
    \/ \E p \in Path : Edit(p)

Sending   == {"send.cmd", "send.info", "send.end"}
Receiving == {"download?", "recv", "recv.info", "recv.data"}
Over      == {"exited", "lost"}

\* What the client has gone through, and what it may be at.
Joining ==
    /\ ~freezed /\ first_syncrinize /\ task[Client] = "none"
    /\ pc[Client] \in {"connect", "login", "logged?", "start", "sum", "update?"} \cup Over
Fetching ==
    /\ freezed /\ first_syncrinize /\ task[Client] \in {"none", "download"}
    /\ pc[Client] \in Receiving \cup {"start", "sum"} \cup Over
Uploading ==
    /\ ~freezed /\ first_syncrinize /\ task[Client] = "update"
    /\ pc[Client] \in Sending \cup {"list", "end?"} \cup Over
Watching ==
    /\ ~freezed /\ ~first_syncrinize /\ task[Client] = "request"
    /\ pc[Client] \in Sending \cup {"idle", "request?"} \cup Over

Course == Joining \/ Fetching \/ Uploading \/ Watching

\* The server, unless it does nothing any more, is there with this to read.
Silent == pc[Server] \in {"gone", "lost"}
Serves(at, ms) == ~Silent => pc[Server] = at /\ in[Server] = ms

\* The rest of a message that did not parse is in the way: the client reads
\* nothing behind it without having taken it for something else.
Spoilt == in[Client] # <<>> /\ Head(in[Client]) = Rest

Greetings == {Reply("OK", "LOGIN"), Reply("NOT_OK", "LOGIN")}

\* Up to the comparison.
Entering ==
    ~freezed /\ pc[Client] \in {"connect", "login", "logged?", "start", "sum"} =>
      \/ Spoilt /\ faults > 0
      \/ /\ pc[Client] \in {"connect", "login"}
         /\ in[Client] = <<>> /\ Serves("accept", <<>>)
      \/ /\ pc[Client] = "logged?"
         /\ in[Client] = <<>> /\ Serves("accept", <<Text("LOGIN")>>)
      \/ /\ pc[Client] = "logged?"
         /\ \E m \in Greetings : in[Client] = <<m>>
         /\ Serves("free", <<>>)
      \/ /\ pc[Client] = "start"
         /\ in[Client] = <<>> /\ Serves("free", <<>>)
      \/ /\ pc[Client] = "sum"
         /\ in[Client] = <<>> /\ Serves("free", <<Text("SYNC")>>)
      \/ /\ pc[Client] = "sum"
         /\ \E f \in [Path -> Version] : in[Client] = <<Sum(f)>>
         /\ Serves("choice", <<>>)

\* What the client gets when it asks for the next file of a download.
Downloads(at, ms) == Serves(at, ms) /\ (Silent \/ task[Server] = "download")

Coming(ms) ==
    \/ ms = <<>> /\ Downloads("list", <<>>)
    \/ ms = <<Text(cur[Server].word)>> /\ Downloads("send.cmd", <<>>)
    \/ ms = <<Text("END")>> /\ Downloads("bye", <<>>)

Offered ==
    pc[Server] \in Sending =>
      cur[Server].word \in {"FILE", "FILE_DEL"} /\ cur[Server].status = "created"

Asked ==
    \/ in[Client] = <<>> /\ Serves("choice", <<Text("DOWNLOAD")>>)
    \/ \E ms \in Seq(Message) : in[Client] = <<Ack("DOWNLOAD")>> \o ms /\ Coming(ms)

Receives ==
    \/ Coming(in[Client])
    \/ in[Client] = <<>> /\ Downloads("send.end", <<Ack("DONE")>>)
    \/ in[Client] = <<>> /\ Downloads("send.info", Refusal)
    \/ /\ in[Client] = <<>> /\ Downloads("send.info", <<Ack("INFO"), Ack("DONE")>>)
       /\ Silent \/ cur[Server].word = "FILE_DEL"

ReceivesInfo ==
    /\ cur[Client].word = cur[Server].word
    /\ \/ in[Client] = <<>> /\ Downloads("send.cmd", <<Ack("COMMAND")>>)
       \/ /\ in[Client] = <<Info(cur[Server].path, cur[Server].status)>>
          /\ Downloads("send.info", <<>>)

ReceivesData ==
    \/ /\ in[Client] = <<>> /\ Downloads("send.info", <<Ack("INFO")>>)
       /\ Silent \/ cur[Server].word = "FILE"
    \/ /\ \E v \in Version : in[Client] = <<Data(v)>>
       /\ Downloads("send.end", <<>>)

\* A download that has failed leaves a message no checksum comes before.
Barred ==
    \/ in[Client] # <<>> /\ Head(in[Client]).w # "SUM"
    \/ /\ in[Client] = <<>>
       /\ Silent \/ (pc[Server] \in {"list"} \cup Sending /\ task[Server] = "download")

Downloading ==
    freezed =>
      /\ Offered
      /\ pc[Client] = "download?" => Asked
      /\ pc[Client] = "recv"      => Receives
      /\ pc[Client] = "recv.info" => ReceivesInfo
      /\ pc[Client] = "recv.data" => ReceivesData
      /\ pc[Client] \in {"start", "sum"} => Barred

IInv == Typed /\ Course /\ Entering /\ Downloading

LEMMA InvInit == Init => IInv
<1> SUFFICES ASSUME Init PROVE IInv
  OBVIOUS
<1>1. /\ ~freezed /\ first_syncrinize /\ task[Client] = "none"
      /\ pc[Client] = "connect" /\ pc[Server] = "accept"
      /\ in[Client] = <<>> /\ in[Server] = <<>>
  BY Sides DEF Init
<1> QED
  BY <1>1, TypedInit
  DEF IInv, Course, Joining, Entering, Serves, Silent, Downloading

\* Short sequences.
LEMMA Lists ==
    /\ \A a : <<a>> # <<>> /\ Head(<<a>>) = a /\ Tail(<<a>>) = <<>>
    /\ \A a, b : <<a, b>> # <<>> /\ Head(<<a, b>>) = a /\ Tail(<<a, b>>) = <<b>>
OBVIOUS

LEMMA Joined ==
    /\ \A s \in Seq(Message) : <<>> \o s = s /\ s \o <<>> = s
    /\ \A m \in Message, s \in Seq(Message) :
          /\ <<m>> \o s \in Seq(Message) /\ <<m>> \o s # <<>>
          /\ Head(<<m>> \o s) = m /\ Tail(<<m>> \o s) = s
    /\ \A s, ms \in Seq(Message) :
          s # <<>> => s \o ms # <<>> /\ Head(s \o ms) = Head(s)
                      /\ Tail(s \o ms) = Tail(s) \o ms
<1>1. \A s \in Seq(Message) : <<>> \o s = s /\ s \o <<>> = s
  BY ConcatEmptySeq
<1>2. \A m \in Message, s \in Seq(Message) :
          /\ <<m>> \o s \in Seq(Message) /\ <<m>> \o s # <<>>
          /\ Head(<<m>> \o s) = m /\ Tail(<<m>> \o s) = s
  OBVIOUS
<1>3. \A s, ms \in Seq(Message) :
          s # <<>> => s \o ms # <<>> /\ Head(s \o ms) = Head(s)
                      /\ Tail(s \o ms) = Tail(s) \o ms
  OBVIOUS
<1> QED  BY <1>1, <1>2, <1>3

\* The two ends write to a connection that is open, as far as it matters.
LEMMA ServerWrites ==
    ASSUME Typed, NEW rest \in Seq(Message), NEW ms \in Seq(Message),
           Write(Server, rest, ms), pc[Server] # "gone"
    PROVE  in'[Server] = rest /\ in'[Client] = in[Client] \o ms
<1>1. conn # "closed" /\ Placed
  BY DEF Typed, Placed
<1>2. Server \in Side /\ Peer(Server) = Client
  BY Sides
<1> HIDE DEF Server, Client
<1> QED  BY <1>1, <1>2, Writing

LEMMA ClientWrites ==
    ASSUME Typed, NEW rest \in Seq(Message), NEW ms \in Seq(Message),
           Write(Client, rest, ms)
    PROVE  in'[Client] = rest /\ (~Silent => in'[Server] = in[Server] \o ms)
<1>1. Placed /\ Client \in Side /\ Peer(Client) = Server
  BY Sides DEF Typed
<1>2. /\ in'[Client] = rest
      /\ in'[Server] = in[Server] \o ms \/ conn = "closed"
  BY <1>1, Writing
<1>3. conn = "closed" => Silent
  BY <1>1 DEF Placed, Silent
<1> QED  BY <1>2, <1>3

LEMMA Spoken ==
    ASSUME Typed, NEW x \in Side
    PROVE  /\ \A of \in Whats : Ack(of) \in Message
           /\ Reply("PRESENT", "INFO") \in Message
           /\ Reply("OK", "LOGIN") \in Message /\ Reply("NOT_OK", "LOGIN") \in Message
           /\ Info(cur[x].path, cur[x].status) \in Message
           /\ Data(dir[x][cur[x].path]) \in Message
           /\ Sum(dir[x]) \in Message
           /\ \A p \in Path : Command(x, p) \in Message
           /\ \A w \in Words : Text(w) \in Message
BY MessagesMade DEF Typed, Contents, Command, Words, Whats

\* An end that takes part in an exchange writes messages.
LEMMA ExchangeWrites ==
    ASSUME Typed, NEW x \in Side, Exchange(x)
    PROVE  \/ UNCHANGED in
           \/ \E rest, ms \in Seq(Message) : Write(x, rest, ms)
<1> USE Spoken, MessageSeqs, Reading DEF Typed, Answer, Post, Comes
<1>1. CASE SendInfo(x)
  BY <1>1 DEF SendInfo
<1>2. CASE SendData(x)
  BY <1>2 DEF SendData
<1>3. CASE SendEnds(x)
  BY <1>3 DEF SendEnds
<1>4. CASE SendNext(x)
  BY <1>4 DEF SendNext, Contents
<1>5. CASE SendEnd(x)
  BY <1>5 DEF SendEnd, Words
<1>6. CASE ReceiveCommand(x)
  BY <1>6 DEF ReceiveCommand, Whats
<1>7. CASE ReceiveInfo(x)
  BY <1>7 DEF ReceiveInfo, Refusal, Whats
<1>8. CASE ReceiveData(x)
  BY <1>8 DEF ReceiveData, Whats
<1>9. CASE Misread(x)
  BY <1>9 DEF Misread
<1> QED
  BY <1>1, <1>2, <1>3, <1>4, <1>5, <1>6, <1>7, <1>8, <1>9 DEF Exchange

\* The client's side of a session, but for what comes to it.
ClientSide == <<pc[Client], task[Client], cur[Client], freezed, first_syncrinize, faults>>

\* An exchange of one end leaves the other alone.
LEMMA ExchangeAlone ==
    ASSUME Typed, Exchange(Server)
    PROVE  UNCHANGED ClientSide
<1> USE Sides DEF Typed, Placed, Contents, Goto, syncVars, faultVars, ClientSide
<1>1. CASE SendInfo(Server)
  BY <1>1 DEF SendInfo
<1>2. CASE SendData(Server)
  BY <1>2 DEF SendData
<1>3. CASE SendEnds(Server)
  BY <1>3 DEF SendEnds
<1>4. CASE SendNext(Server)
  BY <1>4 DEF SendNext, Begin
<1>5. CASE SendEnd(Server)
  BY <1>5 DEF SendEnd
<1>6. CASE ReceiveCommand(Server)
  BY <1>6 DEF ReceiveCommand
<1>7. CASE ReceiveInfo(Server)
  BY <1>7 DEF ReceiveInfo
<1>8. CASE ReceiveData(Server)
  BY <1>8 DEF ReceiveData
<1>9. CASE Misread(Server)
  BY <1>9 DEF Misread
<1> QED
  BY <1>1, <1>2, <1>3, <1>4, <1>5, <1>6, <1>7, <1>8, <1>9 DEF Exchange

\* What the server does to the client's side of a session; without anything
\* to read it only goes on with its listing, while the client is there.
LEMMA ServerDoes ==
    ASSUME Typed, ServerStep
    PROVE  /\ ~Silent
           /\ UNCHANGED ClientSide
           /\ \E ms \in Seq(Message) : in'[Client] = in[Client] \o ms
           /\ in[Server] = <<>> => \/ SendNext(Server) \/ SendEnd(Server)
                                  \/ pc[Client] = "exited"
<1> DEFINE Adds == \E ms \in Seq(Message) : in'[Client] = in[Client] \o ms
           Waiting == in[Server] = <<>> => \/ SendNext(Server) \/ SendEnd(Server)
                                         \/ pc[Client] = "exited"
<1> USE Sides
<1>0. Placed /\ in[Client] \in Seq(Message) /\ in[Server] \in Seq(Message)
  BY Reading DEF Typed
<1>1. UNCHANGED in => Adds
  BY <1>0, Joined, MessageSeqs
<1>2. ASSUME NEW rest \in Seq(Message), NEW ms \in Seq(Message),
             Write(Server, rest, ms), ~Silent
      PROVE  Adds
  BY <1>2, ServerWrites DEF Silent
<1>3. CASE Exchange(Server)
  <2>1. ~Silent
    BY <1>3
    DEF Exchange, Silent, SendInfo, SendData, SendEnds, SendNext, SendEnd,
        ReceiveCommand, ReceiveInfo, ReceiveData, Misread, Comes, AwaitsMessage,
        AwaitsReply
  <2>2. Waiting
    BY <1>3
    DEF Exchange, SendInfo, SendData, SendEnds, ReceiveCommand, ReceiveInfo,
        ReceiveData, Misread, Comes
  <2>3. Adds
    BY <1>1, <1>2, <1>3, <2>1, ExchangeWrites
  <2> QED  BY <1>3, <2>1, <2>2, <2>3, ExchangeAlone
<1>4. CASE HandleLogin
  <2>1. ~Silent /\ Waiting
    BY <1>4 DEF HandleLogin, Comes, Silent
  <2>2. Adds
    <3>1. CASE Answer(Server, <<Reply("OK", "LOGIN")>>)
      <4>1. Tail(in[Server]) \in Seq(Message)
        BY <1>0, <1>4, Reading DEF HandleLogin, Comes
      <4>2. <<Reply("OK", "LOGIN")>> \in Seq(Message)
        BY Spoken, MessageSeqs
      <4>3. Write(Server, Tail(in[Server]), <<Reply("OK", "LOGIN")>>)
        BY <3>1 DEF Answer
      <4>4. PICK ms \in Seq(Message) : Write(Server, Tail(in[Server]), ms)
        BY <4>2, <4>3
      <4> QED  BY <1>2, <2>1, <4>1, <4>4
    <3>2. CASE in' = [in EXCEPT ![Client] = Append(@, Reply("NOT_OK", "LOGIN"))]
      <4>1. in'[Client] = Append(in[Client], Reply("NOT_OK", "LOGIN"))
        BY <3>2 DEF Typed, Placed
      <4>2. Reply("NOT_OK", "LOGIN") \in Message
        BY Spoken
      <4>3. Append(in[Client], Reply("NOT_OK", "LOGIN"))
              = in[Client] \o <<Reply("NOT_OK", "LOGIN")>>
        BY <1>0, <4>2, AppendIsConcat
      <4>4. PICK ms \in Seq(Message) : ms = <<Reply("NOT_OK", "LOGIN")>>
        BY <4>2, MessageSeqs
      <4> QED  BY <4>1, <4>3, <4>4
    <3> QED  BY <1>4, <3>1, <3>2 DEF HandleLogin
  <2>3. UNCHANGED ClientSide
    BY <1>4 DEF HandleLogin, Goto, Typed, Placed, syncVars, faultVars, ClientSide
  <2> QED  BY <2>1, <2>2, <2>3
<1>5. CASE ParsePacket
  <2>1. ~Silent /\ Waiting
    BY <1>5 DEF ParsePacket, Comes, Silent
  <2>2. Adds
    BY <1>0, <1>2, <1>5, <2>1, Spoken, MessageSeqs, Reading
    DEF Answer, ParsePacket, Comes, Whats
  <2>3. UNCHANGED ClientSide
    BY <1>5
    DEF ParsePacket, Goto, Typed, Placed, Contents, syncVars, faultVars, ClientSide
  <2> QED  BY <2>1, <2>2, <2>3
<1>6. CASE OkOrUnknown
  <2>1. ~Silent /\ Waiting
    BY <1>6 DEF OkOrUnknown, Comes, Silent
  <2>2. Adds
    BY <1>0, <1>2, <1>6, <2>1, MessageSeqs, Reading DEF Answer, OkOrUnknown, Comes
  <2>3. UNCHANGED ClientSide
    BY <1>6 DEF OkOrUnknown, Goto, Typed, Placed, syncVars, faultVars, ClientSide
  <2> QED  BY <2>1, <2>2, <2>3
<1>7. CASE Update
  <2>1. ~Silent /\ Waiting
    BY <1>7 DEF Update, Comes, Silent
  <2>2. Adds
    BY <1>0, <1>2, <1>7, <2>1, Spoken, MessageSeqs, Reading
    DEF Answer, Update, Comes, Whats
  <2>3. UNCHANGED ClientSide
    BY <1>7 DEF Update, Goto, Typed, Placed, Contents, syncVars, faultVars, ClientSide
  <2> QED  BY <2>1, <2>2, <2>3
<1>8. CASE Download
  <2>1. ~Silent /\ Waiting
    BY <1>8 DEF Download, Comes, Silent
  <2>2. Adds
    BY <1>0, <1>2, <1>8, <2>1, Spoken, MessageSeqs, Reading
    DEF Answer, Download, Comes, Whats
  <2>3. UNCHANGED ClientSide
    BY <1>8 DEF Download, Goto, Typed, Placed, Contents, syncVars, faultVars, ClientSide
  <2> QED  BY <2>1, <2>2, <2>3
<1>9. CASE UploadEnds
  <2>1. ~Silent /\ Waiting
    BY <1>9 DEF UploadEnds, Comes, Silent
  <2>2. Adds
    BY <1>0, <1>2, <1>9, <2>1, Spoken, MessageSeqs, Reading
    DEF Answer, UploadEnds, Comes, Whats
  <2>3. UNCHANGED ClientSide
    BY <1>9 DEF UploadEnds, Goto, Typed, Placed, syncVars, faultVars, ClientSide
  <2> QED  BY <2>1, <2>2, <2>3
<1>10. CASE DownloadEnds
  <2>1. ~Silent /\ Waiting
    BY <1>10 DEF DownloadEnds, Comes, Silent
  <2>2. Adds
    BY <1>0, <1>2, <1>10, <2>1, MessageSeqs, Reading DEF Answer, DownloadEnds, Comes
  <2>3. UNCHANGED ClientSide
    BY <1>10 DEF DownloadEnds, Goto, Typed, Placed, syncVars, faultVars, ClientSide
  <2> QED  BY <2>1, <2>2, <2>3
<1>11. CASE HangUp
  <2>1. ~Silent /\ Waiting
    BY <1>11 DEF HangUp, Silent, Waits, AwaitsMessage, AwaitsReply
  <2>2. UNCHANGED ClientSide
    BY <1>11 DEF HangUp, Drop, Goto, Typed, Placed, syncVars, ClientSide
  <2> QED  BY <1>1, <1>11, <2>1, <2>2 DEF HangUp
<1> QED
  BY <1>3, <1>4, <1>5, <1>6, <1>7, <1>8, <1>9, <1>10, <1>11 DEF ServerStep

\* What has failed does not move any more.
LEMMA ServerFails ==
    ASSUME Typed, ServerStops \/ ReadFails(Server)
    PROVE  /\ Silent' /\ pc'[Client] = pc[Client] /\ in'[Client] = in[Client]
           /\ UNCHANGED <<task, cur, freezed, first_syncrinize>>
           /\ faults > 0 => faults' > 0
BY Sides, SessionAssumption
DEF ServerStops, ReadFails, Drop, Goto, Silent, Typed, Placed, Contents, syncVars

-----------------------------------------------------------------------------
(* The course of the client *)

\* What the handlers of the client do, in each part of its course.
LEMMA CourseCaught ==
    ASSUME Typed, Course, Catch, UNCHANGED <<freezed, first_syncrinize, task>>
    PROVE  /\ Course'
           /\ pc'[Client] \in {"list", "exited", "login", "start"}
           /\ Joining => pc'[Client] \in {"login", "start", "exited"}
           /\ Fetching => pc'[Client] \in {"start", "exited"}
           /\ pc'[Client] \in {"login", "start"} => Joining \/ Fetching
<1> USE Sides DEF Typed, Placed
<1>1. CASE UploadAgain
  BY <1>1 DEF UploadAgain, Goto, Course, Joining, Fetching, Uploading, Watching, Over
<1>2. CASE ThreadEnds
  BY <1>2 DEF ThreadEnds, Goto, Course, Joining, Fetching, Uploading, Watching, Over
<1>3. CASE LoginFails
  BY <1>3
  DEF LoginFails, Count, Goto, Course, Joining, Fetching, Uploading, Watching, Over,
      Receiving
<1>4. CASE SyncFails
  BY <1>4 DEF SyncFails, Count, Goto, Course, Joining, Fetching, Uploading, Watching, Over
<1> QED  BY <1>1, <1>2, <1>3, <1>4 DEF Catch

\* The client compares only before it has ever frozen the watcher.
LEMMA ComparesOnce ==
    ASSUME IInv, Compare
    PROVE  Joining /\ ~Spoilt
<1>1. in[Client] # <<>> /\ Head(in[Client]).w = "SUM" /\ pc[Client] = "sum"
  BY DEF Compare, Got
<1>2. ~freezed
  BY <1>1 DEF IInv, Downloading, Barred
<1>3. Rest.w # "SUM"
  BY DEF Rest
<1> QED
  BY <1>1, <1>2, <1>3
  DEF IInv, Course, Joining, Fetching, Uploading, Watching, Spoilt, Sending, Over

LEMMA CourseExchange ==
    ASSUME Typed, Course, Exchange(Client)
    PROVE  Course' /\ pc'[Client] \notin {"connect", "login", "logged?", "start", "sum"}
<1> USE Sides DEF Typed, Placed, Goto, Course, Joining, Fetching, Uploading, Watching,
                  Over, Sending, Receiving, syncVars, Comes
<1>1. CASE SendInfo(Client)
  BY <1>1 DEF SendInfo
<1>2. CASE SendData(Client)
  BY <1>2 DEF SendData
<1>3. CASE SendEnds(Client)
  BY <1>3 DEF SendEnds
<1>4. CASE SendNext(Client)
  BY <1>4 DEF SendNext, Begin
<1>5. CASE SendEnd(Client)
  BY <1>5 DEF SendEnd
<1>6. CASE ReceiveCommand(Client)
  BY <1>6 DEF ReceiveCommand
<1>7. CASE ReceiveInfo(Client)
  BY <1>7 DEF ReceiveInfo, Received
<1>8. CASE ReceiveData(Client)
  BY <1>8 DEF ReceiveData, Received
<1>9. CASE Misread(Client)
  BY <1>9 DEF Misread
<1> QED
  BY <1>1, <1>2, <1>3, <1>4, <1>5, <1>6, <1>7, <1>8, <1>9 DEF Exchange

LEMMA CourseClient ==
    ASSUME IInv, ClientStep
    PROVE  Course'
<1> USE Sides DEF IInv, Typed, Placed, Goto, Course, Joining, Fetching, Uploading, Watching,
                  Over, Sending, Receiving, syncVars, Comes
<1>1. CASE Exchange(Client)
  BY <1>1, CourseExchange
<1>2. CASE Connect \/ ConnectFails \/ Login \/ LoggedIn \/ StartSync
  BY <1>2 DEF Connect, ConnectFails, Login, LoggedIn, StartSync
<1>3. CASE Compare
  <2>1. Joining
    BY <1>3, ComparesOnce
  <2>2. \/ Watch
        \/ /\ pc'[Client] = "download?" /\ freezed' = TRUE
           /\ UNCHANGED <<first_syncrinize, task>>
        \/ /\ pc'[Client] = "update?"
           /\ UNCHANGED <<freezed, first_syncrinize, task>>
    BY <1>3 DEF Compare, Chosen
  <2>3. CASE Watch
    BY <2>1, <2>3 DEF Watch, EndSync, Restart, Contents
  <2> QED  BY <2>1, <2>2, <2>3
<1>4. CASE UpdateGranted
  <2>1. Joining
    BY <1>4 DEF UpdateGranted, Asks
  <2> QED  BY <1>4, <2>1 DEF UpdateGranted, Asks, Contents
<1>5. CASE DownloadGranted
  <2>1. Fetching
    BY <1>5 DEF DownloadGranted, Asks
  <2> QED  BY <1>5, <2>1 DEF DownloadGranted, Asks, Contents
<1>6. CASE EndGranted
  <2>1. Uploading
    BY <1>6 DEF EndGranted
  <2>2. CASE Got(Client) = "ACK"
    BY <1>6, <2>1, <2>2 DEF EndGranted, Watch, EndSync, Restart, Contents
  <2>3. CASE Got(Client) # "ACK"
    BY <1>6, <2>1, <2>3 DEF EndGranted
  <2> QED  BY <2>2, <2>3
<1>7. CASE DownloadReceived
  BY <1>7 DEF DownloadReceived, EndSync, Restart, Contents
<1>8. CASE SendRequest
  BY <1>8 DEF SendRequest
<1>9. CASE RequestGranted
  BY <1>9 DEF RequestGranted, Begin
<1>10. CASE ConnectionFails
  <2>1. Catch /\ UNCHANGED <<freezed, first_syncrinize, task>>
    BY <1>10 DEF ConnectionFails
  <2> HIDE DEF Course
  <2> QED  BY <2>1, CourseCaught
<1>11. CASE SigPipe
  BY <1>11 DEF SigPipe
<1> QED
  BY <1>1, <1>2, <1>3, <1>4, <1>5, <1>6, <1>7, <1>8, <1>9, <1>10, <1>11 DEF ClientStep

LEMMA CourseNext == IInv /\ [Straight]_vars => Course'
<1> SUFFICES ASSUME IInv, [Straight]_vars PROVE Course'
  OBVIOUS
<1>1. UNCHANGED ClientSide => Course'
  BY DEF ClientSide, IInv, Course, Joining, Fetching, Uploading, Watching
<1>2. CASE ClientStep
  BY <1>2, CourseClient
<1>3. CASE ServerStep
  BY <1>1, <1>3, ServerDoes DEF IInv
<1>4. CASE ServerStops \/ ReadFails(Server)
  BY <1>4, ServerFails DEF IInv, Course, Joining, Fetching, Uploading, Watching
<1>5. CASE ReadFails(Client)
  BY <1>5, CourseCaught DEF ReadFails, syncVars, IInv
<1>6. CASE \E p \in Path : Edit(p)
  BY <1>6 DEF Edit, IInv, Course, Joining, Fetching, Uploading, Watching
<1>7. CASE UNCHANGED vars
  BY <1>7 DEF vars, IInv, Course, Joining, Fetching, Uploading, Watching
<1> QED
  BY <1>2, <1>3, <1>4, <1>5, <1>6, <1>7, Sides DEF Straight

-----------------------------------------------------------------------------
(* Up to the comparison *)

\* Once spoilt, what comes to the client stays so.
LEMMA SpoiltStays ==
    ASSUME Typed, NEW ms \in Seq(Message), in'[Client] = in[Client] \o ms, Spoilt
    PROVE  Spoilt'
BY Joined, Reading, Sides DEF Typed, Spoilt

\* The one thing the server can do where it is.
LEMMA ServerAt ==
    ASSUME Typed, ServerStep, pc[Client] # "exited",
           in[Server] # <<>> => Head(in[Server]).w \notin Raw
    PROVE  /\ pc[Server] = "accept"    => HandleLogin
           /\ pc[Server] = "free"      => ParsePacket
           /\ pc[Server] = "choice"    => OkOrUnknown \/ Update \/ Download
           /\ pc[Server] = "list"      => SendNext(Server) \/ SendEnd(Server)
           /\ pc[Server] = "send.cmd"  => SendInfo(Server)
           /\ pc[Server] = "send.info" => SendData(Server)
           /\ pc[Server] = "send.end"  => SendEnds(Server)
           /\ pc[Server] = "bye"       => DownloadEnds
           /\ pc[Server] # "list"      => in[Server] # <<>>
<1>1. CASE Exchange(Server)
  <2>1. CASE Misread(Server)
    BY <2>1 DEF Misread, Got, Raw, AwaitsMessage, AwaitsReply
  <2>2. CASE SendInfo(Server) \/ SendData(Server) \/ SendEnds(Server)
    BY <2>2 DEF SendInfo, SendData, SendEnds, Comes
  <2>3. CASE SendNext(Server) \/ SendEnd(Server)
    BY <2>3 DEF SendNext, SendEnd
  <2>4. CASE ReceiveCommand(Server) \/ ReceiveInfo(Server) \/ ReceiveData(Server)
    BY <2>4 DEF ReceiveCommand, ReceiveInfo, ReceiveData, Comes
  <2> QED  BY <1>1, <2>1, <2>2, <2>3, <2>4 DEF Exchange
<1>2. CASE HandleLogin \/ ParsePacket \/ UploadEnds \/ DownloadEnds
  BY <1>2 DEF HandleLogin, ParsePacket, UploadEnds, DownloadEnds, Comes
<1>3. CASE OkOrUnknown \/ Update \/ Download
  BY <1>3 DEF OkOrUnknown, Update, Download, Comes
<1>4. CASE HangUp
  BY <1>4 DEF HangUp
<1> QED  BY <1>1, <1>2, <1>3, <1>4 DEF ServerStep

\* The server reads its only message and answers.
LEMMA ServerAnswers ==
    ASSUME Typed, pc[Server] # "gone", NEW m \in Message, NEW s \in Seq(Message),
           in[Server] = <<m>> \o s, NEW ms \in Seq(Message), Answer(Server, ms)
    PROVE  in'[Server] = s /\ in'[Client] = in[Client] \o ms
<1>1. Tail(in[Server]) = s
  BY Joined
<1> QED  BY <1>1, ServerWrites DEF Answer

LEMMA ServerReplies ==
    ASSUME Typed, pc[Server] # "gone", NEW m \in Message, in[Server] = <<m>>,
           in[Client] = <<>>, NEW ms \in Seq(Message), Answer(Server, ms)
    PROVE  in'[Server] = <<>> /\ in'[Client] = ms
<1>1. Tail(in[Server]) = <<>>
  BY Lists
<1>2. Write(Server, <<>>, ms)
  BY <1>1 DEF Answer
<1>3. in'[Server] = <<>> /\ in'[Client] = in[Client] \o ms
  BY <1>2, ServerWrites, MessageSeqs
<1> QED  BY <1>3, Joined

\* Nothing the server has said is about to be forgotten.
LEMMA EnteringServer ==
    ASSUME Typed, Entering, ServerStep
    PROVE  Entering'
<1> SUFFICES ASSUME ~freezed', pc'[Client] \in {"connect", "login", "logged?", "start", "sum"}
             PROVE  Entering'
  BY DEF Entering
<1>1. /\ ~Silent /\ UNCHANGED <<freezed, pc[Client]>> /\ faults' = faults
  BY ServerDoes DEF ClientSide
<1>2. PICK ms \in Seq(Message) : in'[Client] = in[Client] \o ms
  BY ServerDoes
<1>3. CASE Spoilt /\ faults > 0
  BY <1>1, <1>2, <1>3, SpoiltStays DEF Entering
<1>4. ASSUME in[Server] = <<>>, pc[Server] # "list"
      PROVE  FALSE
  BY <1>1, <1>4, ServerDoes DEF SendNext, SendEnd
<1>5. CASE /\ pc[Client] = "logged?" /\ in[Client] = <<>>
           /\ Serves("accept", <<Text("LOGIN")>>)
  <2>1. pc[Server] = "accept" /\ in[Server] = <<Text("LOGIN")>>
    BY <1>1, <1>5 DEF Serves
  <2>2. HandleLogin
    BY <1>1, <1>5, <2>1, ServerAt, Lists DEF Text, Raw
  <2>3. CASE Answer(Server, <<Reply("OK", "LOGIN")>>) /\ Goto(Server, "free")
    <3>1. pc'[Server] = "free"
      BY <2>3, Sides DEF Goto, Typed, Placed
    <3>2. Text("LOGIN") \in Message /\ Reply("OK", "LOGIN") \in Message
      BY Spoken, Sides DEF Words
    <3>3. in'[Server] = <<>> /\ in'[Client] = <<Reply("OK", "LOGIN")>>
      BY <1>5, <2>1, <2>3, <3>2, MessageSeqs, ServerReplies
    <3> QED  BY <1>1, <1>5, <3>1, <3>3 DEF Entering, Serves, Greetings
  <2>4. CASE /\ in' = [in EXCEPT ![Client] = Append(@, Reply("NOT_OK", "LOGIN"))]
             /\ Goto(Server, "gone")
    <3>1. pc'[Server] = "gone" /\ in'[Client] = <<Reply("NOT_OK", "LOGIN")>>
      BY <1>5, <2>4, Sides DEF Goto, Typed, Placed
    <3> QED  BY <1>1, <1>5, <3>1 DEF Entering, Serves, Silent, Greetings
  <2> QED  BY <2>2, <2>3, <2>4 DEF HandleLogin
<1>6. CASE /\ pc[Client] = "sum" /\ in[Client] = <<>>
           /\ Serves("free", <<Text("SYNC")>>)
  <2>1. pc[Server] = "free" /\ in[Server] = <<Text("SYNC")>>
    BY <1>1, <1>6 DEF Serves
  <2>2. ParsePacket
    BY <1>1, <1>6, <2>1, ServerAt, Lists DEF Text, Raw
  <2>3. Answer(Server, <<Sum(dir[Server])>>) /\ Goto(Server, "choice")
    BY <2>1, <2>2, Lists DEF ParsePacket, Got, Text
  <2>4. pc'[Server] = "choice"
    BY <2>3, Sides DEF Goto, Typed, Placed
  <2>5. Text("SYNC") \in Message /\ Sum(dir[Server]) \in Message
    BY Spoken, Sides DEF Words
  <2>6. in'[Server] = <<>> /\ in'[Client] = <<Sum(dir[Server])>>
    BY <1>6, <2>1, <2>3, <2>5, MessageSeqs, ServerReplies
  <2>7. dir[Server] \in [Path -> Version]
    BY Sides DEF Typed, Contents
  <2> QED  BY <1>1, <1>6, <2>4, <2>6, <2>7 DEF Entering, Serves
<1> QED  BY <1>1, <1>3, <1>4, <1>5, <1>6 DEF Entering, Serves

\* The client reads a message that is not one of the raw ones.
LEMMA NotSpoilt ==
    ASSUME NEW at, Comes(Client, at)
    PROVE  ~Spoilt
BY DEF Comes, Spoilt, Rest, Raw

\* What the client reads up to the comparison is what it waits for.
LEMMA EnteringClient ==
    ASSUME IInv, ClientStep
    PROVE  Entering'
<1> SUFFICES ASSUME ~freezed', pc'[Client] \in {"connect", "login", "logged?", "start", "sum"}
             PROVE  Entering'
  BY DEF Entering
<1> USE Sides DEF IInv
<1>0. pc \in [Side -> Place] /\ in \in [Side -> Seq(Message)]
  BY DEF Typed, Placed
<1>1. CASE Connect \/ ConnectFails
  <2>1. /\ UNCHANGED <<freezed, faults, in, pc[Server]>>
        /\ pc[Client] = "connect" /\ pc'[Client] \in {"connect", "login", "exited"}
    BY <1>0, <1>1 DEF Connect, ConnectFails, Goto, syncVars, faultVars
  <2> QED  BY <2>1 DEF Entering, Serves, Silent, Spoilt
<1>2. CASE Login
  <2>1. /\ UNCHANGED <<freezed, faults, pc[Server]>>
        /\ pc[Client] = "login" /\ pc'[Client] = "logged?"
    BY <1>0, <1>2 DEF Login, Goto, syncVars, faultVars
  <2>2. /\ in'[Client] = in[Client]
        /\ ~Silent => in'[Server] = in[Server] \o <<Text("LOGIN")>>
    BY <1>0, <1>2, ClientWrites, Spoken, MessageSeqs DEF Login, Post, Words
  <2>3. Text("LOGIN") \in Message
    BY Spoken DEF Words
  <2> QED
    BY <2>1, <2>2, <2>3, Joined, MessageSeqs DEF Entering, Serves, Silent, Spoilt
<1>3. CASE LoggedIn
  <2>1. /\ UNCHANGED <<freezed, faults, pc[Server]>>
        /\ pc[Client] = "logged?" /\ ~Spoilt /\ in[Client] # <<>>
    BY <1>0, <1>3, NotSpoilt DEF LoggedIn, Goto, syncVars, faultVars, Comes
  <2>2. PICK m \in Greetings : in[Client] = <<m>> /\ Serves("free", <<>>)
    BY <2>1 DEF Entering
  <2>3. Got(Client) \in {"OK", "NOT_OK"} /\ Tail(in[Client]) = <<>>
    BY <2>2, Lists DEF Got, Greetings, Reply
  <2>4. pc'[Client] = "start"
    BY <1>0, <1>3, <2>3 DEF LoggedIn, Goto
  <2>5. in'[Client] = <<>> /\ (~Silent => in'[Server] = in[Server] \o <<>>)
    BY <1>3, <2>3, ClientWrites, MessageSeqs DEF LoggedIn, Answer
  <2> QED
    BY <2>1, <2>2, <2>4, <2>5, Joined, MessageSeqs DEF Entering, Serves, Silent
<1>4. CASE StartSync
  <2>1. /\ UNCHANGED <<freezed, faults, pc[Server]>>
        /\ pc[Client] = "start" /\ pc'[Client] = "sum"
    BY <1>0, <1>4 DEF StartSync, Goto, faultVars
  <2>2. /\ in'[Client] = in[Client]
        /\ ~Silent => in'[Server] = in[Server] \o <<Text("SYNC")>>
    BY <1>0, <1>4, ClientWrites, Spoken, MessageSeqs DEF StartSync, Post, Words
  <2>3. Text("SYNC") \in Message
    BY Spoken DEF Words
  <2> QED
    BY <2>1, <2>2, <2>3, Joined, MessageSeqs DEF Entering, Serves, Silent, Spoilt
<1>5. CASE ConnectionFails
  <2>1. /\ Catch /\ UNCHANGED <<freezed, first_syncrinize, task, faults, in>>
        /\ \/ pc[Client] \in Waits /\ in[Client] = <<>> /\ conn \in {"closed", "reset"}
           \/ pc[Client] = "start"
    BY <1>5 DEF ConnectionFails, syncVars
  <2>2. pc'[Client] \in {"login", "start"} /\ UNCHANGED pc[Server]
    BY <1>0, <2>1, CourseCaught, Catching DEF Typed, Waits, AwaitsMessage, AwaitsReply
  <2>3. CASE in[Client] = <<>> /\ conn \in {"closed", "reset"}
    BY <2>1, <2>2, <2>3 DEF Entering, Serves, Silent, Typed, Placed
  <2>4. CASE pc[Client] = "start"
    <3>1. pc'[Client] = "start"
      BY <1>0, <2>1, <2>4
      DEF Catch, UploadAgain, ThreadEnds, LoginFails, SyncFails, Goto, Course, Joining,
          Fetching, Uploading, Watching, Sending, Over
    <3> QED  BY <2>1, <2>2, <2>4, <3>1 DEF Entering, Serves, Silent, Spoilt
  <2> QED  BY <2>1, <2>3, <2>4
<1>6. CASE Exchange(Client)
  BY <1>6, CourseExchange
<1>7. CASE Compare \/ SigPipe \/ DownloadReceived \/ SendRequest
  BY <1>0, <1>7
  DEF Compare, Chosen, SigPipe, DownloadReceived, SendRequest, Watch, EndSync, Goto
<1>8. CASE UpdateGranted \/ DownloadGranted \/ EndGranted \/ RequestGranted
  BY <1>0, <1>8
  DEF UpdateGranted, DownloadGranted, EndGranted, RequestGranted, Asks, Comes, Begin,
      Watch, EndSync, Goto
<1> QED
  BY <1>1, <1>2, <1>3, <1>4, <1>5, <1>6, <1>7, <1>8 DEF ClientStep

LEMMA EnteringNext == IInv /\ [Straight]_vars => Entering'
<1> SUFFICES ASSUME IInv, [Straight]_vars PROVE Entering'
  OBVIOUS
<1>1. CASE ClientStep
  BY <1>1, EnteringClient
<1>2. CASE ServerStep
  BY <1>2, EnteringServer DEF IInv
<1>3. CASE ServerStops \/ ReadFails(Server)
  <2>1. /\ Silent' /\ pc'[Client] = pc[Client] /\ in'[Client] = in[Client]
        /\ freezed' = freezed /\ (faults > 0 => faults' > 0)
    BY <1>3, ServerFails DEF IInv, Typed, Contents
  <2> QED  BY <2>1 DEF IInv, Entering, Serves, Spoilt
<1>4. CASE ReadFails(Client)
  <2>1. /\ Catch /\ UNCHANGED <<freezed, first_syncrinize, task>>
        /\ in[Client] # <<>> /\ faults' = faults + 1
    BY <1>4 DEF ReadFails, syncVars
  <2>2. SUFFICES ASSUME ~freezed', pc'[Client] \in {"login", "start"}
                 PROVE  Entering'
    BY <2>1, CourseCaught DEF Entering, IInv
  <2>3. Joining
    BY <2>1, <2>2, CourseCaught DEF IInv, Fetching
  <2>4. pc[Client] \notin Accesses
    BY <1>4, <2>3 DEF Joining, Accesses, Over
  <2>5. in'[Client] = <<Rest>> \o Tail(in[Client])
    BY <1>4, <2>4, Sides DEF ReadFails, IInv, Typed, Placed
  <2>6. Spoilt' /\ faults' > 0
    BY <2>1, <2>5, Joined, MessagesMade, Reading, Sides
    DEF Spoilt, IInv, Typed, Contents
  <2> QED  BY <2>6 DEF Entering
<1>5. CASE \E p \in Path : Edit(p)
  BY <1>5 DEF Edit, IInv, Entering, Serves, Silent, Spoilt
<1>6. CASE UNCHANGED vars
  BY <1>6 DEF vars, IInv, Entering, Serves, Silent, Spoilt
<1> QED
  BY <1>1, <1>2, <1>3, <1>4, <1>5, <1>6, Sides DEF Straight

-----------------------------------------------------------------------------
(* A download *)

\* Every file of a download is offered as created.
LEMMA OfferedServer ==
    ASSUME Typed, Offered, ServerStep
    PROVE  Offered'
<1> USE Sides DEF Typed, Placed, Contents, Goto, Comes, Offered, Sending
<1>1. CASE SendInfo(Server)
  BY <1>1 DEF SendInfo
<1>2. CASE SendData(Server)
  BY <1>2 DEF SendData
<1>3. CASE SendEnds(Server)
  BY <1>3 DEF SendEnds
<1>4. CASE SendNext(Server)
  BY <1>4 DEF SendNext, Begin
<1>5. CASE SendEnd(Server)
  BY <1>5 DEF SendEnd
<1>6. CASE ReceiveCommand(Server) \/ ReceiveInfo(Server) \/ ReceiveData(Server)
  <2>1. \E to \in {"recv.info", "recv.data", "recv", "free"} : Goto(Server, to)
    BY <1>6 DEF ReceiveCommand, ReceiveInfo, ReceiveData, Received
  <2>2. pc'[Server] \in {"recv.info", "recv.data", "recv", "free"}
    BY <2>1
  <2> QED  BY <2>2
<1>7. CASE Misread(Server)
  BY <1>7 DEF Misread
<1>8. CASE HandleLogin \/ ParsePacket \/ OkOrUnknown \/ Update \/ Download
  <2>1. \E to \in {"free", "gone", "choice", "recv", "list"} : Goto(Server, to)
    BY <1>8 DEF HandleLogin, ParsePacket, OkOrUnknown, Update, Download
  <2>2. pc'[Server] \in {"free", "gone", "choice", "recv", "list"}
    BY <2>1
  <2> QED  BY <2>2
<1>9. CASE UploadEnds \/ DownloadEnds \/ HangUp
  BY <1>9 DEF UploadEnds, DownloadEnds, HangUp, Drop
<1> QED
  BY <1>1, <1>2, <1>3, <1>4, <1>5, <1>6, <1>7, <1>8, <1>9 DEF ServerStep, Exchange

\* What the server sends next, while it goes through its listing.
LEMMA ListingSends ==
    ASSUME Typed, ~Silent, Downloads("list", <<>>),
           SendNext(Server) \/ SendEnd(Server)
    PROVE  \E ms \in Seq(Message) : in'[Client] = in[Client] \o ms /\ Coming(ms)'
<1> USE Sides
<1>1. pc[Server] = "list" /\ in[Server] = <<>> /\ task[Server] = "download"
  BY DEF Downloads, Serves
<1>2. CASE SendNext(Server)
  <2>1. PICK p \in todo[Server] :
          Post(Server, <<Command(Server, p)>>) /\ Begin(Server, p, "created")
    BY <1>2 DEF SendNext
  <2>2. p \in Path
    BY DEF Typed, Contents
  <2>3. /\ cur'[Server].word = (IF dir[Server][p] = 0 THEN "FILE_DEL" ELSE "FILE")
        /\ pc'[Server] = "send.cmd"
    BY <2>1 DEF Begin, Goto, Typed, Placed, Contents
  <2>4. Command(Server, p) = Text(cur'[Server].word)
    BY <2>3 DEF Command
  <2>5. PICK ms \in Seq(Message) : ms = <<Command(Server, p)>>
    BY <2>2, Spoken, MessageSeqs
  <2>6. in'[Server] = <<>> /\ in'[Client] = in[Client] \o ms
    BY <1>1, <2>1, <2>5, ServerWrites, MessageSeqs DEF Post
  <2>7. Coming(ms)'
    BY <1>1, <1>2, <2>3, <2>4, <2>5, <2>6 DEF Coming, Downloads, Serves, SendNext
  <2> QED  BY <2>6, <2>7
<1>3. CASE SendEnd(Server)
  <2>1. pc'[Server] = "bye" /\ task' = task
    BY <1>3 DEF SendEnd, Goto, Typed, Placed
  <2>2. PICK ms \in Seq(Message) : ms = <<Text("END")>>
    BY Spoken, MessageSeqs DEF Words
  <2>3. in'[Server] = <<>> /\ in'[Client] = in[Client] \o ms
    BY <1>1, <1>3, <2>2, ServerWrites, MessageSeqs DEF SendEnd, Post
  <2>4. Coming(ms)'
    BY <1>1, <2>1, <2>2, <2>3 DEF Coming, Downloads, Serves
  <2> QED  BY <2>3, <2>4
<1> QED  BY <1>2, <1>3

\* The server goes on with a download, as long as its client follows.
LEMMA ComingServer ==
    ASSUME Typed, ServerStep, pc[Client] # "exited", NEW s \in Seq(Message), Coming(s)
    PROVE  \E ms \in Seq(Message) :
             s = <<>> /\ in'[Client] = in[Client] \o ms /\ Coming(ms)'
<1>1. ~Silent
  BY ServerDoes
<1>2. in[Server] = <<>>
  BY <1>1 DEF Coming, Downloads, Serves
<1>3. pc[Server] = "list" /\ s = <<>> /\ (SendNext(Server) \/ SendEnd(Server))
  BY <1>1, <1>2, ServerDoes DEF Coming, Downloads, Serves, SendNext, SendEnd
<1> QED  BY <1>1, <1>3, ListingSends DEF Coming, Downloads, Serves

\* The next thing the server says to a client that receives.
LEMMA ReceivesServer ==
    ASSUME Typed, ServerStep, pc[Client] = "recv", Offered, Receives
    PROVE  Receives'
<1> USE Sides
<1>1. ~Silent
  BY ServerDoes
<1>2. in[Client] \in Seq(Message)
  BY Reading DEF Typed
<1>3. CASE Coming(in[Client])
  <2>1. PICK ms \in Seq(Message) :
          in[Client] = <<>> /\ in'[Client] = in[Client] \o ms /\ Coming(ms)'
    BY <1>2, <1>3, ComingServer
  <2>2. in'[Client] = ms
    BY <2>1, Joined
  <2> QED  BY <2>1, <2>2 DEF Receives, Coming
<1>4. CASE in[Client] = <<>> /\ Downloads("send.end", <<Ack("DONE")>>)
  <2>1. pc[Server] = "send.end" /\ in[Server] = <<Ack("DONE")>> /\ task[Server] = "download"
    BY <1>1, <1>4 DEF Downloads, Serves
  <2>2. SendEnds(Server)
    BY <2>1, ServerAt, Lists DEF Ack, Reply, Raw
  <2>3. pc'[Server] = "list" /\ task' = task
    BY <2>1, <2>2 DEF SendEnds, Goto, Typed, Placed
  <2>4. Ack("DONE") \in Message /\ <<>> \in Seq(Message)
    BY Spoken, MessageSeqs DEF Whats
  <2>5. in'[Server] = <<>> /\ in'[Client] = <<>>
    BY <1>1, <1>4, <2>1, <2>2, <2>4, ServerReplies DEF SendEnds, Silent
  <2> QED  BY <2>1, <2>3, <2>5 DEF Receives, Coming, Downloads, Serves
<1>5. CASE /\ in[Client] = <<>>
           /\ \E m \in Message :
                 /\ Downloads("send.info", <<m, Ack("DONE")>>)
                 /\ m.w \notin Raw
                 /\ m.w # "ACK" \/ cur[Server].word = "FILE_DEL"
  <2>1. PICK m \in Message :
               /\ pc[Server] = "send.info" /\ in[Server] = <<m, Ack("DONE")>>
               /\ task[Server] = "download" /\ m.w \notin Raw
               /\ m.w # "ACK" \/ cur[Server].word = "FILE_DEL"
    BY <1>1, <1>5 DEF Downloads, Serves
  <2>2. Head(in[Server]) = m /\ Tail(in[Server]) = <<Ack("DONE")>>
    BY <2>1, Lists
  <2>3. SendData(Server)
    BY <2>1, <2>2, ServerAt
  <2>4. Write(Server, <<Ack("DONE")>>, <<>>)
    BY <2>1, <2>2, <2>3 DEF SendData, Got, Answer
  <2>5. pc'[Server] = "send.end" /\ task' = task
    BY <2>3 DEF SendData, Goto, Typed, Placed
  <2>6. Ack("DONE") \in Message
    BY Spoken DEF Whats
  <2>7. in'[Server] = <<Ack("DONE")>> /\ in'[Client] = in[Client] \o <<>>
    BY <1>1, <2>4, <2>6, MessageSeqs, ServerWrites DEF Silent
  <2> QED  BY <1>2, <1>5, <2>1, <2>5, <2>7, Joined DEF Receives, Downloads, Serves
<1>6. CASE in[Client] = <<>> /\ Downloads("send.info", Refusal)
  <2>1. Reply("PRESENT", "INFO") \in Message /\ Reply("PRESENT", "INFO").w = "PRESENT"
    BY Spoken DEF Reply
  <2> QED  BY <1>5, <1>6, <2>1 DEF Refusal, Raw
<1>7. CASE /\ in[Client] = <<>> /\ Downloads("send.info", <<Ack("INFO"), Ack("DONE")>>)
           /\ Silent \/ cur[Server].word = "FILE_DEL"
  <2>1. Ack("INFO") \in Message /\ Ack("INFO").w = "ACK"
    BY Spoken DEF Ack, Reply, Whats
  <2> QED  BY <1>1, <1>5, <1>7, <2>1 DEF Raw
<1> QED  BY <1>3, <1>4, <1>6, <1>7 DEF Receives

LEMMA ReceivesInfoServer ==
    ASSUME Typed, ServerStep, pc[Client] = "recv.info", ReceivesInfo
    PROVE  ReceivesInfo'
<1> USE Sides
<1>1. ~Silent /\ cur'[Client] = cur[Client]
  BY ServerDoes DEF ClientSide
<1>2. CASE in[Client] = <<>> /\ Downloads("send.cmd", <<Ack("COMMAND")>>)
  <2>1. /\ pc[Server] = "send.cmd" /\ in[Server] = <<Ack("COMMAND")>>
        /\ task[Server] = "download"
    BY <1>1, <1>2 DEF Downloads, Serves
  <2>2. SendInfo(Server)
    BY <2>1, ServerAt, Lists DEF Ack, Reply, Raw
  <2>3. pc'[Server] = "send.info" /\ task' = task /\ cur' = cur
    BY <2>2 DEF SendInfo, Goto, Typed, Placed
  <2>4. Ack("COMMAND") \in Message
    BY Spoken DEF Whats
  <2>5. in'[Server] = <<>> /\ in'[Client] = <<Info(cur[Server].path, cur[Server].status)>>
    BY <1>1, <1>2, <2>1, <2>2, <2>4, Spoken, MessageSeqs, ServerReplies
    DEF SendInfo, Silent
  <2> QED  BY <2>1, <2>3, <2>5 DEF ReceivesInfo, Downloads, Serves
<1>3. CASE /\ in[Client] = <<Info(cur[Server].path, cur[Server].status)>>
           /\ Downloads("send.info", <<>>)
  BY <1>1, <1>3, ServerAt DEF Downloads, Serves
<1> QED  BY <1>2, <1>3 DEF ReceivesInfo

LEMMA ReceivesDataServer ==
    ASSUME Typed, ServerStep, pc[Client] = "recv.data", ReceivesData
    PROVE  ReceivesData'
<1> USE Sides
<1>1. ~Silent
  BY ServerDoes
<1>2. CASE /\ in[Client] = <<>> /\ Downloads("send.info", <<Ack("INFO")>>)
           /\ Silent \/ cur[Server].word = "FILE"
  <2>1. /\ pc[Server] = "send.info" /\ in[Server] = <<Ack("INFO")>>
        /\ task[Server] = "download" /\ cur[Server].word = "FILE"
    BY <1>1, <1>2 DEF Downloads, Serves
  <2>2. SendData(Server)
    BY <2>1, ServerAt, Lists DEF Ack, Reply, Raw
  <2>3. pc'[Server] = "send.end" /\ task' = task
    BY <2>2 DEF SendData, Goto, Typed, Placed
  <2> DEFINE v == dir[Server][cur[Server].path]
  <2>4. Ack("INFO") \in Message /\ Data(v) \in Message /\ v \in Version
    BY Spoken DEF Whats, Typed, Contents
  <2>5. Answer(Server, <<Data(v)>>)
    BY <2>1, <2>2, Lists DEF SendData, Got, Ack, Reply
  <2>6. in'[Server] = <<>> /\ in'[Client] = <<Data(v)>>
    BY <1>1, <1>2, <2>1, <2>4, <2>5, MessageSeqs, ServerReplies DEF Silent
  <2> QED  BY <2>1, <2>3, <2>4, <2>6 DEF ReceivesData, Downloads, Serves
<1>3. CASE /\ \E v \in Version : in[Client] = <<Data(v)>>
           /\ Downloads("send.end", <<>>)
  BY <1>1, <1>3, ServerAt DEF Downloads, Serves
<1> QED  BY <1>2, <1>3 DEF ReceivesData

LEMMA AskedServer ==
    ASSUME Typed, ServerStep, pc[Client] = "download?", Asked
    PROVE  Asked'
<1> USE Sides
<1>1. ~Silent
  BY ServerDoes
<1>2. CASE in[Client] = <<>> /\ Serves("choice", <<Text("DOWNLOAD")>>)
  <2>1. pc[Server] = "choice" /\ in[Server] = <<Text("DOWNLOAD")>>
    BY <1>1, <1>2 DEF Serves
  <2>2. Download
    <3>1. Got(Server) = "DOWNLOAD"
      BY <2>1, Lists DEF Got, Text
    <3>2. OkOrUnknown \/ Update \/ Download
      BY <1>2, <2>1, ServerAt, Lists DEF Text, Raw
    <3> QED  BY <3>1, <3>2 DEF OkOrUnknown, Update
  <2>3. pc'[Server] = "list" /\ task'[Server] = "download"
    BY <2>2 DEF Download, Goto, Typed, Placed, Contents
  <2>4. /\ Text("DOWNLOAD") \in Message /\ Ack("DOWNLOAD") \in Message
        /\ <<>> \in Seq(Message)
    BY Spoken, MessageSeqs DEF Whats, Words
  <2>5. in'[Server] = <<>> /\ in'[Client] = <<Ack("DOWNLOAD")>>
    BY <1>1, <1>2, <2>1, <2>2, <2>4, MessageSeqs, ServerReplies DEF Download, Silent
  <2>6. Coming(<<>>)'
    BY <2>3, <2>5 DEF Coming, Downloads, Serves
  <2>7. in'[Client] = <<Ack("DOWNLOAD")>> \o <<>>
    BY <2>4, <2>5, MessageSeqs, Joined
  <2> QED  BY <2>4, <2>6, <2>7 DEF Asked
<1>3. ASSUME NEW s \in Seq(Message), in[Client] = <<Ack("DOWNLOAD")>> \o s, Coming(s)
      PROVE  Asked'
  <2>1. PICK ms \in Seq(Message) :
          s = <<>> /\ in'[Client] = in[Client] \o ms /\ Coming(ms)'
    BY <1>3, ComingServer
  <2>2. in[Client] = <<Ack("DOWNLOAD")>>
    BY <1>3, <2>1, Spoken, MessageSeqs, Joined DEF Whats
  <2> QED  BY <2>1, <2>2 DEF Asked
<1> QED  BY <1>2, <1>3 DEF Asked

LEMMA BarredServer ==
    ASSUME Typed, ServerStep, pc[Client] # "exited", Barred
    PROVE  Barred'
<1> USE Sides
<1>1. ~Silent /\ in[Client] \in Seq(Message)
  BY ServerDoes, Reading DEF Typed
<1>2. PICK ms \in Seq(Message) : in'[Client] = in[Client] \o ms
  BY ServerDoes
<1>3. CASE in[Client] # <<>> /\ Head(in[Client]).w # "SUM"
  BY <1>1, <1>2, <1>3, Joined DEF Barred
<1>4. CASE /\ in[Client] = <<>> /\ task[Server] = "download"
           /\ pc[Server] \in {"list"} \cup Sending
  <2>0. ASSUME NEW m \in Message, m.w # "SUM", NEW rest \in Seq(Message),
               Write(Server, rest, <<m>>)
        PROVE  Barred'
    <3>1. in'[Client] = in[Client] \o <<m>>
      BY <1>1, <2>0, MessageSeqs, ServerWrites DEF Silent
    <3>2. in'[Client] = <<m>>
      BY <1>4, <2>0, <3>1, MessageSeqs, Joined
    <3> QED  BY <2>0, <3>2, Lists DEF Barred
  <2>1. CASE SendNext(Server)
    <3>1. PICK p \in todo[Server] : Post(Server, <<Command(Server, p)>>)
      BY <2>1 DEF SendNext
    <3>2. Command(Server, p) \in Message /\ Command(Server, p).w # "SUM"
      BY Spoken DEF Command, Text, Typed, Contents
    <3> QED  BY <2>0, <3>1, <3>2, Reading DEF Post, Typed
  <2>2. CASE SendEnd(Server)
    <3>1. Text("END") \in Message /\ Text("END").w # "SUM"
      BY Spoken DEF Text, Words
    <3> QED  BY <2>0, <2>2, <3>1, Reading DEF SendEnd, Post, Typed
  <2>3. CASE SendInfo(Server)
    <3>1. /\ Info(cur[Server].path, cur[Server].status) \in Message
          /\ Info(cur[Server].path, cur[Server].status).w # "SUM"
      BY Spoken DEF Info
    <3> QED  BY <2>0, <2>3, <3>1, Reading DEF SendInfo, Comes, Answer, Typed
  <2>4. CASE SendData(Server)
    <3> DEFINE m == Data(dir[Server][cur[Server].path])
    <3>1. m \in Message /\ m.w # "SUM"
      BY Spoken DEF Data
    <3>2. pc'[Server] = "send.end" /\ task' = task
      BY <2>4 DEF SendData, Goto, Typed, Placed
    <3>3. CASE Answer(Server, <<m>>)
      BY <2>0, <2>4, <3>1, <3>3, Reading DEF SendData, Comes, Answer, Typed
    <3>4. CASE Answer(Server, <<>>)
      <4>1. in'[Client] = in[Client] \o <<>>
        BY <1>1, <2>4, <3>4, Reading, MessageSeqs, ServerWrites
        DEF SendData, Comes, Answer, Typed, Silent
      <4> QED  BY <1>1, <1>4, <3>2, <4>1, Joined DEF Barred, Sending
    <3> QED  BY <2>4, <3>3, <3>4 DEF SendData
  <2>5. CASE SendEnds(Server)
    <3>1. pc'[Server] = "list" /\ task' = task
      BY <1>4, <2>5 DEF SendEnds, Goto, Typed, Placed
    <3>2. in'[Client] = in[Client] \o <<>>
      BY <1>1, <2>5, Reading, MessageSeqs, ServerWrites
      DEF SendEnds, Comes, Answer, Typed, Silent
    <3> QED  BY <1>1, <1>4, <3>1, <3>2, Joined DEF Barred
  <2>6. CASE Misread(Server)
    BY <1>4, <2>6 DEF Misread, Goto, Typed, Placed, Barred, Silent
  <2> QED
    BY <1>4, <2>1, <2>2, <2>3, <2>4, <2>5, <2>6
    DEF ServerStep, Exchange, ReceiveCommand, ReceiveInfo, ReceiveData, HandleLogin,
        ParsePacket, OkOrUnknown, Update, Download, UploadEnds, DownloadEnds, HangUp,
        Comes, Sending
<1> QED  BY <1>1, <1>3, <1>4 DEF Barred

\* What the client leaves of the server.
ServerSide == <<pc[Server], cur[Server], task[Server], freezed, first_syncrinize>>

\* The client follows the server through the files of a download.
LEMMA FetchesCommand ==
    ASSUME Typed, freezed, Receives, ReceiveCommand(Client)
    PROVE  UNCHANGED ServerSide /\ pc'[Client] = "recv.info" /\ ReceivesInfo'
<1> USE Sides
<1>1. /\ UNCHANGED ServerSide
      /\ pc[Client] = "recv" /\ pc'[Client] = "recv.info"
      /\ cur'[Client].word = Got(Client)
      /\ in[Client] # <<>> /\ Got(Client) # "END"
  BY DEF ReceiveCommand, Goto, Comes, Typed, Placed, Contents, syncVars, ServerSide
<1>2. /\ in[Client] = <<Text(cur[Server].word)>>
      /\ Downloads("send.cmd", <<>>)
  BY <1>1, Lists DEF Receives, Coming, Got, Text
<1>3. Got(Client) = cur[Server].word /\ Tail(in[Client]) = <<>>
  BY <1>2, Lists DEF Got, Text
<1>4. Ack("COMMAND") \in Message
  BY Spoken DEF Whats
<1>5. in'[Client] = <<>> /\ (~Silent => in'[Server] = in[Server] \o <<Ack("COMMAND")>>)
  BY <1>3, <1>4, ClientWrites, MessageSeqs DEF ReceiveCommand, Answer
<1>6. Downloads("send.cmd", <<Ack("COMMAND")>>)'
  BY <1>1, <1>2, <1>4, <1>5, MessageSeqs, Joined DEF Downloads, Serves, Silent, ServerSide
<1> QED  BY <1>1, <1>3, <1>5, <1>6 DEF ReceivesInfo, ServerSide

LEMMA FetchesInfo ==
    ASSUME Typed, Fetching, Offered, ReceivesInfo, ReceiveInfo(Client)
    PROVE  /\ UNCHANGED ServerSide
           /\ \/ pc'[Client] = "recv" /\ Receives'
              \/ pc'[Client] = "recv.data" /\ ReceivesData'
<1> USE Sides
<1> DEFINE info    == Head(in[Client])
           refused == info.status = "created" /\ dir[Client][info.path] # 0
           data    == cur[Client].word = "FILE" /\ info.status # "erased"
<1>1. /\ UNCHANGED ServerSide /\ pc[Client] = "recv.info"
      /\ in[Client] # <<>> /\ Received(Client) = "recv"
  BY DEF ReceiveInfo, Goto, Comes, Typed, Placed, Contents, syncVars, ServerSide, Received,
         Fetching
<1>2. /\ in[Client] = <<Info(cur[Server].path, cur[Server].status)>>
      /\ Downloads("send.info", <<>>) /\ cur[Client].word = cur[Server].word
  BY <1>1 DEF ReceivesInfo
<1>3. Tail(in[Client]) = <<>> /\ info.status = cur[Server].status
  BY <1>2, Lists DEF Info
<1>4. ~Silent => /\ cur[Server].word \in {"FILE", "FILE_DEL"}
                 /\ cur[Server].status = "created"
  BY <1>2 DEF Offered, Downloads, Serves, Sending
<1>5. /\ Ack("INFO") \in Message /\ Ack("DONE") \in Message
      /\ Reply("PRESENT", "INFO") \in Message
  BY Spoken DEF Whats
<1>6. ASSUME NEW ms \in Seq(Message), Answer(Client, ms)
      PROVE  in'[Client] = <<>> /\ Downloads("send.info", ms)'
  <2>1. in'[Client] = <<>> /\ (~Silent => in'[Server] = in[Server] \o ms)
    BY <1>3, <1>6, ClientWrites, MessageSeqs DEF Answer
  <2>2. ~Silent => in[Server] = <<>> /\ in'[Server] = ms
    BY <1>2, <1>6, <2>1, Joined DEF Downloads, Serves
  <2>3. pc'[Server] = pc[Server] /\ task'[Server] = task[Server]
    BY <1>1 DEF ServerSide
  <2> QED
    BY <1>2, <2>1, <2>2, <2>3 DEF Downloads, Serves, Silent
<1>7. CASE refused
  <2>1. Answer(Client, Refusal) /\ Goto(Client, "recv")
    BY <1>1, <1>7 DEF ReceiveInfo
  <2>2. pc'[Client] = "recv"
    BY <2>1 DEF Goto, Typed, Placed
  <2>3. Refusal \in Seq(Message)
    BY <1>5, MessageSeqs DEF Refusal
  <2> QED  BY <1>1, <1>6, <2>1, <2>2, <2>3 DEF Receives
<1>8. CASE ~refused /\ data
  <2>1. Answer(Client, <<Ack("INFO")>>) /\ Goto(Client, "recv.data")
    BY <1>8 DEF ReceiveInfo
  <2>2. pc'[Client] = "recv.data"
    BY <2>1 DEF Goto, Typed, Placed
  <2>3. in'[Client] = <<>> /\ Downloads("send.info", <<Ack("INFO")>>)'
    BY <1>5, <1>6, <2>1, MessageSeqs
  <2>4. cur'[Server].word = "FILE"
    BY <1>1, <1>2, <1>8 DEF ServerSide
  <2> QED  BY <1>1, <2>2, <2>3, <2>4 DEF ReceivesData
<1>9. CASE ~refused /\ ~data
  <2>1. Answer(Client, <<Ack("INFO"), Ack("DONE")>>) /\ Goto(Client, "recv")
    BY <1>1, <1>9 DEF ReceiveInfo
  <2>2. pc'[Client] = "recv"
    BY <2>1 DEF Goto, Typed, Placed
  <2>3. in'[Client] = <<>> /\ Downloads("send.info", <<Ack("INFO"), Ack("DONE")>>)'
    BY <1>5, <1>6, <2>1, MessageSeqs
  <2>4. Silent' \/ cur'[Server].word = "FILE_DEL"
    BY <1>1, <1>2, <1>3, <1>4, <1>9 DEF ServerSide, Silent
  <2> QED  BY <1>1, <2>2, <2>3, <2>4 DEF Receives
<1> QED  BY <1>7, <1>8, <1>9

LEMMA FetchesData ==
    ASSUME Typed, Fetching, ReceivesData, ReceiveData(Client)
    PROVE  UNCHANGED ServerSide /\ pc'[Client] = "recv" /\ Receives'
<1> USE Sides
<1>1. /\ UNCHANGED ServerSide /\ pc[Client] = "recv.data"
      /\ in[Client] # <<>> /\ pc'[Client] = "recv"
  BY DEF ReceiveData, Goto, Typed, Placed, Contents, syncVars, ServerSide, Received,
         Fetching
<1>2. PICK v \in Version : in[Client] = <<Data(v)>> /\ Downloads("send.end", <<>>)
  BY <1>1 DEF ReceivesData
<1>3. Tail(in[Client]) = <<>>
  BY <1>2, Lists
<1>4. Ack("DONE") \in Message
  BY Spoken DEF Whats
<1>5. in'[Client] = <<>> /\ (~Silent => in'[Server] = in[Server] \o <<Ack("DONE")>>)
  BY <1>3, <1>4, ClientWrites, MessageSeqs DEF ReceiveData, Answer
<1>6. Downloads("send.end", <<Ack("DONE")>>)'
  BY <1>1, <1>2, <1>4, <1>5, MessageSeqs, Joined DEF Downloads, Serves, Silent, ServerSide
<1> QED  BY <1>1, <1>5, <1>6 DEF Receives

\* The server grants a download, and the client begins with the first file.
LEMMA FetchBegins ==
    ASSUME Typed, freezed, Asked, DownloadGranted
    PROVE  UNCHANGED <<pc[Server], cur[Server], task[Server], freezed>>
           /\ pc'[Client] = "recv" /\ Receives'
<1> USE Sides
<1>1. /\ UNCHANGED <<pc[Server], cur[Server], freezed>>
      /\ pc[Client] = "download?" /\ in[Client] # <<>>
  BY DEF DownloadGranted, Asks, Goto, Comes, Typed, Placed, syncVars
<1>2. PICK s \in Seq(Message) : in[Client] = <<Ack("DOWNLOAD")>> \o s /\ Coming(s)
  BY <1>1 DEF Asked
<1>3. Ack("DOWNLOAD") \in Message
  BY Spoken DEF Whats
<1>4. Got(Client) = "ACK" /\ Tail(in[Client]) = s
  BY <1>2, <1>3, Joined DEF Got, Ack, Reply
<1>5. pc'[Client] = "recv" /\ task'[Server] = task[Server]
  BY <1>4 DEF DownloadGranted, Asks, Goto, Typed, Placed, Contents
<1>6. in'[Client] = s /\ (~Silent => in'[Server] = in[Server] \o <<>>)
  BY <1>4, ClientWrites, MessageSeqs DEF DownloadGranted, Asks, Answer
<1>7. ~Silent => in'[Server] = in[Server]
  BY <1>6, Reading, Joined DEF Typed
<1>8. Coming(in[Client])'
  BY <1>1, <1>2, <1>5, <1>6, <1>7 DEF Coming, Downloads, Serves, Silent
<1> QED  BY <1>1, <1>5, <1>8 DEF Receives

\* The client asks for a download, and the server is there to grant it.
LEMMA FetchAsked ==
    ASSUME IInv, Compare, freezed'
    PROVE  pc'[Client] = "download?" /\ Asked' /\ Offered'
<1> USE Sides DEF IInv
<1>1. Joining /\ ~Spoilt /\ pc[Client] = "sum" /\ in[Client] # <<>>
  BY ComparesOnce DEF Compare
<1>2. PICK f \in [Path -> Version] : in[Client] = <<Sum(f)>> /\ Serves("choice", <<>>)
  BY <1>1 DEF Entering, Joining
<1>3. /\ Goto(Client, "download?") /\ Answer(Client, <<Text("DOWNLOAD")>>)
      /\ UNCHANGED cur
  BY <1>1 DEF Compare, Chosen, Watch, Restart, Joining
<1>4. pc'[Client] = "download?" /\ pc'[Server] = pc[Server]
  BY <1>3 DEF Goto, Typed, Placed
<1>5. Text("DOWNLOAD") \in Message /\ Tail(in[Client]) = <<>>
  BY <1>2, Spoken, Lists DEF Words
<1>6. /\ in'[Client] = <<>>
      /\ ~Silent => in'[Server] = in[Server] \o <<Text("DOWNLOAD")>>
  BY <1>3, <1>5, ClientWrites, MessageSeqs DEF Answer
<1>7. Serves("choice", <<Text("DOWNLOAD")>>)'
  BY <1>2, <1>4, <1>5, <1>6, MessageSeqs, Joined DEF Serves, Silent
<1>8. Offered'
  BY <1>2, <1>4 DEF Offered, Serves, Silent, Sending
<1> QED  BY <1>4, <1>6, <1>7, <1>8 DEF Asked

LEMMA DownloadingClient ==
    ASSUME IInv, ClientStep
    PROVE  Downloading'
<1> SUFFICES ASSUME freezed' PROVE Downloading'
  BY DEF Downloading
<1> USE Sides DEF IInv
<1>0. pc \in [Side -> Place] /\ in \in [Side -> Seq(Message)]
  BY DEF Typed, Placed
<1>1. CASE Compare
  BY <1>1, FetchAsked DEF Downloading
<1>2. freezed \/ Compare
  BY DEF ClientStep, Exchange, SendInfo, SendData, SendEnds, SendNext, SendEnd,
         ReceiveCommand, ReceiveInfo, ReceiveData, Misread, Connect, ConnectFails, Login,
         LoggedIn, StartSync, UpdateGranted, DownloadGranted, EndGranted, Watch, Restart,
         DownloadReceived, SendRequest, RequestGranted, ConnectionFails, SigPipe, syncVars
<1>3. ASSUME freezed, ~Compare
      PROVE  Fetching /\ Offered /\ pc[Client] \in Receiving \cup {"start", "sum"} \cup Over
  BY <1>3 DEF Course, Joining, Fetching, Uploading, Watching, Downloading
<1>4. ASSUME freezed, ~Compare, UNCHANGED ServerSide
      PROVE  Offered'
  BY <1>3, <1>4 DEF Offered, ServerSide
<1>5. CASE freezed /\ Exchange(Client)
  <2>1. CASE ReceiveCommand(Client)
    <3>1. Receives
      BY <1>5, <2>1 DEF ReceiveCommand, Comes, Downloading
    <3>2. UNCHANGED ServerSide /\ pc'[Client] = "recv.info" /\ ReceivesInfo'
      BY <1>5, <2>1, <3>1, FetchesCommand
    <3> QED  BY <1>1, <1>4, <1>5, <3>2 DEF Downloading
  <2>2. CASE ReceiveInfo(Client)
    <3>1. ReceivesInfo
      BY <1>5, <2>2 DEF ReceiveInfo, Comes, Downloading
    <3>2. CASE Compare
      BY <1>1, <3>2
    <3>3. CASE ~Compare
      <4>1. /\ UNCHANGED ServerSide
            /\ \/ pc'[Client] = "recv" /\ Receives'
               \/ pc'[Client] = "recv.data" /\ ReceivesData'
        BY <1>3, <1>5, <2>2, <3>1, <3>3, FetchesInfo
      <4> QED  BY <1>4, <1>5, <3>3, <4>1 DEF Downloading
    <3> QED  BY <3>2, <3>3
  <2>3. CASE ReceiveData(Client)
    <3>1. ReceivesData
      BY <1>5, <2>3 DEF ReceiveData, Downloading
    <3>2. CASE Compare
      BY <1>1, <3>2
    <3>3. CASE ~Compare
      <4>1. UNCHANGED ServerSide /\ pc'[Client] = "recv" /\ Receives'
        BY <1>3, <1>5, <2>3, <3>1, <3>3, FetchesData
      <4> QED  BY <1>4, <1>5, <3>3, <4>1 DEF Downloading
    <3> QED  BY <3>2, <3>3
  <2>4. CASE Misread(Client)
    <3>1. pc'[Client] = "lost" /\ UNCHANGED ServerSide
      BY <1>0, <2>4 DEF Misread, Goto, syncVars, ServerSide
    <3> QED  BY <1>1, <1>4, <1>5, <3>1 DEF Downloading, Receiving
  <2>5. ~(SendInfo(Client) \/ SendData(Client) \/ SendEnds(Client) \/ SendNext(Client)
          \/ SendEnd(Client)) \/ Compare
    BY <1>3, <1>5
    DEF SendInfo, SendData, SendEnds, SendNext, SendEnd, Comes, Receiving, Over
  <2> QED  BY <1>1, <1>5, <2>1, <2>2, <2>3, <2>4, <2>5 DEF Exchange
<1>6. CASE freezed /\ DownloadGranted
  <2>1. Asked
    BY <1>6 DEF DownloadGranted, Asks, Comes, Downloading
  <2>2. /\ UNCHANGED <<pc[Server], cur[Server], task[Server], freezed>>
        /\ pc'[Client] = "recv" /\ Receives'
    BY <1>6, <2>1, FetchBegins
  <2> QED  BY <1>6, <2>2 DEF Downloading, Offered
<1>7. CASE freezed /\ StartSync
  <2>1. UNCHANGED ServerSide /\ pc[Client] = "start" /\ pc'[Client] = "sum"
    BY <1>0, <1>7 DEF StartSync, Goto, ServerSide
  <2>2. in'[Client] = in[Client]
    BY <1>0, <1>7, ClientWrites, Spoken, MessageSeqs DEF StartSync, Post, Words
  <2>3. Barred'
    BY <1>7, <2>1, <2>2 DEF Downloading, Barred, Silent, ServerSide
  <2> QED  BY <1>7, <2>1, <2>3 DEF Downloading, Offered, ServerSide
<1>8. CASE freezed /\ ConnectionFails
  <2>1. /\ Catch /\ UNCHANGED <<freezed, first_syncrinize, task, cur, in>>
        /\ \/ pc[Client] \in Waits /\ in[Client] = <<>> /\ conn \in {"closed", "reset"}
           \/ pc[Client] = "start"
    BY <1>8 DEF ConnectionFails, syncVars
  <2>2. Fetching
    BY <1>8 DEF Course, Joining, Fetching, Uploading, Watching
  <2>3. pc'[Client] \in {"start", "exited"} /\ UNCHANGED pc[Server]
    BY <1>0, <2>1, <2>2, CourseCaught, Catching
    DEF Typed, Waits, AwaitsMessage, AwaitsReply
  <2>4. Barred'
    <3>1. CASE in[Client] = <<>> /\ conn \in {"closed", "reset"}
      BY <2>1, <2>3, <3>1 DEF Barred, Silent, Typed, Placed
    <3>2. CASE pc[Client] = "start"
      BY <1>8, <2>1, <2>3, <3>2 DEF Downloading, Barred, Silent
    <3> QED  BY <2>1, <3>1, <3>2
  <2> QED  BY <1>8, <2>1, <2>3, <2>4 DEF Downloading, Offered
<1>9. CASE freezed /\ SigPipe
  <2>1. pc'[Client] = "exited" /\ UNCHANGED <<pc[Server], cur, task>>
    BY <1>0, <1>9 DEF SigPipe, Goto
  <2> QED  BY <1>9, <2>1 DEF Downloading, Offered
<1>10. CASE freezed /\ ~Compare /\ DownloadReceived
  BY <1>10 DEF DownloadReceived, Restart
<1>11. CASE freezed /\ ~Compare
            /\ (\/ Connect \/ ConnectFails \/ Login \/ LoggedIn \/ UpdateGranted
                \/ EndGranted \/ SendRequest \/ RequestGranted)
  BY <1>3, <1>11
  DEF Connect, ConnectFails, Login, LoggedIn, UpdateGranted, EndGranted, SendRequest,
      RequestGranted, Asks, Comes, Receiving, Over
<1> QED
  BY <1>1, <1>2, <1>5, <1>6, <1>7, <1>8, <1>9, <1>10, <1>11 DEF ClientStep

\* A read that fails in a download leaves what no checksum comes before.
LEMMA FetchFails ==
    ASSUME IInv, freezed, ReadFails(Client), pc'[Client] = "start"
    PROVE  Barred'
<1> USE Sides DEF IInv
<1>1. /\ UNCHANGED <<freezed, first_syncrinize, task, cur>> /\ Catch
      /\ in[Client] # <<>> /\ Placed
  BY DEF ReadFails, syncVars, Typed
<1>2. PICK rest \in {<<Rest>>, <<>>} :
        /\ in' = [in EXCEPT ![Client] = rest \o Tail(@)]
        /\ rest = <<>> => pc[Client] \in Accesses
  BY DEF ReadFails
<1>3. in'[Client] = rest \o Tail(in[Client]) /\ in'[Server] = in[Server]
  BY <1>1, <1>2 DEF Placed
<1>4. UNCHANGED pc[Server]
  <2>1. pc[Client] # "connect"
    BY DEF ReadFails, AwaitsMessage, AwaitsReply
  <2>2. in' \in [Side -> Seq(Message)]
    BY FailureTyped DEF Typed, Placed
  <2> QED  BY <1>1, <2>1, <2>2, Catching DEF Typed
<1>5. Fetching
  BY DEF Course, Joining, Fetching, Uploading, Watching
<1>6. CASE rest = <<Rest>>
  <2>1. in'[Client] # <<>> /\ Head(in'[Client]) = Rest
    BY <1>1, <1>3, <1>6, Reading, MessagesMade, Joined
  <2> QED  BY <2>1 DEF Barred, Rest
<1>7. CASE rest = <<>>
  <2>1. pc[Client] \in {"download?", "recv.info"}
    BY <1>2, <1>5, <1>7 DEF Accesses, Fetching, Receiving, Over
  <2>2. in'[Client] = Tail(in[Client])
    BY <1>1, <1>3, <1>7, Reading, Joined
  <2>3. CASE pc[Client] = "download?"
    <3>1. PICK s \in Seq(Message) : in[Client] = <<Ack("DOWNLOAD")>> \o s /\ Coming(s)
      BY <1>1, <2>3 DEF Downloading, Asked
    <3>2. in'[Client] = s
      BY <2>2, <3>1, Spoken, Joined DEF Whats
    <3>3. CASE s = <<>> /\ Downloads("list", <<>>)
      BY <1>1, <1>4, <3>2, <3>3 DEF Barred, Downloads, Serves, Silent
    <3>4. CASE s # <<>> /\ Head(s).w # "SUM"
      BY <3>2, <3>4 DEF Barred
    <3>5. \A w : <<Text(w)>> # <<>> /\ Head(<<Text(w)>>).w = w
      BY Lists DEF Text
    <3>6. s = <<Text(cur[Server].word)>> \/ s = <<Text("END")>> => Head(s).w # "SUM"
      <4>1. cur[Server].word # "SUM"
        BY DEF Typed, Contents, Words
      <4> QED  BY <3>5, <4>1
    <3> QED  BY <3>1, <3>3, <3>4, <3>5, <3>6 DEF Coming
  <2>4. CASE pc[Client] = "recv.info"
    <3>1. /\ in[Client] = <<Info(cur[Server].path, cur[Server].status)>>
          /\ Downloads("send.info", <<>>)
      BY <1>1, <2>4 DEF Downloading, ReceivesInfo
    <3>2. in'[Client] = <<>>
      BY <2>2, <3>1, Lists
    <3> QED  BY <1>1, <1>4, <3>1, <3>2 DEF Barred, Downloads, Serves, Silent, Sending
  <2> QED  BY <2>1, <2>3, <2>4
<1> QED  BY <1>2, <1>6, <1>7

LEMMA DownloadingNext == IInv /\ [Straight]_vars => Downloading'
<1> SUFFICES ASSUME IInv, [Straight]_vars, freezed' PROVE Downloading'
  BY DEF Downloading
<1>1. CASE ClientStep
  BY <1>1, DownloadingClient
<1>2. CASE ServerStep
  <2>1. UNCHANGED <<pc[Client], freezed>>
    BY <1>2, ServerDoes DEF IInv, ClientSide
  <2>2. Typed /\ Downloading /\ freezed
    BY <2>1 DEF IInv
  <2>3. Offered /\ Offered'
    BY <1>2, <2>2, OfferedServer DEF Downloading
  <2>4. CASE pc[Client] = "download?"
    BY <1>2, <2>1, <2>2, <2>3, <2>4, AskedServer DEF Downloading
  <2>5. CASE pc[Client] = "recv"
    BY <1>2, <2>1, <2>2, <2>3, <2>5, ReceivesServer DEF Downloading
  <2>6. CASE pc[Client] = "recv.info"
    BY <1>2, <2>1, <2>2, <2>3, <2>6, ReceivesInfoServer DEF Downloading
  <2>7. CASE pc[Client] = "recv.data"
    BY <1>2, <2>1, <2>2, <2>3, <2>7, ReceivesDataServer DEF Downloading
  <2>8. CASE pc[Client] \in {"start", "sum"}
    BY <1>2, <2>1, <2>2, <2>3, <2>8, BarredServer DEF Downloading
  <2> QED
    BY <2>1, <2>3, <2>4, <2>5, <2>6, <2>7, <2>8 DEF Downloading
<1>3. CASE ServerStops \/ ReadFails(Server)
  <2>1. /\ Silent' /\ pc'[Client] = pc[Client] /\ in'[Client] = in[Client]
        /\ UNCHANGED <<task, cur, freezed>>
    BY <1>3, ServerFails DEF IInv
  <2>2. pc'[Server] \notin Sending
    BY <2>1 DEF Silent, Sending
  <2>3. Downloading
    BY DEF IInv
  <2> QED
    BY <2>1, <2>2, <2>3
    DEF Downloading, Offered, Asked, Receives, ReceivesInfo, ReceivesData, Barred, Coming,
        Downloads, Serves
<1>4. CASE ReadFails(Client)
  <2>1. /\ Catch /\ UNCHANGED <<freezed, first_syncrinize, task, cur>>
        /\ pc[Client] # "connect" /\ in' \in [Side -> Seq(Message)]
    <3>1. Typed'
      BY <1>4, FailureTyped, Sides DEF IInv
    <3> QED  BY <1>4, <3>1 DEF ReadFails, syncVars, AwaitsMessage, AwaitsReply, Typed, Placed
  <2>2. Fetching
    BY <2>1 DEF IInv, Course, Joining, Fetching, Uploading, Watching
  <2>3. pc'[Client] \in {"start", "exited"} /\ UNCHANGED pc[Server]
    BY <2>1, <2>2, CourseCaught, Catching DEF IInv, Typed
  <2>4. Offered'
    BY <2>1, <2>2, <2>3 DEF IInv, Downloading, Offered
  <2> QED  BY <1>4, <2>1, <2>3, <2>4, FetchFails DEF Downloading
<1>5. CASE \E p \in Path : Edit(p)
  <2>1. UNCHANGED <<pc, in, cur, task, freezed>>
    BY <1>5 DEF Edit
  <2> QED
    BY <2>1
    DEF IInv, Downloading, Offered, Asked, Receives, ReceivesInfo, ReceivesData, Barred,
        Coming, Downloads, Serves, Silent
<1>6. CASE UNCHANGED vars
  <2>1. UNCHANGED <<pc, in, cur, task, freezed>>
    BY <1>6 DEF vars
  <2> QED
    BY <2>1
    DEF IInv, Downloading, Offered, Asked, Receives, ReceivesInfo, ReceivesData, Barred,
        Coming, Downloads, Serves, Silent
<1> QED
  BY <1>1, <1>2, <1>3, <1>4, <1>5, <1>6, Sides DEF Straight

LEMMA InvNext == IInv /\ [Straight]_vars => IInv'
BY TypedNext, CourseNext, EnteringNext, DownloadingNext DEF IInv, Straight, Next

\* What has put the two ends out of step is remembered.
LEMMA Remembered ==
    [Next]_vars => slips \subseteq slips' /\ faults' \in {faults, faults + 1}
<1> DEFINE Kept == slips \subseteq slips' /\ faults' \in {faults, faults + 1}
<1> SUFFICES ASSUME [Next]_vars PROVE Kept
  OBVIOUS
<1> USE DEF syncVars, faultVars
<1>1. ASSUME NEW x \in Side, Exchange(x) PROVE Kept
  BY <1>1
  DEF Exchange, SendInfo, SendData, SendEnds, SendNext, SendEnd, ReceiveCommand,
      ReceiveInfo, ReceiveData, Misread
<1>2. CASE ClientStep
  <2>1. CASE EndGranted
    BY <2>1 DEF EndGranted
  <2> QED
    BY <1>1, <1>2, <2>1, Sides
    DEF ClientStep, Connect, ConnectFails, Login, LoggedIn, StartSync, Compare,
        UpdateGranted, DownloadGranted, DownloadReceived, SendRequest, RequestGranted,
        ConnectionFails, SigPipe
<1>3. CASE Stray
  BY <1>3 DEF Stray, CompareOther, Garbled
<1>4. CASE ServerStep
  BY <1>1, <1>4, Sides
  DEF ServerStep, HandleLogin, ParsePacket, OkOrUnknown, Update, Download, UploadEnds,
      DownloadEnds, HangUp
<1>5. CASE ServerStops \/ (\E x \in Side : ReadFails(x)) \/ (\E p \in Path : Edit(p))
  BY <1>5 DEF ServerStops, ReadFails, Edit
<1>6. CASE UNCHANGED vars
  BY <1>6 DEF vars
<1> QED  BY <1>2, <1>3, <1>4, <1>5, <1>6 DEF Next

\* A step is one of a client that reads what it waits for, or is remembered.
LEMMA Strays ==
    ASSUME Typed, [Next]_vars
    PROVE  /\ [Straight]_vars \/ "misread" \in slips'
           /\ "misread" \in slips => "misread" \in slips'
<1>1. Stray => "misread" \in slips'
  BY DEF Stray, CompareOther, Garbled
<1> QED  BY <1>1, Remembered DEF Next, Straight

\* All this holds until the client takes something for what it is not.
LEMMA InvAlways == Spec => [](Typed /\ ("misread" \in slips \/ IInv))
<1> DEFINE Inv == Typed /\ ("misread" \in slips \/ IInv)
<1>1. Init => Inv
  BY InvInit, TypedInit
<1>2. Inv /\ [Next]_vars => Inv'
  BY Strays, TypedNext, InvNext
<1> QED  BY <1>1, <1>2, PTL DEF Spec

\* ReleasedAfterSync: restart is not reached when a download fails
\* (Client.cpp:287-288), but the client does not compare the checksums again
\* after it, for it finds no checksum where it looks for one: as long as it
\* takes nothing else for it, no synchronisation ends with the watcher frozen,
\* whatever fails, and however often.
THEOREM WatcherReleased == Spec => []ReleasedAfterSync
<1>1. IInv => ReleasedAfterSync
  BY DEF IInv, Course, Joining, Fetching, Uploading, Watching, ReleasedAfterSync
<1>2. "misread" \in slips => ReleasedAfterSync
  BY DEF ReleasedAfterSync
<1> QED  BY <1>1, <1>2, InvAlways, PTL

=============================================================================
