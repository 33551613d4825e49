--------------------------- MODULE DialogueProofs ---------------------------
(***************************************************************************)
(* Which reply each end of a session reads, proved for every set of files: *)
(* without a failing read the two ends stay in step, but for the reply by  *)
(* which the client is ahead after an upload, and for the data of a file   *)
(* sent as erased.                                                         *)
(***************************************************************************)
EXTENDS SessionProofs

-----------------------------------------------------------------------------
(* The invariant: what is on the way, for each place of the client *)

\* What is on the way to the client, and the server with what it has to read.
Joint(pre, at, ms) == in[Client] = pre /\ Serves(at, ms)

For(job) == Silent \/ task[Server] = job
Told     == Silent \/ cur[Server].word = cur[Client].word

TheVerb    == Text(Verb[cur[Client].status])
TheCommand == Text(cur[Client].word)
TheInfo    == Info(cur[Client].path, cur[Client].status)

\* The receiver is told to expect data.
Carries == cur[Client].word = "FILE" /\ cur[Client].status # "erased"

\* Where the server goes on behind a file.
Home(job) == IF job = "update" THEN "recv" ELSE "free"

\* The server has data to read as a request, and does not read on.
Jammed ==
    /\ slips # {}
    /\ ~Silent => /\ pc[Server] = "free"
                  /\ in[Server] # <<>> /\ Head(in[Server]).w = "DATA"

Granting ==
    \/ Joint(<<>>, "choice", <<Text("UPDATE")>>)
    \/ Joint(<<Ack("UPDATE")>>, "recv", <<>>) /\ For("update")

\* An exchange in which the client reads the reply to what it sent last.
AtCommand(job) ==
    /\ For(job)
    /\ \/ Joint(<<>>, "recv", <<TheCommand>>)
       \/ Joint(<<Ack("COMMAND")>>, "recv.info", <<>>) /\ Told

AtInfo(job) ==
    /\ For(job)
    /\ \/ Joint(<<>>, "recv.info", <<TheInfo>>) /\ Told
       \/ Joint(<<Ack("INFO")>>, "recv.data", <<>>) /\ Carries
       \/ Joint(<<Ack("INFO"), Ack("DONE")>>, Home(job), <<>>) /\ ~Carries
       \/ Joint(Refusal, Home(job), <<>>)

AtEnd(job) ==
    /\ For(job)
    /\ \/ \E v \in Version : Joint(<<>>, "recv.data", <<Data(v)>>)
       \/ Joint(<<Ack("DONE")>>, Home(job), <<>>)

\* An upload.
AtEndOfAll ==
    \/ Joint(<<>>, "recv", <<Text("END")>>) /\ For("update")
    \/ Joint(<<Ack("END"), Ack("NOTHING")>>, "free", <<>>)

Uploads ==
    /\ pc[Client] \in Sending => cur[Client].status = "modified"
    /\ pc[Client] = "list" => Joint(<<>>, "recv", <<>>) /\ For("update")
    /\ pc[Client] = "send.cmd" => AtCommand("update")
    /\ pc[Client] = "send.info" => AtInfo("update")
    /\ pc[Client] = "send.end" => AtEnd("update")
    /\ pc[Client] = "end?" => AtEndOfAll

\* The requests after a synchronisation that found the folders equal, or has
\* downloaded; the server may still have to read how it ended.
Frees(ms) ==
    \/ Serves("free", ms)
    \/ Serves("choice", <<Text("OK")>> \o ms)
    \/ Serves("bye", <<Ack("END"), Ack("NOTHING")>> \o ms)
    \/ Serves("free", <<Ack("NOTHING")>> \o ms)

AtIdle == in[Client] = <<>> /\ (Frees(<<>>) \/ Jammed)

AtRequest ==
    \/ in[Client] = <<>> /\ (Frees(<<TheVerb>>) \/ Jammed)
    \/ Joint(<<Ack("REQUEST")>>, "recv", <<>>) /\ For("request")

Requests ==
    /\ pc[Client] = "idle" => AtIdle
    /\ pc[Client] = "request?" => AtRequest
    /\ pc[Client] = "send.cmd" => AtCommand("request")
    /\ pc[Client] = "send.info" => AtInfo("request")
    /\ pc[Client] = "send.end" =>
         AtEnd("request") \/ (in[Client] = <<Ack("DONE")>> /\ Jammed)

\* The requests after an upload: each place with the replies of the one before.
Left  == {Ack("NOTHING"), Ack("DONE")}
Infos == {Ack("INFO"), Reply("PRESENT", "INFO")}

LateIdle ==
    \/ \E d \in Left : Joint(<<d>>, "free", <<>>)
    \/ \E v \in Version : Joint(<<>>, "recv.data", <<Data(v)>>) /\ For("request")
    \/ \E d \in Left : in[Client] = <<d>> /\ Jammed

LateRequest ==
    \/ \E d \in Left : Joint(<<d>>, "free", <<TheVerb>>)
    \/ \E d \in Left : Joint(<<d, Ack("REQUEST")>>, "recv", <<>>) /\ For("request")
    \/ \E v \in Version : Joint(<<>>, "recv.data", <<Data(v), TheVerb>>) /\ For("request")
    \/ \E d \in Left : in[Client] = <<d>> /\ Jammed

LateCommand ==
    \/ Joint(<<>>, "free", <<TheVerb, TheCommand>>)
    \/ Joint(<<Ack("REQUEST")>>, "recv", <<TheCommand>>) /\ For("request")
    \/ /\ Joint(<<Ack("REQUEST"), Ack("COMMAND")>>, "recv.info", <<>>)
       /\ For("request") /\ Told
    \/ in[Client] = <<>> /\ Jammed

LateInfo ==
    \/ Joint(<<>>, "recv", <<TheCommand, TheInfo>>) /\ For("request")
    \/ Joint(<<Ack("COMMAND")>>, "recv.info", <<TheInfo>>) /\ For("request") /\ Told
    \/ /\ Joint(<<Ack("COMMAND"), Ack("INFO")>>, "recv.data", <<>>)
       /\ For("request") /\ Carries
    \/ /\ \E r \in Infos : Joint(<<Ack("COMMAND"), r, Ack("DONE")>>, "free", <<>>)

LateEnd ==
    \/ /\ \E v \in Version : Joint(<<>>, "recv.info", <<TheInfo, Data(v)>>)
       /\ For("request") /\ Told /\ cur[Client].word = "FILE"
    \/ /\ Joint(<<>>, "recv.info", <<TheInfo>>)
       /\ For("request") /\ Told /\ cur[Client].word # "FILE"
    \/ \E v \in Version : Joint(<<Ack("INFO")>>, "recv.data", <<Data(v)>>) /\ For("request")
    \/ \E r \in Infos : Joint(<<r, Ack("DONE")>>, "free", <<>>)
    \/ \E r \in Infos : in[Client] = <<r, Ack("DONE")>> /\ Jammed

LateRequests ==
    /\ pc[Client] = "idle" => LateIdle
    /\ pc[Client] = "request?" => LateRequest
    /\ pc[Client] = "send.cmd" => LateCommand
    /\ pc[Client] = "send.info" => LateInfo
    /\ pc[Client] = "send.end" => LateEnd

Late == "update" \in slips

\* Nobody is lost without a slip, and a client that has failed has no server.
Standing ==
    /\ pc[Client] # "lost"
    /\ pc[Server] = "lost" => slips # {}
    /\ conn = "shut" => Silent
    /\ first_syncrinize => slips = {}
    /\ pc[Client] = "exited" => Serves("accept", <<>>)
    /\ freezed /\ pc[Client] \in {"start", "sum"} => in[Client] = <<>> /\ Silent
    /\ pc[Client] \in Sending => cur[Client].word \in {"FILE", "FILE_DEL"}
    /\ pc[Server] \in Sending => cur[Server].status = "created"

Dialogue ==
    faults = 0 =>
      /\ Standing
      /\ pc[Client] = "update?" => Granting
      /\ task[Client] = "update" => Uploads
      /\ task[Client] = "request" => IF Late THEN LateRequests ELSE Requests

-----------------------------------------------------------------------------
(* The server reads *)

LEMMA SameMessages ==
    ASSUME NEW s \in Seq(Message), NEW t \in Seq(Message), Len(s) = Len(t),
           \A i \in 1 .. Len(s) : s[i] = t[i]
    PROVE  s = t
BY SeqEqual

LEMMA Chains ==
    /\ <<>> \o <<>> = <<>>
    /\ \A a \in Message : <<>> \o <<a>> = <<a>> /\ <<a>> \o <<>> = <<a>>
    /\ \A a, b \in Message :
          /\ <<>> \o <<a, b>> = <<a, b>> /\ <<a>> \o <<b>> = <<a, b>>
          /\ <<a, b>> \o <<>> = <<a, b>>
    /\ \A a, b, c \in Message :
          /\ <<a>> \o <<b, c>> = <<a, b, c>> /\ <<a, b>> \o <<c>> = <<a, b, c>>
    /\ \A a, b, c : /\ <<a, b, c>> # <<>> /\ Head(<<a, b, c>>) = a
                    /\ Tail(<<a, b, c>>) = <<b, c>>
<1>1. \A s \in Seq(Message) : <<>> \o s = s /\ s \o <<>> = s
  BY Joined
<1>2. \A a, b \in Message : <<a>> \o <<b>> = <<a, b>>
  <2> SUFFICES ASSUME NEW a \in Message, NEW b \in Message
               PROVE  <<a>> \o <<b>> = <<a, b>>
    OBVIOUS
  <2>1. Append(<<a>>, b) = <<a, b>>
    <3> DEFINE s == Append(<<a>>, b)
               t == <<a, b>>
    <3>1. s \in Seq(Message) /\ Len(s) = 2 /\ s[1] = a /\ s[2] = b
      BY AppendProperties, MessageSeqs
    <3>2. t \in Seq(Message) /\ Len(t) = 2 /\ t[1] = a /\ t[2] = b
      BY MessageSeqs
    <3> HIDE DEF s, t
    <3>3. \A i \in 1 .. Len(s) : s[i] = t[i]
      <4> SUFFICES ASSUME NEW i \in 1 .. Len(s) PROVE s[i] = t[i]
        OBVIOUS
      <4>1. i = 1 \/ i = 2
        BY <3>1
      <4> QED  BY <3>1, <3>2, <4>1
    <3>4. s = t
      BY <3>1, <3>2, <3>3, SameMessages
    <3> QED  BY <3>4 DEF s, t
  <2> QED  BY <2>1, AppendIsConcat, MessageSeqs
<1>3. \A a, b, c \in Message :
          /\ <<a>> \o <<b, c>> = <<a, b, c>> /\ <<a, b>> \o <<c>> = <<a, b, c>>
  <2> SUFFICES ASSUME NEW a \in Message, NEW b \in Message, NEW c \in Message
               PROVE  <<a>> \o <<b, c>> = <<a, b, c>> /\ <<a, b>> \o <<c>> = <<a, b, c>>
    OBVIOUS
  <2>1. Append(<<a, b>>, c) = <<a, b, c>>
    <3> DEFINE s == Append(<<a, b>>, c)
               t == <<a, b, c>>
    <3>1. s \in Seq(Message) /\ Len(s) = 3 /\ s[1] = a /\ s[2] = b /\ s[3] = c
      BY AppendProperties, MessageSeqs
    <3>2. t \in Seq(Message) /\ Len(t) = 3 /\ t[1] = a /\ t[2] = b /\ t[3] = c
      BY MessageSeqs
    <3> HIDE DEF s, t
    <3>3. \A i \in 1 .. Len(s) : s[i] = t[i]
      <4> SUFFICES ASSUME NEW i \in 1 .. Len(s) PROVE s[i] = t[i]
        OBVIOUS
      <4>1. i = 1 \/ i = 2 \/ i = 3
        BY <3>1
      <4> QED  BY <3>1, <3>2, <4>1
    <3>4. s = t
      BY <3>1, <3>2, <3>3, SameMessages
    <3> QED  BY <3>4 DEF s, t
  <2>2. <<a, b>> \o <<c>> = <<a, b, c>>
    BY <2>1, AppendIsConcat, MessageSeqs
  <2>3. (<<a>> \o <<b>>) \o <<c>> = <<a>> \o (<<b>> \o <<c>>)
    BY ConcatAssociative, MessageSeqs
  <2> QED  BY <1>2, <2>2, <2>3
<1>4. \A a, b, c : /\ <<a, b, c>> # <<>> /\ Head(<<a, b, c>>) = a
                  /\ Tail(<<a, b, c>>) = <<b, c>>
  OBVIOUS
<1> QED  BY <1>1, <1>2, <1>3, <1>4, MessageSeqs

\* The server has read a message and said ms.
Says(ms) == in'[Server] = Tail(in[Server]) /\ in'[Client] = in[Client] \o ms

LEMMA ServerSays ==
    ASSUME Typed, ~Silent, in[Server] # <<>>,
           NEW ms \in Seq(Message), Answer(Server, ms)
    PROVE  Says(ms)
<1>1. Tail(in[Server]) \in Seq(Message)
  BY Reading, Sides DEF Typed
<1> QED  BY <1>1, ServerWrites DEF Answer, Says, Silent

\* The one thing the server can do where it receives.
LEMMA ReceiverAt ==
    ASSUME Typed, ServerStep, pc[Client] # "exited"
    PROVE  /\ ~Silent
           /\ pc[Server] # "list" => in[Server] # <<>>
           /\ pc[Server] = "recv" /\ Got(Server) \notin Raw =>
                ReceiveCommand(Server) \/ UploadEnds
           /\ pc[Server] = "recv.info" /\ Got(Server) = "INFO" => ReceiveInfo(Server)
           /\ pc[Server] = "recv.data" /\ Got(Server) = "DATA" => ReceiveData(Server)
           /\ pc[Server] = "free" /\ Got(Server) = "DATA" => Misread(Server)
<1>0. ~Silent
  BY ServerDoes
<1>1. CASE Exchange(Server)
  <2>1. CASE Misread(Server)
    BY <1>0, <2>1 DEF Misread, AwaitsMessage, AwaitsReply, Raw
  <2>2. CASE SendInfo(Server) \/ SendData(Server) \/ SendEnds(Server)
    BY <1>0, <2>2 DEF SendInfo, SendData, SendEnds, Comes
  <2>3. CASE SendNext(Server) \/ SendEnd(Server)
    BY <1>0, <2>3 DEF SendNext, SendEnd
  <2>4. CASE ReceiveCommand(Server) \/ ReceiveInfo(Server) \/ ReceiveData(Server)
    BY <1>0, <2>4 DEF ReceiveCommand, ReceiveInfo, ReceiveData, Comes
  <2> QED  BY <1>1, <2>1, <2>2, <2>3, <2>4 DEF Exchange
<1>2. CASE HandleLogin \/ ParsePacket \/ UploadEnds \/ DownloadEnds
  BY <1>0, <1>2 DEF HandleLogin, ParsePacket, UploadEnds, DownloadEnds, Comes, Got, Raw
<1>3. CASE OkOrUnknown \/ Update \/ Download
  BY <1>0, <1>3 DEF OkOrUnknown, Update, Download, Comes
<1>4. CASE HangUp
  BY <1>4 DEF HangUp
<1> QED  BY <1>1, <1>2, <1>3, <1>4 DEF ServerStep

\* A file's command.
LEMMA ReadsCommand ==
    ASSUME Typed, ServerStep, pc[Client] # "exited",
           pc[Server] = "recv", Got(Server) \in {"FILE", "FILE_DEL"}
    PROVE  /\ Says(<<Ack("COMMAND")>>)
           /\ pc'[Server] = "recv.info" /\ cur'[Server].word = Got(Server)
           /\ task' = task
<1>1. ~Silent /\ in[Server] # <<>>
  BY ReceiverAt
<1>2. ReceiveCommand(Server)
  BY ReceiverAt DEF UploadEnds, Raw
<1>3. <<Ack("COMMAND")>> \in Seq(Message)
  BY MessagesMade, MessageSeqs DEF Whats
<1>4. Says(<<Ack("COMMAND")>>)
  BY <1>1, <1>2, <1>3, ServerSays DEF ReceiveCommand
<1>5. pc'[Server] = "recv.info" /\ task' = task
  BY <1>2, Sides DEF ReceiveCommand, Goto, Typed, Placed
<1>6. cur'[Server].word = Got(Server)
  BY <1>2, Sides DEF ReceiveCommand, Typed, Contents
<1> QED  BY <1>4, <1>5, <1>6

\* END.
LEMMA ReadsEnd ==
    ASSUME Typed, ServerStep, pc[Client] # "exited",
           pc[Server] = "recv", Got(Server) = "END"
    PROVE  /\ Says(<<Ack("END"), Ack("NOTHING")>>)
           /\ pc'[Server] = "free" /\ task' = task
<1>1. ~Silent /\ in[Server] # <<>>
  BY ReceiverAt
<1>2. UploadEnds
  BY ReceiverAt DEF ReceiveCommand, Raw
<1>3. <<Ack("END"), Ack("NOTHING")>> \in Seq(Message)
  BY MessagesMade, MessageSeqs DEF Whats
<1> QED
  BY <1>1, <1>2, <1>3, ServerSays, Sides DEF UploadEnds, Goto, Typed, Placed

\* A file's info, which says what follows.
LEMMA ReadsInfo ==
    ASSUME Typed, ServerStep, pc[Client] # "exited",
           pc[Server] = "recv.info", Got(Server) = "INFO"
    PROVE  LET data == /\ cur[Server].word = "FILE"
                       /\ Head(in[Server]).status # "erased"
           IN  /\ \/ Says(Refusal) /\ pc'[Server] = Received(Server)
                  \/ data /\ Says(<<Ack("INFO")>>) /\ pc'[Server] = "recv.data"
                  \/ /\ ~data /\ Says(<<Ack("INFO"), Ack("DONE")>>)
                     /\ pc'[Server] = Received(Server)
               /\ task' = task /\ cur'[Server].word = cur[Server].word
<1>1. ~Silent /\ in[Server] # <<>>
  BY ReceiverAt
<1>2. ReceiveInfo(Server)
  BY ReceiverAt
<1>3. /\ Refusal \in Seq(Message) /\ <<Ack("INFO")>> \in Seq(Message)
      /\ <<Ack("INFO"), Ack("DONE")>> \in Seq(Message)
  BY MessagesMade, MessageSeqs DEF Whats, Words, Refusal
<1>4. task' = task /\ cur'[Server].word = cur[Server].word
  BY <1>2, Sides DEF ReceiveInfo, Contents, Typed
<1>5. \A to : Goto(Server, to) => pc'[Server] = to
  BY Sides DEF Goto, Typed, Placed
<1>6. \A ms \in Seq(Message) : Answer(Server, ms) => Says(ms)
  BY <1>1, ServerSays
<1> DEFINE info    == Head(in[Server])
           refused == info.status = "created" /\ dir[Server][info.path] # 0
           data    == cur[Server].word = "FILE" /\ info.status # "erased"
<1>7. CASE refused
  BY <1>2, <1>3, <1>4, <1>5, <1>6, <1>7 DEF ReceiveInfo
<1>8. CASE ~refused /\ data
  BY <1>2, <1>3, <1>4, <1>5, <1>6, <1>8 DEF ReceiveInfo
<1>9. CASE ~refused /\ ~data
  BY <1>2, <1>3, <1>4, <1>5, <1>6, <1>9 DEF ReceiveInfo
<1> QED  BY <1>7, <1>8, <1>9

\* A file's data.
LEMMA ReadsData ==
    ASSUME Typed, ServerStep, pc[Client] # "exited",
           pc[Server] = "recv.data", Got(Server) = "DATA"
    PROVE  /\ Says(<<Ack("DONE")>>)
           /\ pc'[Server] = Received(Server) /\ task' = task
<1>1. ~Silent /\ in[Server] # <<>> /\ ReceiveData(Server)
  BY ReceiverAt
<1>2. <<Ack("DONE")>> \in Seq(Message)
  BY MessagesMade, MessageSeqs DEF Whats
<1> QED
  BY <1>1, <1>2, ServerSays, Sides DEF ReceiveData, Goto, Typed, Placed

\* A request.
LEMMA ReadsVerb ==
    ASSUME Typed, ServerStep, pc[Client] # "exited",
           pc[Server] = "free", Got(Server) \in {Verb[st] : st \in Statuses}
    PROVE  /\ Says(<<Ack("REQUEST")>>)
           /\ pc'[Server] = "recv" /\ task'[Server] = "request"
<1>1. ~Silent /\ in[Server] # <<>>
  BY ReceiverAt
<1>2. Got(Server) \in {"CREATE", "MODIFY", "ERASE"}
  BY DEF Verb, Statuses
<1>3. ParsePacket
  BY <1>1, <1>2, ServerAt DEF Got, Raw
<1>4. <<Ack("REQUEST")>> \in Seq(Message)
  BY MessagesMade, MessageSeqs DEF Whats
<1>5. Got(Server) # "SYNC"
  BY <1>2
<1>6. /\ Answer(Server, <<Ack("REQUEST")>>) /\ Goto(Server, "recv")
      /\ task' = [task EXCEPT ![Server] = "request"]
  BY <1>3, <1>5 DEF ParsePacket
<1> QED
  BY <1>1, <1>4, <1>6, ServerSays, Sides DEF Goto, Typed, Placed, Contents

\* What it takes no notice of: a late acknowledgement.
LEMMA ReadsAck ==
    ASSUME Typed, ServerStep, pc[Client] # "exited",
           pc[Server] = "free", Got(Server) = "ACK"
    PROVE  Says(<<>>) /\ pc'[Server] = "free"
<1>1. ~Silent /\ in[Server] # <<>>
  BY ReceiverAt
<1>2. Got(Server) # "SYNC" /\ Got(Server) \notin {Verb[st] : st \in Statuses}
  BY DEF Verb, Statuses
<1>3. ParsePacket
  BY <1>1, ServerAt DEF Got, Raw
<1>4. Answer(Server, <<>>) /\ Goto(Server, "free")
  BY <1>2, <1>3 DEF ParsePacket
<1> QED
  BY <1>1, <1>4, ServerSays, MessageSeqs, Sides DEF Goto, Typed, Placed

\* The client's choice, OK or UPDATE.
LEMMA ReadsChoice ==
    ASSUME Typed, ServerStep, pc[Client] # "exited",
           pc[Server] = "choice", Got(Server) \in {"OK", "UPDATE"}
    PROVE  /\ Got(Server) = "OK" => Says(<<>>) /\ pc'[Server] = "free"
           /\ Got(Server) = "UPDATE" =>
                /\ Says(<<Ack("UPDATE")>>)
                /\ pc'[Server] = "recv" /\ task'[Server] = "update"
<1>1. ~Silent /\ in[Server] # <<>>
  BY ReceiverAt
<1>2. OkOrUnknown \/ Update
  <2>1. OkOrUnknown \/ Update \/ Download
    BY <1>1, ServerAt DEF Got, Raw
  <2> QED  BY <2>1 DEF Download
<1>3. <<Ack("UPDATE")>> \in Seq(Message) /\ <<>> \in Seq(Message)
  BY MessagesMade, MessageSeqs DEF Whats
<1>4. CASE OkOrUnknown
  BY <1>1, <1>3, <1>4, ServerSays, Sides DEF OkOrUnknown, Goto, Typed, Placed
<1>5. CASE Update
  BY <1>1, <1>3, <1>5, ServerSays, Sides DEF Update, Goto, Typed, Placed, Contents
<1> QED  BY <1>2, <1>4, <1>5

\* The first acknowledgement of the END of a download.
LEMMA ReadsBye ==
    ASSUME Typed, ServerStep, pc[Client] # "exited",
           pc[Server] = "bye", Got(Server) = "ACK"
    PROVE  Says(<<>>) /\ pc'[Server] = "free"
<1>1. ~Silent /\ in[Server] # <<>>
  BY ReceiverAt
<1>2. DownloadEnds
  BY <1>1, ServerAt DEF Got, Raw
<1> QED
  BY <1>1, <1>2, ServerSays, MessageSeqs, Sides DEF DownloadEnds, Goto, Typed, Placed

\* What a step of the server leaves alone, whatever it is.
LEMMA ServerKeeps ==
    ASSUME Typed, ServerStep, pc[Server] \in Sending => cur[Server].status = "created"
    PROVE  /\ slips' = slips
           /\ conn' = "shut" => conn = "shut"
           /\ pc'[Server] \in Sending => cur'[Server].status = "created"
           /\ pc'[Server] = "lost" => Misread(Server)
<1>0. \A rest, ms : Write(Server, rest, ms) => (conn' = "shut" => conn = "shut")
  BY DEF Write
<1> USE <1>0, Sides DEF Typed, Placed, Contents, Goto, Sending, syncVars, Answer, Post
<1>1. CASE SendInfo(Server)
  <2>1. cur[Server].status = "created" /\ pc'[Server] = "send.info" /\ cur' = cur
    BY <1>1 DEF SendInfo, Comes
  <2>2. slips' = slips
    BY <1>1 DEF SendInfo
  <2>3. conn' = "shut" => conn = "shut"
    BY <1>1 DEF SendInfo
  <2> QED  BY <2>1, <2>2, <2>3
<1>2. CASE SendData(Server)
  <2>1. cur[Server].status = "created" /\ pc'[Server] = "send.end" /\ cur' = cur
    BY <1>2 DEF SendData, Comes
  <2>2. slips' = slips
    BY <1>2, <2>1 DEF SendData
  <2>3. conn' = "shut" => conn = "shut"
    BY <1>2 DEF SendData
  <2> QED  BY <2>1, <2>2, <2>3
<1>3. CASE SendEnds(Server)
  BY <1>3 DEF SendEnds
<1>4. CASE SendNext(Server)
  <2>1. PICK p \in todo[Server] :
          Post(Server, <<Command(Server, p)>>) /\ Begin(Server, p, "created")
    BY <1>4 DEF SendNext
  <2>2. cur'[Server].status = "created" /\ pc'[Server] = "send.cmd"
    BY <2>1 DEF Begin
  <2>3. conn' = "shut" => conn = "shut"
    BY <2>1
  <2>4. slips' = slips
    BY <1>4 DEF SendNext
  <2> QED  BY <2>2, <2>3, <2>4
<1>5. CASE SendEnd(Server)
  <2>1. conn' = "shut" => conn = "shut"
    BY <1>5 DEF SendEnd
  <2>2. slips' = slips /\ pc'[Server] = "bye"
    BY <1>5 DEF SendEnd
  <2> QED  BY <2>1, <2>2
<1>6. CASE ReceiveCommand(Server)
  BY <1>6 DEF ReceiveCommand
<1>7. CASE ReceiveInfo(Server)
  BY <1>7 DEF ReceiveInfo, Received
<1>8. CASE ReceiveData(Server)
  BY <1>8 DEF ReceiveData, Received
<1>9. CASE Misread(Server)
  BY <1>9 DEF Misread
<1>10. CASE HandleLogin
  BY <1>10 DEF HandleLogin
<1>11. CASE ParsePacket
  BY <1>11 DEF ParsePacket
<1>12. CASE OkOrUnknown
  BY <1>12 DEF OkOrUnknown
<1>13. CASE Update
  BY <1>13 DEF Update
<1>14. CASE Download
  BY <1>14 DEF Download
<1>15. CASE UploadEnds
  BY <1>15 DEF UploadEnds
<1>16. CASE DownloadEnds
  BY <1>16 DEF DownloadEnds
<1>17. CASE HangUp
  BY <1>17 DEF HangUp, Drop
<1> QED
  BY <1>1, <1>2, <1>3, <1>4, <1>5, <1>6, <1>7, <1>8, <1>9, <1>10, <1>11, <1>12, <1>13,
     <1>14, <1>15, <1>16, <1>17
  DEF ServerStep, Exchange

-----------------------------------------------------------------------------
(* What the server makes of each exchange *)

\* What holds at every step of the server: it has a message to read, unless it
\* sends its listing.
LEMMA ServerNow ==
    ASSUME Typed, ServerStep, pc[Client] # "exited"
    PROVE  /\ ~Silent /\ cur'[Client] = cur[Client] /\ pc'[Client] = pc[Client]
           /\ task'[Client] = task[Client]
           /\ \A pre, at : at # "list" => ~Joint(pre, at, <<>>)
<1>1. /\ ~Silent /\ cur'[Client] = cur[Client] /\ pc'[Client] = pc[Client]
      /\ task'[Client] = task[Client]
  BY ServerDoes DEF ClientSide
<1>2. pc[Server] # "list" => in[Server] # <<>>
  BY ReceiverAt
<1> QED  BY <1>1, <1>2 DEF Joint, Serves

LEMMA CommandServer ==
    ASSUME Typed, ServerStep, pc[Client] # "exited", NEW job, AtCommand(job),
           cur[Client].word \in {"FILE", "FILE_DEL"}
    PROVE  AtCommand(job)'
<1>1. /\ ~Silent /\ cur'[Client] = cur[Client]
      /\ Joint(<<>>, "recv", <<TheCommand>>) /\ For(job)
  BY ServerNow DEF AtCommand
<1>2. /\ in[Client] = <<>> /\ pc[Server] = "recv" /\ in[Server] = <<TheCommand>>
      /\ task[Server] = job
  BY <1>1 DEF Joint, Serves, For
<1>3. Got(Server) = cur[Client].word /\ Tail(in[Server]) = <<>>
  BY <1>2, Lists DEF Got, TheCommand, Text
<1>4. /\ Says(<<Ack("COMMAND")>>) /\ task' = task
      /\ pc'[Server] = "recv.info" /\ cur'[Server].word = cur[Client].word
  BY <1>2, <1>3, ReadsCommand
<1>5. in'[Server] = <<>> /\ in'[Client] = <<Ack("COMMAND")>>
  BY <1>2, <1>3, <1>4, Chains, MessagesMade DEF Says, Whats
<1> QED
  BY <1>1, <1>2, <1>4, <1>5 DEF AtCommand, Joint, Serves, For, Told

\* What reading an info comes to, for the info of the client's file.
LEMMA InfoRead ==
    ASSUME Typed, ServerStep, pc[Client] # "exited", NEW job \in {"update", "request"},
           For(job), Told, pc[Server] = "recv.info",
           in[Server] # <<>>, Head(in[Server]) = TheInfo
    PROVE  /\ \/ Says(Refusal) /\ pc'[Server] = Home(job)
              \/ Carries /\ Says(<<Ack("INFO")>>) /\ pc'[Server] = "recv.data"
              \/ ~Carries /\ Says(<<Ack("INFO"), Ack("DONE")>>) /\ pc'[Server] = Home(job)
           /\ task' = task /\ task[Server] = job
           /\ cur'[Server].word = cur[Client].word
<1>1. ~Silent
  BY ServerNow
<1>2. task[Server] = job /\ cur[Server].word = cur[Client].word
  BY <1>1 DEF For, Told
<1>3. Got(Server) = "INFO" /\ Head(in[Server]).status = cur[Client].status
  BY DEF Got, TheInfo, Info
<1>4. Received(Server) = Home(job)
  BY <1>2 DEF Received, Home
<1> QED  BY <1>2, <1>3, <1>4, ReadsInfo DEF Carries

LEMMA InfoServer ==
    ASSUME Typed, ServerStep, pc[Client] # "exited",
           NEW job \in {"update", "request"}, AtInfo(job)
    PROVE  AtInfo(job)'
<1>1. /\ ~Silent /\ cur'[Client] = cur[Client]
      /\ Joint(<<>>, "recv.info", <<TheInfo>>) /\ Told /\ For(job)
  BY ServerNow DEF AtInfo, Home
<1>2. in[Client] = <<>> /\ pc[Server] = "recv.info" /\ in[Server] = <<TheInfo>>
  BY <1>1 DEF Joint, Serves
<1>3. in[Server] # <<>> /\ Head(in[Server]) = TheInfo /\ Tail(in[Server]) = <<>>
  BY <1>2, Lists
<1>4. ASSUME NEW ms \in Seq(Message), Says(ms)
      PROVE  in'[Server] = <<>> /\ in'[Client] = ms
  BY <1>2, <1>3, <1>4, Joined DEF Says
<1>5. /\ Refusal \in Seq(Message) /\ <<Ack("INFO")>> \in Seq(Message)
      /\ <<Ack("INFO"), Ack("DONE")>> \in Seq(Message)
  BY MessagesMade, MessageSeqs DEF Whats, Words, Refusal
<1>6. /\ \/ Says(Refusal) /\ pc'[Server] = Home(job)
         \/ Carries /\ Says(<<Ack("INFO")>>) /\ pc'[Server] = "recv.data"
         \/ ~Carries /\ Says(<<Ack("INFO"), Ack("DONE")>>) /\ pc'[Server] = Home(job)
      /\ task'[Server] = job
  BY <1>1, <1>2, <1>3, InfoRead
<1>7. (Home(job))' = Home(job) /\ Carries' = Carries
  BY <1>1 DEF Home, Carries
<1>8. CASE Says(Refusal) /\ pc'[Server] = Home(job)
  BY <1>4, <1>5, <1>6, <1>7, <1>8 DEF AtInfo, For, Joint, Serves
<1>9. CASE Carries /\ Says(<<Ack("INFO")>>) /\ pc'[Server] = "recv.data"
  BY <1>4, <1>5, <1>6, <1>7, <1>9 DEF AtInfo, For, Joint, Serves
<1>10. CASE ~Carries /\ Says(<<Ack("INFO"), Ack("DONE")>>) /\ pc'[Server] = Home(job)
  BY <1>4, <1>5, <1>6, <1>7, <1>10 DEF AtInfo, For, Joint, Serves
<1> QED  BY <1>6, <1>8, <1>9, <1>10

LEMMA EndServer ==
    ASSUME Typed, ServerStep, pc[Client] # "exited",
           NEW job \in {"update", "request"}, AtEnd(job)
    PROVE  AtEnd(job)'
<1>1. ~Silent /\ For(job) /\ \E v \in Version : Joint(<<>>, "recv.data", <<Data(v)>>)
  BY ServerNow DEF AtEnd, Home
<1>2. PICK v \in Version : in[Client] = <<>> /\ pc[Server] = "recv.data"
                           /\ in[Server] = <<Data(v)>> /\ task[Server] = job
  BY <1>1 DEF Joint, Serves, For
<1>3. Got(Server) = "DATA" /\ Tail(in[Server]) = <<>>
  BY <1>2, Lists DEF Got, Data
<1>4. Says(<<Ack("DONE")>>) /\ pc'[Server] = Home(job) /\ task'[Server] = job
  BY <1>2, <1>3, ReadsData DEF Home, Received
<1>5. in'[Server] = <<>> /\ in'[Client] = <<Ack("DONE")>>
  BY <1>2, <1>3, <1>4, Chains, MessagesMade DEF Says, Whats
<1> QED  BY <1>4, <1>5 DEF AtEnd, Joint, Serves, For, Home

LEMMA GrantingServer ==
    ASSUME Typed, ServerStep, pc[Client] # "exited", Granting
    PROVE  Granting'
<1>1. ~Silent /\ Joint(<<>>, "choice", <<Text("UPDATE")>>)
  BY ServerNow DEF Granting
<1>2. in[Client] = <<>> /\ pc[Server] = "choice" /\ in[Server] = <<Text("UPDATE")>>
  BY <1>1 DEF Joint, Serves
<1>3. Got(Server) = "UPDATE" /\ Tail(in[Server]) = <<>>
  BY <1>2, Lists DEF Got, Text
<1>4. Says(<<Ack("UPDATE")>>) /\ pc'[Server] = "recv" /\ task'[Server] = "update"
  BY <1>2, <1>3, ReadsChoice
<1>5. in'[Server] = <<>> /\ in'[Client] = <<Ack("UPDATE")>>
  BY <1>2, <1>3, <1>4, Chains, MessagesMade DEF Says, Whats
<1> QED  BY <1>4, <1>5 DEF Granting, Joint, Serves, For

LEMMA EndOfAllServer ==
    ASSUME Typed, ServerStep, pc[Client] # "exited", AtEndOfAll
    PROVE  AtEndOfAll'
<1>1. ~Silent /\ Joint(<<>>, "recv", <<Text("END")>>) /\ For("update")
  BY ServerNow DEF AtEndOfAll
<1>2. in[Client] = <<>> /\ pc[Server] = "recv" /\ in[Server] = <<Text("END")>>
  BY <1>1 DEF Joint, Serves
<1>3. Got(Server) = "END" /\ Tail(in[Server]) = <<>>
  BY <1>2, Lists DEF Got, Text
<1>4. Says(<<Ack("END"), Ack("NOTHING")>>) /\ pc'[Server] = "free"
  BY <1>2, <1>3, ReadsEnd
<1>5. in'[Server] = <<>> /\ in'[Client] = <<Ack("END"), Ack("NOTHING")>>
  BY <1>2, <1>3, <1>4, Chains, MessagesMade DEF Says, Whats
<1> QED  BY <1>4, <1>5 DEF AtEndOfAll, Joint, Serves

\* The server reads how the synchronisation ended before it reads requests.
LEMMA FreesServer ==
    ASSUME Typed, ServerStep, pc[Client] # "exited",
           NEW ms \in Seq(Message), in[Client] = <<>>, Frees(ms)
    PROVE  \/ ms # <<>> /\ pc[Server] = "free" /\ in[Server] = ms
           \/ /\ in'[Client] = <<>> /\ pc'[Server] = "free"
              /\ in'[Server] = ms \/ in'[Server] = <<Ack("NOTHING")>> \o ms
<1>1. /\ ~Silent /\ Text("OK") \in Message /\ Ack("NOTHING") \in Message
      /\ Ack("END") \in Message
      /\ pc[Server] # "list" => in[Server] # <<>>
  BY ReceiverAt, MessagesMade DEF Words, Whats
<1>2. Says(<<>>) => in'[Client] = <<>>
  BY MessageSeqs, Joined DEF Says
<1>3. CASE Serves("free", ms)
  BY <1>1, <1>3 DEF Serves
<1>4. CASE Serves("choice", <<Text("OK")>> \o ms)
  <2>1. pc[Server] = "choice" /\ in[Server] = <<Text("OK")>> \o ms
    BY <1>1, <1>4 DEF Serves
  <2>2. Got(Server) = "OK" /\ Tail(in[Server]) = ms
    BY <1>1, <2>1, Joined DEF Got, Text
  <2> QED  BY <1>2, <2>1, <2>2, ReadsChoice DEF Says
<1>5. CASE Serves("bye", <<Ack("END"), Ack("NOTHING")>> \o ms)
  <2>1. pc[Server] = "bye" /\ in[Server] = <<Ack("END"), Ack("NOTHING")>> \o ms
    BY <1>1, <1>5 DEF Serves
  <2>2. <<Ack("END"), Ack("NOTHING")>> \in Seq(Message)
    BY <1>1, MessageSeqs
  <2>3. /\ <<Ack("END"), Ack("NOTHING")>> # <<>>
        /\ Head(<<Ack("END"), Ack("NOTHING")>>) = Ack("END")
        /\ Tail(<<Ack("END"), Ack("NOTHING")>>) = <<Ack("NOTHING")>>
    BY Lists
  <2>4. Head(in[Server]) = Ack("END") /\ Tail(in[Server]) = <<Ack("NOTHING")>> \o ms
    BY <2>1, <2>2, <2>3, Joined
  <2>5. Got(Server) = "ACK"
    BY <2>4 DEF Got, Ack, Reply
  <2> QED  BY <1>2, <2>1, <2>4, <2>5, ReadsBye DEF Says
<1>6. CASE Serves("free", <<Ack("NOTHING")>> \o ms)
  <2>1. pc[Server] = "free" /\ in[Server] = <<Ack("NOTHING")>> \o ms
    BY <1>1, <1>6 DEF Serves
  <2>2. Got(Server) = "ACK" /\ Tail(in[Server]) = ms
    BY <1>1, <2>1, Joined DEF Got, Ack, Reply
  <2> QED  BY <1>2, <2>1, <2>2, ReadsAck DEF Says
<1> QED  BY <1>3, <1>4, <1>5, <1>6 DEF Frees

\* A request that has come to the server.
LEMMA VerbRead ==
    ASSUME Typed, ServerStep, pc[Client] # "exited", pc[Server] = "free",
           in[Server] # <<>>, Head(in[Server]) = TheVerb
    PROVE  /\ Says(<<Ack("REQUEST")>>)
           /\ pc'[Server] = "recv" /\ task'[Server] = "request"
<1>1. cur[Client].status \in Statuses
  BY Sides DEF Typed, Contents
<1>2. Got(Server) = Verb[cur[Client].status]
  BY DEF Got, TheVerb, Text
<1> QED  BY <1>1, <1>2, ReadsVerb

\* Data read as a request: the server does not go on.
LEMMA JammedServer ==
    ASSUME Typed, ServerStep, pc[Client] # "exited", Jammed, slips' = slips
    PROVE  Jammed' /\ in'[Client] = in[Client]
<1>1. pc[Server] = "free" /\ Got(Server) = "DATA"
  BY ServerNow DEF Jammed, Got
<1>2. Misread(Server)
  BY <1>1, ReceiverAt
<1>3. pc'[Server] = "lost" /\ in' = in
  BY <1>2, Sides DEF Misread, Goto, Typed, Placed
<1> QED  BY <1>3 DEF Jammed, Silent

LEMMA IdleServer ==
    ASSUME Typed, ServerStep, pc[Client] # "exited", AtIdle, slips' = slips
    PROVE  AtIdle'
<1>1. CASE Frees(<<>>)
  <2>1. in[Client] = <<>>
    BY DEF AtIdle
  <2>2. /\ in'[Client] = <<>> /\ pc'[Server] = "free"
        /\ in'[Server] = <<>> \/ in'[Server] = <<Ack("NOTHING")>> \o <<>>
    BY <1>1, <2>1, MessageSeqs, FreesServer
  <2> QED  BY <2>2 DEF AtIdle, Frees, Serves
<1>2. CASE Jammed
  BY <1>2, JammedServer DEF AtIdle
<1> QED  BY <1>1, <1>2 DEF AtIdle

LEMMA RequestServer ==
    ASSUME Typed, ServerStep, pc[Client] # "exited", AtRequest, slips' = slips
    PROVE  AtRequest'
<1>1. ~Silent /\ cur'[Client] = cur[Client] /\ TheVerb' = TheVerb
  BY ServerNow DEF TheVerb
<1>2. TheVerb \in Message
  <2>1. cur[Client].status \in Statuses
    BY Sides DEF Typed, Contents
  <2>2. Verb[cur[Client].status] \in Words
    BY <2>1 DEF Verb, Statuses, Words
  <2> QED  BY <2>2, MessagesMade DEF TheVerb
<1>3. CASE in[Client] = <<>> /\ Frees(<<TheVerb>>)
  <2>1. <<TheVerb>> \in Seq(Message)
    BY <1>2, MessageSeqs
  <2>2. CASE pc[Server] = "free" /\ in[Server] = <<TheVerb>>
    <3>1. in[Server] # <<>> /\ Head(in[Server]) = TheVerb /\ Tail(in[Server]) = <<>>
      BY <2>2, Lists
    <3>2. /\ Says(<<Ack("REQUEST")>>) /\ pc'[Server] = "recv"
          /\ task'[Server] = "request"
      BY <2>2, <3>1, VerbRead
    <3>3. in'[Server] = <<>> /\ in'[Client] = <<Ack("REQUEST")>>
      BY <1>3, <3>1, <3>2, Chains, MessagesMade DEF Says, Whats
    <3> QED  BY <3>2, <3>3 DEF AtRequest, Joint, Serves, For
  <2>3. CASE /\ in'[Client] = <<>> /\ pc'[Server] = "free"
             /\ in'[Server] = <<TheVerb>> \/ in'[Server] = <<Ack("NOTHING")>> \o <<TheVerb>>
    <3>1. Frees(<<TheVerb>>)'
      BY <1>1, <2>3 DEF Frees, Serves
    <3> QED  BY <2>3, <3>1 DEF AtRequest
  <2> QED  BY <1>3, <2>1, <2>2, <2>3, FreesServer
<1>4. CASE in[Client] = <<>> /\ Jammed
  BY <1>4, JammedServer DEF AtRequest
<1>5. CASE Joint(<<Ack("REQUEST")>>, "recv", <<>>)
  BY <1>5, ServerNow
<1> QED  BY <1>3, <1>4, <1>5 DEF AtRequest

\* Data that is still to be received when the client goes on.
LEMMA DataRead ==
    ASSUME Typed, ServerStep, pc[Client] # "exited", NEW v \in Version,
           NEW s \in Seq(Message), pc[Server] = "recv.data", For("request"),
           in[Server] # <<>>, Head(in[Server]) = Data(v), Tail(in[Server]) = s
    PROVE  /\ in'[Server] = s /\ in'[Client] = in[Client] \o <<Ack("DONE")>>
           /\ pc'[Server] = "free"
<1>1. Got(Server) = "DATA" /\ task[Server] = "request"
  BY ServerNow DEF Got, Data, For
<1> QED  BY <1>1, ReadsData DEF Says, Received

\* The messages of an exchange.
LEMMA Exchanged ==
    ASSUME Typed
    PROVE  /\ TheVerb \in Message /\ TheInfo \in Message
           /\ cur[Client].word # "INFO" => TheCommand \in Message
           /\ \A v \in Version : Data(v) \in Message
           /\ \A of \in Whats : Ack(of) \in Message
           /\ Left \subseteq Message /\ Infos \subseteq Message
<1>1. cur[Client] \in [path : Path, status : Statuses, word : Words \cup {"INFO"}]
  BY Sides DEF Typed, Contents
<1>2. Verb[cur[Client].status] \in Words
  BY <1>1 DEF Verb, Statuses, Words
<1>3. TheVerb \in Message /\ TheInfo \in Message
  BY <1>1, <1>2, MessagesMade DEF TheVerb, TheInfo
<1>4. Left \subseteq Message /\ Infos \subseteq Message
  BY MessagesMade DEF Left, Infos, Whats, Words
<1> QED  BY <1>1, <1>3, <1>4, MessagesMade DEF TheCommand

LEMMA LateIdleServer ==
    ASSUME Typed, ServerStep, pc[Client] # "exited", LateIdle, slips' = slips
    PROVE  LateIdle'
<1>1. ~Silent
  BY ServerNow
<1>2. ASSUME NEW v \in Version, Joint(<<>>, "recv.data", <<Data(v)>>), For("request")
      PROVE  LateIdle'
  <2>1. in[Client] = <<>> /\ pc[Server] = "recv.data" /\ in[Server] = <<Data(v)>>
    BY <1>1, <1>2 DEF Joint, Serves
  <2>2. in[Server] # <<>> /\ Head(in[Server]) = Data(v) /\ Tail(in[Server]) = <<>>
    BY <2>1, Lists
  <2>3. /\ in'[Server] = <<>> /\ in'[Client] = in[Client] \o <<Ack("DONE")>>
        /\ pc'[Server] = "free"
    BY <1>2, <2>1, <2>2, DataRead, MessageSeqs
  <2>4. in'[Client] = <<Ack("DONE")>>
    BY <2>1, <2>3, Chains, Exchanged DEF Whats
  <2> QED  BY <2>3, <2>4 DEF LateIdle, Left, Joint, Serves
<1>3. ASSUME NEW d \in Left, in[Client] = <<d>>, Jammed
      PROVE  LateIdle'
  BY <1>3, JammedServer DEF LateIdle
<1>4. \A d : ~Joint(<<d>>, "free", <<>>)
  BY ServerNow
<1> QED  BY <1>2, <1>3, <1>4 DEF LateIdle

LEMMA LateRequestServer ==
    ASSUME Typed, ServerStep, pc[Client] # "exited", LateRequest, slips' = slips
    PROVE  LateRequest'
<1>1. ~Silent /\ cur'[Client] = cur[Client] /\ TheVerb' = TheVerb
  BY ServerNow DEF TheVerb
<1>2. ASSUME NEW d \in Left, Joint(<<d>>, "free", <<TheVerb>>)
      PROVE  LateRequest'
  <2>1. in[Client] = <<d>> /\ pc[Server] = "free" /\ in[Server] = <<TheVerb>>
    BY <1>1, <1>2 DEF Joint, Serves
  <2>2. in[Server] # <<>> /\ Head(in[Server]) = TheVerb /\ Tail(in[Server]) = <<>>
    BY <2>1, Lists
  <2>3. /\ Says(<<Ack("REQUEST")>>) /\ pc'[Server] = "recv"
        /\ task'[Server] = "request"
    BY <2>1, <2>2, VerbRead
  <2>4. in'[Server] = <<>> /\ in'[Client] = <<d, Ack("REQUEST")>>
    BY <2>1, <2>2, <2>3, Chains, Exchanged DEF Says, Whats
  <2> QED  BY <2>3, <2>4 DEF LateRequest, Joint, Serves, For
<1>3. ASSUME NEW v \in Version, Joint(<<>>, "recv.data", <<Data(v), TheVerb>>),
             For("request")
      PROVE  LateRequest'
  <2>1. /\ in[Client] = <<>> /\ pc[Server] = "recv.data"
        /\ in[Server] = <<Data(v), TheVerb>>
    BY <1>1, <1>3 DEF Joint, Serves
  <2>2. /\ in[Server] # <<>> /\ Head(in[Server]) = Data(v)
        /\ Tail(in[Server]) = <<TheVerb>>
    BY <2>1, Lists
  <2>3. <<TheVerb>> \in Seq(Message)
    BY Exchanged, MessageSeqs
  <2>4. /\ in'[Server] = <<TheVerb>> /\ in'[Client] = in[Client] \o <<Ack("DONE")>>
        /\ pc'[Server] = "free"
    BY <1>3, <2>1, <2>2, <2>3, DataRead
  <2>5. in'[Client] = <<Ack("DONE")>>
    BY <2>1, <2>4, Chains, Exchanged DEF Whats
  <2> QED  BY <1>1, <2>4, <2>5 DEF LateRequest, Left, Joint, Serves
<1>4. ASSUME NEW d \in Left, in[Client] = <<d>>, Jammed
      PROVE  LateRequest'
  BY <1>4, JammedServer DEF LateRequest
<1>5. \A d : ~Joint(<<d, Ack("REQUEST")>>, "recv", <<>>)
  BY ServerNow
<1> QED  BY <1>2, <1>3, <1>4, <1>5 DEF LateRequest

LEMMA LateCommandServer ==
    ASSUME Typed, ServerStep, pc[Client] # "exited", LateCommand, slips' = slips,
           cur[Client].word \in {"FILE", "FILE_DEL"}
    PROVE  LateCommand'
<1>1. ~Silent /\ cur'[Client] = cur[Client] /\ TheCommand' = TheCommand
  BY ServerNow DEF TheCommand
<1>2. CASE Joint(<<>>, "free", <<TheVerb, TheCommand>>)
  <2>1. in[Client] = <<>> /\ pc[Server] = "free" /\ in[Server] = <<TheVerb, TheCommand>>
    BY <1>1, <1>2 DEF Joint, Serves
  <2>2. /\ in[Server] # <<>> /\ Head(in[Server]) = TheVerb
        /\ Tail(in[Server]) = <<TheCommand>>
    BY <2>1, Lists
  <2>3. /\ Says(<<Ack("REQUEST")>>) /\ pc'[Server] = "recv"
        /\ task'[Server] = "request"
    BY <2>1, <2>2, VerbRead
  <2>4. in'[Server] = <<TheCommand>> /\ in'[Client] = <<Ack("REQUEST")>>
    BY <2>1, <2>2, <2>3, Chains, Exchanged DEF Says, Whats
  <2> QED  BY <1>1, <2>3, <2>4 DEF LateCommand, Joint, Serves, For
<1>3. CASE Joint(<<Ack("REQUEST")>>, "recv", <<TheCommand>>) /\ For("request")
  <2>1. /\ in[Client] = <<Ack("REQUEST")>> /\ pc[Server] = "recv"
        /\ in[Server] = <<TheCommand>> /\ task[Server] = "request"
    BY <1>1, <1>3 DEF Joint, Serves, For
  <2>2. Got(Server) = cur[Client].word /\ Tail(in[Server]) = <<>>
    BY <2>1, Lists DEF Got, TheCommand, Text
  <2>3. /\ Says(<<Ack("COMMAND")>>) /\ task' = task
        /\ pc'[Server] = "recv.info" /\ cur'[Server].word = cur[Client].word
    BY <2>1, <2>2, ReadsCommand
  <2>4. in'[Server] = <<>> /\ in'[Client] = <<Ack("REQUEST"), Ack("COMMAND")>>
    BY <2>1, <2>2, <2>3, Chains, Exchanged DEF Says, Whats
  <2> QED  BY <1>1, <2>1, <2>3, <2>4 DEF LateCommand, Joint, Serves, For, Told
<1>4. CASE in[Client] = <<>> /\ Jammed
  BY <1>4, JammedServer DEF LateCommand
<1>5. ~Joint(<<Ack("REQUEST"), Ack("COMMAND")>>, "recv.info", <<>>)
  BY ServerNow
<1> QED  BY <1>2, <1>3, <1>4, <1>5 DEF LateCommand

LEMMA LateInfoServer ==
    ASSUME Typed, ServerStep, pc[Client] # "exited", LateInfo, slips' = slips,
           cur[Client].word \in {"FILE", "FILE_DEL"}
    PROVE  LateInfo'
<1>1. /\ ~Silent /\ cur'[Client] = cur[Client] /\ TheInfo' = TheInfo
      /\ Carries' = Carries
  BY ServerNow DEF TheInfo, Carries
<1>2. CASE Joint(<<>>, "recv", <<TheCommand, TheInfo>>) /\ For("request")
  <2>1. /\ in[Client] = <<>> /\ pc[Server] = "recv"
        /\ in[Server] = <<TheCommand, TheInfo>> /\ task[Server] = "request"
    BY <1>1, <1>2 DEF Joint, Serves, For
  <2>2. Got(Server) = cur[Client].word /\ Tail(in[Server]) = <<TheInfo>>
    BY <2>1, Lists DEF Got, TheCommand, Text
  <2>3. /\ Says(<<Ack("COMMAND")>>) /\ task' = task
        /\ pc'[Server] = "recv.info" /\ cur'[Server].word = cur[Client].word
    BY <2>1, <2>2, ReadsCommand
  <2>4. in'[Server] = <<TheInfo>> /\ in'[Client] = <<Ack("COMMAND")>>
    BY <2>1, <2>2, <2>3, Chains, Exchanged DEF Says, Whats
  <2> QED  BY <1>1, <2>1, <2>3, <2>4 DEF LateInfo, Joint, Serves, For, Told
<1>3. CASE Joint(<<Ack("COMMAND")>>, "recv.info", <<TheInfo>>) /\ For("request") /\ Told
  <2>1. /\ in[Client] = <<Ack("COMMAND")>> /\ pc[Server] = "recv.info"
        /\ in[Server] = <<TheInfo>>
    BY <1>1, <1>3 DEF Joint, Serves
  <2>2. in[Server] # <<>> /\ Head(in[Server]) = TheInfo /\ Tail(in[Server]) = <<>>
    BY <2>1, Lists
  <2>3. /\ \/ Says(Refusal) /\ pc'[Server] = "free"
           \/ Carries /\ Says(<<Ack("INFO")>>) /\ pc'[Server] = "recv.data"
           \/ ~Carries /\ Says(<<Ack("INFO"), Ack("DONE")>>) /\ pc'[Server] = "free"
        /\ task'[Server] = "request"
    BY <1>3, <2>1, <2>2, InfoRead DEF Home
  <2>4. CASE Carries /\ Says(<<Ack("INFO")>>) /\ pc'[Server] = "recv.data"
    <3>1. in'[Server] = <<>> /\ in'[Client] = <<Ack("COMMAND"), Ack("INFO")>>
      BY <2>1, <2>2, <2>4, Chains, Exchanged DEF Says, Whats
    <3> QED  BY <1>1, <2>3, <2>4, <3>1 DEF LateInfo, Joint, Serves, For
  <2>5. ASSUME NEW r \in Infos, Says(<<r, Ack("DONE")>>), pc'[Server] = "free"
        PROVE  LateInfo'
    <3>1. r \in Message /\ Ack("COMMAND") \in Message /\ Ack("DONE") \in Message
      BY Exchanged DEF Whats
    <3>2. <<Ack("COMMAND")>> \o <<r, Ack("DONE")>> = <<Ack("COMMAND"), r, Ack("DONE")>>
      BY <3>1, Chains
    <3>3. in'[Server] = <<>> /\ in'[Client] = <<Ack("COMMAND"), r, Ack("DONE")>>
      BY <2>1, <2>2, <2>5, <3>2 DEF Says
    <3> QED  BY <2>5, <3>3 DEF LateInfo, Joint, Serves
  <2> QED  BY <2>3, <2>4, <2>5 DEF Infos, Refusal
<1>4. ~Joint(<<Ack("COMMAND"), Ack("INFO")>>, "recv.data", <<>>)
  BY ServerNow
<1>5. \A r : ~Joint(<<Ack("COMMAND"), r, Ack("DONE")>>, "free", <<>>)
  BY ServerNow
<1> QED  BY <1>2, <1>3, <1>4, <1>5 DEF LateInfo

LEMMA LateEndServer ==
    ASSUME Typed, ServerStep, pc[Client] # "exited", LateEnd, slips' = slips, Late
    PROVE  LateEnd'
<1>1. /\ ~Silent /\ cur'[Client] = cur[Client] /\ TheInfo' = TheInfo
      /\ slips' # {}
  BY ServerNow DEF TheInfo, Late
<1>2. ASSUME NEW s \in Seq(Message), Joint(<<>>, "recv.info", <<TheInfo>> \o s),
             For("request"), Told,
             s = <<>> \/ (cur[Client].word = "FILE" /\ \E v \in Version : s = <<Data(v)>>),
             s = <<>> => cur[Client].word # "FILE"
      PROVE  LateEnd'
  <2>1. /\ in[Client] = <<>> /\ pc[Server] = "recv.info"
        /\ in[Server] = <<TheInfo>> \o s
    BY <1>1, <1>2 DEF Joint, Serves
  <2>2. in[Server] # <<>> /\ Head(in[Server]) = TheInfo /\ Tail(in[Server]) = s
    BY <2>1, Joined, Exchanged
  <2>3. /\ \/ Says(Refusal) /\ pc'[Server] = "free"
           \/ Carries /\ Says(<<Ack("INFO")>>) /\ pc'[Server] = "recv.data"
           \/ ~Carries /\ Says(<<Ack("INFO"), Ack("DONE")>>) /\ pc'[Server] = "free"
        /\ task'[Server] = "request"
    BY <1>2, <2>1, <2>2, InfoRead DEF Home
  <2>4. CASE Carries /\ Says(<<Ack("INFO")>>) /\ pc'[Server] = "recv.data"
    <3>1. in'[Server] = s /\ in'[Client] = <<Ack("INFO")>>
      BY <2>1, <2>2, <2>4, Chains, Exchanged DEF Says, Whats
    <3> QED  BY <1>2, <2>3, <2>4, <3>1 DEF LateEnd, Joint, Serves, For, Carries
  <2>5. ASSUME NEW r \in Infos, Says(<<r, Ack("DONE")>>), pc'[Server] = "free"
        PROVE  LateEnd'
    <3>1. in'[Server] = s /\ in'[Client] = <<r, Ack("DONE")>>
      BY <2>1, <2>2, <2>5, Chains, Exchanged DEF Says, Whats
    <3>2. CASE s = <<>>
      BY <2>5, <3>1, <3>2 DEF LateEnd, Joint, Serves
    <3>3. CASE \E v \in Version : s = <<Data(v)>>
      <4>1. s # <<>> /\ Head(s).w = "DATA"
        BY <3>3, Lists DEF Data
      <4>2. Jammed'
        BY <1>1, <2>5, <3>1, <4>1 DEF Jammed
      <4> QED  BY <3>1, <4>2 DEF LateEnd
    <3> QED  BY <1>2, <3>2, <3>3
  <2> QED  BY <2>3, <2>4, <2>5 DEF Infos, Refusal
<1>3. ASSUME NEW v \in Version, Joint(<<>>, "recv.info", <<TheInfo, Data(v)>>),
             For("request"), Told, cur[Client].word = "FILE"
      PROVE  LateEnd'
  <2>1. PICK s \in Seq(Message) : s = <<Data(v)>>
    BY Exchanged, MessageSeqs
  <2>2. <<TheInfo, Data(v)>> = <<TheInfo>> \o s /\ s # <<>>
    BY <2>1, Chains, Exchanged, Lists
  <2> QED  BY <1>2, <1>3, <2>1, <2>2
<1>4. CASE /\ Joint(<<>>, "recv.info", <<TheInfo>>)
           /\ For("request") /\ Told /\ cur[Client].word # "FILE"
  <2>1. <<TheInfo>> = <<TheInfo>> \o <<>> /\ <<>> \in Seq(Message)
    BY Chains, Exchanged, MessageSeqs
  <2> QED  BY <1>2, <1>4, <2>1
<1>5. ASSUME NEW v \in Version, Joint(<<Ack("INFO")>>, "recv.data", <<Data(v)>>),
             For("request")
      PROVE  LateEnd'
  <2>1. /\ in[Client] = <<Ack("INFO")>> /\ pc[Server] = "recv.data"
        /\ in[Server] = <<Data(v)>>
    BY <1>1, <1>5 DEF Joint, Serves
  <2>2. in[Server] # <<>> /\ Head(in[Server]) = Data(v) /\ Tail(in[Server]) = <<>>
    BY <2>1, Lists
  <2>3. /\ in'[Server] = <<>> /\ in'[Client] = in[Client] \o <<Ack("DONE")>>
        /\ pc'[Server] = "free"
    BY <1>5, <2>1, <2>2, DataRead, MessageSeqs
  <2>4. in'[Client] = <<Ack("INFO"), Ack("DONE")>>
    BY <2>1, <2>3, Chains, Exchanged DEF Whats
  <2> QED  BY <2>3, <2>4 DEF LateEnd, Infos, Joint, Serves
<1>6. ASSUME NEW r \in Infos, in[Client] = <<r, Ack("DONE")>>, Jammed
      PROVE  LateEnd'
  BY <1>6, JammedServer DEF LateEnd
<1>7. \A r : ~Joint(<<r, Ack("DONE")>>, "free", <<>>)
  BY ServerNow
<1> QED  BY <1>3, <1>4, <1>5, <1>6, <1>7 DEF LateEnd

-----------------------------------------------------------------------------
(* What the server has to read is what it waits for *)

Fits(at, m) ==
    \/ at \in {"accept", "free", "choice", "recv"} /\ m.w \notin Raw
    \/ at = "recv.info" /\ m.w = "INFO"
    \/ at = "recv.data" /\ m.w = "DATA"
    \/ at \in Sending \cup {"bye"} /\ Answers(m, Expected[at])

\* But for data read as a request.
Hears ==
    ~Silent /\ in[Server] # <<>> =>
      Fits(pc[Server], Head(in[Server])) \/ (slips # {} /\ pc[Server] = "free")

LEMMA Hearing ==
    ASSUME NEW at, NEW ms, Serves(at, ms), ms # <<>> => Fits(at, Head(ms))
    PROVE  Hears
BY DEF Serves, Hears

LEMMA Fitting ==
    /\ \A w \in Words, at \in {"accept", "free", "choice", "recv"} : Fits(at, Text(w))
    /\ \A of : Fits("free", Ack(of))
    /\ \A p, st : Fits("recv.info", Info(p, st))
    /\ \A v : Fits("recv.data", Data(v))
    /\ Fits("bye", Ack("END")) /\ Fits("send.cmd", Ack("COMMAND"))
    /\ Fits("send.info", Ack("INFO")) /\ Fits("send.end", Ack("DONE"))
    /\ Fits("send.info", Reply("PRESENT", "INFO"))
<1>1. \A w \in Words, at \in {"accept", "free", "choice", "recv"} : Fits(at, Text(w))
  BY DEF Fits, Text, Words, Raw
<1>2. \A of : Fits("free", Ack(of))
  BY DEF Fits, Ack, Reply, Raw
<1>3. (\A p, st : Fits("recv.info", Info(p, st))) /\ (\A v : Fits("recv.data", Data(v)))
  BY DEF Fits, Info, Data
<1>4. /\ Expected["bye"] = "END" /\ Expected["send.cmd"] = "COMMAND"
      /\ Expected["send.info"] = "INFO" /\ Expected["send.end"] = "DONE"
  BY DEF Expected, AwaitsReply
<1>5. (\A of : Answers(Ack(of), of)) /\ Answers(Reply("PRESENT", "INFO"), "INFO")
  BY DEF Answers, Ack
<1> QED  BY <1>1, <1>2, <1>3, <1>4, <1>5 DEF Fits, Sending

\* In a download.
LEMMA HearsDownload ==
    ASSUME IInv, Standing, freezed, pc[Client] # "exited"
    PROVE  Hears
<1> USE Hearing, Fitting, Lists
<1>1. Downloading /\ Fetching
  BY DEF IInv, Course, Joining, Fetching, Uploading, Watching
<1>2. \A ms : Coming(ms) => Hears
  BY DEF Coming, Downloads
<1>3. CASE pc[Client] = "download?"
  <2>1. CASE in[Client] = <<>> /\ Serves("choice", <<Text("DOWNLOAD")>>)
    BY <2>1 DEF Words
  <2> QED  BY <1>1, <1>2, <1>3, <2>1 DEF Downloading, Asked
<1>4. CASE pc[Client] = "recv"
  <2>1. CASE Downloads("send.end", <<Ack("DONE")>>)
    BY <2>1 DEF Downloads
  <2>2. CASE Downloads("send.info", Refusal)
    BY <2>2 DEF Downloads, Refusal
  <2>3. CASE Downloads("send.info", <<Ack("INFO"), Ack("DONE")>>)
    BY <2>3 DEF Downloads
  <2> QED  BY <1>1, <1>2, <1>4, <2>1, <2>2, <2>3 DEF Downloading, Receives
<1>5. CASE pc[Client] = "recv.info"
  <2>1. CASE Downloads("send.cmd", <<Ack("COMMAND")>>)
    BY <2>1 DEF Downloads
  <2>2. CASE Downloads("send.info", <<>>)
    BY <2>2 DEF Downloads
  <2> QED  BY <1>1, <1>5, <2>1, <2>2 DEF Downloading, ReceivesInfo
<1>6. CASE pc[Client] = "recv.data"
  <2>1. CASE Downloads("send.info", <<Ack("INFO")>>)
    BY <2>1 DEF Downloads
  <2>2. CASE Downloads("send.end", <<>>)
    BY <2>2 DEF Downloads
  <2> QED  BY <1>1, <1>6, <2>1, <2>2 DEF Downloading, ReceivesData
<1>7. CASE pc[Client] \in {"start", "sum"}
  BY <1>7 DEF Standing, Hears
<1> QED
  BY <1>1, <1>3, <1>4, <1>5, <1>6, <1>7 DEF Fetching, Receiving, Over, Standing

\* In an exchange of a file.
LEMMA HearsExchange ==
    ASSUME Typed, NEW job, cur[Client].word \in {"FILE", "FILE_DEL"},
           AtCommand(job) \/ AtInfo(job) \/ AtEnd(job)
    PROVE  Hears
<1> USE Hearing, Fitting, Lists
<1>1. CASE AtCommand(job)
  <2>1. CASE Serves("recv", <<TheCommand>>)
    BY <2>1 DEF TheCommand, Words
  <2> QED  BY <1>1, <2>1 DEF AtCommand, Joint
<1>2. CASE AtInfo(job)
  <2>1. CASE Serves("recv.info", <<TheInfo>>)
    BY <2>1 DEF TheInfo
  <2> QED  BY <1>2, <2>1 DEF AtInfo, Joint
<1>3. CASE AtEnd(job)
  BY <1>3 DEF AtEnd, Joint
<1> QED  BY <1>1, <1>2, <1>3

LEMMA HearsRequest ==
    ASSUME Typed, AtIdle \/ AtRequest
    PROVE  Hears
<1> USE Hearing, Fitting, Lists
<1>1. Jammed => Hears
  BY DEF Jammed, Hears
<1>2. TheVerb \in Message /\ Fits("free", TheVerb)
  <2>1. cur[Client].status \in Statuses
    BY Sides DEF Typed, Contents
  <2>2. Verb[cur[Client].status] \in Words
    BY <2>1 DEF Verb, Statuses, Words
  <2> QED  BY <2>2, Exchanged DEF TheVerb
<1>3. ASSUME NEW ms \in Seq(Message), Frees(ms), ms # <<>> => Fits("free", Head(ms))
      PROVE  Hears
  <2>1. /\ Text("OK") \in Message /\ Fits("choice", Text("OK"))
        /\ Ack("NOTHING") \in Message
    BY MessagesMade DEF Words, Whats
  <2>2. CASE Serves("choice", <<Text("OK")>> \o ms)
    <3>1. Head(<<Text("OK")>> \o ms) = Text("OK")
      BY <2>1, Joined
    <3>2. ASSUME NEW s, Serves("choice", s), Head(s) = Text("OK")
          PROVE  Hears
      BY <2>1, <3>2, Hearing
    <3> QED  BY <2>2, <3>1, <3>2
  <2>3. CASE Serves("bye", <<Ack("END"), Ack("NOTHING")>> \o ms)
    <3>1. <<Ack("END"), Ack("NOTHING")>> \in Seq(Message)
      BY MessagesMade, MessageSeqs DEF Whats
    <3>2. /\ <<Ack("END"), Ack("NOTHING")>> # <<>>
          /\ Head(<<Ack("END"), Ack("NOTHING")>>) = Ack("END")
      BY Lists
    <3>3. Head(<<Ack("END"), Ack("NOTHING")>> \o ms) = Ack("END")
      BY <3>1, <3>2, Joined
    <3>4. ASSUME NEW s, Serves("bye", s), Head(s) = Ack("END")
          PROVE  Hears
      <4>1. Fits("bye", Head(s))
        BY <3>4, Fitting
      <4> QED  BY <3>4, <4>1, Hearing
    <3> QED  BY <2>3, <3>3, <3>4
  <2>4. CASE Serves("free", <<Ack("NOTHING")>> \o ms)
    <3>1. Head(<<Ack("NOTHING")>> \o ms) = Ack("NOTHING")
      BY <2>1, Joined
    <3>2. ASSUME NEW s, Serves("free", s), Head(s) = Ack("NOTHING")
          PROVE  Hears
      <4>1. Fits("free", Head(s))
        BY <3>2, Fitting
      <4> QED  BY <3>2, <4>1, Hearing
    <3> QED  BY <2>4, <3>1, <3>2
  <2> QED  BY <1>3, <2>2, <2>3, <2>4 DEF Frees
<1>4. <<>> \in Seq(Message) /\ <<TheVerb>> \in Seq(Message) /\ Head(<<TheVerb>>) = TheVerb
  BY <1>2, MessageSeqs
<1> QED  BY <1>1, <1>2, <1>3, <1>4 DEF AtIdle, AtRequest, Joint

LEMMA HearsLate ==
    ASSUME Typed,
           \/ LateIdle \/ LateRequest
           \/ /\ LateCommand \/ LateInfo \/ LateEnd
              /\ cur[Client].word \in {"FILE", "FILE_DEL"}
    PROVE  Hears
<1> USE Hearing, Lists
<1>1. Jammed => Hears
  BY DEF Jammed, Hears
<1>2. /\ Fits("free", TheVerb) /\ Fits("recv.info", TheInfo)
      /\ \A v : Fits("recv.data", Data(v))
      /\ cur[Client].word \in {"FILE", "FILE_DEL"} => Fits("recv", TheCommand)
  <2>1. cur[Client].status \in Statuses
    BY Sides DEF Typed, Contents
  <2>2. Verb[cur[Client].status] \in Words /\ {"FILE", "FILE_DEL"} \subseteq Words
    BY <2>1 DEF Verb, Statuses, Words
  <2> QED  BY <2>2, Fitting DEF TheVerb, TheCommand, TheInfo
<1>3. CASE LateIdle
  BY <1>1, <1>2, <1>3 DEF LateIdle, Joint
<1>4. CASE LateRequest
  <2>1. ASSUME NEW v, Serves("recv.data", <<Data(v), TheVerb>>)
        PROVE  Hears
    <3>1. Fits("recv.data", Head(<<Data(v), TheVerb>>))
      BY <1>2
    <3> QED  BY <2>1, <3>1
  <2>2. Serves("free", <<TheVerb>>) \/ Serves("recv", <<>>) => Hears
    BY <1>2
  <2> QED  BY <1>1, <1>4, <2>1, <2>2 DEF LateRequest, Joint
<1>5. CASE LateCommand /\ cur[Client].word \in {"FILE", "FILE_DEL"}
  BY <1>1, <1>2, <1>5 DEF LateCommand, Joint
<1>6. CASE LateInfo /\ cur[Client].word \in {"FILE", "FILE_DEL"}
  BY <1>1, <1>2, <1>6 DEF LateInfo, Joint
<1>7. CASE LateEnd
  BY <1>1, <1>2, <1>7 DEF LateEnd, Joint
<1> QED  BY <1>3, <1>4, <1>5, <1>6, <1>7

\* While the server is there: up to the comparison, in an upload, a download or
\* the requests.
LEMMA ServerHears ==
    ASSUME IInv, Dialogue, faults = 0
    PROVE  Hears
<1> USE Hearing, Fitting, Lists
<1>0. Typed /\ Standing
  BY DEF IInv, Dialogue
<1>1. CASE pc[Client] = "exited"
  BY <1>0, <1>1 DEF Standing
<1>2. CASE Joining /\ pc[Client] \in {"connect", "login", "logged?", "start", "sum"}
  <2>1. Serves("accept", <<>>) => Hears
    OBVIOUS
  <2>2. Serves("free", <<>>) => Hears
    OBVIOUS
  <2>3. Serves("choice", <<>>) => Hears
    OBVIOUS
  <2>4. Serves("accept", <<Text("LOGIN")>>) => Hears
    BY DEF Words
  <2>5. Serves("free", <<Text("SYNC")>>) => Hears
    BY DEF Words
  <2> QED
    BY <1>2, <2>1, <2>2, <2>3, <2>4, <2>5 DEF IInv, Entering, Joining
<1>3. CASE Joining /\ pc[Client] = "update?"
  <2>1. Serves("choice", <<Text("UPDATE")>>) => Hears
    BY DEF Words
  <2> QED  BY <1>3, <2>1 DEF Dialogue, Granting, Joint
<1>4. CASE Fetching /\ pc[Client] # "exited"
  BY <1>0, <1>4, HearsDownload DEF Fetching
<1>5. CASE Uploading /\ pc[Client] # "exited"
  <2>1. Uploads
    BY <1>5 DEF Dialogue, Uploading
  <2>2. CASE pc[Client] \in Sending
    BY <1>0, <2>1, <2>2, HearsExchange DEF Standing, Uploads, Sending
  <2>3. CASE pc[Client] = "list"
    BY <2>1, <2>3 DEF Uploads, Joint
  <2>4. CASE pc[Client] = "end?"
    <3>1. Serves("recv", <<Text("END")>>) => Hears
      BY DEF Words
    <3> QED  BY <2>1, <2>4, <3>1 DEF Uploads, AtEndOfAll, Joint
  <2> QED  BY <1>0, <1>5, <2>2, <2>3, <2>4 DEF Uploading, Over, Standing
<1>6. CASE Watching /\ pc[Client] # "exited"
  <2>1. IF Late THEN LateRequests ELSE Requests
    BY <1>6 DEF Dialogue, Watching
  <2>2. pc[Client] \in Sending \cup {"idle", "request?"}
    BY <1>0, <1>6 DEF Watching, Over, Standing
  <2>3. CASE ~Late
    <3>1. Jammed => Hears
      BY DEF Jammed, Hears
    <3> QED
      BY <1>0, <2>1, <2>2, <2>3, <3>1, HearsExchange, HearsRequest
      DEF Requests, Standing, Sending
  <2>4. CASE Late
    <3>1. pc[Client] \in Sending => cur[Client].word \in {"FILE", "FILE_DEL"}
      BY <1>0 DEF Standing
    <3> QED
      BY <1>0, <2>1, <2>2, <2>4, <3>1, HearsLate DEF LateRequests, Sending
  <2> QED  BY <2>3, <2>4
<1> QED
  BY <1>0, <1>1, <1>2, <1>3, <1>4, <1>5, <1>6
  DEF IInv, Course, Joining, Over, Standing

-----------------------------------------------------------------------------
(* The steps of the server, and what stops it *)

LEMMA StandingServer ==
    ASSUME IInv, Dialogue, faults = 0, ServerStep
    PROVE  Standing' /\ slips' = slips
<1>1. Typed /\ Standing /\ ~Silent
  BY ServerDoes DEF IInv, Dialogue
<1>2. UNCHANGED ClientSide
  BY <1>1, ServerDoes
<1>3. /\ slips' = slips /\ (conn' = "shut" => conn = "shut")
      /\ pc'[Server] \in Sending => cur'[Server].status = "created"
      /\ pc'[Server] = "lost" => Misread(Server)
  BY <1>1, ServerKeeps DEF Standing
<1>4. Misread(Server) => slips # {}
  <2>1. SUFFICES ASSUME Misread(Server) PROVE slips # {}
    OBVIOUS
  <2>2. CASE pc[Server] = "free"
    BY <1>1, <2>1, <2>2, ServerHears DEF Hears, Fits, Misread, Got, Raw, Silent, Sending
  <2>3. CASE Fits(pc[Server], Head(in[Server]))
    <3>1. \A of : Answers(Head(in[Server]), of) => Got(Server) \notin Raw
      BY DEF Answers, Reply, Got, Raw
    <3> QED
      BY <2>1, <2>3, <3>1 DEF Fits, Misread, Got, Sending, AwaitsMessage, AwaitsReply, Raw
  <2> QED  BY <1>1, <2>1, <2>2, <2>3, ServerHears DEF Hears, Misread
<1>5. pc[Client] = "exited" => Serves("accept", <<>>)'
  <2>1. SUFFICES ASSUME pc[Client] = "exited" PROVE Serves("accept", <<>>)'
    OBVIOUS
  <2>2. pc[Server] = "accept" /\ in[Server] = <<>>
    BY <1>1, <2>1 DEF Standing, Serves
  <2>3. HangUp
    BY <2>2
    DEF ServerStep, Exchange, SendInfo, SendData, SendEnds, SendNext, SendEnd,
        ReceiveCommand, ReceiveInfo, ReceiveData, Misread, HandleLogin, ParsePacket,
        OkOrUnknown, Update, Download, UploadEnds, DownloadEnds, Comes
  <2>4. pc'[Server] = "gone"
    BY <1>1, <2>3, Sides DEF HangUp, Drop, Goto, Typed, Placed
  <2> QED  BY <2>4 DEF Serves, Silent
<1> QED
  BY <1>1, <1>2, <1>3, <1>4, <1>5 DEF Standing, ClientSide

LEMMA DialogueServer ==
    ASSUME IInv, Dialogue, ServerStep
    PROVE  Dialogue'
<1> SUFFICES ASSUME faults' = 0 PROVE Dialogue'
  BY DEF Dialogue
<1>1. Typed /\ UNCHANGED ClientSide
  BY ServerDoes DEF IInv
<1>2. faults = 0 /\ Standing /\ Standing' /\ slips' = slips
  BY <1>1, StandingServer DEF Dialogue, ClientSide
<1>3. /\ pc'[Client] = pc[Client] /\ task'[Client] = task[Client]
      /\ cur'[Client] = cur[Client] /\ Late' = Late
  BY <1>1, <1>2 DEF ClientSide, Late
<1>4. pc[Client] \in Sending => cur[Client].word \in {"FILE", "FILE_DEL"}
  BY <1>2 DEF Standing
<1>5. CASE pc[Client] = "exited"
  BY <1>2, <1>3, <1>5
  DEF Dialogue, Uploads, Requests, LateRequests, Sending
<1>6. CASE pc[Client] # "exited"
  <2>1. ASSUME pc[Client] = "update?" PROVE Granting'
    BY <1>1, <1>2, <1>6, <2>1, GrantingServer DEF Dialogue
  <2>2. ASSUME task[Client] = "update" PROVE Uploads'
    BY <1>1, <1>2, <1>3, <1>4, <1>6, <2>2, CommandServer, InfoServer, EndServer,
       EndOfAllServer, ServerNow
    DEF Dialogue, Uploads, Sending
  <2>3. ASSUME task[Client] = "request", ~Late PROVE Requests'
    <3>1. Requests
      BY <1>2, <2>3 DEF Dialogue
    <3>2. ASSUME pc[Client] = "send.end"
          PROVE  (AtEnd("request") \/ (in[Client] = <<Ack("DONE")>> /\ Jammed))'
      BY <1>1, <1>2, <1>6, <3>1, <3>2, EndServer, JammedServer DEF Requests
    <3> QED
      BY <1>1, <1>2, <1>3, <1>4, <1>6, <3>1, <3>2, IdleServer, RequestServer,
         CommandServer, InfoServer
      DEF Requests, Sending
  <2>4. ASSUME task[Client] = "request", Late PROVE LateRequests'
    <3>1. LateRequests
      BY <1>2, <2>4 DEF Dialogue
    <3> QED
      BY <1>1, <1>2, <1>3, <1>4, <1>6, <2>4, <3>1, LateIdleServer, LateRequestServer,
         LateCommandServer, LateInfoServer, LateEndServer
      DEF LateRequests, Sending
  <2> QED  BY <1>2, <1>3, <2>1, <2>2, <2>3, <2>4 DEF Dialogue
<1> QED  BY <1>5, <1>6

\* A server that has stopped leaves what it has said.
LEMMA DialogueStops ==
    ASSUME Dialogue, Silent', pc'[Server] # "lost", faults' = 0 => faults = 0,
           UNCHANGED <<pc[Client], in[Client], cur[Client], task[Client], freezed,
                       first_syncrinize, slips>>
    PROVE  Dialogue'
<1> SUFFICES ASSUME faults' = 0 PROVE Dialogue'
  BY DEF Dialogue
<1> USE DEF Joint, Serves, For, Told
<1>1. Standing /\ Late' = Late /\ faults = 0
  BY DEF Dialogue, Late
<1>2. Standing'
  BY <1>1 DEF Standing, Silent, Sending
<1>3. (pc[Client] = "update?" => Granting) => (pc[Client] = "update?" => Granting)'
  BY DEF Granting
<1>4. /\ TheCommand' = TheCommand /\ TheInfo' = TheInfo /\ TheVerb' = TheVerb
      /\ Carries' = Carries /\ (Jammed => Jammed')
  BY DEF TheCommand, TheInfo, TheVerb, Carries, Jammed
<1>5. ASSUME NEW job
      PROVE  /\ AtCommand(job) => AtCommand(job)'
             /\ AtInfo(job) => AtInfo(job)'
             /\ AtEnd(job) => AtEnd(job)'
  BY <1>4 DEF AtCommand, AtInfo, AtEnd, Home
<1>6. Uploads => Uploads'
  <2>1. AtEndOfAll => AtEndOfAll'
    BY DEF AtEndOfAll
  <2> QED  BY <1>5, <2>1 DEF Uploads, Sending
<1>7. Requests => Requests'
  <2>1. AtIdle => AtIdle'
    BY <1>4 DEF AtIdle, Frees
  <2>2. AtRequest => AtRequest'
    BY <1>4 DEF AtRequest, Frees
  <2> QED  BY <1>4, <1>5, <2>1, <2>2 DEF Requests
<1>8. LateRequests => LateRequests'
  <2>1. LateIdle => LateIdle'
    BY <1>4 DEF LateIdle
  <2>2. LateRequest => LateRequest'
    BY <1>4 DEF LateRequest
  <2>3. LateCommand => LateCommand'
    BY <1>4 DEF LateCommand
  <2>4. LateInfo => LateInfo'
    BY <1>4 DEF LateInfo
  <2>5. LateEnd => LateEnd'
    BY <1>4 DEF LateEnd
  <2> QED  BY <2>1, <2>2, <2>3, <2>4, <2>5 DEF LateRequests
<1> QED  BY <1>1, <1>2, <1>3, <1>6, <1>7, <1>8 DEF Dialogue

-----------------------------------------------------------------------------
(* The client reads and writes *)

\* What the client has written, unless nobody reads it.
Sends(ms) == ~Silent => in'[Server] = in[Server] \o ms

\* What a step of the client leaves: the server where it is.
Stays ==
    /\ pc'[Server] = pc[Server] /\ cur'[Server] = cur[Server]
    /\ task'[Server] = task[Server] /\ (conn' = "shut" => conn = "shut")

LEMMA ClientSays ==
    ASSUME Typed, NEW ms \in Seq(Message), in[Client] # <<>>, Answer(Client, ms)
    PROVE  /\ in'[Client] = Tail(in[Client]) /\ Sends(ms)
           /\ conn' = "shut" => conn = "shut"
<1>1. Tail(in[Client]) \in Seq(Message)
  BY Reading, Sides DEF Typed
<1>2. conn' = "shut" => conn = "shut"
  BY DEF Answer, Write
<1> QED  BY <1>1, <1>2, ClientWrites DEF Answer, Sends

LEMMA ClientPosts ==
    ASSUME Typed, NEW ms \in Seq(Message), Post(Client, ms)
    PROVE  /\ in'[Client] = in[Client] /\ Sends(ms)
           /\ conn' = "shut" => conn = "shut"
<1>1. in[Client] \in Seq(Message)
  BY Reading, Sides DEF Typed
<1>2. conn' = "shut" => conn = "shut"
  BY DEF Post, Write
<1> QED  BY <1>1, <1>2, ClientWrites DEF Post, Sends

LEMMA StandingClient ==
    ASSUME Standing, Stays, slips \subseteq slips',
           pc'[Client] \notin {"lost", "exited", "start", "sum"},
           first_syncrinize' => first_syncrinize /\ slips' = slips,
           pc'[Client] \in Sending => cur'[Client].word \in {"FILE", "FILE_DEL"}
    PROVE  Standing'
BY DEF Standing, Stays, Silent, Serves

\* Data that has jammed the server stays in its way.
LEMMA StillJammed ==
    ASSUME Typed, Jammed, Stays, slips \subseteq slips', NEW ms \in Seq(Message), Sends(ms)
    PROVE  Jammed'
<1>1. slips' # {}
  BY DEF Jammed
<1>2. in[Server] \in Seq(Message)
  BY Reading, Sides DEF Typed
<1>3. ~Silent => /\ pc[Server] = "free" /\ in[Server] # <<>>
                 /\ Head(in[Server]).w = "DATA" /\ in'[Server] = in[Server] \o ms
  BY DEF Jammed, Sends
<1>4. ~Silent => in'[Server] # <<>> /\ Head(in'[Server]) = Head(in[Server])
  BY <1>2, <1>3, Joined
<1> QED  BY <1>1, <1>3, <1>4 DEF Jammed, Stays, Silent

\* In an exchange the client uploads or serves a request.
LEMMA SendingClient ==
    ASSUME IInv, Dialogue, faults = 0, pc[Client] \in Sending
    PROVE  /\ Typed /\ Standing
           /\ \/ task[Client] = "update" /\ Uploads /\ ~Late /\ first_syncrinize
              \/ task[Client] = "request" /\ ~first_syncrinize
                 /\ IF Late THEN LateRequests ELSE Requests
           /\ cur[Client].word \in {"FILE", "FILE_DEL"}
<1>1. Uploading \/ Watching
  BY DEF IInv, Course, Joining, Fetching, Uploading, Watching, Sending, Receiving, Over
<1>2. Typed /\ Standing
  BY DEF IInv, Dialogue
<1> QED  BY <1>1, <1>2 DEF Uploading, Watching, Dialogue, Late, Standing

LEMMA SentInfo ==
    ASSUME IInv, Dialogue, faults = 0, SendInfo(Client)
    PROVE  Dialogue'
<1>1. /\ pc[Client] = "send.cmd" /\ in[Client] # <<>> /\ Answer(Client, <<TheInfo>>)
      /\ UNCHANGED <<cur, task, slips, first_syncrinize>>
  BY DEF SendInfo, Comes, TheInfo, syncVars
<1>2. /\ Typed /\ Standing /\ cur[Client].word \in {"FILE", "FILE_DEL"}
      /\ \/ task[Client] = "update" /\ Uploads
         \/ task[Client] = "request" /\ IF Late THEN LateRequests ELSE Requests
  BY <1>1, SendingClient DEF Sending
<1>3. pc'[Client] = "send.info" /\ pc'[Server] = pc[Server]
  BY <1>2, Sides DEF SendInfo, Goto, Typed, Placed
<1>4. /\ TheInfo \in Message /\ TheCommand \in Message
      /\ Ack("REQUEST") \in Message /\ Ack("COMMAND") \in Message
  BY <1>2, Exchanged DEF Whats
<1>5. in'[Client] = Tail(in[Client]) /\ Sends(<<TheInfo>>) /\ Stays
  BY <1>1, <1>2, <1>3, <1>4, ClientSays, MessageSeqs DEF Stays
<1>6. Standing'
  BY <1>1, <1>2, <1>3, <1>5, StandingClient
<1>7. (~Silent <=> ~Silent') /\ TheInfo' = TheInfo /\ TheCommand' = TheCommand
  BY <1>1, <1>3 DEF Silent, TheInfo, TheCommand
<1>8. ASSUME NEW job, AtCommand(job)
      PROVE  AtInfo(job)'
  <2>1. For(job) /\ Joint(<<Ack("COMMAND")>>, "recv.info", <<>>) /\ Told
    BY <1>1, <1>8 DEF AtCommand, Joint
  <2>2. in'[Client] = <<>>
    BY <1>5, <2>1, Lists DEF Joint
  <2>3. ~Silent => in'[Server] = <<TheInfo>>
    BY <1>4, <1>5, <2>1, Chains DEF Joint, Serves, Sends
  <2> QED
    BY <1>1, <1>3, <1>7, <2>1, <2>2, <2>3 DEF AtInfo, Joint, Serves, For, Told
<1>9. ASSUME LateCommand, Late
      PROVE  LateInfo'
  <2>1. CASE Joint(<<Ack("REQUEST")>>, "recv", <<TheCommand>>) /\ For("request")
    <3>1. in'[Client] = <<>>
      BY <1>5, <2>1, Lists DEF Joint
    <3>2. ~Silent => in'[Server] = <<TheCommand, TheInfo>>
      BY <1>4, <1>5, <2>1, Chains DEF Joint, Serves, Sends
    <3> QED
      BY <1>1, <1>3, <1>7, <2>1, <3>1, <3>2 DEF LateInfo, Joint, Serves, For
  <2>2. CASE /\ Joint(<<Ack("REQUEST"), Ack("COMMAND")>>, "recv.info", <<>>)
             /\ For("request") /\ Told
    <3>1. in'[Client] = <<Ack("COMMAND")>>
      BY <1>5, <2>2, Lists DEF Joint
    <3>2. ~Silent => in'[Server] = <<TheInfo>>
      BY <1>4, <1>5, <2>2, Chains DEF Joint, Serves, Sends
    <3> QED
      BY <1>1, <1>3, <1>7, <2>2, <3>1, <3>2 DEF LateInfo, Joint, Serves, For, Told
  <2> QED  BY <1>1, <1>9, <2>1, <2>2 DEF LateCommand, Joint
<1>10. CASE task[Client] = "update" /\ Uploads
  <2>1. AtInfo("update")' /\ cur'[Client].status = "modified"
    BY <1>1, <1>8, <1>10 DEF Uploads, Sending
  <2> QED  BY <1>1, <1>3, <1>6, <1>10, <2>1 DEF Dialogue, Uploads, Sending
<1>11. CASE task[Client] = "request" /\ IF Late THEN LateRequests ELSE Requests
  <2>1. IF Late THEN LateInfo' ELSE AtInfo("request")'
    BY <1>1, <1>8, <1>9, <1>11 DEF LateRequests, Requests
  <2> QED  BY <1>1, <1>3, <1>6, <1>11, <2>1 DEF Dialogue, Requests, LateRequests, Late
<1> QED  BY <1>2, <1>10, <1>11

\* What SendData comes to.
SentOn(v) ==
    /\ pc'[Client] = "send.end" /\ Stays /\ in'[Client] = Tail(in[Client])
    /\ UNCHANGED <<cur, task, first_syncrinize>>
    /\ \/ /\ Got(Client) = "ACK" /\ cur[Client].word = "FILE" /\ Sends(<<Data(v)>>)
          /\ slips' = slips \cup IF cur[Client].status = "erased" THEN {"erased"} ELSE {}
       \/ /\ ~(Got(Client) = "ACK" /\ cur[Client].word = "FILE") /\ Sends(<<>>)
          /\ slips' = slips

LEMMA SendsOn ==
    ASSUME Typed, SendData(Client)
    PROVE  SentOn(dir[Client][cur[Client].path]) /\ dir[Client][cur[Client].path] \in Version
<1> DEFINE v    == dir[Client][cur[Client].path]
           data == Got(Client) = "ACK" /\ cur[Client].word = "FILE"
<1>1. v \in Version
  BY Sides DEF Typed, Contents
<1>2. <<Data(v)>> \in Seq(Message) /\ <<>> \in Seq(Message)
  BY <1>1, Exchanged, MessageSeqs
<1>3. /\ in[Client] # <<>> /\ Answer(Client, IF data THEN <<Data(v)>> ELSE <<>>)
      /\ slips' = slips \cup IF data /\ cur[Client].status = "erased" THEN {"erased"} ELSE {}
      /\ UNCHANGED <<cur, task, first_syncrinize>>
  BY DEF SendData, Comes
<1>4. pc'[Client] = "send.end" /\ pc'[Server] = pc[Server]
  BY Sides DEF SendData, Goto, Typed, Placed
<1> HIDE DEF v
<1>5. CASE data
  <2>1. Answer(Client, <<Data(v)>>)
    BY <1>3, <1>5
  <2>2. in'[Client] = Tail(in[Client]) /\ Sends(<<Data(v)>>) /\ (conn' = "shut" => conn = "shut")
    BY <1>2, <1>3, <2>1, ClientSays
  <2>3. SentOn(v)
    BY <1>3, <1>4, <1>5, <2>2 DEF SentOn, Stays
  <2> QED  BY <1>1, <2>3 DEF v
<1>6. CASE ~data
  <2>1. Answer(Client, <<>>)
    BY <1>3, <1>6
  <2>2. in'[Client] = Tail(in[Client]) /\ Sends(<<>>) /\ (conn' = "shut" => conn = "shut")
    BY <1>2, <1>3, <2>1, ClientSays
  <2>3. slips' = slips
    BY <1>3, <1>6
  <2>4. SentOn(v)
    BY <1>3, <1>4, <1>6, <2>2, <2>3 DEF SentOn, Stays
  <2> QED  BY <1>1, <2>4 DEF v
<1> QED  BY <1>5, <1>6

\* The end of a file whose info has been answered in time.
LEMMA SentInTime ==
    ASSUME Typed, NEW v \in Version, SentOn(v), in[Client] # <<>>,
           NEW job \in {"update", "request"}, AtInfo(job),
           job = "update" => cur[Client].status # "erased"
    PROVE  \/ AtEnd(job)'
           \/ job = "request" /\ in'[Client] = <<Ack("DONE")>> /\ Jammed'
<1>1. /\ pc'[Server] = pc[Server] /\ (~Silent <=> ~Silent') /\ For(job) /\ For(job)'
      /\ in'[Client] = Tail(in[Client])
  BY DEF SentOn, Stays, Silent, AtInfo, For
<1>2. Data(v) \in Message /\ Ack("DONE") \in Message
  BY Exchanged DEF Whats
<1>3. ASSUME NEW at, Sends(<<>>), Serves(at, <<>>)
      PROVE  Serves(at, <<>>)'
  BY <1>1, <1>3, MessageSeqs, Joined DEF Sends, Serves
<1>4. ASSUME NEW at, Sends(<<Data(v)>>), Serves(at, <<>>)
      PROVE  Serves(at, <<Data(v)>>)'
  BY <1>1, <1>2, <1>4, Chains DEF Sends, Serves
<1>5. CASE Joint(<<Ack("INFO")>>, "recv.data", <<>>) /\ Carries
  <2>1. Got(Client) = "ACK" /\ in'[Client] = <<>>
    BY <1>1, <1>5, Lists DEF Joint, Got, Ack, Reply
  <2>2. Sends(<<Data(v)>>)
    BY <1>5, <2>1 DEF SentOn, Carries
  <2> QED  BY <1>1, <1>4, <1>5, <2>1, <2>2 DEF AtEnd, Joint
<1>6. ASSUME NEW r, Joint(<<r, Ack("DONE")>>, Home(job), <<>>),
             Got(Client) = "ACK" /\ cur[Client].word = "FILE" =>
               cur[Client].status = "erased"
      PROVE  \/ AtEnd(job)'
             \/ job = "request" /\ in'[Client] = <<Ack("DONE")>> /\ Jammed'
  <2>1. in'[Client] = <<Ack("DONE")>> /\ Serves(Home(job), <<>>) /\ (Home(job))' = Home(job)
    BY <1>1, <1>6, Lists DEF Joint, Home
  <2>2. CASE ~(Got(Client) = "ACK" /\ cur[Client].word = "FILE")
    <3>1. Sends(<<>>)
      BY <2>2 DEF SentOn
    <3>2. Serves(Home(job), <<>>)'
      BY <1>3, <2>1, <3>1 DEF Home
    <3> QED  BY <1>1, <2>1, <3>2 DEF AtEnd, Joint
  <2>3. CASE Got(Client) = "ACK" /\ cur[Client].word = "FILE"
    <3>1. /\ Sends(<<Data(v)>>) /\ cur[Client].status = "erased" /\ slips' # {}
          /\ job = "request" /\ Home(job) = "free"
      BY <1>6, <2>3 DEF SentOn, Home
    <3>2. Serves("free", <<Data(v)>>)'
      BY <1>4, <2>1, <3>1
    <3>3. Jammed'
      BY <3>1, <3>2, Lists DEF Jammed, Serves, Data
    <3> QED  BY <2>1, <3>1, <3>3
  <2> QED  BY <2>2, <2>3
<1>7. CASE Joint(<<Ack("INFO"), Ack("DONE")>>, Home(job), <<>>) /\ ~Carries
  BY <1>6, <1>7 DEF Carries
<1>8. CASE Joint(Refusal, Home(job), <<>>)
  <2>1. Got(Client) # "ACK"
    BY <1>8, Lists DEF Joint, Got, Refusal, Reply
  <2> QED  BY <1>6, <1>8, <2>1 DEF Refusal
<1> QED  BY <1>5, <1>7, <1>8 DEF AtInfo, Joint

\* The same when the answers come late: an acknowledgement of the command is
\* taken for that of the info.
LEMMA SentLate ==
    ASSUME Typed, NEW v \in Version, SentOn(v), in[Client] # <<>>, LateInfo, Late,
           cur[Client].word \in {"FILE", "FILE_DEL"}
    PROVE  LateEnd'
<1>1. /\ pc'[Server] = pc[Server] /\ (~Silent <=> ~Silent')
      /\ in'[Client] = Tail(in[Client]) /\ slips' # {}
      /\ TheInfo' = TheInfo /\ cur' = cur
      /\ cur'[Server].word = cur[Server].word /\ task'[Server] = task[Server]
  BY DEF SentOn, Stays, Silent, TheInfo, Late
<1>2. Data(v) \in Message /\ TheInfo \in Message
  BY Exchanged
<1>3. For("request") => For("request")'
  BY <1>1 DEF For, Silent
<1>4. CASE Joint(<<Ack("COMMAND")>>, "recv.info", <<TheInfo>>) /\ For("request") /\ Told
  <2>1. Got(Client) = "ACK" /\ in'[Client] = <<>>
    BY <1>1, <1>4, Lists DEF Joint, Got, Ack, Reply
  <2>2. Told'
    BY <1>1, <1>4 DEF Told
  <2>3. CASE cur[Client].word = "FILE"
    <3>1. Sends(<<Data(v)>>)
      BY <2>1, <2>3 DEF SentOn
    <3>2. ~Silent => in'[Server] = <<TheInfo, Data(v)>>
      BY <1>2, <1>4, <3>1, Chains DEF Joint, Serves, Sends
    <3> QED
      BY <1>1, <1>3, <1>4, <2>1, <2>2, <2>3, <3>2 DEF LateEnd, Joint, Serves
  <2>4. CASE cur[Client].word # "FILE"
    <3>1. Sends(<<>>)
      BY <2>4 DEF SentOn
    <3>2. ~Silent => in'[Server] = <<TheInfo>>
      BY <1>2, <1>4, <3>1, Chains DEF Joint, Serves, Sends
    <3> QED
      BY <1>1, <1>3, <1>4, <2>1, <2>2, <2>4, <3>2 DEF LateEnd, Joint, Serves
  <2> QED  BY <2>3, <2>4
<1>5. CASE /\ Joint(<<Ack("COMMAND"), Ack("INFO")>>, "recv.data", <<>>)
           /\ For("request") /\ Carries
  <2>1. Got(Client) = "ACK" /\ in'[Client] = <<Ack("INFO")>>
    BY <1>1, <1>5, Lists DEF Joint, Got, Ack, Reply
  <2>2. Sends(<<Data(v)>>)
    BY <1>5, <2>1 DEF SentOn, Carries
  <2>3. ~Silent => in'[Server] = <<Data(v)>>
    BY <1>2, <1>5, <2>2, Chains DEF Joint, Serves, Sends
  <2> QED  BY <1>1, <1>3, <1>5, <2>1, <2>3 DEF LateEnd, Joint, Serves
<1>6. ASSUME NEW r \in Infos, Joint(<<Ack("COMMAND"), r, Ack("DONE")>>, "free", <<>>)
      PROVE  LateEnd'
  <2>1. Got(Client) = "ACK" /\ in'[Client] = <<r, Ack("DONE")>>
    BY <1>1, <1>6, Chains DEF Joint, Got, Ack, Reply
  <2>2. CASE cur[Client].word = "FILE"
    <3>1. Sends(<<Data(v)>>)
      BY <2>1, <2>2 DEF SentOn
    <3>2. ~Silent => pc[Server] = "free" /\ in'[Server] = <<Data(v)>>
      BY <1>2, <1>6, <3>1, Chains DEF Joint, Serves, Sends
    <3>3. ~Silent => /\ pc'[Server] = "free" /\ in'[Server] # <<>>
                     /\ Head(in'[Server]).w = "DATA"
      <4>1. <<Data(v)>> # <<>> /\ Head(<<Data(v)>>) = Data(v)
        BY Lists
      <4>2. Data(v).w = "DATA"
        BY DEF Data
      <4> QED  BY <1>1, <3>2, <4>1, <4>2
    <3>4. Jammed'
      BY <1>1, <3>3 DEF Jammed
    <3> QED  BY <2>1, <3>4 DEF LateEnd
  <2>3. CASE cur[Client].word # "FILE"
    <3>1. Sends(<<>>)
      BY <2>3 DEF SentOn
    <3>2. ~Silent => pc[Server] = "free" /\ in'[Server] = <<>>
      BY <1>6, <3>1, Chains DEF Joint, Serves, Sends
    <3> QED  BY <1>1, <2>1, <3>2 DEF LateEnd, Joint, Serves
  <2> QED  BY <2>2, <2>3
<1>7. ~Joint(<<>>, "recv", <<TheCommand, TheInfo>>)
  BY DEF Joint
<1> QED  BY <1>4, <1>5, <1>6, <1>7 DEF LateInfo

LEMMA SentData ==
    ASSUME IInv, Dialogue, faults = 0, SendData(Client)
    PROVE  Dialogue'
<1>1. pc[Client] = "send.info" /\ in[Client] # <<>>
  BY DEF SendData, Comes
<1>2. /\ Typed /\ Standing /\ cur[Client].word \in {"FILE", "FILE_DEL"}
      /\ \/ task[Client] = "update" /\ Uploads /\ ~Late /\ first_syncrinize
         \/ task[Client] = "request" /\ ~first_syncrinize
            /\ IF Late THEN LateRequests ELSE Requests
  BY <1>1, SendingClient DEF Sending
<1>3. PICK v \in Version : SentOn(v)
  BY <1>2, SendsOn
<1>4. /\ pc'[Client] = "send.end" /\ Stays /\ slips \subseteq slips' /\ cur' = cur
      /\ task' = task /\ first_syncrinize' = first_syncrinize
      /\ cur[Client].status # "erased" => slips' = slips
      /\ Late' = Late
  <2>1. slips' = slips \/ (cur[Client].status = "erased" /\ slips' = slips \cup {"erased"})
    BY <1>3 DEF SentOn
  <2>2. slips \subseteq slips' /\ (cur[Client].status # "erased" => slips' = slips)
        /\ Late' = Late
    BY <2>1 DEF Late
  <2> QED  BY <1>3, <2>2 DEF SentOn
<1>5. CASE task[Client] = "update" /\ Uploads /\ ~Late /\ first_syncrinize
  <2>1. cur[Client].status = "modified" /\ AtInfo("update")
    BY <1>1, <1>5 DEF Uploads, Sending
  <2>2. AtEnd("update")'
    BY <1>1, <1>2, <1>3, <2>1, SentInTime
  <2>3. Standing'
    BY <1>2, <1>4, <2>1, StandingClient
  <2> QED  BY <1>4, <1>5, <2>1, <2>2, <2>3 DEF Dialogue, Uploads
<1>6. CASE /\ task[Client] = "request" /\ ~first_syncrinize
           /\ IF Late THEN LateRequests ELSE Requests
  <2>1. Standing'
    BY <1>2, <1>4, <1>6, StandingClient
  <2>2. CASE Late
    <3>1. LateEnd'
      BY <1>1, <1>2, <1>3, <1>6, <2>2, SentLate DEF LateRequests
    <3> QED  BY <1>4, <1>6, <2>1, <2>2, <3>1 DEF Dialogue, LateRequests
  <2>3. CASE ~Late
    <3>1. AtInfo("request")
      BY <1>1, <1>6, <2>3 DEF Requests
    <3>2. AtEnd("request")' \/ (in'[Client] = <<Ack("DONE")>> /\ Jammed')
      BY <1>1, <1>2, <1>3, <3>1, SentInTime
    <3> QED  BY <1>4, <1>6, <2>1, <2>3, <3>2 DEF Dialogue, Requests
  <2> QED  BY <2>2, <2>3
<1> QED  BY <1>2, <1>5, <1>6

\* A file is over: the next one, or the next request.
LEMMA SentLast ==
    ASSUME IInv, Dialogue, faults = 0, SendEnds(Client)
    PROVE  Dialogue'
<1>1. /\ pc[Client] = "send.end" /\ in[Client] # <<>> /\ Answer(Client, <<>>)
      /\ UNCHANGED <<cur, task, slips, first_syncrinize>>
  BY DEF SendEnds, Comes, syncVars
<1>2. /\ Typed /\ Standing
      /\ \/ task[Client] = "update" /\ Uploads
         \/ task[Client] = "request" /\ IF Late THEN LateRequests ELSE Requests
  BY <1>1, SendingClient DEF Sending
<1>3. /\ pc'[Client] = IF task[Client] = "request" THEN "idle" ELSE "list"
      /\ pc'[Server] = pc[Server]
  BY <1>2, Sides DEF SendEnds, Goto, Typed, Placed
<1>4. in'[Client] = Tail(in[Client]) /\ Sends(<<>>) /\ Stays
  BY <1>1, <1>2, <1>3, ClientSays, MessageSeqs DEF Stays
<1>5. Standing'
  BY <1>1, <1>2, <1>3, <1>4, StandingClient DEF Sending
<1>6. ~Silent => in'[Server] = in[Server]
  <2>1. in[Server] \in Seq(Message)
    BY <1>2, Reading, Sides DEF Typed
  <2> QED  BY <1>4, <2>1, Joined DEF Sends
<1>7. /\ Silent' = Silent /\ (Jammed => Jammed')
      /\ \A job : For(job) => For(job)'
      /\ \A at, ms : Serves(at, ms) => Serves(at, ms)'
  BY <1>1, <1>3, <1>6 DEF Silent, Jammed, For, Serves
<1>8. CASE task[Client] = "update" /\ Uploads
  <2>1. For("update") /\ Joint(<<Ack("DONE")>>, "recv", <<>>)
    BY <1>1, <1>8 DEF Uploads, AtEnd, Home, Joint
  <2>2. in'[Client] = <<>>
    BY <1>4, <2>1, Lists DEF Joint
  <2>3. For("update")' /\ Joint(<<>>, "recv", <<>>)'
    BY <1>7, <2>1, <2>2 DEF Joint
  <2> QED  BY <1>1, <1>3, <1>5, <1>8, <2>3 DEF Dialogue, Uploads, Sending
<1>9. CASE task[Client] = "request" /\ Requests /\ ~Late
  <2>1. AtIdle'
    <3>1. CASE AtEnd("request")
      <4>1. Joint(<<Ack("DONE")>>, "free", <<>>)
        BY <1>1, <3>1 DEF AtEnd, Home, Joint
      <4>2. in'[Client] = <<>> /\ Serves("free", <<>>)'
        BY <1>4, <1>7, <4>1, Lists DEF Joint
      <4> QED  BY <4>2 DEF AtIdle, Frees
    <3>2. CASE in[Client] = <<Ack("DONE")>> /\ Jammed
      <4>1. in'[Client] = <<>> /\ Jammed'
        BY <1>4, <1>7, <3>2, Lists
      <4> QED  BY <4>1 DEF AtIdle
    <3> QED  BY <1>1, <1>9, <3>1, <3>2 DEF Requests
  <2> QED  BY <1>1, <1>3, <1>5, <1>9, <2>1 DEF Dialogue, Requests, Late
<1>10. CASE task[Client] = "request" /\ LateRequests /\ Late
  <2>1. LateEnd
    BY <1>1, <1>10 DEF LateRequests
  <2>2. ASSUME NEW v \in Version, Joint(<<Ack("INFO")>>, "recv.data", <<Data(v)>>),
               For("request")
        PROVE  LateIdle'
    <3>1. in'[Client] = <<>> /\ For("request")'
      BY <1>4, <1>7, <2>2, Lists DEF Joint
    <3>2. ~Silent => pc'[Server] = "recv.data" /\ in'[Server] = <<Data(v)>>
      BY <1>3, <1>6, <2>2 DEF Joint, Serves
    <3> QED  BY <1>7, <3>1, <3>2 DEF LateIdle, Joint, Serves
  <2>3. ASSUME NEW r \in Infos, Joint(<<r, Ack("DONE")>>, "free", <<>>)
        PROVE  LateIdle'
    <3>1. in'[Client] = <<Ack("DONE")>> /\ Serves("free", <<>>)'
      BY <1>4, <1>7, <2>3, Lists DEF Joint
    <3> QED  BY <3>1 DEF LateIdle, Left, Joint
  <2>4. ASSUME NEW r \in Infos, in[Client] = <<r, Ack("DONE")>>, Jammed
        PROVE  LateIdle'
    <3>1. in'[Client] = <<Ack("DONE")>> /\ Jammed'
      BY <1>4, <1>7, <2>4, Lists
    <3> QED  BY <3>1 DEF LateIdle, Left
  <2>5. LateIdle'
    BY <1>1, <2>1, <2>2, <2>3, <2>4 DEF LateEnd, Joint
  <2> QED  BY <1>1, <1>3, <1>5, <1>10, <2>5 DEF Dialogue, LateRequests, Late
<1> QED  BY <1>2, <1>8, <1>9, <1>10

\* The next file of an upload, and END.
LEMMA SentNext ==
    ASSUME IInv, Dialogue, faults = 0, SendNext(Client) \/ SendEnd(Client)
    PROVE  Dialogue'
<1>1. /\ pc[Client] = "list" /\ UNCHANGED <<task, slips, first_syncrinize>>
  BY DEF SendNext, SendEnd, syncVars
<1>2. /\ Typed /\ Standing /\ task[Client] = "update" /\ Uploads
  BY <1>1
  DEF IInv, Course, Joining, Fetching, Uploading, Watching, Sending, Receiving, Over,
      Dialogue
<1>3. Joint(<<>>, "recv", <<>>) /\ For("update")
  BY <1>1, <1>2 DEF Uploads
<1>4. ASSUME NEW m \in Message, Post(Client, <<m>>), UNCHANGED <<pc[Server], cur[Server]>>
      PROVE  /\ Stays /\ Silent' = Silent /\ For("update")' /\ in'[Client] = <<>>
             /\ ~Silent => pc'[Server] = "recv" /\ in'[Server] = <<m>>
  <2>1. in'[Client] = in[Client] /\ Sends(<<m>>) /\ (conn' = "shut" => conn = "shut")
    BY <1>2, <1>4, ClientPosts, MessageSeqs
  <2>2. ~Silent => in'[Server] = <<m>>
    BY <1>3, <1>4, <2>1, Chains DEF Joint, Serves, Sends
  <2>3. Stays /\ Silent' = Silent /\ For("update")'
    BY <1>1, <1>3, <1>4, <2>1 DEF Stays, Silent, For
  <2> QED  BY <1>3, <1>4, <2>1, <2>2, <2>3 DEF Joint, Serves
<1>5. CASE SendNext(Client)
  <2>1. PICK p \in todo[Client] :
          Post(Client, <<Command(Client, p)>>) /\ Begin(Client, p, "modified")
    BY <1>5 DEF SendNext
  <2>2. p \in Path
    BY <1>2, Sides DEF Typed, Contents
  <2>3. /\ cur'[Client].word = (IF dir[Client][p] = 0 THEN "FILE_DEL" ELSE "FILE")
        /\ cur'[Client].status = "modified" /\ cur'[Server] = cur[Server]
        /\ pc'[Client] = "send.cmd" /\ pc'[Server] = pc[Server]
    BY <1>2, <2>1, Sides DEF Begin, Goto, Typed, Placed, Contents
  <2>4. Command(Client, p) \in Message /\ Command(Client, p) = TheCommand'
    BY <1>2, <2>2, <2>3, Spoken, Sides DEF Command, TheCommand
  <2>5. /\ Stays /\ Silent' = Silent /\ For("update")' /\ in'[Client] = <<>>
        /\ ~Silent => pc'[Server] = "recv" /\ in'[Server] = <<Command(Client, p)>>
    BY <1>4, <2>1, <2>3, <2>4
  <2>6. AtCommand("update")'
    BY <2>4, <2>5 DEF AtCommand, Joint, Serves
  <2>7. cur'[Client].word \in {"FILE", "FILE_DEL"}
    BY <2>3
  <2>8. Standing'
    BY <1>1, <1>2, <2>3, <2>5, <2>7, StandingClient
  <2> QED  BY <1>1, <1>2, <2>3, <2>6, <2>8 DEF Dialogue, Uploads, Sending
<1>6. CASE SendEnd(Client)
  <2>1. /\ Post(Client, <<Text("END")>>) /\ cur' = cur
        /\ pc'[Client] = "end?" /\ pc'[Server] = pc[Server]
    BY <1>2, <1>6, Sides DEF SendEnd, Goto, Typed, Placed
  <2>2. Text("END") \in Message
    BY MessagesMade DEF Words
  <2>3. /\ Stays /\ Silent' = Silent /\ For("update")' /\ in'[Client] = <<>>
        /\ ~Silent => pc'[Server] = "recv" /\ in'[Server] = <<Text("END")>>
    BY <1>4, <2>1, <2>2
  <2>4. AtEndOfAll'
    BY <2>3 DEF AtEndOfAll, Joint, Serves
  <2>5. Standing'
    BY <1>1, <1>2, <2>1, <2>3, StandingClient DEF Sending
  <2> QED  BY <1>1, <1>2, <2>1, <2>4, <2>5 DEF Dialogue, Uploads, Sending
<1> QED  BY <1>5, <1>6

-----------------------------------------------------------------------------
(* What the client reads *)

LEMMA AnswersAreRead ==
    ASSUME NEW m, NEW of, Answers(m, of)
    PROVE  m.w \notin Raw
BY DEF Answers, Reply, Raw

\* The reply to what it asked, or to what it asked before.
RepliesWell ==
    IF Late THEN \E of \in Delayed[pc[Client]] : Answers(Head(in[Client]), of)
            ELSE Answers(Head(in[Client]), Expected[pc[Client]])

LEMMA Questions ==
    /\ Expected["logged?"] = "LOGIN" /\ Expected["update?"] = "UPDATE"
    /\ Expected["download?"] = "DOWNLOAD" /\ Expected["end?"] = "END"
    /\ Expected["request?"] = "REQUEST" /\ Expected["send.cmd"] = "COMMAND"
    /\ Expected["send.info"] = "INFO" /\ Expected["send.end"] = "DONE"
    /\ Delayed["request?"] = {"NOTHING", "DONE"} /\ Delayed["send.cmd"] = {"REQUEST"}
    /\ Delayed["send.info"] = {"COMMAND"} /\ Delayed["send.end"] = {"INFO"}
    /\ \A of : Answers(Ack(of), of) /\ Answers(Reply("PRESENT", of), of)
               /\ Answers(Reply("OK", of), of) /\ Answers(Reply("NOT_OK", of), of)
<1>1. /\ Delayed["request?"] = {"NOTHING", "DONE"} /\ Delayed["send.cmd"] = {"REQUEST"}
      /\ Delayed["send.info"] = {"COMMAND"} /\ Delayed["send.end"] = {"INFO"}
  BY DEF Delayed
<1>2. /\ Expected["logged?"] = "LOGIN" /\ Expected["update?"] = "UPDATE"
      /\ Expected["download?"] = "DOWNLOAD" /\ Expected["end?"] = "END"
      /\ Expected["request?"] = "REQUEST" /\ Expected["send.cmd"] = "COMMAND"
      /\ Expected["send.info"] = "INFO" /\ Expected["send.end"] = "DONE"
  BY DEF Expected, AwaitsReply
<1>3. \A of : Answers(Ack(of), of) /\ Answers(Reply("PRESENT", of), of)
              /\ Answers(Reply("OK", of), of) /\ Answers(Reply("NOT_OK", of), of)
  BY DEF Answers, Ack
<1> QED  BY <1>1, <1>2, <1>3

\* In an exchange, and for a request.
LEMMA ReadsInTime ==
    ASSUME in[Client] # <<>>, NEW job
    PROVE  /\ AtCommand(job) => Answers(Head(in[Client]), "COMMAND")
           /\ AtInfo(job) => Answers(Head(in[Client]), "INFO")
           /\ AtEnd(job) => Answers(Head(in[Client]), "DONE")
           /\ AtEndOfAll => Answers(Head(in[Client]), "END")
           /\ AtRequest => Answers(Head(in[Client]), "REQUEST")
<1> USE Lists, Questions
<1>1. AtCommand(job) => Answers(Head(in[Client]), "COMMAND")
  BY DEF AtCommand, Joint
<1>2. AtInfo(job) => Answers(Head(in[Client]), "INFO")
  BY DEF AtInfo, Joint, Refusal
<1>3. AtEnd(job) => Answers(Head(in[Client]), "DONE")
  <2>1. Joint(<<Ack("DONE")>>, Home(job), <<>>) => Answers(Head(in[Client]), "DONE")
    BY DEF Joint
  <2>2. \A v : ~Joint(<<>>, "recv.data", <<Data(v)>>)
    BY DEF Joint
  <2> QED  BY <2>1, <2>2 DEF AtEnd
<1>4. AtEndOfAll => Answers(Head(in[Client]), "END")
  BY DEF AtEndOfAll, Joint
<1>5. AtRequest => Answers(Head(in[Client]), "REQUEST")
  BY DEF AtRequest, Joint
<1> QED  BY <1>1, <1>2, <1>3, <1>4, <1>5

LEMMA ReadsLate ==
    ASSUME in[Client] # <<>>
    PROVE  /\ LateRequest => \E of \in {"NOTHING", "DONE"} : Answers(Head(in[Client]), of)
           /\ LateCommand => Answers(Head(in[Client]), "REQUEST")
           /\ LateInfo => Answers(Head(in[Client]), "COMMAND")
           /\ LateEnd => Answers(Head(in[Client]), "INFO")
<1> USE Lists, Questions
<1>1. LateRequest => \E of \in {"NOTHING", "DONE"} : Answers(Head(in[Client]), of)
  <2>1. \A at, ms : ~Joint(<<>>, at, ms)
    BY DEF Joint
  <2>2. ASSUME LateRequest
        PROVE  \E d \in Left : Head(in[Client]) = d
    <3>1. \A d \in Left : \A at, ms : Joint(<<d>>, at, ms) => Head(in[Client]) = d
      BY DEF Joint
    <3>2. \A d \in Left : \A at, ms :
            Joint(<<d, Ack("REQUEST")>>, at, ms) => Head(in[Client]) = d
      BY DEF Joint
    <3>3. \A d \in Left : in[Client] = <<d>> => Head(in[Client]) = d
      OBVIOUS
    <3> QED  BY <2>1, <2>2, <3>1, <3>2, <3>3 DEF LateRequest
  <2> QED  BY <2>2 DEF Left
<1>2. LateCommand => Answers(Head(in[Client]), "REQUEST")
  BY DEF LateCommand, Joint
<1>3. LateInfo => Answers(Head(in[Client]), "COMMAND")
  BY Chains DEF LateInfo, Joint
<1>4. LateEnd => Answers(Head(in[Client]), "INFO")
  <2>1. \A at, ms : ~Joint(<<>>, at, ms)
    BY DEF Joint
  <2>2. \A at, ms : Joint(<<Ack("INFO")>>, at, ms) => Head(in[Client]) = Ack("INFO")
    BY DEF Joint
  <2>3. \A r : in[Client] = <<r, Ack("DONE")>> => Head(in[Client]) = r
    OBVIOUS
  <2>4. LateEnd => Head(in[Client]) \in Infos
    BY <2>1, <2>2, <2>3 DEF LateEnd, Joint, Infos
  <2> QED  BY <2>4 DEF Infos
<1> QED  BY <1>1, <1>2, <1>3, <1>4

LEMMA ClientHears ==
    ASSUME IInv, Dialogue, faults = 0, in[Client] # <<>>
    PROVE  /\ pc[Client] \in AwaitsReply => RepliesWell
           /\ pc[Client] = "recv" => Got(Client) \notin Raw
           /\ pc[Client] = "recv.info" => Got(Client) = "INFO"
           /\ pc[Client] = "recv.data" => Got(Client) = "DATA"
           /\ pc[Client] = "sum" => Got(Client) = "SUM"
<1> USE Lists, Questions
<1>0. Typed /\ Standing /\ in[Client] \in Seq(Message)
  BY Reading, Sides DEF IInv, Dialogue, Typed
<1>1. CASE Joining
  <2>1. ~Late
    BY <1>0, <1>1 DEF Standing, Joining, Late
  <2>2. pc[Client] = "logged?" => Answers(Head(in[Client]), "LOGIN")
    <3> SUFFICES ASSUME pc[Client] = "logged?", NEW m \in Greetings, in[Client] = <<m>>
                 PROVE  Answers(Head(in[Client]), "LOGIN")
      BY <1>1 DEF IInv, Entering, Joining
    <3> QED  BY DEF Greetings
  <2>3. pc[Client] = "sum" => Got(Client) = "SUM"
    <3> SUFFICES ASSUME pc[Client] = "sum", NEW f, in[Client] = <<Sum(f)>>
                 PROVE  Got(Client) = "SUM"
      BY <1>1 DEF IInv, Entering, Joining
    <3> QED  BY DEF Got, Sum
  <2>4. pc[Client] = "update?" => Answers(Head(in[Client]), "UPDATE")
    BY DEF Dialogue, Granting, Joint
  <2> QED
    BY <1>1, <2>1, <2>2, <2>3, <2>4 DEF Joining, Over, AwaitsReply, RepliesWell
<1>2. CASE Fetching
  <2>1. ~Late
    BY <1>0, <1>2 DEF Standing, Fetching, Late
  <2>2. Downloading /\ freezed
    BY <1>2 DEF Fetching, IInv
  <2>3. pc[Client] = "download?" => Answers(Head(in[Client]), "DOWNLOAD")
    <3> SUFFICES ASSUME NEW ms \in Seq(Message), in[Client] = <<Ack("DOWNLOAD")>> \o ms
                 PROVE  Answers(Head(in[Client]), "DOWNLOAD")
      BY <2>2 DEF Downloading, Asked
    <3> QED  BY Joined, MessagesMade DEF Whats
  <2>4. pc[Client] = "recv" => Got(Client) \notin Raw
    <3>1. Coming(in[Client]) => Got(Client) \notin Raw
      <4> SUFFICES ASSUME NEW word, in[Client] = <<Text(word)>>, word \notin Raw
                   PROVE  Got(Client) \notin Raw
        <5>1. cur[Server].word \notin Raw
          BY <1>0, Sides DEF Typed, Contents, Words, Raw
        <5> QED  BY <5>1 DEF Coming, Raw
      <4> QED  BY DEF Got, Text
    <3> QED  BY <2>2, <3>1 DEF Downloading, Receives
  <2>5. pc[Client] = "recv.info" => Got(Client) = "INFO"
    BY <2>2 DEF Downloading, ReceivesInfo, Got, Info
  <2>6. pc[Client] = "recv.data" => Got(Client) = "DATA"
    <3>1. \A v : in[Client] = <<Data(v)>> => Got(Client) = "DATA"
      BY DEF Got, Data
    <3> QED  BY <2>2, <3>1 DEF Downloading, ReceivesData
  <2>7. pc[Client] # "sum"
    BY <1>0, <2>2 DEF Standing
  <2> QED
    BY <1>2, <2>1, <2>3, <2>4, <2>5, <2>6, <2>7
    DEF Fetching, Receiving, Over, AwaitsReply, RepliesWell
<1>3. CASE Uploading
  <2>1. ~Late /\ Uploads
    BY <1>0, <1>3 DEF Standing, Uploading, Late, Dialogue
  <2>2. pc[Client] \in AwaitsReply => Answers(Head(in[Client]), Expected[pc[Client]])
    BY <1>3, <2>1, ReadsInTime DEF Uploading, Over, Uploads, Sending, AwaitsReply
  <2>3. pc[Client] \notin {"recv", "recv.info", "recv.data", "sum"}
    BY <1>3 DEF Uploading, Over, Sending
  <2> QED  BY <2>1, <2>2, <2>3 DEF RepliesWell
<1>4. CASE Watching
  <2>1. IF Late THEN LateRequests ELSE Requests
    BY <1>4 DEF Watching, Dialogue
  <2>2. pc[Client] \in AwaitsReply => pc[Client] \in Sending \cup {"request?"}
    BY <1>4 DEF Watching, Over, AwaitsReply
  <2>3. ASSUME Late, pc[Client] \in AwaitsReply PROVE RepliesWell
    <3>1. CASE pc[Client] = "request?"
      BY <2>1, <2>3, <3>1, ReadsLate DEF LateRequests, RepliesWell
    <3>2. CASE pc[Client] = "send.cmd"
      BY <2>1, <2>3, <3>2, ReadsLate DEF LateRequests, RepliesWell
    <3>3. CASE pc[Client] = "send.info"
      BY <2>1, <2>3, <3>3, ReadsLate DEF LateRequests, RepliesWell
    <3>4. CASE pc[Client] = "send.end"
      BY <2>1, <2>3, <3>4, ReadsLate DEF LateRequests, RepliesWell
    <3> QED  BY <2>2, <2>3, <3>1, <3>2, <3>3, <3>4 DEF Sending
  <2>4. ASSUME ~Late, pc[Client] \in AwaitsReply PROVE RepliesWell
    <3>1. pc[Client] = "send.end" => Answers(Head(in[Client]), "DONE")
      BY <2>1, <2>4, ReadsInTime DEF Requests
    <3>2. pc[Client] \in {"request?", "send.cmd", "send.info"} =>
            Answers(Head(in[Client]), Expected[pc[Client]])
      BY <2>1, <2>4, ReadsInTime DEF Requests
    <3> QED  BY <2>2, <2>4, <3>1, <3>2 DEF Sending, RepliesWell
  <2>5. pc[Client] \notin {"recv", "recv.info", "recv.data", "sum"}
    BY <1>4 DEF Watching, Over, Sending
  <2> QED  BY <2>3, <2>4, <2>5
<1> QED  BY <1>1, <1>2, <1>3, <1>4 DEF IInv, Course

\* So it misreads nothing.
LEMMA NoMisread ==
    ASSUME IInv, Dialogue, faults = 0
    PROVE  ~Misread(Client) /\ ~Stray
<1> SUFFICES ASSUME Misread(Client) \/ Stray PROVE FALSE
  OBVIOUS
<1>1. in[Client] # <<>>
  BY DEF Misread, Stray, CompareOther, Garbled
<1>2. pc[Client] \in AwaitsMessage /\ Got(Client) \in Raw
  BY <1>1, ClientHears DEF Misread, Stray, CompareOther, Garbled, Raw
<1>3. RepliesWell => Got(Client) \notin Raw
  BY AnswersAreRead DEF RepliesWell, Got
<1>4. pc[Client] \in AwaitsReply \cup {"recv", "recv.info"}
  BY <1>2
  DEF IInv, Course, Joining, Fetching, Uploading, Watching, Sending, Receiving, Over,
      AwaitsMessage, AwaitsReply
<1>5. Got(Client) # "INFO"
  BY <1>2 DEF Raw
<1> QED  BY <1>1, <1>2, <1>3, <1>4, <1>5, ClientHears

-----------------------------------------------------------------------------
(* The synchronisation ends, and what comes before *)

\* The server, where the client has said nothing.
LEMMA StillServes ==
    ASSUME Typed, pc'[Server] = pc[Server], Sends(<<>>)
    PROVE  /\ Silent' = Silent /\ \A at, ms : Serves(at, ms) => Serves(at, ms)'
           /\ UNCHANGED <<task[Server], slips>> => (Jammed => Jammed')
<1>1. in[Server] \in Seq(Message)
  BY Reading, Sides DEF Typed
<1>2. ~Silent => in'[Server] = in[Server]
  BY <1>1, Joined DEF Sends
<1> QED  BY <1>2 DEF Silent, Serves, Jammed

\* An upload is over: from here on the client is one reply behind.
LEMMA UploadOver ==
    ASSUME IInv, Dialogue, faults = 0, EndGranted
    PROVE  Dialogue'
<1>1. pc[Client] = "end?" /\ in[Client] # <<>>
  BY DEF EndGranted, Comes
<1>2. /\ Typed /\ Standing /\ first_syncrinize /\ task[Client] = "update" /\ Uploads
  BY <1>1
  DEF IInv, Course, Joining, Fetching, Uploading, Watching, Sending, Receiving, Over,
      Dialogue
<1>3. Joint(<<Ack("END"), Ack("NOTHING")>>, "free", <<>>)
  BY <1>1, <1>2 DEF Uploads, AtEndOfAll, Joint
<1>4. Got(Client) = "ACK"
  BY <1>3, Lists DEF Joint, Got, Ack, Reply
<1>5. /\ Answer(Client, <<>>) /\ slips' = slips \cup {"update"} /\ cur' = cur
      /\ pc'[Client] = "idle" /\ pc'[Server] = pc[Server]
      /\ ~first_syncrinize'
      /\ task'[Client] = "request" /\ task'[Server] = task[Server]
  BY <1>2, <1>4, Sides
  DEF EndGranted, Watch, EndSync, Goto, Typed, Placed, Contents
<1>6. in'[Client] = Tail(in[Client]) /\ Sends(<<>>) /\ Stays
  BY <1>1, <1>2, <1>5, ClientSays, MessageSeqs DEF Stays
<1>7. in'[Client] = <<Ack("NOTHING")>> /\ Serves("free", <<>>)'
  BY <1>2, <1>3, <1>5, <1>6, StillServes, Lists DEF Joint
<1>8. LateIdle'
  BY <1>7 DEF LateIdle, Left, Joint
<1>9. Standing'
  BY <1>2, <1>5, <1>6, StandingClient DEF Sending
<1> QED  BY <1>5, <1>8, <1>9 DEF Dialogue, LateRequests, Late, Sending

\* An upload begins.
LEMMA UploadBegins ==
    ASSUME IInv, Dialogue, faults = 0, UpdateGranted
    PROVE  Dialogue'
<1>1. pc[Client] = "update?" /\ in[Client] # <<>>
  BY DEF UpdateGranted, Asks, Comes
<1>2. Typed /\ Standing /\ Granting
  BY <1>1 DEF IInv, Dialogue
<1>3. Joint(<<Ack("UPDATE")>>, "recv", <<>>) /\ For("update")
  BY <1>1, <1>2 DEF Granting, Joint
<1>4. Got(Client) = "ACK"
  BY <1>3, Lists DEF Joint, Got, Ack, Reply
<1>5. /\ Answer(Client, <<>>) /\ UNCHANGED <<slips, cur, first_syncrinize>>
      /\ pc'[Client] = "list" /\ pc'[Server] = pc[Server]
      /\ task'[Client] = "update" /\ task'[Server] = task[Server]
  BY <1>2, <1>4, Sides
  DEF UpdateGranted, Asks, Goto, Typed, Placed, Contents, syncVars
<1>6. in'[Client] = Tail(in[Client]) /\ Sends(<<>>) /\ Stays
  BY <1>1, <1>2, <1>5, ClientSays, MessageSeqs DEF Stays
<1>7. in'[Client] = <<>> /\ Serves("recv", <<>>)' /\ For("update")'
  BY <1>2, <1>3, <1>5, <1>6, StillServes, Lists DEF Joint, For
<1>8. Uploads'
  BY <1>5, <1>7 DEF Uploads, Joint, Sending
<1>9. Standing'
  BY <1>2, <1>5, <1>6, StandingClient DEF Sending
<1> QED  BY <1>5, <1>8, <1>9 DEF Dialogue

\* The checksums are compared.
LEMMA Compared ==
    ASSUME IInv, Dialogue, faults = 0, Compare
    PROVE  Dialogue'
<1>0. PICK choice \in {"OK", "DOWNLOAD", "UPDATE"} : choice = Choice(Head(in[Client]).folder)
  BY DEF Choice
<1>1. pc[Client] = "sum" /\ in[Client] # <<>> /\ Answer(Client, <<Text(choice)>>)
  BY <1>0 DEF Compare
<1>2. Typed /\ Standing /\ Joining /\ ~Spoilt
  BY ComparesOnce DEF IInv, Dialogue
<1>3. PICK f \in [Path -> Version] : in[Client] = <<Sum(f)>> /\ Serves("choice", <<>>)
  BY <1>1, <1>2 DEF IInv, Entering, Joining
<1>4. Text(choice) \in Message
  BY <1>0, MessagesMade DEF Words
<1>5. /\ UNCHANGED <<cur, slips>> /\ pc'[Server] = pc[Server]
      /\ task'[Server] = task[Server]
      /\ \/ choice = "OK" /\ pc'[Client] = "idle" /\ task'[Client] = "request"
            /\ ~first_syncrinize'
         \/ choice = "DOWNLOAD" /\ pc'[Client] = "download?" /\ task' = task
            /\ first_syncrinize' = first_syncrinize
         \/ choice = "UPDATE" /\ pc'[Client] = "update?" /\ task' = task
            /\ first_syncrinize' = first_syncrinize
  BY <1>0, <1>2, Sides DEF Compare, Chosen, Watch, EndSync, Goto, Typed, Placed, Contents
<1>6. in'[Client] = <<>> /\ Sends(<<Text(choice)>>) /\ Stays
  <2>1. <<Text(choice)>> \in Seq(Message)
    BY <1>4, MessageSeqs
  <2>2. in'[Client] = Tail(in[Client]) /\ Sends(<<Text(choice)>>)
        /\ (conn' = "shut" => conn = "shut")
    BY <1>1, <1>2, <2>1, ClientSays
  <2> QED  BY <1>3, <1>5, <2>2, Lists DEF Stays
<1>7. Serves("choice", <<Text(choice)>>)'
  <2>1. <<>> \o <<Text(choice)>> = <<Text(choice)>>
    BY <1>4, Chains
  <2> QED  BY <1>3, <1>5, <1>6, <2>1 DEF Serves, Sends, Silent
<1>8. slips = {} /\ ~Late'
  BY <1>2, <1>5 DEF Standing, Joining, Late
<1>9. Standing'
  BY <1>2, <1>5, <1>6, <1>8, StandingClient DEF Sending
<1>10. CASE choice = "OK"
  <2>1. AtIdle'
    <3>1. <<Text("OK")>> = <<Text("OK")>> \o <<>>
      BY <1>4, <1>10, Chains
    <3> QED  BY <1>6, <1>7, <1>10, <3>1 DEF AtIdle, Frees
  <2> QED  BY <1>5, <1>8, <1>9, <1>10, <2>1 DEF Dialogue, Requests, Sending
<1>11. CASE choice = "UPDATE"
  <2>1. Granting'
    BY <1>6, <1>7, <1>11 DEF Granting, Joint
  <2> QED  BY <1>2, <1>5, <1>9, <1>11, <2>1 DEF Dialogue, Joining
<1>12. CASE choice = "DOWNLOAD"
  BY <1>2, <1>5, <1>9, <1>12 DEF Dialogue, Joining
<1> QED  BY <1>0, <1>10, <1>11, <1>12

\* A download is over.
LEMMA DownloadOver ==
    ASSUME IInv, Dialogue, faults = 0, DownloadReceived
    PROVE  Dialogue'
<1> DEFINE ms == <<Ack("END"), Ack("NOTHING")>>
<1>1. /\ pc[Client] = "recv" /\ in[Client] # <<>> /\ Got(Client) = "END"
      /\ Answer(Client, ms) /\ UNCHANGED <<cur, slips>>
  BY DEF DownloadReceived, Comes
<1>2. Typed /\ Standing /\ Fetching
  BY <1>1
  DEF IInv, Course, Joining, Fetching, Uploading, Watching, Sending, Receiving, Over,
      Dialogue
<1>3. Coming(in[Client]) /\ Offered
  BY <1>1, <1>2 DEF IInv, Downloading, Receives, Fetching
<1>4. in[Client] = <<Head(in[Client])>> /\ Serves("bye", <<>>)
  <2>1. CASE in[Client] = <<Text(cur[Server].word)>> /\ Downloads("send.cmd", <<>>)
    <3>1. cur[Server].word = "END"
      BY <1>1, <2>1, Lists DEF Got, Text
    <3>2. Silent
      BY <1>3, <2>1, <3>1 DEF Downloads, Serves, Offered, Sending
    <3> QED  BY <2>1, <3>2, Lists DEF Serves
  <2>2. CASE in[Client] = <<Text("END")>> /\ Downloads("bye", <<>>)
    BY <2>2, Lists DEF Downloads
  <2> QED  BY <1>1, <1>3, <2>1, <2>2 DEF Coming
<1>5. /\ pc'[Client] = "idle" /\ pc'[Server] = pc[Server] /\ ~first_syncrinize'
      /\ task'[Client] = "request" /\ task'[Server] = task[Server]
  BY <1>2, Sides DEF DownloadReceived, EndSync, Goto, Typed, Placed, Contents
<1>6. Ack("END") \in Message /\ Ack("NOTHING") \in Message /\ ms \in Seq(Message)
  BY MessagesMade, MessageSeqs DEF Whats
<1>7. in'[Client] = <<>> /\ Sends(ms) /\ Stays
  <2>1. in'[Client] = Tail(in[Client]) /\ Sends(ms) /\ (conn' = "shut" => conn = "shut")
    BY <1>1, <1>2, <1>6, ClientSays
  <2>2. ASSUME NEW s, NEW a, s = <<a>> PROVE Tail(s) = <<>>
    BY <2>2, Lists
  <2>3. Tail(in[Client]) = <<>>
    BY <1>4, <2>2
  <2> QED  BY <1>1, <1>5, <2>1, <2>3 DEF Stays
<1>8. <<>> \o ms = ms /\ ms \o <<>> = ms
  BY <1>6, Chains
<1>9. Serves("bye", ms \o <<>>)'
  BY <1>4, <1>5, <1>7, <1>8 DEF Serves, Sends, Silent
<1>10. AtIdle'
  BY <1>7, <1>9 DEF AtIdle, Frees
<1>11. slips = {} /\ ~Late'
  BY <1>1, <1>2 DEF Standing, Fetching, Late
<1>12. Standing'
  BY <1>1, <1>2, <1>5, <1>7, StandingClient DEF Sending
<1> QED  BY <1>5, <1>10, <1>11, <1>12 DEF Dialogue, Requests, Sending

-----------------------------------------------------------------------------
(* The requests *)

\* What the server has to read before is followed by what the client says.
LEMMA FreesMore ==
    ASSUME Typed, Frees(<<>>), NEW m \in Message, Sends(<<m>>), pc'[Server] = pc[Server]
    PROVE  Frees(<<m>>)'
<1>1. /\ Text("OK") \in Message /\ Ack("END") \in Message /\ Ack("NOTHING") \in Message
  BY MessagesMade DEF Words, Whats
<1>2. ASSUME NEW at, NEW s \in Seq(Message), Serves(at, s \o <<>>)
      PROVE  Serves(at, s \o <<m>>)'
  BY <1>2, Joined DEF Serves, Sends, Silent
<1>3. CASE Serves("free", <<>>)
  <2>1. Serves("free", <<m>>)'
    BY <1>3, Chains DEF Serves, Sends, Silent
  <2> QED  BY <2>1 DEF Frees
<1>4. CASE Serves("choice", <<Text("OK")>> \o <<>>)
  <2>1. <<Text("OK")>> \in Seq(Message)
    BY <1>1, MessageSeqs
  <2> QED  BY <1>2, <1>4, <2>1 DEF Frees
<1>5. CASE Serves("bye", <<Ack("END"), Ack("NOTHING")>> \o <<>>)
  <2>1. <<Ack("END"), Ack("NOTHING")>> \in Seq(Message)
    BY <1>1, MessageSeqs
  <2> QED  BY <1>2, <1>5, <2>1 DEF Frees
<1>6. CASE Serves("free", <<Ack("NOTHING")>> \o <<>>)
  <2>1. <<Ack("NOTHING")>> \in Seq(Message)
    BY <1>1, MessageSeqs
  <2> QED  BY <1>2, <1>6, <2>1 DEF Frees
<1> QED  BY <1>3, <1>4, <1>5, <1>6 DEF Frees

\* A sender thread asks.
LEMMA RequestSent ==
    ASSUME IInv, Dialogue, faults = 0, SendRequest
    PROVE  Dialogue'
<1>1. pc[Client] = "idle"
  BY DEF SendRequest
<1>2. /\ Typed /\ Standing /\ task[Client] = "request"
      /\ IF Late THEN LateRequests ELSE Requests
  BY <1>1
  DEF IInv, Course, Joining, Fetching, Uploading, Watching, Sending, Receiving, Over,
      Dialogue
<1>3. PICK p \in Queue :
         /\ Post(Client, <<Text(Verb[request[p]])>>)
         /\ cur' = [cur EXCEPT ![Client].path = p, ![Client].status = request[p]]
  BY DEF SendRequest
<1>4. cur'[Client].status = request[p] /\ cur'[Server] = cur[Server]
  BY <1>2, <1>3, Sides DEF Typed, Contents
<1>5. TheVerb' = Text(Verb[request[p]]) /\ TheVerb' \in Message
  <2>1. request[p] \in Statuses
    BY <1>2 DEF Typed, Contents, Queue
  <2>2. Verb[request[p]] \in Words
    BY <2>1 DEF Verb, Statuses, Words
  <2> QED  BY <1>4, <2>2, MessagesMade DEF TheVerb
<1>6. /\ pc'[Client] = "request?" /\ pc'[Server] = pc[Server]
      /\ UNCHANGED <<task, slips, first_syncrinize>>
  BY <1>2, Sides DEF SendRequest, Goto, Typed, Placed
<1>7. in'[Client] = in[Client] /\ Sends(<<TheVerb'>>) /\ Stays
  <2>1. <<Text(Verb[request[p]])>> \in Seq(Message)
    BY <1>5, MessageSeqs
  <2>2. in'[Client] = in[Client] /\ Sends(<<Text(Verb[request[p]])>>)
        /\ (conn' = "shut" => conn = "shut")
    BY <1>2, <1>3, <2>1, ClientPosts
  <2> QED  BY <1>4, <1>5, <1>6, <2>2 DEF Stays
<1>8. Jammed => Jammed'
  <2>1. <<TheVerb'>> \in Seq(Message)
    BY <1>5, MessageSeqs
  <2>2. \A ms \in Seq(Message) : Jammed /\ Sends(ms) => Jammed'
    BY <1>2, <1>6, <1>7, StillJammed
  <2> QED  BY <1>7, <2>1, <2>2
<1>9. Standing'
  BY <1>2, <1>6, <1>7, StandingClient DEF Sending
<1>10. CASE ~Late
  <2>1. AtIdle
    BY <1>1, <1>2, <1>10 DEF Requests
  <2>2. PICK m \in Message : m = TheVerb'
    BY <1>5
  <2>3. Frees(<<>>) => Frees(<<m>>)'
    BY <1>2, <1>6, <1>7, <2>2, FreesMore
  <2>4. in'[Client] = <<>> /\ (Frees(<<m>>)' \/ Jammed')
    BY <1>7, <1>8, <2>1, <2>3 DEF AtIdle
  <2>5. AtRequest'
    BY <2>2, <2>4 DEF AtRequest, Frees, Serves
  <2> QED  BY <1>2, <1>6, <1>9, <1>10, <2>5 DEF Dialogue, Requests, Late, Sending
<1>11. CASE Late
  <2>1. LateIdle
    BY <1>1, <1>2, <1>11 DEF LateRequests
  <2>2. ASSUME NEW d \in Left, Joint(<<d>>, "free", <<>>)
        PROVE  LateRequest'
    <3>1. ~Silent => in'[Server] = <<TheVerb'>>
      BY <1>5, <1>7, <2>2, Chains DEF Joint, Serves, Sends
    <3> QED  BY <1>6, <1>7, <2>2, <3>1 DEF LateRequest, Joint, Serves, Silent, Left
  <2>3. ASSUME NEW v \in Version, Joint(<<>>, "recv.data", <<Data(v)>>), For("request")
        PROVE  LateRequest'
    <3>1. Data(v) \in Message
      BY MessagesMade
    <3>2. ~Silent => in'[Server] = <<Data(v), TheVerb'>>
      BY <1>5, <1>7, <2>3, <3>1, Chains DEF Joint, Serves, Sends
    <3> QED
      BY <1>6, <1>7, <2>3, <3>2 DEF LateRequest, Joint, Serves, Silent, For, Version
  <2>4. ASSUME NEW d \in Left, in[Client] = <<d>>, Jammed
        PROVE  LateRequest'
    BY <1>7, <1>8, <2>4 DEF LateRequest, Left
  <2>5. LateRequest'
    BY <2>1, <2>2, <2>3, <2>4 DEF LateIdle
  <2> QED  BY <1>2, <1>6, <1>9, <1>11, <2>5 DEF Dialogue, LateRequests, Late, Sending
<1> QED  BY <1>10, <1>11

\* Its request is granted, or it takes a late acknowledgement for that.
LEMMA RequestBegins ==
    ASSUME IInv, Dialogue, faults = 0, RequestGranted
    PROVE  Dialogue'
<1>1. pc[Client] = "request?" /\ in[Client] # <<>>
  BY DEF RequestGranted, Comes
<1>2. /\ Typed /\ Standing /\ task[Client] = "request"
      /\ IF Late THEN LateRequests ELSE Requests
  BY <1>1
  DEF IInv, Course, Joining, Fetching, Uploading, Watching, Sending, Receiving, Over,
      Dialogue
<1>3. Late => LateRequest
  BY <1>1, <1>2 DEF LateRequests
<1>4. ~Late => Joint(<<Ack("REQUEST")>>, "recv", <<>>) /\ For("request")
  BY <1>1, <1>2 DEF Requests, AtRequest
<1>5. Got(Client) = "ACK"
  <2>1. \A of, m : m = Ack(of) => m.w = "ACK"
    BY DEF Ack, Reply
  <2>2. ~Late => Got(Client) = "ACK"
    BY <1>4, <2>1, Lists DEF Got, Joint
  <2>3. ASSUME NEW d \in Left, Head(in[Client]) = d PROVE Got(Client) = "ACK"
    BY <2>1, <2>3 DEF Left, Got
  <2>4. Late => Got(Client) = "ACK"
    BY <1>1, <1>3, <2>3, Lists DEF LateRequest, Joint
  <2> QED  BY <2>2, <2>4
<1> DEFINE p == cur[Client].path
<1>6. /\ p \in Path /\ Answer(Client, <<Command(Client, p)>>)
      /\ Begin(Client, p, cur[Client].status)
      /\ UNCHANGED <<task, slips, first_syncrinize>>
  BY <1>2, <1>5, Sides DEF RequestGranted, syncVars, Typed, Contents
<1>7. /\ cur'[Client].word = (IF dir[Client][p] = 0 THEN "FILE_DEL" ELSE "FILE")
      /\ cur'[Client].status = cur[Client].status /\ cur'[Server] = cur[Server]
      /\ pc'[Client] = "send.cmd" /\ pc'[Server] = pc[Server]
  BY <1>2, <1>6, Sides DEF Begin, Goto, Typed, Placed, Contents
<1>8. /\ Command(Client, p) = TheCommand' /\ TheCommand' \in Message
      /\ TheVerb' = TheVerb /\ TheVerb \in Message
  <2>1. Command(Client, p) = TheCommand' /\ TheVerb' = TheVerb
    BY <1>7 DEF Command, TheCommand, TheVerb
  <2>2. Command(Client, p) \in Message
    BY <1>2, <1>6, Spoken, Sides
  <2> QED  BY <2>1, <2>2, <1>2, Exchanged
<1>9. in'[Client] = Tail(in[Client]) /\ Sends(<<TheCommand'>>) /\ Stays
  <2>1. <<Command(Client, p)>> \in Seq(Message)
    BY <1>8, MessageSeqs
  <2>2. in'[Client] = Tail(in[Client]) /\ Sends(<<Command(Client, p)>>)
        /\ (conn' = "shut" => conn = "shut")
    BY <1>1, <1>2, <1>6, <2>1, ClientSays
  <2> QED  BY <1>6, <1>7, <1>8, <2>2 DEF Stays
<1>10. Standing'
  BY <1>2, <1>6, <1>7, <1>9, StandingClient
<1>11. Silent' = Silent /\ (For("request") => For("request")')
  BY <1>6, <1>7 DEF Silent, For
<1>12. CASE ~Late
  <2>1. in'[Client] = <<>>
    BY <1>4, <1>9, <1>12, Lists DEF Joint
  <2>2. ~Silent => in'[Server] = <<TheCommand'>>
    BY <1>4, <1>8, <1>9, <1>12, Chains DEF Joint, Serves, Sends
  <2>3. AtCommand("request")'
    BY <1>4, <1>7, <1>11, <1>12, <2>1, <2>2 DEF AtCommand, Joint, Serves
  <2> QED  BY <1>2, <1>6, <1>7, <1>10, <1>12, <2>3 DEF Dialogue, Requests, Late
<1>13. CASE Late
  <2>1. ASSUME NEW d \in Left, Joint(<<d>>, "free", <<TheVerb>>)
        PROVE  LateCommand'
    <3>1. in'[Client] = <<>>
      BY <1>9, <2>1, Lists DEF Joint
    <3>2. ~Silent => in'[Server] = <<TheVerb, TheCommand'>>
      BY <1>8, <1>9, <2>1, Chains DEF Joint, Serves, Sends
    <3> QED  BY <1>7, <1>8, <1>11, <2>1, <3>1, <3>2 DEF LateCommand, Joint, Serves
  <2>2. ASSUME NEW d \in Left, Joint(<<d, Ack("REQUEST")>>, "recv", <<>>), For("request")
        PROVE  LateCommand'
    <3>1. in'[Client] = <<Ack("REQUEST")>>
      BY <1>9, <2>2, Lists DEF Joint
    <3>2. ~Silent => in'[Server] = <<TheCommand'>>
      BY <1>8, <1>9, <2>2, Chains DEF Joint, Serves, Sends
    <3> QED  BY <1>7, <1>11, <2>2, <3>1, <3>2 DEF LateCommand, Joint, Serves
  <2>3. ASSUME NEW d \in Left, in[Client] = <<d>>, Jammed
        PROVE  LateCommand'
    <3>1. <<TheCommand'>> \in Seq(Message)
      BY <1>8, MessageSeqs
    <3>2. \A ms \in Seq(Message) : Jammed /\ Sends(ms) => Jammed'
      BY <1>2, <1>6, <1>9, StillJammed
    <3>3. Jammed'
      BY <1>9, <2>3, <3>1, <3>2
    <3>4. in'[Client] = <<>>
      BY <1>9, <2>3, Lists
    <3> QED  BY <3>3, <3>4 DEF LateCommand
  <2>4. LateCommand'
    BY <1>1, <1>3, <1>13, <2>1, <2>2, <2>3 DEF LateRequest, Joint
  <2> QED  BY <1>2, <1>6, <1>7, <1>10, <1>13, <2>4 DEF Dialogue, LateRequests, Late
<1> QED  BY <1>12, <1>13

-----------------------------------------------------------------------------
(* Before the comparison, and in a download *)

\* A client that is trying to synchronise.
LEMMA StandingStarts ==
    ASSUME Standing, Stays, UNCHANGED <<slips, first_syncrinize>>,
           pc'[Client] \notin Sending \cup {"lost"},
           pc'[Client] = "exited" => Serves("accept", <<>>)',
           freezed' /\ pc'[Client] \in {"start", "sum"} => in'[Client] = <<>> /\ Silent'
    PROVE  Standing'
BY DEF Standing, Stays, Silent

LEMMA BeforeSync ==
    ASSUME IInv, Dialogue, faults = 0,
           Connect \/ ConnectFails \/ Login \/ LoggedIn \/ StartSync
    PROVE  Dialogue'
<1>1. /\ pc[Client] \in {"connect", "login", "logged?", "start"}
      /\ UNCHANGED <<task, cur, slips, freezed, first_syncrinize>>
  BY DEF Connect, ConnectFails, Login, LoggedIn, StartSync, Comes, syncVars
<1>2. Typed /\ Standing /\ (Joining \/ Fetching)
  BY <1>1
  DEF IInv, Course, Joining, Fetching, Uploading, Watching, Sending, Receiving, Over,
      Dialogue
<1>3. pc'[Server] = pc[Server] /\ (conn' = "shut" => conn = "shut")
  BY <1>2, Sides
  DEF Connect, ConnectFails, Login, LoggedIn, StartSync, Goto, Typed, Placed, Post,
      Answer, Write
<1>4. pc'[Client] \in {"connect", "login", "logged?", "start", "sum", "exited"}
  BY <1>2, Sides
  DEF Connect, ConnectFails, Login, LoggedIn, StartSync, Goto, Typed, Placed
<1>5. ASSUME pc'[Client] = "exited" PROVE Serves("accept", <<>>)'
  <2>1. ConnectFails
    BY <1>2, <1>5, Sides
    DEF Connect, Login, LoggedIn, StartSync, Goto, Typed, Placed
  <2>2. pc[Client] = "connect" /\ in' = in
    BY <2>1 DEF ConnectFails
  <2>3. Serves("accept", <<>>)
    BY <1>2, <2>2 DEF Joining, Fetching, Receiving, Over, IInv, Entering
  <2> QED  BY <1>3, <2>2, <2>3 DEF Serves, Silent
<1>6. ASSUME freezed', pc'[Client] \in {"start", "sum"}
      PROVE  in'[Client] = <<>> /\ Silent'
  <2>1. freezed /\ Fetching /\ pc[Client] = "start"
    BY <1>1, <1>2, <1>6 DEF Joining, Fetching, Receiving, Over
  <2>2. StartSync
    BY <2>1 DEF Connect, ConnectFails, Login, LoggedIn, Comes
  <2>3. in'[Client] = in[Client]
    <3>1. <<Text("SYNC")>> \in Seq(Message)
      BY MessagesMade, MessageSeqs DEF Words
    <3> QED  BY <1>2, <2>2, <3>1, ClientPosts DEF StartSync
  <2> QED  BY <1>2, <1>3, <2>1, <2>3 DEF Standing, Silent
<1>7. Standing'
  BY <1>1, <1>2, <1>3, <1>4, <1>5, <1>6, StandingStarts DEF Stays, Sending
<1>8. task'[Client] \notin {"update", "request"}
  BY <1>1, <1>2 DEF Joining, Fetching
<1> QED  BY <1>4, <1>7, <1>8 DEF Dialogue

LEMMA InDownload ==
    ASSUME IInv, Dialogue, faults = 0,
           \/ DownloadGranted
           \/ ReceiveCommand(Client) \/ ReceiveInfo(Client) \/ ReceiveData(Client)
    PROVE  Dialogue'
<1>1. /\ pc[Client] \in {"download?", "recv", "recv.info", "recv.data"}
      /\ UNCHANGED <<slips, first_syncrinize>>
  BY DEF DownloadGranted, Asks, ReceiveCommand, ReceiveInfo, ReceiveData, Comes, syncVars
<1>2. Typed /\ Standing /\ Fetching
  BY <1>1
  DEF IInv, Course, Joining, Fetching, Uploading, Watching, Sending, Receiving, Over,
      Dialogue
<1>3. /\ pc'[Server] = pc[Server] /\ (conn' = "shut" => conn = "shut")
      /\ cur'[Server] = cur[Server] /\ task'[Server] = task[Server]
      /\ task'[Client] \in {task[Client], "download"}
  <2>1. pc'[Server] = pc[Server]
    BY <1>2, Sides
    DEF DownloadGranted, Asks, ReceiveCommand, ReceiveInfo, ReceiveData, Goto, Typed,
        Placed
  <2>2. conn' = "shut" => conn = "shut"
    <3>1. \E ms : Answer(Client, ms)
      BY DEF DownloadGranted, Asks, ReceiveCommand, ReceiveInfo, ReceiveData
    <3> QED  BY <3>1 DEF Answer, Write
  <2>3. cur'[Server] = cur[Server]
    BY <1>2, Sides
    DEF DownloadGranted, ReceiveCommand, ReceiveInfo, ReceiveData, Typed, Contents
  <2>4. /\ task'[Server] = task[Server]
        /\ task'[Client] \in {task[Client], "download"}
    BY <1>2, Sides
    DEF DownloadGranted, ReceiveCommand, ReceiveInfo, ReceiveData, Typed, Contents
  <2> QED  BY <2>1, <2>2, <2>3, <2>4
<1>4. pc'[Client] \in {"download?", "recv", "recv.info", "recv.data"}
  BY <1>2, Sides
  DEF DownloadGranted, Asks, ReceiveCommand, ReceiveInfo, ReceiveData, Received, Goto,
      Typed, Placed, Fetching
<1>5. Standing'
  BY <1>1, <1>2, <1>3, <1>4, StandingClient DEF Stays, Sending
<1>6. task'[Client] \notin {"update", "request"}
  BY <1>2, <1>3 DEF Fetching
<1> QED  BY <1>4, <1>5, <1>6 DEF Dialogue

-----------------------------------------------------------------------------
(* What goes wrong, and the user *)

\* A connection fails only when there is no server any more.
LEMMA DialogueFails ==
    ASSUME IInv, Dialogue, faults = 0, ConnectionFails \/ SigPipe
    PROVE  Dialogue'
<1>1. /\ UNCHANGED <<in, cur, task, slips, freezed, first_syncrinize>>
      /\ pc'[Server] = pc[Server]
  BY Sides
  DEF ConnectionFails, SigPipe, Catch, UploadAgain, ThreadEnds, LoginFails, SyncFails,
      Goto, IInv, Typed, Placed, syncVars
<1>2. Typed /\ Standing /\ Course
  BY DEF IInv, Dialogue
<1>3. Silent /\ Silent'
  BY <1>1, <1>2 DEF ConnectionFails, SigPipe, Standing, Silent, Typed, Placed
<1>4. pc'[Client] \in {"list", "exited", "login", "start"}
  <2>1. CASE ConnectionFails
    BY <1>1, <1>2, <2>1, CourseCaught DEF ConnectionFails
  <2>2. CASE SigPipe
    BY <1>2, <2>2, Sides DEF SigPipe, Goto, Typed, Placed
  <2> QED  BY <2>1, <2>2
<1>5. ASSUME pc'[Client] \in {"list", "start"}
      PROVE  in[Client] = <<>> \/ pc[Client] = "start"
  <2>1. ConnectionFails
    BY <1>2, <1>5, Sides DEF SigPipe, Goto, Typed, Placed
  <2> QED  BY <2>1 DEF ConnectionFails
<1>6. Standing'
  BY <1>1, <1>2, <1>3, <1>4, <1>5 DEF Standing, Serves, Sending, Silent
<1>7. task[Client] = "update" /\ pc'[Client] = "list" => in[Client] = <<>>
  BY <1>2, <1>5
  DEF Course, Joining, Fetching, Uploading, Watching, Sending, Receiving, Over
<1>8. task'[Client] = "update" => Uploads'
  BY <1>1, <1>3, <1>4, <1>7 DEF Uploads, Joint, Serves, For, Sending
<1>9. Requests' /\ LateRequests'
  BY <1>4 DEF Requests, LateRequests
<1> QED  BY <1>4, <1>6, <1>8, <1>9 DEF Dialogue

\* The user, or nobody, does something.
LEMMA DialogueRests ==
    ASSUME Dialogue, UNCHANGED <<pc, in, conn, cur, task, freezed, first_syncrinize, slips,
                                 faults>>
    PROVE  Dialogue'
<1>1. /\ Silent' = Silent /\ Late' = Late /\ (Jammed => Jammed')
      /\ TheCommand' = TheCommand /\ TheInfo' = TheInfo /\ TheVerb' = TheVerb
      /\ Carries' = Carries /\ Told' = Told
      /\ \A job : For(job)' = For(job)
      /\ \A at, ms : Serves(at, ms)' = Serves(at, ms)
      /\ \A pre, at, ms : Joint(pre, at, ms)' = Joint(pre, at, ms)
  BY DEF Silent, Late, Jammed, TheCommand, TheInfo, TheVerb, Carries, Told, For, Serves,
         Joint
<1>2. (Standing => Standing') /\ (Granting => Granting')
  BY <1>1 DEF Standing, Granting
<1>3. ASSUME NEW job
      PROVE  /\ AtCommand(job) => AtCommand(job)'
             /\ AtInfo(job) => AtInfo(job)'
             /\ AtEnd(job) => AtEnd(job)'
  BY <1>1 DEF AtCommand, AtInfo, AtEnd, Home
<1>4. Uploads => Uploads'
  <2>1. AtEndOfAll => AtEndOfAll'
    BY <1>1 DEF AtEndOfAll
  <2> QED  BY <1>1, <1>3, <2>1 DEF Uploads, Sending
<1>5. Requests => Requests'
  <2>1. \A ms : Frees(ms) => Frees(ms)'
    BY <1>1 DEF Frees
  <2>2. (AtIdle => AtIdle') /\ (AtRequest => AtRequest')
    BY <1>1, <2>1 DEF AtIdle, AtRequest
  <2> QED  BY <1>1, <1>3, <2>2 DEF Requests
<1>6. LateRequests => LateRequests'
  <2>1. LateIdle => LateIdle'
    BY <1>1 DEF LateIdle
  <2>2. LateRequest => LateRequest'
    BY <1>1 DEF LateRequest
  <2>3. LateCommand => LateCommand'
    BY <1>1 DEF LateCommand
  <2>4. LateInfo => LateInfo'
    BY <1>1 DEF LateInfo
  <2>5. LateEnd => LateEnd'
    BY <1>1 DEF LateEnd
  <2> QED  BY <2>1, <2>2, <2>3, <2>4, <2>5 DEF LateRequests
<1> QED  BY <1>1, <1>2, <1>4, <1>5, <1>6 DEF Dialogue

-----------------------------------------------------------------------------
(* Every step *)

LEMMA DialogueInit == Init => Dialogue
<1> SUFFICES ASSUME Init PROVE Dialogue
  OBVIOUS
<1>1. /\ pc[Client] = "connect" /\ pc[Server] = "accept" /\ task[Client] = "none"
      /\ slips = {} /\ conn = "open" /\ ~freezed
  BY Sides DEF Init
<1> QED  BY <1>1 DEF Dialogue, Standing, Sending

LEMMA DialogueClient ==
    ASSUME IInv, Dialogue, ClientStep
    PROVE  Dialogue'
<1> SUFFICES ASSUME faults' = 0 PROVE Dialogue'
  BY DEF Dialogue
<1>0. faults = 0
  BY DEF ClientStep, Chosen, Exchange, SendInfo, SendData, SendEnds, SendNext, SendEnd,
         ReceiveCommand, ReceiveInfo, ReceiveData, Misread, Connect, ConnectFails, Login,
         LoggedIn, StartSync, Compare, UpdateGranted, DownloadGranted, EndGranted,
         DownloadReceived, SendRequest, RequestGranted, ConnectionFails, SigPipe, faultVars
<1>1. CASE Exchange(Client)
  BY <1>0, <1>1, SentInfo, SentData, SentLast, SentNext, InDownload, NoMisread DEF Exchange
<1>2. CASE Connect \/ ConnectFails \/ Login \/ LoggedIn \/ StartSync
  BY <1>0, <1>2, BeforeSync
<1>3. CASE Compare \/ UpdateGranted \/ DownloadGranted \/ EndGranted \/ DownloadReceived
  BY <1>0, <1>3, Compared, UploadBegins, InDownload, UploadOver, DownloadOver
<1>4. CASE SendRequest \/ RequestGranted
  BY <1>0, <1>4, RequestSent, RequestBegins
<1>5. CASE ConnectionFails \/ SigPipe
  BY <1>0, <1>5, DialogueFails
<1> QED  BY <1>1, <1>2, <1>3, <1>4, <1>5 DEF ClientStep

LEMMA DialogueNext == IInv /\ Dialogue /\ [Straight]_vars => Dialogue'
<1> SUFFICES ASSUME IInv, Dialogue, [Straight]_vars PROVE Dialogue'
  OBVIOUS
<1>1. CASE ClientStep
  BY <1>1, DialogueClient
<1>2. CASE ServerStep
  BY <1>2, DialogueServer
<1>3. CASE ServerStops
  <2>1. Silent' /\ UNCHANGED <<pc[Client], in[Client], task, cur, freezed, first_syncrinize>>
    BY <1>3, ServerFails DEF IInv
  <2>2. pc'[Server] = "gone" /\ UNCHANGED <<slips, faults>>
    BY <1>3, Sides DEF ServerStops, Drop, Goto, syncVars, IInv, Typed, Placed
  <2> QED  BY <2>1, <2>2, DialogueStops
<1>4. CASE \E x \in Side : ReadFails(x)
  <2>1. faults' = faults + 1 /\ faults \in Nat
    BY <1>4, SessionAssumption DEF ReadFails, IInv, Typed, Contents
  <2> QED  BY <2>1 DEF Dialogue
<1>5. CASE (\E p \in Path : Edit(p)) \/ UNCHANGED vars
  BY <1>5, DialogueRests DEF Edit, vars
<1> QED  BY <1>1, <1>2, <1>3, <1>4, <1>5 DEF Straight

\* Both ends read what they wait for.
LEMMA DialogueInStep == IInv /\ Dialogue => InStep
<1> SUFFICES ASSUME IInv, Dialogue, faults = 0, NEW x \in Side
             PROVE  /\ pc[x] = "lost" => x = Server /\ slips # {}
                    /\ in[x] # <<>> /\ pc[x] \in DOMAIN Expected =>
                         IF x = Client /\ "update" \in slips
                           THEN \E of \in Delayed[pc[x]] : Answers(Head(in[x]), of)
                           ELSE Answers(Head(in[x]), Expected[pc[x]])
  BY DEF InStep
<1>1. Standing /\ DOMAIN Expected = AwaitsReply \cup {"bye"}
  BY DEF Dialogue, Expected
<1>2. CASE x = Client
  <2>1. pc[Client] # "lost"
    BY <1>1 DEF Standing
  <2>2. pc[Client] # "bye"
    BY DEF IInv, Course, Joining, Fetching, Uploading, Watching, Sending, Receiving, Over
  <2>3. in[Client] # <<>> /\ pc[Client] \in AwaitsReply => RepliesWell
    BY ClientHears
  <2> QED  BY <1>1, <1>2, <2>1, <2>2, <2>3 DEF RepliesWell, Late
<1>3. CASE x = Server
  <2>1. pc[Server] = "lost" => slips # {}
    BY <1>1 DEF Standing
  <2>2. ASSUME in[Server] # <<>>, pc[Server] \in AwaitsReply \cup {"bye"}
        PROVE  Answers(Head(in[Server]), Expected[pc[Server]])
    <3>1. ~Silent
      BY <2>2 DEF Silent, AwaitsReply
    <3> QED  BY <2>2, <3>1, ServerHears DEF Hears, Fits, AwaitsReply
  <2> QED  BY <1>1, <1>3, <2>1, <2>2, Sides
<1> QED  BY <1>2, <1>3, Sides

\* While no read has failed, an end that waits for a reply reads the reply to
\* what it asked; a client that has uploaded reads the one before, for its END
\* is acknowledged twice (Exchanger.cpp:58, Server.cpp:270) and it reads one
\* acknowledgement (Client.cpp:300).  Nobody takes data for a message, but for
\* the server that gets the data of a file sent as erased, which it is not
\* told to read (Exchanger.cpp:124).
THEOREM StaysInStep == Spec => []InStep
<1> DEFINE Inv == Typed /\ (faults > 0 \/ (IInv /\ Dialogue))
<1>1. Init => Inv
  BY InvInit, DialogueInit DEF IInv
<1>2. Inv /\ [Next]_vars => Inv'
  <2> SUFFICES ASSUME Inv, [Next]_vars PROVE Inv'
    OBVIOUS
  <2>1. Typed' /\ faults \in Nat /\ faults' \in Nat
    BY TypedNext, SessionAssumption DEF Typed, Contents
  <2>2. CASE faults > 0
    BY <2>1, <2>2, Remembered
  <2>3. CASE faults = 0 /\ IInv /\ Dialogue
    <3>1. [Straight]_vars
      BY <2>3, NoMisread DEF Next, Straight
    <3> QED  BY <2>1, <2>3, <3>1, InvNext, DialogueNext
  <2> QED  BY <2>1, <2>2, <2>3
<1>3. Inv => InStep
  <2>1. faults > 0 => InStep
    BY DEF InStep
  <2> QED  BY <2>1, DialogueInStep
<1> QED  BY <1>1, <1>2, <1>3, PTL DEF Spec

=============================================================================
