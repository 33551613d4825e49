------------------------- MODULE FileExchangeProofs -------------------------
(***************************************************************************)
(* Proofs about FileExchange, for every folder, every content and every    *)
(* block size, with a user who edits what is being sent (Racy) or not:     *)
(* types and the order of the messages; then what an exchange delivers,    *)
(* that the final acknowledgement means the data was stored, and that an   *)
(* exchange nobody disturbs is one step of FileTransfer.                   *)
(***************************************************************************)
EXTENDS FileExchange, FolderTheorems

-----------------------------------------------------------------------------
(* Types *)

\* What sendCommand makes of the sender.
LEMMA CommandSentType ==
    ASSUME NEW s \in SenderStates, NEW c \in Commands, NEW n \in Sizes
    PROVE  [s EXCEPT !.pc = "commandSent", !.command = c, !.size = n]
             \in SenderStates
BY DEF SenderStates

LEMMA UserNodesType ==
    /\ UserNodes \subseteq Nodes
    /\ \A node \in UserNodes : node.data \in Seq(Data)
<1>1. \A c \in Contents : c \in Seq(Data) /\ c \in Seq(Units)
  BY ExchangeAssumption, SeqMonotonic DEF Units
<1>2. <<>> \in Seq(Data) /\ <<>> \in Seq(Units)
  BY EmptySeq
<1> SUFFICES ASSUME NEW node \in UserNodes
             PROVE  node \in Nodes /\ node.data \in Seq(Data)
  OBVIOUS
<1>3. CASE node \in {Absent, Directory, Other}
  <2>1. Absent \in Nodes /\ Directory \in Nodes /\ Other \in Nodes
    BY EmptySeq DEF Nodes, Kinds, Absent, Directory, Other
  <2>2. node.data = <<>>
    BY <1>3 DEF Absent, Directory, Other
  <2> QED  BY <1>2, <1>3, <2>1, <2>2
<1>4. CASE \E c \in Contents : node = File(c)
  BY <1>1, <1>4 DEF Nodes, Kinds, File
<1> QED  BY <1>3, <1>4 DEF UserNodes

\* What the sender has left to send, while it sends.
Counting ==
    /\ snd.pc \in {"open", "stream"} => snd.left <= snd.size
    /\ snd.pc = "stream" => snd.left > 0

Typed == TypeOK /\ Counting

LEMMA TypedInit == Init => Typed
<1> SUFFICES ASSUME Init PROVE Typed
  OBVIOUS
<1>1. src \in [Paths -> UserNodes] /\ WellFormed(src)
  BY DEF Init
<1>2. dst \in Folders /\ WellFormed(dst)
  BY UserNodesType DEF Init, Folders
<1>3. toReceiver \in Seq(Texts \cup Infos \cup Chunk) /\ toSender \in Seq(Texts)
  BY EmptySeq DEF Init
<1>4. <<>> \in Seq(Data)
  BY EmptySeq
<1>5. PICK p \in Paths :
        snd = [pc |-> "idle", path |-> p, status |-> "created",
               command |-> "FILE_DEL", size |-> 0, left |-> 0, file |-> <<>>]
  BY DEF Init
<1>6. rcv = [pc |-> "command", command |-> "", path |-> p,
             status |-> "created", left |-> 0]
  BY <1>5 DEF Init
<1>7. snd \in SenderStates /\ rcv \in ReceiverStates
  BY <1>4, <1>5, <1>6
  DEF SenderStates, ReceiverStates, Statuses, Commands, Sizes
<1> QED
  BY <1>1, <1>2, <1>3, <1>5, <1>7 DEF Init, Typed, TypeOK, Counting

LEMMA BlockSizeFits ==
    ASSUME NEW left \in Nat \ {0}
    PROVE  BlockSize(left) \in 1 .. left
BY ExchangeAssumption DEF BlockSize

\* A message appended to a channel, or taken from it, leaves it typed.
LEMMA SendType ==
    ASSUME Typed, NEW t \in Commands \cup {"ERR", "FS_ERR", "ACK", "PRESENT"}
    PROVE  /\ Append(toReceiver, Text(t)) \in Seq(Texts \cup Infos \cup Chunk)
           /\ Append(toSender, Text(t)) \in Seq(Texts)
<1>1. Text(t) \in Texts
  BY DEF Text, Texts
<1> QED  BY <1>1, AppendProperties DEF Typed, TypeOK

LEMMA ReadType ==
    ASSUME Typed
    PROVE  /\ toReceiver # <<>> => /\ Head(toReceiver) \in Texts \cup Infos \cup Chunk
                                   /\ Tail(toReceiver) \in Seq(Texts \cup Infos \cup Chunk)
           /\ toSender # <<>> => /\ Head(toSender) \in Texts
                                 /\ Tail(toSender) \in Seq(Texts)
BY HeadTailProperties DEF Typed, TypeOK

LEMMA SenderTyped ==
    ASSUME Typed, Sender
    PROVE  Typed'
<1> USE DEF Typed, TypeOK, Counting
<1>1. CASE CheckDirectory
  <2>1. Append(toReceiver, Text("DIRECTORY")) \in Seq(Texts \cup Infos \cup Chunk)
    BY SendType DEF Commands
  <2>2. snd' \in SenderStates
    <3>1. "DIRECTORY" \in Commands /\ 0 \in Sizes
      BY DEF Commands, Sizes
    <3>2. [snd EXCEPT !.pc = "isRegularFile"] \in SenderStates
      BY DEF SenderStates
    <3>3. [snd EXCEPT !.pc = "commandSent", !.command = "DIRECTORY", !.size = 0]
            \in SenderStates
      BY <3>1, CommandSentType
    <3> QED  BY <1>1, <3>2, <3>3 DEF CheckDirectory, SendCommand
  <2>3. snd'.pc \notin {"open", "stream"}
    BY <1>1 DEF CheckDirectory, SendCommand, SenderStates
  <2> QED  BY <1>1, <2>1, <2>2, <2>3 DEF CheckDirectory, SendCommand
<1>2. CASE CheckRegularFile
  <2>1. snd' \in SenderStates /\ snd'.pc \notin {"open", "stream"}
    BY <1>2 DEF CheckRegularFile, SenderStates
  <2> QED  BY <1>2, <2>1 DEF CheckRegularFile
<1>3. CASE ReadFileSize
  <2>1. Append(toReceiver, Text("FILE")) \in Seq(Texts \cup Infos \cup Chunk)
    BY SendType DEF Commands
  <2>2. GetFileSize(src, snd.path) \in Sizes
    BY UserNodesType, LenProperties DEF GetFileSize, Sizes
  <2>3. snd' \in SenderStates /\ snd'.pc \notin {"open", "stream"}
    BY <1>3, <2>2 DEF ReadFileSize, SendCommand, SenderStates, Commands
  <2> QED  BY <1>3, <2>1, <2>3 DEF ReadFileSize, SendCommand
<1>4. CASE CheckExists
  <2>1. /\ Append(toReceiver, Text("FILE_DEL")) \in Seq(Texts \cup Infos \cup Chunk)
        /\ Append(toReceiver, Text("ERR")) \in Seq(Texts \cup Infos \cup Chunk)
    BY SendType DEF Commands
  <2>2. snd' \in SenderStates /\ snd'.pc \notin {"open", "stream"}
    <3>1. "FILE_DEL" \in Commands /\ 0 \in Sizes
      BY DEF Commands, Sizes
    <3>2. [snd EXCEPT !.pc = "threw"] \in SenderStates
      BY DEF SenderStates
    <3>3. [snd EXCEPT !.pc = "commandSent", !.command = "FILE_DEL", !.size = 0]
            \in SenderStates
      BY <3>1, CommandSentType
    <3>4. snd' \in SenderStates
      BY <1>4, <3>2, <3>3 DEF CheckExists, SendCommand
    <3>5. snd'.pc \notin {"open", "stream"}
      BY <1>4 DEF CheckExists, SendCommand, SenderStates
    <3> QED  BY <3>4, <3>5
  <2> QED  BY <1>4, <2>1, <2>2 DEF CheckExists, SendCommand
<1>5. CASE AwaitCommandAck
  <2>1. Info(snd.path, snd.status, snd.size) \in Infos
    BY DEF Info, Infos, SenderStates
  <2>2. Append(toReceiver, Info(snd.path, snd.status, snd.size))
          \in Seq(Texts \cup Infos \cup Chunk)
    BY <2>1, AppendProperties
  <2>3. snd' \in SenderStates /\ snd'.pc \notin {"open", "stream"}
    BY <1>5 DEF AwaitCommandAck, SenderStates
  <2> QED  BY <1>5, <2>2, <2>3, ReadType DEF AwaitCommandAck
<1>6. CASE AwaitInfoAck
  <2>1. snd' \in SenderStates /\ snd'.pc # "stream"
    BY <1>6 DEF AwaitInfoAck, SenderStates, Sizes
  <2>2. snd'.pc = "open" => snd'.left <= snd'.size
    BY <1>6 DEF AwaitInfoAck, SenderStates, Sizes
  <2>3. slipped' \in BOOLEAN
    BY <1>6 DEF AwaitInfoAck
  <2> QED  BY <1>6, <2>1, <2>2, <2>3, ReadType DEF AwaitInfoAck
<1>7. CASE OpenFile
  <2>1. src[snd.path].data \in Seq(Data)
    BY UserNodesType DEF SenderStates
  <2>2. snd' \in SenderStates
    BY <1>7, <2>1 DEF OpenFile, SenderStates
  <2>3. /\ snd'.left <= snd'.size
        /\ snd'.pc = "stream" => snd'.left > 0
    BY <1>7 DEF OpenFile, SenderStates
  <2> QED  BY <1>7, <2>2, <2>3 DEF OpenFile
<1>8. CASE SendBlock
  <2> DEFINE num == BlockSize(snd.left)
             sent == snd.size - snd.left
             block == [i \in 1 .. num |-> Unit(snd.file[sent + i])]
  <2>1. snd.left \in Nat \ {0} /\ snd.size \in Nat /\ sent \in Nat
    BY <1>8 DEF SendBlock, Sizes, SenderStates
  <2>2. num \in 1 .. snd.left
    BY <2>1, BlockSizeFits
  <2>3. ASSUME NEW i \in 1 .. num
        PROVE  Unit(snd.file[sent + i]) \in Texts \cup Infos \cup Chunk
    <3>1. sent + i \in 1 .. Len(snd.file)
      BY <1>8, <2>1, <2>2, LenProperties DEF SendBlock, SenderStates
    <3>2. snd.file[sent + i] \in Data
      BY <3>1, ElementOfSeq DEF SenderStates
    <3> QED  BY <3>2 DEF Unit, Chunk
  <2>4. block \in Seq(Texts \cup Infos \cup Chunk)
    BY <2>2, <2>3, IsASeq
  <2>5. toReceiver \o block \in Seq(Texts \cup Infos \cup Chunk)
    BY <2>4, ConcatProperties
  <2>6. snd.left - num \in Nat /\ snd.left - num <= snd.size
    BY <2>1, <2>2
  <2>7. num < snd.left => snd.left - num > 0
    BY <2>1, <2>2
  <2>8. snd' = [snd EXCEPT !.left = @ - num,
                           !.pc = IF num < snd.left THEN "stream" ELSE "final"]
    BY <1>8 DEF SendBlock
  <2>9. snd' \in SenderStates
    BY <2>6, <2>8 DEF SenderStates, Sizes
  <2>10. /\ snd'.left <= snd'.size
         /\ snd'.pc = "stream" => snd'.left > 0
    BY <2>6, <2>7, <2>8 DEF SenderStates
  <2> QED  BY <1>8, <2>5, <2>9, <2>10 DEF SendBlock
<1>9. CASE SendBlockFails
  <2>1. Append(toReceiver, Text("FS_ERR")) \in Seq(Texts \cup Infos \cup Chunk)
    BY SendType
  <2>2. snd' \in SenderStates /\ snd'.pc \notin {"open", "stream"}
    BY <1>9 DEF SendBlockFails, SenderStates
  <2> QED  BY <1>9, <2>1, <2>2 DEF SendBlockFails
<1>10. CASE AwaitFsErrReply
  <2>1. snd' \in SenderStates /\ snd'.pc \notin {"open", "stream"}
    BY <1>10 DEF AwaitFsErrReply, SenderStates
  <2> QED  BY <1>10, <2>1, ReadType DEF AwaitFsErrReply
<1>11. CASE AwaitFinalAck
  <2>1. snd' \in SenderStates /\ snd'.pc \notin {"open", "stream"}
    BY <1>11 DEF AwaitFinalAck, SenderStates
  <2> QED  BY <1>11, <2>1, ReadType DEF AwaitFinalAck
<1> QED
  BY <1>1, <1>2, <1>3, <1>4, <1>5, <1>6, <1>7, <1>8, <1>9, <1>10, <1>11 DEF Sender

LEMMA ReceiverTyped ==
    ASSUME Typed, Receiver
    PROVE  Typed'
<1> USE DEF Typed, TypeOK, Counting
<1>0. /\ Append(toSender, Text("ACK")) \in Seq(Texts)
      /\ Append(toSender, Text("PRESENT")) \in Seq(Texts)
  BY SendType
<1>1. CASE ReceiveCommand
  <2>1. rcv' \in ReceiverStates
    BY <1>1, ReadType DEF ReceiveCommand, ReceiverStates, Texts, Infos, Chunk
  <2> QED  BY <1>1, <1>0, <2>1, ReadType DEF ReceiveCommand, Reply
<1>2. CASE ReceiveInfo
  <2> DEFINE i == Head(toReceiver)
  <2>1. i \in Infos
    BY <1>2, ReadType DEF ReceiveInfo, Texts, Infos, Chunk
  <2>2. i.path \in Paths /\ i.status \in Statuses /\ i.size \in Sizes
    BY <2>1 DEF Infos
  <2>3. /\ Apply(dst, rcv.command, i.status, i.path) \in Folders
        /\ WellFormed(Apply(dst, rcv.command, i.status, i.path))
    BY <2>2, WriteDirectoryType, DeleteFileType DEF Apply
  <2>4. rcv' \in ReceiverStates
    <3>1. ExpectsData(rcv.command, i.status, i.size) => i.size \in Nat
      BY <2>2 DEF ExpectsData, Sizes
    <3>2. PICK n \in Nat :
            rcv' = [rcv EXCEPT !.pc = "data", !.path = i.path,
                               !.status = i.status, !.left = n]
      BY <1>2, <3>1 DEF ReceiveInfo
    <3> QED  BY <2>2, <3>2 DEF ReceiverStates
  <2>5. dst' \in Folders /\ WellFormed(dst')
    BY <1>2, <2>3 DEF ReceiveInfo
  <2> QED  BY <1>2, <1>0, <2>4, <2>5, ReadType DEF ReceiveInfo, Reply
<1>3. CASE ReceiveData
  <2> DEFINE m == Head(toReceiver)
             unit == IF m.type = "data" THEN m.unit ELSE Junk
  <2>1. unit \in Units
    BY <1>3, ReadType DEF ReceiveData, Texts, Infos, Chunk, Units
  <2>2. /\ WriteFile(dst, rcv.path, unit) \in Folders
        /\ WellFormed(WriteFile(dst, rcv.path, unit))
    BY <2>1, WriteFileType DEF ReceiverStates
  <2>3. rcv' \in ReceiverStates
    <3>1. rcv.left - 1 \in Nat
      <4>1. rcv.left \in Nat
        BY DEF ReceiverStates
      <4>2. rcv.left > 0
        BY <1>3 DEF ReceiveData
      <4> QED  BY <4>1, <4>2
    <3>2. rcv' = [rcv EXCEPT !.left = rcv.left - 1]
      BY <1>3 DEF ReceiveData
    <3> QED  BY <3>1, <3>2 DEF ReceiverStates
  <2> QED  BY <1>3, <2>2, <2>3, ReadType DEF ReceiveData
<1>4. CASE SendFinalAck
  <2>1. rcv' \in ReceiverStates
    BY <1>4 DEF SendFinalAck, ReceiverStates
  <2> QED  BY <1>4, <1>0, <2>1 DEF SendFinalAck, Reply
<1> QED  BY <1>1, <1>2, <1>3, <1>4 DEF Receiver

LEMMA TypedNext == Typed /\ [Next]_vars => Typed'
<1> SUFFICES ASSUME Typed, [Next]_vars PROVE Typed'
  OBVIOUS
<1>1. ASSUME NEW p \in Paths, NEW s \in Statuses, Start(p, s)
      PROVE  Typed'
  <2>1. <<>> \in Seq(Data)
    BY EmptySeq
  <2>2. snd' \in SenderStates /\ snd'.pc \notin {"open", "stream"}
    BY <1>1, <2>1 DEF Start, SenderStates, Commands, Sizes
  <2> QED  BY <1>1, <2>2 DEF Start, Typed, TypeOK, Counting
<1>2. CASE SocketClosed
  <2>1. snd' \in SenderStates /\ rcv' \in ReceiverStates
    BY <1>2 DEF SocketClosed, Typed, TypeOK, SenderStates, ReceiverStates
  <2>2. snd' = snd \/ snd'.pc = "threw"
    BY <1>2 DEF SocketClosed, Typed, TypeOK, SenderStates
  <2> QED  BY <1>2, <2>1, <2>2 DEF SocketClosed, Typed, TypeOK, Counting
<1>3. ASSUME NEW p \in Paths, NEW node \in UserNodes, Edit(p, node)
      PROVE  Typed'
  <2>1. src \in Folders
    BY UserNodesType DEF Typed, TypeOK, Folders
  <2>2. Put(src, p, node) \in [Paths -> UserNodes]
    BY <1>3 DEF Typed, TypeOK, Put, DeleteFile, UserNodes
  <2>3. WellFormed(Put(src, p, node))
    BY <1>3, <2>1, PutWellFormed DEF Edit, CanPut, Typed, TypeOK
  <2>4. node.data \in Seq(Data)
    BY UserNodesType
  <2>5. /\ snd' \in SenderStates /\ snd'.pc = snd.pc
        /\ snd'.left = snd.left /\ snd'.size = snd.size
    BY <1>3, <2>4 DEF Edit, Typed, TypeOK, SenderStates
  <2>6. touched' \in BOOLEAN
    BY <1>3 DEF Edit, InTransit
  <2> QED
    BY <1>3, <2>2, <2>3, <2>5, <2>6 DEF Edit, Typed, TypeOK, Counting
<1>4. CASE UNCHANGED vars
  BY <1>4 DEF vars, Typed, TypeOK, Counting
<1> QED
  BY <1>1, <1>2, <1>3, <1>4, SenderTyped, ReceiverTyped DEF Next, Finished

\* No step of either program, of the user or of a failing connection leaves
\* the types; folders stay well formed, and a sender in its loop always has
\* a block to send (Exchanger.cpp:175).
THEOREM TypeCorrect == Spec => []TypeOK
<1>1. Spec => []Typed
  BY TypedInit, TypedNext, PTL DEF Spec
<1>2. Typed => TypeOK
  BY DEF Typed
<1> QED  BY <1>1, <1>2, PTL

-----------------------------------------------------------------------------
(* Who may write and what is on the connection, phase by phase *)

\* What this end reads for the data once the reply is r.
Wanted(r) ==
    IF r = Text("ACK") /\ ExpectsData(snd.command, snd.status, snd.size)
      THEN snd.size ELSE 0

\* What the sender still has to write.
Remaining == IF snd.pc # "final" /\ snd.left > 0 THEN snd.left ELSE 0

Replies == {Text("ACK"), Text("PRESENT")}

PhaseBetween ==
    BetweenExchanges =>
      toReceiver = <<>> /\ toSender = <<>> /\ rcv.pc = "command"

PhaseCommand ==
    snd.pc = "commandSent" =>
      \/ /\ toReceiver = <<Text(snd.command)>> /\ toSender = <<>>
         /\ rcv.pc = "command"
      \/ /\ toReceiver = <<>> /\ toSender = <<Text("ACK")>>
         /\ rcv.pc = "info" /\ rcv.command = snd.command

PhaseInfo ==
    snd.pc = "infoSent" =>
      \/ /\ toReceiver = <<Info(snd.path, snd.status, snd.size)>>
         /\ toSender = <<>>
         /\ rcv.pc = "info" /\ rcv.command = snd.command
      \/ \E r \in Replies :
           /\ toReceiver = <<>> /\ toSender = <<r>>
           /\ rcv.pc = "data" /\ rcv.left = Wanted(r)
      \/ \E r \in Replies :
           /\ toReceiver = <<>> /\ toSender = <<r, Text("ACK")>>
           /\ rcv.pc = "command" /\ Wanted(r) = 0

PhaseData ==
    snd.pc \in {"open", "stream", "final"} =>
      \/ /\ rcv.pc = "data" /\ toSender = <<>>
         /\ toReceiver \in Seq(Chunk)
         /\ rcv.left = Len(toReceiver) + Remaining
      \/ /\ rcv.pc = "command" /\ toSender = <<Text("ACK")>>
         /\ toReceiver = <<>> /\ Remaining = 0

PhaseThrew ==
    snd.pc = "threw" =>
      /\ rcv.pc \in {"command", "threw"}
      /\ rcv.pc = "command" => toReceiver \in {<<>>, <<Text("ERR")>>}

\* Only a file has a size.
Sized == snd.pc \in {"commandSent", "infoSent"} /\ snd.size > 0
           => snd.command = "FILE"

(***************************************************************************)
(* The inductive invariant: as long as the two have not disagreed on the   *)
(* data, the sender's place determines what is on the connection and what  *)
(* the receiver waits for.                                                 *)
(***************************************************************************)
Phases ==
    /\ PhaseBetween /\ PhaseCommand /\ PhaseInfo /\ PhaseData /\ PhaseThrew
    /\ snd.pc # "fsErr"

Agreed == Sized /\ (~slipped => Phases)

LEMMA OneMessage ==
    ASSUME NEW x
    PROVE  /\ <<x>> # <<>> /\ Head(<<x>>) = x /\ Tail(<<x>>) = <<>>
           /\ Append(<<>>, x) = <<x>>
           /\ Len(<<x>>) = 1
OBVIOUS

LEMMA TwoMessages ==
    ASSUME NEW S, NEW x \in S, NEW y \in S
    PROVE  /\ <<x, y>> # <<>> /\ Head(<<x, y>>) = x /\ Tail(<<x, y>>) = <<y>>
           /\ Append(<<x>>, y) = <<x, y>>
<1>1. /\ <<x, y>> \in Seq(S) /\ <<x, y>> # <<>> /\ Len(<<x, y>>) = 2
      /\ <<x>> \in Seq(S) /\ <<y>> \in Seq(S) /\ Len(<<x>>) = 1
      /\ Head(<<x, y>>) = x
  OBVIOUS
<1>2. Append(<<x>>, y) = <<x, y>>
  <2>1. /\ Append(<<x>>, y) \in Seq(S) /\ Len(Append(<<x>>, y)) = 2
        /\ Append(<<x>>, y)[1] = x /\ Append(<<x>>, y)[2] = y
    BY <1>1, AppendProperties
  <2>2. \A i \in 1 .. 2 : Append(<<x>>, y)[i] = <<x, y>>[i]
    BY <2>1
  <2> QED  BY <1>1, <2>1, <2>2, SeqEqual
<1>3. Tail(<<x, y>>) = <<y>>
  <2>1. Tail(<<x, y>>) \in Seq(S) /\ Len(Tail(<<x, y>>)) = 1
    BY <1>1, HeadTailProperties
  <2>2. Tail(<<x, y>>)[1] = y
    BY <1>1, <2>1, HeadTailProperties
  <2> QED  BY <2>1, <2>2, SeqEqual
<1> QED  BY <1>1, <1>2, <1>3

LEMMA AgreedInit == Init => Agreed
<1> SUFFICES ASSUME Init PROVE Agreed
  OBVIOUS
<1>1. snd.pc = "idle" /\ rcv.pc = "command" /\ toReceiver = <<>> /\ toSender = <<>>
  <2>1. PICK p \in Paths :
          snd = [pc |-> "idle", path |-> p, status |-> "created",
                 command |-> "FILE_DEL", size |-> 0, left |-> 0, file |-> <<>>]
    BY DEF Init
  <2> QED  BY <2>1 DEF Init
<1> QED
  BY <1>1 DEF Agreed, Sized, Phases, PhaseBetween, PhaseCommand, PhaseInfo,
              PhaseData, PhaseThrew

\* The size in a file info was taken of a file.
LEMMA SizedNext == Typed /\ Sized /\ [Next]_vars => Sized'
<1> SUFFICES ASSUME Typed, Sized, [Next]_vars,
                    snd'.pc \in {"commandSent", "infoSent"}, snd'.size > 0
             PROVE  snd'.command = "FILE"
  BY DEF Sized
<1> USE DEF Typed, TypeOK, SenderStates
<1>1. CASE UNCHANGED snd
  BY <1>1 DEF Sized
<1>2. CASE CheckDirectory \/ CheckExists
  <2>1. snd'.size = 0 \/ snd'.pc \in {"isRegularFile", "threw"}
    BY <1>2 DEF CheckDirectory, CheckExists, SendCommand
  <2> QED  BY <2>1
<1>3. CASE ReadFileSize
  BY <1>3 DEF ReadFileSize, SendCommand
<1>4. CASE AwaitCommandAck
  BY <1>4 DEF AwaitCommandAck, Sized
<1>5. CASE \/ CheckRegularFile \/ AwaitInfoAck \/ OpenFile \/ SendBlock
           \/ SendBlockFails \/ AwaitFsErrReply \/ AwaitFinalAck \/ SocketClosed
           \/ \E p \in Paths, s \in Statuses : Start(p, s)
  <2>1. CASE CheckRegularFile
    BY <2>1 DEF CheckRegularFile
  <2>2. CASE AwaitInfoAck
    BY <2>2 DEF AwaitInfoAck
  <2>3. CASE OpenFile \/ SendBlock
    BY <2>3 DEF OpenFile, SendBlock
  <2>4. CASE SendBlockFails \/ AwaitFsErrReply \/ AwaitFinalAck
    BY <2>4 DEF SendBlockFails, AwaitFsErrReply, AwaitFinalAck
  <2>5. CASE SocketClosed
    BY <2>5, <1>1 DEF SocketClosed
  <2>6. CASE \E p \in Paths, s \in Statuses : Start(p, s)
    BY <2>6 DEF Start
  <2> QED  BY <1>5, <2>1, <2>2, <2>3, <2>4, <2>5, <2>6
<1>6. CASE \E p \in Paths, node \in UserNodes : Edit(p, node)
  <2>1. /\ snd'.pc = snd.pc /\ snd'.size = snd.size
        /\ snd'.command = snd.command
    BY <1>6 DEF Edit
  <2> QED  BY <2>1 DEF Sized
<1>7. CASE Receiver \/ Finished \/ UNCHANGED vars
  BY <1>7, <1>1 DEF Receiver, ReceiveCommand, ReceiveInfo, ReceiveData,
     SendFinalAck, Finished, vars
<1> QED
  BY <1>1, <1>2, <1>3, <1>4, <1>5, <1>6, <1>7 DEF Next, Sender

LEMMA PhasesSender ==
    ASSUME Typed, Sized, Phases, ~slipped', Sender
    PROVE  Phases'
<1> USE DEF Phases, PhaseBetween, BetweenExchanges, PhaseCommand, PhaseInfo,
            PhaseData, PhaseThrew
<1>0. snd \in SenderStates
  BY DEF Typed, TypeOK
<1>1. CASE CheckDirectory
  <2>1. toReceiver = <<>> /\ toSender = <<>> /\ rcv.pc = "command"
    BY <1>1 DEF CheckDirectory
  <2>2. CASE IsDirectory(src, snd.path)
    <3>1. /\ snd'.pc = "commandSent" /\ snd'.command = "DIRECTORY"
          /\ toReceiver' = <<Text("DIRECTORY")>>
      BY <1>0, <1>1, <2>1, <2>2, OneMessage
      DEF CheckDirectory, SendCommand, SenderStates
    <3> QED  BY <1>1, <2>1, <3>1 DEF CheckDirectory
  <2>3. CASE ~IsDirectory(src, snd.path)
    BY <1>0, <1>1, <2>1, <2>3 DEF CheckDirectory, SenderStates
  <2> QED  BY <2>2, <2>3
<1>2. CASE CheckRegularFile
  BY <1>0, <1>2 DEF CheckRegularFile, SenderStates
<1>3. CASE ReadFileSize
  <2>1. toReceiver = <<>> /\ toSender = <<>> /\ rcv.pc = "command"
    BY <1>3 DEF ReadFileSize
  <2>2. CASE SendCommand("FILE", GetFileSize(src, snd.path))
    <3>1. /\ snd'.pc = "commandSent" /\ snd'.command = "FILE"
          /\ toReceiver' = <<Text("FILE")>>
      BY <1>0, <2>1, <2>2, OneMessage DEF SendCommand, SenderStates
    <3> QED  BY <1>3, <2>1, <3>1 DEF ReadFileSize
  <2>3. CASE snd' = [snd EXCEPT !.pc = "threw"] /\ UNCHANGED toReceiver
    BY <1>0, <1>3, <2>1, <2>3 DEF ReadFileSize, SenderStates
  <2> QED  BY <1>3, <2>2, <2>3 DEF ReadFileSize
<1>4. CASE CheckExists
  <2>1. toReceiver = <<>> /\ toSender = <<>> /\ rcv.pc = "command"
    BY <1>4 DEF CheckExists
  <2>2. CASE ~Exists(src, snd.path)
    <3>1. /\ snd'.pc = "commandSent" /\ snd'.command = "FILE_DEL"
          /\ toReceiver' = <<Text("FILE_DEL")>>
      BY <1>0, <1>4, <2>1, <2>2, OneMessage
      DEF CheckExists, SendCommand, SenderStates
    <3> QED  BY <1>4, <2>1, <3>1 DEF CheckExists
  <2>3. CASE Exists(src, snd.path)
    <3>1. snd'.pc = "threw" /\ toReceiver' = <<Text("ERR")>>
      BY <1>0, <1>4, <2>1, <2>3, OneMessage DEF CheckExists, SenderStates
    <3> QED  BY <1>4, <2>1, <3>1 DEF CheckExists
  <2> QED  BY <2>2, <2>3
<1>5. CASE AwaitCommandAck
  <2>1. /\ toReceiver = <<>> /\ toSender = <<Text("ACK")>>
        /\ rcv.pc = "info" /\ rcv.command = snd.command
    BY <1>5 DEF AwaitCommandAck
  <2>2. /\ toReceiver' = <<Info(snd.path, snd.status, snd.size)>>
        /\ toSender' = <<>>
    BY <1>5, <2>1, OneMessage DEF AwaitCommandAck
  <2>3. /\ snd'.pc = "infoSent" /\ snd'.path = snd.path
        /\ snd'.status = snd.status /\ snd'.size = snd.size
        /\ snd'.command = snd.command
    BY <1>0, <1>5 DEF AwaitCommandAck, SenderStates
  <2> QED  BY <1>5, <2>1, <2>2, <2>3 DEF AwaitCommandAck
<1>6. CASE AwaitInfoAck
  <2> DEFINE r == Head(toSender)
             sends == r = Text("ACK") /\ IsRegularFile(src, snd.path)
  <2>1. /\ toReceiver = <<>> /\ r \in Replies
        /\ \/ rcv.pc = "data" /\ rcv.left = Wanted(r) /\ toSender' = <<>>
           \/ rcv.pc = "command" /\ Wanted(r) = 0 /\ toSender' = <<Text("ACK")>>
    <3>1. CASE \E x \in Replies :
                 /\ toReceiver = <<>> /\ toSender = <<x>>
                 /\ rcv.pc = "data" /\ rcv.left = Wanted(x)
      BY <1>6, <3>1, OneMessage DEF AwaitInfoAck
    <3>2. CASE \E x \in Replies :
                 /\ toReceiver = <<>> /\ toSender = <<x, Text("ACK")>>
                 /\ rcv.pc = "command" /\ Wanted(x) = 0
      <4>1. Text("ACK") \in Replies
        BY DEF Replies
      <4> QED  BY <1>6, <3>2, <4>1, TwoMessages DEF AwaitInfoAck
    <3> QED  BY <1>6, <3>1, <3>2 DEF AwaitInfoAck
  <2>2. /\ snd'.pc = IF sends THEN "open" ELSE "final"
        /\ snd'.left = IF sends THEN snd.size ELSE 0
    BY <1>0, <1>6 DEF AwaitInfoAck, SenderStates
  <2>3. Remaining' = IF sends /\ snd.size > 0 THEN snd.size ELSE 0
    BY <2>2 DEF Remaining
  <2>4. Wanted(r) = Remaining'
    <3>1. snd.size > 0 => snd.command = "FILE"
      BY <1>6 DEF AwaitInfoAck, Sized
    <3>2. r = Text("ACK") /\ snd.size > 0 => (sends <=> snd.status # "erased")
      BY <1>6 DEF AwaitInfoAck
    <3>3. snd.status \in Statuses
      BY <1>0 DEF SenderStates
    <3> QED  BY <2>3, <3>1, <3>2, <3>3 DEF Wanted, ExpectsData, Statuses
  <2>5. toReceiver' = <<>> /\ rcv' = rcv
    BY <1>6, <2>1 DEF AwaitInfoAck
  <2>6. <<>> \in Seq(Chunk) /\ Len(<<>>) = 0
    BY EmptySeq
  <2>7. Remaining' \in Nat
    BY <1>0, <2>3 DEF SenderStates, Sizes
  <2> QED  BY <2>1, <2>2, <2>4, <2>5, <2>6, <2>7
<1>7. CASE OpenFile
  <2>1. snd'.pc = (IF snd.left > 0 THEN "stream" ELSE "final") /\ snd'.left = snd.left
    BY <1>0, <1>7 DEF OpenFile, SenderStates
  <2>2. Remaining' = Remaining
    BY <1>7, <2>1 DEF Remaining, OpenFile
  <2> QED  BY <1>7, <2>1, <2>2 DEF OpenFile
<1>8. CASE SendBlock
  <2> DEFINE num == BlockSize(snd.left)
             sent == snd.size - snd.left
             block == [i \in 1 .. num |-> Unit(snd.file[sent + i])]
  <2>1. snd.left \in Nat \ {0} /\ snd.size \in Nat /\ sent \in Nat
    BY <1>0, <1>8 DEF SendBlock, Sizes, SenderStates, Typed, Counting
  <2>2. num \in 1 .. snd.left
    BY <2>1, BlockSizeFits
  <2>3. /\ snd'.pc = (IF num < snd.left THEN "stream" ELSE "final")
        /\ snd'.left = snd.left - num
    BY <1>0, <1>8 DEF SendBlock, SenderStates
  <2>4. Remaining = snd.left /\ Remaining' = snd.left - num
    BY <1>8, <2>1, <2>2, <2>3 DEF Remaining, SendBlock
  <2>5. /\ rcv.pc = "data" /\ toSender = <<>> /\ toReceiver \in Seq(Chunk)
        /\ rcv.left = Len(toReceiver) + snd.left
    BY <1>8, <2>1, <2>4 DEF SendBlock
  <2>6. block \in Seq(Chunk) /\ Len(block) = num
    <3>1. ASSUME NEW i \in 1 .. num
          PROVE  Unit(snd.file[sent + i]) \in Chunk
      <4>1. sent + i \in 1 .. Len(snd.file)
        BY <1>0, <1>8, <2>1, <2>2, LenProperties DEF SendBlock, SenderStates
      <4>2. snd.file[sent + i] \in Data
        BY <1>0, <4>1, ElementOfSeq DEF SenderStates
      <4> QED  BY <4>2 DEF Unit, Chunk
    <3> QED  BY <2>2, <3>1, IsASeq
  <2>7. /\ toReceiver \o block \in Seq(Chunk)
        /\ Len(toReceiver \o block) = Len(toReceiver) + num
    <3> HIDE DEF block
    <3>1. /\ toReceiver \o block \in Seq(Chunk)
          /\ Len(toReceiver \o block) = Len(toReceiver) + Len(block)
      BY <2>5, <2>6, ConcatProperties
    <3> QED  BY <2>6, <3>1
  <2>8. Len(toReceiver) \in Nat
    BY <2>5, LenProperties
  <2>9. rcv.left = (Len(toReceiver) + num) + (snd.left - num)
    BY <2>1, <2>2, <2>5, <2>8
  <2>10. toReceiver' = toReceiver \o block /\ rcv' = rcv /\ toSender' = toSender
    BY <1>8 DEF SendBlock
  <2>11. /\ rcv'.pc = "data" /\ toSender' = <<>> /\ toReceiver' \in Seq(Chunk)
         /\ rcv'.left = Len(toReceiver') + Remaining'
    <3> HIDE DEF block
    <3> QED  BY <2>4, <2>5, <2>7, <2>9, <2>10
  <2> QED  BY <2>3, <2>11
<1>9. CASE SendBlockFails \/ AwaitFsErrReply
  BY <1>9 DEF SendBlockFails, AwaitFsErrReply
<1>10. CASE AwaitFinalAck
  <2>1. /\ rcv.pc = "command" /\ toSender = <<Text("ACK")>>
        /\ toReceiver = <<>>
    BY <1>10 DEF AwaitFinalAck
  <2>2. snd'.pc = "idle" /\ toSender' = <<>>
    BY <1>0, <1>10, <2>1, OneMessage DEF AwaitFinalAck, SenderStates
  <2> QED  BY <1>10, <2>1, <2>2 DEF AwaitFinalAck
<1> QED
  BY <1>1, <1>2, <1>3, <1>4, <1>5, <1>6, <1>7, <1>8, <1>9, <1>10 DEF Sender

LEMMA PhasesReceiver ==
    ASSUME Typed, Phases, Receiver
    PROVE  Phases'
<1> USE DEF Phases, PhaseBetween, BetweenExchanges, PhaseCommand, PhaseInfo,
            PhaseData, PhaseThrew
<1>0. /\ snd \in SenderStates /\ rcv \in ReceiverStates
      /\ snd.pc # "fsErr"
  BY DEF Typed, TypeOK
<1>1. CASE ReceiveCommand
  <2> DEFINE m == Head(toReceiver)
  <2>0. snd' = snd /\ rcv.pc = "command" /\ toReceiver # <<>>
    BY <1>1 DEF ReceiveCommand
  <2>1. CASE snd.pc = "commandSent"
    <3>1. toReceiver = <<Text(snd.command)>> /\ toSender = <<>>
      BY <2>0, <2>1
    <3>2. m.type = "text" /\ m.text = snd.command
      BY <3>1, OneMessage DEF Text
    <3>3. snd.command \notin {"ERR", "FS_ERR"}
      BY <1>0 DEF SenderStates, Commands
    <3>4. toReceiver' = <<>> /\ toSender' = <<Text("ACK")>>
      BY <1>1, <3>1, <3>2, OneMessage DEF ReceiveCommand, Reply
    <3>5. rcv'.pc = "info" /\ rcv'.command = snd.command
      BY <1>0, <1>1, <3>2, <3>3 DEF ReceiveCommand, ReceiverStates
    <3> QED  BY <2>0, <2>1, <3>4, <3>5
  <2>2. CASE snd.pc = "threw"
    <3>1. toReceiver = <<Text("ERR")>>
      BY <2>0, <2>2
    <3>2. m.type = "text" /\ m.text = "ERR"
      BY <3>1, OneMessage DEF Text
    <3>3. rcv'.pc = "threw"
      BY <1>0, <1>1, <3>2 DEF ReceiveCommand, ReceiverStates
    <3> QED  BY <2>0, <2>2, <3>3
  <2> QED  BY <1>0, <2>0, <2>1, <2>2 DEF SenderStates
<1>2. CASE ReceiveInfo
  <2> DEFINE i == Head(toReceiver)
             refused == Refuses(dst, i.status, i.path)
  <2>0. snd' = snd /\ rcv.pc = "info" /\ toReceiver # <<>>
    BY <1>2 DEF ReceiveInfo
  <2>1. snd.pc = "infoSent"
    BY <1>0, <2>0 DEF SenderStates
  <2>2. /\ toReceiver = <<Info(snd.path, snd.status, snd.size)>>
        /\ toSender = <<>> /\ rcv.command = snd.command
    BY <2>0, <2>1
  <2>3. i = Info(snd.path, snd.status, snd.size)
    BY <2>2, OneMessage
  <2>4. i.path = snd.path /\ i.status = snd.status /\ i.size = snd.size
    BY <2>3 DEF Info
  <2>5. PICK r \in Replies :
          /\ toReceiver' = <<>> /\ toSender' = <<r>>
          /\ r = Text("ACK") <=> ~refused
    <3>1. /\ toReceiver' = <<>>
          /\ toSender' = <<Text(IF refused THEN "PRESENT" ELSE "ACK")>>
      BY <1>2, <2>2, OneMessage DEF ReceiveInfo, Reply
    <3>2. Text("ACK") # Text("PRESENT")
      BY DEF Text
    <3> QED  BY <3>1, <3>2 DEF Replies
  <2>6. rcv'.pc = "data" /\
        rcv'.left = IF ~refused /\ ExpectsData(rcv.command, i.status, i.size)
                      THEN i.size ELSE 0
    BY <1>0, <1>2 DEF ReceiveInfo, ReceiverStates
  <2>7. rcv'.left = Wanted(r)'
    BY <2>0, <2>2, <2>4, <2>5, <2>6 DEF Wanted
  <2> QED  BY <2>0, <2>1, <2>5, <2>6, <2>7
<1>3. CASE ReceiveData
  <2>0. snd' = snd /\ rcv.pc = "data" /\ toReceiver # <<>> /\ toSender' = toSender
    BY <1>3 DEF ReceiveData
  <2>1. snd.pc \in {"open", "stream", "final"}
    BY <1>0, <2>0 DEF SenderStates
  <2>2. /\ toSender = <<>> /\ toReceiver \in Seq(Chunk)
        /\ rcv.left = Len(toReceiver) + Remaining
    BY <2>0, <2>1
  <2>3. /\ toReceiver' \in Seq(Chunk) /\ Len(toReceiver') = Len(toReceiver) - 1
    BY <1>3, <2>0, <2>2, HeadTailProperties DEF ReceiveData
  <2>4. rcv'.pc = "data" /\ rcv'.left = rcv.left - 1
    BY <1>0, <1>3, <2>0 DEF ReceiveData, ReceiverStates
  <2>5. Remaining' = Remaining /\ Remaining \in Int /\ Len(toReceiver) \in Nat
    BY <1>0, <2>0, <2>2, LenProperties DEF Remaining, SenderStates, Sizes
  <2>6. rcv'.left = Len(toReceiver') + Remaining'
    BY <2>2, <2>3, <2>4, <2>5
  <2> QED  BY <2>0, <2>1, <2>2, <2>3, <2>4, <2>6
<1>4. CASE SendFinalAck
  <2>0. /\ snd' = snd /\ rcv.pc = "data" /\ rcv.left = 0
        /\ toReceiver' = toReceiver
    BY <1>4 DEF SendFinalAck
  <2>1. rcv'.pc = "command" /\ toSender' = Append(toSender, Text("ACK"))
    BY <1>0, <1>4 DEF SendFinalAck, Reply, ReceiverStates
  <2>2. CASE snd.pc = "infoSent"
    <3>1. PICK r \in Replies :
            toReceiver = <<>> /\ toSender = <<r>> /\ rcv.left = Wanted(r)
      BY <2>0, <2>2
    <3>2. Text("ACK") \in Replies
      BY DEF Replies
    <3>3. toSender' = <<r, Text("ACK")>>
      BY <2>1, <3>1, <3>2, TwoMessages
    <3>4. Wanted(r)' = Wanted(r)
      BY <2>0 DEF Wanted
    <3> QED  BY <2>0, <2>1, <2>2, <3>1, <3>3, <3>4
  <2>3. CASE snd.pc \in {"open", "stream", "final"}
    <3>1. /\ toSender = <<>> /\ toReceiver \in Seq(Chunk)
          /\ 0 = Len(toReceiver) + Remaining
      BY <2>0, <2>3
    <3>2. Remaining \in Nat /\ Len(toReceiver) \in Nat
      BY <1>0, <3>1, LenProperties DEF Remaining, SenderStates, Sizes
    <3>3. Remaining = 0 /\ Len(toReceiver) = 0
      BY <3>1, <3>2
    <3>4. toReceiver = <<>>
      BY <3>1, <3>3, EmptySeq
    <3>5. toSender' = <<Text("ACK")>>
      BY <2>1, <3>1, OneMessage
    <3>6. Remaining' = Remaining
      BY <2>0 DEF Remaining
    <3> QED  BY <2>0, <2>1, <2>3, <3>3, <3>4, <3>5, <3>6
  <2> QED  BY <1>0, <2>0, <2>2, <2>3 DEF SenderStates
<1> QED  BY <1>1, <1>2, <1>3, <1>4 DEF Receiver

LEMMA AgreedNext == Typed /\ Agreed /\ [Next]_vars => Agreed'
<1> SUFFICES ASSUME Typed, Agreed, [Next]_vars PROVE Agreed'
  OBVIOUS
<1>1. Sized'
  BY SizedNext DEF Agreed
<1> SUFFICES ASSUME ~slipped' PROVE Phases'
  BY <1>1 DEF Agreed
<1>2. ~slipped
  BY DEF Next, Start, Sender, CheckDirectory, CheckRegularFile, ReadFileSize,
     CheckExists, AwaitCommandAck, AwaitInfoAck, OpenFile, SendBlock,
     SendBlockFails, AwaitFsErrReply, AwaitFinalAck, Receiver, ReceiveCommand,
     ReceiveInfo, ReceiveData, SendFinalAck, SocketClosed, Edit, Finished, vars
<1>3. Sized /\ Phases
  BY <1>2 DEF Agreed
<1>4. CASE Sender
  BY <1>3, <1>4, PhasesSender
<1>5. CASE Receiver
  BY <1>3, <1>5, PhasesReceiver
<1> USE DEF Phases, PhaseBetween, BetweenExchanges, PhaseCommand, PhaseInfo,
            PhaseData, PhaseThrew
<1>6. ASSUME NEW p \in Paths, NEW s \in Statuses, Start(p, s)
      PROVE  Phases'
  BY <1>3, <1>6 DEF Start
<1>7. CASE SocketClosed
  <2>0. snd \in SenderStates /\ rcv \in ReceiverStates
    BY DEF Typed, TypeOK
  <2>1. CASE snd.pc = "threw" /\ rcv' = [rcv EXCEPT !.pc = "threw"] /\ UNCHANGED snd
    BY <1>3, <2>0, <2>1 DEF ReceiverStates
  <2>2. rcv.pc = "threw" => snd.pc = "threw"
    BY <1>3, <2>0 DEF SenderStates
  <2> QED  BY <1>7, <2>1, <2>2 DEF SocketClosed
<1>8. ASSUME NEW p \in Paths, NEW node \in UserNodes, Edit(p, node)
      PROVE  Phases'
  <2>1. /\ snd'.pc = snd.pc /\ snd'.path = snd.path /\ snd'.status = snd.status
        /\ snd'.command = snd.command /\ snd'.size = snd.size
        /\ snd'.left = snd.left
    BY <1>8 DEF Edit, Typed, TypeOK, SenderStates
  <2>2. toReceiver' = toReceiver /\ toSender' = toSender /\ rcv' = rcv
    BY <1>8 DEF Edit
  <2>3. Remaining' = Remaining /\ \A r : Wanted(r)' = Wanted(r)
    BY <2>1 DEF Remaining, Wanted
  <2> QED  BY <1>3, <2>1, <2>2, <2>3
<1>9. CASE UNCHANGED vars
  <2>1. Remaining' = Remaining /\ \A r : Wanted(r)' = Wanted(r)
    BY <1>9 DEF Remaining, Wanted, vars
  <2> QED  BY <1>3, <1>9, <2>1 DEF vars
<1> QED
  BY <1>4, <1>5, <1>6, <1>7, <1>8, <1>9 DEF Next, Finished

LEMMA AgreedAlways == Spec => [](Typed /\ Agreed)
<1>1. Init => Typed /\ Agreed
  BY TypedInit, AgreedInit
<1>2. Typed /\ Agreed /\ [Next]_vars => (Typed /\ Agreed)'
  BY TypedNext, AgreedNext
<1> QED  BY <1>1, <1>2, PTL DEF Spec

\* However the folder is edited during an exchange, once sendFile has
\* returned (Exchanger.cpp:195) nothing of it is left on the connection and
\* receiveFile waits for a command, unless the two disagreed on the data.
THEOREM StaysInStep == Spec => []InStep
<1>1. Agreed => InStep
  BY DEF Agreed, Phases, PhaseBetween, InStep
<1> QED  BY <1>1, AgreedAlways, PTL

\* Each read of receiveFile (Exchanger.cpp:57, 68, 101) takes what was
\* written for it, for every folder, content and block size.
THEOREM ReadsAreMeant == Spec => []ReadsWhatWasMeant
<1>1. Typed /\ Agreed => ReadsWhatWasMeant
  <2> SUFFICES ASSUME Typed, Agreed, ~slipped, toReceiver # <<>>,
                      rcv.pc # "threw"
               PROVE  Head(toReceiver).type = CASE rcv.pc = "command" -> "text"
                                                [] rcv.pc = "info"    -> "file"
                                                [] rcv.pc = "data"    -> "data"
    BY DEF ReadsWhatWasMeant
  <2>1. Phases
    BY DEF Agreed
  <2>2. snd \in SenderStates /\ rcv \in ReceiverStates
    BY DEF Typed, TypeOK
  <2>3. CASE BetweenExchanges
    BY <2>1, <2>3 DEF Phases, PhaseBetween
  <2>4. CASE snd.pc = "commandSent"
    BY <2>1, <2>4, OneMessage DEF Phases, PhaseCommand, Text
  <2>5. CASE snd.pc = "infoSent"
    BY <2>1, <2>5, OneMessage DEF Phases, PhaseInfo, Info
  <2>6. CASE snd.pc \in {"open", "stream", "final"}
    <3>1. rcv.pc = "data" /\ toReceiver \in Seq(Chunk)
      BY <2>1, <2>6 DEF Phases, PhaseData
    <3>2. Head(toReceiver) \in Chunk
      BY <3>1, HeadTailProperties
    <3>3. Head(toReceiver).type = "data"
      BY <3>2 DEF Chunk
    <3> QED  BY <3>1, <3>3
  <2>7. CASE snd.pc = "threw"
    BY <2>1, <2>7, OneMessage DEF Phases, PhaseThrew, Text
  <2> QED
    BY <2>1, <2>2, <2>3, <2>4, <2>5, <2>6, <2>7
    DEF SenderStates, BetweenExchanges, Phases
<1> QED  BY <1>1, AgreedAlways, PTL

-----------------------------------------------------------------------------
(* What an exchange delivers: the invariant *)

\* The size announced is that of the sender's file until the user edits it.
Announced ==
    ~touched /\ snd.pc # "idle" /\ snd.size > 0 =>
      /\ IsRegularFile(src, snd.path)
      /\ Len(src[snd.path].data) = snd.size

\* What the stream reads is the sender's file.
Opened == ~touched /\ snd.pc = "stream" => snd.file = src[snd.path].data

\* What does not exist has no data.
Bare(f) == \A p \in Paths : ~Exists(f, p) => f[p] = Absent

\* A receiver that is going to read data has made room for it; it never
\* refuses what was modified.
Ready ==
    snd.pc = "infoSent" /\ toSender # <<>> =>
      /\ snd.status = "modified" => Head(toSender) = Text("ACK")
      /\ rcv.pc = "data" /\ rcv.left > 0 =>
           rcv.path = snd.path /\ dst[snd.path] = Absent

\* A request whose data the receiver always takes.
Whole == snd.command = "FILE" /\ snd.status = "modified" /\ snd.size > 0

\* The units the receiver has still to read, and those it has read.
Awaited == IF rcv.pc = "data" THEN rcv.left ELSE 0
Stored  == snd.size - Awaited

\* The receiver's file is what the sender's file begins with, and what is on
\* the connection is what comes next.
Storing ==
    snd.pc \in {"open", "stream", "final"} /\ (Whole \/ Awaited > 0) =>
      /\ rcv.path = snd.path /\ snd.size > 0 /\ Stored >= 0
      /\ HasParents(dst, snd.path) =>
           /\ dst[snd.path].kind = (IF Stored = 0 THEN "absent" ELSE "file")
           /\ Len(dst[snd.path].data) = Stored
           /\ ~touched => \A i \in 1 .. Stored :
                            dst[snd.path].data[i] = src[snd.path].data[i]
      /\ ~touched => \A i \in 1 .. Len(toReceiver) :
                       toReceiver[i] = Unit(src[snd.path].data[Stored + i])

Keeping ==
    /\ Announced /\ Opened /\ Bare(dst)
    /\ ~slipped => Ready /\ Storing

IInv == Typed /\ Agreed /\ Keeping

-----------------------------------------------------------------------------
(* What single steps leave alone *)

\* Once the two have disagreed they have.
LEMMA SlippedStays ==
    ASSUME [Next]_vars, slipped PROVE slipped'
BY DEF Next, Start, Sender, CheckDirectory, CheckRegularFile, ReadFileSize,
   CheckExists, AwaitCommandAck, AwaitInfoAck, OpenFile, SendBlock,
   SendBlockFails, AwaitFsErrReply, AwaitFinalAck, Receiver, ReceiveCommand,
   ReceiveInfo, ReceiveData, SendFinalAck, SocketClosed, Edit, Finished, vars

\* An edit during which the path on its way stays untouched.
LEMMA EditElsewhere ==
    ASSUME Typed, NEW p \in Paths, NEW node \in UserNodes, Edit(p, node),
           snd.pc # "idle", ~touched'
    PROVE  ~touched /\ snd' = snd /\ src'[snd.path] = src[snd.path]
<1>1. ~touched /\ p # snd.path /\ p \notin Above[snd.path]
    BY DEF Edit, InTransit
<1>2. src' = [DeleteFile(src, p) EXCEPT ![p] = node] /\ snd.path \in Paths
    BY DEF Edit, Put, Typed, TypeOK, SenderStates
<1>3. DeleteFile(src, p)[snd.path] = src[snd.path]
    BY <1>1, <1>2 DEF DeleteFile
<1> QED  BY <1>1, <1>2, <1>3 DEF Edit, DeleteFile

\* An edit leaves the sender where it is.
LEMMA EditLeavesPlace ==
    ASSUME Typed, NEW p \in Paths, NEW node \in UserNodes, Edit(p, node)
    PROVE  /\ snd'.pc = snd.pc /\ snd'.path = snd.path /\ snd'.status = snd.status
           /\ snd'.command = snd.command /\ snd'.size = snd.size
           /\ snd'.left = snd.left
           /\ UNCHANGED <<dst, toReceiver, toSender, rcv>>
BY DEF Edit, Typed, TypeOK, SenderStates

LEMMA OperationsStayBare ==
    ASSUME NEW f \in Folders, Bare(f), NEW p \in Paths, NEW unit
    PROVE  /\ Bare(WriteFile(f, p, unit))
           /\ Bare(WriteDirectory(f, p))
           /\ Bare(DeleteFile(f, p))
<1>1. Bare(WriteFile(f, p, unit))
  <2>1. CASE WriteFile(f, p, unit) = [f EXCEPT ![p] = File(Append(f[p].data, unit))]
    <3>1. File(Append(f[p].data, unit)).kind = "file"
        BY DEF File
    <3> QED  BY <2>1, <3>1 DEF Bare, Exists, Folders
  <2>2. CASE WriteFile(f, p, unit) = f
      BY <2>2
  <2> QED  BY <2>1, <2>2 DEF WriteFile
<1>2. Bare(WriteDirectory(f, p))
    BY DEF WriteDirectory, Bare, Exists, Directory
<1>3. Bare(DeleteFile(f, p))
    BY DEF DeleteFile, Bare, Exists
<1> QED  BY <1>1, <1>2, <1>3

-----------------------------------------------------------------------------
(* The parts of the invariant, kept by every step *)

LEMMA AnnouncedNext ==
    ASSUME Typed, Announced, [Next]_vars PROVE Announced'
<1> USE DEF Typed, TypeOK, SenderStates
<1>0. ASSUME UNCHANGED <<src, touched>>, snd'.path = snd.path,
             snd'.size = snd.size, snd.pc # "idle"
      PROVE  Announced'
    BY <1>0 DEF Announced, IsRegularFile
<1>1. CASE UNCHANGED <<src, touched, snd>>
    BY <1>1 DEF Announced, IsRegularFile
<1>2. ASSUME NEW p \in Paths, NEW s \in Statuses, Start(p, s) PROVE Announced'
    BY <1>2 DEF Start, Announced
<1>3. CASE CheckDirectory
  <2>1. snd'.size = 0 \/ (snd'.size = snd.size /\ snd'.path = snd.path)
      BY <1>3 DEF CheckDirectory, SendCommand
  <2> QED  BY <1>0, <1>3, <2>1 DEF CheckDirectory, Announced
<1>4. CASE ReadFileSize
  <2>1. CASE SendCommand("FILE", GetFileSize(src, snd.path))
    <3>1. /\ snd'.size = GetFileSize(src, snd.path) /\ snd'.path = snd.path
          /\ UNCHANGED <<src, touched>>
        BY <1>4, <2>1 DEF ReadFileSize, SendCommand
    <3>2. snd'.size > 0 =>
            Exists(src, snd.path) /\ Len(src[snd.path].data) = snd'.size
        BY <3>1 DEF GetFileSize
    <3>3. src[snd.path].kind \in {"file", "absent"} => 
            (Exists(src, snd.path) => IsRegularFile(src, snd.path))
        BY DEF Exists, IsRegularFile
    <3>4. CASE src[snd.path].kind \in {"file", "absent"}
        BY <3>1, <3>2, <3>3, <3>4 DEF Announced, IsRegularFile
    <3>5. CASE snd' = [snd EXCEPT !.pc = "threw"]
        BY <1>0, <1>4, <3>5 DEF ReadFileSize
    <3> QED  BY <1>4, <3>4, <3>5 DEF ReadFileSize
  <2>2. CASE snd' = [snd EXCEPT !.pc = "threw"]
      BY <1>0, <1>4, <2>2 DEF ReadFileSize
  <2> QED  BY <1>4, <2>1, <2>2 DEF ReadFileSize
<1>5. CASE CheckExists
  <2>1. snd'.size = 0 \/ (snd'.size = snd.size /\ snd'.path = snd.path)
      BY <1>5 DEF CheckExists, SendCommand
  <2> QED  BY <1>0, <1>5, <2>1 DEF CheckExists, Announced
<1>6. CASE \/ CheckRegularFile \/ AwaitCommandAck \/ AwaitInfoAck \/ OpenFile
           \/ SendBlock \/ SendBlockFails \/ AwaitFsErrReply
  <2>1. snd'.size = snd.size /\ snd'.path = snd.path /\ snd.pc # "idle"
      BY <1>6 DEF CheckRegularFile, AwaitCommandAck, AwaitInfoAck, OpenFile,
                  SendBlock, SendBlockFails, AwaitFsErrReply
  <2>2. UNCHANGED <<src, touched>>
      BY <1>6 DEF CheckRegularFile, AwaitCommandAck, AwaitInfoAck, OpenFile,
                  SendBlock, SendBlockFails, AwaitFsErrReply
  <2> QED  BY <1>0, <2>1, <2>2
<1>7. CASE AwaitFinalAck
    BY <1>7 DEF AwaitFinalAck, Announced
<1>8. CASE Receiver
    BY <1>1, <1>8 DEF Receiver, ReceiveCommand, ReceiveInfo, ReceiveData,
                      SendFinalAck
<1>9. CASE SocketClosed
    BY <1>0, <1>1, <1>9 DEF SocketClosed
<1>10. ASSUME NEW p \in Paths, NEW node \in UserNodes, Edit(p, node)
       PROVE  Announced'
  <2> SUFFICES ASSUME ~touched', snd'.pc # "idle", snd'.size > 0
               PROVE  /\ IsRegularFile(src, snd.path)'
                      /\ Len(src'[snd'.path].data) = snd'.size
      BY DEF Announced
  <2> QED  BY <1>10, EditElsewhere, EditLeavesPlace DEF Announced, IsRegularFile
<1>11. CASE UNCHANGED vars
    BY <1>1, <1>11 DEF vars
<1> QED  BY <1>2, <1>3, <1>4, <1>5, <1>6, <1>7, <1>8, <1>9, <1>10, <1>11
         DEF Next, Sender, Finished

LEMMA OpenedNext ==
    ASSUME Typed, Opened, [Next]_vars PROVE Opened'
<1> USE DEF Typed, TypeOK, SenderStates
<1>1. CASE UNCHANGED <<src, touched, snd>>
    BY <1>1 DEF Opened
<1>2. CASE snd'.pc # "stream"
    BY <1>2 DEF Opened
<1>3. CASE OpenFile
    BY <1>3 DEF OpenFile, Opened
<1>4. CASE SendBlock
    BY <1>4 DEF SendBlock, Opened
<1>5. CASE \E p \in Paths, s \in Statuses : Start(p, s)
    BY <1>2, <1>5 DEF Start
<1>6. CASE Sender
  <2>1. CASE CheckDirectory \/ CheckRegularFile \/ ReadFileSize \/ CheckExists
      BY <1>2, <2>1 DEF CheckDirectory, CheckRegularFile, ReadFileSize,
                        CheckExists, SendCommand
  <2>2. CASE AwaitCommandAck \/ AwaitInfoAck \/ SendBlockFails
             \/ AwaitFsErrReply \/ AwaitFinalAck
      BY <1>2, <2>2 DEF AwaitCommandAck, AwaitInfoAck, SendBlockFails,
                        AwaitFsErrReply, AwaitFinalAck
  <2> QED  BY <1>3, <1>4, <1>6, <2>1, <2>2 DEF Sender
<1>7. CASE Receiver
    BY <1>1, <1>7 DEF Receiver, ReceiveCommand, ReceiveInfo, ReceiveData,
                      SendFinalAck
<1>8. CASE SocketClosed
    BY <1>1, <1>2, <1>8 DEF SocketClosed
<1>9. ASSUME NEW p \in Paths, NEW node \in UserNodes, Edit(p, node)
      PROVE  Opened'
    BY <1>9, EditElsewhere, EditLeavesPlace DEF Opened
<1>10. CASE UNCHANGED vars
    BY <1>1, <1>10 DEF vars
<1> QED  BY <1>5, <1>6, <1>7, <1>8, <1>9, <1>10 DEF Next, Finished

LEMMA BareNext ==
    ASSUME Typed, Bare(dst), [Next]_vars PROVE Bare(dst')
<1>1. CASE UNCHANGED dst
    BY <1>1
<1>2. CASE ReceiveInfo
  <2> DEFINE i == Head(toReceiver)
  <2>1. i.path \in Paths
      BY <1>2, ReadType DEF ReceiveInfo, Texts, Infos, Chunk
  <2>2. dst' \in {dst, WriteDirectory(dst, i.path), DeleteFile(dst, i.path)}
      BY <1>2 DEF ReceiveInfo, Apply
  <2> QED  BY <2>1, <2>2, OperationsStayBare DEF Typed, TypeOK
<1>3. CASE ReceiveData
  <2>1. PICK unit : dst' = WriteFile(dst, rcv.path, unit)
      BY <1>3 DEF ReceiveData
  <2> QED  BY <2>1, OperationsStayBare DEF Typed, TypeOK, ReceiverStates
<1> QED
    BY <1>1, <1>2, <1>3
    DEF Next, Start, Sender, CheckDirectory, CheckRegularFile, ReadFileSize,
        CheckExists, AwaitCommandAck, AwaitInfoAck, OpenFile, SendBlock,
        SendBlockFails, AwaitFsErrReply, AwaitFinalAck, Receiver,
        ReceiveCommand, SendFinalAck, SocketClosed, Edit, Finished, vars
LEMMA ReadyNext ==
    ASSUME Typed, Phases, Bare(dst), Ready, ~slipped', [Next]_vars
    PROVE  Ready'
<1> USE DEF Phases, PhaseBetween, BetweenExchanges, PhaseCommand, PhaseInfo,
            PhaseData, PhaseThrew
<1>0. snd \in SenderStates /\ rcv \in ReceiverStates /\ dst \in Folders
    BY DEF Typed, TypeOK
<1>1. CASE snd'.pc # "infoSent"
    BY <1>1 DEF Ready
<1>2. CASE AwaitCommandAck
  <2>1. toSender = <<Text("ACK")>>
      BY <1>2 DEF AwaitCommandAck
  <2>2. toSender' = <<>>
      BY <1>2, <2>1, OneMessage DEF AwaitCommandAck
  <2> QED  BY <2>2 DEF Ready
<1>3. CASE Sender /\ ~AwaitCommandAck
    BY <1>0, <1>1, <1>3
    DEF Sender, CheckDirectory, CheckRegularFile, ReadFileSize, CheckExists,
        SendCommand, AwaitInfoAck, OpenFile, SendBlock, SendBlockFails,
        AwaitFsErrReply, AwaitFinalAck, SenderStates
<1>4. CASE snd.pc = "infoSent" /\ Receiver
  <2>1. snd' = snd
      BY <1>4 DEF Receiver, ReceiveCommand, ReceiveInfo, ReceiveData, SendFinalAck
  <2>2. CASE ReceiveCommand \/ ReceiveData
      BY <1>4, <2>2 DEF ReceiveCommand, ReceiveData
  <2>3. CASE ReceiveInfo
    <3> DEFINE i == Head(toReceiver)
               refused == Refuses(dst, i.status, i.path)
    <3>1. /\ toReceiver = <<Info(snd.path, snd.status, snd.size)>>
          /\ toSender = <<>>
        BY <1>4, <2>3 DEF ReceiveInfo
    <3>2. i.path = snd.path /\ i.status = snd.status /\ i.size = snd.size
        BY <3>1, OneMessage DEF Info
    <3>3. toSender' = <<Text(IF refused THEN "PRESENT" ELSE "ACK")>>
        BY <2>3, <3>1, OneMessage DEF ReceiveInfo, Reply
    <3>4. Head(toSender') = Text(IF refused THEN "PRESENT" ELSE "ACK")
        BY <3>3, OneMessage
    <3>5. snd.status = "modified" => ~refused
        BY <3>2 DEF Refuses
    <3>6. /\ rcv'.path = snd.path
          /\ rcv'.left > 0 =>
               ~refused /\ ExpectsData(rcv.command, snd.status, snd.size)
      <4>1. rcv' = [rcv EXCEPT
              !.pc = "data", !.path = i.path, !.status = i.status,
              !.left = IF ~refused /\ ExpectsData(rcv.command, i.status, i.size)
                         THEN i.size ELSE 0]
          BY <2>3 DEF ReceiveInfo
      <4>2. /\ rcv'.path = i.path
            /\ rcv'.left = IF ~refused /\ ExpectsData(rcv.command, i.status, i.size)
                             THEN i.size ELSE 0
          BY <1>0, <4>1 DEF ReceiverStates
      <4>3. ~(0 > 0)
          OBVIOUS
      <4> QED  BY <3>2, <4>2, <4>3
    <3>7. ASSUME ~refused, ExpectsData(rcv.command, snd.status, snd.size)
          PROVE  dst'[snd.path] = Absent
      <4>1. snd.path \in Paths
          BY <1>0 DEF SenderStates
      <4>2. dst' = Apply(dst, rcv.command, snd.status, snd.path)
          BY <2>3, <3>2, <3>7 DEF ReceiveInfo
      <4>3. CASE snd.status = "created"
        <5>1. dst' = dst
            BY <3>7, <4>2, <4>3 DEF Apply, ExpectsData
        <5>2. ~Exists(dst, snd.path)
            BY <3>2, <3>7, <4>3 DEF Refuses
        <5> QED  BY <4>1, <5>1, <5>2 DEF Bare
      <4>4. CASE snd.status = "modified"
        <5>1. dst' = DeleteFile(dst, snd.path)
            BY <3>7, <4>2, <4>4 DEF Apply, ExpectsData
        <5> QED  BY <4>1, <5>1 DEF DeleteFile
      <4> QED  BY <3>7, <4>3, <4>4 DEF ExpectsData
    <3> QED  BY <2>1, <3>4, <3>5, <3>6, <3>7 DEF Ready
  <2>4. CASE SendFinalAck
    <3>1. PICK r \in Replies : toSender = <<r>>
        BY <1>4, <2>4 DEF SendFinalAck
    <3>2. toSender' = <<r, Text("ACK")>> /\ Text("ACK") \in Replies
      <4>1. Text("ACK") \in Replies
          BY DEF Replies
      <4>2. toSender' = Append(toSender, Text("ACK"))
          BY <2>4 DEF SendFinalAck, Reply
      <4>3. Append(<<r>>, Text("ACK")) = <<r, Text("ACK")>>
          BY <4>1, TwoMessages
      <4> QED  BY <3>1, <4>1, <4>2, <4>3
    <3>3. Head(toSender) = r /\ Head(toSender') = r /\ toSender # <<>>
        BY <3>1, <3>2, OneMessage, TwoMessages
    <3>4. rcv'.pc = "command"
        BY <1>0, <2>4 DEF SendFinalAck, ReceiverStates
    <3> QED  BY <2>1, <3>3, <3>4 DEF Ready
  <2> QED  BY <1>4, <2>2, <2>3, <2>4 DEF Receiver
<1>5. CASE snd.pc # "infoSent" /\ Receiver
    BY <1>1, <1>5 DEF Receiver, ReceiveCommand, ReceiveInfo, ReceiveData,
                      SendFinalAck
<1>6. CASE SocketClosed
  <2>1. snd'.pc = "threw"
      BY <1>0, <1>6 DEF SocketClosed, SenderStates
  <2> QED  BY <1>1, <2>1
<1>7. ASSUME NEW p \in Paths, NEW s \in Statuses, Start(p, s) PROVE Ready'
    BY <1>1, <1>7 DEF Start
<1>8. ASSUME NEW p \in Paths, NEW node \in UserNodes, Edit(p, node) PROVE Ready'
    BY <1>8, EditLeavesPlace DEF Ready
<1>9. CASE UNCHANGED vars
    BY <1>9 DEF Ready, vars
<1> QED  BY <1>2, <1>3, <1>4, <1>5, <1>6, <1>7, <1>8, <1>9
         DEF Next, Finished

\* Storing is about what no step changes but those that send and read data.
LEMMA StoringKept ==
    ASSUME Storing, snd'.pc \in {"open", "stream", "final"},
           snd.pc \in {"open", "stream", "final"},
           snd'.path = snd.path, snd'.size = snd.size, Whole' = Whole,
           Stored' = Stored, Awaited' = Awaited, rcv'.path = rcv.path,
           UNCHANGED <<dst, toReceiver>>,
           ~touched' => ~touched /\ src'[snd.path] = src[snd.path]
    PROVE  Storing'
<1> SUFFICES ASSUME Whole \/ Awaited > 0
             PROVE  (/\ rcv.path = snd.path /\ snd.size > 0 /\ Stored >= 0
                     /\ HasParents(dst, snd.path) =>
                          /\ dst[snd.path].kind = (IF Stored = 0 THEN "absent" ELSE "file")
                          /\ Len(dst[snd.path].data) = Stored
                          /\ ~touched => \A i \in 1 .. Stored :
                                 dst[snd.path].data[i] = src[snd.path].data[i]
                     /\ ~touched => \A i \in 1 .. Len(toReceiver) :
                          toReceiver[i] = Unit(src[snd.path].data[Stored + i]))'
    BY DEF Storing
<1>1. /\ rcv.path = snd.path /\ snd.size > 0 /\ Stored >= 0
      /\ HasParents(dst, snd.path) =>
           /\ dst[snd.path].kind = (IF Stored = 0 THEN "absent" ELSE "file")
           /\ Len(dst[snd.path].data) = Stored
           /\ ~touched => \A i \in 1 .. Stored :
                            dst[snd.path].data[i] = src[snd.path].data[i]
      /\ ~touched => \A i \in 1 .. Len(toReceiver) :
                       toReceiver[i] = Unit(src[snd.path].data[Stored + i])
    BY DEF Storing
<1>2. HasParents(dst, snd.path)' = HasParents(dst, snd.path)
    BY DEF HasParents, IsDirectory
<1> HIDE DEF Stored, Awaited
<1> QED  BY <1>1, <1>2

\* What is written comes after what is there.
LEMMA JoinedUnits ==
    ASSUME NEW S, NEW s \in Seq(S), NEW t \in Seq(S)
    PROVE  /\ Len(s \o t) = Len(s) + Len(t)
           /\ \A i \in 1 .. Len(s) : (s \o t)[i] = s[i]
           /\ \A i \in Len(s) + 1 .. Len(s) + Len(t) : (s \o t)[i] = t[i - Len(s)]
<1>1. /\ Len(s \o t) = Len(s) + Len(t)
      /\ \A i \in 1 .. Len(s) + Len(t) :
           (s \o t)[i] = IF i <= Len(s) THEN s[i] ELSE t[i - Len(s)]
    BY ConcatProperties
<1>2. Len(s) \in Nat /\ Len(t) \in Nat
    BY LenProperties
<1>3. \A i \in 1 .. Len(s) : i \in 1 .. Len(s) + Len(t) /\ i <= Len(s)
    BY <1>2
<1>4. \A i \in Len(s) + 1 .. Len(s) + Len(t) :
        i \in 1 .. Len(s) + Len(t) /\ ~(i <= Len(s))
    BY <1>2
<1> QED  BY <1>1, <1>3, <1>4

LEMMA StoringSender ==
    ASSUME Typed, Sized, Phases, Announced, Opened, Ready, Storing,
           ~slipped, ~slipped', Sender
    PROVE  Storing'
<1> USE DEF Phases, PhaseBetween, BetweenExchanges, PhaseCommand, PhaseInfo,
            PhaseData, PhaseThrew
<1>0. snd \in SenderStates /\ rcv \in ReceiverStates /\ dst \in Folders
    BY DEF Typed, TypeOK
<1>1. CASE snd'.pc \notin {"open", "stream", "final"}
    BY <1>1 DEF Storing
<1>2. CASE AwaitInfoAck
  <2> DEFINE r == Head(toSender)
  <2>1. /\ snd.pc = "infoSent" /\ toSender # <<>> /\ toReceiver' = <<>>
        /\ UNCHANGED <<src, dst, rcv, touched>>
        /\ snd'.path = snd.path /\ snd'.size = snd.size
        /\ snd'.command = snd.command /\ snd'.status = snd.status
    BY <1>0, <1>2 DEF AwaitInfoAck, SenderStates
  <2>2. \/ rcv.pc = "data" /\ rcv.left = Wanted(r)
        \/ rcv.pc = "command" /\ Wanted(r) = 0
    <3>1. CASE \E x \in Replies :
                 /\ toReceiver = <<>> /\ toSender = <<x>>
                 /\ rcv.pc = "data" /\ rcv.left = Wanted(x)
      BY <3>1, OneMessage
    <3>2. CASE \E x \in Replies :
                 /\ toReceiver = <<>> /\ toSender = <<x, Text("ACK")>>
                 /\ rcv.pc = "command" /\ Wanted(x) = 0
      BY <3>2, TwoMessages DEF Replies
    <3> QED  BY <2>1, <3>1, <3>2
  <2>3. Whole => Wanted(r) = snd.size /\ snd.size > 0
    BY <2>1 DEF Whole, Ready, Wanted, ExpectsData
  <2>4. Wanted(r) > 0 => Wanted(r) = snd.size
    <3>1. ~(0 > 0)
        OBVIOUS
    <3> QED  BY <3>1 DEF Wanted
  <2> SUFFICES ASSUME Whole \/ Awaited > 0 PROVE Storing'
    BY <2>1 DEF Storing, Whole, Awaited
  <2>5. rcv.pc = "data" /\ rcv.left = snd.size /\ snd.size > 0
    <3>1. CASE Whole
      <4>1. ~(0 > 0)
          OBVIOUS
      <4> QED  BY <2>2, <2>3, <3>1, <4>1
    <3>2. CASE Awaited > 0
      <4>1. ~(0 > 0)
          OBVIOUS
      <4> QED  BY <2>2, <2>4, <3>2, <4>1 DEF Awaited
    <3> QED  BY <3>1, <3>2
  <2>6. rcv.path = snd.path /\ dst[snd.path] = Absent
    BY <2>1, <2>5 DEF Ready
  <2>7. Stored' = 0
    BY <1>0, <2>1, <2>5 DEF Stored, Awaited, SenderStates, Sizes
  <2>8. dst'[snd'.path].kind = "absent" /\ Len(dst'[snd'.path].data) = 0
    BY <2>1, <2>6 DEF Absent
  <2>9. Len(toReceiver') = 0
    BY <2>1
  <2> HIDE DEF r
  <2> QED  BY <2>1, <2>5, <2>6, <2>7, <2>8, <2>9 DEF Storing
<1>3. CASE OpenFile
  <2>1. /\ snd'.path = snd.path /\ snd'.size = snd.size
        /\ snd'.command = snd.command /\ snd'.status = snd.status
        /\ snd.pc = "open"
        /\ UNCHANGED <<src, dst, toReceiver, rcv, touched>>
    BY <1>0, <1>3 DEF OpenFile, SenderStates
  <2>2. Whole' = Whole /\ Stored' = Stored /\ Awaited' = Awaited
    BY <2>1 DEF Whole, Stored, Awaited
  <2> QED  BY <1>1, <2>1, <2>2, StoringKept
<1>4. CASE SendBlock
  <2> DEFINE num == BlockSize(snd.left)
             sent == snd.size - snd.left
             block == [i \in 1 .. num |-> Unit(snd.file[sent + i])]
  <2>1. snd.left \in Nat \ {0} /\ snd.size \in Nat /\ sent \in Nat
    BY <1>0, <1>4 DEF SendBlock, Sizes, SenderStates, Typed, Counting
  <2>2. num \in 1 .. snd.left
    BY <2>1, BlockSizeFits
  <2>3. /\ snd'.path = snd.path /\ snd'.size = snd.size
        /\ snd'.command = snd.command /\ snd'.status = snd.status
        /\ snd.pc = "stream"
        /\ UNCHANGED <<src, dst, rcv, touched>>
        /\ toReceiver' = toReceiver \o block
    BY <1>0, <1>4 DEF SendBlock, SenderStates
  <2>4. /\ rcv.pc = "data" /\ toReceiver \in Seq(Chunk)
        /\ rcv.left = Len(toReceiver) + snd.left
    BY <1>4, <2>1 DEF SendBlock, Remaining
  <2>5. Len(toReceiver) \in Nat
    BY <2>4, LenProperties
  <2>6. Stored + Len(toReceiver) = sent /\ Stored \in Int
    BY <2>1, <2>4, <2>5 DEF Stored, Awaited
  <2>7. Awaited > 0
    BY <2>1, <2>4, <2>5 DEF Awaited
  <2>8. Whole' = Whole /\ Stored' = Stored /\ Awaited' = Awaited
    BY <2>3 DEF Whole, Stored, Awaited
  <2>9. /\ Len(toReceiver') = Len(toReceiver) + num
        /\ \A i \in 1 .. Len(toReceiver) : toReceiver'[i] = toReceiver[i]
        /\ \A i \in Len(toReceiver) + 1 .. Len(toReceiver) + num :
             toReceiver'[i] = block[i - Len(toReceiver)]
    <3>1. block \in Seq(Chunk) /\ Len(block) = num
      <4>1. ASSUME NEW i \in 1 .. num PROVE Unit(snd.file[sent + i]) \in Chunk
        <5>1. sent + i \in 1 .. Len(snd.file)
          BY <1>0, <1>4, <2>1, <2>2, LenProperties DEF SendBlock, SenderStates
        <5>2. snd.file[sent + i] \in Data
          BY <1>0, <5>1, ElementOfSeq DEF SenderStates
        <5> QED  BY <5>2 DEF Unit, Chunk
      <4> QED  BY <2>2, <4>1, IsASeq
    <3> HIDE DEF block, num, Phases, PhaseBetween, BetweenExchanges,
                 PhaseCommand, PhaseInfo, PhaseData, PhaseThrew
    <3>2. toReceiver \in Seq(Chunk) /\ toReceiver' = toReceiver \o block
        BY <2>3, <2>4
    <3>3. /\ Len(toReceiver \o block) = Len(toReceiver) + Len(block)
          /\ \A i \in 1 .. Len(toReceiver) : (toReceiver \o block)[i] = toReceiver[i]
          /\ \A i \in Len(toReceiver) + 1 .. Len(toReceiver) + Len(block) :
               (toReceiver \o block)[i] = block[i - Len(toReceiver)]
        BY <3>1, <3>2, JoinedUnits
    <3> QED  BY <3>1, <3>2, <3>3
  <2>10. ASSUME ~touched, NEW i \in 1 .. Len(toReceiver')
         PROVE  toReceiver'[i] = Unit(src[snd.path].data[Stored + i])
    <3>1. CASE i \in 1 .. Len(toReceiver)
        BY <2>3, <2>7, <2>9, <2>10, <3>1 DEF Storing
    <3>2. CASE i \in Len(toReceiver) + 1 .. Len(toReceiver) + num
      <4>1. toReceiver'[i] = block[i - Len(toReceiver)]
          BY <2>9, <3>2
      <4>2. i - Len(toReceiver) \in 1 .. num
          BY <2>2, <2>5, <3>2
      <4>3. block[i - Len(toReceiver)] = Unit(snd.file[sent + (i - Len(toReceiver))])
          BY <4>2
      <4>4. sent + (i - Len(toReceiver)) = Stored + i
          BY <2>5, <2>6, <3>2
      <4>5. snd.file = src[snd.path].data
          BY <2>3, <2>10 DEF Opened
      <4> QED  BY <4>1, <4>3, <4>4, <4>5
    <3> QED  BY <2>2, <2>5, <2>9, <2>10, <3>1, <3>2
  <2>11. /\ rcv.path = snd.path /\ snd.size > 0 /\ Stored >= 0
         /\ HasParents(dst, snd.path) =>
              /\ dst[snd.path].kind = (IF Stored = 0 THEN "absent" ELSE "file")
              /\ Len(dst[snd.path].data) = Stored
              /\ ~touched => \A i \in 1 .. Stored :
                               dst[snd.path].data[i] = src[snd.path].data[i]
    BY <2>3, <2>7 DEF Storing
  <2>12. HasParents(dst, snd.path)' = HasParents(dst, snd.path)
    BY <2>3 DEF HasParents, IsDirectory
  <2> HIDE DEF block, num, sent
  <2> QED  BY <2>3, <2>8, <2>10, <2>11, <2>12 DEF Storing
<1>5. CASE AwaitFinalAck
    BY <1>0, <1>1, <1>5 DEF AwaitFinalAck, SenderStates
<1>6. CASE \/ CheckDirectory \/ CheckRegularFile \/ ReadFileSize \/ CheckExists
           \/ AwaitCommandAck \/ SendBlockFails \/ AwaitFsErrReply
    BY <1>0, <1>1, <1>6
    DEF CheckDirectory, CheckRegularFile, ReadFileSize, CheckExists,
        SendCommand, AwaitCommandAck, SendBlockFails, AwaitFsErrReply,
        SenderStates
<1> QED  BY <1>2, <1>3, <1>4, <1>5, <1>6 DEF Sender

\* The next unit read is the next unit of the file.
LEMMA UnitStored ==
    ASSUME Typed, Phases, Storing, ReceiveData,
           snd.pc \in {"open", "stream", "final"}
    PROVE  /\ rcv'.pc = "data" /\ rcv'.path = rcv.path /\ rcv'.left = rcv.left - 1
           /\ rcv.left \in Nat \ {0} /\ rcv.path = snd.path
           /\ snd.path \in Paths /\ snd.size \in Nat \ {0}
           /\ Stored \in Nat /\ Stored' = Stored + 1
           /\ ~touched => \A i \in 1 .. Len(toReceiver') :
                 toReceiver'[i] = Unit(src[snd.path].data[Stored' + i])
           /\ \A q \in Paths \ {snd.path} : dst'[q] = dst[q]
           /\ HasParents(dst', snd.path) <=> HasParents(dst, snd.path)
           /\ ~HasParents(dst, snd.path) => dst' = dst
           /\ HasParents(dst, snd.path) =>
                /\ dst'[snd.path].kind = "file"
                /\ dst'[snd.path].data \in Seq(Units)
                /\ dst'[snd.path] \in Nodes
                /\ Len(dst'[snd.path].data) = Stored + 1
                /\ ~touched => \A i \in 1 .. Stored + 1 :
                     dst'[snd.path].data[i] = src[snd.path].data[i]
<1> DEFINE p == snd.path
           m == Head(toReceiver)
<1>0. snd \in SenderStates /\ rcv \in ReceiverStates /\ dst \in Folders
    BY DEF Typed, TypeOK
<1>1. rcv.pc = "data" /\ rcv.left > 0 /\ toReceiver # <<>> /\ UNCHANGED snd
    BY DEF ReceiveData
<1>2. rcv.left \in Nat \ {0} /\ snd.size \in Int /\ p \in Paths
  <2>1. snd.size \in Sizes /\ p \in Paths
      BY <1>0 DEF SenderStates
  <2>2. rcv.left \in Nat
      BY <1>0 DEF ReceiverStates
  <2> QED  BY <1>1, <2>1, <2>2 DEF Sizes
<1>3. Awaited > 0
    BY <1>1 DEF Awaited
<1>4. /\ rcv.path = p /\ snd.size > 0 /\ Stored >= 0
      /\ HasParents(dst, p) =>
           /\ dst[p].kind = (IF Stored = 0 THEN "absent" ELSE "file")
           /\ Len(dst[p].data) = Stored
           /\ ~touched => \A j \in 1 .. Stored :
                            dst[p].data[j] = src[p].data[j]
      /\ ~touched => \A j \in 1 .. Len(toReceiver) :
                       toReceiver[j] = Unit(src[p].data[Stored + j])
    BY <1>3 DEF Storing
<1>5. rcv'.pc = "data" /\ rcv'.left = rcv.left - 1 /\ rcv'.path = rcv.path
    BY <1>0, <1>1 DEF ReceiveData, ReceiverStates
<1>6. Stored \in Nat /\ Stored' = Stored + 1
    BY <1>1, <1>2, <1>4, <1>5 DEF Stored, Awaited
<1>7. toReceiver \in Seq(Chunk) /\ toReceiver' = Tail(toReceiver)
    BY <1>1 DEF Phases, PhaseData, ReceiveData
<1>8. /\ Len(toReceiver) \in Nat \ {0}
      /\ Len(toReceiver') = Len(toReceiver) - 1
      /\ \A j \in 1 .. Len(toReceiver') : toReceiver'[j] = toReceiver[j + 1]
      /\ m \in Chunk /\ m = toReceiver[1]
    BY <1>1, <1>7, HeadTailProperties, LenProperties, EmptySeq
<1>9. ASSUME ~touched, NEW j \in 1 .. Len(toReceiver')
      PROVE  toReceiver'[j] = Unit(src[p].data[Stored' + j])
  <2>1. j \in Nat /\ j + 1 \in 1 .. Len(toReceiver)
    <3>1. Len(toReceiver') = Len(toReceiver) - 1 /\ Len(toReceiver) \in Nat
        BY <1>8
    <3> QED  BY <1>9, <3>1
  <2>2. Stored + (j + 1) = Stored' + j
      BY <1>6, <2>1
  <2> QED  BY <1>4, <1>8, <1>9, <2>1, <2>2
<1>10. dst' = WriteFile(dst, p, m.unit)
    BY <1>4, <1>8 DEF ReceiveData, Chunk
<1>11. \A q \in Paths \ {p} : dst'[q] = dst[q]
    BY <1>0, <1>10 DEF WriteFile, Folders
<1>12. HasParents(dst', p) <=> HasParents(dst, p)
  <2>1. \A q \in Above[p] : q \in Paths \ {p}
      BY <1>2, FolderAssumption
  <2> QED  BY <1>11, <2>1 DEF HasParents, IsDirectory
<1>13. ASSUME HasParents(dst, p)
       PROVE  /\ dst'[p].kind = "file"
              /\ dst'[p].data \in Seq(Units)
              /\ dst'[p] \in Nodes
              /\ Len(dst'[p].data) = Stored + 1
              /\ ~touched => \A j \in 1 .. Stored + 1 :
                               dst'[p].data[j] = src[p].data[j]
  <2>1. dst' = [dst EXCEPT ![p] = File(Append(dst[p].data, m.unit))]
      BY <1>4, <1>10, <1>13 DEF WriteFile
  <2>2. dst'[p] = File(Append(dst[p].data, m.unit))
      BY <1>0, <1>2, <2>1 DEF Folders
  <2>3. dst[p].data \in Seq(Units) /\ m.unit \in Units
      BY <1>0, <1>2, <1>8 DEF Folders, Nodes, Chunk, Units
  <2>4. /\ dst'[p].data \in Seq(Units)
        /\ Len(dst'[p].data) = Len(dst[p].data) + 1
        /\ \A j \in 1 .. Len(dst[p].data) : dst'[p].data[j] = dst[p].data[j]
        /\ dst'[p].data[Len(dst[p].data) + 1] = m.unit
      BY <2>2, <2>3, AppendProperties DEF File
  <2>5. Len(dst[p].data) = Stored
      BY <1>4, <1>13
  <2>6. ASSUME ~touched, NEW j \in 1 .. Stored + 1
        PROVE  dst'[p].data[j] = src[p].data[j]
    <3>1. CASE j \in 1 .. Stored
        BY <1>4, <1>13, <2>4, <2>5, <2>6, <3>1
    <3>2. CASE j = Stored + 1
      <4>1. 1 \in 1 .. Len(toReceiver)
          BY <1>8
      <4>2. m = Unit(src[p].data[Stored + 1])
          BY <1>4, <1>8, <2>6, <4>1
      <4>3. m.unit = src[p].data[Stored + 1]
          BY <4>2 DEF Unit
      <4> QED  BY <2>4, <2>5, <3>2, <4>3
    <3> QED  BY <1>6, <3>1, <3>2
  <2>7. dst'[p].kind = "file" /\ dst'[p] \in Nodes
      BY <2>2, <2>4 DEF File, Nodes, Kinds
  <2> QED  BY <2>4, <2>5, <2>6, <2>7
<1>14. ~HasParents(dst, p) => dst' = dst
    BY <1>10 DEF WriteFile
<1>15. snd.size \in Nat \ {0}
    BY <1>2, <1>4
<1> HIDE DEF p, m
<1> QED  BY <1>2, <1>4, <1>5, <1>6, <1>9, <1>11, <1>12, <1>13, <1>14, <1>15 DEF p

LEMMA StoringReceiver ==
    ASSUME Typed, Phases, Announced, Storing, Receiver
    PROVE  Storing'
<1>0. snd \in SenderStates /\ rcv \in ReceiverStates /\ dst \in Folders
    BY DEF Typed, TypeOK
<1>1. /\ UNCHANGED <<src, snd, touched>>
      /\ Whole' = Whole
    BY DEF Receiver, ReceiveCommand, ReceiveInfo, ReceiveData, SendFinalAck, Whole
<1>2. CASE snd.pc \notin {"open", "stream", "final"}
    BY <1>1, <1>2 DEF Storing
<1> SUFFICES ASSUME snd.pc \in {"open", "stream", "final"} PROVE Storing'
    BY <1>2
<1>3. \/ rcv.pc = "data"
      \/ rcv.pc = "command" /\ toReceiver = <<>>
    BY DEF Phases, PhaseData
<1>4. CASE ReceiveCommand \/ ReceiveInfo
    BY <1>3, <1>4 DEF ReceiveCommand, ReceiveInfo
<1>5. CASE SendFinalAck
  <2>1. /\ rcv.pc = "data" /\ rcv.left = 0
        /\ UNCHANGED <<dst, toReceiver>>
      BY <1>5 DEF SendFinalAck
  <2>2. rcv'.pc = "command" /\ rcv'.path = rcv.path
      BY <1>0, <1>5 DEF SendFinalAck, ReceiverStates
  <2>3. Awaited = 0 /\ Awaited' = 0 /\ Stored' = Stored
      BY <1>1, <2>1, <2>2 DEF Awaited, Stored
  <2> QED  BY <1>1, <2>1, <2>2, <2>3, StoringKept
<1>6. CASE ReceiveData
  <2>1. /\ rcv'.path = snd.path /\ snd.size > 0
        /\ Stored \in Nat /\ Stored' = Stored + 1
        /\ HasParents(dst', snd.path) =>
             /\ dst'[snd.path].kind = "file"
             /\ Len(dst'[snd.path].data) = Stored'
             /\ ~touched => \A i \in 1 .. Stored' :
                              dst'[snd.path].data[i] = src[snd.path].data[i]
        /\ ~touched => \A i \in 1 .. Len(toReceiver') :
                         toReceiver'[i] = Unit(src[snd.path].data[Stored' + i])
      BY <1>6, UnitStored
  <2>2. Stored' # 0 /\ Stored' >= 0
      BY <2>1
  <2>3. HasParents(dst, snd.path)' <=> HasParents(dst', snd.path)
      BY <1>1 DEF HasParents, IsDirectory
  <2> QED  BY <1>1, <2>1, <2>2, <2>3 DEF Storing
<1> QED  BY <1>4, <1>5, <1>6 DEF Receiver

LEMMA StoringNext ==
    ASSUME Typed, Sized, Phases, Announced, Opened, Ready, Storing,
           ~slipped, ~slipped', [Next]_vars
    PROVE  Storing'
<1>0. snd \in SenderStates /\ rcv \in ReceiverStates
    BY DEF Typed, TypeOK
<1>1. CASE snd'.pc \notin {"open", "stream", "final"}
    BY <1>1 DEF Storing
<1>2. CASE UNCHANGED <<src, dst, snd, rcv, toReceiver, touched>>
    BY <1>2 DEF Storing, Stored, Awaited, Whole, HasParents, IsDirectory
<1>3. CASE \E p \in Paths, s \in Statuses : Start(p, s)
    BY <1>1, <1>3 DEF Start
<1>4. CASE SocketClosed
  <2>1. snd'.pc = "threw"
      BY <1>0, <1>4 DEF SocketClosed, SenderStates
  <2> QED  BY <1>1, <2>1
<1>5. ASSUME NEW p \in Paths, NEW node \in UserNodes, Edit(p, node)
      PROVE  Storing'
  <2>1. /\ snd'.pc = snd.pc /\ snd'.path = snd.path /\ snd'.size = snd.size
        /\ UNCHANGED <<dst, toReceiver, rcv>>
        /\ Whole' = Whole /\ Stored' = Stored /\ Awaited' = Awaited
      BY <1>5, EditLeavesPlace DEF Whole, Stored, Awaited
  <2>2. snd.pc \in {"open", "stream", "final"} =>
          (~touched' => ~touched /\ src'[snd.path] = src[snd.path])
      BY <1>5, EditElsewhere
  <2> QED  BY <1>1, <2>1, <2>2, StoringKept
<1>6. CASE UNCHANGED vars
    BY <1>2, <1>6 DEF vars
<1> QED  BY <1>2, <1>3, <1>4, <1>5, <1>6, StoringSender, StoringReceiver
         DEF Next, Finished, vars

LEMMA InvInit == Init => IInv
<1> SUFFICES ASSUME Init PROVE IInv
    OBVIOUS
<1>1. snd.pc = "idle"
  <2>1. PICK p \in Paths :
          snd = [pc |-> "idle", path |-> p, status |-> "created",
                 command |-> "FILE_DEL", size |-> 0, left |-> 0, file |-> <<>>]
      BY DEF Init
  <2> QED  BY <2>1
<1>2. Bare(dst)
  <2>1. \A node \in UserNodes : node.kind = "absent" => node = Absent
      BY DEF UserNodes, Directory, Other, File
  <2> QED  BY <2>1 DEF Init, Bare, Exists
<1> QED  BY <1>1, <1>2, TypedInit, AgreedInit
         DEF IInv, Keeping, Announced, Opened, Ready, Storing

LEMMA InvNext == IInv /\ [Next]_vars => IInv'
<1> SUFFICES ASSUME IInv, [Next]_vars PROVE IInv'
    OBVIOUS
<1>1. Typed /\ Agreed /\ Keeping
    BY DEF IInv
<1>2. Typed' /\ Agreed'
    BY <1>1, TypedNext, AgreedNext
<1>3. Announced' /\ Opened' /\ Bare(dst')
    BY <1>1, AnnouncedNext, OpenedNext, BareNext DEF Keeping
<1>4. ASSUME ~slipped' PROVE Ready' /\ Storing'
  <2>1. ~slipped
      BY <1>4, SlippedStays
  <2>2. Sized /\ Phases /\ Announced /\ Opened /\ Bare(dst) /\ Ready /\ Storing
      BY <1>1, <2>1 DEF Agreed, Keeping
  <2> QED  BY <1>1, <1>4, <2>1, <2>2, ReadyNext, StoringNext
<1>5. Bare(dst)'
    BY <1>3 DEF Bare, Exists
<1> QED  BY <1>2, <1>3, <1>4, <1>5 DEF IInv, Keeping

LEMMA InvAlways == Spec => []IInv
BY InvInit, InvNext, PTL DEF Spec

\* The reply that sendFile takes for the final acknowledgement
\* (Exchanger.cpp:195) was written when the last unit was stored, and what
\* was sent as modified is then the sender's file, whatever the block size,
\* the file and the lengths in which the socket delivers it
\* (Exchanger.cpp:88-107, 165-193).
THEOREM AcknowledgedIsStored == Spec => []AcknowledgedMeansStored
<1>1. IInv => AcknowledgedMeansStored
  <2> SUFFICES ASSUME IInv, ~slipped, snd.pc = "final", toSender # <<>>
               PROVE  /\ rcv.pc = "command"
                      /\ Whole /\ HasParents(dst, snd.path) =>
                           /\ IsRegularFile(dst, snd.path)
                           /\ Len(dst[snd.path].data) = snd.size
                           /\ ~touched => dst[snd.path] = src[snd.path]
      BY DEF AcknowledgedMeansStored, Whole
  <2>1. Typed /\ Phases /\ Announced /\ Storing
      BY DEF IInv, Agreed, Keeping
  <2>2. snd \in SenderStates /\ rcv \in ReceiverStates /\ dst \in Folders
      BY <2>1 DEF Typed, TypeOK
  <2>3. rcv.pc = "command"
      BY <2>1 DEF Phases, PhaseData
  <2> SUFFICES ASSUME Whole, HasParents(dst, snd.path)
               PROVE  /\ IsRegularFile(dst, snd.path)
                      /\ Len(dst[snd.path].data) = snd.size
                      /\ ~touched => dst[snd.path] = src[snd.path]
      BY <2>3
  <2>4. Stored = snd.size /\ snd.size > 0
      BY <2>2, <2>3 DEF Stored, Awaited, Whole, SenderStates, Sizes
  <2>5. /\ dst[snd.path].kind = "file"
        /\ Len(dst[snd.path].data) = snd.size
        /\ ~touched => \A i \in 1 .. snd.size :
                         dst[snd.path].data[i] = src[snd.path].data[i]
    <3>1. Stored # 0
        BY <2>2, <2>4 DEF SenderStates, Sizes
    <3> QED  BY <2>1, <2>4, <3>1 DEF Storing
  <2>6. ASSUME ~touched PROVE dst[snd.path] = src[snd.path]
    <3>1. src[snd.path].kind = "file" /\ Len(src[snd.path].data) = snd.size
        BY <2>1, <2>4, <2>6 DEF Announced, IsRegularFile
    <3>2. dst[snd.path] \in Nodes /\ src[snd.path] \in Nodes
        BY <2>1, <2>2, UserNodesType DEF Folders, Typed, TypeOK, SenderStates
    <3>3. dst[snd.path].data \in Seq(Units) /\ src[snd.path].data \in Seq(Units)
        BY <3>2 DEF Nodes
    <3>4. dst[snd.path].data = src[snd.path].data
        BY <2>5, <2>6, <3>1, <3>3, SeqEqual
    <3> QED  BY <2>5, <3>1, <3>2, <3>4 DEF Nodes
  <2> QED  BY <2>5, <2>6 DEF IsRegularFile
<1> QED  BY <1>1, InvAlways, PTL

-----------------------------------------------------------------------------
(* An exchange nobody disturbs is one step of FileTransfer *)

Alone == ~touched /\ ~slipped

\* What the sender has found at the path is what is there.
KindKnown ==
    /\ snd.pc # "idle" /\ snd.status = "erased" => ~Exists(src, snd.path)
    /\ snd.pc = "isRegularFile" => ~IsDirectory(src, snd.path)
    /\ snd.pc = "getFileSize" => IsRegularFile(src, snd.path)
    /\ snd.pc = "exists" =>
         ~IsDirectory(src, snd.path) /\ ~IsRegularFile(src, snd.path)
    /\ snd.pc \in {"commandSent", "infoSent", "open", "stream", "final"} =>
         \/ /\ snd.command = "DIRECTORY" /\ IsDirectory(src, snd.path)
            /\ snd.size = 0
         \/ /\ snd.command = "FILE" /\ IsRegularFile(src, snd.path)
            /\ snd.size = Len(src[snd.path].data)
         \/ /\ snd.command = "FILE_DEL" /\ ~Exists(src, snd.path)
            /\ snd.size = 0

\* A file that has not changed is as long as announced.
LEMMA NoBlockFails ==
    ASSUME IInv, Alone, KindKnown PROVE ~SendBlockFails
<1> USE DEF IInv, Typed, TypeOK, SenderStates
<1> SUFFICES ASSUME SendBlockFails PROVE FALSE
    OBVIOUS
<1>1. snd.pc = "stream" /\ snd.left \in Nat \ {0} /\ snd.left <= snd.size
    BY DEF SendBlockFails, Counting, Sizes
<1>2. snd.file = src[snd.path].data
    BY <1>1 DEF Keeping, Opened, Alone
<1>3. snd.size \in Nat /\ snd.size = Len(snd.file)
  <2>1. snd.size \in Nat /\ snd.size # 0
      BY <1>1 DEF Sizes
  <2> QED  BY <1>1, <1>2, <2>1 DEF KindKnown
<1>4. BlockSize(snd.left) \in 1 .. snd.left
    BY <1>1, BlockSizeFits
<1>5. snd.size - snd.left + BlockSize(snd.left) > Len(snd.file)
    BY DEF SendBlockFails
<1> QED  BY <1>1, <1>3, <1>4, <1>5

LEMMA AloneNext ==
    ASSUME ~Racy, IInv, Alone, KindKnown, [Next]_vars PROVE Alone'
<1> USE DEF IInv, Typed, TypeOK, SenderStates
<1>1. ~touched'
    BY DEF Alone, Next, Start, Sender, CheckDirectory, CheckRegularFile,
       ReadFileSize, CheckExists, AwaitCommandAck, AwaitInfoAck, OpenFile,
       SendBlock, SendBlockFails, AwaitFsErrReply, AwaitFinalAck, Receiver,
       ReceiveCommand, ReceiveInfo, ReceiveData, SendFinalAck, SocketClosed,
       Edit, Finished, vars
<1>2. CASE slipped' = slipped
    BY <1>1, <1>2 DEF Alone
<1>3. CASE AwaitInfoAck
  <2>1. snd.size > 0 => IsRegularFile(src, snd.path) /\ snd.status # "erased"
    <3>1. ~(0 > 0)
        OBVIOUS
    <3> QED  BY <1>3, <3>1 DEF AwaitInfoAck, KindKnown, IsRegularFile, Exists
  <2>2. ~slipped'
      BY <1>3, <2>1 DEF AwaitInfoAck, Alone
  <2> QED  BY <1>1, <2>2 DEF Alone
<1>4. ~SendBlockFails
    BY NoBlockFails
<1> QED
    BY <1>2, <1>3, <1>4
    DEF Next, Start, Sender, CheckDirectory, CheckRegularFile, ReadFileSize,
        CheckExists, AwaitCommandAck, OpenFile, SendBlock, AwaitFsErrReply,
        AwaitFinalAck, Receiver, ReceiveCommand, ReceiveInfo, ReceiveData,
        SendFinalAck, SocketClosed, Edit, Finished, vars

LEMMA KindKnownNext ==
    ASSUME ~Racy, IInv, Alone, KindKnown, [Next]_vars PROVE KindKnown'
<1> USE DEF IsDirectory, IsRegularFile, Exists
<1>0. snd \in SenderStates
    BY DEF IInv, Typed, TypeOK
<1>1. CASE UNCHANGED <<src, snd>>
    BY <1>1 DEF KindKnown
<1>2. ASSUME NEW p \in Paths, NEW s \in Statuses, Start(p, s) PROVE KindKnown'
    BY <1>2 DEF Start, KindKnown
<1>3. CASE CheckDirectory
  <2>1. src' = src /\ snd'.path = snd.path /\ snd'.status = snd.status
        /\ snd.pc = "isDirectory"
      BY <1>0, <1>3 DEF CheckDirectory, SendCommand, SenderStates
  <2>2. CASE IsDirectory(src, snd.path)
    <3>1. snd'.pc = "commandSent" /\ snd'.command = "DIRECTORY" /\ snd'.size = 0
        BY <1>0, <1>3, <2>2 DEF CheckDirectory, SendCommand, SenderStates
    <3> QED  BY <2>1, <2>2, <3>1 DEF KindKnown
  <2>3. CASE ~IsDirectory(src, snd.path)
    <3>1. snd'.pc = "isRegularFile"
        BY <1>0, <1>3, <2>3 DEF CheckDirectory, SenderStates
    <3> QED  BY <2>1, <2>3, <3>1 DEF KindKnown
  <2> QED  BY <2>2, <2>3
<1>4. CASE CheckRegularFile
  <2>1. /\ src' = src /\ snd'.path = snd.path /\ snd'.status = snd.status
        /\ snd'.pc = IF IsRegularFile(src, snd.path) THEN "getFileSize" ELSE "exists"
        /\ snd.pc = "isRegularFile"
      BY <1>0, <1>4 DEF CheckRegularFile, SenderStates
  <2> QED  BY <2>1 DEF KindKnown
<1>5. CASE ReadFileSize
  <2>1. /\ src' = src /\ snd.pc = "getFileSize"
        /\ snd' = [snd EXCEPT !.pc = "commandSent", !.command = "FILE",
                              !.size = GetFileSize(src, snd.path)]
      BY <1>5 DEF ReadFileSize, SendCommand, KindKnown
  <2>2. /\ snd'.path = snd.path /\ snd'.status = snd.status
        /\ snd'.pc = "commandSent" /\ snd'.command = "FILE"
        /\ snd'.size = GetFileSize(src, snd.path)
      BY <1>0, <2>1 DEF SenderStates
  <2>3. IsRegularFile(src, snd.path)
      BY <2>1 DEF KindKnown
  <2>4. GetFileSize(src, snd.path) = Len(src[snd.path].data)
      BY <2>3 DEF GetFileSize
  <2> QED  BY <2>1, <2>2, <2>3, <2>4 DEF KindKnown
<1>6. CASE CheckExists
  <2>1. src' = src /\ snd'.path = snd.path /\ snd'.status = snd.status
        /\ snd.pc = "exists"
      BY <1>0, <1>6 DEF CheckExists, SendCommand, SenderStates
  <2>2. CASE ~Exists(src, snd.path)
    <3>1. snd'.pc = "commandSent" /\ snd'.command = "FILE_DEL" /\ snd'.size = 0
        BY <1>0, <1>6, <2>2 DEF CheckExists, SendCommand, SenderStates
    <3> QED  BY <2>1, <2>2, <3>1 DEF KindKnown
  <2>3. CASE Exists(src, snd.path)
    <3>1. snd'.pc = "threw"
        BY <1>0, <1>6, <2>3 DEF CheckExists, SenderStates
    <3> QED  BY <2>1, <3>1 DEF KindKnown
  <2> QED  BY <2>2, <2>3
<1>7. CASE \/ AwaitCommandAck \/ AwaitInfoAck \/ OpenFile \/ SendBlock
  <2>1. /\ src' = src /\ snd'.path = snd.path /\ snd'.status = snd.status
        /\ snd'.command = snd.command /\ snd'.size = snd.size
        /\ snd.pc \in {"commandSent", "infoSent", "open", "stream"}
        /\ snd'.pc \in {"infoSent", "open", "stream", "final"}
      BY <1>0, <1>7
      DEF AwaitCommandAck, AwaitInfoAck, OpenFile, SendBlock, SenderStates
  <2> QED  BY <2>1 DEF KindKnown
<1>8. CASE SendBlockFails \/ AwaitFsErrReply
  <2>1. /\ src' = src /\ snd'.path = snd.path /\ snd'.status = snd.status
        /\ snd.pc # "idle" /\ snd'.pc \in {"fsErr", "threw"}
      BY <1>0, <1>8 DEF SendBlockFails, AwaitFsErrReply, SenderStates
  <2> QED  BY <2>1 DEF KindKnown
<1>9. CASE AwaitFinalAck
  <2>1. snd'.pc = "idle"
      BY <1>0, <1>9 DEF AwaitFinalAck, SenderStates
  <2> QED  BY <2>1 DEF KindKnown
<1>10. CASE SocketClosed
  <2>1. CASE UNCHANGED snd
      BY <1>1, <1>10, <2>1 DEF SocketClosed
  <2>2. CASE snd' = [snd EXCEPT !.pc = "threw"] /\ snd.pc # "idle" /\ src' = src
    <3>1. snd'.pc = "threw" /\ snd'.path = snd.path /\ snd'.status = snd.status
        BY <1>0, <2>2 DEF SenderStates
    <3> QED  BY <2>2, <3>1 DEF KindKnown
  <2> QED  BY <1>10, <2>1, <2>2 DEF SocketClosed
<1>11. CASE Receiver
    BY <1>1, <1>11 DEF Receiver, ReceiveCommand, ReceiveInfo, ReceiveData,
                       SendFinalAck
<1>12. ASSUME NEW p \in Paths, NEW node \in UserNodes, Edit(p, node)
       PROVE  KindKnown'
  <2>1. CASE snd.pc = "idle"
    <3>1. snd'.pc = "idle"
        BY <1>12, <2>1 DEF Edit
    <3> QED  BY <3>1 DEF KindKnown
  <2>2. CASE snd.pc # "idle"
    <3>1. ~touched'
        BY AloneNext DEF Alone
    <3>2. snd' = snd /\ src'[snd.path] = src[snd.path]
        BY <1>12, <2>2, <3>1, EditElsewhere DEF IInv
    <3> QED  BY <3>2 DEF KindKnown
  <2> QED  BY <2>1, <2>2
<1>13. CASE UNCHANGED vars
    BY <1>1, <1>13 DEF vars
<1> QED  BY <1>2, <1>3, <1>4, <1>5, <1>6, <1>7, <1>8, <1>9, <1>10, <1>11,
            <1>12, <1>13 DEF Next, Sender, Finished

\* FileTransfer's operators on folders are those of FileExchange.
LEMMA SameOperators ==
    /\ Transfer!UserNodes = UserNodes
    /\ \A f, p : Transfer!Exists(f, p) = Exists(f, p)
    /\ \A f : Transfer!WellFormed(f) = WellFormed(f)
    /\ \A f, p, node : /\ Transfer!CanPut(f, p, node) = CanPut(f, p, node)
                       /\ Transfer!Put(f, p, node) = Put(f, p, node)
    /\ \A f, node, p, s : Transfer!Outcome(f, node, p, s) = Outcome(f, node, p, s)
<1>1. Transfer!Absent = Absent /\ Transfer!Directory = Directory
      /\ Transfer!Other = Other /\ \A c : Transfer!File(c) = File(c)
    BY DEF Transfer!Absent, Absent, Transfer!Directory, Directory,
           Transfer!Other, Other, Transfer!File, File
<1>2. Transfer!UserNodes = UserNodes
    BY <1>1 DEF Transfer!UserNodes, UserNodes
<1>3. \A f, p : /\ Transfer!Exists(f, p) = Exists(f, p)
                /\ Transfer!IsDirectory(f, p) = IsDirectory(f, p)
                /\ Transfer!HasParents(f, p) = HasParents(f, p)
    BY DEF Transfer!Exists, Exists, Transfer!IsDirectory, IsDirectory,
           Transfer!HasParents, HasParents
<1>4. \A f : Transfer!WellFormed(f) = WellFormed(f)
    BY <1>3 DEF Transfer!WellFormed, WellFormed
<1>5. \A f, p : /\ Transfer!WriteDirectory(f, p) = WriteDirectory(f, p)
                /\ Transfer!DeleteFile(f, p) = DeleteFile(f, p)
    BY <1>1 DEF Transfer!WriteDirectory, WriteDirectory, Transfer!DeleteFile,
                DeleteFile
<1>6. \A f, p, node : /\ Transfer!CanPut(f, p, node) = CanPut(f, p, node)
                      /\ Transfer!Put(f, p, node) = Put(f, p, node)
    BY <1>1, <1>3, <1>5 DEF Transfer!CanPut, CanPut, Transfer!Put, Put
<1>7. \A f, node, p, s :
        Transfer!Outcome(f, node, p, s) = Outcome(f, node, p, s)
    BY DEF Transfer!Outcome, Outcome, Transfer!Exists, Exists,
           Transfer!HasParents, HasParents, Transfer!IsDirectory, IsDirectory,
           Transfer!WriteDirectory, WriteDirectory, Transfer!DeleteFile,
           DeleteFile, Transfer!Absent, Absent, Transfer!Directory, Directory
<1> QED  BY <1>2, <1>3, <1>4, <1>6, <1>7

\* A receiver that waits for data writes where the sender's file goes.
LEMMA Heading ==
    ASSUME IInv, ~slipped, rcv.pc = "data"
    PROVE  /\ snd.pc \in {"infoSent", "open", "stream", "final"}
           /\ rcv.left > 0 => rcv.path = snd.path
<1>1. Typed /\ Phases /\ Ready /\ Storing
    BY DEF IInv, Agreed, Keeping
<1>2. snd.pc \in {"infoSent", "open", "stream", "final"}
  <2>1. snd \in SenderStates
      BY <1>1 DEF Typed, TypeOK
  <2> QED  BY <1>1, <2>1 DEF Phases, PhaseBetween, BetweenExchanges, PhaseCommand,
                             PhaseThrew, SenderStates
<1>3. CASE snd.pc = "infoSent"
  <2>1. toSender # <<>>
      BY <1>1, <1>3, OneMessage DEF Phases, PhaseInfo
  <2> QED  BY <1>1, <1>2, <1>3, <2>1 DEF Ready
<1>4. CASE snd.pc # "infoSent"
    BY <1>1, <1>2, <1>4 DEF Storing, Awaited
<1> QED  BY <1>3, <1>4

\* Where nothing is, nothing is below.
LEMMA DeleteNothing ==
    ASSUME NEW f \in Folders, WellFormed(f), Bare(f), NEW p \in Paths, ~Exists(f, p)
    PROVE  DeleteFile(f, p) = f
<1>1. \A q \in Paths : q = p \/ p \in Above[q] => f[q] = Absent
    BY DEF Bare, WellFormed, HasParents, IsDirectory, Exists
<1> QED  BY <1>1 DEF DeleteFile, Folders

\* What receiveFile does with the file info, and with the data to come,
\* is what Outcome says (Exchanger.cpp:68-134).
LEMMA InfoDoes ==
    ASSUME IInv, Alone, KindKnown, ReceiveInfo
    PROVE  /\ snd.pc = "infoSent" /\ toReceiver # <<>> /\ toReceiver' = <<>>
           /\ UNCHANGED <<src, snd>>
           /\ src[snd.path].kind # "other"
           /\ Settled = dst
           /\ Settled' = Outcome(dst, src[snd.path], snd.path, snd.status)
<1> DEFINE i == Head(toReceiver)
           p == snd.path
           s == snd.status
           refused == Refuses(dst, s, p)
<1>1. Typed /\ Phases /\ Bare(dst) /\ ~slipped
    BY DEF IInv, Agreed, Keeping, Alone
<1>2. /\ snd \in SenderStates /\ rcv \in ReceiverStates
      /\ dst \in Folders /\ WellFormed(dst)
      /\ p \in Paths /\ s \in Statuses /\ src[p] \in Nodes
    BY <1>1, UserNodesType DEF Typed, TypeOK, SenderStates
<1>3. snd.pc = "infoSent" /\ rcv.pc = "info" /\ toReceiver # <<>>
    BY <1>1, <1>2 DEF ReceiveInfo, Phases, PhaseBetween, BetweenExchanges,
                      PhaseCommand, PhaseData, PhaseThrew, SenderStates
<1>4. /\ toReceiver = <<Info(snd.path, snd.status, snd.size)>>
      /\ rcv.command = snd.command
    BY <1>1, <1>3 DEF Phases, PhaseInfo
<1>5. /\ i.path = p /\ i.status = s /\ i.size = snd.size
      /\ toReceiver' = <<>> /\ UNCHANGED <<src, snd>>
    BY <1>4, OneMessage DEF Info, ReceiveInfo
<1>6. /\ dst' = IF refused THEN dst ELSE Apply(dst, snd.command, s, p)
      /\ rcv'.pc = "data" /\ rcv'.path = p
      /\ rcv'.left = IF ~refused /\ ExpectsData(snd.command, s, snd.size)
                       THEN snd.size ELSE 0
  <2>1. /\ dst' = IF refused THEN dst ELSE Apply(dst, snd.command, s, p)
        /\ rcv' = [rcv EXCEPT !.pc = "data", !.path = p, !.status = s,
             !.left = IF ~refused /\ ExpectsData(snd.command, s, snd.size)
                        THEN snd.size ELSE 0]
      BY <1>4, <1>5 DEF ReceiveInfo
  <2> QED  BY <1>2, <2>1 DEF ReceiverStates
<1>7. \/ /\ snd.command = "DIRECTORY" /\ src[p].kind = "directory" /\ snd.size = 0
      \/ /\ snd.command = "FILE" /\ src[p].kind = "file"
         /\ snd.size = Len(src[p].data)
      \/ /\ snd.command = "FILE_DEL" /\ src[p].kind = "absent" /\ snd.size = 0
    BY <1>3 DEF KindKnown, IsDirectory, IsRegularFile, Exists
<1>8. s = "erased" => src[p].kind = "absent"
    BY <1>3 DEF KindKnown, Exists
<1>9. Settled = dst
    BY <1>3 DEF Settled
<1> HIDE DEF i, refused
<1>10. ASSUME rcv'.left = 0 PROVE Settled' = dst'
  <2>1. ~(0 > 0)
      OBVIOUS
  <2> QED  BY <1>10, <2>1 DEF Settled
<1>11. Settled' = Outcome(dst, src[p], p, s)
  <2>1. CASE refused
    <3>1. dst' = dst /\ rcv'.left = 0
        BY <1>6, <2>1
    <3>2. Outcome(dst, src[p], p, s) = dst
        BY <2>1 DEF refused, Refuses, Outcome
    <3> QED  BY <1>10, <3>1, <3>2
  <2>2. CASE ~refused /\ snd.command = "DIRECTORY"
    <3>1. rcv'.left = 0
        BY <1>6, <2>2 DEF ExpectsData
    <3>2. dst' = WriteDirectory(dst, p)
        BY <1>6, <1>7, <1>8, <2>2 DEF Apply
    <3>3. Outcome(dst, src[p], p, s) = WriteDirectory(dst, p)
        BY <1>7, <2>2 DEF refused, Refuses, Outcome
    <3> QED  BY <1>10, <3>1, <3>2, <3>3
  <2>3. CASE ~refused /\ snd.command = "FILE_DEL"
    <3>1. rcv'.left = 0
        BY <1>6, <2>3 DEF ExpectsData
    <3>2. dst' = DeleteFile(dst, p)
        BY <1>6, <2>3 DEF Apply
    <3>3. Outcome(dst, src[p], p, s) = DeleteFile(dst, p)
        BY <1>7, <2>3 DEF refused, Refuses, Outcome
    <3> QED  BY <1>10, <3>1, <3>2, <3>3
  <2>4. CASE ~refused /\ snd.command = "FILE"
    <3> DEFINE room == DeleteFile(dst, p)
    <3>1. src[p].kind = "file" /\ s \in {"created", "modified"}
          /\ snd.size = Len(src[p].data)
        BY <1>2, <1>7, <1>8, <2>4 DEF Statuses
    <3>2. dst' = room
      <4>1. CASE s = "created"
        <5>1. dst' = dst
            BY <1>6, <2>4, <4>1 DEF Apply
        <5>2. ~Exists(dst, p)
            BY <2>4, <4>1 DEF refused, Refuses
        <5> QED  BY <1>1, <1>2, <5>1, <5>2, DeleteNothing
      <4>2. CASE s = "modified"
          BY <1>6, <2>4, <4>2 DEF Apply
      <4> QED  BY <3>1, <4>1, <4>2
    <3>3. HasParents(room, p) <=> HasParents(dst, p)
      <4>1. \A q \in Above[p] : q \in Paths /\ q # p /\ p \notin Above[q]
          BY <1>2, FolderAssumption
      <4>2. \A q \in Above[p] : room[q] = dst[q]
          BY <4>1 DEF DeleteFile
      <4> QED  BY <4>2 DEF HasParents, IsDirectory
    <3>4. snd.size \in Nat /\ (src[p].data # <<>> <=> snd.size > 0)
      <4>1. src[p].data \in Seq(Units)
          BY <1>2 DEF Nodes
      <4>2. Len(src[p].data) \in Nat /\ (Len(src[p].data) = 0 <=> src[p].data = <<>>)
          BY <4>1, LenProperties, EmptySeq
      <4> QED  BY <3>1, <4>2
    <3>5. Outcome(dst, src[p], p, s)
            = IF HasParents(dst, p) /\ src[p].data # <<>>
                THEN [room EXCEPT ![p] = src[p]] ELSE room
        BY <2>4, <3>1 DEF refused, Refuses, Outcome
    <3> HIDE DEF room
    <3>6. rcv'.left = IF snd.size > 0 THEN snd.size ELSE 0
        BY <1>6, <2>4, <3>1 DEF ExpectsData
    <3>7. CASE snd.size > 0
      <4>1. rcv'.left > 0
          BY <3>6, <3>7
      <4>2. Settled' = IF HasParents(dst, rcv.path)'
                         THEN [dst' EXCEPT ![p] = src[p]] ELSE dst'
          BY <1>5, <1>6, <4>1 DEF Settled
      <4>3. HasParents(dst, rcv.path)' <=> HasParents(dst', p)
          BY <1>6 DEF HasParents, IsDirectory
      <4> QED  BY <3>2, <3>3, <3>4, <3>5, <3>7, <4>2, <4>3
    <3>8. CASE ~(snd.size > 0)
        BY <1>10, <3>2, <3>4, <3>5, <3>6, <3>8
    <3> QED  BY <3>7, <3>8
  <2> QED  BY <1>7, <2>1, <2>2, <2>3, <2>4
<1>12. src[p].kind # "other"
    BY <1>7
<1> QED  BY <1>3, <1>5, <1>9, <1>11, <1>12

\* Every unit read is one of those Settled counts as there.
LEMMA DataSettles ==
    ASSUME IInv, Alone, ReceiveData
    PROVE  /\ snd.pc \in {"open", "stream", "final"}
           /\ Settled' = Settled
<1>1. Typed /\ Phases /\ Announced /\ Storing /\ ~slipped /\ ~touched
    BY DEF IInv, Agreed, Keeping, Alone
<1>2. snd \in SenderStates /\ dst \in Folders /\ src \in [Paths -> UserNodes]
    BY <1>1 DEF Typed, TypeOK
<1>3. /\ rcv.pc = "data" /\ rcv.left > 0 /\ toReceiver # <<>>
      /\ UNCHANGED <<src, snd>>
    BY DEF ReceiveData
<1>4. snd.pc \in {"open", "stream", "final"}
    BY <1>1, <1>2, <1>3 DEF Phases, PhaseBetween, BetweenExchanges,
       PhaseCommand, PhaseInfo, PhaseThrew, SenderStates
<1> DEFINE p == snd.path
<1>5. /\ rcv'.pc = "data" /\ rcv'.path = p /\ rcv.path = p
      /\ rcv'.left = rcv.left - 1 /\ rcv.left \in Nat \ {0}
      /\ p \in Paths /\ snd.size \in Nat \ {0}
      /\ Stored \in Nat
      /\ \A q \in Paths \ {p} : dst'[q] = dst[q]
      /\ HasParents(dst', p) <=> HasParents(dst, p)
      /\ ~HasParents(dst, p) => dst' = dst
      /\ HasParents(dst, p) =>
           /\ dst'[p].kind = "file"
           /\ dst'[p].data \in Seq(Units)
           /\ dst'[p] \in Nodes
           /\ Len(dst'[p].data) = Stored + 1
           /\ \A i \in 1 .. Stored + 1 : dst'[p].data[i] = src[p].data[i]
    BY <1>1, <1>4, UnitStored
<1>6. /\ HasParents(dst, rcv.path) <=> HasParents(dst, p)
      /\ HasParents(dst, rcv.path)' <=> HasParents(dst, p)
    BY <1>5 DEF HasParents, IsDirectory
<1>7. CASE ~HasParents(dst, p)
    BY <1>4, <1>5, <1>6, <1>7 DEF Settled
<1>8. CASE HasParents(dst, p)
  <2>1. Settled = [dst EXCEPT ![p] = src[p]]
      BY <1>3, <1>5, <1>6, <1>8 DEF Settled
  <2>2. dst' \in Folders
    <3>1. Typed'
        BY <1>1, ReceiverTyped DEF Receiver
    <3> QED  BY <3>1 DEF Typed, TypeOK
  <2>3. [dst' EXCEPT ![p] = src[p]] = [dst EXCEPT ![p] = src[p]]
      BY <1>2, <1>5, <2>2 DEF Folders
  <2>4. CASE rcv.left > 1
    <3>1. rcv'.left > 0
        BY <1>5, <2>4
    <3>2. Settled' = [dst' EXCEPT ![p] = src[p]]
        BY <1>3, <1>5, <1>6, <1>8, <3>1 DEF Settled
    <3> QED  BY <1>4, <2>1, <2>3, <3>2
  <2>5. CASE ~(rcv.left > 1)
    <3>1. rcv.left = 1 /\ ~(rcv'.left > 0)
        BY <1>5, <2>5
    <3>2. Settled' = dst'
        BY <3>1 DEF Settled
    <3>3. Stored + 1 = snd.size
        BY <1>3, <1>5, <3>1 DEF Stored, Awaited
    <3>4. src[p].kind = "file" /\ Len(src[p].data) = snd.size /\ src[p] \in Nodes
        BY <1>1, <1>2, <1>4, <1>5, UserNodesType DEF Announced, IsRegularFile
    <3>5. dst'[p].data = src[p].data
      <4>1. src[p].data \in Seq(Units)
          BY <3>4 DEF Nodes
      <4>2. dst'[p].data \in Seq(Units) /\ Len(dst'[p].data) = Len(src[p].data)
          BY <1>5, <1>8, <3>3, <3>4
      <4>3. \A i \in 1 .. Len(src[p].data) : dst'[p].data[i] = src[p].data[i]
          BY <1>5, <1>8, <3>3, <3>4
      <4> QED  BY <4>1, <4>2, <4>3, SeqEqual
    <3>6. dst'[p] = src[p]
        BY <1>5, <1>8, <3>4, <3>5 DEF Nodes
    <3>7. [dst' EXCEPT ![p] = src[p]] = dst'
        BY <1>5, <2>2, <3>6 DEF Folders
    <3> QED  BY <1>4, <2>1, <2>3, <3>2, <3>7
  <2> QED  BY <2>4, <2>5
<1> QED  BY <1>4, <1>7, <1>8

\* The steps of the sender that decide nothing.
LEMMA SenderImplements ==
    ASSUME IInv, Alone, KindKnown, Sender
    PROVE  [Transfer!Next]_(Transfer!vars)
<1>0. /\ Typed /\ Phases /\ snd \in SenderStates /\ src \in [Paths -> UserNodes]
    BY DEF IInv, Alone, Agreed, Typed, TypeOK
<1>1. UNCHANGED <<src, dst, rcv>>
    BY DEF Sender, CheckDirectory, CheckRegularFile, ReadFileSize, CheckExists,
           AwaitCommandAck, AwaitInfoAck, OpenFile, SendBlock, SendBlockFails,
           AwaitFsErrReply, AwaitFinalAck
<1>2. Settled' = Settled
    BY <1>1 DEF Settled, HasParents, IsDirectory
<1>3. ASSUME snd.pc # "idle", snd'.pc # "idle", snd'.path = snd.path,
             snd'.status = snd.status, Phase' = Phase
      PROVE  UNCHANGED Transfer!vars
  <2>1. Job' = Job
      BY <1>3 DEF Job
  <2> QED  BY <1>1, <1>2, <1>3, <2>1 DEF Transfer!vars
<1>4. CASE CheckDirectory \/ CheckRegularFile \/ ReadFileSize
  <2>1. /\ snd.pc \in {"isDirectory", "isRegularFile", "getFileSize"}
        /\ snd'.pc \in {"isRegularFile", "getFileSize", "exists", "commandSent",
                        "threw"}
        /\ snd'.path = snd.path /\ snd'.status = snd.status
      BY <1>0, <1>4 DEF CheckDirectory, CheckRegularFile, ReadFileSize,
                        SendCommand, SenderStates
  <2>2. snd'.pc # "threw"
      BY <1>0, <1>4 DEF CheckDirectory, CheckRegularFile, ReadFileSize,
                        SendCommand, SenderStates, KindKnown
  <2>3. Phase' = Phase
      BY <2>1, <2>2 DEF Phase
  <2> QED  BY <1>3, <2>1, <2>3
<1>5. CASE CheckExists
  <2>1. snd.pc = "exists" /\ snd'.path = snd.path /\ snd'.status = snd.status
      BY <1>0, <1>5 DEF CheckExists, SendCommand, SenderStates
  <2>2. CASE ~Exists(src, snd.path)
    <3>1. snd'.pc = "commandSent"
        BY <1>0, <1>5, <2>2 DEF CheckExists, SendCommand, SenderStates
    <3>2. Phase' = Phase
        BY <2>1, <3>1 DEF Phase
    <3> QED  BY <1>3, <2>1, <3>1, <3>2
  <2>3. CASE Exists(src, snd.path)
    <3>1. snd'.pc = "threw"
        BY <1>0, <1>5, <2>3 DEF CheckExists, SenderStates
    <3>2. Phase = "asked" /\ Phase' = "failed"
        BY <2>1, <3>1 DEF Phase
    <3>3. Job = <<snd.path, snd.status>> /\ Job' = Job
        BY <2>1, <3>1 DEF Job
    <3>4. src[snd.path].kind = "other"
      <4>1. src[snd.path].kind \in Kinds
          BY <1>0, UserNodesType DEF SenderStates, Nodes
      <4> QED  BY <2>1, <2>3, <4>1
               DEF KindKnown, IsDirectory, IsRegularFile, Exists, Kinds
    <3>5. Transfer!Fail
        BY <1>1, <1>2, <3>2, <3>3, <3>4 DEF Transfer!Fail
    <3> QED  BY <3>5 DEF Transfer!Next
  <2> QED  BY <2>2, <2>3
<1>6. CASE AwaitCommandAck
  <2>1. /\ snd.pc = "commandSent" /\ snd'.pc = "infoSent"
        /\ snd'.path = snd.path /\ snd'.status = snd.status
      BY <1>0, <1>6 DEF AwaitCommandAck, SenderStates
  <2>2. toReceiver' # <<>>
    <3>1. toReceiver = <<>>
        BY <1>0, <1>6 DEF AwaitCommandAck, Phases, PhaseCommand
    <3> QED  BY <1>6, <3>1, OneMessage DEF AwaitCommandAck
  <2>3. Phase' = Phase
      BY <2>1, <2>2 DEF Phase
  <2> QED  BY <1>3, <2>1, <2>3
<1>7. CASE AwaitInfoAck \/ OpenFile \/ SendBlock
  <2>1. /\ snd.pc \in {"infoSent", "open", "stream"}
        /\ snd'.pc \in {"open", "stream", "final"}
        /\ snd'.path = snd.path /\ snd'.status = snd.status
      BY <1>0, <1>7 DEF AwaitInfoAck, OpenFile, SendBlock, SenderStates
  <2>2. snd.pc = "infoSent" => toReceiver = <<>>
      BY <1>0, <1>7 DEF AwaitInfoAck, OpenFile, SendBlock, Phases, PhaseInfo
  <2>3. Phase' = Phase
      BY <2>1, <2>2 DEF Phase
  <2> QED  BY <1>3, <2>1, <2>3
<1>8. ~SendBlockFails
    BY NoBlockFails
<1>9. ~AwaitFsErrReply
    BY <1>0 DEF AwaitFsErrReply, Phases
<1>10. CASE AwaitFinalAck
  <2>1. snd.pc = "final" /\ snd'.pc = "idle"
      BY <1>0, <1>10 DEF AwaitFinalAck, SenderStates
  <2>2. Phase = "done" /\ Phase' = "none" /\ Job' = <<>>
      BY <2>1 DEF Phase, Job
  <2>3. Transfer!Finish
      BY <1>1, <1>2, <2>2 DEF Transfer!Finish
  <2> QED  BY <2>3 DEF Transfer!Next
<1> QED  BY <1>4, <1>5, <1>6, <1>7, <1>8, <1>9, <1>10 DEF Sender

LEMMA StepImplements ==
    ASSUME ~Racy, IInv, Alone, KindKnown, [Next]_vars
    PROVE  [Transfer!Next]_(Transfer!vars)
<1>0. /\ Typed /\ Phases /\ ~slipped
      /\ snd \in SenderStates /\ rcv \in ReceiverStates
    BY DEF IInv, Alone, Agreed, Typed, TypeOK
<1>1. ASSUME UNCHANGED <<src, snd>>, Settled' = Settled,
             snd.pc = "infoSent" => (toReceiver = <<>>) = (toReceiver' = <<>>)
      PROVE  UNCHANGED Transfer!vars
    BY <1>1 DEF Transfer!vars, Job, Phase
<1>2. ASSUME NEW p \in Paths, NEW s \in Statuses, Start(p, s)
      PROVE  [Transfer!Next]_(Transfer!vars)
  <2>1. /\ snd.pc = "idle" /\ snd'.pc = "isDirectory"
        /\ snd'.path = p /\ snd'.status = s
        /\ UNCHANGED <<src, dst, rcv>>
        /\ s = "erased" => ~Exists(src, p)
      BY <1>2 DEF Start
  <2>2. Phase = "none" /\ Phase' = "asked" /\ Job' = <<p, s>>
      BY <2>1 DEF Phase, Job
  <2>3. Settled' = Settled
      BY <2>1 DEF Settled, HasParents, IsDirectory
  <2>4. Transfer!Begin(p, s)
      BY <2>1, <2>2, <2>3, SameOperators DEF Transfer!Begin
  <2>5. s \in Transfer!Statuses
      BY DEF Statuses, Transfer!Statuses
  <2> QED  BY <2>4, <2>5 DEF Transfer!Next
<1>3. CASE ReceiveInfo
  <2> DEFINE p == snd.path
             s == snd.status
  <2>1. /\ snd.pc = "infoSent" /\ toReceiver # <<>> /\ toReceiver' = <<>>
        /\ UNCHANGED <<src, snd>>
        /\ src[p].kind # "other"
        /\ Settled' = Outcome(Settled, src[p], p, s)
      BY <1>3, InfoDoes
  <2>2. Phase = "asked" /\ Phase' = "done"
      BY <2>1 DEF Phase
  <2>3. Job = <<p, s>> /\ Job' = Job
      BY <2>1 DEF Job
  <2>4. Transfer!Do
    <3>1. Job[1] = p /\ Job[2] = s
        BY <2>3
    <3>2. Settled' = Transfer!Outcome(Settled, src[p], p, s)
        BY <2>1, SameOperators
    <3> QED  BY <2>1, <2>2, <2>3, <3>1, <3>2 DEF Transfer!Do
  <2> QED  BY <2>4 DEF Transfer!Next
<1>4. CASE ReceiveData
  <2>1. UNCHANGED <<src, snd>> /\ snd.pc # "infoSent" /\ Settled' = Settled
      BY <1>4, DataSettles DEF ReceiveData
  <2> QED  BY <1>1, <2>1
<1>5. CASE ReceiveCommand
  <2>1. /\ rcv.pc = "command" /\ toReceiver # <<>>
        /\ UNCHANGED <<src, dst, snd>>
      BY <1>5 DEF ReceiveCommand
  <2>2. rcv'.pc \in {"info", "threw"}
      BY <1>0, <1>5 DEF ReceiveCommand, ReceiverStates
  <2>3. snd.pc # "infoSent"
      BY <1>0, <2>1 DEF Phases, PhaseInfo
  <2>4. Settled' = Settled
      BY <2>1, <2>2 DEF Settled
  <2> QED  BY <1>1, <2>1, <2>3, <2>4
<1>6. CASE SendFinalAck
  <2>1. /\ rcv.pc = "data" /\ rcv.left = 0 /\ toReceiver' = toReceiver
        /\ UNCHANGED <<src, dst, snd>>
      BY <1>6 DEF SendFinalAck
  <2>2. rcv'.pc = "command"
      BY <1>0, <1>6 DEF SendFinalAck, ReceiverStates
  <2>3. Settled' = Settled
    <3>1. ~(0 > 0)
        OBVIOUS
    <3> QED  BY <2>1, <2>2, <3>1 DEF Settled
  <2> QED  BY <1>1, <2>1, <2>3
<1>7. CASE SocketClosed
  <2>1. rcv.pc = "threw" => snd.pc = "threw"
      BY <1>0 DEF Phases, PhaseBetween, BetweenExchanges, PhaseCommand,
                  PhaseInfo, PhaseData, SenderStates
  <2>2. /\ snd.pc = "threw" /\ UNCHANGED <<src, dst, snd, toReceiver>>
        /\ rcv' = [rcv EXCEPT !.pc = "threw"]
      BY <1>7, <2>1 DEF SocketClosed
  <2>3. rcv.pc # "data" /\ rcv'.pc = "threw"
      BY <1>0, <2>2 DEF Phases, PhaseThrew, ReceiverStates
  <2>4. Settled' = Settled
      BY <2>2, <2>3 DEF Settled
  <2> QED  BY <1>1, <2>2, <2>4
<1>8. ASSUME NEW p \in Paths, NEW node \in UserNodes, Edit(p, node)
      PROVE  [Transfer!Next]_(Transfer!vars)
  <2>1. /\ CanPut(src, p, node) /\ src' = Put(src, p, node)
        /\ ~InTransit(p) /\ UNCHANGED <<dst, toReceiver, rcv>>
      BY <1>8 DEF Edit
  <2>2. ~touched'
      BY AloneNext DEF Alone
  <2>3. snd'.pc = snd.pc /\ snd'.path = snd.path /\ snd'.status = snd.status
      BY <1>0, <1>8, EditLeavesPlace
  <2>4. Phase' = Phase /\ Job' = Job
      BY <2>1, <2>3 DEF Phase, Job
  <2>5. Settled' = Settled
    <3>1. CASE rcv.pc = "data" /\ rcv.left > 0
      <4>1. rcv.path = snd.path /\ snd.pc # "idle"
          BY <1>0, <3>1, Heading
      <4>2. src'[rcv.path] = src[rcv.path]
          BY <1>0, <1>8, <2>2, <4>1, EditElsewhere
      <4> QED  BY <2>1, <4>2 DEF Settled, HasParents, IsDirectory
    <3>2. CASE ~(rcv.pc = "data" /\ rcv.left > 0)
        BY <2>1, <3>2 DEF Settled
    <3> QED  BY <3>1, <3>2
  <2>6. Job = <<>> \/ (p # Job[1] /\ p \notin Above[Job[1]])
    <3>1. CASE snd.pc = "idle"
        BY <3>1 DEF Job
    <3>2. CASE snd.pc # "idle"
      <4>1. Job[1] = snd.path
          BY <3>2 DEF Job
      <4> QED  BY <2>1, <3>2, <4>1 DEF InTransit
    <3> QED  BY <3>1, <3>2
  <2>7. Transfer!Edit(p, node) /\ node \in Transfer!UserNodes
      BY <2>1, <2>4, <2>5, <2>6, SameOperators DEF Transfer!Edit
  <2> QED  BY <2>7 DEF Transfer!Next
<1>9. CASE UNCHANGED vars
  <2>1. Settled' = Settled
      BY <1>9 DEF vars, Settled, HasParents, IsDirectory
  <2> QED  BY <1>1, <1>9, <2>1 DEF vars
<1> QED  BY <1>2, <1>3, <1>4, <1>5, <1>6, <1>7, <1>8, <1>9, SenderImplements
         DEF Next, Receiver, Finished

\* While nobody edits what is being sent, an exchange, whatever the order in
\* which its two threads run and the lengths in which the socket delivers,
\* changes the receiver's folder in one step, to Outcome
\* (Exchanger.cpp:48-136, 138-197).
THEOREM TransferImplemented == ASSUME ~Racy PROVE Spec => ImplementsTransfer
<1>1. Init => Transfer!Init
  <2> SUFFICES ASSUME Init PROVE Transfer!Init
      OBVIOUS
  <2>1. snd.pc = "idle" /\ rcv.pc = "command"
    <3>1. PICK p \in Paths :
            snd = [pc |-> "idle", path |-> p, status |-> "created",
                   command |-> "FILE_DEL", size |-> 0, left |-> 0, file |-> <<>>]
        BY DEF Init
    <3> QED  BY <3>1 DEF Init
  <2>2. Settled = dst /\ Phase = "none" /\ Job = <<>>
      BY <2>1 DEF Settled, Phase, Job
  <2>3. Transfer!Other = Other
      BY DEF Transfer!Other, Other
  <2> QED  BY <2>2, <2>3, SameOperators DEF Init, Transfer!Init
<1>2. Init => Alone /\ KindKnown
  <2> SUFFICES ASSUME Init PROVE Alone /\ KindKnown
      OBVIOUS
  <2>1. snd.pc = "idle"
    <3>1. PICK p \in Paths :
            snd = [pc |-> "idle", path |-> p, status |-> "created",
                   command |-> "FILE_DEL", size |-> 0, left |-> 0, file |-> <<>>]
        BY DEF Init
    <3> QED  BY <3>1
  <2> QED  BY <2>1 DEF Init, Alone, KindKnown
<1>3. IInv /\ Alone /\ KindKnown /\ [Next]_vars => (Alone /\ KindKnown)'
    BY AloneNext, KindKnownNext
<1>4. IInv /\ Alone /\ KindKnown /\ [Next]_vars => [Transfer!Next]_(Transfer!vars)
    BY StepImplements
<1> QED  BY <1>1, <1>2, <1>3, <1>4, InvAlways, PTL
         DEF Spec, ImplementsTransfer, Transfer!Spec

=============================================================================
