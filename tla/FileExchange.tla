---------------------------- MODULE FileExchange ----------------------------
(***************************************************************************)
(* One direction of FileExchanger (shared/communication/Exchanger.cpp):    *)
(* sendFile at one end of a TCP connection, receiveFile at the other.  The *)
(* same two functions carry the client's changes and its initial upload to *)
(* the server and the server's content to a new client.                    *)
(*                                                                         *)
(* toReceiver and toSender are what each socket can still deliver.  A      *)
(* message is one element; file data travels unit by unit, so a receiver's *)
(* read returns any number of the units that have arrived (recv returns a  *)
(* short count on a stream) and the state between two units is visible.    *)
(* A message that a receiver takes for file data counts as one unit.       *)
(*                                                                         *)
(* The user may edit the sending folder at any moment; with Racy = FALSE,  *)
(* only the paths no request is under way for, and a request says "erased" *)
(* only of a path that is still absent.                                    *)
(***************************************************************************)
EXTENDS Folder

CONSTANTS
    Contents,          \* what the user's files may hold
    SizeMessageText,   \* SIZE_MESSAGE_TEXT: units per block written
    Racy               \* may the user touch a path while it is sent?

ASSUME ExchangeAssumption ==
    /\ Contents \subseteq Seq(Data)
    /\ SizeMessageText \in Nat \ {0}
    /\ Racy \in BOOLEAN

VARIABLES
    src,          \* the sender's folder
    dst,          \* the receiver's folder
    toReceiver,   \* written by the sender, not yet read
    toSender,     \* written by the receiver, not yet read
    snd,          \* sendFile's place and locals
    rcv,          \* receiveFile's place and locals
    touched,      \* auxiliary: the path was edited since its exchange began
    slipped       \* auxiliary: sender and receiver disagree on the data

vars == <<src, dst, toReceiver, toSender, snd, rcv, touched, slipped>>

Statuses == {"created", "modified", "erased"}
Commands == {"DIRECTORY", "FILE", "FILE_DEL"}

Text(t)       == [type |-> "text", text |-> t]
Info(p, s, n) == [type |-> "file", path |-> p, status |-> s, size |-> n]
Unit(u)       == [type |-> "data", unit |-> u]

Sizes == Nat \cup {-1}
Texts == [type : {"text"},
          text : Commands \cup {"ERR", "FS_ERR", "ACK", "PRESENT"}]
Infos == [type : {"file"}, path : Paths, status : Statuses, size : Sizes]
Chunk == [type : {"data"}, unit : Data]

UserNodes == {Absent, Directory, Other} \cup {File(c) : c \in Contents}

Init ==
    /\ src \in {f \in [Paths -> UserNodes] : WellFormed(f)}
    /\ dst \in {f \in [Paths -> UserNodes \ {Other}] : WellFormed(f)}
    /\ toReceiver = <<>>
    /\ toSender = <<>>
    /\ \E p \in Paths :
         snd = [pc |-> "idle", path |-> p, status |-> "created",
                command |-> "FILE_DEL", size |-> 0, left |-> 0, file |-> <<>>]
    /\ rcv = [pc |-> "command", command |-> "", path |-> snd.path,
              status |-> "created", left |-> 0]
    /\ touched = FALSE
    /\ slipped = FALSE

-----------------------------------------------------------------------------
(* sendFile *)

\* The caller: a request thread of the client, its upload loop (status
\* modified), or the server's upload loop (status created).
Start(p, s) ==
    /\ snd.pc = "idle"
    /\ (~Racy /\ s = "erased") => ~Exists(src, p)
    /\ snd' = [pc |-> "isDirectory", path |-> p, status |-> s,
               command |-> "FILE_DEL", size |-> 0, left |-> 0, file |-> <<>>]
    /\ touched' = FALSE
    /\ UNCHANGED <<src, dst, toReceiver, toSender, rcv, slipped>>

SendCommand(c, n) ==
    /\ toReceiver' = Append(toReceiver, Text(c))
    /\ snd' = [snd EXCEPT !.pc = "commandSent", !.command = c, !.size = n]

\* The sender looks at the path up to four times before it settles on a
\* command; the user may change it between any two of the looks.
CheckDirectory ==
    /\ snd.pc = "isDirectory"
    /\ \/ /\ IsDirectory(src, snd.path)
          /\ SendCommand("DIRECTORY", 0)
       \/ /\ ~IsDirectory(src, snd.path)
          /\ snd' = [snd EXCEPT !.pc = "isRegularFile"]
          /\ UNCHANGED toReceiver
    /\ UNCHANGED <<src, dst, toSender, rcv, touched, slipped>>

CheckRegularFile ==
    /\ snd.pc = "isRegularFile"
    /\ snd' = [snd EXCEPT !.pc = IF IsRegularFile(src, snd.path)
                                   THEN "getFileSize" ELSE "exists"]
    /\ UNCHANGED <<src, dst, toReceiver, toSender, rcv, touched, slipped>>

\* getFileSize asks exists() first, then file_size(), which throws when
\* the path has become something without a size or is gone.
ReadFileSize ==
    /\ snd.pc = "getFileSize"
    /\ \/ /\ src[snd.path].kind \in {"file", "absent"}
          /\ SendCommand("FILE", GetFileSize(src, snd.path))
       \/ /\ ~IsRegularFile(src, snd.path)
          /\ snd' = [snd EXCEPT !.pc = "threw"]
          /\ UNCHANGED toReceiver
    /\ UNCHANGED <<src, dst, toSender, rcv, touched, slipped>>

CheckExists ==
    /\ snd.pc = "exists"
    /\ \/ /\ ~Exists(src, snd.path)
          /\ SendCommand("FILE_DEL", 0)
       \/ /\ Exists(src, snd.path)
          /\ toReceiver' = Append(toReceiver, Text("ERR"))
          /\ snd' = [snd EXCEPT !.pc = "threw"]
    /\ UNCHANGED <<src, dst, toSender, rcv, touched, slipped>>

\* The reply is read and not compared with anything.
AwaitCommandAck ==
    /\ snd.pc = "commandSent"
    /\ toSender # <<>>
    /\ toSender' = Tail(toSender)
    /\ toReceiver' = Append(toReceiver, Info(snd.path, snd.status, snd.size))
    /\ snd' = [snd EXCEPT !.pc = "infoSent"]
    /\ UNCHANGED <<src, dst, rcv, touched, slipped>>

\* The receiver forgets that data follows a file it is told was created.
ExpectsModifiedOnly(c, s, n) == c = "FILE" /\ s = "modified" /\ n > 0

\* Does the receiver read data after this file info?
ExpectsData(c, s, n) == c = "FILE" /\ s \in {"created", "modified"} /\ n > 0

(***************************************************************************)
(* Whether data is sent is decided by a second look at the path (the       *)
(* command string the code tests as well has been moved from, and is       *)
(* empty); whether data is read was decided by the command and the status. *)
(* slipped records the two ways in which they disagree: the file vanished  *)
(* after its size was announced, or a request that says "erased" found a   *)
(* file with data.                                                         *)
(***************************************************************************)
AwaitInfoAck ==
    /\ snd.pc = "infoSent"
    /\ toSender # <<>>
    /\ LET acked == Head(toSender) = Text("ACK")
           sends == acked /\ IsRegularFile(src, snd.path)
       IN  /\ snd' = [snd EXCEPT !.pc   = IF sends THEN "open" ELSE "final",
                                 !.left = IF sends THEN snd.size ELSE 0]
           /\ slipped' = \/ slipped
                         \/ /\ acked /\ snd.size > 0
                            /\ sends <=> (snd.status = "erased")
    /\ toSender' = Tail(toSender)
    /\ UNCHANGED <<src, dst, toReceiver, rcv, touched>>

\* ifstream::open; a path that is no file any more gives a stream that
\* every read fails on.
OpenFile ==
    /\ snd.pc = "open"
    /\ snd' = [snd EXCEPT !.file = src[snd.path].data,
                          !.pc = IF snd.left > 0 THEN "stream" ELSE "final"]
    /\ UNCHANGED <<src, dst, toReceiver, toSender, rcv, touched, slipped>>

\* Only whole blocks are ever read.
BlockSizeRounded(left) == (left \div SizeMessageText) * SizeMessageText

\* num: the size of the next block.
BlockSize(left) == IF left > SizeMessageText THEN SizeMessageText ELSE left

\* One turn of the loop that reads a block from the file and writes it to
\* the socket.
SendBlock ==
    LET num  == BlockSize(snd.left)
        sent == snd.size - snd.left
    IN  /\ snd.pc = "stream"
        /\ sent + num <= Len(snd.file)
        /\ toReceiver' = toReceiver \o
                           [i \in 1 .. num |-> Unit(snd.file[sent + i])]
        /\ snd' = [snd EXCEPT !.left = @ - num,
                              !.pc = IF num < snd.left THEN "stream" ELSE "final"]
        /\ UNCHANGED <<src, dst, toSender, rcv, touched, slipped>>

\* The file is shorter than announced: FS_ERR goes out where the receiver
\* expects data, the third way to disagree.
SendBlockFails ==
    /\ snd.pc = "stream"
    /\ snd.size - snd.left + BlockSize(snd.left) > Len(snd.file)
    /\ toReceiver' = Append(toReceiver, Text("FS_ERR"))
    /\ snd' = [snd EXCEPT !.pc = "fsErr"]
    /\ slipped' = TRUE
    /\ UNCHANGED <<src, dst, toSender, rcv, touched>>

AwaitFsErrReply ==
    /\ snd.pc = "fsErr"
    /\ toSender # <<>>
    /\ toSender' = Tail(toSender)
    /\ snd' = [snd EXCEPT !.pc = "threw"]
    /\ UNCHANGED <<src, dst, toReceiver, rcv, touched, slipped>>

\* The sender goes on to the next file without the final acknowledgement.
AwaitFinalAckNot ==
    /\ snd.pc = "final"
    /\ snd' = [snd EXCEPT !.pc = "idle"]
    /\ UNCHANGED <<src, dst, toReceiver, toSender, rcv, touched, slipped>>

AwaitFinalAck ==
    /\ snd.pc = "final"
    /\ toSender # <<>>
    /\ toSender' = Tail(toSender)
    /\ snd' = [snd EXCEPT !.pc = "idle"]
    /\ UNCHANGED <<src, dst, toReceiver, rcv, touched, slipped>>

-----------------------------------------------------------------------------
(* receiveFile *)

Reply(t) == toSender' = Append(toSender, Text(t))

\* The command.  File data read here gives a length and an archive that do
\* not parse: awaitMessage throws.
ReceiveCommand ==
    /\ rcv.pc = "command"
    /\ toReceiver # <<>>
    /\ toReceiver' = Tail(toReceiver)
    /\ LET m == Head(toReceiver)
       IN  \/ /\ m.type = "text"
             /\ Reply("ACK")
             /\ rcv' = IF m.text \in {"ERR", "FS_ERR"}
                         THEN [rcv EXCEPT !.pc = "threw"]
                         ELSE [rcv EXCEPT !.pc = "info", !.command = m.text]
          \/ /\ m.type # "text"
             /\ rcv' = [rcv EXCEPT !.pc = "threw"]
             /\ UNCHANGED toSender
    /\ UNCHANGED <<src, dst, snd, touched, slipped>>

\* What receiveFile does to the folder before it reads any data.
Apply(f, c, s, p) ==
    CASE c = "DIRECTORY" /\ s # "erased"            -> WriteDirectory(f, p)
      [] c = "FILE" /\ s = "created"                -> f
      [] c \in {"DIRECTORY", "FILE"} /\ s = "erased" -> DeleteFile(f, p)
      [] c = "FILE" /\ s = "modified"               -> DeleteFile(f, p)
      [] c = "FILE_DEL"                             -> DeleteFile(f, p)
      [] OTHER                                      -> f

\* PRESENT whatever the status.
RefusesWhateverExists(f, s, p) == Exists(f, p)

\* PRESENT: the path is there already and the sender says it has created it.
Refuses(f, s, p) == Exists(f, p) /\ s = "created"

\* The file info, the reply to it and what it asks for.
ReceiveInfo ==
    /\ rcv.pc = "info"
    /\ toReceiver # <<>>
    /\ Head(toReceiver).type = "file"
    /\ toReceiver' = Tail(toReceiver)
    /\ LET i == Head(toReceiver)
           refused == Refuses(dst, i.status, i.path)
       IN  /\ Reply(IF refused THEN "PRESENT" ELSE "ACK")
           /\ dst' = IF refused THEN dst
                       ELSE Apply(dst, rcv.command, i.status, i.path)
           /\ rcv' = [rcv EXCEPT
                !.pc = "data", !.path = i.path, !.status = i.status,
                !.left = IF ~refused /\ ExpectsData(rcv.command, i.status, i.size)
                           THEN i.size ELSE 0]
    /\ UNCHANGED <<src, snd, touched, slipped>>

\* A read of what has arrived, up to the rest of the block, appended to the
\* file; whatever arrives is taken for data.
ReceiveData ==
    /\ rcv.pc = "data"
    /\ rcv.left > 0
    /\ toReceiver # <<>>
    /\ LET m == Head(toReceiver)
       IN  dst' = WriteFile(dst, rcv.path, IF m.type = "data" THEN m.unit ELSE Junk)
    /\ toReceiver' = Tail(toReceiver)
    /\ rcv' = [rcv EXCEPT !.left = @ - 1]
    /\ UNCHANGED <<src, toSender, snd, touched, slipped>>

\* The acknowledgement of success; the caller calls receiveFile again.
SendFinalAck ==
    /\ rcv.pc = "data"
    /\ rcv.left = 0
    /\ Reply("ACK")
    /\ rcv' = [rcv EXCEPT !.pc = "command"]
    /\ UNCHANGED <<src, dst, toReceiver, snd, touched, slipped>>

-----------------------------------------------------------------------------
(* The end of a connection, and the user *)

\* A program whose exchange threw drops the connection: the worker erases
\* the user's socket, a request thread of the client ends the process.  The
\* other end reads what is left and then finds the socket closed.  (Only the
\* client's initial upload and download try again on the same socket.)
SocketClosed ==
    \/ /\ snd.pc = "threw" /\ toReceiver = <<>>
       /\ rcv.pc \in {"command", "info"} \/ (rcv.pc = "data" /\ rcv.left > 0)
       /\ rcv' = [rcv EXCEPT !.pc = "threw"]
       /\ UNCHANGED <<src, dst, toReceiver, toSender, snd, touched, slipped>>
    \/ /\ rcv.pc = "threw" /\ toSender = <<>>
       /\ snd.pc \in {"commandSent", "infoSent", "final", "fsErr"}
       /\ snd' = [snd EXCEPT !.pc = "threw"]
       /\ UNCHANGED <<src, dst, toReceiver, toSender, rcv, touched, slipped>>

InTransit(p) == snd.pc # "idle" /\ (p = snd.path \/ p \in Above[snd.path])

(***************************************************************************)
(* The user edits the sending folder.  A file rewritten in place shows its *)
(* new content to a sender that has it open; a file replaced by another    *)
(* one, or removed, does not.                                              *)
(***************************************************************************)
Edit(p, node) ==
    /\ CanPut(src, p, node)
    /\ Racy \/ ~InTransit(p)
    /\ src' = Put(src, p, node)
    /\ touched' = (touched \/ InTransit(p))
    /\ \/ UNCHANGED snd
       \/ /\ snd.pc = "stream" /\ p = snd.path
          /\ IsRegularFile(src, p) /\ node.kind = "file"
          /\ snd' = [snd EXCEPT !.file = node.data]
    /\ UNCHANGED <<dst, toReceiver, toSender, rcv, slipped>>

\* Both programs are done with a connection that failed.
Finished ==
    /\ snd.pc = "threw" /\ rcv.pc = "threw"
    /\ UNCHANGED vars

Sender ==
    \/ CheckDirectory \/ CheckRegularFile \/ ReadFileSize \/ CheckExists
    \/ AwaitCommandAck \/ AwaitInfoAck \/ OpenFile
    \/ SendBlock \/ SendBlockFails
    \/ AwaitFsErrReply \/ AwaitFinalAck

Receiver == ReceiveCommand \/ ReceiveInfo \/ ReceiveData \/ SendFinalAck

Next ==
    \/ \E p \in Paths, s \in Statuses : Start(p, s)
    \/ Sender
    \/ Receiver
    \/ SocketClosed
    \/ \E p \in Paths, node \in UserNodes : Edit(p, node)
    \/ Finished

Spec == Init /\ [][Next]_vars

\* Both threads keep running, and TCP reports a closed connection; nothing
\* is assumed of the user or of the callers.
FairSpec ==
    /\ Spec
    /\ WF_vars(Sender)
    /\ WF_vars(Receiver)
    /\ WF_vars(SocketClosed)

-----------------------------------------------------------------------------
(* Properties *)

SenderStates ==
    [pc : {"idle", "isDirectory", "isRegularFile", "getFileSize", "exists",
           "commandSent", "infoSent", "open", "stream", "final", "fsErr",
           "threw"},
     path : Paths, status : Statuses, command : Commands,
     size : Sizes, left : Sizes, file : Seq(Data)]

ReceiverStates ==
    [pc : {"command", "info", "data", "threw"},
     command : Commands \cup {"", "ACK", "PRESENT"},
     path : Paths, status : Statuses, left : Nat]

TypeOK ==
    /\ src \in [Paths -> UserNodes] /\ WellFormed(src)
    /\ dst \in Folders /\ WellFormed(dst)
    /\ toReceiver \in Seq(Texts \cup Infos \cup Chunk)
    /\ toSender \in Seq(Texts)
    /\ snd \in SenderStates
    /\ rcv \in ReceiverStates
    /\ touched \in BOOLEAN
    /\ slipped \in BOOLEAN

\* No message of the current exchange has been written yet.
BetweenExchanges ==
    snd.pc \in {"idle", "isDirectory", "isRegularFile", "getFileSize", "exists"}

\* An exchange that is over leaves nothing behind on the connection: the
\* next request is written to a receiver that waits for a command, and reads
\* no reply of an earlier one (Exchanger.cpp:57 and 160).  The only ways to
\* get there otherwise are the three that slipped records.
InStep ==
    ~slipped /\ BetweenExchanges =>
        /\ toReceiver = <<>> /\ toSender = <<>>
        /\ rcv.pc = "command"

\* Each of receiveFile's three reads takes what sendFile wrote for it: a
\* command, a file info or file data (Exchanger.cpp:57, 68, 101).
ReadsWhatWasMeant ==
    ~slipped /\ toReceiver # <<>> /\ rcv.pc # "threw" =>
        Head(toReceiver).type =
            CASE rcv.pc = "command" -> "text"
              [] rcv.pc = "info"    -> "file"
              [] rcv.pc = "data"    -> "data"

\* The reply sendFile takes for the final acknowledgement (Exchanger.cpp:195)
\* was written after receiveFile had stored the last unit, and a file sent
\* as modified is then the sender's file unless the user edited it meanwhile
\* (its length is the announced one even so).  An empty file, and one whose
\* directory the receiver lacks, are the exceptions.
AcknowledgedMeansStored ==
    ~slipped /\ snd.pc = "final" /\ toSender # <<>> =>
        /\ rcv.pc = "command"
        /\ snd.command = "FILE" /\ snd.status = "modified"
             /\ snd.size > 0 /\ HasParents(dst, snd.path) =>
             /\ IsRegularFile(dst, snd.path)
             /\ Len(dst[snd.path].data) = snd.size
             /\ ~touched => dst[snd.path] = src[snd.path]

\* Every exchange that is begun comes to an end, with the final
\* acknowledgement ("Send ACK to indicate operation success",
\* Exchanger.cpp:136) or with an exception.
ExchangeEnds == snd.pc # "idle" ~> snd.pc \in {"idle", "threw"}

-----------------------------------------------------------------------------
(* What the exchange implements *)

Settled ==
    IF rcv.pc = "data" /\ rcv.left > 0 /\ HasParents(dst, rcv.path)
      THEN [dst EXCEPT ![rcv.path] = src[rcv.path]] ELSE dst

Phase ==
    CASE snd.pc = "idle"  -> "none"
      [] snd.pc = "threw" -> "failed"
      [] snd.pc \in {"open", "stream", "final"} -> "done"
      [] snd.pc = "infoSent" /\ toReceiver = <<>> -> "done"
      [] OTHER -> "asked"

Job == IF snd.pc = "idle" THEN <<>> ELSE <<snd.path, snd.status>>

\* While the user keeps his hands off what is being sent, the exchange of
\* eight messages and a stream is one atomic step of FileTransfer: whatever
\* the interleaving, the receiver's folder changes as Outcome says.
Transfer == INSTANCE FileTransfer WITH dst <- Settled, phase <- Phase, job <- Job

ImplementsTransfer == Transfer!Spec
=============================================================================
