------------------------- MODULE FolderMonitorProofs -------------------------
(* Whatever the folder holds and the user does: the client never leaves its *)
(* watcher frozen, it starts no thread that uses the socket during the      *)
(* first synchronisation, and when nothing is left to do the server has     *)
(* what the disk has, but for the named ways to lose a change.              *)
EXTENDS FolderMonitor, FolderTheorems

ThreadCounts == senders \in [Paths \X Statuses -> Nat]

MainIsRecord == main = [pc |-> main.pc, todo |-> main.todo]

\* cont_nothing says that the queue was sent and nothing queued since: the
\* branch of nothing that freezes the watcher and leaves it so is not taken.
SentMeansEmpty == cont_nothing # 0 => Queue = {}

\* What the callback is told of the first synchronisation is where the main
\* thread is.
SyncEnds == first_syncrinize \/ main.pc = "done"

IInv ==
    /\ ThreadCounts
    /\ MainIsRecord
    /\ SentMeansEmpty
    /\ SyncEnds
    /\ SyncIsAlone
    /\ NotLeftFrozen

-----------------------------------------------------------------------------

LEMMA SpawnedIsTyped ==
    ASSUME ThreadCounts
    PROVE  Spawned \in [Paths \X Statuses -> Nat]
<1>1. ASSUME NEW t \in Paths \X Statuses
      PROVE  senders[t] + (IF request[t[1]] = t[2] THEN 1 ELSE 0) \in Nat
    BY <1>1 DEF ThreadCounts
<1> QED  BY <1>1 DEF Spawned

\* A cleared queue is empty.
LEMMA ClearedIsEmpty ==
    ASSUME request' = [p \in Paths |-> NoRequest]
    PROVE  Queue' = {}
BY DEF Queue

\* Every step but those of the callback and of the main thread leaves the
\* invariant's variables as they are, or sends one request.
THEOREM InvariantHolds == Spec => []IInv
<1>1. Init => IInv
    BY DEF Init, IInv, ThreadCounts, MainIsRecord, SentMeansEmpty, SyncEnds,
           SyncIsAlone,
           NotLeftFrozen
<1>2. IInv /\ [Next]_vars => IInv'
  <2> SUFFICES ASSUME IInv, [Next]_vars PROVE IInv'
      OBVIOUS
  <2> DEFINE Same == UNCHANGED <<freezed, first_syncrinize, request,
                                 cont_nothing, main, senders>>
  <2>same. ASSUME Same PROVE IInv'
      BY <2>same DEF IInv, ThreadCounts, MainIsRecord, SentMeansEmpty,
                     SyncEnds, SyncIsAlone,
                     NotLeftFrozen, Queue
  <2>changed. ASSUME NEW p \in Paths, NEW status \in Statuses,
                     Changed(p, status), UNCHANGED <<first_syncrinize, main>>
              PROVE  IInv'
      BY <2>changed DEF IInv, ThreadCounts, MainIsRecord, SentMeansEmpty,
                        SyncEnds,
                        SyncIsAlone, NotLeftFrozen, Changed
  <2>nothing. ASSUME Nothing, UNCHANGED <<first_syncrinize, main>>
              PROVE  IInv'
    <3>1. CASE first_syncrinize
        BY <3>1, <2>nothing, <2>same DEF Nothing
    <3>2. CASE ~first_syncrinize /\ Queue # {} /\ cont_nothing = 0
      <4>1. /\ senders' = Spawned /\ freezed' = FALSE
            /\ request' = [p \in Paths |-> NoRequest]
          BY <3>2, <2>nothing DEF Nothing
      <4>2. main'.pc = "done"
          BY <3>2, <2>nothing DEF IInv, SyncEnds
      <4>3. ThreadCounts'
          BY <4>1, SpawnedIsTyped DEF IInv, ThreadCounts
      <4>4. Queue' = {}
          BY <4>1, ClearedIsEmpty
      <4> QED  BY <4>1, <4>2, <4>3, <4>4, <2>nothing
               DEF IInv, MainIsRecord, SentMeansEmpty, SyncEnds, SyncIsAlone,
                   NotLeftFrozen
    <3>3. CASE ~first_syncrinize /\ Queue # {} /\ cont_nothing # 0
        BY <3>3 DEF IInv, SentMeansEmpty
    <3>4. CASE ~first_syncrinize /\ Queue = {}
      <4>1. UNCHANGED <<senders, request>> /\ freezed' = FALSE
            /\ cont_nothing' = 0
          BY <3>4, <2>nothing DEF Nothing
      <4> QED  BY <4>1, <2>nothing
               DEF IInv, ThreadCounts, MainIsRecord, SentMeansEmpty, SyncEnds,
                   SyncIsAlone,
                   NotLeftFrozen
    <3> QED  BY <3>1, <3>2, <3>3, <3>4
  <2>1. CASE WakeUp
      BY <2>1, <2>same DEF WakeUp
  <2>2. ASSUME NEW p \in Paths, CheckErased(p) PROVE IInv'
      BY <2>2, <2>same, <2>changed DEF CheckErased, Statuses
  <2>3. CASE List
      BY <2>3, <2>same DEF List
  <2>4. ASSUME NEW p \in Paths, Visit(p) PROVE IInv'
      BY <2>4, <2>nothing, <2>same DEF Visit
  <2>20. ASSUME NEW p \in Paths, NEW status \in Statuses, Report(p, status)
         PROVE  IInv'
      BY <2>20, <2>changed DEF Report
  <2>5. ASSUME NEW p \in Paths, VisitFails(p) PROVE IInv'
      BY <2>5, <2>same DEF VisitFails
  <2>6. CASE EndScan
      BY <2>6, <2>same DEF EndScan
  <2>7. ASSUME NEW p \in Paths, NEW s \in Statuses, SendRequest(p, s)
        PROVE  IInv'
    <3>1. senders' = [senders EXCEPT ![<<p, s>>] = @ - 1] /\ senders[<<p, s>>] > 0
        BY <2>7 DEF SendRequest
    <3>2. UNCHANGED <<freezed, first_syncrinize, request, cont_nothing, main>>
        BY <2>7 DEF SendRequest
    <3>3. ThreadCounts'
      <4>1. senders[<<p, s>>] \in Nat /\ senders[<<p, s>>] > 0
          BY <3>1 DEF IInv, ThreadCounts
      <4>2. senders[<<p, s>>] - 1 \in Nat
          BY <4>1
      <4> QED  BY <3>1, <4>2 DEF IInv, ThreadCounts
    <3>4. SyncIsAlone'
        BY <3>1, <3>2 DEF IInv, SyncIsAlone, ThreadCounts
    <3> QED  BY <3>2, <3>3, <3>4
             DEF IInv, MainIsRecord, SentMeansEmpty, SyncEnds, NotLeftFrozen,
                 Queue
  <2>8. CASE CompareChecksums
    <3>1. /\ main.pc = "checksum"
          /\ UNCHANGED <<first_syncrinize, request, cont_nothing, senders>>
        BY <2>8 DEF CompareChecksums
    <3>2. CASE main' = [main EXCEPT !.pc = "flush"] /\ freezed' = freezed
      <4>1. main' = [pc |-> "flush", todo |-> main.todo]
          BY <3>2 DEF IInv, MainIsRecord
      <4> QED  BY <3>1, <3>2, <4>1
             DEF IInv, ThreadCounts, MainIsRecord, SentMeansEmpty, SyncEnds,
                   SyncIsAlone, NotLeftFrozen, Queue
    <3>3. CASE main' = [main EXCEPT !.pc = "wipe"]
      <4>1. main' = [pc |-> "wipe", todo |-> main.todo]
          BY <3>3 DEF IInv, MainIsRecord
      <4> QED  BY <3>1, <4>1
             DEF IInv, ThreadCounts, MainIsRecord, SentMeansEmpty, SyncEnds,
                   SyncIsAlone, NotLeftFrozen, Queue
    <3>4. CASE main' = [main EXCEPT !.pc = "content"] /\ freezed' = freezed
      <4>1. main' = [pc |-> "content", todo |-> main.todo]
          BY <3>4 DEF IInv, MainIsRecord
      <4> QED  BY <3>1, <3>4, <4>1
             DEF IInv, ThreadCounts, MainIsRecord, SentMeansEmpty, SyncEnds,
                   SyncIsAlone, NotLeftFrozen, Queue
    <3> QED  BY <2>8, <3>2, <3>3, <3>4 DEF CompareChecksums
  <2>9. CASE GetContent
      BY <2>9 DEF GetContent, IInv, ThreadCounts, MainIsRecord,
                  SentMeansEmpty, SyncEnds,
                  SyncIsAlone, NotLeftFrozen, Queue
  <2>10. ASSUME NEW p \in Paths, Upload(p) PROVE IInv'
      BY <2>10 DEF Upload, IInv, ThreadCounts, MainIsRecord, SentMeansEmpty,
                   SyncEnds,
                   SyncIsAlone, NotLeftFrozen, Queue
  <2>11. CASE WipeFolder
      BY <2>11 DEF WipeFolder, IInv, ThreadCounts, MainIsRecord,
                   SentMeansEmpty, SyncEnds,
                   SyncIsAlone, NotLeftFrozen, Queue
  <2>12. ASSUME NEW p \in Paths, Download(p) PROVE IInv'
      BY <2>12 DEF Download, IInv, ThreadCounts, MainIsRecord, SentMeansEmpty,
                   SyncEnds,
                   SyncIsAlone, NotLeftFrozen, Queue
  <2>13. CASE EndTransfer
      BY <2>13 DEF EndTransfer, IInv, ThreadCounts, MainIsRecord,
                   SentMeansEmpty, SyncEnds,
                   SyncIsAlone, NotLeftFrozen, Queue
  <2>14. CASE Flush
    <3>1. /\ senders' = Spawned /\ main.pc = "flush"
          /\ main' = [main EXCEPT !.pc = IF Queue = {} THEN "release" ELSE "clear"]
          /\ UNCHANGED <<freezed, first_syncrinize, request, cont_nothing>>
        BY <2>14 DEF Flush
    <3>2. PICK pc \in {"release", "clear"} : main' = [main EXCEPT !.pc = pc]
        BY <3>1
    <3>3. main' = [pc |-> pc, todo |-> main.todo]
        BY <3>2 DEF IInv, MainIsRecord
    <3>4. ThreadCounts'
        BY <3>1, SpawnedIsTyped DEF IInv, ThreadCounts
    <3>5. MainIsRecord' /\ main'.pc \in {"release", "clear"}
        BY <3>3 DEF MainIsRecord
    <3>6. SentMeansEmpty' /\ SyncEnds' /\ NotLeftFrozen'
        BY <3>1, <3>5 DEF IInv, SentMeansEmpty, SyncEnds, NotLeftFrozen, Queue
    <3>7. SyncIsAlone'
        BY <3>5 DEF SyncIsAlone
    <3> QED  BY <3>4, <3>5, <3>6, <3>7 DEF IInv
  <2>15. CASE Clear
    <3>1. Queue' = {}
        BY <2>15, ClearedIsEmpty DEF Clear
    <3> QED  BY <2>15, <3>1
             DEF Clear, IInv, ThreadCounts, MainIsRecord, SentMeansEmpty,
                 SyncEnds,
                 SyncIsAlone, NotLeftFrozen
  <2>16. CASE Release
      BY <2>16 DEF Release, IInv, ThreadCounts, MainIsRecord, SentMeansEmpty,
                   SyncEnds,
                   SyncIsAlone, NotLeftFrozen, Queue
  <2>17. CASE Tick
      BY <2>17, <2>same DEF Tick
  <2>18. ASSUME NEW p \in Paths, NEW node \in Holds[p], Edit(p, node)
         PROVE  IInv'
      BY <2>18, <2>same DEF Edit
  <2>19. CASE UNCHANGED vars
      BY <2>19, <2>same DEF vars
  <2> QED
      BY <2>1, <2>2, <2>3, <2>4, <2>5, <2>6, <2>7, <2>8, <2>9, <2>10, <2>11,
         <2>12, <2>13, <2>14, <2>15, <2>16, <2>17, <2>18, <2>19, <2>20
      DEF Next, Watcher, Main, Senders, User
<1> QED  BY <1>1, <1>2, PTL DEF Spec

-----------------------------------------------------------------------------

\* No thread that sends a request is started before the first synchronisation
\* has had the socket to itself (Client.cpp:219, 306).
THEOREM SocketIsMains == Spec => []SyncIsAlone
<1>1. IInv => SyncIsAlone
    BY DEF IInv
<1> QED  BY <1>1, InvariantHolds, PTL

\* Whoever freezes the watcher releases it (Client.cpp:220-229, 285-288).
THEOREM WatcherIsReleased == Spec => []NotLeftFrozen
<1>1. IInv => NotLeftFrozen
    BY DEF IInv
<1> QED  BY <1>1, InvariantHolds, PTL

-----------------------------------------------------------------------------
(* Types *)

\* What is on a disk is a folder, with one node of each kind without data.
LEMMA DiskIsFolder ==
    ASSUME NEW f \in [Paths -> DiskNodes]
    PROVE  /\ f \in Folders
           /\ \A p \in Paths :
                /\ f[p].kind \in {"absent", "directory", "file"}
                /\ f[p].kind = "absent" => f[p] = Absent
                /\ f[p].kind = "directory" => f[p] = Directory
<1>1. Seq(Data) \subseteq Seq(Units) /\ <<>> \in Seq(Units)
    BY SeqMonotonic, EmptySeq DEF Units
<1>2. ASSUME NEW node \in DiskNodes
      PROVE  /\ node \in Nodes
             /\ node.kind \in {"absent", "directory", "file"}
             /\ node.kind = "absent" => node = Absent
             /\ node.kind = "directory" => node = Directory
  <2>1. CASE node = Absent
      BY <1>1, <2>1 DEF Absent, Nodes, Kinds
  <2>3. CASE node = Directory
      BY <1>1, <2>3 DEF Directory, Nodes, Kinds
  <2>2. CASE node \in [kind : {"file"}, data : Seq(Data)]
      BY <1>1, <2>2 DEF Nodes, Kinds
  <2> QED  BY <2>1, <2>2, <2>3 DEF DiskNodes
<1> QED  BY <1>2 DEF Folders

LEMMA DiskNodesHave == Absent \in DiskNodes /\ Directory \in DiskNodes
BY DEF DiskNodes

LEMMA EmptyFolderType ==
    EmptyFolder \in [Paths -> DiskNodes] /\ WellFormed(EmptyFolder)
BY DiskNodesHave DEF EmptyFolder, WellFormed, Exists, Absent

\* Whatever kind of entry is sent, under whatever status, the receiver's
\* folder stays one that can be on a disk (Exchanger.cpp:68).
LEMMA OutcomeType ==
    ASSUME NEW f \in [Paths -> DiskNodes], WellFormed(f), NEW p \in Paths,
           NEW node \in DiskNodes, NEW s,
           node.kind \in {"absent", "directory", "file"}
    PROVE  /\ Outcome(f, node, p, s) \in [Paths -> DiskNodes]
           /\ WellFormed(Outcome(f, node, p, s))
<1> DEFINE new == Outcome(f, node, p, s)
<1>0. f \in Folders
    BY DiskIsFolder
<1>1. /\ WriteDirectory(f, p) \in [Paths -> DiskNodes]
      /\ WellFormed(WriteDirectory(f, p))
    BY <1>0, WriteDirectoryType, DiskNodesHave DEF WriteDirectory
<1>2. /\ DeleteFile(f, p) \in [Paths -> DiskNodes]
      /\ WellFormed(DeleteFile(f, p))
    BY <1>0, DeleteFileType, DiskNodesHave DEF DeleteFile
<1>3. HasParents(f, p) =>
        /\ [DeleteFile(f, p) EXCEPT ![p] = node] \in [Paths -> DiskNodes]
        /\ WellFormed([DeleteFile(f, p) EXCEPT ![p] = node])
    BY <1>0, <1>2, PutWellFormed DEF Put
<1>4. \/ new \in {f, WriteDirectory(f, p), DeleteFile(f, p)}
      \/ HasParents(f, p) /\ new = [DeleteFile(f, p) EXCEPT ![p] = node]
    BY DEF Outcome
<1> QED  BY <1>1, <1>2, <1>3, <1>4

\* What the watcher's place may be.
Watches == [pc : {"sleep", "erase", "list", "report"}, listed : SUBSET Paths,
            unread : SUBSET Paths, seen : SUBSET (Paths \X Statuses)]

LEMMA TypedInit == Init => TypeOK
<1> SUFFICES ASSUME Init PROVE TypeOK
    OBVIOUS
<1>1. UNION {Holds[p] : p \in Paths} \subseteq DiskNodes
    BY MonitorAssumption
<1>2. /\ disk \in [Paths -> DiskNodes] /\ WellFormed(disk)
      /\ server \in [Paths -> DiskNodes] /\ WellFormed(server)
    BY <1>1 DEF Init
<1>3. /\ mtime \in [Paths -> 0 .. clock]
      /\ paths \in [Paths -> {Unknown} \cup 0 .. clock]
    BY DEF Init
<1>4. watch \in Watches
    BY DEF Init, Sleeping, Watches
<1>5. main \in [pc : {"checksum", "content", "upload", "wipe", "download",
                      "flush", "clear", "release", "done"},
                todo : SUBSET Paths]
    BY DEF Init
<1>6. /\ request \in [Paths -> Statuses \cup {NoRequest}]
      /\ senders \in [Paths \X Statuses -> Nat]
    BY DEF Init
<1>7. /\ freezed \in BOOLEAN /\ first_syncrinize \in BOOLEAN
      /\ shifted \in BOOLEAN /\ broken \in BOOLEAN /\ missed \subseteq Paths
    BY DEF Init
<1>8. cont_nothing \in 0 .. 1 /\ clock \in 0 .. MaxTime /\ edits \in 0 .. MaxEdits
    BY MonitorAssumption DEF Init
<1> QED  BY <1>2, <1>3, <1>4, <1>5, <1>6, <1>7, <1>8 DEF TypeOK, Watches

LEMMA ChangedType ==
    ASSUME TypeOK, NEW p \in Paths, NEW status \in Statuses, Changed(p, status)
    PROVE  /\ freezed' \in BOOLEAN
           /\ request' \in [Paths -> Statuses \cup {NoRequest}]
           /\ cont_nothing' \in 0 .. 1
           /\ senders' \in [Paths \X Statuses -> Nat]
           /\ missed' \subseteq Paths
BY DEF Changed, Insert, Dropped, TypeOK

LEMMA NothingType ==
    ASSUME TypeOK, Nothing
    PROVE  /\ freezed' \in BOOLEAN
           /\ request' \in [Paths -> Statuses \cup {NoRequest}]
           /\ cont_nothing' \in 0 .. 1
           /\ senders' \in [Paths \X Statuses -> Nat]
           /\ missed' \subseteq Paths
<1>1. Spawned \in [Paths \X Statuses -> Nat]
    BY SpawnedIsTyped DEF TypeOK, ThreadCounts
<1>2. [p \in Paths |-> NoRequest] \in [Paths -> Statuses \cup {NoRequest}]
    OBVIOUS
<1>3. /\ \/ request' = request
         \/ request' = [p \in Paths |-> NoRequest]
      /\ senders' \in {senders, Spawned}
      /\ cont_nothing' \in {cont_nothing, 0, 1}
      /\ missed' = missed
    BY DEF Nothing
<1>4. request' \in [Paths -> Statuses \cup {NoRequest}]
    BY <1>2, <1>3 DEF TypeOK
<1>5. senders' \in [Paths \X Statuses -> Nat] /\ missed' \subseteq Paths
    BY <1>1, <1>3 DEF TypeOK
<1>6. freezed' \in BOOLEAN
    BY Zenon DEF Nothing, TypeOK
<1>7. cont_nothing' \in 0 .. 1
    BY <1>3 DEF TypeOK
<1> QED  BY <1>4, <1>5, <1>6, <1>7

LEMMA StampType ==
    ASSUME TypeOK, NEW p \in Paths, NEW new, Stamp(p, new)
    PROVE  mtime' \in [Paths -> 0 .. clock]
<1>1. clock \in 0 .. clock
    BY MonitorAssumption DEF TypeOK
<1> QED  BY <1>1 DEF Stamp, TypeOK

\* A transfer changes the receiver's folder as Outcome says, or deletes.
LEMMA TransferType ==
    ASSUME TypeOK, NEW p \in Paths, NEW s \in Statuses, Transfer(p, s)
    PROVE  /\ server' \in [Paths -> DiskNodes] /\ WellFormed(server')
           /\ missed' \subseteq Paths /\ broken' \in BOOLEAN
<1>1. disk[p] \in DiskNodes /\ disk[p].kind \in {"absent", "directory", "file"}
    BY DiskIsFolder DEF TypeOK
<1>2. /\ Outcome(server, disk[p], p, s) \in [Paths -> DiskNodes]
      /\ WellFormed(Outcome(server, disk[p], p, s))
    BY <1>1, OutcomeType DEF TypeOK
<1>3. /\ DeleteFile(server, p) \in [Paths -> DiskNodes]
      /\ WellFormed(DeleteFile(server, p))
  <2>1. server \in [Paths -> DiskNodes] /\ WellFormed(server) /\ server \in Folders
      BY DiskIsFolder DEF TypeOK
  <2> QED  BY <2>1, DeleteFileType, DiskNodesHave DEF DeleteFile
<1>4. missed' \subseteq Paths
    BY DEF Transfer, Refused, Lost, Orphaned, Empty, Blocked, Undone, Below, TypeOK
<1> QED  BY <1>2, <1>3, <1>4 DEF Transfer

LEMMA WatcherTyped == TypeOK /\ Watcher => TypeOK'
<1> SUFFICES ASSUME TypeOK, Watcher PROVE TypeOK'
    OBVIOUS
<1>0. watch \in Watches
    BY DEF TypeOK, Watches
<1>same. ASSUME watch' \in Watches,
                UNCHANGED <<disk, server, mtime, paths, freezed,
                            first_syncrinize, request, cont_nothing, main,
                            senders, clock, edits, shifted, broken, missed>>
         PROVE  TypeOK'
    BY <1>same DEF TypeOK, Watches
<1>1. CASE WakeUp
  <2>1. watch' \in Watches
      BY <1>0, <1>1 DEF WakeUp, Watches
  <2> QED  BY <1>1, <1>same, <2>1 DEF WakeUp
<1>2. ASSUME NEW p \in Paths, CheckErased(p) PROVE TypeOK'
  <2>1. watch' \in Watches
      BY <1>0, <1>2 DEF CheckErased, Watches
  <2>2. CASE UNCHANGED <<paths, request, cont_nothing, freezed, senders, missed>>
      BY <1>2, <1>same, <2>1, <2>2 DEF CheckErased
  <2>3. CASE paths' = [paths EXCEPT ![p] = Unknown] /\ Changed(p, "erased")
    <3>1. paths' \in [Paths -> {Unknown} \cup 0 .. clock]
        BY <2>3 DEF TypeOK
    <3> QED  BY <1>2, <2>1, <2>3, <3>1, ChangedType
             DEF CheckErased, TypeOK, Statuses, Watches
  <2> QED  BY <1>2, <2>2, <2>3 DEF CheckErased
<1>3. CASE List
  <2>1. watch' \in Watches
      BY <1>3 DEF List, Present, Watches
  <2> QED  BY <1>3, <1>same, <2>1 DEF List
<1>4. ASSUME NEW p \in Paths, Visit(p) PROVE TypeOK'
  <2> DEFINE next == [watch EXCEPT !.unread = @ \ {p}, !.listed = @ \ {p}]
             status == IF paths[p] = Unknown THEN "created" ELSE "modified"
  <2>1. next \in Watches
      BY <1>0 DEF Watches
  <2>2. CASE Nothing /\ watch' = next /\ UNCHANGED paths
    <3>1. UNCHANGED <<disk, server, mtime, first_syncrinize, main, clock, edits,
                      shifted, broken>>
        BY <1>4 DEF Visit
    <3> QED  BY <2>1, <2>2, <3>1, NothingType DEF TypeOK, Watches
  <2>3. CASE /\ paths' = [paths EXCEPT ![p] = mtime[p]]
             /\ watch' = [next EXCEPT !.pc = "report", !.seen = {<<p, status>>}]
             /\ UNCHANGED <<freezed, senders, request, cont_nothing, missed>>
    <3>1. paths' \in [Paths -> {Unknown} \cup 0 .. clock]
        BY <2>3 DEF TypeOK
    <3>2. {<<p, status>>} \in SUBSET (Paths \X Statuses)
        BY DEF Statuses
    <3>3. watch' \in Watches
        BY <2>1, <2>3, <3>2 DEF Watches
    <3>4. UNCHANGED <<disk, server, mtime, first_syncrinize, main, clock, edits,
                      shifted, broken>>
        BY <1>4 DEF Visit
    <3> QED  BY <2>3, <3>1, <3>3, <3>4 DEF TypeOK, Watches
  <2> QED  BY <1>4, <2>2, <2>3 DEF Visit
<1>5. ASSUME NEW p \in Paths, VisitFails(p) PROVE TypeOK'
  <2>1. watch' \in Watches
    <3>1. Sleeping \in Watches
        BY DEF Sleeping, Watches
    <3>2. [watch EXCEPT !.unread = @ \ {p}, !.listed = @ \ {p}] \in Watches
        BY <1>0 DEF Watches
    <3> QED  BY <1>5, <3>1, <3>2 DEF VisitFails
  <2> QED  BY <1>5, <1>same, <2>1 DEF VisitFails
<1>6. CASE EndScan
  <2>1. watch' \in Watches
      BY <1>6 DEF EndScan, Sleeping, Watches
  <2> QED  BY <1>6, <1>same, <2>1 DEF EndScan
<1>7. ASSUME NEW p \in Paths, NEW status \in Statuses, Report(p, status)
      PROVE  TypeOK'
  <2>1. watch' \in Watches
      BY <1>0, <1>7 DEF Report, Watches
  <2> QED  BY <1>7, <2>1, ChangedType DEF Report, TypeOK, Watches
<1> QED  BY <1>1, <1>2, <1>3, <1>4, <1>5, <1>6, <1>7 DEF Watcher

LEMMA MainKeepsTypes == TypeOK /\ Main => TypeOK'
<1> SUFFICES ASSUME TypeOK, Main PROVE TypeOK'
    OBVIOUS
<1> DEFINE Mains == [pc : {"checksum", "content", "upload", "wipe", "download",
                           "flush", "clear", "release", "done"},
                     todo : SUBSET Paths]
<1>1. CASE CompareChecksums
  <2>1. main' \in Mains
      BY <1>1 DEF CompareChecksums, TypeOK
  <2>2. server' \in [Paths -> DiskNodes] /\ WellFormed(server')
      BY <1>1, EmptyFolderType DEF CompareChecksums, TypeOK
  <2> QED  BY <1>1, <2>1, <2>2 DEF CompareChecksums, TypeOK
<1>2. CASE GetContent
  <2>1. main' \in Mains
      BY <1>2 DEF GetContent, Present
  <2> QED  BY <1>2, <2>1 DEF GetContent, TypeOK
<1>3. ASSUME NEW p \in Paths, Upload(p) PROVE TypeOK'
  <2>1. main' \in Mains
      BY <1>3 DEF Upload, TypeOK
  <2> QED  BY <1>3, <2>1, TransferType DEF Upload, TypeOK, Statuses
<1>4. CASE WipeFolder
  <2>1. main' \in Mains
      BY <1>4 DEF WipeFolder, Present
  <2> QED  BY <1>4, <2>1, EmptyFolderType DEF WipeFolder, TypeOK
<1>5. ASSUME NEW p \in Paths, Download(p) PROVE TypeOK'
  <2>1. main' \in Mains
      BY <1>5 DEF Download, TypeOK
  <2>2. server[p] \in DiskNodes /\ server[p].kind \in {"absent", "directory", "file"}
      BY DiskIsFolder DEF TypeOK
  <2>3. disk' \in [Paths -> DiskNodes] /\ WellFormed(disk')
      BY <1>5, <2>2, OutcomeType DEF Download, TypeOK
  <2>4. mtime' \in [Paths -> 0 .. clock]
      BY <1>5, StampType DEF Download, TypeOK
  <2>5. missed' \subseteq Paths
      BY <1>5 DEF Download, Lost, Orphaned, Empty, Blocked, TypeOK
  <2> QED  BY <1>5, <2>1, <2>3, <2>4, <2>5 DEF Download, TypeOK
<1>6. CASE EndTransfer
  <2>1. main' \in Mains
      BY <1>6 DEF EndTransfer, TypeOK
  <2>2. freezed' \in BOOLEAN /\ shifted' \in BOOLEAN
      BY <1>6 DEF EndTransfer, TypeOK
  <2> QED  BY <1>6, <2>1, <2>2 DEF EndTransfer, TypeOK
<1>7. CASE Flush
  <2>1. main' \in Mains
      BY <1>7 DEF Flush, TypeOK
  <2>2. senders' \in [Paths \X Statuses -> Nat]
      BY <1>7, SpawnedIsTyped DEF Flush, TypeOK, ThreadCounts
  <2> QED  BY <1>7, <2>1, <2>2 DEF Flush, TypeOK
<1>8. CASE Clear
  <2>1. main' \in Mains
      BY <1>8 DEF Clear, TypeOK
  <2> QED  BY <1>8, <2>1 DEF Clear, TypeOK
<1>9. CASE Release
  <2>1. main' \in Mains
      BY <1>9 DEF Release, TypeOK
  <2> QED  BY <1>9, <2>1 DEF Release, TypeOK
<1> QED  BY <1>1, <1>2, <1>3, <1>4, <1>5, <1>6, <1>7, <1>8, <1>9 DEF Main

LEMMA TypedNext == TypeOK /\ [Next]_vars => TypeOK'
<1> SUFFICES ASSUME TypeOK, [Next]_vars PROVE TypeOK'
    OBVIOUS
<1>1. ASSUME NEW p \in Paths, NEW s \in Statuses, SendRequest(p, s) PROVE TypeOK'
  <2>1. senders[<<p, s>>] \in Nat /\ senders[<<p, s>>] > 0
      BY <1>1 DEF SendRequest, TypeOK
  <2>2. senders' \in [Paths \X Statuses -> Nat]
      BY <1>1, <2>1 DEF SendRequest, TypeOK
  <2> QED  BY <1>1, <2>2, TransferType DEF SendRequest, TypeOK
<1>2. CASE Tick
  <2>1. clock' \in 0 .. MaxTime /\ 0 .. clock \subseteq 0 .. clock'
      BY <1>2, MonitorAssumption DEF Tick, TypeOK
  <2>2. mtime \in [Paths -> 0 .. clock'] /\ paths \in [Paths -> {Unknown} \cup 0 .. clock']
      BY <2>1 DEF TypeOK
  <2> QED  BY <1>2, <2>1, <2>2 DEF Tick, TypeOK
<1>3. ASSUME NEW p \in Paths, NEW node \in Holds[p], Edit(p, node) PROVE TypeOK'
  <2>1. node \in DiskNodes
      BY MonitorAssumption
  <2>2. disk' \in [Paths -> DiskNodes]
      BY <1>3, <2>1, DiskNodesHave DEF Edit, Put, DeleteFile, TypeOK
  <2>3. WellFormed(disk')
      BY <1>3, PutWellFormed, DiskIsFolder DEF Edit, CanPut, TypeOK
  <2>4. mtime' \in [Paths -> 0 .. clock]
      BY <1>3, StampType DEF Edit
  <2>5. edits' \in 0 .. MaxEdits
      BY <1>3, MonitorAssumption DEF Edit, TypeOK
  <2>6. missed' \subseteq Paths
      BY <1>3 DEF Edit, Unseen, Ghosts, TypeOK
  <2> QED  BY <1>3, <2>2, <2>3, <2>4, <2>5, <2>6 DEF Edit, TypeOK
<1>4. CASE UNCHANGED vars
    BY <1>4 DEF vars, TypeOK
<1> QED  BY <1>1, <1>2, <1>3, <1>4, WatcherTyped, MainKeepsTypes DEF Next, Senders, User

\* No step leaves the types: the two folders stay trees, no counter of threads
\* goes below nothing, and no time lies ahead of the clock.
THEOREM TypeCorrect == Spec => []TypeOK
BY TypedInit, TypedNext, PTL DEF Spec

-----------------------------------------------------------------------------
(* The backup *)

\* The watcher has nothing to learn about p.
Known(p) == paths[p] = IF Exists(disk, p) THEN mtime[p] ELSE Unknown

\* A change of p is on its way: the watcher will see it or is about to report
\* it, it is queued and will not be cleared, or a thread waits to send it.
Noticed(p) ==
    \/ ~Known(p)
    \/ \E s \in Statuses : <<p, s>> \in watch.seen
    \/ main.pc # "clear" /\ request[p] # NoRequest
    \/ \E s \in Statuses : senders[<<p, s>>] > 0

\* The main thread has still to transfer p.
Ahead(p) ==
    \/ main.pc \in {"checksum", "content", "wipe"}
    \/ main.pc \in {"upload", "download"} /\ p \in main.todo

\* What differs is on its way.
Covered ==
    ~broken => \A p \in Paths \ missed :
                 server[p] = disk[p] \/ Noticed(p) \/ Ahead(p)

\* A path the user has put there before it was downloaded is left as it is,
\* and then on its way to the server.
DownloadCovered ==
    main.pc = "download" =>
      \A p \in main.todo \ missed :
        ~Exists(disk, p) \/ server[p] = disk[p] \/ Noticed(p)

\* UPDATE begins from nothing (Server.cpp:261).
ContentOfNothing == main.pc = "content" => server = EmptyFolder

\* The time recorded is one the path has had.
NotBackInTime == \A p \in Paths : paths[p] <= mtime[p]

\* Only a thread that sends a request breaks the connection.
BrokenLate == broken => main.pc \in {"clear", "release", "done"}

\* What the watcher is about to report it has recorded, and it reports it at
\* once: what is gone by then is not queued, and found erased later.
Seeing ==
    /\ watch.seen # {} => watch.pc = "report"
    /\ \A t, u \in watch.seen : t = u
    /\ \A t \in watch.seen : paths[t[1]] # Unknown

Backing ==
    /\ Covered /\ DownloadCovered /\ ContentOfNothing /\ NotBackInTime
    /\ BrokenLate

\* What a transfer to the folder "to" of what the folder "from" has at p
\* brings: the same at p, unless it is lost or refused; and elsewhere only
\* what "from" has as well.
LEMMA OutcomeBrings ==
    ASSUME NEW from \in [Paths -> DiskNodes], WellFormed(from),
           NEW to \in [Paths -> DiskNodes], WellFormed(to),
           NEW p \in Paths, NEW s \in Statuses,
           NEW new, new = Outcome(to, from[p], p, s)
    PROVE  /\ \/ new[p] = from[p]
              \/ p \in Lost(to, from, p)
              \/ s = "created" /\ Exists(to, p) /\ new = to
           /\ \A q \in Paths \ {p} : new[q] \in {to[q], from[q]}
<1> DEFINE kept == s = "created" /\ Exists(to, p)
<1>0. /\ from[p].kind \in {"absent", "directory", "file"}
      /\ \A q \in Paths : /\ from[q].kind = "absent" => from[q] = Absent
                          /\ from[q].kind = "directory" => from[q] = Directory
                          /\ to[q].kind \in {"absent", "directory", "file"}
    BY DiskIsFolder
<1>1. CASE kept
  <2>1. new = to
      BY <1>1 DEF Outcome
  <2> QED  BY <1>1, <2>1
<1>below. from[p].kind # "directory" =>
            \A q \in Paths : p \in Above[q] => from[q] = Absent
    BY <1>0 DEF WellFormed, HasParents, IsDirectory, Exists
<1>2. CASE ~kept /\ from[p].kind = "directory"
  <2>1. new = WriteDirectory(to, p)
      BY <1>2 DEF Outcome
  <2>2. \A q \in Above[p] : q \in Paths /\ from[q] = Directory
    <3>1. Exists(from, p)
        BY <1>2 DEF Exists
    <3> QED  BY <1>0, <3>1, FolderAssumption DEF WellFormed, HasParents, IsDirectory
  <2>3. CASE \A q \in Above[p] \cup {p} : to[q].kind \in {"absent", "directory"}
    <3>1. new = [q \in Paths |-> IF q \in Above[p] \cup {p} THEN Directory ELSE to[q]]
        BY <2>1, <2>3 DEF WriteDirectory
    <3> QED  BY <1>0, <1>2, <2>2, <3>1
  <2>4. CASE \E q \in Above[p] \cup {p} : to[q].kind \notin {"absent", "directory"}
    <3>1. new = to
        BY <2>1, <2>4 DEF WriteDirectory
    <3>2. \E q \in Above[p] \cup {p} : to[q].kind = "file"
        BY <1>0, <2>2, <2>4
    <3>3. p \in Lost(to, from, p)
        BY <1>2, <3>2 DEF Lost, Blocked, IsDirectory, IsRegularFile
    <3> QED  BY <3>1, <3>3
  <2> QED  BY <2>3, <2>4
<1>3. CASE ~kept /\ from[p].kind = "absent"
  <2>1. new = DeleteFile(to, p)
      BY <1>3 DEF Outcome
  <2>2. new = [q \in Paths |-> IF q = p \/ p \in Above[q] THEN Absent ELSE to[q]]
      BY <2>1 DEF DeleteFile
  <2> QED  BY <1>0, <1>3, <1>below, <2>2
<1>4. CASE ~kept /\ from[p].kind = "file"
  <2>1. new = IF HasParents(to, p) /\ from[p].data # <<>>
                THEN [DeleteFile(to, p) EXCEPT ![p] = from[p]] ELSE DeleteFile(to, p)
      BY <1>4 DEF Outcome
  <2>2. DeleteFile(to, p)
          = [q \in Paths |-> IF q = p \/ p \in Above[q] THEN Absent ELSE to[q]]
      BY DEF DeleteFile
  <2>3. \A q \in Paths \ {p} : new[q] \in {to[q], from[q]}
      BY <1>4, <1>below, <2>1, <2>2
  <2>4. CASE HasParents(to, p) /\ from[p].data # <<>>
      BY <2>1, <2>2, <2>3, <2>4
  <2>5. CASE ~(HasParents(to, p) /\ from[p].data # <<>>)
    <3>1. p \in Lost(to, from, p)
        BY <1>4, <2>5 DEF Lost, Orphaned, Empty, IsRegularFile
    <3> QED  BY <2>3, <3>1
  <2> QED  BY <2>4, <2>5
<1> QED  BY <1>0, <1>1, <1>2, <1>3, <1>4

\* After a transfer the server has what the disk has at p, unless the change
\* was lost in one of the ways named, and nowhere else less than before.
LEMMA TransferBrings ==
    ASSUME TypeOK, NEW p \in Paths, NEW s \in Statuses, Transfer(p, s)
    PROVE  /\ p \in missed' \/ server'[p] = disk[p]
           /\ \A q \in Paths \ {p} :
                /\ q \in missed => q \in missed'
                /\ q \in missed' \/ server'[q] \in {server[q], disk[q]}
<1>1. /\ disk \in [Paths -> DiskNodes] /\ WellFormed(disk)
      /\ server \in [Paths -> DiskNodes] /\ WellFormed(server)
    BY DEF TypeOK
<1>2. missed' = (missed \ {p}) \cup Refused(p, s) \cup Lost(server, disk, p)
                                \cup Undone(p, s)
    BY DEF Transfer
<1>3. CASE s = "erased"
  <2>1. server' = [q \in Paths |-> IF q = p \/ p \in Above[q] THEN Absent ELSE server[q]]
      BY <1>3 DEF Transfer, DeleteFile
  <2>2. CASE Exists(disk, p)
    <3>1. Undone(p, s) = {p} \cup {q \in Paths : p \in Above[q]}
        BY <1>3, <2>2 DEF Undone, Below
    <3> QED  BY <1>2, <2>1, <3>1
  <2>3. CASE ~Exists(disk, p)
    <3>1. disk[p] = Absent /\ \A q \in Paths : p \in Above[q] => disk[q] = Absent
        BY <1>1, <2>3, DiskIsFolder
        DEF WellFormed, HasParents, IsDirectory, Exists
    <3> QED  BY <1>2, <2>1, <3>1
  <2> QED  BY <2>2, <2>3
<1>4. CASE s # "erased"
  <2>1. server' = Outcome(server, disk[p], p, s)
      BY <1>4 DEF Transfer
  <2>2. /\ \/ server'[p] = disk[p]
           \/ p \in Lost(server, disk, p)
           \/ s = "created" /\ Exists(server, p) /\ server' = server
        /\ \A q \in Paths \ {p} : server'[q] \in {server[q], disk[q]}
      BY <1>1, <2>1, OutcomeBrings
  <2>3. s = "created" /\ Exists(server, p) /\ server' = server
          => server'[p] = disk[p] \/ p \in Refused(p, s)
      BY DEF Refused
  <2> QED  BY <1>2, <2>2, <2>3
<1> QED  BY <1>3, <1>4

\* A step that moves no folder and forgets nothing that was on its way.
LEMMA NothingForgotten ==
    ASSUME TypeOK, Backing, NotBackInTime',
           UNCHANGED <<disk, server, main, broken>>,
           missed \subseteq missed',
           \A p \in Paths : Noticed(p) => Noticed(p)' \/ p \in missed'
    PROVE  Backing'
<1>1. \A p : Ahead(p)' = Ahead(p)
    BY DEF Ahead
<1>2. Covered'
    BY <1>1 DEF Backing, Covered
<1>3. DownloadCovered'
  <2> SUFFICES ASSUME (main.pc = "download")', NEW p \in (main.todo \ missed)',
                      p \in Paths
               PROVE  (~Exists(disk, p) \/ server[p] = disk[p] \/ Noticed(p))'
      BY DEF DownloadCovered, TypeOK
  <2>1. ~Exists(disk, p) \/ server[p] = disk[p] \/ Noticed(p)
      BY DEF Backing, DownloadCovered
  <2> QED  BY <2>1 DEF Exists
<1>4. ContentOfNothing' /\ BrokenLate'
    BY DEF Backing, ContentOfNothing, BrokenLate
<1> QED  BY <1>2, <1>3, <1>4 DEF Backing

LEMMA IdleKeepsBacking ==
    ASSUME TypeOK, Backing,
           UNCHANGED <<disk, server, mtime, paths, watch.seen, request, main,
                       senders, broken, missed>>
    PROVE  Backing'
<1>1. \A p \in Paths : Noticed(p)' = Noticed(p)
    BY DEF Noticed, Known, Exists
<1>2. NotBackInTime'
    BY DEF Backing, NotBackInTime
<1> QED  BY <1>1, <1>2, NothingForgotten

\* What the watcher has seen is queued, or lost with the queue; or it is gone
\* and the watcher will find it erased.
LEMMA ChangedKeepsBacking ==
    ASSUME TypeOK, Backing, NEW p \in Paths, NEW status \in Statuses,
           Changed(p, status), NotBackInTime',
           \A q \in Paths \ {p} :
             /\ paths'[q] = paths[q]
             /\ \A s \in Statuses : <<q, s>> \in watch.seen => <<q, s>> \in watch'.seen,
           status = "erased" \/ Exists(disk, p) \/ ~Known(p)',
           UNCHANGED <<disk, server, mtime, main, broken>>
    PROVE  Backing'
<1>1. /\ request' \in {request, [request EXCEPT ![p] = IF @ = NoRequest THEN status
                                                    ELSE @]}
      /\ missed' \in {missed, missed \cup Dropped(p)}
      /\ senders' = senders
    BY DEF Changed, Insert
<1>2. status = "erased" \/ Exists(disk, p) =>
        /\ request' = [request EXCEPT ![p] = IF @ = NoRequest THEN status ELSE @]
        /\ missed' = missed \cup Dropped(p)
    BY DEF Changed, Insert
<1>3. ASSUME NEW q \in Paths, Noticed(q)
      PROVE  Noticed(q)' \/ q \in missed'
  <2>1. CASE q # p
    <3>1. paths'[q] = paths[q] /\ request'[q] = request[q]
        BY <1>1, <2>1 DEF TypeOK
    <3>2. \A s \in Statuses : <<q, s>> \in watch.seen => <<q, s>> \in watch'.seen
        BY <2>1
    <3> QED  BY <1>1, <1>3, <3>1, <3>2 DEF Noticed, Known, Exists
  <2>2. CASE q = p /\ ~(status = "erased" \/ Exists(disk, p))
      BY <2>2 DEF Noticed
  <2>3. CASE /\ q = p /\ main.pc = "clear"
             /\ status = "erased" \/ Exists(disk, p)
      BY <1>2, <2>3 DEF Dropped
  <2>4. CASE /\ q = p /\ main.pc # "clear"
             /\ status = "erased" \/ Exists(disk, p)
    <3>1. request'[p] # NoRequest
        BY <1>2, <2>4 DEF TypeOK, Statuses, NoRequest
    <3> QED  BY <2>4, <3>1 DEF Noticed
  <2> QED  BY <2>1, <2>2, <2>3, <2>4
<1>4. missed \subseteq missed'
    BY <1>1
<1> QED  BY <1>3, <1>4, NothingForgotten

\* What is queued gets a thread.
LEMMA SpawnedSends ==
    ASSUME TypeOK, NEW p \in Paths
    PROVE  /\ request[p] # NoRequest => Spawned[<<p, request[p]>>] > 0
           /\ \A s \in Statuses : Spawned[<<p, s>>] >= senders[<<p, s>>]
<1>1. \A s \in Statuses :
        Spawned[<<p, s>>] = senders[<<p, s>>] + (IF request[p] = s THEN 1 ELSE 0)
    BY DEF Spawned
<1>2. \A s \in Statuses : senders[<<p, s>>] \in Nat
    BY DEF TypeOK
<1>3. request[p] # NoRequest => request[p] \in Statuses
    BY DEF TypeOK
<1> QED  BY <1>1, <1>2, <1>3

LEMMA NothingKeepsBacking ==
    ASSUME TypeOK, IInv, Backing, Nothing,
           UNCHANGED <<disk, server, mtime, paths, watch.seen, main, broken>>
    PROVE  Backing'
<1>1. CASE UNCHANGED <<senders, request>>
  <2>1. missed' = missed
      BY DEF Nothing
  <2> QED  BY <1>1, <2>1, IdleKeepsBacking
<1>2. CASE ~first_syncrinize /\ senders' = Spawned
  <2>1. missed' = missed
      BY DEF Nothing
  <2>2. ASSUME NEW p \in Paths, Noticed(p) PROVE Noticed(p)'
    <3>1. CASE ~Known(p)
        BY <3>1 DEF Noticed, Known, Exists
    <3>2. CASE request[p] # NoRequest
      <4>1. senders'[<<p, request[p]>>] > 0 /\ request[p] \in Statuses
          BY <1>2, <3>2, SpawnedSends DEF TypeOK
      <4> QED  BY <4>1 DEF Noticed
    <3>3. CASE \E s \in Statuses : senders[<<p, s>>] > 0
      <4>1. PICK s \in Statuses : senders[<<p, s>>] > 0
          BY <3>3
      <4>2. /\ senders[<<p, s>>] \in Nat /\ senders'[<<p, s>>] >= senders[<<p, s>>]
            /\ senders'[<<p, s>>] \in Nat
        <5>1. Spawned \in [Paths \X Statuses -> Nat]
            BY SpawnedIsTyped DEF TypeOK, ThreadCounts
        <5> QED  BY <1>2, <5>1, SpawnedSends DEF TypeOK
      <4>3. senders'[<<p, s>>] > 0
          BY <4>1, <4>2
      <4> QED  BY <4>3 DEF Noticed
    <3> QED  BY <2>2, <3>1, <3>2, <3>3 DEF Noticed
  <2>3. NotBackInTime'
      BY DEF Backing, NotBackInTime
  <2> QED  BY <2>1, <2>2, <2>3, NothingForgotten
<1> QED  BY <1>1, <1>2 DEF Nothing

\* The times move forward, so that a path that was to be looked at still is.
LEMMA StampForward ==
    ASSUME TypeOK, NotBackInTime, NEW p \in Paths, NEW new, Stamp(p, new),
           UNCHANGED paths
    PROVE  /\ NotBackInTime'
           /\ mtime'[p] = clock
           /\ \A q \in Paths : disk'[q] = disk[q] /\ ~Known(q) => ~Known(q)'
<1>1. \A q \in Paths : /\ paths[q] \in Int /\ paths[q] <= clock
                       /\ paths[q] <= mtime[q] /\ mtime[q] <= clock
                       /\ mtime[q] \in Int
    BY MonitorAssumption DEF TypeOK, NotBackInTime, Unknown
<1>2. \A q \in Paths : mtime'[q] \in {mtime[q], clock}
    BY DEF Stamp
<1>3. NotBackInTime'
    BY <1>1, <1>2 DEF NotBackInTime
<1>4. ASSUME NEW q \in Paths, disk'[q] = disk[q], ~Known(q)
      PROVE  ~Known(q)'
  <2>1. CASE ~Exists(disk, q)
      BY <1>4, <2>1 DEF Known, Exists
  <2>2. CASE Exists(disk, q)
    <3>1. paths[q] # mtime[q]
        BY <1>4, <2>2 DEF Known
    <3>2. paths[q] # mtime'[q]
        BY <1>1, <1>2, <3>1
    <3> QED  BY <1>4, <2>2, <3>2 DEF Known, Exists
  <2> QED  BY <2>1, <2>2
<1>5. mtime'[p] = clock
    BY DEF Stamp
<1> QED  BY <1>3, <1>4, <1>5

LEMMA SeeingNext ==
    ASSUME TypeOK, Seeing, [Next]_vars
    PROVE  Seeing'
<1>0. watch = [pc |-> watch.pc, listed |-> watch.listed,
               unread |-> watch.unread, seen |-> watch.seen]
    BY DEF TypeOK
<1>1. CASE UNCHANGED <<watch, paths>>
    BY <1>1 DEF Seeing
<1>2. CASE watch'.seen = {}
    BY <1>2 DEF Seeing
<1>3. ASSUME NEW p \in Paths, CheckErased(p) PROVE Seeing'
    BY <1>0, <1>2, <1>3 DEF CheckErased, Seeing
<1>4. ASSUME NEW p \in Paths, Visit(p) PROVE Seeing'
  <2>1. watch.seen = {}
      BY <1>4 DEF Visit, Seeing
  <2>2. watch'.seen = {} \/ /\ watch'.pc = "report" /\ paths'[p] = mtime[p]
                            /\ \E status : watch'.seen = {<<p, status>>}
      BY <1>0, <1>4, <2>1 DEF Visit, TypeOK
  <2>3. mtime[p] # Unknown
      BY DEF TypeOK, Unknown
  <2> QED  BY <1>2, <2>2, <2>3 DEF Seeing
<1>5. ASSUME NEW p \in Paths, NEW status \in Statuses, Report(p, status)
      PROVE  Seeing'
    BY <1>0, <1>2, <1>5 DEF Report
<1>6. CASE WakeUp
    BY <1>0, <1>2, <1>6 DEF WakeUp, Seeing
<1>7. CASE List \/ EndScan
    BY <1>2, <1>7 DEF List, EndScan, Sleeping
<1>8. ASSUME NEW p \in Paths, VisitFails(p) PROVE Seeing'
  <2>1. watch.seen = {} /\ Sleeping.seen = {}
      BY <1>8 DEF VisitFails, Seeing, Sleeping
  <2>2. [watch EXCEPT !.unread = @ \ {p}, !.listed = @ \ {p}].seen = watch.seen
      BY <1>0
  <2> QED  BY <1>2, <1>8, <2>1, <2>2 DEF VisitFails
<1>9. CASE Watcher
    BY <1>3, <1>4, <1>5, <1>6, <1>7, <1>8, <1>9 DEF Watcher
<1>10. CASE Main
    BY <1>1, <1>10
    DEF Main, CompareChecksums, GetContent, WipeFolder, EndTransfer, Flush,
        Clear, Release, Upload, Download
<1>11. CASE Senders
    BY <1>1, <1>11 DEF Senders, SendRequest
<1>12. CASE User
    BY <1>1, <1>12 DEF User, Tick, Edit
<1>13. CASE UNCHANGED vars
    BY <1>1, <1>13 DEF vars
<1> QED  BY <1>9, <1>10, <1>11, <1>12, <1>13 DEF Next

LEMMA WatcherKeepsBacking ==
    ASSUME TypeOK, IInv, Seeing, Backing, Watcher
    PROVE  Backing'
<1>0. watch = [pc |-> watch.pc, listed |-> watch.listed,
               unread |-> watch.unread, seen |-> watch.seen]
    BY DEF TypeOK
<1>1. CASE WakeUp \/ List \/ EndScan
  <2>1. watch'.seen = watch.seen
    <3>1. CASE WakeUp
        BY <1>0, <3>1 DEF WakeUp
    <3>2. CASE List \/ EndScan
        BY <3>2 DEF List, EndScan, Sleeping, Seeing
    <3> QED  BY <1>1, <3>1, <3>2
  <2> QED  BY <1>1, <2>1, IdleKeepsBacking DEF WakeUp, List, EndScan
<1>2. ASSUME NEW p \in Paths, CheckErased(p) PROVE Backing'
  <2>0. watch'.seen = watch.seen
      BY <1>0, <1>2 DEF CheckErased
  <2>1. CASE UNCHANGED <<paths, request, senders, missed>>
      BY <1>2, <2>0, <2>1, IdleKeepsBacking DEF CheckErased
  <2>2. CASE paths' = [paths EXCEPT ![p] = Unknown] /\ Changed(p, "erased")
    <3>1. NotBackInTime'
        BY <1>2, <2>2 DEF CheckErased, Backing, NotBackInTime, TypeOK, Unknown
    <3>2. \A q \in Paths \ {p} : paths'[q] = paths[q]
        BY <2>2 DEF TypeOK
    <3>3. "erased" \in Statuses
        BY DEF Statuses
    <3> QED  BY <1>2, <2>0, <2>2, <3>1, <3>2, <3>3, ChangedKeepsBacking
             DEF CheckErased
  <2> QED  BY <1>2, <2>1, <2>2 DEF CheckErased
<1>3. ASSUME NEW p \in Paths, Visit(p) PROVE Backing'
  <2> DEFINE next == [watch EXCEPT !.unread = @ \ {p}, !.listed = @ \ {p}]
             status == IF paths[p] = Unknown THEN "created" ELSE "modified"
  <2>0. /\ UNCHANGED <<disk, server, mtime, main, broken>>
        /\ watch.seen = {}
      BY <1>3 DEF Visit, Seeing
  <2>1. CASE Nothing /\ watch' = next /\ UNCHANGED paths
    <3>1. watch'.seen = watch.seen
        BY <1>0, <2>1
    <3> QED  BY <2>0, <2>1, <3>1, NothingKeepsBacking
  <2>2. CASE /\ paths' = [paths EXCEPT ![p] = mtime[p]]
             /\ watch' = [next EXCEPT !.pc = "report", !.seen = {<<p, status>>}]
             /\ UNCHANGED <<freezed, senders, request, cont_nothing, missed>>
    <3>1. watch'.seen = {<<p, status>>}
        BY <1>0, <2>2
    <3>2. status \in Statuses
        BY DEF Statuses
    <3>3. Noticed(p)'
        BY <3>1, <3>2 DEF Noticed
    <3>4. \A q \in Paths \ {p} : Noticed(q) => Noticed(q)'
        BY <2>0, <2>2 DEF Noticed, Known, Exists, TypeOK
    <3>5. NotBackInTime'
        BY <2>0, <2>2 DEF Backing, NotBackInTime, TypeOK
    <3> QED  BY <2>0, <2>2, <3>3, <3>4, <3>5, NothingForgotten
  <2> QED  BY <1>3, <2>1, <2>2 DEF Visit
<1>4. ASSUME NEW p \in Paths, VisitFails(p) PROVE Backing'
  <2>1. watch'.seen = watch.seen
    <3>1. watch.seen = {} /\ Sleeping.seen = {}
        BY <1>4 DEF VisitFails, Seeing, Sleeping
    <3>2. [watch EXCEPT !.unread = @ \ {p}, !.listed = @ \ {p}].seen = watch.seen
        BY <1>0
    <3> QED  BY <1>4, <3>1, <3>2 DEF VisitFails
  <2> QED  BY <1>4, <2>1, IdleKeepsBacking DEF VisitFails
<1>5. ASSUME NEW p \in Paths, NEW status \in Statuses, Report(p, status)
      PROVE  Backing'
  <2>1. /\ Changed(p, status) /\ <<p, status>> \in watch.seen
        /\ UNCHANGED <<disk, server, mtime, paths, main, broken>>
      BY <1>5 DEF Report
  <2>2. NotBackInTime'
      BY <2>1 DEF Backing, NotBackInTime
  <2>3. \A t \in watch.seen : t = <<p, status>>
      BY <2>1 DEF Seeing
  <2>4. \A q \in Paths \ {p} : \A s \in Statuses : <<q, s>> \notin watch.seen
      BY <2>3
  <2>5. paths[p] # Unknown
      BY <2>1 DEF Seeing
  <2>6. Exists(disk, p) \/ ~Known(p)'
      BY <2>1, <2>5 DEF Known, Exists
  <2> QED  BY <2>1, <2>2, <2>4, <2>6, ChangedKeepsBacking
<1> QED  BY <1>1, <1>2, <1>3, <1>4, <1>5 DEF Watcher

\* A thread sends its request when the first synchronisation is over.
LEMMA SendKeepsBacking ==
    ASSUME TypeOK, IInv, Backing, NEW p \in Paths, NEW s \in Statuses,
           SendRequest(p, s)
    PROVE  Backing'
<1>1. /\ Transfer(p, s) /\ ~broken
      /\ UNCHANGED <<disk, mtime, paths, watch, request, main>>
      /\ senders[<<p, s>>] > 0
      /\ senders' = [senders EXCEPT ![<<p, s>>] = @ - 1]
    BY DEF SendRequest
<1>2. main.pc \in {"clear", "release", "done"}
    BY <1>1 DEF IInv, SyncIsAlone
<1>3. DownloadCovered' /\ ContentOfNothing' /\ BrokenLate' /\ NotBackInTime'
    BY <1>1, <1>2 DEF DownloadCovered, ContentOfNothing, BrokenLate, Backing,
                      NotBackInTime
<1>4. ASSUME NEW q \in Paths, q \notin missed'
      PROVE  (server[q] = disk[q] \/ Noticed(q) \/ Ahead(q))'
  <2>1. CASE q = p
      BY <1>1, <1>4, <2>1, TransferBrings
  <2>2. CASE q # p
    <3>1. q \notin missed /\ server'[q] \in {server[q], disk[q]}
        BY <1>1, <1>4, <2>2, TransferBrings
    <3>2. server[q] = disk[q] \/ Noticed(q)
        BY <1>1, <1>2, <3>1 DEF Backing, Covered, Ahead
    <3>3. \A t \in Statuses : senders'[<<q, t>>] = senders[<<q, t>>]
        BY <1>1, <2>2 DEF TypeOK
    <3>4. Noticed(q) => Noticed(q)'
        BY <1>1, <3>3 DEF Noticed, Known, Exists
    <3> QED  BY <1>1, <3>1, <3>2, <3>4
  <2> QED  BY <2>1, <2>2
<1>5. Covered'
    BY <1>4 DEF Covered
<1> QED  BY <1>3, <1>5 DEF Backing

LEMMA MainKeepsBacking ==
    ASSUME TypeOK, IInv, Backing, Main
    PROVE  Backing'
<1> USE DEF Backing
<1>0. main = [pc |-> main.pc, todo |-> main.todo]
    BY DEF IInv, MainIsRecord
<1>1. CASE CompareChecksums
  <2>1. /\ main.pc = "checksum" /\ ~broken
        /\ UNCHANGED <<disk, mtime, paths, broken>>
      BY <1>1 DEF CompareChecksums, BrokenLate
  <2>2. NotBackInTime' /\ BrokenLate'
      BY <2>1 DEF NotBackInTime, BrokenLate
  <2>3. CASE disk = server /\ main' = [main EXCEPT !.pc = "flush"] /\ server' = server
    <3>1. main'.pc = "flush"
        BY <1>0, <2>3
    <3> QED  BY <2>1, <2>2, <2>3, <3>1 DEF Covered, DownloadCovered, ContentOfNothing
  <2>4. CASE main' = [main EXCEPT !.pc = "wipe"] /\ server' = server
    <3>1. main'.pc = "wipe"
        BY <1>0, <2>4
    <3> QED  BY <2>2, <3>1 DEF Covered, DownloadCovered, ContentOfNothing, Ahead
  <2>5. CASE main' = [main EXCEPT !.pc = "content"] /\ server' = EmptyFolder
    <3>1. main'.pc = "content"
        BY <1>0, <2>5
    <3> QED  BY <2>2, <2>5, <3>1 DEF Covered, DownloadCovered, ContentOfNothing, Ahead
  <2> QED  BY <1>1, <2>3, <2>4, <2>5 DEF CompareChecksums
<1>2. CASE GetContent
  <2>1. /\ main.pc = "content" /\ server = EmptyFolder /\ ~broken
        /\ main' = [pc |-> "upload", todo |-> Present(disk)]
        /\ UNCHANGED <<disk, server, mtime, paths, broken>>
      BY <1>2 DEF GetContent, ContentOfNothing, BrokenLate
  <2>2. \A p \in Paths : p \in main'.todo \/ server'[p] = disk'[p]
      BY <2>1, DiskIsFolder DEF Present, Exists, EmptyFolder, TypeOK
  <2> QED  BY <2>1, <2>2 DEF Covered, DownloadCovered, ContentOfNothing, Ahead,
                             NotBackInTime, BrokenLate
<1>3. ASSUME NEW p \in Paths, Upload(p) PROVE Backing'
  <2>1. /\ main.pc = "upload" /\ ~broken /\ Transfer(p, "modified")
        /\ main' = [main EXCEPT !.todo = @ \ {p}]
        /\ UNCHANGED <<disk, mtime, paths, watch, request, senders>>
      BY <1>3 DEF Upload, BrokenLate
  <2>2. main'.pc = "upload" /\ main'.todo = main.todo \ {p}
      BY <1>0, <2>1
  <2>3. /\ p \in missed' \/ server'[p] = disk[p]
        /\ \A q \in Paths \ {p} :
             /\ q \in missed => q \in missed'
             /\ q \in missed' \/ server'[q] \in {server[q], disk[q]}
      BY <2>1, TransferBrings DEF Statuses
  <2>4. ~broken'
      BY <2>1 DEF Transfer, PresentUnread
  <2>5. ASSUME NEW q \in Paths, q \notin missed'
        PROVE  (server[q] = disk[q] \/ Noticed(q) \/ Ahead(q))'
    <3>1. CASE q = p
        BY <2>1, <2>3, <2>5, <3>1
    <3>2. CASE q # p
      <4>1. server[q] = disk[q] \/ Noticed(q) \/ Ahead(q)
          BY <2>1, <2>3, <2>5, <3>2 DEF Covered
      <4>2. Noticed(q) => Noticed(q)'
          BY <2>1, <2>2 DEF Noticed, Known, Exists
      <4>3. Ahead(q) => Ahead(q)'
          BY <2>1, <2>2, <3>2 DEF Ahead
      <4> QED  BY <2>1, <2>3, <2>5, <3>2, <4>1, <4>2, <4>3
    <3> QED  BY <3>1, <3>2
  <2>6. Covered'
      BY <2>5 DEF Covered
  <2> QED  BY <2>1, <2>2, <2>4, <2>6 DEF DownloadCovered, ContentOfNothing,
                                         NotBackInTime, BrokenLate
<1>4. CASE WipeFolder
  <2>1. /\ main.pc = "wipe" /\ ~broken /\ disk' = EmptyFolder
        /\ main' = [pc |-> "download", todo |-> Present(server)]
        /\ UNCHANGED <<server, mtime, paths, broken>>
      BY <1>4 DEF WipeFolder, BrokenLate
  <2>2. \A p \in Paths : p \in main'.todo \/ server'[p] = disk'[p]
      BY <2>1, DiskIsFolder DEF Present, Exists, EmptyFolder, TypeOK
  <2>3. \A p \in Paths : ~Exists(disk, p)'
      BY <2>1 DEF Exists, EmptyFolder, Absent
  <2>4. main'.todo \subseteq Paths
      BY <2>1 DEF Present
  <2> QED  BY <2>1, <2>2, <2>3, <2>4
           DEF Covered, DownloadCovered, ContentOfNothing, Ahead, NotBackInTime,
               BrokenLate
<1>6. CASE EndTransfer
  <2>1. /\ main.pc \in {"upload", "download"} /\ main.todo = {}
        /\ main' = [main EXCEPT !.pc = "flush"]
        /\ UNCHANGED <<disk, server, mtime, paths, watch, request, senders, broken,
                       missed>>
      BY <1>6 DEF EndTransfer
  <2>2. main'.pc = "flush"
      BY <1>0, <2>1
  <2>3. \A p \in Paths : ~Ahead(p) /\ (Noticed(p) => Noticed(p)')
      BY <2>1, <2>2 DEF Ahead, Noticed, Known, Exists
  <2> QED  BY <2>1, <2>2, <2>3 DEF Covered, DownloadCovered, ContentOfNothing,
                                   NotBackInTime, BrokenLate
<1>7. CASE Flush
  <2>1. /\ main.pc = "flush" /\ senders' = Spawned /\ ~broken
        /\ main' = [main EXCEPT !.pc = IF Queue = {} THEN "release" ELSE "clear"]
        /\ UNCHANGED <<disk, server, mtime, paths, watch, request, broken, missed>>
      BY <1>7 DEF Flush, BrokenLate
  <2>2. main'.pc \in {"release", "clear"}
      BY <1>0, <2>1
  <2>3. ASSUME NEW p \in Paths, Noticed(p) PROVE Noticed(p)'
    <3>1. CASE ~Known(p)
        BY <2>1, <3>1 DEF Noticed, Known, Exists
    <3>2. CASE request[p] # NoRequest
      <4>1. senders'[<<p, request[p]>>] > 0 /\ request[p] \in Statuses
          BY <2>1, <3>2, SpawnedSends DEF TypeOK
      <4> QED  BY <4>1 DEF Noticed
    <3>3. CASE \E s \in Statuses : senders[<<p, s>>] > 0
        BY <2>1, <3>3 DEF IInv, SyncIsAlone
    <3>4. CASE \E s \in Statuses : <<p, s>> \in watch.seen
        BY <2>1, <3>4 DEF Noticed
    <3> QED  BY <2>3, <3>1, <3>2, <3>3, <3>4 DEF Noticed
  <2> QED  BY <2>1, <2>2, <2>3 DEF Covered, DownloadCovered, ContentOfNothing,
                                   NotBackInTime, BrokenLate, Ahead
<1>8. CASE Clear
  <2>1. /\ main.pc = "clear" /\ main' = [main EXCEPT !.pc = "release"]
        /\ UNCHANGED <<disk, server, mtime, paths, watch, senders, broken, missed>>
      BY <1>8 DEF Clear
  <2>2. main'.pc = "release"
      BY <1>0, <2>1
  <2>3. \A p \in Paths : Noticed(p) => Noticed(p)'
      BY <2>1 DEF Noticed, Known, Exists
  <2> QED  BY <2>1, <2>2, <2>3 DEF Covered, DownloadCovered, ContentOfNothing,
                                   NotBackInTime, BrokenLate, Ahead
<1>9. CASE Release
  <2>1. /\ main.pc = "release" /\ main' = [main EXCEPT !.pc = "done"]
        /\ UNCHANGED <<disk, server, mtime, paths, watch, request, senders, broken,
                       missed>>
      BY <1>9 DEF Release
  <2>2. main'.pc = "done"
      BY <1>0, <2>1
  <2>3. \A p \in Paths : Noticed(p) => Noticed(p)'
      BY <2>1, <2>2 DEF Noticed, Known, Exists
  <2> QED  BY <2>1, <2>2, <2>3 DEF Covered, DownloadCovered, ContentOfNothing,
                                   NotBackInTime, BrokenLate, Ahead
<1>5. ASSUME NEW p \in Paths, Download(p) PROVE Backing'
  <2>1. /\ main.pc = "download" /\ p \in main.todo /\ ~broken
        /\ disk' = Outcome(disk, server[p], p, "created")
        /\ missed' = missed \cup Lost(disk, server, p)
        /\ main' = [main EXCEPT !.todo = @ \ {p}]
        /\ UNCHANGED <<server, paths, watch, request, senders, broken>>
      BY <1>5 DEF Download, BrokenLate
  <2>2. main'.pc = "download" /\ main'.todo = main.todo \ {p}
      BY <1>0, <2>1
  <2>3. /\ \/ disk'[p] = server[p]
           \/ p \in Lost(disk, server, p)
           \/ Exists(disk, p) /\ disk' = disk
        /\ \A q \in Paths \ {p} : disk'[q] \in {disk[q], server[q]}
    <3>1. /\ server \in [Paths -> DiskNodes] /\ WellFormed(server)
          /\ disk \in [Paths -> DiskNodes] /\ WellFormed(disk)
        BY DEF TypeOK
    <3>2. "created" \in Statuses
        BY DEF Statuses
    <3>3. /\ \/ Outcome(disk, server[p], p, "created")[p] = server[p]
             \/ p \in Lost(disk, server, p)
             \/ /\ Exists(disk, p)
                /\ Outcome(disk, server[p], p, "created") = disk
          /\ \A q \in Paths \ {p} :
               Outcome(disk, server[p], p, "created")[q] \in {disk[q], server[q]}
        BY <3>1, <3>2, OutcomeBrings
    <3> QED  BY <2>1, <3>3
  <2>4. /\ NotBackInTime'
        /\ \A q \in Paths : disk'[q] = disk[q] /\ ~Known(q) => ~Known(q)'
    <3>1. CASE disk' = disk
      <4>1. mtime' = mtime
          BY <1>5, <3>1 DEF Download
      <4> QED  BY <2>1, <3>1, <4>1 DEF NotBackInTime, Known, Exists
    <3>2. CASE disk' # disk
        BY <1>5, <2>1, <3>2, StampForward DEF Download
    <3> QED  BY <3>1, <3>2
  <2>5. ASSUME NEW q \in Paths, disk'[q] = disk[q], Noticed(q) PROVE Noticed(q)'
      BY <2>1, <2>2, <2>4, <2>5 DEF Noticed
  <2>6. ASSUME NEW q \in Paths, q \notin missed'
        PROVE  (server[q] = disk[q] \/ Noticed(q) \/ Ahead(q))'
    <3>0. q \notin missed
        BY <2>1, <2>6
    <3>1. CASE disk'[q] = server[q]
        BY <2>1, <3>1
    <3>2. CASE q = p /\ Exists(disk, p) /\ disk' = disk
      <4>1. server[p] = disk[p] \/ Noticed(p)
          BY <2>1, <3>0, <3>2 DEF DownloadCovered
      <4> QED  BY <2>1, <2>5, <3>2, <4>1
    <3>3. CASE q # p /\ disk'[q] = disk[q]
      <4>1. server[q] = disk[q] \/ Noticed(q) \/ Ahead(q)
          BY <2>1, <3>0 DEF Covered
      <4>2. Ahead(q) => Ahead(q)'
          BY <2>1, <2>2, <3>3 DEF Ahead
      <4> QED  BY <2>1, <2>5, <3>3, <4>1, <4>2
    <3> QED  BY <2>1, <2>3, <2>6, <3>1, <3>2, <3>3
  <2>7. Covered'
      BY <2>6 DEF Covered
  <2>8. ASSUME NEW q \in (main.todo \ missed)', q \in Paths
        PROVE  (~Exists(disk, q) \/ server[q] = disk[q] \/ Noticed(q))'
    <3>1. q \in main.todo \ missed /\ q # p
        BY <2>1, <2>2, <2>8
    <3>2. ~Exists(disk, q) \/ server[q] = disk[q] \/ Noticed(q)
        BY <2>1, <3>1 DEF DownloadCovered
    <3> QED  BY <2>1, <2>3, <2>5, <2>8, <3>1, <3>2 DEF Exists
  <2>9. main'.todo \subseteq Paths
      BY <2>2 DEF TypeOK
  <2>10. DownloadCovered'
      BY <2>8, <2>9 DEF DownloadCovered
  <2> QED  BY <2>1, <2>2, <2>4, <2>7, <2>10 DEF ContentOfNothing, BrokenLate
<1> QED  BY <1>1, <1>2, <1>3, <1>4, <1>5, <1>6, <1>7, <1>8, <1>9 DEF Main

\* What the user changes the watcher will see, unless it is Unseen or a Ghost.
LEMMA EditKeepsBacking ==
    ASSUME TypeOK, Backing, NEW p \in Paths, NEW node \in DiskNodes, Edit(p, node)
    PROVE  Backing'
<1>1. /\ disk' = Put(disk, p, node) /\ Stamp(p, disk')
      /\ missed' = missed \cup Unseen(p, node) \cup Ghosts(disk')
      /\ UNCHANGED <<server, paths, watch, request, main, senders, broken>>
    BY DEF Edit
<1>2. /\ disk'[p] = node
      /\ \A q \in Paths \ {p} :
           disk'[q] = IF p \in Above[q] THEN Absent ELSE disk[q]
  <2>1. disk' = [DeleteFile(disk, p) EXCEPT ![p] = node]
      BY <1>1 DEF Put
  <2>2. DeleteFile(disk, p)
          = [q \in Paths |-> IF q = p \/ p \in Above[q] THEN Absent ELSE disk[q]]
      BY DEF DeleteFile
  <2> QED  BY <2>1, <2>2
<1>3. /\ NotBackInTime'
      /\ mtime'[p] = clock
      /\ \A q \in Paths : disk'[q] = disk[q] /\ ~Known(q) => ~Known(q)'
    BY <1>1, StampForward DEF Backing
<1>4. ASSUME NEW q \in Paths, disk'[q] = disk[q], Noticed(q) PROVE Noticed(q)'
    BY <1>1, <1>3, <1>4 DEF Noticed
<1>5. ASSUME NEW q \in Paths, q \notin missed'
      PROVE  disk'[q] = disk[q] \/ server[q] = disk'[q] \/ Noticed(q)'
  <2>1. CASE disk'[q] = Absent
    <3>1. CASE paths[q] # Unknown
        BY <1>1, <2>1, <3>1 DEF Noticed, Known, Exists, Absent
    <3>2. CASE ~Exists(disk, q)
        BY <2>1, <3>2, DiskIsFolder DEF Exists, TypeOK
    <3>3. CASE paths[q] = Unknown /\ Exists(disk, q)
      <4>1. q \notin Ghosts(disk')
          BY <1>1, <1>5
      <4>2. ~Exists(server, q)
          BY <2>1, <3>3, <4>1 DEF Ghosts, Exists, Absent
      <4> QED  BY <2>1, <4>2, DiskIsFolder DEF Exists, TypeOK
    <3> QED  BY <3>1, <3>2, <3>3
  <2>2. CASE q = p /\ node # Absent
    <3>1. paths[p] # clock
        BY <1>1, <1>5, <2>2 DEF Unseen
    <3>2. Exists(disk', p)
        BY <1>2, <2>2 DEF Exists, DiskNodes, Absent, Directory
    <3> QED  BY <1>1, <1>3, <2>2, <3>1, <3>2 DEF Noticed, Known, Exists
  <2> QED  BY <1>2, <2>1, <2>2
<1>6. Covered'
  <2> SUFFICES ASSUME ~broken', NEW q \in Paths, q \notin missed'
               PROVE  (server[q] = disk[q] \/ Noticed(q) \/ Ahead(q))'
      BY DEF Covered
  <2>1. server[q] = disk[q] \/ Noticed(q) \/ Ahead(q)
      BY <1>1 DEF Backing, Covered
  <2>2. Ahead(q) => Ahead(q)'
      BY <1>1 DEF Ahead
  <2> QED  BY <1>1, <1>4, <1>5, <2>1, <2>2
<1>7. DownloadCovered'
  <2> SUFFICES ASSUME main'.pc = "download", NEW q \in (main.todo \ missed)'
               PROVE  (~Exists(disk, q) \/ server[q] = disk[q] \/ Noticed(q))'
      BY DEF DownloadCovered
  <2>1. q \in Paths /\ q \in main.todo \ missed
      BY <1>1 DEF TypeOK
  <2>2. ~Exists(disk, q) \/ server[q] = disk[q] \/ Noticed(q)
      BY <1>1, <2>1 DEF Backing, DownloadCovered
  <2> QED  BY <1>1, <1>4, <1>5, <2>1, <2>2 DEF Exists
<1>8. ContentOfNothing' /\ BrokenLate'
    BY <1>1 DEF Backing, ContentOfNothing, BrokenLate
<1> QED  BY <1>3, <1>6, <1>7, <1>8 DEF Backing

LEMMA BackingInit == Init => Backing
<1> SUFFICES ASSUME Init PROVE Backing
    OBVIOUS
<1>1. main.pc = "checksum" /\ ~broken
    BY DEF Init
<1>2. NotBackInTime
  <2>1. mtime = [p \in Paths |-> 0]
      BY DEF Init
  <2>2. paths = [p \in Paths |-> IF Exists(disk, p) THEN 0 ELSE -1]
      BY DEF Init, Unknown
  <2> SUFFICES ASSUME NEW p \in Paths PROVE paths[p] <= mtime[p]
      BY DEF NotBackInTime
  <2>3. mtime[p] = 0
      BY <2>1
  <2>4. paths[p] = 0 \/ paths[p] = -1
      BY <2>2
  <2> QED  BY <2>3, <2>4
<1> QED  BY <1>1, <1>2 DEF Backing, Covered, DownloadCovered, ContentOfNothing,
                           BrokenLate, Ahead

LEMMA BackingNext == TypeOK /\ IInv /\ Seeing /\ Backing /\ [Next]_vars => Backing'
<1> SUFFICES ASSUME TypeOK, IInv, Seeing, Backing, [Next]_vars PROVE Backing'
    OBVIOUS
<1>1. CASE Tick
    BY <1>1, IdleKeepsBacking DEF Tick
<1>2. ASSUME NEW p \in Paths, NEW node \in Holds[p], Edit(p, node) PROVE Backing'
  <2>1. node \in DiskNodes
      BY MonitorAssumption
  <2> QED  BY <1>2, <2>1, EditKeepsBacking
<1>3. CASE UNCHANGED vars
    BY <1>3, IdleKeepsBacking DEF vars
<1> QED  BY <1>1, <1>2, <1>3, WatcherKeepsBacking, MainKeepsBacking,
            SendKeepsBacking DEF Next, Senders, User

\* When there is nothing left to detect, to queue or to send, the server has
\* what the disk has, but for the changes lost in one of the ways that
\* "missed" names and for a connection out of step: whatever the tree of
\* paths, the user's edits and the order of the threads
\* (Client.cpp:203-319, FileWatcher.cpp:15-55).
THEOREM BackupHolds == Spec => []BackedUp
<1>1. Seeing /\ Backing => BackedUp
  <2> SUFFICES ASSUME Seeing, Backing, Quiet, ~broken, NEW p \in Paths \ missed
               PROVE  server[p] = disk[p]
      BY DEF BackedUp
  <2>1. ~Ahead(p)
      BY DEF Quiet, Ahead
  <2>2. request[p] = NoRequest
      BY DEF Quiet, Queue
  <2>3. \A s \in Statuses : senders[<<p, s>>] = 0
      BY DEF Quiet
  <2>4. Known(p)
      BY DEF Quiet, Known
  <2>5. \A s \in Statuses : ~(senders[<<p, s>>] > 0)
      BY <2>3
  <2>6. ~Noticed(p)
      BY <2>2, <2>4, <2>5 DEF Noticed, Quiet, Seeing
  <2> QED  BY <2>1, <2>6 DEF Backing, Covered
<1>2. Init => Seeing /\ Backing
    BY BackingInit DEF Init, Sleeping, Seeing
<1>3. TypeOK /\ IInv /\ Seeing /\ Backing /\ [Next]_vars => (Seeing /\ Backing)'
    BY BackingNext, SeeingNext
<1> QED  BY <1>1, <1>2, <1>3, TypeCorrect, InvariantHolds, PTL DEF Spec

=============================================================================
