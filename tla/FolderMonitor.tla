---------------------------- MODULE FolderMonitor ----------------------------
(***************************************************************************)
(* The client (client/Client.cpp, client/FileWatcher.cpp): the thread of   *)
(* FileWatcher::start, which scans the folder and queues requests, the     *)
(* main thread, which synchronises the two folders first, and the detached *)
(* threads that send one request each.                                     *)
(*                                                                         *)
(* A transfer is one step, Outcome, as FileExchange is shown to implement  *)
(* it; the connection does not fail here.  The user edits the folder       *)
(* between any two steps.  locked is never set by the program and is left  *)
(* out.  Times are whole seconds.                                          *)
(***************************************************************************)
EXTENDS Folder

CONSTANTS
    Holds,       \* what the user may put at each path
    MaxEdits,    \* bound: edits of the user
    MaxTime      \* bound: seconds

\* What the program puts on a disk, and what is on one to begin with.
DiskNodes == {Absent, Directory} \cup [kind : {"file"}, data : Seq(Data)]

ASSUME MonitorAssumption ==
    /\ Holds \in [Paths -> SUBSET DiskNodes]
    /\ MaxEdits \in Nat /\ MaxTime \in Nat

VARIABLES
    disk,        \* the client's folder
    server,      \* the server's folder
    mtime,       \* last_write_time of what is on the disk
    paths,       \* FileWatcher: the time recorded for each path it knows
    watch,       \* the watcher's place in its scan, the paths listed and not
                 \* looked at yet, the change it is about to report
    freezed, first_syncrinize,
    request,     \* Client: the queued requests
    cont_nothing,
    main,        \* the main thread: its place, the paths of its transfer
    senders,     \* how many threads wait to send each request
    clock, edits,
    shifted,     \* the client reads each reply one too early: END of an upload
                 \* is acknowledged twice, and it reads one of the two
    broken,      \* auxiliary: data was sent that the server does not read
    missed       \* auxiliary: paths a change of which was lost, see below,
                 \* and not made up for by a later transfer

vars == <<disk, server, mtime, paths, watch, freezed, first_syncrinize,
          request, cont_nothing, main, senders, clock, edits, shifted, broken,
          missed>>

Statuses == {"created", "modified", "erased"}
NoRequest == "none"
Unknown == -1

Present(f) == {p \in Paths : Exists(f, p)}
Below(p)   == {q \in Paths : p \in Above[q]}

\* The directory p is in, if it is not the folder itself.
Parent(p) == {q \in Above[p] : Above[p] \subseteq Above[q] \cup {q}}

Queue == {p \in Paths : request[p] # NoRequest}

Sleeping == [pc |-> "sleep", listed |-> {}, unread |-> {}, seen |-> {}]

\* The watcher's constructor lists the folder before the threads start.
Init ==
    /\ disk \in {f \in [Paths -> UNION {Holds[p] : p \in Paths}] :
                   WellFormed(f) /\ \A p \in Paths : f[p] \in Holds[p]}
    /\ server \in {f \in [Paths -> UNION {Holds[p] : p \in Paths}] :
                   WellFormed(f) /\ \A p \in Paths : f[p] \in Holds[p]}
    /\ mtime = [p \in Paths |-> 0]
    /\ paths = [p \in Paths |-> IF Exists(disk, p) THEN 0 ELSE Unknown]
    /\ watch = Sleeping
    /\ freezed = FALSE
    /\ first_syncrinize = TRUE
    /\ request = [p \in Paths |-> NoRequest]
    /\ cont_nothing = 0
    /\ main = [pc |-> "checksum", todo |-> {}]
    /\ senders = [t \in Paths \X Statuses |-> 0]
    /\ clock = 0
    /\ edits = 0
    /\ shifted = FALSE
    /\ broken = FALSE
    /\ missed = {}

-----------------------------------------------------------------------------
(* The callback of the watcher *)

\* A queue in which what is erased and created again needs no request.
InsertCancelling(p, status) ==
    request' = [request EXCEPT ![p] =
                  IF @ = NoRequest THEN status
                  ELSE IF @ = "erased" /\ status = "created" THEN NoRequest
                  ELSE @]

\* map::insert: the first status queued for a path stays.
Insert(p, status) ==
    request' = [request EXCEPT ![p] = IF @ = NoRequest THEN status ELSE @]

\* Queued after the main thread has sent the queue, to be cleared with it.
Dropped(p) == IF main.pc = "clear" THEN {p} ELSE {}

\* A change that does not say that something new has come since nothing.
ChangedQuietly(p, status) ==
    /\ IF status # "erased" /\ ~Exists(disk, p)
         THEN UNCHANGED <<request, missed>>
         ELSE Insert(p, status) /\ missed' = missed \cup Dropped(p)
    /\ UNCHANGED <<freezed, senders, cont_nothing>>

\* Created, Modified, Erased.  What has been created or modified must still be
\* there.
Changed(p, status) ==
    /\ cont_nothing' = 0
    /\ IF status # "erased" /\ ~Exists(disk, p)
         THEN UNCHANGED <<request, missed>>
         ELSE Insert(p, status) /\ missed' = missed \cup Dropped(p)
    /\ UNCHANGED <<freezed, senders>>

\* A thread per queued request.
Spawned ==
    [t \in Paths \X Statuses |->
       senders[t] + (IF request[t[1]] = t[2] THEN 1 ELSE 0)]

\* nothing, that takes no notice of the first synchronisation.
NothingAtOnce ==
  /\ UNCHANGED missed
  /\ \/ /\ Queue # {} /\ cont_nothing = 0
        /\ senders' = Spawned
        /\ request' = [p \in Paths |-> NoRequest]
        /\ freezed' = FALSE
        /\ cont_nothing' = 1
     \/ /\ Queue # {} /\ cont_nothing # 0
        /\ freezed' = TRUE
        /\ UNCHANGED <<senders, request, cont_nothing>>
     \/ /\ Queue = {}
        /\ freezed' = FALSE
        /\ cont_nothing' = 0
        /\ UNCHANGED <<senders, request>>

\* nothing: what is queued is sent, unless the first synchronisation is on.
Nothing ==
  /\ UNCHANGED missed
  /\ \/ /\ first_syncrinize
        /\ UNCHANGED <<freezed, senders, request, cont_nothing>>
     \/ /\ ~first_syncrinize /\ Queue # {} /\ cont_nothing = 0
        /\ senders' = Spawned
        /\ request' = [p \in Paths |-> NoRequest]
        /\ freezed' = FALSE
        /\ cont_nothing' = 1
     \/ /\ ~first_syncrinize /\ Queue # {} /\ cont_nothing # 0
        /\ freezed' = TRUE
        /\ UNCHANGED <<senders, request, cont_nothing>>
     \/ /\ ~first_syncrinize /\ Queue = {}
        /\ freezed' = FALSE
        /\ cont_nothing' = 0
        /\ UNCHANGED <<senders, request>>

-----------------------------------------------------------------------------
(* FileWatcher::start *)

WakeUp ==
    /\ watch.pc = "sleep"
    /\ watch' = [watch EXCEPT !.pc = "erase",
                              !.unread = {p \in Paths : paths[p] # Unknown}]
    /\ UNCHANGED <<disk, server, mtime, paths, freezed, first_syncrinize,
                   request, cont_nothing, main, senders, clock, edits, shifted,
                   broken, missed>>

\* Is a path that was known still there?  (Whether frozen or not.)
CheckErased(p) ==
    /\ watch.pc = "erase" /\ p \in watch.unread
    /\ watch' = [watch EXCEPT !.unread = @ \ {p}]
    /\ \/ /\ Exists(disk, p)
          /\ UNCHANGED <<paths, request, cont_nothing, freezed, senders, missed>>
       \/ /\ ~Exists(disk, p)
          /\ paths' = [paths EXCEPT ![p] = Unknown]
          /\ Changed(p, "erased")
    /\ UNCHANGED <<disk, server, mtime, first_syncrinize, main, clock, edits,
                   shifted, broken>>

\* recursive_directory_iterator.  What is there now is listed; what the user
\* adds meanwhile may be listed as well.
List ==
    /\ watch.pc = "erase" /\ watch.unread = {}
    /\ watch' = [pc |-> "list", listed |-> Present(disk), unread |-> Paths,
                  seen |-> {}]
    /\ UNCHANGED <<disk, server, mtime, paths, freezed, first_syncrinize,
                   request, cont_nothing, main, senders, clock, edits, shifted,
                   broken, missed>>

\* An entry, after the directory it is in.  A new time is recorded, and the
\* callback called with what has changed.
Visit(p) ==
    /\ watch.pc = "list" /\ p \in watch.unread
    /\ Exists(disk, p)
    /\ Above[p] \cap watch.unread = {}
    /\ LET next == [watch EXCEPT !.unread = @ \ {p}, !.listed = @ \ {p}]
           status == IF paths[p] = Unknown THEN "created" ELSE "modified"
       IN  \/ /\ freezed \/ paths[p] = mtime[p]
              /\ Nothing
              /\ watch' = next
              /\ UNCHANGED paths
           \/ /\ ~freezed /\ paths[p] # mtime[p]
              /\ paths' = [paths EXCEPT ![p] = mtime[p]]
              /\ watch' = [next EXCEPT !.pc = "report", !.seen = {<<p, status>>}]
              /\ UNCHANGED <<freezed, senders, request, cont_nothing, missed>>
    /\ UNCHANGED <<disk, server, mtime, first_syncrinize, main, clock, edits,
                   shifted, broken>>

Report(p, status) ==
    /\ watch.pc = "report" /\ <<p, status>> \in watch.seen
    /\ watch' = [watch EXCEPT !.pc = "list", !.seen = {}]
    /\ Changed(p, status)
    /\ UNCHANGED <<disk, server, mtime, paths, first_syncrinize, main, clock,
                   edits, shifted, broken>>

\* An entry that is gone is not listed, or its time cannot be read: the scan
\* is given up and begun again.
VisitFails(p) ==
    /\ watch.pc = "list" /\ p \in watch.listed
    /\ ~Exists(disk, p)
    /\ watch' \in {Sleeping,
                   [watch EXCEPT !.unread = @ \ {p}, !.listed = @ \ {p}]}
    /\ UNCHANGED <<disk, server, mtime, paths, freezed, first_syncrinize,
                   request, cont_nothing, main, senders, clock, edits, shifted,
                   broken, missed>>

EndScan ==
    /\ watch.pc = "list" /\ watch.listed = {}
    /\ watch' = Sleeping
    /\ UNCHANGED <<disk, server, mtime, paths, freezed, first_syncrinize,
                   request, cont_nothing, main, senders, clock, edits, shifted,
                   broken, missed>>

-----------------------------------------------------------------------------
(* What a transfer loses *)

\* PRESENT is the reply, and what the server has is something else.
Refused(p, s) ==
    IF s = "created" /\ Exists(server, p) /\ server[p] # disk[p] THEN {p} ELSE {}

\* A file whose directory the receiving folder does not have.
Orphaned(to, from, p) ==
    IF IsRegularFile(from, p) /\ ~HasParents(to, p) THEN {p} ELSE {}

\* A file without data: nothing is written, and so nothing created.
Empty(from, p) ==
    IF IsRegularFile(from, p) /\ from[p].data = <<>> THEN {p} ELSE {}

\* A directory that is to come where the receiving folder has a file, or
\* below one: the file stays, whatever the status.
Blocked(to, from, p) ==
    IF IsDirectory(from, p) /\ (\E q \in Above[p] \cup {p} : IsRegularFile(to, q))
      THEN {p} ELSE {}

Lost(to, from, p) == Orphaned(to, from, p) \cup Empty(from, p) \cup Blocked(to, from, p)

\* An erased path that is there again is erased at the server.
Undone(p, s) ==
    IF s = "erased" /\ Exists(disk, p) THEN {p} \cup Below(p) ELSE {}

\* The reply PRESENT, which a shifted client will read as that to the next
\* message, having read the ACK before it.
PresentUnread(p, s) == shifted /\ s = "created" /\ Exists(server, p)

\* sendFile at the client, receiveFile at the server.  A file's data is sent
\* with the status erased, and where PRESENT was not read, all the same; the
\* server does not read it.
Transfer(p, s) ==
    /\ server' = IF s = "erased" THEN DeleteFile(server, p)
                                 ELSE Outcome(server, disk[p], p, s)
    /\ missed' = (missed \ {p}) \cup Refused(p, s) \cup Lost(server, disk, p)
                                \cup Undone(p, s)
    /\ broken' = /\ s = "erased" \/ PresentUnread(p, s)
                 /\ IsRegularFile(disk, p) /\ disk[p].data # <<>>

\* One of the threads that wait for muSend.
SendRequest(p, s) ==
    /\ ~broken
    /\ senders[<<p, s>>] > 0
    /\ senders' = [senders EXCEPT ![<<p, s>>] = @ - 1]
    /\ Transfer(p, s)
    /\ UNCHANGED <<disk, mtime, paths, watch, freezed, first_syncrinize,
                   request, cont_nothing, main, clock, edits, shifted>>

-----------------------------------------------------------------------------
(* monitoraCartella, the main thread *)

\* SYNC, the two checksums, and OK, DOWNLOAD or UPDATE, whereupon the server
\* wipes its folder.
CompareChecksums ==
    /\ main.pc = "checksum"
    /\ \/ /\ disk = server
          /\ main' = [main EXCEPT !.pc = "flush"]
          /\ UNCHANGED <<freezed, server>>
       \/ /\ disk = EmptyFolder /\ server # EmptyFolder
          /\ main' = [main EXCEPT !.pc = "wipe"]
          /\ freezed' = TRUE
          /\ UNCHANGED server
       \/ /\ disk # EmptyFolder /\ disk # server
          /\ main' = [main EXCEPT !.pc = "content"]
          /\ server' = EmptyFolder
          /\ UNCHANGED freezed
    /\ UNCHANGED <<disk, mtime, paths, watch, first_syncrinize, request,
                   cont_nothing, senders, clock, edits, shifted, broken,
                   missed>>

\* getContent, and then a transfer of each path, parents first.
GetContent ==
    /\ main.pc = "content"
    /\ main' = [pc |-> "upload", todo |-> Present(disk)]
    /\ UNCHANGED <<disk, server, mtime, paths, watch, freezed,
                   first_syncrinize, request, cont_nothing, senders, clock,
                   edits, shifted, broken, missed>>

Upload(p) ==
    /\ main.pc = "upload"
    /\ p \in main.todo /\ Above[p] \cap main.todo = {}
    /\ Transfer(p, "modified")
    /\ main' = [main EXCEPT !.todo = @ \ {p}]
    /\ UNCHANGED <<disk, mtime, paths, watch, freezed, first_syncrinize,
                   request, cont_nothing, senders, clock, edits, shifted>>

\* wipeFolder, of whatever the user has put there since the checksum.
WipeFolder ==
    /\ main.pc = "wipe"
    /\ disk' = EmptyFolder
    /\ main' = [pc |-> "download", todo |-> Present(server)]
    /\ UNCHANGED <<server, mtime, paths, watch, freezed, first_syncrinize,
                   request, cont_nothing, senders, clock, edits, shifted,
                   broken, missed>>

\* The times an entry p gets, and its directory if p comes or goes.
Stamp(p, new) ==
    mtime' = [q \in Paths |->
                IF q = p \/ (q \in Parent(p) /\ Exists(disk, p) # Exists(new, p))
                  THEN clock ELSE mtime[q]]

Download(p) ==
    /\ main.pc = "download"
    /\ p \in main.todo /\ Above[p] \cap main.todo = {}
    /\ disk' = Outcome(disk, server[p], p, "created")
    /\ IF disk' = disk THEN UNCHANGED mtime ELSE Stamp(p, disk')
    /\ missed' = missed \cup Lost(disk, server, p)
    /\ main' = [main EXCEPT !.todo = @ \ {p}]
    /\ UNCHANGED <<server, paths, watch, freezed, first_syncrinize, request,
                   cont_nothing, senders, clock, edits, shifted, broken>>

\* END; after a download the watcher is restarted.
EndTransfer ==
    /\ main.pc \in {"upload", "download"} /\ main.todo = {}
    /\ main' = [main EXCEPT !.pc = "flush"]
    /\ freezed' = IF main.pc = "download" THEN FALSE ELSE freezed
    /\ shifted' = (shifted \/ main.pc = "upload")
    /\ UNCHANGED <<disk, server, mtime, paths, watch, first_syncrinize,
                   request, cont_nothing, senders, clock, edits, broken,
                   missed>>

\* sendWrapperAllRequest takes mu2 and the callback mu: the watcher queues
\* requests while the main thread sends and then clears the queue.
Flush ==
    /\ main.pc = "flush"
    /\ senders' = Spawned
    /\ main' = [main EXCEPT !.pc = IF Queue = {} THEN "release" ELSE "clear"]
    /\ UNCHANGED <<disk, server, mtime, paths, watch, freezed,
                   first_syncrinize, request, cont_nothing, clock, edits,
                   shifted, broken, missed>>

Clear ==
    /\ main.pc = "clear"
    /\ request' = [p \in Paths |-> NoRequest]
    /\ freezed' = FALSE
    /\ main' = [main EXCEPT !.pc = "release"]
    /\ UNCHANGED <<disk, server, mtime, paths, watch, first_syncrinize,
                   cont_nothing, senders, clock, edits, shifted, broken,
                   missed>>

\* not_first_syncro
Release ==
    /\ main.pc = "release"
    /\ first_syncrinize' = FALSE
    /\ main' = [main EXCEPT !.pc = "done"]
    /\ UNCHANGED <<disk, server, mtime, paths, watch, freezed, request,
                   cont_nothing, senders, clock, edits, shifted, broken,
                   missed>>

-----------------------------------------------------------------------------
(* The user *)

\* The new time is the one recorded: the watcher sees no difference.
Unseen(p, node) == IF node # Absent /\ paths[p] = clock THEN {p} ELSE {}

\* What the watcher never saw is gone, and the server has it.
Ghosts(new) ==
    {q \in Paths : /\ Exists(disk, q) /\ ~Exists(new, q)
                   /\ paths[q] = Unknown /\ Exists(server, q)}

Edit(p, node) ==
    /\ edits < MaxEdits
    /\ CanPut(disk, p, node)
    /\ disk' = Put(disk, p, node)
    /\ Stamp(p, disk')
    /\ edits' = edits + 1
    /\ missed' = missed \cup Unseen(p, node) \cup Ghosts(disk')
    /\ UNCHANGED <<server, paths, watch, freezed, first_syncrinize, request,
                   cont_nothing, main, senders, clock, shifted, broken>>

Tick ==
    /\ clock < MaxTime
    /\ clock' = clock + 1
    /\ UNCHANGED <<disk, server, mtime, paths, watch, freezed,
                   first_syncrinize, request, cont_nothing, main, senders,
                   edits, shifted, broken, missed>>

-----------------------------------------------------------------------------
Watcher ==
    \/ WakeUp \/ List \/ EndScan
    \/ \E p \in Paths : CheckErased(p) \/ Visit(p) \/ VisitFails(p)
    \/ \E p \in Paths, status \in Statuses : Report(p, status)

Main ==
    \/ CompareChecksums \/ GetContent \/ WipeFolder \/ EndTransfer
    \/ Flush \/ Clear \/ Release
    \/ \E p \in Paths : Upload(p) \/ Download(p)

Senders == \E p \in Paths, s \in Statuses : SendRequest(p, s)

User == Tick \/ \E p \in Paths : \E node \in Holds[p] : Edit(p, node)

Next == Watcher \/ Main \/ Senders \/ User

Spec == Init /\ [][Next]_vars

\* The threads of the client keep running; nothing is assumed of the user.
FairSpec == Spec /\ WF_vars(Watcher) /\ WF_vars(Main) /\ WF_vars(Senders)

-----------------------------------------------------------------------------
(* Properties *)

TypeOK ==
    /\ disk \in [Paths -> DiskNodes] /\ WellFormed(disk)
    /\ server \in [Paths -> DiskNodes] /\ WellFormed(server)
    /\ mtime \in [Paths -> 0 .. clock]
    /\ paths \in [Paths -> {Unknown} \cup 0 .. clock]
    /\ watch \in [pc : {"sleep", "erase", "list", "report"},
                  listed : SUBSET Paths, unread : SUBSET Paths,
                  seen : SUBSET (Paths \X Statuses)]
    /\ freezed \in BOOLEAN /\ first_syncrinize \in BOOLEAN
    /\ request \in [Paths -> Statuses \cup {NoRequest}]
    /\ cont_nothing \in 0 .. 1
    /\ main \in [pc : {"checksum", "content", "upload", "wipe", "download",
                       "flush", "clear", "release", "done"},
                 todo : SUBSET Paths]
    /\ senders \in [Paths \X Statuses -> Nat]
    /\ clock \in 0 .. MaxTime /\ edits \in 0 .. MaxEdits
    /\ shifted \in BOOLEAN /\ broken \in BOOLEAN
    /\ missed \subseteq Paths

\* Nothing is left to detect, to queue or to send.
Quiet ==
    /\ main.pc = "done" /\ watch.pc # "report"
    /\ Queue = {}
    /\ \A t \in Paths \X Statuses : senders[t] = 0
    /\ \A p \in Paths : paths[p] = IF Exists(disk, p) THEN mtime[p] ELSE Unknown

\* The backup is a backup: when nothing is left to do, the server has what
\* the disk has.  The eight ways in which a change is lost (Unseen, Ghosts,
\* Refused, Orphaned, Empty, Blocked, Undone, Dropped), as long as no later
\* transfer of the path makes up for it, and a connection broken by data that
\* nobody reads (a file sent as erased, or as created after an upload where the
\* server has one) are the only exceptions.
BackedUp ==
    Quiet /\ ~broken => \A p \in Paths \ missed : server[p] = disk[p]

\* The socket is the main thread's until the first synchronisation is over:
\* no thread that sends a request is started before (Client.cpp:219, 306).
SyncIsAlone ==
    (\E t \in Paths \X Statuses : senders[t] > 0) =>
        main.pc \in {"clear", "release", "done"}

\* A watcher that is frozen is released: by the main thread after its
\* download, and by the very callback that froze it (Client.cpp:220-229).
NotLeftFrozen == freezed => main.pc \in {"wipe", "download"}

\* What is queued is sent some time: "invio le richieste accodate" (the queued
\* requests are sent, Client.cpp:218).  The callback that sends them is called
\* for an entry of the folder that has not changed: when the last entry is
\* removed nothing sends the request (FileWatcher.cpp:23).  A request that Clear
\* drops unsent (Dropped) leaves the queue as well.
QueueDrains ==
    \A p \in Paths :
      \/ p \in Queue ~> p \notin Queue
      \/ <>[](Present(disk) = {})

=============================================================================
