----------------------------- MODULE ServerPool -----------------------------
(***************************************************************************)
(* server/Server.cpp: the thread of run(), which selects on the sockets of *)
(* the users that are free, reads their packets and logs newcomers in, and *)
(* the pool of threads that handle the packets.                            *)
(*                                                                         *)
(* A user's packet is CHECK, answered and done, or CREATE, which stands    *)
(* for every request that goes on with more messages of the client.  A     *)
(* client is one connection of a user: it logs in, sends its requests one  *)
(* at a time, and may fall silent or hang up anywhere.                     *)
(*                                                                         *)
(* A Socket made by connectedUsers[user] for a user that is not in the map *)
(* was never connected; it is named by its user.  The accesses to          *)
(* connectedUsers are not synchronised in the code; each is taken to be    *)
(* atomic here.                                                            *)
(*                                                                         *)
(* Assumed of the build: a user's name has at most 15 characters, so that  *)
(* the string run() reads after freeUsers.remove freed it (line 91) is     *)
(* intact; the number a moved Socket finds in its memory (Socket.cpp:30)   *)
(* is not that of an open descriptor; the number of a closed descriptor is *)
(* not given to a new connection while it is still in a set.               *)
(***************************************************************************)
EXTENDS Integers, Sequences, FiniteSets

CONSTANTS
    Users,     \* names
    Conns,     \* connections clients may open, each of them once
    Owner,     \* the user each connection logs in
    Workers,   \* threads of the pool
    None, Listener

Packets == [user : Users, msg : {"LOGIN", "CHECK", "CREATE", "DATA"}, from : Conns]

ASSUME PoolAssumption ==
    /\ IsFiniteSet(Workers) /\ Workers # {}
    /\ Owner \in [Conns -> Users]
    /\ Users \cap Conns = {}
    /\ None \notin Users \cup Conns /\ None \notin Packets
    /\ Listener \notin Users \cup Conns

VARIABLES
    connectedUsers,   \* the socket of each user
    freeUsers,        \* the users run() listens to
    packetsQueue,     \* packets for the pool
    run,              \* the thread of run(): place, fd_set, user, socket
    worker,           \* the pool: place, packet
    backlog,          \* connections not accepted yet
    inbox,            \* what each connection can deliver to the server
    late,             \* connections with the length of their last message
                      \* in, and its body still under way (two writes)
    client,           \* each client's place
    closed,           \* connections whose socket the server has closed
    overlapped        \* auxiliary: users logged in again while a worker that
                      \* failed on their last connection had not released them

vars == <<connectedUsers, freeUsers, packetsQueue, run, worker, backlog,
          inbox, late, client, closed, overlapped>>

Sockets == Users \cup Conns

Free == {freeUsers[i] : i \in DOMAIN freeUsers}

\* The thread of run() at the head of its loop; a worker before it dequeues.
NextTurn == [pc |-> "build", set |-> {}, user |-> None, socket |-> None]
Idle     == [pc |-> "idle", packet |-> None]
Killed   == [pc |-> "killed", packet |-> None]

HungUp(c) == client[c] = "gone"

\* SIGPIPE, which nothing handles: the process ends, with all its threads.
EndProcess ==
    /\ worker' = [w \in Workers |-> Killed]
    /\ run' = [NextTurn EXCEPT !.pc = "killed"]

Init ==
    /\ connectedUsers = [u \in Users |-> None]
    /\ freeUsers = <<>>
    /\ packetsQueue = <<>>
    /\ run = NextTurn
    /\ worker = [w \in Workers |-> Idle]
    /\ backlog = <<>>
    /\ inbox = [c \in Conns |-> <<>>]
    /\ late = {}
    /\ client = [c \in Conns |-> "down"]
    /\ closed = {}
    /\ overlapped = {}

-----------------------------------------------------------------------------
(* Sockets *)

\* A whole message can be read; the end of the stream can be read.
Arrived(c)   == inbox[c] # <<>> /\ ~(c \in late /\ Len(inbox[c]) = 1)
EndOfFile(c) == HungUp(c) /\ ~Arrived(c)

\* What select reports: also a message of which a part has arrived, and a
\* socket that was never connected.
Readable(s) ==
    \/ s \in Users
    \/ s \in Conns /\ (inbox[s] # <<>> \/ HungUp(s))
    \/ s = Listener /\ backlog # <<>>

\* connectedUsers[user], operator[] of a map: an absent user gets a Socket.
Lookup(users) ==
    [u \in Users |-> IF u \in users /\ connectedUsers[u] = None
                       THEN u ELSE connectedUsers[u]]

\* connectedUsers.erase(user), and ~Socket.
Erase(u) ==
    /\ connectedUsers' = [connectedUsers EXCEPT ![u] = None]
    /\ closed' = closed \cup ({connectedUsers[u]} \cap Conns)

\* The ways to pick the elements of s other than u in their order: there is
\* one.  (A set rather than a recursive function, for the proofs.)
Others(s, u) ==
    LET keep == {i \in DOMAIN s : s[i] # u}
    IN  {e \in [1 .. Cardinality(keep) -> keep] :
           \A j, k \in DOMAIN e : j < k => e[j] < e[k]}

\* Removing one occurrence, the one the scan is at.
RemoveFirst(u) ==
    \E i \in DOMAIN freeUsers :
      /\ freeUsers[i] = u
      /\ \A j \in 1 .. (i - 1) : freeUsers[j] # u
      /\ freeUsers' = [k \in 1 .. (Len(freeUsers) - 1) |->
                         freeUsers[IF k < i THEN k ELSE k + 1]]

\* freeUsers.remove(user): every occurrence.
RemoveFree(u) ==
    \E e \in Others(freeUsers, u) :
      freeUsers' = [k \in DOMAIN e |-> freeUsers[e[k]]]

-----------------------------------------------------------------------------
(* The thread of run() *)

\* w has taken a packet of u, and u is not back in freeUsers.
Serves(w, u) == worker[w].packet # None /\ worker[w].packet.user = u

\* userlist_m is held by run() between the scan and the end of the read.
UserlistFree == run.pc # "read"

\* FD_ZERO, the listening socket, the sockets of freeUsers.
BuildSet ==
    /\ run.pc = "build"
    /\ connectedUsers' = Lookup(Free)
    /\ run' = [run EXCEPT !.pc = "select",
                          !.set = {Listener} \cup {connectedUsers'[u] : u \in Free}]
    /\ UNCHANGED <<freeUsers, packetsQueue, worker, backlog, inbox, late,
                   client, closed, overlapped>>

\* select returns what is readable, after 2 seconds nothing.  A socket that
\* has been closed makes it fail, and leaves the set as it was.
Select ==
    /\ run.pc = "select"
    /\ run' = [run EXCEPT !.pc = "scan",
         !.set = IF run.set \cap closed # {}
                   THEN @ ELSE {s \in @ : Readable(s)}]
    /\ UNCHANGED <<connectedUsers, freeUsers, packetsQueue, worker, backlog,
                   inbox, late, client, closed, overlapped>>

\* The first free user whose socket is in the set; at most one per turn.
Scan ==
    /\ run.pc = "scan"
    /\ LET hit(i) == Lookup(Free)[freeUsers[i]] \in run.set
           hits == {i \in DOMAIN freeUsers : hit(i)}
       IN  \/ /\ hits = {}
              /\ connectedUsers' = Lookup(Free)
              /\ run' = [run EXCEPT !.pc = "accept", !.user = None]
           \/ \E i \in hits :
                /\ \A j \in hits : i <= j
                /\ connectedUsers' = Lookup({freeUsers[j] : j \in 1 .. i})
                /\ run' = [run EXCEPT !.pc = "read", !.user = freeUsers[i]]
    /\ UNCHANGED <<freeUsers, packetsQueue, worker, backlog, inbox, late,
                   client, closed, overlapped>>

\* awaitMessage blocks, with userlist_m locked, until the message is whole.
ReadPacket ==
    LET u == run.user
        s == connectedUsers[u]
    IN  /\ run.pc = "read"
        /\ s \in Conns /\ Arrived(s)
        /\ packetsQueue' = Append(packetsQueue,
                             [user |-> u, msg |-> Head(inbox[s]), from |-> s])
        /\ inbox' = [inbox EXCEPT ![s] = Tail(@)]
        /\ RemoveFree(u)
        /\ run' = [run EXCEPT !.pc = "accept", !.user = None]
        /\ UNCHANGED <<connectedUsers, worker, backlog, late, client,
                       closed, overlapped>>

\* The user leaves freeUsers and stays connected.
ReadFailsQuietly ==
    LET u == run.user
        s == connectedUsers[u]
    IN  /\ run.pc = "read"
        /\ s \in Conns => EndOfFile(s) \/ s \in closed
        /\ RemoveFree(u)
        /\ run' = [run EXCEPT !.pc = "accept", !.user = None]
        /\ UNCHANGED <<connectedUsers, packetsQueue, worker, backlog, inbox,
                       late, client, closed, overlapped>>

\* The read throws: the user is disconnected.
ReadFails ==
    LET u == run.user
        s == connectedUsers[u]
    IN  /\ run.pc = "read"
        /\ s \in Conns => EndOfFile(s) \/ s \in closed
        /\ Erase(u)
        /\ RemoveFree(u)
        /\ run' = [run EXCEPT !.pc = "accept", !.user = None]
        /\ UNCHANGED <<packetsQueue, worker, backlog, inbox, late, client, overlapped>>

\* accept blocks when the listening socket is in a set select left alone.
Accept ==
    /\ run.pc = "accept"
    /\ \/ /\ Listener \in run.set
          /\ backlog # <<>>
          /\ run' = [NextTurn EXCEPT !.pc = "login", !.socket = Head(backlog)]
          /\ backlog' = Tail(backlog)
       \/ /\ Listener \notin run.set
          /\ run' = NextTurn
          /\ UNCHANGED backlog
    /\ UNCHANGED <<connectedUsers, freeUsers, packetsQueue, worker, inbox,
                   late, client, closed, overlapped>>

\* Only the users run() listens to count as logged in.
ListenedTo(u) == u \in Free

\* "User already logged"
AlreadyLogged(u) == connectedUsers[u] # None

\* handleLogin blocks until the login message is whole.  The password is
\* right or wrong; a refused client's socket is closed.  The OK to a client
\* that has hung up is accepted, or fails and the socket is closed; that one,
\* and a NOT_OK, is two writes, of which the second may raise SIGPIPE.
HandleLogin ==
    LET c == run.socket
        u == Owner[c]
    IN  /\ run.pc = "login"
        /\ Arrived(c)
        /\ inbox' = [inbox EXCEPT ![c] = Tail(@)]
        /\ \/ /\ ~AlreadyLogged(u)
              /\ client' = [client EXCEPT ![c] = IF HungUp(c) THEN @ ELSE "ready"]
              /\ run' = [run EXCEPT !.pc = "insert", !.user = u]
              /\ overlapped' = IF \E w \in Workers : Serves(w, u)
                                 THEN overlapped \cup {u} ELSE overlapped
              /\ UNCHANGED <<worker, closed>>
           \/ /\ closed' = closed \cup {c}
              /\ run' = NextTurn
              /\ UNCHANGED <<worker, client, overlapped>>
           \/ /\ HungUp(c)
              /\ EndProcess
              /\ UNCHANGED <<client, closed, overlapped>>
        /\ UNCHANGED <<connectedUsers, freeUsers, packetsQueue, backlog, late>>

HandleLoginFails ==
    /\ run.pc = "login"
    /\ EndOfFile(run.socket)
    /\ closed' = closed \cup {run.socket}
    /\ run' = NextTurn
    /\ UNCHANGED <<connectedUsers, freeUsers, packetsQueue, worker, backlog,
                   inbox, late, client, overlapped>>

\* map::insert keeps what is there; the new socket is then closed.
InsertUser ==
    LET u == run.user
        c == run.socket
    IN  /\ run.pc = "insert"
        /\ \/ /\ connectedUsers[u] = None
              /\ connectedUsers' = [connectedUsers EXCEPT ![u] = c]
              /\ UNCHANGED closed
           \/ /\ connectedUsers[u] # None
              /\ closed' = closed \cup {c}
              /\ UNCHANGED connectedUsers
        /\ run' = [run EXCEPT !.pc = "push"]
        /\ UNCHANGED <<freeUsers, packetsQueue, worker, backlog, inbox, late,
                       client, overlapped>>

PushUser ==
    /\ run.pc = "push"
    /\ freeUsers' = Append(freeUsers, run.user)
    /\ run' = NextTurn
    /\ UNCHANGED <<connectedUsers, packetsQueue, worker, backlog, inbox,
                   late, client, closed, overlapped>>

-----------------------------------------------------------------------------
(* The pool *)

\* The queue is not looked at again after the wake-up.
DequeueOnce(w) ==
    /\ worker[w].pc = "idle"
    /\ worker' = [worker EXCEPT ![w] =
         [pc |-> "parse", packet |-> IF packetsQueue = <<>> THEN None
                                       ELSE Head(packetsQueue)]]
    /\ packetsQueue' = IF packetsQueue = <<>> THEN <<>> ELSE Tail(packetsQueue)
    /\ UNCHANGED <<connectedUsers, freeUsers, run, backlog, inbox, late,
                   client, closed, overlapped>>

Dequeue(w) ==
    /\ worker[w].pc = "idle"
    /\ packetsQueue # <<>>
    /\ packetsQueue' = Tail(packetsQueue)
    /\ worker' = [worker EXCEPT ![w] =
                    [pc |-> "parse", packet |-> Head(packetsQueue)]]
    /\ UNCHANGED <<connectedUsers, freeUsers, run, backlog, inbox, late,
                   client, closed, overlapped>>

\* Writes to the user's socket, after which the client and the worker go on as
\* told.  To a client that has hung up they may be accepted, throw, or, from the
\* second one on, raise SIGPIPE; so does the first to a socket that was never
\* connected.
Send(w, writes, clientPc, workerPc) ==
    LET u == worker[w].packet.user
        s == Lookup({u})[u]
    IN  /\ connectedUsers' = Lookup({u})
        /\ \/ /\ s \in Conns
              /\ client' = [client EXCEPT ![s] = IF @ \in {"asked", "sent"}
                                                   THEN clientPc ELSE @]
              /\ worker' = [worker EXCEPT ![w].pc = workerPc]
              /\ UNCHANGED run
           \/ /\ s \in Conns /\ HungUp(s)
              /\ worker' = [worker EXCEPT ![w].pc = "failed"]
              /\ UNCHANGED <<client, run>>
           \/ /\ s \in Conns => HungUp(s) /\ writes > 1
              /\ EndProcess
              /\ UNCHANGED client
        /\ UNCHANGED <<freeUsers, packetsQueue, backlog, inbox, late, closed,
                       overlapped>>

\* parsePacket: sendChecksum, the ACK to a request, or nothing for a message
\* that is no request.
ParsePacket(w) ==
    /\ worker[w].pc = "parse"
    /\ \/ /\ worker[w].packet.msg = "CHECK"
          /\ Send(w, 1, "ready", "release")
       \/ /\ worker[w].packet.msg = "CREATE"
          /\ Send(w, 2, "granted", "await")
       \/ /\ worker[w].packet.msg \notin {"CHECK", "CREATE"}
          /\ worker' = [worker EXCEPT ![w].pc = "release"]
          /\ UNCHANGED <<connectedUsers, freeUsers, packetsQueue, run,
                         backlog, inbox, late, client, closed, overlapped>>

\* The rest of the dialogue: one message of the client, one reply.
AwaitData(w) ==
    LET s == connectedUsers[worker[w].packet.user]
    IN  /\ worker[w].pc = "await"
        /\ s \in Conns /\ Arrived(s)
        /\ inbox' = [inbox EXCEPT ![s] = Tail(@)]
        /\ worker' = [worker EXCEPT ![w].pc = "reply"]
        /\ UNCHANGED <<connectedUsers, freeUsers, packetsQueue, run, backlog,
                       late, client, closed, overlapped>>

AwaitDataFails(w) ==
    LET u == worker[w].packet.user
        s == Lookup({u})[u]
    IN  /\ worker[w].pc = "await"
        /\ s \in Conns => EndOfFile(s) \/ s \in closed
        /\ connectedUsers' = Lookup({u})
        /\ worker' = [worker EXCEPT ![w].pc = "failed"]
        /\ UNCHANGED <<freeUsers, packetsQueue, run, backlog, inbox, late,
                       client, closed, overlapped>>

SendReply(w) == worker[w].pc = "reply" /\ Send(w, 2, "ready", "release")

\* The handler of the exception erases the user without the lock ...
EraseUser(w) ==
    /\ worker[w].pc = "failed"
    /\ Erase(worker[w].packet.user)
    /\ worker' = [worker EXCEPT ![w].pc = "release"]
    /\ UNCHANGED <<freeUsers, packetsQueue, run, backlog, inbox, late,
                   client, overlapped>>


\* ... and the user, erased or not, goes back to freeUsers.
Release(w) ==
    /\ worker[w].pc = "release"
    /\ UserlistFree
    /\ freeUsers' = Append(freeUsers, worker[w].packet.user)
    /\ worker' = [worker EXCEPT ![w] = Idle]
    /\ UNCHANGED <<connectedUsers, packetsQueue, run, backlog, inbox, late,
                   client, closed, overlapped>>

-----------------------------------------------------------------------------
(* The clients *)

\* What a client does while its connection is open.
ClientGoes(c, from, to) ==
    /\ client[c] \in from
    /\ c \notin closed
    /\ client' = [client EXCEPT ![c] = to]
    /\ UNCHANGED <<connectedUsers, freeUsers, packetsQueue, run, worker,
                   closed, overlapped>>

Connect(c) ==
    /\ ClientGoes(c, {"down"}, "connected")
    /\ backlog' = Append(backlog, c)
    /\ UNCHANGED <<inbox, late>>

\* A message leaves the client; all of it, or its length, arrives.
Emit(c, msg) ==
    /\ inbox' = [inbox EXCEPT ![c] = Append(@, msg)]
    /\ late' \in {late, late \cup {c}}
    /\ UNCHANGED backlog

SendLogin(c) == ClientGoes(c, {"connected"}, "loggingIn") /\ Emit(c, "LOGIN")
SendData(c)  == ClientGoes(c, {"granted"}, "sent") /\ Emit(c, "DATA")

SendRequest(c) ==
    /\ ClientGoes(c, {"ready"}, "asked")
    /\ \E msg \in {"CHECK", "CREATE"} : Emit(c, msg)

Deliver(c) ==
    /\ c \in late
    /\ ~HungUp(c)
    /\ late' = late \ {c}
    /\ UNCHANGED <<connectedUsers, freeUsers, packetsQueue, run, worker,
                   backlog, inbox, client, closed, overlapped>>

HangUp(c) ==
    /\ ClientGoes(c, {"connected", "loggingIn", "ready", "asked", "granted",
                      "sent"}, "gone")
    /\ UNCHANGED <<backlog, inbox, late>>

-----------------------------------------------------------------------------
RunThread ==
    \/ BuildSet \/ Select \/ Scan \/ ReadPacket \/ ReadFails
    \/ Accept \/ HandleLogin \/ HandleLoginFails \/ InsertUser \/ PushUser

PoolThread(w) ==
    \/ Dequeue(w) \/ ParsePacket(w) \/ AwaitData(w) \/ AwaitDataFails(w)
    \/ SendReply(w) \/ EraseUser(w) \/ Release(w)

Talk(c) == SendLogin(c) \/ SendData(c) \/ Deliver(c)

Next ==
    \/ RunThread
    \/ \E w \in Workers : PoolThread(w)
    \/ \E c \in Conns : Talk(c) \/ Connect(c) \/ SendRequest(c) \/ HangUp(c)

Spec == Init /\ [][Next]_vars

(***************************************************************************)
(* The threads of the server keep running, and whoever waits for           *)
(* userlist_m gets it some time (Release is strongly fair); run() itself   *)
(* may wait for ever, in ReadPacket or HandleLogin, for a silent client.   *)
(***************************************************************************)
FairServer ==
    /\ Spec
    /\ WF_vars(RunThread)
    /\ \A w \in Workers : WF_vars(PoolThread(w)) /\ SF_vars(Release(w))

\* And clients finish what they have begun, or hang up.
FairSpec == FairServer /\ \A c \in Conns : WF_vars(Talk(c))

-----------------------------------------------------------------------------
(* Properties *)

TypeOK ==
    /\ connectedUsers \in [Users -> Sockets \cup {None}]
    /\ freeUsers \in Seq(Users)
    /\ packetsQueue \in Seq(Packets)
    /\ run \in [pc : {"build", "select", "scan", "read", "accept", "login",
                      "insert", "push", "killed"},
                set : SUBSET (Sockets \cup {Listener}),
                user : Users \cup {None}, socket : Conns \cup {None}]
    /\ run.pc \in {"read", "insert", "push"} => run.user \in Users
    /\ run.pc \in {"login", "insert", "push"} => run.socket \in Conns
    /\ worker \in [Workers ->
          {Idle, Killed} \cup [pc : {"parse", "await", "reply", "failed", "release"},
                      packet : Packets]]
    /\ backlog \in Seq(Conns)
    /\ inbox \in [Conns -> Seq({"LOGIN", "CHECK", "CREATE", "DATA"})]
    /\ late \subseteq Conns
    /\ client \in [Conns -> {"down", "connected", "loggingIn", "ready", "asked",
                            "granted", "sent", "gone"}]
    /\ closed \subseteq Conns
    /\ overlapped \subseteq Users

Queued(u) == {i \in DOMAIN packetsQueue : packetsQueue[i].user = u}

\* A user who is being served, or whose packet is queued, is not listened to
\* and is served once: run() and the pool never read from one socket
\* (Server.cpp:58, 88).  Unless he logged in again before a worker that
\* failed on his last connection got to Server.cpp:31.
ServedByOne ==
    \A u \in Users \ overlapped :
      /\ u \in Free => Queued(u) = {} /\ \A w \in Workers : ~Serves(w, u)
      /\ Queued(u) # {} => \A w \in Workers : ~Serves(w, u)
      /\ \A i, j \in Queued(u) : i = j
      /\ \A v, w \in Workers : Serves(v, u) /\ Serves(w, u) => v = w

\* A connected user is always listened to, in the queue, with a worker, or
\* about to be listened to: no path through an error forgets him.
NoUserForgotten ==
    \A u \in Users :
      connectedUsers[u] # None /\ run.pc # "killed" =>
        \/ u \in Free
        \/ Queued(u) # {}
        \/ \E w \in Workers : Serves(w, u)
        \/ run.pc = "push" /\ run.user = u

\* A client that was told OK is the one its user is connected by, and the
\* server keeps its socket open, until it hangs up: another login of the
\* user, before, meanwhile or after, does not take its place and no error of
\* an earlier connection closes it (Server.cpp:28, 82, 131, 198-205).
KeptUntilItHangsUp ==
    \A c \in Conns :
      /\ client[c] \in {"ready", "asked", "granted", "sent"}
      /\ Owner[c] \notin overlapped
      /\ run.pc # "killed"
      => /\ c \notin closed
         /\ connectedUsers[Owner[c]] = c \/ (run.pc = "insert" /\ run.socket = c)

=============================================================================
