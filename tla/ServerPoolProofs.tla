-------------------------- MODULE ServerPoolProofs --------------------------
(* The server's containers keep their types; no user is served twice and    *)
(* none is forgotten, for any number of users, connections and threads.     *)
EXTENDS ServerPool, FiniteSetTheorems, FunctionTheorems, SequenceTheorems, TLAPS

Messages == {"LOGIN", "CHECK", "CREATE", "DATA"}
Busy == [pc : {"parse", "await", "reply", "failed", "release"}, packet : Packets]
WorkerType == {Idle, Killed} \cup Busy
RunType ==
    [pc : {"build", "select", "scan", "read", "accept", "login",
           "insert", "push", "killed"},
     set : SUBSET (Sockets \cup {Listener}),
     user : Users \cup {None}, socket : Conns \cup {None}]

-----------------------------------------------------------------------------
(* The operators the actions are built from *)

\* operator[] inserts for the users asked for and touches nobody else.
LEMMA LookupInserts ==
    ASSUME connectedUsers \in [Users -> Sockets \cup {None}],
           NEW users \in SUBSET Users
    PROVE  /\ Lookup(users) \in [Users -> Sockets \cup {None}]
           /\ \A u \in users : Lookup(users)[u] \in Sockets
           /\ \A u \in Users \ users : Lookup(users)[u] = connectedUsers[u]
           /\ \A u \in Users : connectedUsers[u] # None =>
                Lookup(users)[u] = connectedUsers[u]
<1>1. \A u \in Users : connectedUsers[u] \in Sockets \cup {None}
  OBVIOUS
<1>2. \A u \in Users : u \in Sockets
  BY DEF Sockets
<1> QED
  BY <1>1, <1>2 DEF Lookup

LEMMA FreeAreUsers ==
    ASSUME freeUsers \in Seq(Users)
    PROVE  Free \subseteq Users
BY DEF Free

\* push_back adds one user to the list.
LEMMA PushAdds ==
    ASSUME freeUsers \in Seq(Users), NEW u \in Users,
           freeUsers' = Append(freeUsers, u)
    PROVE  freeUsers' \in Seq(Users) /\ Free' = Free \cup {u}
<1>1. /\ freeUsers' \in Seq(Users)
      /\ Len(freeUsers') = Len(freeUsers) + 1
      /\ \A i \in 1 .. Len(freeUsers) : freeUsers'[i] = freeUsers[i]
      /\ freeUsers'[Len(freeUsers) + 1] = u
  BY AppendProperties
<1>2. Len(freeUsers) \in Nat
  OBVIOUS
<1>3. /\ DOMAIN freeUsers = 1 .. Len(freeUsers)
      /\ DOMAIN freeUsers' = 1 .. Len(freeUsers')
  BY <1>1
<1>4. DOMAIN freeUsers' = DOMAIN freeUsers \cup {Len(freeUsers) + 1}
  BY <1>1, <1>2, <1>3
<1> QED
  BY <1>1, <1>3, <1>4 DEF Free

\* remove takes every occurrence of the user away, and nobody else's: the
\* positions kept are chosen in their order, hence all of them.
LEMMA RemoveTakesAll ==
    ASSUME freeUsers \in Seq(Users), NEW u, RemoveFree(u)
    PROVE  freeUsers' \in Seq(Users) /\ Free' = Free \ {u}
<1> DEFINE keep == {i \in DOMAIN freeUsers : freeUsers[i] # u}
           n    == Cardinality(keep)
<1>1. DOMAIN freeUsers = 1 .. Len(freeUsers) /\ Len(freeUsers) \in Nat
  OBVIOUS
<1>2. IsFiniteSet(1 .. Len(freeUsers))
  BY <1>1, FS_Interval
<1>3. IsFiniteSet(keep)
  BY <1>1, <1>2, FS_Subset
<1>4. n \in Nat
  BY <1>3, FS_CardinalityType
<1>5. PICK e \in [1 .. n -> keep] :
        /\ \A j, k \in 1 .. n : j < k => e[j] < e[k]
        /\ freeUsers' = [k \in 1 .. n |-> freeUsers[e[k]]]
  BY DEF RemoveFree, Others
<1>6. \A k \in 1 .. n : e[k] \in keep /\ e[k] \in Nat
  BY <1>1, <1>5
<1>7. freeUsers' \in [1 .. n -> Users]
  BY <1>5, <1>6
<1>8. freeUsers' \in Seq(Users)
  BY <1>4, <1>7, SeqDef
<1>9. \A j, k \in 1 .. n : e[j] = e[k] => j = k
  <2> SUFFICES ASSUME NEW j \in 1 .. n, NEW k \in 1 .. n, e[j] = e[k]
               PROVE  j = k
    OBVIOUS
  <2>1. ~(j < k) /\ ~(k < j)
    BY <1>5, <1>6
  <2> QED
    BY <2>1, <1>4
<1>10. e \in Injection(1 .. n, keep)
  BY <1>5, <1>9 DEF Injection, IsInjective
<1>11. Cardinality(1 .. n) = n
  BY <1>4, FS_Interval
<1> HIDE DEF keep, n
<1>12. Cardinality(1 .. n) = Cardinality(keep)
  BY <1>11 DEF n
<1>13. e \in Surjection(1 .. n, keep)
  BY <1>3, <1>10, <1>12, FS_Injection
<1>14. \A i \in keep : \E k \in 1 .. n : e[k] = i
  BY <1>13 DEF Surjection
<1>15. Free' = {freeUsers[i] : i \in keep}
  <2>1. DOMAIN freeUsers' = 1 .. n
    BY <1>7
  <2>2. Free' = {freeUsers[e[k]] : k \in 1 .. n}
    BY <2>1, <1>5 DEF Free
  <2> QED
    BY <2>2, <1>6, <1>14
<1> QED
  BY <1>8, <1>15 DEF Free, keep

\* A packet put in the queue is its user's; nobody else's moves.
LEMMA PacketQueued ==
    ASSUME packetsQueue \in Seq(Packets), NEW packet \in Packets,
           packetsQueue' = Append(packetsQueue, packet)
    PROVE  /\ packetsQueue' \in Seq(Packets)
           /\ \A u \in Users : Queued(u)' =
                IF packet.user = u THEN Queued(u) \cup {Len(packetsQueue) + 1}
                                   ELSE Queued(u)
<1>1. /\ packetsQueue' \in Seq(Packets)
      /\ Len(packetsQueue') = Len(packetsQueue) + 1
      /\ \A i \in 1 .. Len(packetsQueue) : packetsQueue'[i] = packetsQueue[i]
      /\ packetsQueue'[Len(packetsQueue) + 1] = packet
  BY AppendProperties
<1>2. Len(packetsQueue) \in Nat
  OBVIOUS
<1>3. /\ DOMAIN packetsQueue = 1 .. Len(packetsQueue)
      /\ DOMAIN packetsQueue' = 1 .. Len(packetsQueue')
  BY <1>1
<1>4. DOMAIN packetsQueue' = DOMAIN packetsQueue \cup {Len(packetsQueue) + 1}
  BY <1>1, <1>2, <1>3
<1> QED
  BY <1>1, <1>3, <1>4 DEF Queued

\* A packet taken from the queue was the first one; the rest moves up.
LEMMA PacketTaken ==
    ASSUME packetsQueue \in Seq(Packets), packetsQueue # <<>>,
           packetsQueue' = Tail(packetsQueue)
    PROVE  /\ packetsQueue' \in Seq(Packets)
           /\ Head(packetsQueue) \in Packets
           /\ \A u \in Users :
                /\ Head(packetsQueue).user = u <=> 1 \in Queued(u)
                /\ Queued(u) \subseteq Nat
                /\ \A i \in Nat : i \in Queued(u)' <=> i # 0 /\ i + 1 \in Queued(u)
<1>1. /\ packetsQueue' \in Seq(Packets)
      /\ Head(packetsQueue) \in Packets
      /\ Len(packetsQueue') = Len(packetsQueue) - 1
      /\ \A i \in 1 .. Len(packetsQueue') : packetsQueue'[i] = packetsQueue[i + 1]
  BY HeadTailProperties
<1>2. Len(packetsQueue) \in Nat \ {0}
  BY EmptySeq
<1>3. /\ DOMAIN packetsQueue = 1 .. Len(packetsQueue)
      /\ DOMAIN packetsQueue' = 1 .. Len(packetsQueue')
  BY <1>1
<1>4. Head(packetsQueue) = packetsQueue[1]
  OBVIOUS
<1>5. ASSUME NEW u \in Users
      PROVE  /\ Head(packetsQueue).user = u <=> 1 \in Queued(u)
             /\ Queued(u) \subseteq Nat
  BY <1>2, <1>3, <1>4 DEF Queued
<1>6. ASSUME NEW u \in Users, NEW i \in Nat
      PROVE  i \in Queued(u)' <=> i # 0 /\ i + 1 \in Queued(u)
  <2>1. i \in DOMAIN packetsQueue' <=> i # 0 /\ i + 1 \in DOMAIN packetsQueue
    BY <1>1, <1>2, <1>3
  <2>2. i \in DOMAIN packetsQueue' => packetsQueue'[i] = packetsQueue[i + 1]
    BY <1>1, <1>3
  <2> QED
    BY <2>1, <2>2 DEF Queued
<1> QED
  BY <1>1, <1>5, <1>6

-----------------------------------------------------------------------------
(* Types *)

\* A worker that is neither idle nor killed has a packet.
LEMMA BusyHasPacket ==
    ASSUME TypeOK, NEW w \in Workers, worker[w].pc \notin {"idle", "killed"}
    PROVE  /\ worker[w] \in Busy
           /\ worker[w].packet \in Packets
           /\ worker[w].packet.user \in Users
<1>1. worker[w] \in WorkerType
  BY DEF TypeOK, WorkerType, Busy
<1>2. worker[w] \in Busy
  BY <1>1 DEF WorkerType, Idle, Killed
<1> QED
  BY <1>2 DEF Busy, Packets

\* It keeps it when it goes on.
LEMMA GoesOn ==
    ASSUME TypeOK, NEW w \in Workers, worker[w].pc \notin {"idle", "killed"},
           NEW to \in {"parse", "await", "reply", "failed", "release"},
           worker' = [worker EXCEPT ![w].pc = to]
    PROVE  /\ worker' \in [Workers -> WorkerType]
           /\ worker'[w].pc = to
           /\ \A v \in Workers : worker'[v].packet = worker[v].packet
           /\ \A v \in Workers \ {w} : worker'[v] = worker[v]
<1>1. worker \in [Workers -> WorkerType]
  BY DEF TypeOK, WorkerType, Busy
<1>2. worker[w] \in Busy
  BY BusyHasPacket
<1>3. worker' = [worker EXCEPT ![w] = [worker[w] EXCEPT !.pc = to]]
  OBVIOUS
<1>4. [worker[w] EXCEPT !.pc = to] = [pc |-> to, packet |-> worker[w].packet]
  BY <1>2 DEF Busy
<1>5. [worker[w] EXCEPT !.pc = to] \in Busy
  BY <1>2, <1>4 DEF Busy
<1> QED
  BY <1>1, <1>3, <1>4, <1>5 DEF WorkerType

\* After the signal no thread is left.
LEMMA NothingGoesOn ==
    ASSUME EndProcess
    PROVE  /\ run' = [pc |-> "killed", set |-> {}, user |-> None, socket |-> None]
           /\ run'.pc = "killed" /\ run' \in RunType
           /\ worker' \in [Workers -> WorkerType]
           /\ \A w \in Workers : worker'[w] = Killed
           /\ \A w \in Workers, u \in Users : ~Serves(w, u)'
<1>1. run' = [pc |-> "killed", set |-> {}, user |-> None, socket |-> None]
  BY DEF EndProcess, NextTurn
<1>2. run' \in RunType /\ run'.pc = "killed"
  BY <1>1 DEF RunType
<1>3. worker' = [w \in Workers |-> Killed]
  BY DEF EndProcess
<1>4. worker' \in [Workers -> WorkerType]
  BY <1>3 DEF WorkerType
<1>5. \A w \in Workers, u \in Users : ~Serves(w, u)'
  BY <1>3 DEF Serves, Killed
<1> QED
  BY <1>1, <1>2, <1>3, <1>4, <1>5

\* What a write to a user's socket changes.
LEMMA SendKeepsTypes ==
    ASSUME TypeOK, NEW w \in Workers, worker[w].pc \notin {"idle", "killed"},
           NEW writes, NEW to \in {"await", "release"},
           NEW at \in {"ready", "granted"}, Send(w, writes, at, to)
    PROVE  TypeOK'
<1> DEFINE u == worker[w].packet.user
           s == Lookup({u})[u]
<1>1. u \in Users
  BY BusyHasPacket
<1>2. connectedUsers' \in [Users -> Sockets \cup {None}]
  BY <1>1, LookupInserts DEF Send, TypeOK
<1>3. CASE /\ s \in Conns
           /\ worker' = [worker EXCEPT ![w].pc = to]
           /\ client' = [client EXCEPT ![s] = IF @ \in {"asked", "sent"}
                                                THEN at ELSE @]
           /\ run' = run
  <2>1. worker' \in [Workers -> WorkerType]
    BY <1>3, GoesOn
  <2>2. client' \in [Conns -> {"down", "connected", "loggingIn", "ready",
                               "asked", "granted", "sent", "gone"}]
    BY <1>3 DEF TypeOK
  <2> QED
    BY <1>2, <1>3, <2>1, <2>2 DEF TypeOK, Send, WorkerType, Busy
<1>4. CASE /\ worker' = [worker EXCEPT ![w].pc = "failed"]
           /\ client' = client /\ run' = run
  <2>1. worker' \in [Workers -> WorkerType]
    BY <1>4, GoesOn
  <2> QED
    BY <1>2, <1>4, <2>1 DEF TypeOK, Send, WorkerType, Busy
<1>5. CASE EndProcess /\ client' = client
  <2>1. run' \in RunType /\ run'.pc = "killed" /\ worker' \in [Workers -> WorkerType]
    BY <1>5, NothingGoesOn
  <2> QED
    BY <1>2, <1>5, <2>1 DEF TypeOK, Send, RunType, WorkerType, Busy
<1> QED
  BY <1>3, <1>4, <1>5 DEF Send

LEMMA RunThreadKeepsTypes ==
    ASSUME TypeOK, RunThread
    PROVE  TypeOK'
<1> DEFINE Conn == [Users -> Sockets \cup {None}]
<1>0. /\ connectedUsers \in Conn /\ freeUsers \in Seq(Users)
      /\ Free \subseteq Users /\ run \in RunType
  BY FreeAreUsers DEF TypeOK, RunType
<1>r. run = [pc |-> run.pc, set |-> run.set, user |-> run.user,
             socket |-> run.socket]
  BY <1>0 DEF RunType
<1>s. \A s \in Sockets : s \in Sockets \cup {Listener}
  OBVIOUS
<1>1. CASE BuildSet
  <2>1. /\ connectedUsers' = Lookup(Free)
        /\ connectedUsers' \in Conn
        /\ \A u \in Free : connectedUsers'[u] \in Sockets
    BY <1>0, <1>1, LookupInserts DEF BuildSet
  <2>2. {Listener} \cup {connectedUsers'[u] : u \in Free}
          \in SUBSET (Sockets \cup {Listener})
    BY <2>1
  <2>3. run' = [pc |-> "select",
                set |-> {Listener} \cup {connectedUsers'[u] : u \in Free},
                user |-> run.user, socket |-> run.socket]
    BY <1>1, <1>r DEF BuildSet
  <2>4. run' \in RunType /\ run'.pc = "select"
    BY <1>0, <2>2, <2>3 DEF RunType
  <2> QED
    BY <1>1, <2>1, <2>4 DEF TypeOK, BuildSet, RunType
<1>2. CASE Select
  <2>1. PICK set \in SUBSET (Sockets \cup {Listener}) :
          run' = [pc |-> "scan", set |-> set, user |-> run.user,
                  socket |-> run.socket]
    <3>1. run' = [pc |-> "scan",
                  set |-> IF run.set \cap closed # {} THEN run.set
                            ELSE {s \in run.set : Readable(s)},
                  user |-> run.user, socket |-> run.socket]
      BY <1>2, <1>r DEF Select
    <3> QED
      BY <3>1, <1>0 DEF RunType
  <2>2. run' \in RunType /\ run'.pc = "scan"
    BY <1>0, <2>1 DEF RunType
  <2> QED
    BY <1>2, <2>2 DEF TypeOK, Select, RunType
<1>3. CASE Scan
  <2>1. \/ /\ connectedUsers' = Lookup(Free)
           /\ run' = [run EXCEPT !.pc = "accept", !.user = None]
        \/ \E i \in DOMAIN freeUsers :
             /\ connectedUsers' = Lookup({freeUsers[j] : j \in 1 .. i})
             /\ run' = [run EXCEPT !.pc = "read", !.user = freeUsers[i]]
    BY <1>3 DEF Scan
  <2>2. connectedUsers' \in Conn
    <3>1. ASSUME NEW i \in DOMAIN freeUsers
          PROVE  {freeUsers[j] : j \in 1 .. i} \in SUBSET Users
      BY <1>0
    <3>2. Free \in SUBSET Users
      BY <1>0
    <3>3. \A users \in SUBSET Users : Lookup(users) \in Conn
      BY <1>0, LookupInserts
    <3> QED
      BY <2>1, <3>1, <3>2, <3>3
  <2>3. \/ run' = [pc |-> "accept", set |-> run.set, user |-> None,
                   socket |-> run.socket]
        \/ \E u \in Users : run' = [pc |-> "read", set |-> run.set, user |-> u,
                                    socket |-> run.socket]
    <3>1. \A i \in DOMAIN freeUsers : freeUsers[i] \in Users
      BY <1>0
    <3>2. CASE run' = [run EXCEPT !.pc = "accept", !.user = None]
      BY <3>2, <1>r
    <3>3. ASSUME NEW i \in DOMAIN freeUsers,
                 run' = [run EXCEPT !.pc = "read", !.user = freeUsers[i]]
          PROVE  run' = [pc |-> "read", set |-> run.set, user |-> freeUsers[i],
                         socket |-> run.socket]
      BY <3>3, <1>r
    <3> QED
      BY <2>1, <3>1, <3>2, <3>3
  <2>4. /\ run' \in RunType
        /\ run'.pc \in {"accept", "read"}
        /\ run'.pc = "read" => run'.user \in Users
    BY <1>0, <2>3 DEF RunType
  <2> QED
    BY <1>3, <2>2, <2>4 DEF TypeOK, Scan, RunType
<1>4. CASE ReadPacket
  <2> DEFINE u == run.user
             s == connectedUsers[u]
             packet == [user |-> u, msg |-> Head(inbox[s]), from |-> s]
  <2>1. u \in Users /\ s \in Conns /\ inbox[s] # <<>>
    BY <1>4 DEF ReadPacket, TypeOK, Arrived
  <2>2. inbox[s] \in Seq(Messages)
    BY <2>1 DEF TypeOK, Messages
  <2>3. Head(inbox[s]) \in Messages /\ Tail(inbox[s]) \in Seq(Messages)
    BY <2>1, <2>2, HeadTailProperties
  <2>4. packet \in Packets
    BY <2>1, <2>3 DEF Packets, Messages
  <2>5. packetsQueue' = Append(packetsQueue, packet)
    BY <1>4 DEF ReadPacket
  <2>6. packetsQueue' \in Seq(Packets)
    BY <2>4, <2>5, PacketQueued DEF TypeOK
  <2>7. inbox' \in [Conns -> Seq(Messages)]
    BY <1>4, <2>1, <2>3 DEF ReadPacket, TypeOK, Messages
  <2>8. freeUsers' \in Seq(Users)
    BY <1>0, <1>4, RemoveTakesAll DEF ReadPacket
  <2>9. run' = [pc |-> "accept", set |-> run.set, user |-> None,
                socket |-> run.socket]
    BY <1>4, <1>r DEF ReadPacket
  <2>10. run' \in RunType /\ run'.pc = "accept"
    BY <1>0, <2>9 DEF RunType
  <2> QED
    BY <1>4, <2>6, <2>7, <2>8, <2>10
       DEF TypeOK, ReadPacket, RunType, Messages
<1>5. CASE ReadFails
  <2>1. connectedUsers' \in Conn /\ closed' \subseteq Conns
    BY <1>5 DEF ReadFails, Erase, TypeOK
  <2>2. freeUsers' \in Seq(Users)
    BY <1>0, <1>5, RemoveTakesAll DEF ReadFails
  <2>3. run' = [pc |-> "accept", set |-> run.set, user |-> None,
                socket |-> run.socket]
    BY <1>5, <1>r DEF ReadFails
  <2>4. run' \in RunType /\ run'.pc = "accept"
    BY <1>0, <2>3 DEF RunType
  <2> QED
    BY <1>5, <2>1, <2>2, <2>4 DEF TypeOK, ReadFails, RunType
<1>6. CASE Accept
  <2>1. CASE run' = NextTurn /\ backlog' = backlog
    BY <1>6, <2>1 DEF TypeOK, Accept, NextTurn
  <2>2. CASE /\ backlog # <<>>
             /\ run' = [NextTurn EXCEPT !.pc = "login", !.socket = Head(backlog)]
             /\ backlog' = Tail(backlog)
    <3>1. backlog \in Seq(Conns)
      BY DEF TypeOK
    <3>2. Head(backlog) \in Conns /\ backlog' \in Seq(Conns)
      BY <2>2, <3>1, HeadTailProperties
    <3>3. run' = [pc |-> "login", set |-> {}, user |-> None,
                  socket |-> Head(backlog)]
      BY <2>2 DEF NextTurn
    <3>4. run' \in RunType /\ run'.pc = "login" /\ run'.socket \in Conns
      BY <3>2, <3>3 DEF RunType
    <3> QED
      BY <1>6, <3>2, <3>4 DEF TypeOK, Accept, RunType
  <2> QED
    BY <1>6, <2>1, <2>2 DEF Accept
<1>7. CASE HandleLogin
  <2> DEFINE c == run.socket
  <2>1. c \in Conns /\ Owner[c] \in Users /\ inbox[c] # <<>>
    BY <1>7, PoolAssumption DEF HandleLogin, TypeOK, Arrived
  <2>2. inbox[c] \in Seq(Messages)
    BY <2>1 DEF TypeOK, Messages
  <2>3. Tail(inbox[c]) \in Seq(Messages)
    BY <2>1, <2>2, HeadTailProperties
  <2>4. inbox' \in [Conns -> Seq(Messages)]
    BY <1>7, <2>3 DEF HandleLogin, TypeOK, Messages
  <2>5. /\ client' \in [Conns -> {"down", "connected", "loggingIn", "ready",
                                 "asked", "granted", "sent", "gone"}]
        /\ closed' \subseteq Conns /\ overlapped' \subseteq Users
    BY <1>7, <2>1 DEF HandleLogin, TypeOK
  <2>6. \/ run' = [pc |-> "insert", set |-> run.set, user |-> Owner[c],
                   socket |-> c]
        \/ run' = [pc |-> "build", set |-> {}, user |-> None, socket |-> None]
        \/ run' = [pc |-> "killed", set |-> {}, user |-> None, socket |-> None]
    BY <1>7, <1>r, NothingGoesOn DEF HandleLogin, NextTurn
  <2>7. /\ run' \in RunType
        /\ run'.pc \in {"insert", "build", "killed"}
        /\ run'.pc = "insert" => run'.user \in Users /\ run'.socket \in Conns
    BY <1>0, <2>1, <2>6 DEF RunType
  <2>8. worker' \in [Workers -> WorkerType]
    BY <1>7, NothingGoesOn DEF HandleLogin, TypeOK, WorkerType, Busy
  <2> QED
    BY <1>7, <2>4, <2>5, <2>7, <2>8
       DEF TypeOK, HandleLogin, RunType, WorkerType, Busy, Messages
<1>8. CASE HandleLoginFails
  BY <1>8 DEF TypeOK, HandleLoginFails, NextTurn
<1>9. CASE InsertUser
  <2>1. run.user \in Users /\ run.socket \in Conns
    BY <1>9 DEF InsertUser, TypeOK
  <2>2. connectedUsers' \in Conn /\ closed' \subseteq Conns
    BY <1>9, <2>1 DEF InsertUser, TypeOK, Sockets
  <2>3. run' = [pc |-> "push", set |-> run.set, user |-> run.user,
                socket |-> run.socket]
    BY <1>9, <1>r DEF InsertUser
  <2>4. /\ run' \in RunType
        /\ run'.pc = "push" /\ run'.user \in Users /\ run'.socket \in Conns
    BY <1>0, <2>1, <2>3 DEF RunType
  <2> QED
    BY <1>9, <2>2, <2>4 DEF TypeOK, InsertUser, RunType
<1>10. CASE PushUser
  <2>1. run.user \in Users
    BY <1>10 DEF PushUser, TypeOK
  <2>2. freeUsers' \in Seq(Users)
    BY <1>0, <1>10, <2>1, PushAdds DEF PushUser
  <2> QED
    BY <1>10, <2>2 DEF TypeOK, PushUser, NextTurn
<1> QED
  BY <1>1, <1>2, <1>3, <1>4, <1>5, <1>6, <1>7, <1>8, <1>9, <1>10 DEF RunThread

LEMMA PoolThreadKeepsTypes ==
    ASSUME TypeOK, NEW w \in Workers, PoolThread(w)
    PROVE  TypeOK'
<1> DEFINE Conn == [Users -> Sockets \cup {None}]
<1>0. /\ connectedUsers \in Conn /\ freeUsers \in Seq(Users)
      /\ packetsQueue \in Seq(Packets) /\ worker \in [Workers -> WorkerType]
  BY DEF TypeOK, WorkerType, Busy
<1>1. CASE Dequeue(w)
  <2>1. packetsQueue' \in Seq(Packets) /\ Head(packetsQueue) \in Packets
    BY <1>0, <1>1, PacketTaken DEF Dequeue
  <2>2. [pc |-> "parse", packet |-> Head(packetsQueue)] \in Busy
    BY <2>1 DEF Busy
  <2>3. worker' \in [Workers -> WorkerType]
    BY <1>0, <1>1, <2>2 DEF Dequeue, WorkerType
  <2> QED
    BY <1>1, <2>1, <2>3 DEF TypeOK, Dequeue, WorkerType, Busy
<1>2. CASE ParsePacket(w)
  <2>1. worker[w].pc = "parse"
    BY <1>2 DEF ParsePacket
  <2>2. CASE Send(w, 1, "ready", "release") \/ Send(w, 2, "granted", "await")
    BY <2>1, <2>2, SendKeepsTypes
  <2>3. CASE /\ worker' = [worker EXCEPT ![w].pc = "release"]
             /\ UNCHANGED <<connectedUsers, freeUsers, packetsQueue, run,
                            backlog, inbox, late, client, closed, overlapped>>
    <3>1. worker' \in [Workers -> WorkerType]
      BY <2>1, <2>3, GoesOn
    <3> QED
      BY <2>3, <3>1 DEF TypeOK, WorkerType, Busy
  <2> QED
    BY <1>2, <2>2, <2>3 DEF ParsePacket
<1>3. CASE AwaitData(w)
  <2> DEFINE s == connectedUsers[worker[w].packet.user]
  <2>1. /\ s \in Conns /\ inbox[s] # <<>>
        /\ worker[w].pc = "await"
        /\ worker' = [worker EXCEPT ![w].pc = "reply"]
    BY <1>3 DEF AwaitData, Arrived
  <2>2. inbox[s] \in Seq(Messages)
    BY <2>1 DEF TypeOK, Messages
  <2>3. Tail(inbox[s]) \in Seq(Messages)
    BY <2>1, <2>2, HeadTailProperties
  <2>4. inbox' \in [Conns -> Seq(Messages)]
    BY <1>3, <2>3 DEF AwaitData, TypeOK, Messages
  <2>5. worker' \in [Workers -> WorkerType]
    BY <2>1, GoesOn
  <2> QED
    BY <1>3, <2>4, <2>5 DEF TypeOK, AwaitData, WorkerType, Busy, Messages
<1>4. CASE AwaitDataFails(w)
  <2>1. /\ worker[w].pc = "await"
        /\ worker' = [worker EXCEPT ![w].pc = "failed"]
        /\ connectedUsers' = Lookup({worker[w].packet.user})
    BY <1>4 DEF AwaitDataFails
  <2>2. worker' \in [Workers -> WorkerType]
    BY <2>1, GoesOn
  <2>3. worker[w].packet.user \in Users
    BY <2>1, BusyHasPacket
  <2>4. connectedUsers' \in Conn
    BY <1>0, <2>1, <2>3, LookupInserts
  <2> QED
    BY <1>4, <2>2, <2>4 DEF TypeOK, AwaitDataFails, WorkerType, Busy
<1>5. CASE SendReply(w)
  BY <1>5, SendKeepsTypes DEF SendReply
<1>6. CASE EraseUser(w)
  <2>1. /\ worker[w].pc = "failed"
        /\ worker' = [worker EXCEPT ![w].pc = "release"]
    BY <1>6 DEF EraseUser
  <2>2. worker' \in [Workers -> WorkerType]
    BY <2>1, GoesOn
  <2>3. connectedUsers' \in Conn /\ closed' \subseteq Conns
    BY <1>6 DEF EraseUser, Erase, TypeOK
  <2> QED
    BY <1>6, <2>2, <2>3 DEF TypeOK, EraseUser, WorkerType, Busy
<1>7. CASE Release(w)
  <2>1. worker[w].packet.user \in Users
    BY <1>7, BusyHasPacket DEF Release
  <2>2. freeUsers' \in Seq(Users)
    BY <1>0, <1>7, <2>1, PushAdds DEF Release
  <2>3. worker' \in [Workers -> WorkerType]
    BY <1>0, <1>7 DEF Release, WorkerType
  <2> QED
    BY <1>7, <2>2, <2>3 DEF TypeOK, Release, WorkerType, Busy
<1> QED
  BY <1>1, <1>2, <1>3, <1>4, <1>5, <1>6, <1>7 DEF PoolThread

Client(c) == Talk(c) \/ Connect(c) \/ SendRequest(c) \/ HangUp(c)

LEMMA ClientKeepsTypes ==
    ASSUME TypeOK, NEW c \in Conns, Client(c)
    PROVE  TypeOK'
<1>1. client' \in [Conns -> {"down", "connected", "loggingIn", "ready",
                             "asked", "granted", "sent", "gone"}]
  BY DEF Client, Talk, SendLogin, SendData, Deliver, Connect, SendRequest,
         HangUp, ClientGoes, TypeOK
<1>2. backlog' \in Seq(Conns)
  <2>1. backlog' = backlog \/ backlog' = Append(backlog, c)
    BY DEF Client, Talk, SendLogin, SendData, Deliver, Connect, SendRequest,
           HangUp, Emit
  <2>2. backlog \in Seq(Conns)
    BY DEF TypeOK
  <2> QED
    BY <2>1, <2>2, AppendProperties
<1>3. inbox' \in [Conns -> Seq(Messages)]
  <2>1. \/ inbox' = inbox
        \/ \E msg \in Messages :
             inbox' = [inbox EXCEPT ![c] = Append(inbox[c], msg)]
    BY DEF Client, Talk, SendLogin, SendData, Deliver, Connect, SendRequest,
           HangUp, Emit, Messages
  <2>2. inbox \in [Conns -> Seq(Messages)]
    BY DEF TypeOK, Messages
  <2>3. \A msg \in Messages : Append(inbox[c], msg) \in Seq(Messages)
    BY <2>2, AppendProperties
  <2> QED
    BY <2>1, <2>2, <2>3
<1>4. late' \subseteq Conns
  BY DEF Client, Talk, SendLogin, SendData, Deliver, Connect, SendRequest,
         HangUp, Emit, TypeOK
<1>5. UNCHANGED <<connectedUsers, freeUsers, packetsQueue, run, worker, closed,
                  overlapped>>
  BY DEF Client, Talk, SendLogin, SendData, Deliver, Connect, SendRequest,
         HangUp, ClientGoes
<1> QED
  BY <1>1, <1>2, <1>3, <1>4, <1>5 DEF TypeOK, Messages

LEMMA InitIsTyped == Init => TypeOK
<1> SUFFICES ASSUME Init PROVE TypeOK
  OBVIOUS
<1>1. run \in RunType /\ run.pc = "build"
  BY DEF Init, NextTurn, RunType
<1>2. worker \in [Workers -> WorkerType]
  BY DEF Init, WorkerType
<1>3. inbox \in [Conns -> Seq(Messages)]
  BY EmptySeq DEF Init
<1>4. <<>> \in Seq(Users) /\ <<>> \in Seq(Packets) /\ <<>> \in Seq(Conns)
  BY EmptySeq
<1> QED
  BY <1>1, <1>2, <1>3, <1>4
     DEF Init, TypeOK, RunType, WorkerType, Busy, Messages

\* The server's containers hold what they are declared for; the places of
\* run() and of a worker go with a user, a socket, a packet.
THEOREM TypeCorrect == Spec => []TypeOK
<1>1. TypeOK /\ [Next]_vars => TypeOK'
  <2> SUFFICES ASSUME TypeOK, [Next]_vars PROVE TypeOK'
    OBVIOUS
  <2>1. CASE UNCHANGED vars
    BY <2>1 DEF TypeOK, vars
  <2> QED
    BY <2>1, RunThreadKeepsTypes, PoolThreadKeepsTypes, ClientKeepsTypes
       DEF Next, Client
<1> QED
  BY <1>1, InitIsTyped, PTL DEF Spec

-----------------------------------------------------------------------------
(* One owner per user *)

\* A user who did not log in over a failed worker is with one of run()'s list,
\* the queue and a worker, and with none of them while run() logs him in; he is
\* connected while a packet of his is queued.
Sole(u) ==
    /\ u \in Free => Queued(u) = {} /\ \A w \in Workers : ~Serves(w, u)
    /\ Queued(u) # {} => \A w \in Workers : ~Serves(w, u)
    /\ Queued(u) # {} => connectedUsers[u] # None
    /\ \A i, j \in Queued(u) : i = j
    /\ \A v, w \in Workers : Serves(v, u) /\ Serves(w, u) => v = w
    /\ run.pc \in {"insert", "push"} /\ run.user = u =>
         Queued(u) = {} /\ \A w \in Workers : ~Serves(w, u)

OneOwner == \A u \in Users \ overlapped : Sole(u)

\* run() reads from a user it has just found in the list.
ReadsAFreeUser == run.pc = "read" => run.user \in Free

OneOwnerInv == TypeOK /\ OneOwner /\ ReadsAFreeUser

\* Steps that move no user from one owner to another.
LEMMA NobodyMoves ==
    ASSUME OneOwner, ReadsAFreeUser,
           UNCHANGED <<freeUsers, packetsQueue>>,
           overlapped \subseteq overlapped',
           \A u \in Users \ overlapped' :
             Queued(u) # {} /\ connectedUsers[u] # None => connectedUsers'[u] # None,
           \A w \in Workers, u \in Users \ overlapped' : Serves(w, u)' => Serves(w, u),
           \A u \in Users \ overlapped' :
             run'.pc \in {"insert", "push"} /\ run'.user = u =>
               \/ run.pc \in {"insert", "push"} /\ run.user = u
               \/ Queued(u) = {} /\ \A w \in Workers : ~Serves(w, u),
           run'.pc = "read" => run'.user \in Free
    PROVE  OneOwner' /\ ReadsAFreeUser'
<1>1. Free' = Free /\ \A u \in Users : Queued(u)' = Queued(u)
  BY DEF Free, Queued
<1>2. ASSUME NEW u \in Users \ overlapped'
      PROVE  Sole(u)'
  <2>1. Sole(u)
    BY DEF OneOwner
  <2> QED
    BY <1>1, <2>1 DEF Sole
<1> QED
  BY <1>1, <1>2 DEF OneOwner, ReadsAFreeUser

\* Steps of run() between two loops, of the clients, and none at all.
LEMMA RunKeepsOneOwner ==
    ASSUME OneOwnerInv,
           \/ BuildSet \/ Select \/ Scan \/ Accept \/ HandleLogin
           \/ HandleLoginFails \/ InsertUser
           \/ (\E c \in Conns : Client(c)) \/ UNCHANGED vars
    PROVE  OneOwner' /\ ReadsAFreeUser'
<1>0. /\ TypeOK /\ OneOwner /\ ReadsAFreeUser
      /\ connectedUsers \in [Users -> Sockets \cup {None}]
      /\ freeUsers \in Seq(Users) /\ Free \subseteq Users
      /\ run \in RunType
  BY FreeAreUsers DEF OneOwnerInv, TypeOK, RunType
<1>r. run = [pc |-> run.pc, set |-> run.set, user |-> run.user,
             socket |-> run.socket]
  BY <1>0 DEF RunType
<1>l. \A users \in SUBSET Users, u \in Users :
        connectedUsers[u] # None => Lookup(users)[u] # None
  BY <1>0, LookupInserts
<1>n. None \notin Conns
  BY PoolAssumption
<1> DEFINE Stays == UNCHANGED <<freeUsers, packetsQueue, worker>>
<1>w. ASSUME Stays, NEW w \in Workers, NEW u
      PROVE  Serves(w, u)' <=> Serves(w, u)
  BY <1>w DEF Serves
<1>1. CASE BuildSet
  <2>1. Stays /\ overlapped' = overlapped /\ connectedUsers' = Lookup(Free)
    BY <1>1 DEF BuildSet
  <2>2. run'.pc = "select"
    BY <1>1, <1>r DEF BuildSet
  <2>3. \A u \in Users : connectedUsers[u] # None => connectedUsers'[u] # None
    BY <2>1, <1>0, <1>l
  <2> QED
    BY <1>0, <1>w, <2>1, <2>2, <2>3, NobodyMoves
<1>2. CASE Select
  <2>1. Stays /\ UNCHANGED <<overlapped, connectedUsers>>
    BY <1>2 DEF Select
  <2>2. run'.pc = "scan"
    BY <1>2, <1>r DEF Select
  <2> QED
    BY <1>0, <1>w, <2>1, <2>2, NobodyMoves
<1>3. CASE Scan
  <2>1. Stays /\ overlapped' = overlapped
    BY <1>3 DEF Scan
  <2>2. \E users \in SUBSET Users : connectedUsers' = Lookup(users)
    <3>1. \A i \in DOMAIN freeUsers :
            {freeUsers[j] : j \in 1 .. i} \in SUBSET Users
      BY <1>0
    <3> QED
      BY <1>3, <1>0, <3>1 DEF Scan
  <2>3. \A u \in Users : connectedUsers[u] # None => connectedUsers'[u] # None
    BY <2>2, <1>l
  <2>4. \/ run'.pc = "accept"
        \/ run'.pc = "read" /\ run'.user \in Free
    BY <1>3, <1>r DEF Scan, Free
  <2> QED
    BY <1>0, <1>w, <2>1, <2>3, <2>4, NobodyMoves
<1>4. CASE Accept
  <2>1. Stays /\ UNCHANGED <<overlapped, connectedUsers>>
    BY <1>4 DEF Accept
  <2>2. \/ run' = NextTurn
        \/ run' = [NextTurn EXCEPT !.pc = "login", !.socket = Head(backlog)]
    BY <1>4 DEF Accept
  <2>3. run'.pc \in {"login", "build"}
    <3>1. CASE run' = NextTurn
      BY <3>1 DEF NextTurn
    <3>2. CASE run' = [NextTurn EXCEPT !.pc = "login", !.socket = Head(backlog)]
      BY <3>2 DEF NextTurn
    <3> QED
      BY <2>2, <3>1, <3>2
  <2> QED
    BY <1>0, <1>w, <2>1, <2>3, NobodyMoves
<1>5. CASE HandleLogin
  <2> DEFINE u == Owner[run.socket]
  <2>1. /\ UNCHANGED <<freeUsers, packetsQueue, connectedUsers>>
        /\ overlapped \subseteq overlapped'
    BY <1>5 DEF HandleLogin
  <2>2. u \in Users
    BY <1>5, <1>0, PoolAssumption DEF HandleLogin, TypeOK
  <2>3. CASE run' = NextTurn /\ worker' = worker
    <3>1. run'.pc = "build"
      BY <2>3 DEF NextTurn
    <3> QED
      BY <1>0, <1>w, <2>1, <2>3, <3>1, NobodyMoves
  <2>4. CASE /\ ~AlreadyLogged(u)
             /\ worker' = worker
             /\ run' = [run EXCEPT !.pc = "insert", !.user = u]
             /\ overlapped' = IF \E w \in Workers : Serves(w, u)
                                THEN overlapped \cup {u} ELSE overlapped
    <3>1. run'.pc = "insert" /\ run'.user = u
      BY <2>4, <1>r
    <3>2. u \notin overlapped' =>
            Queued(u) = {} /\ \A w \in Workers : ~Serves(w, u)
      BY <2>1, <2>2, <2>4, <1>0 DEF AlreadyLogged, OneOwner, Sole
    <3> QED
      BY <1>0, <1>w, <2>1, <2>4, <3>1, <3>2, NobodyMoves
  <2>5. CASE EndProcess
    <3>1. run'.pc = "killed" /\ \A w \in Workers, v \in Users : ~Serves(w, v)'
      BY <2>5, NothingGoesOn
    <3> QED
      BY <1>0, <2>1, <3>1, NobodyMoves
  <2> QED
    BY <1>5, <2>3, <2>4, <2>5 DEF HandleLogin
<1>6. CASE HandleLoginFails
  <2>1. Stays /\ UNCHANGED <<overlapped, connectedUsers>>
    BY <1>6 DEF HandleLoginFails
  <2>2. run'.pc = "build"
    BY <1>6 DEF HandleLoginFails, NextTurn
  <2> QED
    BY <1>0, <1>w, <2>1, <2>2, NobodyMoves
<1>7. CASE InsertUser
  <2>1. Stays /\ UNCHANGED overlapped
    BY <1>7 DEF InsertUser
  <2>2. run.pc = "insert" /\ run'.pc = "push" /\ run'.user = run.user
    BY <1>7, <1>r DEF InsertUser
  <2>3. run.socket \in Conns
    BY <1>0, <2>2 DEF TypeOK
  <2>4. \A u \in Users : connectedUsers[u] # None => connectedUsers'[u] # None
    BY <1>7, <1>0, <1>n, <2>3 DEF InsertUser
  <2> QED
    BY <1>0, <1>w, <2>1, <2>2, <2>4, NobodyMoves
<1>8. CASE (\E c \in Conns : Client(c)) \/ UNCHANGED vars
  <2>1. Stays /\ UNCHANGED <<overlapped, connectedUsers, run>>
    BY <1>8 DEF Client, Talk, SendLogin, SendData, Deliver, Connect,
                SendRequest, HangUp, ClientGoes, vars
  <2> QED
    BY <1>0, <1>w, <2>1, NobodyMoves DEF ReadsAFreeUser
<1> QED
  BY <1>1, <1>2, <1>3, <1>4, <1>5, <1>6, <1>7, <1>8

\* Steps in which run() takes a user out of its list, or puts one in.
LEMMA ListKeepsOneOwner ==
    ASSUME OneOwnerInv, ReadPacket \/ ReadFails \/ PushUser
    PROVE  OneOwner' /\ ReadsAFreeUser'
<1> DEFINE u == run.user
<1>0. /\ TypeOK /\ OneOwner
      /\ freeUsers \in Seq(Users) /\ packetsQueue \in Seq(Packets)
      /\ run = [pc |-> run.pc, set |-> run.set, user |-> u,
                socket |-> run.socket]
  BY DEF OneOwnerInv, TypeOK, RunType
<1>1. u \in Users /\ UNCHANGED <<worker, overlapped>>
  BY <1>0 DEF TypeOK, ReadPacket, ReadFails, PushUser
<1>2. \A w \in Workers, v \in Users : Serves(w, v)' <=> Serves(w, v)
  BY <1>1 DEF Serves
<1>3. run'.pc \notin {"read", "insert", "push"}
  <2>1. \/ run' = [run EXCEPT !.pc = "accept", !.user = None]
        \/ run' = NextTurn
    BY DEF ReadPacket, ReadFails, PushUser
  <2>2. CASE run' = [run EXCEPT !.pc = "accept", !.user = None]
    BY <1>0, <2>2
  <2>3. CASE run' = NextTurn
    BY <2>3 DEF NextTurn
  <2> QED
    BY <2>1, <2>2, <2>3
<1>4. ReadsAFreeUser'
  BY <1>3 DEF ReadsAFreeUser
<1>5. ASSUME NEW v \in Users \ overlapped'
      PROVE  Sole(v)'
  <2>1. Sole(v)
    BY <1>0, <1>1 DEF OneOwner
  <2>2. CASE ReadPacket
    <3> DEFINE s == connectedUsers[u]
               packet == [user |-> u, msg |-> Head(inbox[s]), from |-> s]
    <3>1. s \in Conns /\ inbox[s] # <<>> /\ u \in Free
      BY <2>2 DEF ReadPacket, Arrived, OneOwnerInv, ReadsAFreeUser
    <3>2. inbox[s] \in Seq(Messages)
      BY <1>0, <3>1 DEF TypeOK, Messages
    <3>3. Head(inbox[s]) \in Messages
      BY <3>1, <3>2, HeadTailProperties
    <3>4. packet \in Packets /\ packet.user = u
      BY <1>1, <3>1, <3>3 DEF Packets, Messages
    <3>5. packetsQueue' = Append(packetsQueue, packet)
      BY <2>2 DEF ReadPacket
    <3>6. Queued(v)' = IF u = v THEN Queued(v) \cup {Len(packetsQueue) + 1}
                                ELSE Queued(v)
      BY <1>0, <3>4, <3>5, PacketQueued
    <3>7. Free' = Free \ {u} /\ connectedUsers' = connectedUsers
      BY <1>0, <2>2, RemoveTakesAll DEF ReadPacket
    <3>8. s # None
      BY <3>1, PoolAssumption
    <3> QED
      BY <1>2, <1>3, <2>1, <3>1, <3>6, <3>7, <3>8 DEF Sole
  <2>3. CASE ReadFails
    <3>1. Free' = Free \ {u} /\ Queued(v)' = Queued(v) /\ u \in Free
      BY <1>0, <2>3, RemoveTakesAll
         DEF ReadFails, Queued, OneOwnerInv, ReadsAFreeUser
    <3>2. v # u => connectedUsers'[v] = connectedUsers[v]
      BY <2>3, <1>0 DEF ReadFails, Erase, TypeOK
    <3> QED
      BY <1>2, <1>3, <2>1, <3>1, <3>2 DEF Sole
  <2>4. CASE PushUser
    <3>1. Free' = Free \cup {u} /\ Queued(v)' = Queued(v) /\ run.pc = "push"
      BY <1>0, <1>1, <2>4, PushAdds DEF PushUser, Queued
    <3>2. connectedUsers' = connectedUsers
      BY <2>4 DEF PushUser
    <3> QED
      BY <1>2, <1>3, <2>1, <3>1, <3>2 DEF Sole
  <2> QED
    BY <2>2, <2>3, <2>4
<1> QED
  BY <1>4, <1>5 DEF OneOwner

\* A worker that has a packet and keeps it serves its user, unless the process
\* is killed, and looks him up, erases him or leaves connectedUsers alone.
LEMMA ServesOn ==
    ASSUME TypeOK, NEW w \in Workers,
           \/ ParsePacket(w) \/ AwaitData(w) \/ AwaitDataFails(w)
           \/ SendReply(w) \/ EraseUser(w),
           NEW u, u = worker[w].packet.user
    PROVE  /\ u \in Users /\ Serves(w, u)
           /\ UNCHANGED <<freeUsers, packetsQueue, overlapped>>
           /\ \/ run' = run /\ \A v \in Workers : worker'[v].packet = worker[v].packet
              \/ run'.pc = "killed" /\ \A v \in Workers : worker'[v] = Killed
           /\ \/ connectedUsers' = connectedUsers
              \/ connectedUsers' = Lookup({u})
              \/ connectedUsers' = [connectedUsers EXCEPT ![u] = None]
<1>1. worker[w].pc \notin {"idle", "killed"}
  BY DEF ParsePacket, AwaitData, AwaitDataFails, SendReply, EraseUser
<1>2. u \in Users /\ worker[w].packet \in Packets
  BY <1>1, BusyHasPacket
<1>3. Serves(w, u)
  BY <1>2, PoolAssumption DEF Serves
<1>4. UNCHANGED <<freeUsers, packetsQueue, overlapped>>
  BY DEF ParsePacket, AwaitData, AwaitDataFails, SendReply, EraseUser, Send,
         Erase
<1>5. ASSUME NEW to \in {"await", "reply", "failed", "release"},
             worker' = [worker EXCEPT ![w].pc = to]
      PROVE  \A v \in Workers : worker'[v].packet = worker[v].packet
  BY <1>1, <1>5, GoesOn
<1>6. EndProcess => run'.pc = "killed" /\ \A v \in Workers : worker'[v] = Killed
  BY NothingGoesOn
<1>7. \/ /\ run' = run
         /\ \E to \in {"await", "reply", "failed", "release"} :
              worker' = [worker EXCEPT ![w].pc = to]
      \/ EndProcess
  BY DEF ParsePacket, AwaitData, AwaitDataFails, SendReply, EraseUser, Send
<1>8. \/ connectedUsers' = connectedUsers
      \/ connectedUsers' = Lookup({u})
      \/ connectedUsers' = [connectedUsers EXCEPT ![u] = None]
  BY DEF ParsePacket, AwaitData, AwaitDataFails, SendReply, EraseUser, Send,
         Erase
<1> QED
  BY <1>2, <1>3, <1>4, <1>5, <1>6, <1>7, <1>8

LEMMA ServingKeepsOneOwner ==
    ASSUME OneOwnerInv, NEW w \in Workers,
           \/ ParsePacket(w) \/ AwaitData(w) \/ AwaitDataFails(w)
           \/ SendReply(w) \/ EraseUser(w)
    PROVE  OneOwner' /\ ReadsAFreeUser'
<1> DEFINE u == worker[w].packet.user
<1>0. /\ TypeOK /\ OneOwner /\ ReadsAFreeUser
      /\ connectedUsers \in [Users -> Sockets \cup {None}]
  BY DEF OneOwnerInv, TypeOK
<1>1. /\ u \in Users /\ Serves(w, u)
      /\ UNCHANGED <<freeUsers, packetsQueue, overlapped>>
      /\ \/ run' = run /\ \A v \in Workers : worker'[v].packet = worker[v].packet
         \/ run'.pc = "killed" /\ \A v \in Workers : worker'[v] = Killed
      /\ \/ connectedUsers' = connectedUsers
         \/ connectedUsers' = Lookup({u})
         \/ connectedUsers' = [connectedUsers EXCEPT ![u] = None]
  BY <1>0, ServesOn
<1>2. ASSUME NEW v \in Workers, NEW x \in Users, Serves(v, x)'
      PROVE  Serves(v, x)
  BY <1>1, <1>2 DEF Serves, Killed
<1>3. ASSUME NEW x \in Users \ overlapped', Queued(x) # {},
             connectedUsers[x] # None
      PROVE  connectedUsers'[x] # None
  <2>1. x # u
    BY <1>0, <1>1, <1>3 DEF OneOwner, Sole
  <2>2. CASE connectedUsers' = Lookup({u})
    BY <1>0, <1>1, <1>3, <2>2, LookupInserts
  <2>3. CASE connectedUsers' = connectedUsers
    BY <1>3, <2>3
  <2>4. CASE connectedUsers' = [connectedUsers EXCEPT ![u] = None]
    BY <1>0, <1>3, <2>1, <2>4
  <2> QED
    BY <1>1, <2>2, <2>3, <2>4
<1> QED
  BY <1>0, <1>1, <1>2, <1>3, NobodyMoves DEF ReadsAFreeUser

\* A worker takes a packet over from the queue, or gives its user back.
LEMMA HandoverKeepsOneOwner ==
    ASSUME OneOwnerInv, NEW w \in Workers, Dequeue(w) \/ Release(w)
    PROVE  OneOwner' /\ ReadsAFreeUser'
<1>0. /\ TypeOK /\ OneOwner /\ ReadsAFreeUser
      /\ freeUsers \in Seq(Users) /\ packetsQueue \in Seq(Packets)
      /\ worker \in [Workers -> WorkerType]
  BY DEF OneOwnerInv, TypeOK, WorkerType, Busy
<1>1. UNCHANGED <<connectedUsers, run, overlapped>>
  BY DEF Dequeue, Release
<1>2. \A v \in Workers \ {w}, x \in Users : Serves(v, x)' <=> Serves(v, x)
  BY <1>0 DEF Dequeue, Release, Serves
<1>3. CASE Dequeue(w)
  <2> DEFINE packet == Head(packetsQueue)
  <2>1. worker'[w].packet = packet /\ packetsQueue # <<>> /\ Free' = Free
    BY <1>0, <1>3 DEF Dequeue, Free
  <2>2. /\ packet \in Packets
        /\ \A x \in Users :
             /\ packet.user = x <=> 1 \in Queued(x)
             /\ Queued(x) \subseteq Nat
             /\ \A i \in Nat : i \in Queued(x)' <=> i # 0 /\ i + 1 \in Queued(x)
        /\ packetsQueue' \in Seq(Packets)
    BY <1>0, <1>3, <2>1, PacketTaken DEF Dequeue
  <2>3. \A x \in Users : Queued(x)' \subseteq Nat
    BY <2>2 DEF Queued
  <2>4. \A x \in Users : Serves(w, x)' <=> packet.user = x
    BY <2>1, <2>2, PoolAssumption DEF Serves
  <2>5. ASSUME NEW x \in Users \ overlapped'
        PROVE  Sole(x)'
    <3>1. Sole(x)
      BY <1>0, <1>1 DEF OneOwner
    <3>2. CASE packet.user = x
      <4>1. Queued(x) = {1}
        BY <2>2, <3>1, <3>2 DEF Sole
      <4>2. Queued(x)' = {}
        BY <2>2, <2>3, <4>1
      <4>3. x \notin Free'
        BY <2>1, <3>1, <4>1 DEF Sole
      <4>4. \A v \in Workers : Serves(v, x)' => v = w
        BY <1>2, <3>1, <4>1 DEF Sole
      <4>5. ~(run.pc \in {"insert", "push"} /\ run.user = x)
        BY <3>1, <4>1 DEF Sole
      <4> QED
        BY <1>1, <4>2, <4>3, <4>4, <4>5 DEF Sole
    <3>3. CASE packet.user # x
      <4>1. \A v \in Workers : Serves(v, x)' => Serves(v, x)
        BY <1>2, <2>4, <3>3
      <4>2. \A i \in Queued(x)' : i \in Nat /\ i + 1 \in Queued(x)
        BY <2>2, <2>3
      <4>3. \A i, j \in Queued(x)' : i = j
        <5> SUFFICES ASSUME NEW i \in Queued(x)', NEW j \in Queued(x)'
                     PROVE  i = j
          OBVIOUS
        <5>1. i \in Nat /\ j \in Nat /\ i + 1 = j + 1
          BY <4>2, <3>1 DEF Sole
        <5> QED
          BY <5>1
      <4>4. Queued(x)' # {} => Queued(x) # {}
        BY <4>2
      <4> QED
        BY <1>1, <2>1, <3>1, <4>1, <4>3, <4>4 DEF Sole
    <3> QED
      BY <3>2, <3>3
  <2> QED
    BY <1>0, <1>1, <2>1, <2>5 DEF OneOwner, ReadsAFreeUser
<1>4. CASE Release(w)
  <2> DEFINE u == worker[w].packet.user
  <2>1. u \in Users /\ worker[w].packet \in Packets
    BY <1>0, <1>4, BusyHasPacket DEF Release
  <2>2. Serves(w, u)
    BY <2>1, PoolAssumption DEF Serves
  <2>3. Free' = Free \cup {u} /\ \A x \in Users : Queued(x)' = Queued(x)
    BY <1>0, <1>4, <2>1, PushAdds DEF Release, Queued
  <2>4. \A x \in Users : ~Serves(w, x)'
    BY <1>0, <1>4 DEF Release, Serves, Idle
  <2>5. ASSUME NEW x \in Users \ overlapped'
        PROVE  Sole(x)'
    <3>1. Sole(x)
      BY <1>0, <1>1 DEF OneOwner
    <3>2. \A v \in Workers : Serves(v, x)' => Serves(v, x) /\ v # w
      BY <1>2, <2>4
    <3>3. x = u => \A v \in Workers : ~Serves(v, x)'
      BY <2>2, <3>1, <3>2 DEF Sole
    <3> QED
      BY <1>1, <2>2, <2>3, <3>1, <3>2, <3>3 DEF Sole
  <2> QED
    BY <1>0, <1>1, <2>3, <2>5 DEF OneOwner, ReadsAFreeUser
<1> QED
  BY <1>3, <1>4

\* The strengthened invariant, which ServedByOne follows from.
THEOREM OneOwnerHolds == Spec => []OneOwnerInv
<1>1. Init => OneOwnerInv
  <2> SUFFICES ASSUME Init PROVE OneOwnerInv
    OBVIOUS
  <2>1. Free = {} /\ \A u \in Users : Queued(u) = {}
    BY DEF Init, Free, Queued
  <2>2. \A w \in Workers, u \in Users : ~Serves(w, u)
    BY DEF Init, Serves, Idle
  <2>3. run.pc = "build"
    BY DEF Init, NextTurn
  <2> QED
    BY <2>1, <2>2, <2>3, InitIsTyped
       DEF OneOwnerInv, OneOwner, Sole, ReadsAFreeUser
<1>2. TypeOK /\ TypeOK' /\ OneOwnerInv /\ [Next]_vars => OneOwnerInv'
  <2> SUFFICES ASSUME TypeOK', OneOwnerInv, [Next]_vars
               PROVE  OneOwner' /\ ReadsAFreeUser'
    BY DEF OneOwnerInv
  <2>1. CASE RunThread
    BY <2>1, RunKeepsOneOwner, ListKeepsOneOwner DEF RunThread
  <2>2. CASE \E w \in Workers : PoolThread(w)
    BY <2>2, ServingKeepsOneOwner, HandoverKeepsOneOwner DEF PoolThread
  <2>3. CASE (\E c \in Conns : Client(c)) \/ UNCHANGED vars
    BY <2>3, RunKeepsOneOwner
  <2> QED
    BY <2>1, <2>2, <2>3 DEF Next, Client
<1> QED
  BY <1>1, <1>2, TypeCorrect, PTL DEF Spec

\* No user is with two of the list, the queue and the workers, unless he
\* logged in again before a worker that failed on his last connection had
\* released him (Server.cpp:28-31, 58, 88).
THEOREM EachServedByOne == Spec => []ServedByOne
<1>1. OneOwnerInv => ServedByOne
  BY DEF OneOwnerInv, OneOwner, Sole, ServedByOne
<1> QED
  BY <1>1, OneOwnerHolds, PTL

-----------------------------------------------------------------------------
(* Nobody is forgotten *)

Kept(u) ==
    \/ u \in Free
    \/ Queued(u) # {}
    \/ \E w \in Workers : Serves(w, u)
    \/ run.pc = "push" /\ run.user = u

\* Who is looked up and inserted is in the list.
LEMMA RunForgetsNobody ==
    ASSUME TypeOK, NoUserForgotten, RunThread
    PROVE  NoUserForgotten'
<1>0. /\ connectedUsers \in [Users -> Sockets \cup {None}]
      /\ freeUsers \in Seq(Users) /\ Free \subseteq Users
      /\ packetsQueue \in Seq(Packets)
      /\ run = [pc |-> run.pc, set |-> run.set, user |-> run.user,
                socket |-> run.socket]
  BY FreeAreUsers DEF TypeOK, RunType
<1> SUFFICES ASSUME NEW x \in Users, connectedUsers'[x] # None,
                    run'.pc # "killed"
             PROVE  Kept(x)'
  BY DEF NoUserForgotten, Kept
<1>e. ~EndProcess
  BY NothingGoesOn
<1>1. \A w \in Workers, y \in Users : Serves(w, y)' <=> Serves(w, y)
  BY <1>e DEF RunThread, BuildSet, Select, Scan, ReadPacket, ReadFails, Accept,
              HandleLogin, HandleLoginFails, InsertUser, PushUser, Serves
<1>2. run.pc # "killed"
  BY DEF RunThread, BuildSet, Select, Scan, ReadPacket, ReadFails, Accept,
         HandleLogin, HandleLoginFails, InsertUser, PushUser
<1>3. CASE BuildSet \/ Scan
  <2>1. PICK users \in SUBSET Free : connectedUsers' = Lookup(users)
    <3>1. \A i \in DOMAIN freeUsers :
            {freeUsers[j] : j \in 1 .. i} \in SUBSET Free
      BY <1>0 DEF Free
    <3> QED
      BY <1>3, <3>1 DEF BuildSet, Scan
  <2>2. connectedUsers[x] # None \/ x \in Free
    BY <1>0, <2>1, LookupInserts
  <2>3. Free' = Free /\ Queued(x)' = Queued(x) /\ run.pc # "push"
    <3>1. UNCHANGED <<freeUsers, packetsQueue>> /\ run.pc # "push"
      BY <1>3 DEF BuildSet, Scan
    <3> QED
      BY <3>1 DEF Free, Queued
  <2> QED
    BY <1>1, <1>2, <2>2, <2>3 DEF NoUserForgotten, Kept
<1>4. CASE Select \/ Accept \/ HandleLogin \/ HandleLoginFails
  <2>1. /\ Free' = Free /\ Queued(x)' = Queued(x) /\ run.pc # "push"
        /\ connectedUsers' = connectedUsers
    BY <1>4 DEF Select, Accept, HandleLogin, HandleLoginFails, Free, Queued
  <2> QED
    BY <1>1, <1>2, <2>1 DEF NoUserForgotten, Kept
<1>5. CASE InsertUser
  <2>1. /\ Free' = Free /\ Queued(x)' = Queued(x)
        /\ run.pc = "insert" /\ run'.pc = "push" /\ run'.user = run.user
    BY <1>0, <1>5 DEF InsertUser, Free, Queued
  <2>2. x = run.user \/ connectedUsers'[x] = connectedUsers[x]
    BY <1>0, <1>5 DEF InsertUser
  <2> QED
    BY <1>1, <1>2, <2>1, <2>2 DEF NoUserForgotten, Kept
<1>6. CASE PushUser
  <2>1. run.user \in Users /\ connectedUsers' = connectedUsers
    BY <1>6 DEF PushUser, TypeOK
  <2>2. Free' = Free \cup {run.user} /\ Queued(x)' = Queued(x)
    BY <1>0, <1>6, <2>1, PushAdds DEF PushUser, Queued
  <2> QED
    BY <1>1, <1>2, <2>1, <2>2 DEF NoUserForgotten, Kept
<1>7. CASE ReadPacket
  <2> DEFINE u == run.user
             s == connectedUsers[u]
             packet == [user |-> u, msg |-> Head(inbox[s]), from |-> s]
  <2>1. u \in Users /\ s \in Conns /\ inbox[s] # <<>> /\ run.pc # "push"
    BY <1>7 DEF ReadPacket, Arrived, TypeOK
  <2>2. inbox[s] \in Seq(Messages)
    BY <2>1 DEF TypeOK, Messages
  <2>3. Head(inbox[s]) \in Messages
    BY <2>1, <2>2, HeadTailProperties
  <2>4. packet \in Packets /\ packet.user = u
    BY <2>1, <2>3 DEF Packets, Messages
  <2>5. packetsQueue' = Append(packetsQueue, packet)
    BY <1>7 DEF ReadPacket
  <2>6. /\ x = u => Queued(x)' # {}
        /\ x # u => Queued(x)' = Queued(x)
    BY <1>0, <2>4, <2>5, PacketQueued
  <2>7. Free' = Free \ {u} /\ connectedUsers' = connectedUsers
    BY <1>0, <1>7, RemoveTakesAll DEF ReadPacket
  <2> QED
    BY <1>1, <1>2, <2>1, <2>6, <2>7 DEF NoUserForgotten, Kept
<1>8. CASE ReadFails
  <2>1. Free' = Free \ {run.user} /\ Queued(x)' = Queued(x) /\ run.pc # "push"
    BY <1>0, <1>8, RemoveTakesAll DEF ReadFails, Queued
  <2>2. x # run.user /\ connectedUsers'[x] = connectedUsers[x]
    BY <1>0, <1>8 DEF ReadFails, Erase, TypeOK
  <2> QED
    BY <1>1, <1>2, <2>1, <2>2 DEF NoUserForgotten, Kept
<1> QED
  BY <1>3, <1>4, <1>5, <1>6, <1>7, <1>8 DEF RunThread

LEMMA PoolForgetsNobody ==
    ASSUME TypeOK, NoUserForgotten, NEW w \in Workers, PoolThread(w)
    PROVE  NoUserForgotten'
<1> DEFINE u == worker[w].packet.user
<1>0. /\ connectedUsers \in [Users -> Sockets \cup {None}]
      /\ freeUsers \in Seq(Users) /\ packetsQueue \in Seq(Packets)
      /\ worker \in [Workers -> WorkerType]
  BY DEF TypeOK, WorkerType, Busy
<1> SUFFICES ASSUME NEW x \in Users, connectedUsers'[x] # None,
                    run'.pc # "killed"
             PROVE  Kept(x)'
  BY DEF NoUserForgotten, Kept
<1>1. CASE \/ ParsePacket(w) \/ AwaitData(w) \/ AwaitDataFails(w)
           \/ SendReply(w) \/ EraseUser(w)
  <2>1. /\ u \in Users /\ Serves(w, u)
        /\ UNCHANGED <<freeUsers, packetsQueue, run>>
        /\ \A v \in Workers : worker'[v].packet = worker[v].packet
        /\ \/ connectedUsers' = connectedUsers
           \/ connectedUsers' = Lookup({u})
           \/ connectedUsers' = [connectedUsers EXCEPT ![u] = None]
    BY <1>1, ServesOn
  <2>2. /\ Free' = Free /\ Queued(x)' = Queued(x)
        /\ \A v \in Workers : Serves(v, x)' <=> Serves(v, x)
    BY <2>1 DEF Free, Queued, Serves
  <2>3. connectedUsers[x] # None \/ x = u
    BY <1>0, <2>1, LookupInserts
  <2> QED
    BY <2>1, <2>2, <2>3 DEF NoUserForgotten, Kept
<1>2. CASE Dequeue(w)
  <2> DEFINE packet == Head(packetsQueue)
  <2>1. /\ worker'[w].packet = packet /\ packetsQueue # <<>> /\ Free' = Free
        /\ UNCHANGED <<connectedUsers, run>>
        /\ worker[w].pc = "idle"
        /\ \A v \in Workers \ {w} : worker'[v] = worker[v]
    BY <1>0, <1>2 DEF Dequeue, Free
  <2>2. /\ packet \in Packets
        /\ packet.user = x <=> 1 \in Queued(x)
        /\ Queued(x) \subseteq Nat
        /\ \A i \in Nat : i \in Queued(x)' <=> i # 0 /\ i + 1 \in Queued(x)
    BY <1>0, <1>2, <2>1, PacketTaken DEF Dequeue
  <2>3. packet.user = x => Serves(w, x)'
    BY <2>1, <2>2, PoolAssumption DEF Serves
  <2>4. ASSUME NEW i \in Queued(x), i # 1
        PROVE  Queued(x)' # {}
    <3>1. i \in Nat /\ i # 0
      BY <2>2, <1>0 DEF Queued
    <3>2. i - 1 \in Nat /\ i - 1 # 0 /\ (i - 1) + 1 = i
      BY <2>4, <3>1
    <3> QED
      BY <2>2, <3>2
  <2>5. ~Serves(w, x)
    BY <1>0, <2>1 DEF Serves, WorkerType, Idle, Killed, Busy
  <2>6. \A v \in Workers \ {w} : Serves(v, x)' <=> Serves(v, x)
    BY <2>1 DEF Serves
  <2> QED
    BY <2>1, <2>2, <2>3, <2>4, <2>5, <2>6 DEF NoUserForgotten, Kept
<1>3. CASE Release(w)
  <2>1. u \in Users
    BY <1>3, BusyHasPacket DEF Release
  <2>2. Free' = Free \cup {u} /\ Queued(x)' = Queued(x)
    BY <1>0, <1>3, <2>1, PushAdds DEF Release, Queued
  <2>3. /\ UNCHANGED <<connectedUsers, run>>
        /\ \A v \in Workers \ {w} : worker'[v] = worker[v]
    BY <1>0, <1>3 DEF Release
  <2>4. \A v \in Workers : Serves(v, x) => x = u \/ Serves(v, x)'
    BY <2>3 DEF Serves
  <2> QED
    BY <2>2, <2>3, <2>4 DEF NoUserForgotten, Kept
<1> QED
  BY <1>1, <1>2, <1>3 DEF PoolThread

\* Whoever is connected is in the list, the queue, with a worker or about to be
\* put in the list, also after every error (Server.cpp:26-34, 84-99, 131-140).
THEOREM NobodyForgotten == Spec => []NoUserForgotten
<1>1. Init => NoUserForgotten
  BY DEF Init, NoUserForgotten
<1>2. TypeOK /\ NoUserForgotten /\ [Next]_vars => NoUserForgotten'
  <2> SUFFICES ASSUME TypeOK, NoUserForgotten, [Next]_vars
               PROVE  NoUserForgotten'
    OBVIOUS
  <2>1. CASE (\E c \in Conns : Client(c)) \/ UNCHANGED vars
    <3>1. UNCHANGED <<connectedUsers, freeUsers, packetsQueue, worker, run>>
      BY <2>1 DEF Client, Talk, SendLogin, SendData, Deliver, Connect,
                  SendRequest, HangUp, ClientGoes, vars
    <3> QED
      BY <3>1 DEF NoUserForgotten, Free, Queued, Serves
  <2> QED
    BY <2>1, RunForgetsNobody, PoolForgetsNobody DEF Next, Client
<1> QED
  BY <1>1, <1>2, TypeCorrect, PTL DEF Spec

-----------------------------------------------------------------------------
(* Connections *)

Waiting == {backlog[i] : i \in DOMAIN backlog}

\* A connection is not opened yet, or in the backlog, or with run(), or the
\* socket of its user, or closed.
Placed ==
    /\ \A c \in Conns : client[c] = "down" =>
         /\ c \notin Waiting /\ c \notin closed /\ run.socket # c
         /\ \A u \in Users : connectedUsers[u] # c
    /\ \A c \in Waiting :
         /\ c \notin closed /\ run.socket # c
         /\ \A u \in Users : connectedUsers[u] # c
    /\ \A i, j \in DOMAIN backlog : backlog[i] = backlog[j] => i = j
    /\ run.pc \in {"login", "insert"} =>
         /\ run.socket \notin closed
         /\ \A u \in Users : connectedUsers[u] # run.socket
    /\ run.pc \in {"insert", "push"} => run.user = Owner[run.socket]
    /\ \A u \in Users :
         connectedUsers[u] \in Conns => Owner[connectedUsers[u]] = u

\* Steps that accept, insert and open none.
LEMMA StaysPlaced ==
    ASSUME TypeOK, Placed, backlog' = backlog,
           \A c \in Conns : client'[c] = "down" => client[c] = "down",
           \A u \in Users :
             connectedUsers'[u] \in Conns => connectedUsers'[u] = connectedUsers[u],
           \A c \in closed' :
             \/ c \in closed
             \/ \E u \in Users : c = connectedUsers[u]
             \/ c = run.socket /\ run'.pc \notin {"login", "insert"},
           run'.socket \in {run.socket, None},
           run'.pc \in {"login", "insert"} =>
             run.pc \in {"login", "insert"} /\ run'.socket = run.socket,
           run'.pc \in {"insert", "push"} => run'.user = Owner[run'.socket]
    PROVE  Placed'
<1>1. Waiting' = Waiting /\ Waiting \subseteq Conns
  BY DEF Waiting, TypeOK
<1>2. None \notin Conns
  BY PoolAssumption
<1>3. run.pc \in {"login", "insert"} => run.socket \in Conns
  BY DEF TypeOK
<1>4. ASSUME NEW c \in Conns, client'[c] = "down"
      PROVE  /\ c \notin Waiting' /\ c \notin closed' /\ run'.socket # c
             /\ \A u \in Users : connectedUsers'[u] # c
  BY <1>1, <1>2, <1>4 DEF Placed
<1>5. ASSUME NEW c \in Waiting'
      PROVE  /\ c \notin closed' /\ run'.socket # c
             /\ \A u \in Users : connectedUsers'[u] # c
  BY <1>1, <1>2, <1>5 DEF Placed
<1>6. \A i, j \in DOMAIN backlog' : backlog'[i] = backlog'[j] => i = j
  BY DEF Placed
<1>7. ASSUME run'.pc \in {"login", "insert"}
      PROVE  /\ run'.socket \notin closed'
             /\ \A u \in Users : connectedUsers'[u] # run'.socket
  BY <1>3, <1>7 DEF Placed
<1>8. \A u \in Users :
        connectedUsers'[u] \in Conns => Owner[connectedUsers'[u]] = u
  BY DEF Placed
<1> QED
  BY <1>4, <1>5, <1>6, <1>7, <1>8 DEF Placed

\* What the backlog holds after accept and connect.
LEMMA BacklogTaken ==
    ASSUME TypeOK, Placed, backlog # <<>>, backlog' = Tail(backlog)
    PROVE  /\ Head(backlog) \in Waiting
           /\ Waiting' = Waiting \ {Head(backlog)}
           /\ \A i, j \in DOMAIN backlog' : backlog'[i] = backlog'[j] => i = j
<1>1. backlog \in Seq(Conns)
  BY DEF TypeOK
<1>2. /\ backlog' \in Seq(Conns)
      /\ Len(backlog') = Len(backlog) - 1
      /\ \A i \in 1 .. Len(backlog') : backlog'[i] = backlog[i + 1]
  BY <1>1, HeadTailProperties
<1>3. Len(backlog) \in Nat \ {0}
  BY <1>1, EmptySeq
<1>4. /\ DOMAIN backlog = 1 .. Len(backlog)
      /\ DOMAIN backlog' = 1 .. (Len(backlog) - 1)
      /\ Head(backlog) = backlog[1]
  BY <1>1, <1>2
<1>5. 1 \in DOMAIN backlog
  BY <1>3, <1>4
<1>6. \A i \in DOMAIN backlog' :
        i \in Nat /\ i + 1 \in DOMAIN backlog /\ i + 1 # 1
  BY <1>3, <1>4
<1>7. \A i, j \in DOMAIN backlog' : backlog'[i] = backlog'[j] => i = j
  <2> SUFFICES ASSUME NEW i \in DOMAIN backlog', NEW j \in DOMAIN backlog',
                      backlog'[i] = backlog'[j]
               PROVE  i = j
    OBVIOUS
  <2>1. backlog[i + 1] = backlog[j + 1]
    BY <1>2, <1>4
  <2>2. i + 1 = j + 1
    BY <1>6, <2>1 DEF Placed
  <2> QED
    BY <1>6, <2>2
<1>8. ASSUME NEW c
      PROVE  c \in Waiting' <=> c \in Waiting /\ c # Head(backlog)
  <2>1. ASSUME NEW i \in DOMAIN backlog', c = backlog'[i]
        PROVE  c \in Waiting /\ c # Head(backlog)
    <3>1. c = backlog[i + 1]
      BY <1>2, <1>4, <2>1
    <3> QED
      BY <1>4, <1>5, <1>6, <3>1 DEF Waiting, Placed
  <2>2. ASSUME NEW i \in DOMAIN backlog, c = backlog[i], c # Head(backlog)
        PROVE  c \in Waiting'
    <3>1. i # 1 /\ i \in 1 .. Len(backlog)
      BY <1>4, <2>2
    <3>2. i - 1 \in DOMAIN backlog' /\ (i - 1) + 1 = i
      BY <1>3, <1>4, <3>1
    <3>3. backlog'[i - 1] = backlog[i]
      BY <1>2, <1>4, <3>2
    <3> QED
      BY <2>2, <3>2, <3>3 DEF Waiting
  <2> QED
    BY <2>1, <2>2 DEF Waiting
<1> QED
  BY <1>4, <1>5, <1>7, <1>8 DEF Waiting

LEMMA BacklogAdded ==
    ASSUME TypeOK, Placed, NEW c \in Conns, c \notin Waiting,
           backlog' = Append(backlog, c)
    PROVE  /\ Waiting' = Waiting \cup {c}
           /\ \A i, j \in DOMAIN backlog' : backlog'[i] = backlog'[j] => i = j
<1>1. backlog \in Seq(Conns)
  BY DEF TypeOK
<1>2. /\ backlog' \in Seq(Conns)
      /\ Len(backlog') = Len(backlog) + 1
      /\ \A i \in 1 .. Len(backlog) : backlog'[i] = backlog[i]
      /\ backlog'[Len(backlog) + 1] = c
  BY <1>1, AppendProperties
<1>3. Len(backlog) \in Nat
  BY <1>1
<1>4. /\ DOMAIN backlog = 1 .. Len(backlog)
      /\ DOMAIN backlog' = 1 .. Len(backlog')
  BY <1>1, <1>2
<1>5. DOMAIN backlog' = DOMAIN backlog \cup {Len(backlog) + 1}
  BY <1>2, <1>3, <1>4
<1> QED
  BY <1>2, <1>4, <1>5 DEF Waiting, Placed

LEMMA RunKeepsPlaces ==
    ASSUME TypeOK, Placed, RunThread
    PROVE  Placed'
<1>0. /\ connectedUsers \in [Users -> Sockets \cup {None}]
      /\ freeUsers \in Seq(Users) /\ Free \subseteq Users
      /\ closed \subseteq Conns
      /\ run = [pc |-> run.pc, set |-> run.set, user |-> run.user,
                socket |-> run.socket]
  BY FreeAreUsers DEF TypeOK, RunType
<1>n. None \notin Conns /\ Users \cap Conns = {}
  BY PoolAssumption
<1>l. \A users \in SUBSET Users, u \in Users :
        Lookup(users)[u] \in Conns => Lookup(users)[u] = connectedUsers[u]
  BY <1>n DEF Lookup
<1>1. CASE BuildSet \/ Scan
  <2>1. PICK users \in SUBSET Users : connectedUsers' = Lookup(users)
    <3>1. \A i \in DOMAIN freeUsers :
            {freeUsers[j] : j \in 1 .. i} \in SUBSET Users
      BY <1>0
    <3> QED
      BY <1>0, <1>1, <3>1 DEF BuildSet, Scan
  <2>2. run'.socket = run.socket /\ run'.pc \in {"select", "accept", "read"}
    BY <1>0, <1>1 DEF BuildSet, Scan
  <2>3. UNCHANGED <<backlog, client, closed>>
    BY <1>1 DEF BuildSet, Scan
  <2> QED
    BY <1>l, <2>1, <2>2, <2>3, StaysPlaced
<1>2. CASE Select \/ ReadPacket
  <2>1. run'.socket = run.socket /\ run'.pc \in {"scan", "accept"}
    BY <1>0, <1>2 DEF Select, ReadPacket
  <2>2. UNCHANGED <<connectedUsers, backlog, client, closed>>
    BY <1>2 DEF Select, ReadPacket
  <2> QED
    BY <2>1, <2>2, StaysPlaced
<1>3. CASE ReadFails
  <2>1. run'.socket = run.socket /\ run'.pc = "accept" /\ run.user \in Users
    BY <1>0, <1>3 DEF ReadFails, TypeOK
  <2>2. /\ UNCHANGED <<backlog, client>>
        /\ closed' = closed \cup ({connectedUsers[run.user]} \cap Conns)
        /\ connectedUsers' = [connectedUsers EXCEPT ![run.user] = None]
    BY <1>3 DEF ReadFails, Erase
  <2>3. \A u \in Users :
          connectedUsers'[u] \in Conns => connectedUsers'[u] = connectedUsers[u]
    BY <1>0, <1>n, <2>2
  <2> QED
    BY <2>1, <2>2, <2>3, StaysPlaced
<1>4. CASE Accept
  <2>1. UNCHANGED <<connectedUsers, client, closed>>
    BY <1>4 DEF Accept
  <2>2. CASE run' = NextTurn /\ backlog' = backlog
    <3>1. run'.socket = None /\ run'.pc = "build"
      BY <2>2 DEF NextTurn
    <3> QED
      BY <2>1, <2>2, <3>1, StaysPlaced
  <2>3. CASE /\ backlog # <<>>
             /\ run' = [NextTurn EXCEPT !.pc = "login", !.socket = Head(backlog)]
             /\ backlog' = Tail(backlog)
    <3>1. run'.pc = "login" /\ run'.socket = Head(backlog)
      BY <2>3 DEF NextTurn
    <3>2. /\ Head(backlog) \in Waiting
          /\ Waiting' = Waiting \ {Head(backlog)}
          /\ \A i, j \in DOMAIN backlog' : backlog'[i] = backlog'[j] => i = j
      BY <2>3, BacklogTaken
    <3> QED
      BY <2>1, <3>1, <3>2 DEF Placed
  <2> QED
    BY <1>4, <2>2, <2>3 DEF Accept
<1>5. CASE HandleLogin
  <2>1. /\ run.pc = "login" /\ UNCHANGED <<connectedUsers, backlog>>
        /\ closed' \subseteq closed \cup {run.socket}
        /\ \A c \in Conns : client'[c] = "down" => client[c] = "down"
    BY <1>5 DEF HandleLogin, TypeOK
  <2>2. CASE run' = NextTurn \/ EndProcess
    <3>1. run'.socket = None /\ run'.pc \in {"build", "killed"}
      BY <2>2, NothingGoesOn DEF NextTurn
    <3> QED
      BY <2>1, <3>1, StaysPlaced
  <2>3. CASE /\ run' = [run EXCEPT !.pc = "insert", !.user = Owner[run.socket]]
             /\ closed' = closed
    <3>1. /\ run'.pc = "insert" /\ run'.socket = run.socket
          /\ run'.user = Owner[run.socket]
      BY <1>0, <2>3
    <3> QED
      BY <2>1, <2>3, <3>1, StaysPlaced
  <2> QED
    BY <1>5, <2>2, <2>3 DEF HandleLogin
<1>6. CASE HandleLoginFails \/ PushUser
  <2>1. run' = NextTurn
    BY <1>6 DEF HandleLoginFails, PushUser
  <2>2. run'.socket = None /\ run'.pc = "build"
    BY <2>1 DEF NextTurn
  <2>3. /\ UNCHANGED <<connectedUsers, backlog, client>>
        /\ closed' \subseteq closed \cup {run.socket}
    BY <1>6 DEF HandleLoginFails, PushUser
  <2> QED
    BY <2>2, <2>3, StaysPlaced
<1>7. CASE InsertUser
  <2> DEFINE u == run.user
             c == run.socket
  <2>1. /\ run.pc = "insert" /\ run'.pc = "push"
        /\ run'.user = u /\ run'.socket = c
        /\ u \in Users /\ c \in Conns /\ u = Owner[c]
    BY <1>0, <1>7 DEF InsertUser, TypeOK, Placed
  <2>2. UNCHANGED <<backlog, client>> /\ closed' \subseteq closed \cup {c}
    BY <1>7 DEF InsertUser
  <2>3. Waiting' = Waiting
    BY <2>2 DEF Waiting
  <2>4. \/ connectedUsers' = connectedUsers
        \/ connectedUsers' = [connectedUsers EXCEPT ![u] = c]
    BY <1>7 DEF InsertUser
  <2>5. \A v \in Users : \/ connectedUsers'[v] = connectedUsers[v]
                         \/ v = u /\ connectedUsers'[v] = c
    BY <1>0, <2>4
  <2> QED
    BY <2>1, <2>2, <2>3, <2>5 DEF Placed
<1> QED
  BY <1>1, <1>2, <1>3, <1>4, <1>5, <1>6, <1>7 DEF RunThread

LEMMA OthersKeepPlaces ==
    ASSUME TypeOK, Placed,
           \/ \E w \in Workers : PoolThread(w)
           \/ \E c \in Conns : Client(c)
           \/ UNCHANGED vars
    PROVE  Placed'
<1>0. connectedUsers \in [Users -> Sockets \cup {None}]
  BY DEF TypeOK
<1>n. None \notin Conns /\ Users \cap Conns = {}
  BY PoolAssumption
<1>1. ASSUME NEW w \in Workers, PoolThread(w)
      PROVE  Placed'
  <2> DEFINE u == worker[w].packet.user
  <2>1. CASE Dequeue(w) \/ Release(w)
    <3>1. UNCHANGED <<connectedUsers, run, backlog, client, closed>>
      BY <2>1 DEF Dequeue, Release
    <3> QED
      BY <3>1, StaysPlaced DEF Placed
  <2>2. CASE \/ ParsePacket(w) \/ AwaitData(w) \/ AwaitDataFails(w)
             \/ SendReply(w) \/ EraseUser(w)
    <3>1. /\ u \in Users
          /\ \/ connectedUsers' = connectedUsers
             \/ connectedUsers' = Lookup({u})
             \/ connectedUsers' = [connectedUsers EXCEPT ![u] = None]
      BY <2>2, ServesOn
    <3>2. \A v \in Users :
            connectedUsers'[v] \in Conns => connectedUsers'[v] = connectedUsers[v]
      BY <1>0, <1>n, <3>1 DEF Lookup
    <3>3. /\ backlog' = backlog
          /\ \A c \in closed' : c \in closed \/ c = connectedUsers[u]
      BY <2>2 DEF ParsePacket, AwaitData, AwaitDataFails, SendReply, EraseUser,
                  Send, Erase
    <3>4. \A c \in Conns : client'[c] = "down" => client[c] = "down"
      <4>1. ASSUME NEW writes, NEW to \in {"ready", "granted"}, NEW then,
                   Send(w, writes, to, then)
            PROVE  \A c \in Conns : client'[c] = "down" => client[c] = "down"
        BY <4>1 DEF Send, TypeOK
      <4>2. CASE ParsePacket(w) \/ SendReply(w)
        BY <4>1, <4>2 DEF ParsePacket, SendReply
      <4>3. CASE AwaitData(w) \/ AwaitDataFails(w) \/ EraseUser(w)
        BY <4>3 DEF AwaitData, AwaitDataFails, EraseUser
      <4> QED  BY <2>2, <4>2, <4>3
    <3>5. run' = run \/ EndProcess
      BY <2>2 DEF ParsePacket, AwaitData, AwaitDataFails, SendReply, EraseUser,
                  Send
    <3>6. CASE EndProcess
      <4>1. run'.pc = "killed" /\ run'.socket = None
        BY <3>6, NothingGoesOn
      <4> QED
        BY <3>1, <3>2, <3>3, <3>4, <4>1, StaysPlaced
    <3>7. CASE run' = run
      BY <3>1, <3>2, <3>3, <3>4, <3>7, StaysPlaced DEF Placed
    <3> QED
      BY <3>5, <3>6, <3>7
  <2> QED
    BY <1>1, <2>1, <2>2 DEF PoolThread
<1>2. ASSUME NEW c \in Conns, Client(c)
      PROVE  Placed'
  <2>1. UNCHANGED <<connectedUsers, run, closed>>
    BY <1>2 DEF Client, Talk, SendLogin, SendData, Deliver, Connect,
                SendRequest, HangUp, ClientGoes
  <2>2. /\ \A d \in Conns : client'[d] = "down" => client[d] = "down"
        /\ Connect(c) => client[c] = "down" /\ client'[c] = "connected"
        /\ Connect(c) => backlog' = Append(backlog, c)
        /\ ~Connect(c) => backlog' = backlog
    BY <1>2 DEF Client, Talk, SendLogin, SendData, Deliver, Connect,
                SendRequest, HangUp, ClientGoes, Emit, TypeOK
  <2>3. CASE Connect(c)
    <3>1. /\ c \notin Waiting
          /\ Waiting' = Waiting \cup {c}
          /\ \A i, j \in DOMAIN backlog' : backlog'[i] = backlog'[j] => i = j
      BY <2>2, <2>3, BacklogAdded DEF Placed
    <3> QED
      BY <2>1, <2>2, <2>3, <3>1 DEF Placed
  <2>4. CASE ~Connect(c)
    BY <2>1, <2>2, <2>4, StaysPlaced DEF Placed
  <2> QED
    BY <2>3, <2>4
<1>3. ASSUME UNCHANGED vars
      PROVE  Placed'
  BY <1>3, StaysPlaced DEF vars, Placed
<1> QED
  BY <1>1, <1>2, <1>3

Live == {"ready", "asked", "granted", "sent"}

\* run() inserts for a user who has no socket; a worker that has failed on a
\* user erases a socket that is of no use; and KeptUntilItHangsUp.
Safe(u) ==
    /\ run.pc = "insert" /\ run.user = u => connectedUsers[u] = None
    /\ \A w \in Workers :
         worker[w].pc = "failed" /\ Serves(w, u) /\ connectedUsers[u] \in Conns =>
           HungUp(connectedUsers[u]) \/ connectedUsers[u] \in closed
    /\ \A c \in Conns :
         client[c] \in Live /\ Owner[c] = u /\ run.pc # "killed" =>
           /\ c \notin closed
           /\ connectedUsers[u] = c \/ (run.pc = "insert" /\ run.socket = c)

AllSafe == \A u \in Users \ overlapped : Safe(u)

KeptInv == OneOwnerInv /\ Placed /\ AllSafe

LEMMA RunKeepsSafe ==
    ASSUME KeptInv, RunThread
    PROVE  AllSafe'
<1>0. /\ TypeOK /\ OneOwner /\ Placed /\ AllSafe
      /\ connectedUsers \in [Users -> Sockets \cup {None}]
      /\ freeUsers \in Seq(Users) /\ Free \subseteq Users
      /\ closed \subseteq Conns
      /\ run = [pc |-> run.pc, set |-> run.set, user |-> run.user,
                socket |-> run.socket]
  BY FreeAreUsers DEF KeptInv, OneOwnerInv, TypeOK, RunType
<1>n. None \notin Conns /\ Users \cap Conns = {}
  BY PoolAssumption
<1>k. run.pc # "killed"
  BY DEF RunThread, BuildSet, Select, Scan, ReadPacket, ReadFails, Accept,
         HandleLogin, HandleLoginFails, InsertUser, PushUser
<1>o. overlapped \subseteq overlapped'
  BY DEF RunThread, BuildSet, Select, Scan, ReadPacket, ReadFails, Accept,
         HandleLogin, HandleLoginFails, InsertUser, PushUser
<1> SUFFICES ASSUME NEW x \in Users \ overlapped', ~EndProcess
             PROVE  Safe(x)'
  <2>1. EndProcess => \A x \in Users : Safe(x)'
    BY NothingGoesOn DEF Safe, Killed
  <2> QED
    BY <2>1 DEF AllSafe
<1>w. worker' = worker
  BY DEF RunThread, BuildSet, Select, Scan, ReadPacket, ReadFails, Accept,
         HandleLogin, HandleLoginFails, InsertUser, PushUser
<1>x. x \in Users /\ x \notin overlapped /\ Safe(x) /\ Sole(x)
  BY <1>0, <1>o DEF AllSafe, OneOwner
<1>s. \A w \in Workers : Serves(w, x)' <=> Serves(w, x)
  BY <1>w DEF Serves
<1>1. CASE BuildSet \/ Scan
  <2>1. PICK users \in SUBSET Users : connectedUsers' = Lookup(users)
    <3>1. \A i \in DOMAIN freeUsers :
            {freeUsers[j] : j \in 1 .. i} \in SUBSET Users
      BY <1>0
    <3> QED
      BY <1>0, <1>1, <3>1 DEF BuildSet, Scan
  <2>2. run.pc # "insert" /\ run'.pc # "insert"
    BY <1>0, <1>1 DEF BuildSet, Scan
  <2>3. UNCHANGED <<client, closed>>
    BY <1>1 DEF BuildSet, Scan
  <2>4. /\ connectedUsers'[x] \in Conns => connectedUsers'[x] = connectedUsers[x]
        /\ connectedUsers[x] \in Conns => connectedUsers'[x] = connectedUsers[x]
    BY <1>n, <1>x, <2>1 DEF Lookup
  <2> QED
    BY <1>k, <1>w, <1>x, <1>s, <2>2, <2>3, <2>4 DEF Safe, HungUp
<1>2. CASE Select \/ ReadPacket \/ Accept \/ PushUser
  <2>1. UNCHANGED <<connectedUsers, client, closed>> /\ run.pc # "insert"
    BY <1>2 DEF Select, ReadPacket, Accept, PushUser
  <2>2. \/ run'.pc \in {"scan", "accept"}
        \/ run' = NextTurn
        \/ run' = [NextTurn EXCEPT !.pc = "login", !.socket = Head(backlog)]
    BY <1>0, <1>2 DEF Select, ReadPacket, Accept, PushUser
  <2>3. run'.pc # "insert"
    <3>1. CASE run' = NextTurn
      BY <3>1 DEF NextTurn
    <3>2. CASE run' = [NextTurn EXCEPT !.pc = "login", !.socket = Head(backlog)]
      BY <3>2 DEF NextTurn
    <3> QED
      BY <2>2, <3>1, <3>2
  <2> QED
    BY <1>k, <1>w, <1>x, <1>s, <2>1, <2>3 DEF Safe, HungUp
<1>3. CASE ReadFails
  <2> DEFINE u == run.user
  <2>1. run.pc = "read" /\ run'.pc = "accept" /\ u \in Users
    BY <1>0, <1>3 DEF ReadFails, TypeOK
  <2>2. /\ client' = client
        /\ closed' = closed \cup ({connectedUsers[u]} \cap Conns)
        /\ connectedUsers' = [connectedUsers EXCEPT ![u] = None]
        /\ connectedUsers[u] \in Conns =>
             HungUp(connectedUsers[u]) \/ connectedUsers[u] \in closed
    BY <1>3 DEF ReadFails, Erase, EndOfFile
  <2>3. CASE x = u
    <3>1. connectedUsers'[x] = None
      BY <1>0, <2>1, <2>2, <2>3
    <3>2. ASSUME NEW c \in Conns, client[c] \in Live, Owner[c] = x
          PROVE  FALSE
      BY <1>k, <1>x, <2>1, <2>2, <2>3, <3>2 DEF Safe, HungUp, Live
    <3> QED
      BY <1>n, <1>x, <2>1, <2>2, <3>1, <3>2 DEF Safe
  <2>4. CASE x # u
    <3>1. connectedUsers'[x] = connectedUsers[x]
      BY <1>0, <1>x, <2>2, <2>4
    <3>2. \A c \in Conns : Owner[c] = x => (c \in closed' <=> c \in closed)
      BY <1>0, <2>1, <2>2, <2>4 DEF Placed
    <3>3. connectedUsers[x] \in Conns => Owner[connectedUsers[x]] = x
      BY <1>0, <1>x DEF Placed
    <3> QED
      BY <1>k, <1>w, <1>x, <1>s, <2>1, <2>2, <3>1, <3>2, <3>3 DEF Safe, HungUp
  <2> QED
    BY <2>3, <2>4
<1>4. CASE HandleLogin
  <2> DEFINE c == run.socket
             u == Owner[c]
  <2>1. /\ run.pc = "login" /\ connectedUsers' = connectedUsers
        /\ c \in Conns /\ u \in Users
        /\ c \notin closed /\ connectedUsers[x] # c
    BY <1>0, <1>4, <1>x, PoolAssumption DEF HandleLogin, TypeOK, Placed
  <2>2. CASE /\ connectedUsers[u] = None
             /\ client' = [client EXCEPT ![c] = IF HungUp(c) THEN @ ELSE "ready"]
             /\ run' = [run EXCEPT !.pc = "insert", !.user = u]
             /\ closed' = closed
    <3>1. run'.pc = "insert" /\ run'.user = u /\ run'.socket = c
      BY <1>0, <2>2
    <3>2. \A d \in Conns : /\ d # c => client'[d] = client[d]
                           /\ client[d] = "gone" => client'[d] = "gone"
      BY <1>0, <2>2 DEF TypeOK, HungUp
    <3>3. \A w \in Workers :
            worker'[w].pc = "failed" /\ Serves(w, x)' /\ connectedUsers'[x] \in Conns =>
              client'[connectedUsers'[x]] = "gone" \/ connectedUsers'[x] \in closed'
      BY <1>w, <1>x, <1>s, <2>1, <2>2, <3>2 DEF Safe, HungUp
    <3>4. ASSUME NEW d \in Conns, client'[d] \in Live, Owner[d] = x
          PROVE  d \notin closed' /\ (connectedUsers'[x] = d \/ d = c)
      BY <1>k, <1>x, <2>1, <2>2, <3>2, <3>4 DEF Safe
    <3> QED
      BY <2>1, <2>2, <3>1, <3>3, <3>4 DEF Safe, HungUp
  <2>3. CASE client' = client /\ run' = NextTurn /\ closed' = closed \cup {c}
    <3>1. run'.pc = "build"
      BY <2>3 DEF NextTurn
    <3>2. ASSUME NEW d \in Conns, client[d] \in Live, Owner[d] = x
          PROVE  d \notin closed' /\ connectedUsers'[x] = d
      BY <1>k, <1>x, <2>1, <2>3, <3>2 DEF Safe
    <3> QED
      BY <1>w, <1>x, <1>s, <2>1, <2>3, <3>1, <3>2 DEF Safe, HungUp
  <2> QED
    BY <1>4, <2>2, <2>3 DEF HandleLogin, AlreadyLogged
<1>5. CASE HandleLoginFails
  <2>1. /\ run.pc = "login" /\ UNCHANGED <<connectedUsers, client>>
        /\ closed' = closed \cup {run.socket} /\ run' = NextTurn
        /\ connectedUsers[x] # run.socket
    BY <1>0, <1>5, <1>x DEF HandleLoginFails, Placed
  <2>2. run'.pc = "build"
    BY <2>1 DEF NextTurn
  <2>3. ASSUME NEW d \in Conns, client[d] \in Live, Owner[d] = x
        PROVE  d \notin closed' /\ connectedUsers'[x] = d
    BY <1>k, <1>x, <2>1, <2>3 DEF Safe
  <2> QED
    BY <1>w, <1>x, <1>s, <2>1, <2>2, <2>3 DEF Safe, HungUp
<1>6. CASE InsertUser
  <2> DEFINE c == run.socket
             u == run.user
  <2>1. /\ run.pc = "insert" /\ run'.pc = "push" /\ client' = client
        /\ c \in Conns /\ u \in Users /\ u = Owner[c]
        /\ c \notin closed
    BY <1>0, <1>6 DEF InsertUser, TypeOK, Placed
  <2>2. CASE x = u
    <3>1. connectedUsers[u] = None
      BY <1>x, <2>1, <2>2 DEF Safe
    <3>2. closed' = closed /\ connectedUsers'[x] = c
      BY <1>0, <1>6, <2>1, <2>2, <3>1 DEF InsertUser
    <3>3. \A w \in Workers : ~Serves(w, x)'
      BY <1>s, <1>x, <2>1, <2>2 DEF Sole
    <3>4. ASSUME NEW d \in Conns, client[d] \in Live, Owner[d] = x
          PROVE  d \notin closed' /\ connectedUsers'[x] = d
      BY <1>k, <1>n, <1>x, <2>1, <2>2, <3>1, <3>2, <3>4 DEF Safe
    <3> QED
      BY <2>1, <3>3, <3>4 DEF Safe
  <2>3. CASE x # u
    <3>1. connectedUsers'[x] = connectedUsers[x]
      <4>1. \/ connectedUsers' = connectedUsers
            \/ connectedUsers' = [connectedUsers EXCEPT ![u] = c]
        BY <1>6 DEF InsertUser
      <4> QED
        BY <1>0, <1>x, <2>3, <4>1
    <3>2. closed \subseteq closed' /\ closed' \subseteq closed \cup {c}
      BY <1>6 DEF InsertUser
    <3>3. ASSUME NEW d \in Conns, client[d] \in Live, Owner[d] = x
          PROVE  d \notin closed' /\ connectedUsers'[x] = d
      BY <1>k, <1>x, <2>1, <2>3, <3>1, <3>2, <3>3 DEF Safe
    <3> QED
      BY <1>w, <1>x, <1>s, <2>1, <3>1, <3>2, <3>3 DEF Safe, HungUp
  <2> QED
    BY <2>2, <2>3
<1> QED
  BY <1>1, <1>2, <1>3, <1>4, <1>5, <1>6 DEF RunThread

LEMMA PoolKeepsSafe ==
    ASSUME KeptInv, NEW w \in Workers, PoolThread(w)
    PROVE  AllSafe'
<1> DEFINE u == worker[w].packet.user
<1>0. /\ TypeOK /\ OneOwner /\ Placed /\ AllSafe
      /\ connectedUsers \in [Users -> Sockets \cup {None}]
      /\ worker \in [Workers -> WorkerType]
  BY DEF KeptInv, OneOwnerInv, TypeOK, WorkerType, Busy
<1>n. None \notin Conns /\ Users \cap Conns = {}
  BY PoolAssumption
<1>o. overlapped' = overlapped
  BY DEF PoolThread, Dequeue, ParsePacket, AwaitData, AwaitDataFails,
         SendReply, EraseUser, Release, Send
<1> SUFFICES ASSUME NEW x \in Users \ overlapped
             PROVE  Safe(x)'
  BY <1>o DEF AllSafe
<1>x. x \in Users /\ Safe(x) /\ Sole(x)
  BY <1>0 DEF AllSafe, OneOwner
<1>1. CASE Dequeue(w) \/ Release(w)
  <2>1. UNCHANGED <<connectedUsers, run, client, closed>>
    BY <1>1 DEF Dequeue, Release
  <2>2. /\ worker'[w].pc # "failed"
        /\ \A v \in Workers \ {w} : worker'[v] = worker[v]
    BY <1>0, <1>1 DEF Dequeue, Release, Idle
  <2>3. \A v \in Workers : worker'[v].pc = "failed" /\ Serves(v, x)' =>
          worker[v].pc = "failed" /\ Serves(v, x)
    BY <2>2 DEF Serves
  <2> QED
    BY <1>x, <2>1, <2>3 DEF Safe, HungUp
<1>2. CASE \/ ParsePacket(w) \/ AwaitData(w) \/ AwaitDataFails(w)
           \/ SendReply(w) \/ EraseUser(w)
  <2>1. /\ u \in Users /\ Serves(w, u)
        /\ \/ run' = run /\ \A v \in Workers : worker'[v].packet = worker[v].packet
           \/ run'.pc = "killed" /\ \A v \in Workers : worker'[v] = Killed
    BY <1>0, <1>2, ServesOn
  <2>2. CASE run'.pc = "killed" /\ \A v \in Workers : worker'[v] = Killed
    BY <2>2 DEF Safe, Killed
  <2>3. CASE run' = run /\ \A v \in Workers : worker'[v].packet = worker[v].packet
    <3>1. \A v \in Workers : Serves(v, x)' <=> Serves(v, x)
      BY <2>3 DEF Serves
    <3>2. run.pc = "insert" /\ run.user = x => x # u
      BY <1>x, <2>1 DEF Sole
    <3>3. CASE EraseUser(w)
      <4>1. /\ worker[w].pc = "failed" /\ client' = client
            /\ closed' = closed \cup ({connectedUsers[u]} \cap Conns)
            /\ connectedUsers' = [connectedUsers EXCEPT ![u] = None]
            /\ worker' = [worker EXCEPT ![w].pc = "release"]
        BY <3>3 DEF EraseUser, Erase
      <4>2. \A v \in Workers : worker'[v].pc = "failed" => worker[v].pc = "failed"
        BY <1>0, <4>1, GoesOn
      <4>3. CASE x = u
        <5>1. connectedUsers'[x] = None
          BY <1>0, <2>1, <4>1, <4>3
        <5>2. run.pc # "insert" \/ run.user # x
          BY <3>2, <4>3
        <5>3. ASSUME NEW c \in Conns, client[c] \in Live, Owner[c] = x,
                     run.pc # "killed"
              PROVE  FALSE
          <6>1. run.pc = "insert" => run.socket # c
            BY <1>0, <5>2, <5>3 DEF Placed
          <6> QED
            BY <1>x, <2>1, <4>1, <4>3, <5>3, <6>1 DEF Safe, HungUp, Live
        <5> QED
          BY <1>n, <2>3, <4>1, <5>1, <5>2, <5>3 DEF Safe
      <4>4. CASE x # u
        <5>1. connectedUsers'[x] = connectedUsers[x]
          BY <1>0, <1>x, <4>1, <4>4
        <5>2. \A c \in Conns : Owner[c] = x => (c \in closed' <=> c \in closed)
          BY <1>0, <2>1, <4>1, <4>4 DEF Placed
        <5>3. connectedUsers[x] \in Conns => Owner[connectedUsers[x]] = x
          BY <1>0, <1>x DEF Placed
        <5> QED
          BY <1>x, <2>3, <3>1, <4>1, <4>2, <5>1, <5>2, <5>3 DEF Safe, HungUp
      <4> QED
        BY <4>3, <4>4
    <3>4. CASE ~EraseUser(w)
      <4>1. /\ closed' = closed
            /\ connectedUsers' = connectedUsers \/ connectedUsers' = Lookup({u})
        BY <1>2, <3>4 DEF ParsePacket, AwaitData, AwaitDataFails, SendReply, Send
      <4>2. /\ connectedUsers'[x] \in Conns =>
                 connectedUsers'[x] = connectedUsers[x]
            /\ connectedUsers[x] \in Conns =>
                 connectedUsers'[x] = connectedUsers[x]
            /\ x # u => connectedUsers'[x] = connectedUsers[x]
        BY <1>n, <1>x, <4>1 DEF Lookup
      <4>3. \A c \in Conns : /\ client'[c] \in Live => client[c] \in Live
                             /\ client[c] = "gone" => client'[c] = "gone"
        BY <1>0, <1>2, <3>4
           DEF ParsePacket, AwaitData, AwaitDataFails, SendReply, Send, Live,
               TypeOK
      <4>4. ASSUME NEW v \in Workers, worker'[v].pc = "failed", Serves(v, x),
                   connectedUsers[x] \in Conns
            PROVE  HungUp(connectedUsers[x]) \/ connectedUsers[x] \in closed
        <5>1. CASE AwaitDataFails(w)
          <6>1. /\ connectedUsers[u] = Lookup({u})[u]
                     \/ connectedUsers[u] \notin Conns
                /\ Lookup({u})[u] \in Conns =>
                     EndOfFile(Lookup({u})[u]) \/ Lookup({u})[u] \in closed
            BY <1>n, <2>1, <5>1 DEF AwaitDataFails, Lookup
          <6>2. v = w => x = u
            BY <2>1, <4>4 DEF Serves
          <6>3. worker' = [worker EXCEPT ![w].pc = "failed"]
            BY <5>1 DEF AwaitDataFails
          <6>4. v # w => worker[v].pc = "failed"
            BY <1>0, <4>4, <6>3
          <6> QED
            BY <1>x, <4>4, <6>1, <6>2, <6>4 DEF Safe, EndOfFile
        <5>2. CASE \E to \in {"await", "reply", "release"} :
                     worker' = [worker EXCEPT ![w].pc = to]
          <6>1. PICK to \in {"await", "reply", "release"} :
                  worker' = [worker EXCEPT ![w].pc = to]
            BY <5>2
          <6>2. worker[v].pc = "failed"
            BY <1>0, <4>4, <6>1
          <6> QED
            BY <1>x, <4>4, <6>2 DEF Safe
        <5>3. CASE /\ HungUp(Lookup({u})[u])
                   /\ worker' = [worker EXCEPT ![w].pc = "failed"]
          <6>1. connectedUsers[u] \in Conns => connectedUsers[u] = Lookup({u})[u]
            BY <1>n, <2>1 DEF Lookup
          <6>2. v = w => x = u
            BY <2>1, <4>4 DEF Serves
          <6>3. v # w => worker[v].pc = "failed"
            BY <1>0, <4>4, <5>3
          <6> QED
            BY <1>x, <4>4, <5>3, <6>1, <6>2, <6>3 DEF Safe
        <5>4. ~EndProcess
          BY <4>4, NothingGoesOn DEF Killed
        <5> QED
          BY <1>2, <3>4, <5>1, <5>2, <5>3, <5>4
             DEF ParsePacket, AwaitData, SendReply, Send
      <4> QED
        BY <1>n, <1>x, <2>3, <3>1, <3>2, <4>1, <4>2, <4>3, <4>4 DEF Safe, HungUp
    <3> QED
      BY <3>3, <3>4
  <2> QED
    BY <2>1, <2>2, <2>3
<1> QED
  BY <1>1, <1>2 DEF PoolThread

LEMMA ClientKeepsSafe ==
    ASSUME KeptInv, (\E c \in Conns : Client(c)) \/ UNCHANGED vars
    PROVE  AllSafe'
<1>0. TypeOK /\ AllSafe
  BY DEF KeptInv, OneOwnerInv
<1>1. UNCHANGED <<connectedUsers, run, worker, closed, overlapped>>
  BY DEF Client, Talk, SendLogin, SendData, Deliver, Connect, SendRequest,
         HangUp, ClientGoes, vars
<1>2. \A c \in Conns : /\ client'[c] \in Live => client[c] \in Live
                       /\ client[c] = "gone" => client'[c] = "gone"
  BY <1>0 DEF Client, Talk, SendLogin, SendData, Deliver, Connect, SendRequest,
              HangUp, ClientGoes, vars, Live, TypeOK
<1> QED
  BY <1>0, <1>1, <1>2 DEF AllSafe, Safe, HungUp, Serves

\* A client that was told OK stays the one its user is connected by, and its
\* socket open, until it hangs up (Server.cpp:28, 82, 131, 198-205).
THEOREM LoggedInIsKept == Spec => []KeptUntilItHangsUp
<1>1. Init => Placed /\ AllSafe
  <2> SUFFICES ASSUME Init PROVE Placed /\ AllSafe
    OBVIOUS
  <2>1. run.pc = "build" /\ run.socket = None /\ None \notin Conns
    BY PoolAssumption DEF Init, NextTurn
  <2>2. DOMAIN backlog = {} /\ Waiting = {}
    BY DEF Init, Waiting
  <2>3. \A w \in Workers : worker[w].pc = "idle"
    BY DEF Init, Idle
  <2>4. Placed
    BY <2>1, <2>2 DEF Init, Placed
  <2>5. AllSafe
    BY <2>1, <2>3 DEF Init, AllSafe, Safe, Live
  <2> QED
    BY <2>4, <2>5
<1>2. OneOwnerInv /\ Placed /\ AllSafe /\ [Next]_vars => Placed' /\ AllSafe'
  <2> SUFFICES ASSUME KeptInv, [Next]_vars PROVE Placed' /\ AllSafe'
    BY DEF KeptInv
  <2>0. TypeOK /\ Placed
    BY DEF KeptInv, OneOwnerInv
  <2>1. CASE RunThread
    BY <2>0, <2>1, RunKeepsPlaces, RunKeepsSafe
  <2>2. CASE \E w \in Workers : PoolThread(w)
    BY <2>0, <2>2, OthersKeepPlaces, PoolKeepsSafe
  <2>3. CASE (\E c \in Conns : Client(c)) \/ UNCHANGED vars
    BY <2>0, <2>3, OthersKeepPlaces, ClientKeepsSafe
  <2> QED
    BY <2>1, <2>2, <2>3 DEF Next, Client
<1>3. AllSafe => KeptUntilItHangsUp
  <2>1. \A c \in Conns : Owner[c] \in Users
    BY PoolAssumption
  <2> QED
    BY <2>1 DEF AllSafe, Safe, KeptUntilItHangsUp, Live
<1> QED
  BY <1>1, <1>2, <1>3, OneOwnerHolds, PTL DEF Spec
=============================================================================
