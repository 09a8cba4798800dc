------------------------- MODULE EventServiceProofs -------------------------
(***************************************************************************)
(* Theorems about the event service, for any number of threads,            *)
(* connections, descriptors, keys and events.                              *)
(***************************************************************************)
EXTENDS EventService, SequenceTheorems, TLAPS

Busy(t)       == ~At(t, "idle")
Publishing(t) == run[t].at \in {"publish", "walk"}

(* The inductive invariants.                                               *)

\* A connection that has not been made has got and asked nothing, and an open one
\* has one descriptor.
FreshInv ==
  /\ \A c \in Conn : peer[c] = "new" => got[c] = << >> /\ asked[c] = {}
  /\ \A fd \in Fd : sock[fd] # NoConn => peer[sock[fd]] # "new"
  /\ \A fd, fe \in Fd : sock[fd] = sock[fe] /\ sock[fd] # NoConn => fd = fe
  /\ \A t \in Worker : At(t, "add") \/ At(t, "del") => peer[run[t].from] # "new"

\* The client whose request a thread handles has no other number than the thread's.
SenderInv ==
  \A t \in Worker, fd \in Fd :
    (At(t, "add") \/ At(t, "del")) /\ sock[fd] = run[t].from => fd = run[t].fd

\* What a client has sent and nobody has read is part of what all clients have sent.
UnreadInv == \A c \in Conn : unread[c] + sendable <= MaxSent

\* An event is read before it is sent, and by one thread.
EventsInv ==
  /\ Len(events) <= MaxEvents
  /\ \A c \in Conn : \A i \in 1 .. Len(got[c]) : got[c][i] <= Len(events)
  /\ \A t \in Worker : Publishing(t) => run[t].event <= Len(events)
  /\ \A t, u \in Worker : Publishing(t) /\ Publishing(u) /\ run[t].event = run[u].event => t = u

\* Who has got the event that is being published has it from this walk, which
\* knows his descriptor.
SentInv ==
  \A t \in Worker : \A c \in Conn : \A i \in 1 .. Len(got[c]) :
    Publishing(t) /\ got[c][i] = run[t].event =>
      Walking(t) /\ \A fd \in Fd : sock[fd] = c => fd \in run[t].sent

\* No connection gets an event twice.
OnceInv == \A c \in Conn : \A i, j \in 1 .. Len(got[c]) : i < j => got[c][i] # got[c][j]

\* A walk has met those that are registered for the part of the key behind it.
Reached(key, n) == {fd \in Fd : \E m \in 1 .. n : <<fd, Prefix(key, m)>> \in regs}

WalkInv ==
  \A t \in Worker : Walking(t) =>
    /\ run[t].ix <= Len(WalkKey(t))
    /\ run[t].sent \cup run[t].left = Reached(WalkKey(t), run[t].ix)

\* A number that no publisher has given up has one keeper: a thread, a job, the set of
\* select or what is to be closed; and while it is kept it is open.
Waiting(fd) == \E i \in 1 .. Len(jobs) : jobs[i].fd = fd
Holds(t, fd) == Busy(t) /\ run[t].fd = fd

Keeper(fd) ==
  /\ \A t, u \in Worker : Holds(t, fd) /\ Holds(u, fd) => t = u
  /\ \A i, j \in 1 .. Len(jobs) : jobs[i].fd = fd /\ jobs[j].fd = fd => i = j
  /\ \A t \in Worker : Holds(t, fd) => ~Waiting(fd) /\ fd \notin watched \cup toClose /\ sock[fd] # NoConn
  /\ Waiting(fd) => fd \notin watched \cup toClose /\ sock[fd] # NoConn
  /\ fd \in toClose => fd \notin watched /\ sock[fd] # NoConn

\* What the service knows about it says how far its keeper is, and the tree holds what
\* its connection has asked for.
Stage(fd) ==
  /\ fd \in watched => fd \in known
  /\ fd \in known => sock[fd] # NoConn
  /\ fd \in toClose => fd \notin known /\ KeysOf(fd) = {}
  /\ \A i \in 1 .. Len(jobs) : jobs[i].fd = fd => (jobs[i].kind = "data" <=> fd \in known)
  /\ \A t \in Worker : Holds(t, fd) =>
       /\ fd \in known <=> ~(At(t, "new") \/ At(t, "close"))
       /\ At(t, "close") => KeysOf(fd) = {}
       /\ At(t, "add") \/ At(t, "del") => run[t].from = sock[fd]

Own(fd) == KeysOf(fd) = IF sock[fd] = NoConn THEN {} ELSE asked[sock[fd]]

\* The event that is published has come through the thread's descriptor and is, unless
\* that has been given up, the last that its client has sent.
OrderInv ==
  /\ \A t \in Worker : Publishing(t) =>
       /\ events[run[t].event].by = run[t].fd
       /\ run[t].fd \notin givenUp =>
            /\ events[run[t].event].from = sock[run[t].fd]
            /\ \A e \in 1 .. Len(events) : events[e].from = sock[run[t].fd] => e <= run[t].event
  /\ \A c \in Conn : \A i, j \in 1 .. Len(got[c]) :
       /\ i < j
       /\ events[got[c][i]].from = events[got[c][j]].from
       /\ events[got[c][j]].by \notin givenUp
       => got[c][i] < got[c][j]

NumbersInv ==
  /\ \A fd \in Fd \ givenUp : Keeper(fd) /\ Stage(fd) /\ Own(fd)
  /\ OrderInv

EventInv == TypeOK /\ UnreadInv /\ FreshInv /\ EventsInv /\ SentInv /\ OnceInv /\ WalkInv /\ SenderInv /\ NumbersInv
----------------------------------------------------------------------------
(* Lemmas on the operators of the model.                                   *)

\* A prefix of a prefix is a prefix: the tree's nodes are closed upwards.
LEMMA PrefixOfPrefix ==
  ASSUME NEW key \in Keys, NEW n \in 1 .. Len(key)
  PROVE  /\ Len(Prefix(key, n)) = n
         /\ \A m \in 1 .. n : Prefix(Prefix(key, n), m) = Prefix(key, m)
<1>1. key \in Seq(Nat) /\ Len(key) \in Nat
  BY EventAssumption, LenProperties
<1>2. \A i \in 1 .. n : key[i] \in Nat
  BY <1>1, ElementOfSeq
<1>3. Len(Prefix(key, n)) = n
  BY <1>1, <1>2, SubSeqProperties DEF Prefix
<1>4. ASSUME NEW m \in 1 .. n PROVE Prefix(Prefix(key, n), m) = Prefix(key, m)
  <2>1. 1 \in 1 .. Len(key) /\ 1 \in 1 .. n - 1 + 1 /\ m \in 1 .. n - 1 + 1
    BY <1>1
  <2>2. SubSeq(SubSeq(key, 1, n), 1, m) = SubSeq(key, 1 + 1 - 1, 1 + m - 1)
    BY ONLY <1>1, <2>1, n \in 1 .. Len(key), SubSeqOfSubSeq
  <2>3. 1 + 1 - 1 = 1 /\ 1 + m - 1 = m
    OBVIOUS
  <2> QED BY <2>2, <2>3 DEF Prefix
<1> QED BY <1>3, <1>4

\* std_client_tree::find goes through the prefixes of a key, the key among them;
\* those of a prefix are among them.
LEMMA PrefixesClosed ==
  ASSUME NEW key \in Keys
  PROVE  /\ key \in Prefixes(key)
         /\ \A node \in Prefixes(key) : Prefixes(node) \subseteq Prefixes(key)
<1>1. key \in Seq(Nat) /\ Len(key) \in Nat /\ Len(key) # 0
  BY EventAssumption, LenProperties, EmptySeq
<1>2. Prefix(key, Len(key)) = key
  BY <1>1, SubSeqFull DEF Prefix
<1>3. key \in Prefixes(key)
  BY <1>1, <1>2 DEF Prefixes
<1>4. ASSUME NEW node \in Prefixes(key) PROVE Prefixes(node) \subseteq Prefixes(key)
  <2>1. PICK n \in 1 .. Len(key) : node = Prefix(key, n)
    BY DEF Prefixes
  <2>2. Len(node) = n /\ \A m \in 1 .. n : Prefix(node, m) = Prefix(key, m)
    BY <2>1, PrefixOfPrefix
  <2>3. \A m \in 1 .. n : m \in 1 .. Len(key)
    BY <1>1
  <2> QED BY <2>2, <2>3 DEF Prefixes
<1> QED BY <1>3, <1>4

\* What a thread does has the parts that its place needs.
LEMMA RunParts ==
  ASSUME TypeOK, NEW t \in Worker
  PROVE  /\ run[t].at \in {"idle", "new", "data", "recv", "drop", "close", "return", "add", "del",
                           "publish", "walk"}
         /\ Busy(t) => run[t].fd \in Fd
         /\ At(t, "add") \/ At(t, "del") => run[t].key \in Key /\ run[t].from \in Conn
         /\ Publishing(t) => run[t].event \in 1 .. MaxEvents
         /\ Walking(t) => run[t].ix \in Nat /\ run[t].left \subseteq Fd /\ run[t].sent \subseteq Fd
<1>1. run[t] \in {Idle} \cup Calls \cup Walks
  BY DEF TypeOK
<1>2. CASE run[t] = Idle
  BY <1>2 DEF Idle, Busy, At, Publishing, Walking
<1>3. CASE run[t] \in [at : {"new", "data", "recv", "drop", "close", "return"}, fd : Fd]
  BY <1>3 DEF Busy, At, Publishing, Walking
<1>4. CASE run[t] \in [at : {"add", "del"}, fd : Fd, key : Key, from : Conn]
  BY <1>4 DEF Busy, At, Publishing, Walking
<1>5. CASE run[t] \in [at : {"publish"}, fd : Fd, event : 1 .. MaxEvents]
  BY <1>5 DEF Busy, At, Publishing, Walking
<1>6. CASE run[t] \in Walks
  BY <1>6 DEF Busy, At, Publishing, Walking, Walks
<1> QED BY <1>1, <1>2, <1>3, <1>4, <1>5, <1>6 DEF Calls

\* The thread that takes a step goes on to what the step says, the others stay.
LEMMA RunMoves ==
  ASSUME TypeOK, NEW t \in Worker, NEW r, run' = [run EXCEPT ![t] = r]
  PROVE  /\ run'[t] = r
         /\ \A u \in Worker : u # t => run'[u] = run[u]
         /\ r \in {Idle} \cup Calls \cup Walks => run' \in [Worker -> {Idle} \cup Calls \cup Walks]
BY DEF TypeOK

----------------------------------------------------------------------------
(* Types.                                                                  *)

Job == [kind : {"new", "data"}, fd : Fd]

\* The clients and the socket service: a job that is queued is for a descriptor, and
\* what is closed is not waited for.
LEMMA TypeService ==
  ASSUME TypeOK, UnreadInv,
         \/ \E c \in Conn : Accept(c) \/ Send(c) \/ HangUp(c)
         \/ \E fd \in Fd : Dispatch(fd)
         \/ ProcessClosed
  PROVE  TypeOK'
<1> USE DEF serviceVars, treeVars, historyVars
<1>0. jobs \in Seq(Job)
  BY DEF TypeOK, Job
<1>1. ASSUME NEW c \in Conn, Accept(c) PROVE TypeOK'
  <2>1. PICK fd \in Fd : /\ sock[fd] = NoConn
                         /\ sock' = [sock EXCEPT ![fd] = c]
                         /\ jobs' = Append(jobs, [kind |-> "new", fd |-> fd])
    BY <1>1 DEF Accept
  <2>2. [kind |-> "new", fd |-> fd] \in Job
    BY DEF Job
  <2>3. jobs' \in Seq(Job)
    BY <1>0, <2>1, <2>2, AppendProperties
  <2>4. sock' \in [Fd -> Conn \cup {NoConn}] /\ peer' \in [Conn -> {"new", "up", "gone"}]
        /\ \A fe \in watched : sock'[fe] # NoConn
    BY <1>1, <2>1, EventAssumption DEF Accept, TypeOK
  <2> QED BY <1>1, <2>3, <2>4 DEF Accept, TypeOK, Job
<1>2. ASSUME NEW c \in Conn, Send(c) PROVE TypeOK'
  <2>1. sendable' \in 0 .. MaxSent
    BY <1>2, EventAssumption DEF Send, TypeOK
  <2>2. unread' \in [Conn -> 0 .. MaxSent]
    <3>1. unread[c] \in 0 .. MaxSent /\ unread[c] + 1 \in 0 .. MaxSent
      BY <1>2, EventAssumption DEF Send, TypeOK, UnreadInv
    <3> QED BY <1>2, <3>1 DEF Send, TypeOK
  <2> QED BY <1>2, <2>1, <2>2 DEF Send, TypeOK
<1>3. ASSUME NEW c \in Conn, HangUp(c) PROVE TypeOK'
  BY <1>3 DEF HangUp, TypeOK
<1>4. ASSUME NEW fd \in Fd, Dispatch(fd) PROVE TypeOK'
  <2>1. [kind |-> "data", fd |-> fd] \in Job
    BY DEF Job
  <2>2. jobs' \in Seq(Job)
    BY <1>0, <1>4, <2>1, AppendProperties DEF Dispatch
  <2> QED BY <1>4, <2>2 DEF Dispatch, TypeOK, Job
<1>5. CASE ProcessClosed
  BY <1>5 DEF ProcessClosed, TypeOK
<1> QED BY <1>1, <1>2, <1>3, <1>4, <1>5

\* Between two callbacks.
LEMMA TypeThread ==
  ASSUME TypeOK, NEW t \in Worker, Start(t) \/ Return(t) \/ PendClose(t)
  PROVE  TypeOK'
<1> USE DEF serviceVars, treeVars, historyVars
<1>1. CASE Start(t)
  <2>0. jobs \in Seq(Job) /\ jobs # << >> /\ jobs' = Tail(jobs)
    BY <1>1 DEF TypeOK, Job, Start
  <2>1. Head(jobs) \in Job /\ jobs' \in Seq(Job)
    BY <2>0, HeadTailProperties
  <2>2. [at |-> Head(jobs).kind, fd |-> Head(jobs).fd] \in Calls
    BY <2>1 DEF Job, Calls
  <2>3. run' \in [Worker -> {Idle} \cup Calls \cup Walks]
    BY <1>1, <2>2, RunMoves DEF Start
  <2> QED BY <1>1, <2>1, <2>3 DEF Start, TypeOK, Job
<1>2. CASE Return(t)
  <2>1. run[t].fd \in Fd
    BY <1>2, RunParts DEF Return, At, Busy
  <2>2. run' \in [Worker -> {Idle} \cup Calls \cup Walks]
    BY <1>2, RunMoves DEF Return
  <2> QED BY <1>2, <2>1, <2>2 DEF Return, TypeOK
<1>3. CASE PendClose(t)
  <2>1. run[t].fd \in Fd
    BY <1>3, RunParts DEF PendClose, At, Busy
  <2>2. run' \in [Worker -> {Idle} \cup Calls \cup Walks]
    BY <1>3, RunMoves DEF PendClose
  <2> QED BY <1>3, <2>1, <2>2 DEF PendClose, TypeOK
<1> QED BY <1>1, <1>2, <1>3

\* The thread goes on in its callback, with its descriptor.
LEMMA GoesOn ==
  ASSUME TypeOK, NEW t \in Worker, Busy(t),
         NEW place \in {"new", "data", "recv", "drop", "close", "return"}, GoTo(t, place)
  PROVE  /\ run' \in [Worker -> {Idle} \cup Calls \cup Walks]
         /\ run'[t] = [at |-> place, fd |-> run[t].fd]
         /\ \A u \in Worker : u # t => run'[u] = run[u]
<1> DEFINE r == [at |-> place, fd |-> run[t].fd]
<1>1. r \in Calls
  BY RunParts DEF Calls
<1>2. run' = [run EXCEPT ![t] = r]
  BY DEF GoTo
<1> HIDE DEF r
<1>3. /\ run'[t] = r
      /\ \A u \in Worker : u # t => run'[u] = run[u]
      /\ run' \in [Worker -> {Idle} \cup Calls \cup Walks]
  BY <1>1, <1>2, RunMoves
<1> QED BY <1>3 DEF r

\* Forgetting a client leaves the nodes of the tree.
LEMMA TypeCallback ==
  ASSUME TypeOK, NEW t \in Worker, NewClient(t) \/ DelClient(t) \/ SomeData(t) \/ RecvFails(t)
  PROVE  TypeOK'
<1> USE DEF serviceVars, treeVars, historyVars
<1>0. Busy(t) /\ run[t].fd \in Fd
  BY RunParts DEF NewClient, DelClient, SomeData, RecvFails, At, Busy
<1>1. run' \in [Worker -> {Idle} \cup Calls \cup Walks]
  <2>1. CASE NewClient(t)
    BY <1>0, <2>1, GoesOn DEF NewClient
  <2>2. CASE DelClient(t)
    BY <1>0, <2>2, GoesOn DEF DelClient
  <2>3. CASE SomeData(t)
    <3>1. GoTo(t, "recv") \/ GoTo(t, "drop")
      BY <2>3 DEF SomeData
    <3> QED BY <1>0, <3>1, GoesOn
  <2>4. CASE RecvFails(t)
    BY <1>0, <2>4, GoesOn DEF RecvFails
  <2> QED BY <2>1, <2>2, <2>3, <2>4
<1>2. ASSUME CloseClient(run[t].fd)
      PROVE  /\ known' \subseteq Fd /\ nodes' = nodes /\ regs' \subseteq regs
             /\ asked' \in [Conn -> SUBSET Key] /\ events' = events /\ got' = got
             /\ givenUp' = givenUp
  BY <1>0, <1>2 DEF CloseClient, TypeOK, Without
<1>3. CASE NewClient(t)
  <2>1. /\ known' \subseteq Fd /\ nodes' = nodes /\ regs' \subseteq regs
        /\ asked' \in [Conn -> SUBSET Key] /\ events' = events /\ got' = got
        /\ givenUp' = givenUp
    BY <1>0, <1>2, <1>3 DEF NewClient, TypeOK
  <2> QED BY <1>1, <1>3, <2>1 DEF NewClient, TypeOK
<1>4. CASE DelClient(t)
  BY <1>1, <1>2, <1>4 DEF DelClient, TypeOK
<1>5. CASE SomeData(t)
  BY <1>1, <1>5 DEF SomeData, TypeOK
<1>6. CASE RecvFails(t)
  BY <1>1, <1>6 DEF RecvFails, TypeOK
<1> QED BY <1>3, <1>4, <1>5, <1>6

\* A walking thread has a walk's parts.
LEMMA WalkParts ==
  ASSUME TypeOK, NEW t \in Worker, Walking(t)
  PROVE  run[t] \in Walks
<1>1. run[t] \in {Idle} \cup Calls \cup Walks
  BY DEF TypeOK
<1>2. run[t] \notin Calls /\ run[t] # Idle
  BY DEF Walking, Calls, Idle
<1> QED BY <1>1, <1>2

\* A walk's parts.
Number == 1 .. MaxEvents
Walk   == [at : {"walk"}, fd : Fd, event : Number, ix : Nat, left : SUBSET Fd, sent : SUBSET Fd]
\* What a thread keeps while it is in publish.
LEMMA WalksAre == Walks = Walk
BY DEF Walks, Walk, Number

\* The walk goes one node further.
LEMMA NextNodeEffect ==
  ASSUME TypeOK, NEW t \in Worker, NextNode(t)
  PROVE  /\ run'[t].at = "walk" /\ run'[t].fd = run[t].fd /\ run'[t].event = run[t].event
         /\ run'[t].ix = run[t].ix + 1 /\ run'[t].sent = run[t].sent
         /\ run'[t].left = {fd \in Fd : <<fd, Prefix(WalkKey(t), run[t].ix + 1)>> \in regs}
         /\ \A u \in Worker : u # t => run'[u] = run[u]
         /\ run' \in [Worker -> {Idle} \cup Calls \cup Walks]
<1> DEFINE L == {fd \in Fd : <<fd, Prefix(WalkKey(t), run[t].ix + 1)>> \in regs}
           r == [run[t] EXCEPT !.ix = run[t].ix + 1, !.left = L, !.sent = run[t].sent]
<1>1. run[t] \in Walks /\ L \subseteq Fd
  BY WalkParts DEF NextNode
<1>2. run' = [run EXCEPT ![t].ix = @ + 1, ![t].left = L]
  BY DEF NextNode
<1> HIDE DEF L
<1>3. r = [run[t] EXCEPT !.ix = run[t].ix + 1, !.left = L]
  BY <1>1 DEF Walks
<1>4. run' = [run EXCEPT ![t] = r]
  BY <1>2, <1>3 DEF TypeOK
<1>5. run[t].ix + 1 \in Nat /\ run[t].sent \subseteq Fd
  BY <1>1 DEF Walks
<1>6. /\ r.at = "walk" /\ r.fd = run[t].fd /\ r.event = run[t].event
      /\ r.ix = run[t].ix + 1 /\ r.sent = run[t].sent /\ r.left = L
      /\ r \in Walks
  <2>1. run[t] \in Walk
    BY <1>1, WalksAre
  <2>2. r \in Walk
    BY <1>1, <1>5, <2>1 DEF Walk
  <2> QED BY <2>1, <2>2, WalksAre DEF Walk
<1> HIDE DEF r
<1>7. /\ run'[t] = r
      /\ \A u \in Worker : u # t => run'[u] = run[u]
      /\ run' \in [Worker -> {Idle} \cup Calls \cup Walks]
  BY <1>4, <1>6, RunMoves
<1> QED BY <1>6, <1>7 DEF L

\* The walk passes over some clients, or sends the event to one.
LEMMA WalkEffect ==
  ASSUME TypeOK, NEW t \in Worker, NEW fd \in Fd, Skip(t) \/ Deliver(t, fd)
  PROVE  /\ Walking(t)
         /\ run'[t].at = "walk" /\ run'[t].fd = run[t].fd /\ run'[t].event = run[t].event
         /\ run'[t].ix = run[t].ix /\ run[t].sent \subseteq run'[t].sent
         /\ run'[t].sent \cup run'[t].left = run[t].sent \cup run[t].left
         /\ Deliver(t, fd) => run'[t].sent = run[t].sent \cup {fd}
         /\ \A u \in Worker : u # t => run'[u] = run[u]
         /\ run' \in [Worker -> {Idle} \cup Calls \cup Walks]
<1> DEFINE L == IF Deliver(t, fd) THEN run[t].left \ {fd} ELSE run[t].left \ run[t].sent
           S == IF Deliver(t, fd) THEN run[t].sent \cup {fd} ELSE run[t].sent
           r == [run[t] EXCEPT !.ix = run[t].ix, !.left = L, !.sent = S]
<1>1. run[t] \in Walks /\ Walking(t)
  BY WalkParts DEF Skip, Deliver
<1>2. ASSUME Deliver(t, fd) PROVE run' = [run EXCEPT ![t] = r]
  <2>1. run' = [run EXCEPT ![t].left = @ \ {fd}, ![t].sent = @ \cup {fd}]
    BY <1>2 DEF Deliver
  <2>2. r = [run[t] EXCEPT !.left = run[t].left \ {fd}, !.sent = run[t].sent \cup {fd}]
    BY <1>1, <1>2 DEF Walks
  <2> HIDE DEF r
  <2> QED BY <2>1, <2>2, <1>1 DEF TypeOK, Walks
<1>3. ASSUME ~Deliver(t, fd) PROVE run' = [run EXCEPT ![t] = r]
  <2>1. run' = [run EXCEPT ![t].left = @ \ run[t].sent]
    BY <1>3 DEF Skip
  <2>2. r = [run[t] EXCEPT !.left = run[t].left \ run[t].sent]
    BY <1>1, <1>3 DEF Walks
  <2> HIDE DEF r
  <2> QED BY <2>1, <2>2 DEF TypeOK
<1>4. run' = [run EXCEPT ![t] = r]
  BY <1>2, <1>3
<1>5. /\ run[t].ix \in Nat /\ L \subseteq Fd /\ S \subseteq Fd /\ run[t].sent \subseteq S
      /\ S \cup L = run[t].sent \cup run[t].left
      /\ Deliver(t, fd) => S = run[t].sent \cup {fd}
  BY <1>1 DEF Walks, Deliver
<1> HIDE DEF L, S
<1>6. /\ r.at = "walk" /\ r.fd = run[t].fd /\ r.event = run[t].event
      /\ r.ix = run[t].ix /\ r.sent = S /\ r.left = L
      /\ r \in Walks
  <2>1. run[t] \in Walk
    BY <1>1, WalksAre
  <2>2. r \in Walk
    BY <1>5, <2>1 DEF Walk
  <2> QED BY <2>1, <2>2, WalksAre DEF Walk
<1> HIDE DEF r
<1>7. /\ run'[t] = r
      /\ \A u \in Worker : u # t => run'[u] = run[u]
      /\ run' \in [Worker -> {Idle} \cup Calls \cup Walks]
  BY <1>4, <1>6, RunMoves
<1> QED BY <1>1, <1>5, <1>6, <1>7

\* A message is read: it asks for a key or not for it any more, or it is the next event.
LEMMA RecvEffect ==
  ASSUME TypeOK, NEW t \in Worker, Recv(t)
  PROVE  \E c \in Conn :
         /\ At(t, "recv") /\ run[t].fd \in Fd /\ c = sock[run[t].fd] /\ c # NoConn
         /\ unread[c] > 0 /\ unread' = [unread EXCEPT ![c] = @ - 1]
         /\ run'[t].fd = run[t].fd
         /\ \A u \in Worker : u # t => run'[u] = run[u]
         /\ run' \in [Worker -> {Idle} \cup Calls \cup Walks]
         /\ \/ /\ run'[t].at \in {"add", "del"} /\ run'[t].from = c
               /\ events' = events
            \/ /\ run'[t].at = "publish" /\ run'[t].event = Len(events) + 1
               /\ Len(events) < MaxEvents
               /\ \E k \in EventKey : events' = Append(events, [from |-> c, by |-> run[t].fd, key |-> k])
<1> DEFINE c == sock[run[t].fd]
<1>1. /\ At(t, "recv") /\ run[t].fd \in Fd /\ c \in Conn /\ c # NoConn
      /\ unread[c] > 0 /\ unread' = [unread EXCEPT ![c] = @ - 1]
  BY RunParts DEF Recv, At, Busy, TypeOK
<1>2. ASSUME NEW op \in {"add", "del"}, NEW k \in Key, events' = events,
             run' = [run EXCEPT ![t] = [at |-> op, fd |-> run[t].fd, key |-> k, from |-> c]]
      PROVE  /\ run'[t] = [at |-> op, fd |-> run[t].fd, key |-> k, from |-> c]
             /\ \A u \in Worker : u # t => run'[u] = run[u]
             /\ run' \in [Worker -> {Idle} \cup Calls \cup Walks]
  <2>1. [at |-> op, fd |-> run[t].fd, key |-> k, from |-> c] \in Calls
    BY <1>1 DEF Calls
  <2> QED BY <1>2, <2>1, RunMoves
<1>3. ASSUME NEW k \in EventKey, Len(events) < MaxEvents,
             events' = Append(events, [from |-> c, by |-> run[t].fd, key |-> k]),
             run' = [run EXCEPT ![t] = [at |-> "publish", fd |-> run[t].fd, event |-> Len(events')]]
      PROVE  /\ run'[t] = [at |-> "publish", fd |-> run[t].fd, event |-> Len(events) + 1]
             /\ \A u \in Worker : u # t => run'[u] = run[u]
             /\ run' \in [Worker -> {Idle} \cup Calls \cup Walks]
  <2>1. events \in Seq([from : Conn, by : Fd, key : EventKey]) /\ [from |-> c, by |-> run[t].fd, key |-> k] \in [from : Conn, by : Fd, key : EventKey]
    BY <1>1 DEF TypeOK
  <2>2. Len(events') = Len(events) + 1 /\ Len(events) \in Nat
    BY <1>3, <2>1, AppendProperties, LenProperties
  <2>3. [at |-> "publish", fd |-> run[t].fd, event |-> Len(events) + 1] \in Calls
    BY <1>1, <1>3, <2>2, EventAssumption DEF Calls
  <2> QED BY <1>3, <2>2, <2>3, RunMoves
<1>4. CASE \E op \in {"add", "del"}, k \in Key :
             run' = [run EXCEPT ![t] = [at |-> op, fd |-> run[t].fd, key |-> k, from |-> c]] /\ events' = events
  <2>1. PICK op \in {"add", "del"}, k \in Key :
          run' = [run EXCEPT ![t] = [at |-> op, fd |-> run[t].fd, key |-> k, from |-> c]] /\ events' = events
    BY <1>4
  <2>2. /\ run'[t] = [at |-> op, fd |-> run[t].fd, key |-> k, from |-> c]
        /\ \A u \in Worker : u # t => run'[u] = run[u]
        /\ run' \in [Worker -> {Idle} \cup Calls \cup Walks]
    BY <1>2, <2>1
  <2> QED BY <1>1, <2>1, <2>2
<1>5. CASE /\ Len(events) < MaxEvents
           /\ \E k \in EventKey : events' = Append(events, [from |-> c, by |-> run[t].fd, key |-> k])
           /\ run' = [run EXCEPT ![t] = [at |-> "publish", fd |-> run[t].fd, event |-> Len(events')]]
  <2>1. PICK k \in EventKey : events' = Append(events, [from |-> c, by |-> run[t].fd, key |-> k])
    BY <1>5
  <2>2. /\ run'[t] = [at |-> "publish", fd |-> run[t].fd, event |-> Len(events) + 1]
        /\ \A u \in Worker : u # t => run'[u] = run[u]
        /\ run' \in [Worker -> {Idle} \cup Calls \cup Walks]
    BY <1>3, <1>5, <2>1
  <2> QED BY <1>1, <1>5, <2>2
<1>6. \/ \E op \in {"add", "del"}, k \in Key :
           run' = [run EXCEPT ![t] = [at |-> op, fd |-> run[t].fd, key |-> k, from |-> c]] /\ events' = events
      \/ /\ Len(events) < MaxEvents
         /\ \E k \in EventKey : events' = Append(events, [from |-> c, by |-> run[t].fd, key |-> k])
         /\ run' = [run EXCEPT ![t] = [at |-> "publish", fd |-> run[t].fd, event |-> Len(events')]]
  BY DEF Recv
<1> QED BY <1>4, <1>5, <1>6

\* The walk begins above the first node of the key, with nobody met.
LEMMA BeginEffect ==
  ASSUME TypeOK, NEW t \in Worker, BeginPublish(t)
  PROVE  /\ At(t, "publish")
         /\ run'[t].at = "walk" /\ run'[t].fd = run[t].fd /\ run'[t].event = run[t].event
         /\ run'[t].ix = 0 /\ run'[t].left = {} /\ run'[t].sent = {}
         /\ \A u \in Worker : u # t => run'[u] = run[u]
         /\ run' \in [Worker -> {Idle} \cup Calls \cup Walks]
<1> DEFINE r == [at |-> "walk", fd |-> run[t].fd, event |-> run[t].event, ix |-> 0, left |-> {}, sent |-> {}]
<1>1. At(t, "publish") /\ run' = [run EXCEPT ![t] = r]
  BY DEF BeginPublish, TypeOK
<1>2. run[t].fd \in Fd /\ run[t].event \in 1 .. MaxEvents
  BY <1>1, RunParts DEF Busy, Publishing, At
<1>3. /\ r \in Walks
      /\ r.at = "walk" /\ r.fd = run[t].fd /\ r.event = run[t].event
      /\ r.ix = 0 /\ r.left = {} /\ r.sent = {}
  BY <1>2 DEF Walks
<1> HIDE DEF r
<1>4. /\ run'[t] = r
      /\ \A u \in Worker : u # t => run'[u] = run[u]
      /\ run' \in [Worker -> {Idle} \cup Calls \cup Walks]
  BY <1>1, <1>3, RunMoves
<1> QED BY <1>1, <1>3, <1>4

\* Registering, which makes the nodes that are missing, and the opposite.
LEMMA TypeRegister ==
  ASSUME TypeOK, NEW t \in Worker, RegMessage(t) \/ DeregMessage(t)
  PROVE  TypeOK'
<1> USE DEF serviceVars
<1>1. /\ Busy(t) /\ run[t].fd \in Fd /\ run[t].key \in Key /\ run[t].from \in Conn /\ GoTo(t, "return")
  BY RunParts DEF RegMessage, DeregMessage, At, Busy
<1>2. run' \in [Worker -> {Idle} \cup Calls \cup Walks]
  BY <1>1, GoesOn
<1>3. CASE RegMessage(t)
  <2>1. run[t].key \in Keys
    BY <1>1 DEF Keys
  <2>2. /\ run[t].key \in Prefixes(run[t].key)
        /\ \A node \in Prefixes(run[t].key) : Prefixes(node) \subseteq Prefixes(run[t].key)
    BY <2>1, PrefixesClosed
  <2>3. nodes' = nodes \cup Prefixes(run[t].key) /\ regs' = regs \cup {<<run[t].fd, run[t].key>>}
    BY <1>3 DEF RegMessage
  <2>4. /\ nodes' \subseteq Nodes
        /\ \A node \in nodes' : Prefixes(node) \subseteq nodes'
        /\ regs' \subseteq Fd \X nodes'
    BY <1>1, <2>2, <2>3 DEF TypeOK, Nodes
  <2>5. asked' \in [Conn -> SUBSET Key]
    BY <1>1, <1>3 DEF RegMessage, TypeOK
  <2> QED BY <1>2, <1>3, <2>4, <2>5 DEF RegMessage, TypeOK
<1>4. CASE DeregMessage(t)
  <2>1. regs' \subseteq Fd \X nodes' /\ asked' \in [Conn -> SUBSET Key]
    BY <1>1, <1>4 DEF DeregMessage, TypeOK
  <2> QED BY <1>2, <1>4, <2>1 DEF DeregMessage, TypeOK
<1> QED BY <1>3, <1>4

\* Messages and events.
LEMMA TypePublish ==
  ASSUME TypeOK, NEW t \in Worker,
         \/ Recv(t) \/ BeginPublish(t) \/ NextNode(t) \/ EndPublish(t) \/ Skip(t)
         \/ \E fd \in Fd : Deliver(t, fd)
  PROVE  TypeOK'
<1> USE DEF serviceVars, treeVars, historyVars
<1>1. CASE Recv(t)
  <2>1. PICK c \in Conn :
         /\ unread[c] > 0 /\ unread' = [unread EXCEPT ![c] = @ - 1]
         /\ run' \in [Worker -> {Idle} \cup Calls \cup Walks] /\ run[t].fd \in Fd
         /\ \/ events' = events
            \/ \E k \in EventKey : events' = Append(events, [from |-> c, by |-> run[t].fd, key |-> k])
    BY <1>1, RecvEffect
  <2>2. unread' \in [Conn -> 0 .. MaxSent]
    BY <2>1, EventAssumption DEF TypeOK
  <2>3. events' \in Seq([from : Conn, by : Fd, key : EventKey])
    <3> DEFINE E == [from : Conn, by : Fd, key : EventKey]
    <3>1. events \in Seq(E) /\ \A k \in EventKey : [from |-> c, by |-> run[t].fd, key |-> k] \in E
      BY <2>1 DEF TypeOK
    <3>2. events' = events \/ \E e \in E : events' = Append(events, e)
      BY <2>1 DEF E
    <3> HIDE DEF E
    <3>3. events' \in Seq(E)
      BY <3>1, <3>2, AppendProperties
    <3> QED BY <3>3 DEF E
  <2> QED BY <1>1, <2>1, <2>2, <2>3 DEF Recv, TypeOK
<1>2. CASE BeginPublish(t)
  <2>1. run' \in [Worker -> {Idle} \cup Calls \cup Walks]
    BY <1>2, BeginEffect
  <2> QED BY <1>2, <2>1 DEF BeginPublish, TypeOK
<1>3. CASE NextNode(t)
  <2>1. run' \in [Worker -> {Idle} \cup Calls \cup Walks]
    BY <1>3, NextNodeEffect
  <2> QED BY <1>3, <2>1 DEF NextNode, TypeOK
<1>4. CASE EndPublish(t)
  <2>1. run' \in [Worker -> {Idle} \cup Calls \cup Walks]
    BY <1>4, GoesOn DEF EndPublish, Walking, Busy, At
  <2> QED BY <1>4, <2>1 DEF EndPublish, TypeOK
<1>5. CASE Skip(t)
  <2>1. run[t].left \cap run[t].sent # {} /\ run[t].left \subseteq Fd
    BY <1>5, RunParts DEF Skip
  <2>2. PICK fd \in Fd : TRUE
    BY <2>1
  <2>3. run' \in [Worker -> {Idle} \cup Calls \cup Walks]
    BY <1>5, WalkEffect
  <2> QED BY <1>5, <2>3 DEF Skip, TypeOK
<1>6. ASSUME NEW fd \in Fd, Deliver(t, fd) PROVE TypeOK'
  <2>1. Walking(t) /\ run' \in [Worker -> {Idle} \cup Calls \cup Walks]
    BY <1>6, WalkEffect
  <2>2. toClose' \subseteq Fd
    BY <1>6 DEF Deliver, TypeOK
  <2>3. got' \in [Conn -> Seq(1 .. MaxEvents)]
    <3> DEFINE E == 1 .. MaxEvents
    <3>1. run[t].event \in E /\ got \in [Conn -> Seq(E)]
      BY <2>1, RunParts DEF Publishing, Walking, TypeOK
    <3> HIDE DEF E
    <3>2. got' = got \/ \E c \in Conn : got' = [got EXCEPT ![c] = Append(@, run[t].event)]
      BY <1>6 DEF Deliver, TypeOK
    <3>3. \A c \in Conn : Append(got[c], run[t].event) \in Seq(E)
      BY <3>1, AppendProperties
    <3>4. got' \in [Conn -> Seq(E)]
      BY <3>1, <3>2, <3>3
    <3> QED BY <3>4 DEF E
  <2> QED BY <1>6, <2>1, <2>2, <2>3 DEF Deliver, TypeOK
<1> QED BY <1>1, <1>2, <1>3, <1>4, <1>5, <1>6

\* Every step of the server, the clients and the callbacks keeps the types.
LEMMA TypeKeeps ==
  ASSUME TypeOK, UnreadInv, Next
  PROVE  TypeOK'
BY TypeService, TypeThread, TypeCallback, TypeRegister, TypePublish DEF Next, ServerStep, WorkerStep

\* A request is counted as one that may be sent, is unread, or has been read.
LEMMA UnreadKeeps ==
  ASSUME TypeOK, UnreadInv, Next
  PROVE  UnreadInv'
<1> USE EventAssumption DEF UnreadInv, TypeOK
<1>1. CASE UNCHANGED <<unread, sendable>>
  BY <1>1
<1>2. ASSUME NEW c \in Conn, Send(c) PROVE UnreadInv'
  BY <1>2 DEF Send
<1>3. ASSUME NEW t \in Worker, Recv(t) PROVE UnreadInv'
  <2>1. PICK c \in Conn : unread[c] > 0 /\ unread' = [unread EXCEPT ![c] = @ - 1]
    BY <1>3, RecvEffect
  <2> QED BY <1>3, <2>1, SMTT(30) DEF Recv
<1>4. UNCHANGED <<unread, sendable>> \/ (\E c \in Conn : Send(c)) \/ \E t \in Worker : Recv(t)
  BY ZenonT(40) DEF Next, ServerStep, WorkerStep, Accept, HangUp, Dispatch, ProcessClosed, Start, Return, PendClose,
         NewClient, DelClient, SomeData, RecvFails, RegMessage, DeregMessage, BeginPublish, NextNode,
         EndPublish, Skip, Deliver
<1> QED BY <1>1, <1>2, <1>3, <1>4

----------------------------------------------------------------------------
(* Who changes what.                                                       *)

\* Events come from event_some_data's messages only.
LEMMA EventsChange == Next => UNCHANGED events \/ \E t \in Worker : Recv(t)
BY DEF Next, ServerStep, WorkerStep, Accept, Send, HangUp, Dispatch, ProcessClosed, Start, Return,
       PendClose, NewClient, DelClient, CloseClient, SomeData, RecvFails, RegMessage, DeregMessage,
       BeginPublish, NextNode, EndPublish, Skip, Deliver, historyVars

\* Events are sent by publish only.
LEMMA GotChanges == Next => UNCHANGED got \/ \E t \in Worker, fd \in Fd : Deliver(t, fd)
BY DEF Next, ServerStep, WorkerStep, Accept, Send, HangUp, Dispatch, ProcessClosed, Start, Return,
       PendClose, NewClient, DelClient, CloseClient, SomeData, RecvFails, Recv, RegMessage, DeregMessage,
       BeginPublish, NextNode, EndPublish, Skip, historyVars

\* Connections are made and given up by the clients.
LEMMA PeerChanges == Next => UNCHANGED peer \/ \E c \in Conn : Accept(c) \/ HangUp(c)
BY DEF Next, ServerStep, WorkerStep, Send, Dispatch, ProcessClosed, Start, Return,
       PendClose, NewClient, DelClient, SomeData, RecvFails, Recv, RegMessage, DeregMessage,
       BeginPublish, NextNode, EndPublish, Skip, Deliver

\* Descriptors are opened and closed by the server's thread only.
LEMMA SockChanges == Next => UNCHANGED sock \/ (\E c \in Conn : Accept(c)) \/ ProcessClosed
BY DEF Next, ServerStep, WorkerStep, Send, HangUp, Dispatch, Start, Return,
       PendClose, NewClient, DelClient, SomeData, RecvFails, Recv, RegMessage, DeregMessage,
       BeginPublish, NextNode, EndPublish, Skip, Deliver, serviceVars

\* The tree is written only while nobody reads it.
LEMMA RegsChange == Next => UNCHANGED regs \/ TreeIsFree
BY DEF Next, ServerStep, WorkerStep, Accept, Send, HangUp, Dispatch, ProcessClosed, Start, Return,
       PendClose, NewClient, DelClient, SomeData, RecvFails, Recv, RegMessage, DeregMessage,
       BeginPublish, NextNode, EndPublish, Skip, Deliver, treeVars

\* Who has been given up stays so.
LEMMA GivenUpGrows == Next => givenUp \subseteq givenUp'
BY DEF Next, ServerStep, WorkerStep, Accept, Send, HangUp, Dispatch, ProcessClosed, Start, Return,
       PendClose, NewClient, DelClient, SomeData, RecvFails, Recv, RegMessage, DeregMessage,
       BeginPublish, NextNode, EndPublish, Skip, Deliver, CloseClient, historyVars

\* A thread that is in a walk or about to begin one has been there before, or has just
\* read the event.
LEMMA Publishers ==
  ASSUME TypeOK, Next, NEW u \in Worker, Publishing(u)'
  PROVE  \/ run'[u] = run[u]
         \/ /\ Publishing(u) /\ Walking(u)' /\ run'[u].event = run[u].event /\ run'[u].fd = run[u].fd
            /\ Walking(u) => run[u].sent \subseteq run'[u].sent
         \/ Recv(u) /\ At(u, "publish")' /\ run'[u].event = Len(events) + 1
<1>1. CASE UNCHANGED run
  BY <1>1
<1>2. ASSUME NEW t \in Worker, NEW place \in {"new", "data", "recv", "drop", "close", "return"},
             Busy(t), GoTo(t, place)
      PROVE  run'[u] = run[u]
  <2>1. /\ run'[t] = [at |-> place, fd |-> run[t].fd]
        /\ u # t => run'[u] = run[u]
    BY <1>2, GoesOn
  <2>2. ~Publishing(t)'
    BY <2>1 DEF Publishing
  <2> QED BY <2>1, <2>2
<1>3. ASSUME NEW t \in Worker, Start(t) \/ Return(t) \/ PendClose(t)
      PROVE  run'[u] = run[u]
  <2>1. CASE Start(t)
    <3>1. run' = [run EXCEPT ![t] = [at |-> Head(jobs).kind, fd |-> Head(jobs).fd]]
          /\ jobs \in Seq(Job) /\ jobs # << >>
      BY <2>1 DEF Start, TypeOK, Job
    <3>2. Head(jobs) \in Job
      BY <3>1, HeadTailProperties
    <3>3. Head(jobs).kind \in {"new", "data"}
      BY <3>2 DEF Job
    <3> QED BY <3>1, <3>3, RunMoves DEF Publishing
  <2>2. CASE Return(t) \/ PendClose(t)
    <3>1. run' = [run EXCEPT ![t] = Idle]
      BY <2>2 DEF Return, PendClose
    <3> QED BY <3>1, RunMoves DEF Publishing, Idle
  <2> QED BY <1>3, <2>1, <2>2
<1>4. ASSUME NEW t \in Worker, NewClient(t) \/ DelClient(t) \/ SomeData(t) \/ RecvFails(t)
                                 \/ RegMessage(t) \/ DeregMessage(t) \/ EndPublish(t)
      PROVE  run'[u] = run[u]
  <2>1. Busy(t)
    BY <1>4 DEF NewClient, DelClient, SomeData, RecvFails, RegMessage, DeregMessage, EndPublish, Busy, At, Walking
  <2>2. GoTo(t, "close") \/ GoTo(t, "return") \/ GoTo(t, "recv") \/ GoTo(t, "drop")
    BY <1>4 DEF NewClient, DelClient, SomeData, RecvFails, RegMessage, DeregMessage, EndPublish
  <2> QED BY <1>2, <2>1, <2>2
<1>5. ASSUME NEW t \in Worker, Recv(t)
      PROVE  run'[u] = run[u] \/ (Recv(u) /\ At(u, "publish")' /\ run'[u].event = Len(events) + 1)
  BY <1>5, RecvEffect DEF Publishing, At
<1>6. ASSUME NEW t \in Worker, BeginPublish(t) \/ NextNode(t) \/ Skip(t) \/ \E fd \in Fd : Deliver(t, fd)
      PROVE  \/ run'[u] = run[u]
             \/ /\ Publishing(u) /\ Walking(u)' /\ run'[u].event = run[u].event /\ run'[u].fd = run[u].fd
                /\ Walking(u) => run[u].sent \subseteq run'[u].sent
  <2>1. CASE BeginPublish(t)
    <3>1. /\ run[t].at = "publish"
          /\ run'[t].at = "walk" /\ run'[t].fd = run[t].fd /\ run'[t].event = run[t].event
          /\ u # t => run'[u] = run[u]
      BY <2>1, BeginEffect DEF At
    <3> QED BY <3>1 DEF Publishing, Walking
  <2>2. CASE NextNode(t)
    <3>1. /\ Walking(t) /\ run'[t].at = "walk" /\ run'[t].fd = run[t].fd /\ run'[t].event = run[t].event
          /\ run'[t].sent = run[t].sent
          /\ u # t => run'[u] = run[u]
      BY <2>2, NextNodeEffect DEF NextNode
    <3> QED BY <3>1 DEF Publishing, Walking
  <2>3. CASE Skip(t)
    <3>1. PICK fd \in Fd : TRUE
      BY <2>3, RunParts DEF Skip
    <3> QED BY <2>3, WalkEffect DEF Publishing, Walking
  <2>4. ASSUME NEW fd \in Fd, Deliver(t, fd)
        PROVE  \/ run'[u] = run[u]
               \/ /\ Publishing(u) /\ Walking(u)' /\ run'[u].event = run[u].event /\ run'[u].fd = run[u].fd
                  /\ Walking(u) => run[u].sent \subseteq run'[u].sent
    BY <2>4, WalkEffect DEF Publishing, Walking
  <2> QED BY <1>6, <2>1, <2>2, <2>3, <2>4
<1>7. \/ UNCHANGED run
      \/ \E t \in Worker : WorkerStep(t)
  BY DEF Next, ServerStep, Accept, Send, HangUp, Dispatch, ProcessClosed
<1> QED BY <1>1, <1>3, <1>4, <1>5, <1>6, <1>7 DEF WorkerStep

\* What an event sent adds to what one connection has got.
LEMMA DeliverGives ==
  ASSUME TypeOK, NEW t \in Worker, NEW fd \in Fd, Deliver(t, fd), ~UNCHANGED got
  PROVE  /\ sock[fd] \in Conn /\ sock[fd] # NoConn /\ peer[sock[fd]] # "gone"
         /\ Walking(t) /\ fd \notin run[t].sent /\ run[t].event \in 1 .. MaxEvents
         /\ \A c \in Conn : c # sock[fd] => got'[c] = got[c]
         /\ Len(got[sock[fd]]) \in Nat /\ Len(got'[sock[fd]]) = Len(got[sock[fd]]) + 1
         /\ \A i \in 1 .. Len(got[sock[fd]]) : got'[sock[fd]][i] = got[sock[fd]][i]
         /\ got'[sock[fd]][Len(got[sock[fd]]) + 1] = run[t].event
<1> DEFINE E == 1 .. MaxEvents
           c == sock[fd]
<1>1. /\ c \in Conn /\ c # NoConn /\ peer[c] # "gone" /\ Walking(t) /\ fd \notin run[t].sent
      /\ got' = [got EXCEPT ![c] = Append(@, run[t].event)]
  BY DEF Deliver, TypeOK
<1>2. run[t].event \in E /\ got \in [Conn -> Seq(E)]
  BY <1>1, RunParts DEF Publishing, Walking, TypeOK
<1> HIDE DEF E, c
<1>3. got[c] \in Seq(E) /\ got'[c] = Append(got[c], run[t].event)
      /\ \A d \in Conn : d # c => got'[d] = got[d]
  BY <1>1, <1>2
<1>4. /\ Len(got[c]) \in Nat /\ Len(got'[c]) = Len(got[c]) + 1
      /\ \A i \in 1 .. Len(got[c]) : got'[c][i] = got[c][i]
      /\ got'[c][Len(got[c]) + 1] = run[t].event
  BY <1>2, <1>3, AppendProperties, LenProperties
<1> QED BY <1>1, <1>2, <1>3, <1>4 DEF c, E

\* Reading an event adds it to those that have been read.
LEMMA EventsGrow ==
  ASSUME TypeOK, Next
  PROVE  /\ Len(events) \in Nat /\ Len(events') \in Nat /\ Len(events) <= Len(events')
         /\ \A e \in 1 .. Len(events) : events'[e] = events[e]
         /\ ~UNCHANGED events => \E t \in Worker :
              /\ Recv(t) /\ At(t, "publish")' /\ Len(events) < MaxEvents
              /\ Len(events') = Len(events) + 1 /\ run'[t].event = Len(events) + 1
              /\ events'[Len(events) + 1].from = sock[run[t].fd]
              /\ events'[Len(events) + 1].by = run[t].fd
<1> DEFINE E == [from : Conn, by : Fd, key : EventKey]
<1>1. events \in Seq(E)
  BY DEF TypeOK
<1>2. CASE UNCHANGED events
  BY <1>1, <1>2, LenProperties
<1>3. CASE ~UNCHANGED events
  <2>1. PICK t \in Worker : Recv(t)
    BY <1>3, EventsChange
  <2>2. PICK c \in Conn, k \in EventKey :
          /\ c = sock[run[t].fd]
          /\ run'[t].at = "publish" /\ run'[t].event = Len(events) + 1 /\ Len(events) < MaxEvents
          /\ events' = Append(events, [from |-> c, by |-> run[t].fd, key |-> k])
    BY <1>3, <2>1, RecvEffect
  <2> DEFINE e == [from |-> c, by |-> run[t].fd, key |-> k]
  <2>3. e \in E /\ e.from = c /\ e.by = run[t].fd
    BY <2>1, RecvEffect
  <2> HIDE DEF e, E
  <2>4. /\ Len(events) \in Nat /\ Len(events') = Len(events) + 1
        /\ \A i \in 1 .. Len(events) : events'[i] = events[i]
        /\ events'[Len(events) + 1] = e
    BY <1>1, <2>2, <2>3, AppendProperties, LenProperties DEF e
  <2> QED BY <2>1, <2>2, <2>3, <2>4 DEF At
<1> QED BY <1>2, <1>3

\* A thread that is about to register something has been before, or has just read what.
LEMMA Registrars ==
  ASSUME TypeOK, Next, NEW u \in Worker, (At(u, "add") \/ At(u, "del"))'
  PROVE  run'[u] = run[u] \/ Recv(u)
<1> USE DEF At
<1>1. ASSUME NEW t \in Worker, NEW place \in {"new", "data", "recv", "drop", "close", "return"},
             Busy(t), GoTo(t, place)
      PROVE  run'[u] = run[u]
  <2>1. /\ run'[t] = [at |-> place, fd |-> run[t].fd]
        /\ u # t => run'[u] = run[u]
    BY <1>1, GoesOn
  <2> QED BY <2>1
<1>2. ASSUME NEW t \in Worker, Start(t) \/ Return(t) \/ PendClose(t)
      PROVE  run'[u] = run[u]
  <2>1. CASE Start(t)
    <3>1. run' = [run EXCEPT ![t] = [at |-> Head(jobs).kind, fd |-> Head(jobs).fd]]
          /\ jobs \in Seq(Job) /\ jobs # << >>
      BY <2>1 DEF Start, TypeOK, Job
    <3>2. Head(jobs) \in Job
      BY <3>1, HeadTailProperties
    <3>3. Head(jobs).kind \in {"new", "data"}
      BY <3>2 DEF Job
    <3> QED BY <3>1, <3>3, RunMoves
  <2>2. CASE Return(t) \/ PendClose(t)
    <3>1. run' = [run EXCEPT ![t] = Idle]
      BY <2>2 DEF Return, PendClose
    <3> QED BY <3>1, RunMoves DEF Idle
  <2> QED BY <1>2, <2>1, <2>2
<1>3. ASSUME NEW t \in Worker, NewClient(t) \/ DelClient(t) \/ SomeData(t) \/ RecvFails(t)
                                 \/ RegMessage(t) \/ DeregMessage(t) \/ EndPublish(t)
      PROVE  run'[u] = run[u]
  <2>1. Busy(t)
    BY <1>3 DEF NewClient, DelClient, SomeData, RecvFails, RegMessage, DeregMessage, EndPublish, Busy, Walking
  <2>2. GoTo(t, "close") \/ GoTo(t, "return") \/ GoTo(t, "recv") \/ GoTo(t, "drop")
    BY <1>3 DEF NewClient, DelClient, SomeData, RecvFails, RegMessage, DeregMessage, EndPublish
  <2> QED BY <1>1, <2>1, <2>2
<1>4. ASSUME NEW t \in Worker, BeginPublish(t) \/ NextNode(t) \/ Skip(t) \/ \E fd \in Fd : Deliver(t, fd)
      PROVE  run'[u] = run[u]
  <2>1. run'[t].at = "walk" /\ (u # t => run'[u] = run[u])
    <3>1. CASE BeginPublish(t)
      BY <3>1, BeginEffect
    <3>2. CASE NextNode(t)
      BY <3>2, NextNodeEffect
    <3>3. CASE Skip(t)
      <4>1. PICK fd \in Fd : TRUE
        BY <3>3, RunParts DEF Skip
      <4> QED BY <3>3, WalkEffect
    <3>4. CASE \E fd \in Fd : Deliver(t, fd)
      BY <3>4, WalkEffect
    <3> QED BY <1>4, <3>1, <3>2, <3>3, <3>4
  <2> QED BY <2>1
<1>5. ASSUME NEW t \in Worker, Recv(t) PROVE run'[u] = run[u] \/ Recv(u)
  BY <1>5, RecvEffect
<1>6. \/ UNCHANGED run
      \/ \E t \in Worker : WorkerStep(t)
  BY DEF Next, ServerStep, Accept, Send, HangUp, Dispatch, ProcessClosed
<1> QED BY <1>2, <1>3, <1>4, <1>5, <1>6 DEF WorkerStep

----------------------------------------------------------------------------
(* What holds whatever the clients are like.                               *)

\* A connection is made once, and nobody sends to one that has not been made.
LEMMA FreshKeeps ==
  ASSUME TypeOK, FreshInv, Next
  PROVE  FreshInv'
<1> USE DEF serviceVars, treeVars, historyVars
<1>1. ASSUME NEW c \in Conn, peer'[c] = "new" PROVE peer[c] = "new"
  BY <1>1, PeerChanges DEF Accept, HangUp, TypeOK
<1>2. ASSUME NEW c \in Conn, peer'[c] = "new" PROVE got'[c] = << >>
  <2>1. peer[c] = "new" /\ got[c] = << >>
    BY <1>1, <1>2 DEF FreshInv
  <2>2. ASSUME NEW t \in Worker, NEW fd \in Fd, Deliver(t, fd), ~UNCHANGED got PROVE got'[c] = got[c]
    BY <2>1, <2>2, DeliverGives DEF FreshInv
  <2> QED BY <2>1, <2>2, GotChanges
<1>3. ASSUME NEW c \in Conn, peer'[c] = "new" PROVE asked'[c] = {}
  <2>1. peer[c] = "new" /\ asked[c] = {}
    BY <1>1, <1>3 DEF FreshInv
  <2>2. ASSUME NEW t \in Worker, RegMessage(t) \/ DeregMessage(t) PROVE asked'[c] = {}
    BY <2>1, <2>2, RunParts DEF RegMessage, DeregMessage, FreshInv, TypeOK
  <2>3. ASSUME NEW fd \in Fd, CloseClient(fd) PROVE asked'[c] = {}
    BY <2>1, <2>3 DEF CloseClient, TypeOK
  <2>4. \/ UNCHANGED asked
        \/ \E t \in Worker : RegMessage(t) \/ DeregMessage(t)
        \/ \E t \in Worker : Busy(t) /\ CloseClient(run[t].fd)
    BY DEF Next, ServerStep, WorkerStep, Accept, Send, HangUp, Dispatch, ProcessClosed, Start, Return,
           PendClose, NewClient, DelClient, SomeData, RecvFails, Recv, BeginPublish, NextNode,
           EndPublish, Skip, Deliver, Busy, At
  <2> QED BY <2>1, <2>2, <2>3, <2>4, RunParts
<1>4. ASSUME NEW fd \in Fd, sock'[fd] # NoConn PROVE peer'[sock'[fd]] # "new"
  <2>1. CASE UNCHANGED sock
    BY <1>1, <1>4, <2>1 DEF FreshInv, TypeOK
  <2>2. ASSUME NEW c \in Conn, Accept(c) PROVE peer'[sock'[fd]] # "new"
    BY <1>1, <1>4, <2>2 DEF Accept, FreshInv, TypeOK
  <2>3. CASE ProcessClosed
    BY <1>1, <1>4, <2>3 DEF ProcessClosed, FreshInv, TypeOK
  <2> QED BY <2>1, <2>2, <2>3, SockChanges
<1>5. ASSUME NEW fd \in Fd, NEW fe \in Fd, sock'[fd] = sock'[fe], sock'[fd] # NoConn PROVE fd = fe
  <2>1. CASE UNCHANGED sock
    BY <1>5, <2>1 DEF FreshInv
  <2>2. ASSUME NEW c \in Conn, Accept(c) PROVE fd = fe
    BY <1>5, <2>2 DEF Accept, FreshInv, TypeOK
  <2>3. CASE ProcessClosed
    BY <1>5, <2>3 DEF ProcessClosed, FreshInv, TypeOK
  <2> QED BY <2>1, <2>2, <2>3, SockChanges
<1>6. ASSUME NEW u \in Worker, (At(u, "add") \/ At(u, "del"))' PROVE peer'[run'[u].from] # "new"
  <2>1. CASE run'[u] = run[u]
    <3>1. At(u, "add") \/ At(u, "del")
      BY <1>6, <2>1 DEF At
    <3> QED BY <1>1, <2>1, <3>1, RunParts DEF FreshInv
  <2>2. ASSUME Recv(u) PROVE peer'[run'[u].from] # "new"
    <3>1. PICK c \in Conn : /\ run[u].fd \in Fd /\ c = sock[run[u].fd] /\ c # NoConn
                            /\ run'[u].from = c \/ run'[u].at = "publish"
      BY <2>2, RecvEffect
    <3>2. peer[c] # "new" /\ run'[u].from = c
      BY <1>6, <3>1 DEF FreshInv, At
    <3> QED BY <1>1, <3>2
  <2> QED BY <1>6, <2>1, <2>2, Registrars
<1> QED BY <1>2, <1>3, <1>4, <1>5, <1>6 DEF FreshInv

\* A connection has one number as long as there is one.
LEMMA SenderKeeps ==
  ASSUME TypeOK, FreshInv, SenderInv, Next
  PROVE  SenderInv'
<1> SUFFICES ASSUME NEW u \in Worker, NEW fd \in Fd, (At(u, "add") \/ At(u, "del"))', sock'[fd] = run'[u].from
             PROVE  fd = run'[u].fd
  BY DEF SenderInv
<1>1. CASE run'[u] = run[u]
  <2>1. /\ At(u, "add") \/ At(u, "del")
        /\ run[u].from \in Conn /\ run[u].from # NoConn /\ peer[run[u].from] # "new"
    BY <1>1, RunParts, EventAssumption DEF At, FreshInv
  <2>2. sock[fd] = run[u].from
    BY <1>1, <2>1, SockChanges DEF Accept, ProcessClosed, TypeOK
  <2> QED BY <1>1, <2>1, <2>2 DEF SenderInv
<1>2. CASE Recv(u)
  <2>1. PICK c \in Conn : /\ run[u].fd \in Fd /\ c = sock[run[u].fd] /\ c # NoConn
                          /\ run'[u].fd = run[u].fd
                          /\ run'[u].from = c \/ run'[u].at = "publish"
    BY <1>2, RecvEffect
  <2>2. run'[u].from = c /\ sock' = sock
    BY <1>2, <2>1 DEF At, Recv, serviceVars
  <2> QED BY <2>1, <2>2 DEF FreshInv
<1> QED BY <1>1, <1>2, Registrars

\* An event has one thread that sends it.
LEMMA EventsKeeps ==
  ASSUME TypeOK, EventsInv, Next
  PROVE  EventsInv'
<1>0. /\ Len(events) \in Nat /\ Len(events') \in Nat /\ Len(events) <= Len(events')
      /\ ~UNCHANGED events => Len(events') = Len(events) + 1 /\ Len(events) < MaxEvents
  BY EventsGrow
<1>1. Len(events') <= MaxEvents
  BY <1>0, EventAssumption DEF EventsInv
<1>2. ASSUME NEW c \in Conn, NEW i \in 1 .. Len(got'[c]) PROVE got'[c][i] <= Len(events')
  <2>0. \A d \in Conn : Len(got[d]) \in Nat /\ \A j \in 1 .. Len(got[d]) : got[d][j] \in 1 .. MaxEvents
    <3> DEFINE E == 1 .. MaxEvents
    <3>1. ASSUME NEW d \in Conn PROVE got[d] \in Seq(E)
      BY DEF TypeOK
    <3> HIDE DEF E
    <3>2. \A d \in Conn : Len(got[d]) \in Nat /\ \A j \in 1 .. Len(got[d]) : got[d][j] \in E
      BY <3>1, ElementOfSeq, LenProperties
    <3> QED BY <3>2 DEF E
  <2>1. CASE UNCHANGED got
    BY <1>0, <1>2, <2>0, <2>1 DEF EventsInv
  <2>2. ASSUME NEW t \in Worker, NEW fd \in Fd, Deliver(t, fd), ~UNCHANGED got
        PROVE  got'[c][i] <= Len(events')
    <3>1. /\ Walking(t) /\ run[t].event \in 1 .. MaxEvents
          /\ c # sock[fd] => got'[c] = got[c]
          /\ Len(got[sock[fd]]) \in Nat /\ Len(got'[sock[fd]]) = Len(got[sock[fd]]) + 1
          /\ \A j \in 1 .. Len(got[sock[fd]]) : got'[sock[fd]][j] = got[sock[fd]][j]
          /\ got'[sock[fd]][Len(got[sock[fd]]) + 1] = run[t].event
      BY <2>2, DeliverGives
    <3>2. run[t].event <= Len(events)
      BY <3>1 DEF EventsInv, Publishing, Walking
    <3>3. CASE c = sock[fd] /\ i = Len(got[c]) + 1
      BY <1>0, <3>1, <3>2, <3>3
    <3>4. CASE i \in 1 .. Len(got[c])
      <4>1. got'[c][i] = got[c][i] /\ got[c][i] <= Len(events) /\ got[c][i] \in 1 .. MaxEvents
        BY <2>0, <3>1, <3>4 DEF EventsInv
      <4> QED BY <1>0, <4>1
    <3>5. (c = sock[fd] /\ i = Len(got[c]) + 1) \/ i \in 1 .. Len(got[c])
      BY <1>2, <2>0, <3>1
    <3> QED BY <3>3, <3>4, <3>5
  <2> QED BY <2>1, <2>2, GotChanges
<1>3. ASSUME NEW u \in Worker, Publishing(u)'
      PROVE  /\ run'[u].event <= Len(events') /\ run'[u].event \in Nat
             /\ \/ Publishing(u) /\ run'[u].event = run[u].event
                \/ Recv(u) /\ run'[u].event = Len(events) + 1 /\ ~UNCHANGED events
  <2>1. \/ Publishing(u) /\ run'[u].event = run[u].event
        \/ Recv(u) /\ At(u, "publish")' /\ run'[u].event = Len(events) + 1
    BY <1>3, Publishers DEF Publishing
  <2>2. ASSUME Recv(u), At(u, "publish")', run'[u].event = Len(events) + 1 PROVE ~UNCHANGED events
    <3>1. PICK c \in Conn : run[u].fd \in Fd /\
           (\/ run'[u].at \in {"add", "del"}
            \/ \E k \in EventKey : events' = Append(events, [from |-> c, by |-> run[u].fd, key |-> k]))
      BY <2>2, RecvEffect
    <3>2. PICK k \in EventKey : events' = Append(events, [from |-> c, by |-> run[u].fd, key |-> k])
      BY <2>2, <3>1 DEF At
    <3> DEFINE E == [from : Conn, by : Fd, key : EventKey]
               e == [from |-> c, by |-> run[u].fd, key |-> k]
    <3>3. events \in Seq(E) /\ e \in E /\ events' = Append(events, e)
      BY <3>1, <3>2 DEF TypeOK
    <3> HIDE DEF e, E
    <3>4. Len(events') = Len(events) + 1
      BY <3>3, AppendProperties
    <3> QED BY <1>0, <3>4
  <2>3. Publishing(u) => run[u].event \in 1 .. MaxEvents /\ run[u].event <= Len(events)
    BY RunParts DEF EventsInv
  <2> QED BY <1>0, <2>1, <2>2, <2>3
<1>4. ASSUME NEW u \in Worker, NEW v \in Worker, Publishing(u)', Publishing(v)', run'[u].event = run'[v].event
      PROVE  u = v
  <2>1. CASE Publishing(u) /\ run'[u].event = run[u].event /\ Publishing(v) /\ run'[v].event = run[v].event
    BY <1>4, <2>1 DEF EventsInv
  <2>2. CASE Recv(u) /\ Recv(v)
    <3>1. At(v, "recv") /\ ~At(v, "recv")' /\ (u # v => run'[v] = run[v])
      BY <1>4, <2>2, RecvEffect DEF At, Publishing
    <3> QED BY <3>1 DEF At
  <2>3. ASSUME NEW x \in Worker, Publishing(x) PROVE run[x].event <= Len(events) /\ run[x].event \in Nat
    BY <2>3, RunParts DEF EventsInv
  <2> QED BY <1>0, <1>3, <1>4, <2>1, <2>2, <2>3
<1> QED BY <1>1, <1>2, <1>3, <1>4 DEF EventsInv

\* Whoever has got an event while it is sent is in already_sent.
LEMMA SentKeeps ==
  ASSUME TypeOK, FreshInv, EventsInv, SentInv, Next
  PROVE  SentInv'
<1> SUFFICES ASSUME NEW u \in Worker, NEW c \in Conn, NEW i \in 1 .. Len(got'[c]),
                    Publishing(u)', got'[c][i] = run'[u].event
             PROVE  Walking(u)' /\ \A fd \in Fd : sock'[fd] = c => fd \in run'[u].sent
  BY DEF SentInv
<1>0. \A d \in Conn : Len(got[d]) \in Nat /\ \A j \in 1 .. Len(got[d]) :
        got[d][j] \in Nat /\ got[d][j] <= Len(events)
  <2> DEFINE E == 1 .. MaxEvents
  <2>1. ASSUME NEW d \in Conn PROVE got[d] \in Seq(E)
    BY DEF TypeOK
  <2> HIDE DEF E
  <2>2. \A d \in Conn : Len(got[d]) \in Nat /\ \A j \in 1 .. Len(got[d]) : got[d][j] \in E
    BY <2>1, ElementOfSeq, LenProperties
  <2> QED BY <2>2 DEF E, EventsInv
<1>1. \/ /\ Publishing(u) /\ run'[u].event = run[u].event
         /\ Walking(u) => Walking(u)' /\ run[u].sent \subseteq run'[u].sent
      \/ run'[u].event = Len(events) + 1 /\ Recv(u)
  BY Publishers DEF Publishing, Walking
<1>2. Len(events) \in Nat
  BY EventsGrow
<1>3. CASE UNCHANGED got
  <2>1. got[c][i] = run'[u].event /\ i \in 1 .. Len(got[c]) /\ got[c] # << >>
    BY <1>0, <1>3, EmptySeq
  <2>2. run'[u].event # Len(events) + 1
    BY <1>0, <1>2, <2>1
  <2>3. Walking(u) /\ \A fd \in Fd : sock[fd] = c => fd \in run[u].sent
    BY <1>1, <2>1, <2>2 DEF SentInv
  <2>4. ASSUME NEW fd \in Fd, sock'[fd] = c PROVE sock[fd] = c
    <3>1. peer[c] # "new" /\ c # NoConn
      BY <2>1, EventAssumption DEF FreshInv
    <3> QED BY <2>4, <3>1, SockChanges DEF Accept, ProcessClosed, TypeOK
  <2> QED BY <1>1, <2>2, <2>3, <2>4
<1>4. ASSUME NEW t \in Worker, NEW fd \in Fd, Deliver(t, fd), ~UNCHANGED got
      PROVE  Walking(u)' /\ \A fe \in Fd : sock'[fe] = c => fe \in run'[u].sent
  <2>1. /\ sock[fd] \in Conn /\ sock[fd] # NoConn
        /\ Walking(t) /\ run[t].event \in 1 .. MaxEvents
        /\ c # sock[fd] => got'[c] = got[c]
        /\ Len(got[sock[fd]]) \in Nat /\ Len(got'[sock[fd]]) = Len(got[sock[fd]]) + 1
        /\ \A j \in 1 .. Len(got[sock[fd]]) : got'[sock[fd]][j] = got[sock[fd]][j]
        /\ got'[sock[fd]][Len(got[sock[fd]]) + 1] = run[t].event
    BY <1>4, DeliverGives
  <2>2. /\ run'[t].at = "walk" /\ run'[t].sent = run[t].sent \cup {fd} /\ run'[t].event = run[t].event
        /\ \A v \in Worker : v # t => run'[v] = run[v]
    BY <1>4, WalkEffect
  <2>3. sock' = sock
    BY <1>4 DEF Deliver
  <2>4. Publishing(u) /\ run'[u].event = run[u].event
    BY <2>1, <2>2 DEF Publishing, Walking
  <2>5. CASE i \in 1 .. Len(got[c])
    <3>1. got[c][i] = run[u].event
      BY <2>1, <2>4, <2>5
    <3>2. Walking(u) /\ \A fe \in Fd : sock[fe] = c => fe \in run[u].sent
      BY <2>4, <2>5, <3>1 DEF SentInv
    <3> QED BY <2>2, <2>3, <3>2 DEF Walking
  <2>6. CASE c = sock[fd] /\ i = Len(got[c]) + 1
    <3>1. run[t].event = run[u].event /\ Publishing(t)
      BY <2>1, <2>4, <2>6 DEF Publishing, Walking
    <3>2. u = t
      BY <2>4, <3>1 DEF EventsInv
    <3>3. \A fe \in Fd : sock[fe] = c => fe = fd
      BY <2>1, <2>6 DEF FreshInv
    <3> QED BY <2>2, <2>3, <3>2, <3>3 DEF Walking
  <2>7. i \in 1 .. Len(got[c]) \/ (c = sock[fd] /\ i = Len(got[c]) + 1)
    BY <2>1
  <2> QED BY <2>5, <2>6, <2>7
<1> QED BY <1>3, <1>4, GotChanges

\* What is delivered has not been delivered to this connection before.
LEMMA OnceKeeps ==
  ASSUME TypeOK, SentInv, OnceInv, Next
  PROVE  OnceInv'
<1>1. CASE UNCHANGED got
  BY <1>1 DEF OnceInv
<1>2. ASSUME NEW t \in Worker, NEW fd \in Fd, Deliver(t, fd), ~UNCHANGED got PROVE OnceInv'
  <2> SUFFICES ASSUME NEW c \in Conn, NEW i \in 1 .. Len(got'[c]), NEW j \in 1 .. Len(got'[c]), i < j
               PROVE  got'[c][i] # got'[c][j]
    BY DEF OnceInv
  <2>1. /\ sock[fd] \in Conn
        /\ Walking(t) /\ fd \notin run[t].sent
        /\ c # sock[fd] => got'[c] = got[c]
        /\ Len(got[sock[fd]]) \in Nat /\ Len(got'[sock[fd]]) = Len(got[sock[fd]]) + 1
        /\ \A k \in 1 .. Len(got[sock[fd]]) : got'[sock[fd]][k] = got[sock[fd]][k]
        /\ got'[sock[fd]][Len(got[sock[fd]]) + 1] = run[t].event
    BY <1>2, DeliverGives
  <2>2. CASE c # sock[fd]
    BY <2>1, <2>2 DEF OnceInv
  <2>3. CASE c = sock[fd]
    <3>1. \A k \in 1 .. Len(got[c]) : got[c][k] # run[t].event
      BY <2>1, <2>3 DEF SentInv, Publishing, Walking
    <3>2. i \in 1 .. Len(got[c]) /\ (j \in 1 .. Len(got[c]) \/ j = Len(got[c]) + 1)
      BY <2>1, <2>3
    <3> QED BY <2>1, <2>3, <3>1, <3>2 DEF OnceInv
  <2> QED BY <2>2, <2>3
<1> QED BY <1>1, <1>2, GotChanges

\* A thread moves by its own steps only.
LEMMA Moves ==
  ASSUME TypeOK, Next, NEW u \in Worker
  PROVE  run'[u] = run[u] \/ WorkerStep(u)
<1>1. \/ UNCHANGED run
      \/ \E t \in Worker : WorkerStep(t)
  BY DEF Next, ServerStep, Accept, Send, HangUp, Dispatch, ProcessClosed
<1>2. ASSUME NEW t \in Worker, WorkerStep(t), u # t PROVE run'[u] = run[u]
  <2>1. ASSUME NEW r, run' = [run EXCEPT ![t] = r] PROVE run'[u] = run[u]
    BY <1>2, <2>1, RunMoves
  <2>2. CASE \/ Start(t) \/ Return(t) \/ PendClose(t) \/ NewClient(t) \/ DelClient(t) \/ SomeData(t)
             \/ RecvFails(t) \/ RegMessage(t) \/ DeregMessage(t) \/ EndPublish(t)
    BY <2>1, <2>2 DEF Start, Return, PendClose, NewClient, DelClient, SomeData, RecvFails, RegMessage,
                      DeregMessage, EndPublish, GoTo
  <2>3. CASE Recv(t)
    BY <1>2, <2>3, RecvEffect
  <2>4. CASE BeginPublish(t) \/ NextNode(t)
    BY <1>2, <2>4, BeginEffect, NextNodeEffect
  <2>5. CASE Skip(t)
    <3>1. PICK fd \in Fd : TRUE
      BY <2>5, RunParts DEF Skip
    <3> QED BY <1>2, <2>5, WalkEffect
  <2>6. CASE \E fd \in Fd : Deliver(t, fd)
    BY <1>2, <2>6, WalkEffect
  <2> QED BY <1>2, <2>2, <2>3, <2>4, <2>5, <2>6 DEF WorkerStep
<1> QED BY <1>1, <1>2

\* A thread that goes on to something else than the tree's clients does not walk.
LEMMA NoWalk ==
  ASSUME TypeOK, NEW t \in Worker,
         \/ Start(t) \/ Return(t) \/ PendClose(t) \/ NewClient(t) \/ DelClient(t) \/ SomeData(t)
         \/ RecvFails(t) \/ Recv(t) \/ RegMessage(t) \/ DeregMessage(t) \/ EndPublish(t)
  PROVE  ~Walking(t)'
<1>1. CASE Start(t)
  <2>1. run' = [run EXCEPT ![t] = [at |-> Head(jobs).kind, fd |-> Head(jobs).fd]]
        /\ jobs \in Seq(Job) /\ jobs # << >>
    BY <1>1 DEF Start, TypeOK, Job
  <2>2. Head(jobs) \in Job
    BY <2>1, HeadTailProperties
  <2>3. Head(jobs).kind \in {"new", "data"}
    BY <2>2 DEF Job
  <2>4. run'[t] = [at |-> Head(jobs).kind, fd |-> Head(jobs).fd]
    BY <2>1, RunMoves, ZenonT(40)
  <2> QED BY <2>3, <2>4 DEF Walking
<1>2. CASE Return(t) \/ PendClose(t)
  <2>1. run' = [run EXCEPT ![t] = Idle]
    BY <1>2 DEF Return, PendClose
  <2> QED BY <2>1, RunMoves DEF Walking, Idle
<1>3. CASE \/ NewClient(t) \/ DelClient(t) \/ SomeData(t) \/ RecvFails(t) \/ RegMessage(t)
           \/ DeregMessage(t) \/ EndPublish(t)
  <2>1. Busy(t)
    BY <1>3 DEF NewClient, DelClient, SomeData, RecvFails, RegMessage, DeregMessage, EndPublish, Busy, At, Walking
  <2>2. PICK place \in {"close", "return", "recv", "drop"} : GoTo(t, place)
    BY <1>3 DEF NewClient, DelClient, SomeData, RecvFails, RegMessage, DeregMessage, EndPublish
  <2>3. run'[t] = [at |-> place, fd |-> run[t].fd]
    BY <2>1, <2>2, GoesOn
  <2> QED BY <2>3 DEF Walking
<1>4. CASE Recv(t)
  <2>1. run'[t].at \in {"add", "del", "publish"}
    BY <1>4, RecvEffect
  <2> QED BY <2>1 DEF Walking
<1> QED BY <1>1, <1>2, <1>3, <1>4

\* A thread that walks has done so before, or has begun now.
LEMMA Walkers ==
  ASSUME TypeOK, Next, NEW u \in Worker, Walking(u)'
  PROVE  \/ run'[u] = run[u]
         \/ BeginPublish(u) \/ NextNode(u) \/ Skip(u) \/ \E fd \in Fd : Deliver(u, fd)
BY Moves, NoWalk DEF WorkerStep

\* The event of a walk stays, and so does the tree under it.
LEMMA WalkStays ==
  ASSUME TypeOK, EventsInv, Next, NEW u \in Worker, Publishing(u), run'[u].event = run[u].event
  PROVE  /\ WalkKey(u)' = WalkKey(u)
         /\ WalkKey(u) \in EventKey /\ WalkKey(u) \in Keys
         /\ Walking(u) => regs' = regs
<1>1. run[u].event \in 1 .. MaxEvents /\ run[u].event <= Len(events) /\ Len(events) \in Nat
  BY RunParts, EventsGrow DEF EventsInv
<1>2. run[u].event \in 1 .. Len(events)
  BY <1>1
<1>3. events'[run[u].event] = events[run[u].event]
  BY <1>2, EventsGrow
<1>4. events[run[u].event] \in [from : Conn, by : Fd, key : EventKey]
  <2> DEFINE E == [from : Conn, by : Fd, key : EventKey]
  <2>1. events \in Seq(E)
    BY DEF TypeOK
  <2> HIDE DEF E
  <2>2. events[run[u].event] \in E
    BY <1>2, <2>1, ElementOfSeq
  <2> QED BY <2>2 DEF E
<1>5. WalkKey(u) \in EventKey
  BY <1>4 DEF WalkKey
<1>6. Walking(u) => regs' = regs
  BY RegsChange DEF TreeIsFree
<1> QED BY <1>3, <1>5, <1>6 DEF WalkKey, Keys

\* A walk has met those that are registered for what of the key is behind it.
LEMMA WalkKeeps ==
  ASSUME TypeOK, EventsInv, WalkInv, Next
  PROVE  WalkInv'
<1> SUFFICES ASSUME NEW u \in Worker, Walking(u)'
             PROVE  /\ run'[u].ix <= Len(WalkKey(u)')
                    /\ run'[u].sent \cup run'[u].left = Reached(WalkKey(u), run[u].ix)'
  BY DEF WalkInv
<1>1. CASE run'[u] = run[u]
  <2>1. Walking(u) /\ Publishing(u) /\ run'[u].event = run[u].event
    BY <1>1 DEF Walking, Publishing
  <2>2. WalkKey(u)' = WalkKey(u) /\ regs' = regs
    BY <2>1, WalkStays
  <2>3. Reached(WalkKey(u), run[u].ix)' = Reached(WalkKey(u), run[u].ix)
    BY <1>1, <2>2 DEF Reached
  <2> QED BY <1>1, <2>1, <2>2, <2>3 DEF WalkInv
<1>2. CASE BeginPublish(u)
  <2>1. /\ At(u, "publish") /\ run'[u].event = run[u].event
        /\ run'[u].ix = 0 /\ run'[u].left = {} /\ run'[u].sent = {}
    BY <1>2, BeginEffect
  <2>2. WalkKey(u)' = WalkKey(u) /\ WalkKey(u) \in Keys
    BY <2>1, WalkStays DEF Publishing, At
  <2>3. Len(WalkKey(u)) \in Nat
    BY <2>2, EventAssumption, LenProperties
  <2>4. Reached(WalkKey(u), run[u].ix)' = {}
    BY <2>1 DEF Reached
  <2> QED BY <2>1, <2>2, <2>3, <2>4
<1>3. CASE NextNode(u)
  <2>1. /\ Walking(u) /\ run[u].left = {} /\ run[u].ix < Len(WalkKey(u)) /\ run[u].ix \in Nat
        /\ run'[u].event = run[u].event /\ run'[u].ix = run[u].ix + 1 /\ run'[u].sent = run[u].sent
        /\ run'[u].left = {fd \in Fd : <<fd, Prefix(WalkKey(u), run[u].ix + 1)>> \in regs}
    BY <1>3, NextNodeEffect, RunParts DEF NextNode, HasNext
  <2>2. WalkKey(u)' = WalkKey(u) /\ WalkKey(u) \in Keys /\ regs' = regs
    BY <2>1, WalkStays DEF Publishing, Walking
  <2>3. Len(WalkKey(u)) \in Nat
    BY <2>2, EventAssumption, LenProperties
  <2>4. Reached(WalkKey(u), run[u].ix)' = Reached(WalkKey(u), run[u].ix + 1)
    BY <2>1, <2>2 DEF Reached
  <2>5. \A m : m \in 1 .. run[u].ix + 1 <=> m \in 1 .. run[u].ix \/ m = run[u].ix + 1
    BY <2>1
  <2>6. Reached(WalkKey(u), run[u].ix + 1) = Reached(WalkKey(u), run[u].ix) \cup run'[u].left
    BY <2>1, <2>5 DEF Reached
  <2>7. run[u].sent = Reached(WalkKey(u), run[u].ix)
    BY <2>1 DEF WalkInv
  <2> QED BY <2>1, <2>2, <2>3, <2>4, <2>6, <2>7
<1>4. CASE Skip(u) \/ \E fd \in Fd : Deliver(u, fd)
  <2>1. PICK fd \in Fd : Skip(u) \/ Deliver(u, fd)
    <3>1. Skip(u) => \E fd \in Fd : TRUE
      BY RunParts DEF Skip
    <3> QED BY <1>4, <3>1
  <2>2. /\ Walking(u) /\ run'[u].event = run[u].event /\ run'[u].ix = run[u].ix
        /\ run'[u].sent \cup run'[u].left = run[u].sent \cup run[u].left
    BY <2>1, WalkEffect
  <2>3. WalkKey(u)' = WalkKey(u) /\ regs' = regs
    BY <2>2, WalkStays DEF Publishing, Walking
  <2>4. Reached(WalkKey(u), run[u].ix)' = Reached(WalkKey(u), run[u].ix)
    BY <2>2, <2>3 DEF Reached
  <2> QED BY <2>2, <2>3, <2>4 DEF WalkInv
<1> QED BY <1>1, <1>2, <1>3, <1>4, Walkers

\* A walk that ends has met everybody: below the last node there is none, so
\* nobody is registered there.
LEMMA WalkEnds ==
  ASSUME TypeOK, EventsInv, WalkInv, Next, NEW u \in Worker, Walking(u), ~Walking(u)'
  PROVE  run[u].sent = Subscribed(WalkKey(u))
<1>1. EndPublish(u)
  <2>1. run'[u] # run[u]
    BY DEF Walking
  <2>2. WorkerStep(u)
    BY <2>1, Moves
  <2>3. NextNode(u) => Walking(u)'
    BY NextNodeEffect DEF Walking
  <2>4. Skip(u) => Walking(u)'
    <3>1. Skip(u) => \E fd \in Fd : TRUE
      BY RunParts DEF Skip
    <3> QED BY <3>1, WalkEffect DEF Walking
  <2>5. \A fd \in Fd : Deliver(u, fd) => Walking(u)'
    BY WalkEffect DEF Walking
  <2>6. ~(\/ Start(u) \/ Return(u) \/ PendClose(u) \/ NewClient(u) \/ DelClient(u) \/ SomeData(u)
          \/ RecvFails(u) \/ Recv(u) \/ RegMessage(u) \/ DeregMessage(u) \/ BeginPublish(u))
    BY DEF Start, Return, PendClose, NewClient, DelClient, SomeData, RecvFails, Recv, RegMessage,
           DeregMessage, BeginPublish, At, Walking, Idle
  <2> QED BY <2>2, <2>3, <2>4, <2>5, <2>6 DEF WorkerStep
<1> DEFINE key == WalkKey(u)
           n   == run[u].ix
<1>2. /\ run[u].left = {} /\ ~HasNext(u) /\ n \in Nat /\ n <= Len(key)
      /\ run[u].sent = Reached(key, n)
  BY <1>1, RunParts DEF EndPublish, WalkInv
<1>3. key \in Keys
  <2>1. run[u].event \in 1 .. MaxEvents /\ run[u].event <= Len(events) /\ Len(events) \in Nat
    BY RunParts, EventsGrow DEF EventsInv, Publishing, Walking
  <2> DEFINE E == [from : Conn, by : Fd, key : EventKey]
  <2>2. events \in Seq(E) /\ run[u].event \in 1 .. Len(events)
    BY <2>1 DEF TypeOK
  <2> HIDE DEF E, key
  <2>3. events[run[u].event] \in E
    BY <2>2, ElementOfSeq
  <2> QED BY <2>3 DEF E, key, WalkKey, Keys
<1>4. Len(key) \in Nat
  BY <1>3, EventAssumption, LenProperties
<1>5. Prefix(key, n + 1) \notin nodes \/ n = Len(key)
  BY <1>2, <1>4 DEF HasNext
<1> HIDE DEF key, n
<1>6. ASSUME NEW fd \in Fd, NEW m \in 1 .. Len(key), <<fd, Prefix(key, m)>> \in regs PROVE m \in 1 .. n
  <2>1. Prefix(key, m) \in nodes /\ Prefixes(Prefix(key, m)) \subseteq nodes
    BY <1>6 DEF TypeOK
  <2>2. Len(Prefix(key, m)) = m /\ \A k \in 1 .. m : Prefix(Prefix(key, m), k) = Prefix(key, k)
    BY <1>3, PrefixOfPrefix
  <2>3. \A k \in 1 .. m : Prefix(key, k) \in nodes
    BY <2>1, <2>2 DEF Prefixes
  <2>4. ~(n + 1 \in 1 .. m)
    BY <1>2, <1>4, <1>5, <2>3
  <2> QED BY <1>2, <1>4, <2>4
<1>7. \A m \in 1 .. n : m \in 1 .. Len(key)
  BY <1>2, <1>4
<1>8. Subscribed(key) = Reached(key, n)
  BY <1>6, <1>7 DEF Subscribed, Reached, Prefixes
<1> QED BY <1>2, <1>8 DEF key

----------------------------------------------------------------------------
(* What holds of a number no publisher has given up.                        *)

InCallback(t) ==
  \/ NewClient(t) \/ DelClient(t) \/ SomeData(t) \/ RecvFails(t) \/ Recv(t)
  \/ RegMessage(t) \/ DeregMessage(t) \/ BeginPublish(t) \/ NextNode(t) \/ EndPublish(t) \/ Skip(t)
  \/ \E fd \in Fd : Deliver(t, fd)

\* A thread keeps its descriptor to the end of its callback.
LEMMA CallbackEffect ==
  ASSUME TypeOK, NEW t \in Worker, InCallback(t)
  PROVE  /\ Busy(t) /\ Busy(t)' /\ run'[t].fd = run[t].fd /\ run[t].fd \in Fd
         /\ \A u \in Worker : u # t => run'[u] = run[u]
         /\ UNCHANGED <<sock, watched, jobs>>
<1> USE DEF serviceVars
<1>1. CASE \/ NewClient(t) \/ DelClient(t) \/ SomeData(t) \/ RecvFails(t) \/ RegMessage(t)
           \/ DeregMessage(t) \/ EndPublish(t)
  <2>1. Busy(t)
    BY <1>1 DEF NewClient, DelClient, SomeData, RecvFails, RegMessage, DeregMessage, EndPublish, Busy, At, Walking
  <2>2. PICK place \in {"close", "return", "recv", "drop"} : GoTo(t, place)
    BY <1>1 DEF NewClient, DelClient, SomeData, RecvFails, RegMessage, DeregMessage, EndPublish
  <2>3. run'[t] = [at |-> place, fd |-> run[t].fd] /\ \A u \in Worker : u # t => run'[u] = run[u]
    BY <2>1, <2>2, GoesOn
  <2>4. run'[t].fd = run[t].fd /\ run'[t].at # "idle"
    BY <2>3
  <2>5. UNCHANGED <<sock, watched, jobs>>
    BY <1>1 DEF NewClient, DelClient, SomeData, RecvFails, RegMessage, DeregMessage, EndPublish
  <2> QED BY <2>1, <2>3, <2>4, <2>5, RunParts DEF Busy, At
<1>2. CASE Recv(t)
  <2>1. /\ run[t].at = "recv" /\ run[t].fd \in Fd /\ run'[t].fd = run[t].fd
        /\ run'[t].at \in {"add", "del", "publish"}
        /\ \A u \in Worker : u # t => run'[u] = run[u]
    BY <1>2, RecvEffect DEF At
  <2> QED BY <1>2, <2>1 DEF Busy, At, Recv
<1>3. CASE BeginPublish(t) \/ NextNode(t)
  <2>1. /\ run[t].at \in {"publish", "walk"} /\ run'[t].at = "walk" /\ run'[t].fd = run[t].fd
        /\ \A u \in Worker : u # t => run'[u] = run[u]
    BY <1>3, BeginEffect, NextNodeEffect DEF At, NextNode, Walking
  <2>2. UNCHANGED <<sock, watched, jobs>>
    BY <1>3 DEF BeginPublish, NextNode
  <2> QED BY <2>1, <2>2, RunParts DEF Busy, At
<1>4. CASE Skip(t) \/ \E fd \in Fd : Deliver(t, fd)
  <2>1. PICK fd \in Fd : Skip(t) \/ Deliver(t, fd)
    <3>1. Skip(t) => \E fd \in Fd : TRUE
      BY RunParts DEF Skip
    <3> QED BY <1>4, <3>1
  <2>2. /\ run[t].at = "walk" /\ run'[t].at = "walk" /\ run'[t].fd = run[t].fd
        /\ \A u \in Worker : u # t => run'[u] = run[u]
    BY <2>1, WalkEffect DEF Walking
  <2>3. UNCHANGED <<sock, watched, jobs>>
    BY <2>1 DEF Skip, Deliver
  <2> QED BY <2>2, <2>3, RunParts DEF Busy, At
<1> QED BY <1>1, <1>2, <1>3, <1>4 DEF InCallback

\* Every node somebody is registered for is in the tree.
LEMMA KeysAre == TypeOK => \A fd \in Fd : \A node : node \in KeysOf(fd) <=> <<fd, node>> \in regs
BY DEF TypeOK, KeysOf

\* Only publish has a descriptor closed that is not its thread's, when std_write fails:
\* then it is given up.
LEMMA ToCloseStays ==
  ASSUME NEW t \in Worker, InCallback(t), NEW f \in Fd, f \notin givenUp'
  PROVE  f \in toClose' <=> f \in toClose
BY DEF InCallback, NewClient, DelClient, SomeData, RecvFails, Recv, RegMessage, DeregMessage,
   BeginPublish, NextNode, EndPublish, Skip, Deliver, serviceVars

\* A job is queued behind the others, and the first is taken.
LEMMA JobQueued ==
  ASSUME TypeOK, NEW kind \in {"new", "data"}, NEW fd \in Fd,
         jobs' = Append(jobs, [kind |-> kind, fd |-> fd])
  PROVE  /\ Len(jobs) \in Nat /\ Len(jobs') = Len(jobs) + 1
         /\ \A i \in 1 .. Len(jobs) : jobs'[i] = jobs[i]
         /\ jobs'[Len(jobs) + 1].kind = kind /\ jobs'[Len(jobs) + 1].fd = fd
<1> DEFINE j == [kind |-> kind, fd |-> fd]
<1>1. jobs \in Seq(Job) /\ j \in Job /\ j.kind = kind /\ j.fd = fd /\ jobs' = Append(jobs, j)
  BY DEF TypeOK, Job
<1> HIDE DEF j
<1>2. /\ Len(jobs) \in Nat /\ Len(jobs') = Len(jobs) + 1
      /\ \A i \in 1 .. Len(jobs) : jobs'[i] = jobs[i]
      /\ jobs'[Len(jobs) + 1] = j
  BY <1>1, AppendProperties, LenProperties
<1> QED BY <1>1, <1>2

\* A thread takes the first job, the others move up.
LEMMA JobTaken ==
  ASSUME TypeOK, NEW t \in Worker, Start(t)
  PROVE  /\ Len(jobs) \in Nat \ {0} /\ Len(jobs') = Len(jobs) - 1
         /\ \A i \in 1 .. Len(jobs') : jobs'[i] = jobs[i + 1]
         /\ jobs[1].kind \in {"new", "data"} /\ jobs[1].fd \in Fd
         /\ run'[t].at = jobs[1].kind /\ run'[t].fd = jobs[1].fd
         /\ \A u \in Worker : u # t => run'[u] = run[u]
<1>1. jobs \in Seq(Job) /\ jobs # << >> /\ jobs' = Tail(jobs)
      /\ run' = [run EXCEPT ![t] = [at |-> Head(jobs).kind, fd |-> Head(jobs).fd]]
  BY DEF TypeOK, Job, Start
<1>2. /\ Len(jobs) \in Nat \ {0} /\ Len(jobs') = Len(jobs) - 1
      /\ \A i \in 1 .. Len(jobs') : jobs'[i] = jobs[i + 1]
      /\ Head(jobs) \in Job /\ Head(jobs) = jobs[1]
  BY <1>1, HeadTailProperties, LenProperties, EmptySeq
<1>3. jobs[1].kind \in {"new", "data"} /\ jobs[1].fd \in Fd
  BY <1>2 DEF Job
<1>4. /\ run'[t] = [at |-> Head(jobs).kind, fd |-> Head(jobs).fd]
      /\ \A u \in Worker : u # t => run'[u] = run[u]
  BY <1>1, RunMoves
<1> QED BY <1>2, <1>3, <1>4

\* A queued job is for a new client or for data.
LEMMA JobsTyped ==
  ASSUME TypeOK
  PROVE  Len(jobs) \in Nat /\ \A i \in 1 .. Len(jobs) : jobs[i].fd \in Fd /\ jobs[i].kind \in {"new", "data"}
<1>1. jobs \in Seq(Job)
  BY DEF TypeOK, Job
<1>2. Len(jobs) \in Nat /\ \A i \in 1 .. Len(jobs) : jobs[i] \in Job
  BY <1>1, ElementOfSeq, LenProperties
<1> QED BY <1>2 DEF Job

\* A number goes from one keeper to the next.
LEMMA KeeperKeeps ==
  ASSUME TypeOK, Next, NEW f \in Fd, f \notin givenUp', Keeper(f)
  PROVE  Keeper(f)'
<1>1. ASSUME NEW c \in Conn, Send(c) \/ HangUp(c) PROVE Keeper(f)'
  <2>1. UNCHANGED <<run, jobs, watched, toClose, sock>>
    BY <1>1 DEF Send, HangUp, serviceVars
  <2> QED BY <2>1 DEF Keeper, Holds, Busy, At, Waiting
<1>2. ASSUME NEW t \in Worker, InCallback(t) PROVE Keeper(f)'
  <2>1. /\ UNCHANGED <<jobs, watched, sock>> /\ (f \in toClose' <=> f \in toClose)
        /\ \A u \in Worker : Holds(u, f)' <=> Holds(u, f)
    BY <1>2, CallbackEffect, ToCloseStays DEF Holds, Busy, At
  <2>2. Waiting(f)' <=> Waiting(f)
    BY <2>1 DEF Waiting
  <2> QED BY <2>1, <2>2 DEF Keeper
<1>3. ASSUME NEW c \in Conn, Accept(c) PROVE Keeper(f)'
  <2>1. PICK fd \in Fd : /\ sock[fd] = NoConn
                         /\ sock' = [sock EXCEPT ![fd] = c]
                         /\ jobs' = Append(jobs, [kind |-> "new", fd |-> fd])
    BY <1>3 DEF Accept
  <2>2. /\ Len(jobs) \in Nat /\ Len(jobs') = Len(jobs) + 1
        /\ \A i \in 1 .. Len(jobs) : jobs'[i] = jobs[i]
        /\ jobs'[Len(jobs) + 1].fd = fd
    BY <2>1, JobQueued
  <2>3. UNCHANGED <<run, watched, toClose>> /\ \A u \in Worker : Holds(u, f)' <=> Holds(u, f)
    BY <1>3 DEF Accept, Holds, Busy, At
  <2>4. \A i \in 1 .. Len(jobs') : i \in 1 .. Len(jobs) \/ i = Len(jobs) + 1
    BY <2>2
  <2>5. sock'[fd] # NoConn /\ (f # fd => sock'[f] = sock[f])
    BY <2>1, EventAssumption DEF TypeOK
  <2>6. CASE f = fd
    <3>1. f \notin watched \cup toClose /\ ~Waiting(f) /\ \A u \in Worker : ~Holds(u, f)
      BY <2>1, <2>6 DEF Keeper, TypeOK
    <3>2. \A i \in 1 .. Len(jobs) : jobs'[i].fd # f
      BY <2>2, <3>1 DEF Waiting
    <3>3. \A i, j \in 1 .. Len(jobs') : jobs'[i].fd = f /\ jobs'[j].fd = f => i = j
      BY <2>4, <3>2
    <3> QED BY <2>3, <2>5, <2>6, <3>1, <3>3 DEF Keeper
  <2>7. CASE f # fd
    <3>1. \A i \in 1 .. Len(jobs') : jobs'[i].fd = f => i \in 1 .. Len(jobs) /\ jobs[i].fd = f
      BY <2>2, <2>4, <2>7
    <3>2. Waiting(f)' => Waiting(f)
      BY <3>1 DEF Waiting
    <3>3. \A i, j \in 1 .. Len(jobs') : jobs'[i].fd = f /\ jobs'[j].fd = f => i = j
      BY <3>1 DEF Keeper
    <3> QED BY <2>3, <2>5, <2>7, <3>2, <3>3 DEF Keeper
  <2> QED BY <2>6, <2>7
<1>4. ASSUME NEW fd \in Fd, Dispatch(fd) PROVE Keeper(f)'
  <2>1. /\ fd \in watched /\ watched' = watched \ {fd} /\ UNCHANGED <<run, toClose, sock>>
        /\ jobs' = Append(jobs, [kind |-> "data", fd |-> fd]) /\ sock[fd] # NoConn
    BY <1>4 DEF Dispatch, TypeOK
  <2>2. /\ Len(jobs) \in Nat /\ Len(jobs') = Len(jobs) + 1
        /\ \A i \in 1 .. Len(jobs) : jobs'[i] = jobs[i]
        /\ jobs'[Len(jobs) + 1].fd = fd
    BY <2>1, JobQueued
  <2>3. \A u \in Worker : Holds(u, f)' <=> Holds(u, f)
    BY <2>1 DEF Holds, Busy, At
  <2>4. \A i \in 1 .. Len(jobs') : i \in 1 .. Len(jobs) \/ i = Len(jobs) + 1
    BY <2>2
  <2>5. CASE f = fd
    <3>1. f \notin toClose /\ ~Waiting(f) /\ \A u \in Worker : ~Holds(u, f)
      BY <2>1, <2>5 DEF Keeper
    <3>2. \A i \in 1 .. Len(jobs) : jobs'[i].fd # f
      BY <2>2, <3>1 DEF Waiting
    <3>3. \A i, j \in 1 .. Len(jobs') : jobs'[i].fd = f /\ jobs'[j].fd = f => i = j
      BY <2>4, <3>2
    <3> QED BY <2>1, <2>3, <2>5, <3>1, <3>3 DEF Keeper
  <2>6. CASE f # fd
    <3>1. \A i \in 1 .. Len(jobs') : jobs'[i].fd = f => i \in 1 .. Len(jobs) /\ jobs[i].fd = f
      BY <2>2, <2>4, <2>6
    <3>2. Waiting(f)' => Waiting(f)
      BY <3>1 DEF Waiting
    <3>3. \A i, j \in 1 .. Len(jobs') : jobs'[i].fd = f /\ jobs'[j].fd = f => i = j
      BY <3>1 DEF Keeper
    <3> QED BY <2>1, <2>3, <3>2, <3>3 DEF Keeper
  <2> QED BY <2>5, <2>6
<1>5. CASE ProcessClosed
  <2>1. /\ UNCHANGED <<run, jobs>> /\ toClose' = {} /\ watched' = watched \ toClose
        /\ f \notin toClose => sock'[f] = sock[f]
    BY <1>5 DEF ProcessClosed
  <2>2. (Waiting(f)' <=> Waiting(f)) /\ \A u \in Worker : Holds(u, f)' <=> Holds(u, f)
    BY <2>1 DEF Waiting, Holds, Busy, At
  <2> QED BY <2>1, <2>2 DEF Keeper
<1>6. ASSUME NEW t \in Worker, Start(t) PROVE Keeper(f)'
  <2>1. UNCHANGED <<watched, toClose, sock>> /\ ~Busy(t)
    BY <1>6 DEF Start, Busy, At, Idle
  <2>2. /\ Len(jobs) \in Nat \ {0} /\ Len(jobs') = Len(jobs) - 1
        /\ \A i \in 1 .. Len(jobs') : jobs'[i] = jobs[i + 1]
        /\ run'[t].fd = jobs[1].fd
        /\ \A u \in Worker : u # t => run'[u] = run[u]
    BY <1>6, JobTaken
  <2>3. 1 \in 1 .. Len(jobs) /\ \A i \in 1 .. Len(jobs') : i + 1 \in 1 .. Len(jobs) /\ i + 1 # 1
    BY <2>2
  <2>4. Waiting(f)' => Waiting(f) /\ f # jobs[1].fd
    <3>1. ASSUME NEW i \in 1 .. Len(jobs'), jobs'[i].fd = f PROVE Waiting(f) /\ f # jobs[1].fd
      <4>1. jobs[i + 1].fd = f /\ i + 1 \in 1 .. Len(jobs) /\ i + 1 # 1
        BY <2>2, <2>3, <3>1
      <4> QED BY <2>3, <4>1 DEF Waiting, Keeper
    <3> QED BY <3>1 DEF Waiting
  <2>5. \A u \in Worker : Holds(u, f)' => (u = t /\ f = jobs[1].fd) \/ (u # t /\ Holds(u, f))
    BY <2>2 DEF Holds, Busy, At
  <2>6. f = jobs[1].fd => Waiting(f) /\ \A u \in Worker : ~Holds(u, f)
    BY <2>3 DEF Waiting, Keeper
  <2>7. \A i, j \in 1 .. Len(jobs') : jobs'[i].fd = f /\ jobs'[j].fd = f => i = j
    <3>1. ASSUME NEW i \in 1 .. Len(jobs'), NEW j \in 1 .. Len(jobs'), jobs'[i].fd = f, jobs'[j].fd = f
          PROVE  i = j
      <4>1. i + 1 = j + 1
        BY <2>2, <2>3, <3>1 DEF Keeper
      <4> QED BY <4>1
    <3> QED BY <3>1
  <2>8. \A u, v \in Worker : Holds(u, f)' /\ Holds(v, f)' => u = v
    BY <2>5, <2>6 DEF Keeper
  <2> QED BY <2>1, <2>4, <2>5, <2>6, <2>7, <2>8 DEF Keeper
<1>7. ASSUME NEW t \in Worker, Return(t) \/ PendClose(t) PROVE Keeper(f)'
  <2>1. run' = [run EXCEPT ![t] = Idle] /\ UNCHANGED <<sock, jobs>>
    BY <1>7 DEF Return, PendClose
  <2>2. run'[t] = Idle /\ \A u \in Worker : u # t => run'[u] = run[u]
    BY <2>1, RunMoves
  <2>3. Busy(t) /\ ~Busy(t)'
    BY <1>7, <2>2 DEF Return, PendClose, Busy, At, Idle
  <2>4. \A u \in Worker : Holds(u, f)' => u # t /\ Holds(u, f)
    BY <2>2, <2>3 DEF Holds, Busy, At
  <2>5. Waiting(f)' <=> Waiting(f)
    BY <2>1 DEF Waiting
  <2>6. \/ watched' \subseteq watched \cup {run[t].fd} /\ watched \subseteq watched' /\ toClose' = toClose
        \/ watched' = watched /\ toClose' = toClose \cup {run[t].fd}
    BY <1>7 DEF Return, PendClose
  <2>7. CASE f = run[t].fd
    <3>1. Holds(t, f)
      BY <2>3, <2>7 DEF Holds
    <3>2. ~Waiting(f) /\ f \notin watched \cup toClose /\ sock[f] # NoConn /\ \A u \in Worker : ~Holds(u, f)'
      BY <2>4, <3>1 DEF Keeper
    <3>3. ~(f \in watched' /\ f \in toClose')
      BY <2>6, <3>2
    <3> QED BY <2>1, <2>5, <3>2, <3>3 DEF Keeper
  <2>8. CASE f # run[t].fd
    <3>1. (f \in watched' <=> f \in watched) /\ (f \in toClose' <=> f \in toClose)
      BY <2>6, <2>8
    <3> QED BY <2>1, <2>4, <2>5, <3>1 DEF Keeper
  <2> QED BY <2>7, <2>8
<1> QED BY <1>1, <1>2, <1>3, <1>4, <1>5, <1>6, <1>7 DEF Next, ServerStep, WorkerStep, InCallback

\* The socket service and the clients do not change what is known.
LEMMA StageService ==
  ASSUME TypeOK, NEW f \in Fd, Keeper(f), Stage(f),
         \/ \E c \in Conn : Accept(c) \/ Send(c) \/ HangUp(c)
         \/ \E fd \in Fd : Dispatch(fd)
         \/ ProcessClosed
  PROVE  Stage(f)'
<1>0. /\ KeysOf(f)' = KeysOf(f) /\ UNCHANGED <<run, known>>
      /\ \A u \in Worker : Holds(u, f)' <=> Holds(u, f)
  BY DEF Accept, Send, HangUp, Dispatch, ProcessClosed, KeysOf, treeVars, Holds, Busy, At
<1>1. ASSUME NEW c \in Conn, Send(c) \/ HangUp(c) PROVE Stage(f)'
  BY <1>0, <1>1 DEF Send, HangUp, Stage, At, serviceVars
<1>2. ASSUME NEW c \in Conn, Accept(c) PROVE Stage(f)'
  <2>1. PICK fd \in Fd : /\ sock[fd] = NoConn
                         /\ sock' = [sock EXCEPT ![fd] = c]
                         /\ jobs' = Append(jobs, [kind |-> "new", fd |-> fd])
    BY <1>2 DEF Accept
  <2>2. /\ Len(jobs) \in Nat /\ Len(jobs') = Len(jobs) + 1
        /\ \A i \in 1 .. Len(jobs) : jobs'[i] = jobs[i]
        /\ jobs'[Len(jobs) + 1].fd = fd /\ jobs'[Len(jobs) + 1].kind = "new"
    BY <2>1, JobQueued
  <2>3. UNCHANGED <<watched, toClose>>
    BY <1>2 DEF Accept
  <2>4. \A i \in 1 .. Len(jobs') : i \in 1 .. Len(jobs) \/ i = Len(jobs) + 1
    BY <2>2
  <2>5. f = fd => f \notin known /\ f \notin toClose /\ ~Waiting(f) /\ \A u \in Worker : ~Holds(u, f)
    BY <2>1 DEF Keeper, Stage
  <2>6. \A i \in 1 .. Len(jobs') : jobs'[i].fd = f => (jobs'[i].kind = "data" <=> f \in known)
    BY <2>2, <2>4, <2>5 DEF Stage, Waiting
  <2>7. f # fd => sock'[f] = sock[f]
    BY <2>1 DEF TypeOK
  <2>8. CASE f = fd
    BY <1>0, <2>3, <2>5, <2>6, <2>8 DEF Stage
  <2>9. CASE f # fd
    BY <1>0, <2>3, <2>6, <2>7, <2>9 DEF Stage, At
  <2> QED BY <2>8, <2>9
<1>3. ASSUME NEW fd \in Fd, Dispatch(fd) PROVE Stage(f)'
  <2>1. /\ fd \in watched /\ watched' = watched \ {fd} /\ UNCHANGED <<toClose, sock>>
        /\ jobs' = Append(jobs, [kind |-> "data", fd |-> fd])
    BY <1>3 DEF Dispatch
  <2>2. /\ Len(jobs) \in Nat /\ Len(jobs') = Len(jobs) + 1
        /\ \A i \in 1 .. Len(jobs) : jobs'[i] = jobs[i]
        /\ jobs'[Len(jobs) + 1].fd = fd /\ jobs'[Len(jobs) + 1].kind = "data"
    BY <2>1, JobQueued
  <2>3. \A i \in 1 .. Len(jobs') : i \in 1 .. Len(jobs) \/ i = Len(jobs) + 1
    BY <2>2
  <2>4. \A i \in 1 .. Len(jobs') : jobs'[i].fd = f => (jobs'[i].kind = "data" <=> f \in known)
    BY <2>1, <2>2, <2>3 DEF Stage
  <2> QED BY <1>0, <2>1, <2>4 DEF Stage, At
<1>4. CASE ProcessClosed
  <2>1. /\ UNCHANGED jobs /\ toClose' = {} /\ watched' = watched \ toClose
        /\ IF f \in toClose THEN sock'[f] = NoConn ELSE sock'[f] = sock[f]
    BY <1>4 DEF ProcessClosed
  <2>2. f \in known => sock'[f] # NoConn
    BY <2>1 DEF Stage
  <2>3. \A u \in Worker : Holds(u, f) => sock'[f] = sock[f]
    BY <2>1 DEF Keeper
  <2> QED BY <1>0, <2>1, <2>2, <2>3 DEF Stage, At
<1> QED BY <1>1, <1>2, <1>3, <1>4

\* What a number's keeper knows goes from one to the next.
LEMMA StageThread ==
  ASSUME TypeOK, NEW f \in Fd, Keeper(f), Stage(f), NEW t \in Worker,
         Start(t) \/ Return(t) \/ PendClose(t)
  PROVE  Stage(f)'
<1>0. /\ KeysOf(f)' = KeysOf(f)
      /\ UNCHANGED <<sock, known>>
  BY DEF Start, Return, PendClose, KeysOf, treeVars
<1>1. CASE Start(t)
  <2>1. /\ Len(jobs) \in Nat \ {0} /\ Len(jobs') = Len(jobs) - 1
        /\ \A i \in 1 .. Len(jobs') : jobs'[i] = jobs[i + 1]
        /\ jobs[1].kind \in {"new", "data"}
        /\ run'[t].at = jobs[1].kind /\ run'[t].fd = jobs[1].fd
        /\ \A u \in Worker : u # t => run'[u] = run[u]
    BY <1>1, JobTaken
  <2>2. UNCHANGED <<watched, toClose>>
    BY <1>1 DEF Start
  <2>3. 1 \in 1 .. Len(jobs) /\ \A i \in 1 .. Len(jobs') : i + 1 \in 1 .. Len(jobs)
    BY <2>1
  <2>4. \A i \in 1 .. Len(jobs') : jobs'[i].fd = f => (jobs'[i].kind = "data" <=> f \in known)
    BY <2>1, <2>3 DEF Stage
  <2>5. jobs[1].fd = f => (f \in known <=> run'[t].at = "data")
    BY <2>1, <2>3 DEF Stage
  <2>6. ASSUME NEW u \in Worker, Holds(u, f)'
        PROVE  /\ f \in known <=> ~(At(u, "new")' \/ At(u, "close")')
               /\ At(u, "close")' => KeysOf(f) = {}
               /\ At(u, "add")' \/ At(u, "del")' => run'[u].from = sock[f]
    <3>1. CASE u = t
      BY <2>1, <2>5, <2>6, <3>1 DEF At, Holds
    <3>2. CASE u # t
      <4>1. run'[u] = run[u] /\ Holds(u, f)
        BY <2>1, <2>6, <3>2 DEF Holds, Busy, At
      <4> QED BY <4>1 DEF Stage, At
    <3> QED BY <3>1, <3>2
  <2> QED BY <1>0, <2>2, <2>4, <2>6 DEF Stage
<1>2. CASE Return(t) \/ PendClose(t)
  <2>1. run' = [run EXCEPT ![t] = Idle] /\ jobs' = jobs
    BY <1>2 DEF Return, PendClose
  <2>2. ~Busy(t)' /\ \A u \in Worker : u # t => run'[u] = run[u]
    BY <2>1, RunMoves DEF Busy, At, Idle
  <2>3. ASSUME NEW u \in Worker, Holds(u, f)' PROVE Holds(u, f) /\ run'[u] = run[u]
    BY <2>2, <2>3 DEF Holds, Busy, At
  <2>4. run[t].fd = f => Holds(t, f)
    BY <1>2 DEF Return, PendClose, Holds, Busy, At
  <2>5. f \in watched' => f \in known
    <3>1. CASE Return(t)
      <4>1. At(t, "return") /\ (f \in watched' => f \in watched \/ f = run[t].fd)
        BY <3>1 DEF Return
      <4> QED BY <2>4, <4>1 DEF Stage, At
    <3>2. CASE PendClose(t)
      BY <3>2 DEF PendClose, Stage
    <3> QED BY <1>2, <3>1, <3>2
  <2>6. f \in toClose' => f \notin known /\ KeysOf(f) = {}
    <3>1. CASE Return(t)
      BY <3>1 DEF Return, Stage
    <3>2. CASE PendClose(t)
      <4>1. At(t, "close") /\ (f \in toClose' => f \in toClose \/ f = run[t].fd)
        BY <3>2 DEF PendClose
      <4> QED BY <2>4, <4>1 DEF Stage
    <3> QED BY <1>2, <3>1, <3>2
  <2>7. \A u \in Worker : Holds(u, f)' =>
          /\ f \in known <=> ~(At(u, "new")' \/ At(u, "close")')
          /\ At(u, "close")' => KeysOf(f) = {}
          /\ At(u, "add")' \/ At(u, "del")' => run'[u].from = sock[f]
    BY <2>3 DEF Stage, At
  <2> QED BY <1>0, <2>1, <2>5, <2>6, <2>7 DEF Stage
<1> QED BY <1>1, <1>2

\* A callback touches what is known and registered of its own descriptor only.
LEMMA CallbackOwn ==
  ASSUME TypeOK, TypeOK', NEW t \in Worker, InCallback(t)
  PROVE  /\ UNCHANGED peer
         /\ \A fd \in Fd : fd # run[t].fd => (fd \in known' <=> fd \in known) /\ KeysOf(fd)' = KeysOf(fd)
<1> USE DEF serviceVars, treeVars, historyVars
<1>1. UNCHANGED peer
  BY DEF InCallback, NewClient, DelClient, SomeData, RecvFails, Recv, RegMessage, DeregMessage,
         BeginPublish, NextNode, EndPublish, Skip, Deliver
<1>2. /\ \A fd \in Fd : fd # run[t].fd => (fd \in known' <=> fd \in known)
      /\ \A fd \in Fd : fd # run[t].fd => \A node : <<fd, node>> \in regs' <=> <<fd, node>> \in regs
  <2>1. CASE UNCHANGED <<known, regs>>
    BY <2>1
  <2>2. CASE CloseClient(run[t].fd)
    BY <2>2 DEF CloseClient, Without, TypeOK
  <2>3. CASE known' = known \cup {run[t].fd} /\ regs' = regs
    BY <2>3
  <2>4. CASE RegMessage(t) \/ DeregMessage(t)
    BY <2>4 DEF RegMessage, DeregMessage
  <2> QED BY <2>1, <2>2, <2>3, <2>4 DEF InCallback, NewClient, DelClient, SomeData, RecvFails, Recv,
              BeginPublish, NextNode, EndPublish, Skip, Deliver
<1>3. \A fd \in Fd : \A node : node \in KeysOf(fd) <=> <<fd, node>> \in regs
  BY KeysAre
<1>4. \A fd \in Fd : \A node : node \in KeysOf(fd)' <=> <<fd, node>> \in regs'
  BY DEF TypeOK, KeysOf
<1> QED BY <1>1, <1>2, <1>3, <1>4

\* event_new_client and event_del_client are called once for a connection.
LEMMA StageCallback ==
  ASSUME TypeOK, TypeOK', NEW f \in Fd, f \notin givenUp', Keeper(f), Stage(f),
         NEW t \in Worker, InCallback(t)
  PROVE  Stage(f)'
<1>1. /\ Busy(t) /\ Busy(t)' /\ run'[t].fd = run[t].fd
      /\ \A u \in Worker : u # t => run'[u] = run[u]
      /\ UNCHANGED <<sock, watched, jobs>> /\ (f \in toClose' <=> f \in toClose)
      /\ f # run[t].fd => (f \in known' <=> f \in known) /\ KeysOf(f)' = KeysOf(f)
  BY CallbackEffect, ToCloseStays, CallbackOwn
<1>2. CASE f # run[t].fd
  <2>1. \A u \in Worker : Holds(u, f)' => Holds(u, f) /\ run'[u] = run[u]
    BY <1>1, <1>2 DEF Holds, Busy, At
  <2> QED BY <1>1, <1>2, <2>1 DEF Stage, At
<1>3. CASE f = run[t].fd
  <2>0. Holds(t, f)
    BY <1>1, <1>3 DEF Holds
  <2>1. /\ f \notin watched \cup toClose /\ sock[f] # NoConn /\ ~Waiting(f)
        /\ \A u \in Worker : Holds(u, f) => u = t
        /\ f \in known <=> ~(At(t, "new") \/ At(t, "close"))
    BY <2>0 DEF Keeper, Stage
  <2>2. \A i \in 1 .. Len(jobs) : jobs[i].fd # f
    BY <2>1 DEF Waiting
  <2>3. \A u \in Worker : Holds(u, f)' => u = t
    BY <1>1, <2>1 DEF Holds, Busy, At
  <2>4. ASSUME NEW place \in {"close", "return", "recv", "drop"}, GoTo(t, place)
        PROVE  run'[t].at = place
    <3>1. run'[t] = [at |-> place, fd |-> run[t].fd]
      BY <1>1, <2>4, GoesOn
    <3> QED BY <3>1
  <2>5. /\ f \in known' <=> ~(At(t, "new")' \/ At(t, "close")')
        /\ At(t, "close")' => KeysOf(f)' = {}
        /\ At(t, "add")' \/ At(t, "del")' => run'[t].from = sock[f]
    <3>1. CASE NewClient(t)
      <4>1. GoTo(t, "return") /\ known' = known \cup {f}
        BY <1>3, <2>1, <3>1 DEF NewClient
      <4>2. run'[t].at = "return"
        BY <2>4, <4>1
      <4> QED BY <4>1, <4>2 DEF At
    <3>2. CASE DelClient(t)
      <4>1. GoTo(t, "close") /\ known' = known \ {f} /\ regs' = Without(f)
        BY <1>3, <3>2 DEF DelClient, CloseClient
      <4>2. run'[t].at = "close"
        BY <2>4, <4>1
      <4>3. \A node : <<f, node>> \notin regs'
        BY <4>1 DEF Without
      <4>4. KeysOf(f)' = {}
        BY <4>3 DEF KeysOf
      <4> QED BY <4>1, <4>2, <4>4 DEF At
    <3>3. CASE SomeData(t)
      <4>1. GoTo(t, "recv") /\ known' = known /\ f \in known
        BY <1>3, <2>1, <3>3 DEF SomeData, treeVars, At
      <4>2. run'[t].at = "recv"
        BY <2>4, <4>1
      <4> QED BY <4>1, <4>2 DEF At
    <3>4. CASE RecvFails(t)
      <4>1. GoTo(t, "drop") /\ known' = known /\ f \in known
        BY <2>1, <3>4 DEF RecvFails, treeVars, At
      <4>2. run'[t].at = "drop"
        BY <2>4, <4>1
      <4> QED BY <4>1, <4>2 DEF At
    <3>5. CASE Recv(t)
      <4>1. /\ At(t, "recv")
            /\ \/ run'[t].at \in {"add", "del"} /\ run'[t].from = sock[f]
               \/ run'[t].at = "publish"
        BY <1>3, <3>5, RecvEffect
      <4>2. known' = known
        BY <3>5 DEF Recv, treeVars
      <4> QED BY <2>1, <4>1, <4>2 DEF At
    <3>6. CASE RegMessage(t) \/ DeregMessage(t) \/ EndPublish(t)
      <4>1. GoTo(t, "return") /\ known' = known /\ (At(t, "add") \/ At(t, "del") \/ Walking(t))
        BY <3>6 DEF RegMessage, DeregMessage, EndPublish, treeVars
      <4>2. run'[t].at = "return"
        BY <2>4, <4>1
      <4> QED BY <2>1, <4>1, <4>2 DEF At, Walking
    <3>7. CASE BeginPublish(t) \/ NextNode(t)
      <4>1. run[t].at \in {"publish", "walk"} /\ run'[t].at = "walk"
        BY <3>7, BeginEffect, NextNodeEffect DEF At, NextNode, Walking
      <4>2. known' = known
        BY <3>7 DEF BeginPublish, NextNode, treeVars
      <4> QED BY <2>1, <4>1, <4>2 DEF At
    <3>8. CASE Skip(t) \/ \E fd \in Fd : Deliver(t, fd)
      <4>1. PICK fd \in Fd : Skip(t) \/ Deliver(t, fd)
        BY <3>8
      <4>2. run[t].at = "walk" /\ run'[t].at = "walk"
        BY <4>1, WalkEffect DEF Walking
      <4>3. known' = known
        BY <4>1 DEF Skip, Deliver, treeVars
      <4> QED BY <2>1, <4>2, <4>3 DEF At
    <3> QED BY <3>1, <3>2, <3>3, <3>4, <3>5, <3>6, <3>7, <3>8 DEF InCallback
  <2> QED BY <1>1, <2>1, <2>2, <2>3, <2>5 DEF Stage
<1> QED BY <1>2, <1>3

\* close_client_connection, reg_message and dereg_message change the tree as the client
\* of the descriptor has asked.
LEMMA OwnKeeps ==
  ASSUME TypeOK, TypeOK', FreshInv, SenderInv, NEW f \in Fd, f \notin givenUp', Keeper(f), Stage(f), Own(f), Next
  PROVE  Own(f)'
<1> USE DEF serviceVars, treeVars, historyVars
<1>0. /\ KeysOf(f) = IF sock[f] = NoConn THEN {} ELSE asked[sock[f]]
      /\ \A node : node \in KeysOf(f) <=> <<f, node>> \in regs
      /\ \A node : node \in KeysOf(f)' <=> <<f, node>> \in regs'
  BY KeysAre DEF Own, TypeOK, KeysOf
<1>1. CASE UNCHANGED <<regs, sock, asked>>
  <2>1. KeysOf(f)' = KeysOf(f)
    BY <1>0, <1>1
  <2> QED BY <1>0, <1>1, <2>1 DEF Own
<1>2. ASSUME NEW c \in Conn, Accept(c) PROVE Own(f)'
  <2>1. PICK fd \in Fd : sock[fd] = NoConn /\ sock' = [sock EXCEPT ![fd] = c]
    BY <1>2 DEF Accept
  <2>2. UNCHANGED <<regs, asked>> /\ asked[c] = {} /\ c # NoConn
    BY <1>2, EventAssumption DEF Accept, FreshInv
  <2>3. KeysOf(f)' = KeysOf(f)
    BY <1>0, <2>2
  <2>4. sock'[f] = IF f = fd THEN c ELSE sock[f]
    BY <2>1 DEF TypeOK
  <2>5. CASE f = fd
    BY <1>0, <2>1, <2>2, <2>3, <2>4, <2>5 DEF Own
  <2>6. CASE f # fd
    BY <1>0, <2>2, <2>3, <2>4, <2>6 DEF Own
  <2> QED BY <2>5, <2>6
<1>3. CASE ProcessClosed
  <2>1. /\ UNCHANGED <<regs, asked>>
        /\ IF f \in toClose THEN sock'[f] = NoConn ELSE sock'[f] = sock[f]
    BY <1>3 DEF ProcessClosed
  <2>2. KeysOf(f)' = KeysOf(f)
    BY <1>0, <2>1
  <2>3. f \in toClose => KeysOf(f) = {}
    BY DEF Stage
  <2> QED BY <1>0, <2>1, <2>2, <2>3 DEF Own
<1>4. ASSUME NEW t \in Worker, InCallback(t) PROVE Own(f)'
  <2>1. /\ Busy(t) /\ sock' = sock /\ run[t].fd \in Fd
        /\ f # run[t].fd => KeysOf(f)' = KeysOf(f)
    BY <1>4, CallbackEffect, CallbackOwn
  <2>2. CASE f # run[t].fd
    <3>1. sock[f] # NoConn => asked'[sock[f]] = asked[sock[f]]
      <4>1. CASE UNCHANGED asked
        BY <4>1
      <4>2. CASE CloseClient(run[t].fd)
        BY <2>1, <2>2, <4>2 DEF CloseClient, FreshInv, TypeOK
      <4>3. CASE At(t, "add") \/ At(t, "del")
        <5>1. \A c \in Conn : c # run[t].from => asked'[c] = asked[c]
          BY <1>4, <4>3 DEF InCallback, NewClient, DelClient, SomeData, RecvFails, Recv, RegMessage,
                 DeregMessage, BeginPublish, NextNode, EndPublish, Skip, Deliver, At, Walking, TypeOK
        <5>2. sock[f] # NoConn => run[t].from # sock[f]
          BY <2>1, <2>2, <4>3 DEF SenderInv
        <5> QED BY <5>1, <5>2 DEF TypeOK
      <4> QED BY <1>4, <4>1, <4>2, <4>3 DEF InCallback, NewClient, DelClient, SomeData, RecvFails, Recv,
                  RegMessage, DeregMessage, BeginPublish, NextNode, EndPublish, Skip, Deliver
    <3> QED BY <1>0, <2>1, <2>2, <3>1 DEF Own
  <2>3. CASE f = run[t].fd
    <3>0. Holds(t, f)
      BY <2>1, <2>3 DEF Holds
    <3>1. sock[f] # NoConn /\ sock[f] \in Conn /\ KeysOf(f) = asked[sock[f]]
      BY <1>0, <3>0 DEF Keeper, TypeOK
    <3>2. KeysOf(f)' = asked'[sock[f]]
      <4>1. CASE UNCHANGED <<regs, asked>>
        BY <1>0, <3>1, <4>1
      <4>2. CASE NewClient(t)
        <5>1. f \notin known
          BY <3>0, <4>2 DEF Stage, NewClient, At
        <5>2. UNCHANGED <<regs, asked>>
          BY <2>3, <4>2, <5>1 DEF NewClient
        <5> QED BY <4>1, <5>2
      <4>3. CASE DelClient(t)
        <5>1. regs' = Without(f) /\ asked' = [asked EXCEPT ![sock[f]] = {}]
          BY <2>3, <3>1, <4>3 DEF DelClient, CloseClient
        <5>2. \A node : <<f, node>> \notin regs'
          BY <5>1 DEF Without
        <5>3. KeysOf(f)' = {}
          BY <1>0, <5>2
        <5> QED BY <3>1, <5>1, <5>3 DEF TypeOK
      <4>4. CASE RegMessage(t)
        <5>1. /\ regs' = regs \cup {<<f, run[t].key>>} /\ run[t].from = sock[f]
              /\ asked' = [asked EXCEPT ![sock[f]] = @ \cup {run[t].key}]
          BY <2>3, <3>0, <4>4 DEF RegMessage, Stage, At
        <5>2. \A node : <<f, node>> \in regs' <=> <<f, node>> \in regs \/ node = run[t].key
          BY <5>1
        <5>3. KeysOf(f)' = KeysOf(f) \cup {run[t].key}
          BY <1>0, <5>2
        <5> QED BY <3>1, <5>1, <5>3 DEF TypeOK
      <4>5. CASE DeregMessage(t)
        <5>1. /\ regs' = regs \ {<<f, run[t].key>>} /\ run[t].from = sock[f]
              /\ asked' = [asked EXCEPT ![sock[f]] = @ \ {run[t].key}]
          BY <2>3, <3>0, <4>5 DEF DeregMessage, Stage, At
        <5>2. \A node : <<f, node>> \in regs' <=> <<f, node>> \in regs /\ node # run[t].key
          BY <5>1
        <5>3. KeysOf(f)' = KeysOf(f) \ {run[t].key}
          BY <1>0, <5>2
        <5> QED BY <3>1, <5>1, <5>3 DEF TypeOK
      <4> QED BY <1>4, <4>1, <4>2, <4>3, <4>4, <4>5 DEF InCallback, SomeData, RecvFails, Recv, BeginPublish,
                  NextNode, EndPublish, Skip, Deliver
    <3> QED BY <2>1, <3>1, <3>2 DEF Own
  <2> QED BY <2>2, <2>3
<1>5. \/ UNCHANGED <<regs, sock, asked>>
      \/ \E c \in Conn : Accept(c)
      \/ ProcessClosed
      \/ \E t \in Worker : InCallback(t)
  BY DEF Next, ServerStep, WorkerStep, InCallback, Send, HangUp, Dispatch, Start, Return, PendClose
<1> QED BY <1>1, <1>2, <1>3, <1>4, <1>5

\* A client's next event is read when his last has been sent to all.
LEMMA OrderKeeps ==
  ASSUME TypeOK, FreshInv, EventsInv, EventsInv', SentInv, \A fd \in Fd \ givenUp : Keeper(fd), OrderInv, Next
  PROVE  OrderInv'
<1>0. /\ Len(events) \in Nat /\ Len(events') \in Nat
      /\ \A e \in 1 .. Len(events) : events'[e] = events[e]
      /\ givenUp \subseteq givenUp'
  BY EventsGrow, GivenUpGrows
<1>1. ASSUME NEW u \in Worker, Busy(u), run[u].fd \notin givenUp
      PROVE  sock'[run[u].fd] = sock[run[u].fd] /\ sock[run[u].fd] # NoConn
  <2>1. run[u].fd \in Fd /\ Holds(u, run[u].fd)
    BY <1>1, RunParts DEF Holds
  <2>2. sock[run[u].fd] # NoConn /\ run[u].fd \notin toClose
    BY <1>1, <2>1 DEF Keeper
  <2> QED BY <2>1, <2>2, SockChanges DEF Accept, ProcessClosed, TypeOK
<1>2. ASSUME NEW u \in Worker, Publishing(u)'
      PROVE  /\ events'[run'[u].event].by = run'[u].fd
             /\ run'[u].fd \notin givenUp' =>
                  /\ events'[run'[u].event].from = sock'[run'[u].fd]
                  /\ \A e \in 1 .. Len(events') : events'[e].from = sock'[run'[u].fd] => e <= run'[u].event
  <2>1. CASE Publishing(u) /\ run'[u].event = run[u].event /\ run'[u].fd = run[u].fd
    <3>1. run[u].event \in 1 .. Len(events) /\ Busy(u) /\ events[run[u].event].by = run[u].fd
      BY <1>0, <2>1, RunParts DEF EventsInv, OrderInv, Busy, At, Publishing
    <3>2. events'[run'[u].event].by = run'[u].fd
      BY <1>0, <2>1, <3>1
    <3>3. ASSUME run[u].fd \notin givenUp
          PROVE  /\ events'[run'[u].event].from = sock'[run'[u].fd]
                 /\ \A e \in 1 .. Len(events') : events'[e].from = sock'[run'[u].fd] => e <= run'[u].event
      <4>1. /\ events[run[u].event].from = sock[run[u].fd]
            /\ \A e \in 1 .. Len(events) : events[e].from = sock[run[u].fd] => e <= run[u].event
        BY <2>1, <3>3 DEF OrderInv
      <4>2. sock'[run'[u].fd] = sock[run[u].fd] /\ sock[run[u].fd] # NoConn
        BY <1>1, <2>1, <3>1, <3>3
      <4>3. CASE UNCHANGED events
        BY <2>1, <4>1, <4>2, <4>3
      <4>4. CASE ~UNCHANGED events
        <5>1. PICK t \in Worker :
                /\ Recv(t) /\ Len(events') = Len(events) + 1
                /\ events'[Len(events) + 1].from = sock[run[t].fd]
          BY <4>4, EventsGrow
        <5>2. Busy(t) /\ t # u
          BY <2>1, <5>1 DEF Recv, Busy, At, Publishing
        <5>3. run[t].fd \in Fd /\ run[u].fd \in Fd
          BY <3>1, <5>2, RunParts
        <5>4. run[t].fd # run[u].fd
          BY <3>1, <3>3, <5>2, <5>3 DEF Keeper, Holds
        <5>5. sock[run[t].fd] # sock[run[u].fd]
          BY <4>2, <5>3, <5>4 DEF FreshInv
        <5>6. \A e \in 1 .. Len(events') : e \in 1 .. Len(events) \/ e = Len(events) + 1
          BY <1>0, <5>1
        <5> QED BY <1>0, <2>1, <3>1, <4>1, <4>2, <5>1, <5>5, <5>6
      <4> QED BY <4>3, <4>4
    <3> QED BY <1>0, <2>1, <3>2, <3>3
  <2>2. CASE Recv(u) /\ run'[u].event = Len(events) + 1
    <3>1. run'[u].event <= Len(events')
      BY <1>2 DEF EventsInv
    <3>2. ~UNCHANGED events
      BY <1>0, <2>2, <3>1
    <3>3. PICK t \in Worker :
            /\ Recv(t) /\ At(t, "publish")' /\ Len(events') = Len(events) + 1
            /\ events'[Len(events) + 1].from = sock[run[t].fd]
            /\ events'[Len(events) + 1].by = run[t].fd
      BY <3>2, EventsGrow
    <3>4. t = u
      BY <2>2, <3>3, RecvEffect DEF At
    <3>5. run'[u].fd = run[u].fd /\ sock' = sock
      BY <2>2, RecvEffect DEF Recv, serviceVars
    <3> QED BY <1>0, <2>2, <3>3, <3>4, <3>5
  <2>3. \/ Publishing(u) /\ run'[u].event = run[u].event /\ run'[u].fd = run[u].fd
        \/ Recv(u) /\ run'[u].event = Len(events) + 1
    BY <1>2, Publishers DEF Publishing
  <2> QED BY <2>1, <2>2, <2>3
<1>3. \A d \in Conn : Len(got[d]) \in Nat /\ \A j \in 1 .. Len(got[d]) :
        /\ got[d][j] \in Nat /\ got[d][j] \in 1 .. Len(events)
        /\ events'[got[d][j]] = events[got[d][j]]
  <2> DEFINE E == 1 .. MaxEvents
  <2>1. ASSUME NEW d \in Conn PROVE got[d] \in Seq(E)
    BY DEF TypeOK
  <2> HIDE DEF E
  <2>2. \A d \in Conn : Len(got[d]) \in Nat /\ \A j \in 1 .. Len(got[d]) : got[d][j] \in E
    BY <2>1, ElementOfSeq, LenProperties
  <2>3. \A d \in Conn : \A j \in 1 .. Len(got[d]) : got[d][j] \in 1 .. Len(events)
    BY <1>0, <2>2 DEF E, EventsInv
  <2> QED BY <1>0, <2>2, <2>3
<1>4. ASSUME NEW c \in Conn, NEW i \in 1 .. Len(got'[c]), NEW j \in 1 .. Len(got'[c]), i < j,
             events'[got'[c][i]].from = events'[got'[c][j]].from,
             events'[got'[c][j]].by \notin givenUp'
      PROVE  got'[c][i] < got'[c][j]
  <2>0. events'[got'[c][j]].by \notin givenUp
    BY <1>0, <1>4
  <2>1. CASE got'[c] = got[c]
    <3>1. i \in 1 .. Len(got[c]) /\ j \in 1 .. Len(got[c]) /\ got'[c][i] = got[c][i] /\ got'[c][j] = got[c][j]
      BY <2>1
    <3>2. events[got[c][i]].from = events[got[c][j]].from /\ events[got[c][j]].by \notin givenUp
      BY <1>3, <1>4, <2>0, <3>1
    <3> QED BY <1>4, <3>1, <3>2 DEF OrderInv
  <2>2. ASSUME NEW t \in Worker, NEW fd \in Fd, Deliver(t, fd), ~UNCHANGED got, c = sock[fd]
        PROVE  got'[c][i] < got'[c][j]
    <3>1. /\ Walking(t) /\ fd \notin run[t].sent /\ run[t].event \in 1 .. MaxEvents
          /\ Len(got[c]) \in Nat /\ Len(got'[c]) = Len(got[c]) + 1
          /\ \A k \in 1 .. Len(got[c]) : got'[c][k] = got[c][k]
          /\ got'[c][Len(got[c]) + 1] = run[t].event
      BY <2>2, DeliverGives
    <3>2. i \in 1 .. Len(got[c]) /\ (j \in 1 .. Len(got[c]) \/ j = Len(got[c]) + 1)
      BY <1>4, <3>1
    <3>3. CASE j \in 1 .. Len(got[c])
      <4>1. got'[c][i] = got[c][i] /\ got'[c][j] = got[c][j]
        BY <3>1, <3>2, <3>3
      <4>2. events[got[c][i]].from = events[got[c][j]].from /\ events[got[c][j]].by \notin givenUp
        BY <1>3, <1>4, <2>0, <3>2, <3>3, <4>1
      <4> QED BY <1>4, <3>2, <3>3, <4>1, <4>2 DEF OrderInv
    <3>4. CASE j = Len(got[c]) + 1
      <4>1. Publishing(t) /\ run[t].event \in 1 .. Len(events)
        BY <1>0, <3>1 DEF EventsInv, Publishing, Walking
      <4>2. got[c][i] # run[t].event
        BY <2>2, <3>1, <3>2, <4>1 DEF SentInv
      <4>3. events[got[c][i]].from = events[run[t].event].from /\ events[run[t].event].by \notin givenUp
        BY <1>0, <1>3, <1>4, <2>0, <3>1, <3>2, <3>4, <4>1
      <4>4. got[c][i] <= run[t].event
        BY <1>3, <3>2, <4>1, <4>3 DEF OrderInv
      <4> QED BY <1>3, <3>1, <3>2, <3>4, <4>2, <4>4
    <3> QED BY <3>2, <3>3, <3>4
  <2>3. ASSUME NEW t \in Worker, NEW fd \in Fd, Deliver(t, fd), ~UNCHANGED got, c # sock[fd]
        PROVE  got'[c] = got[c]
    BY <2>3, DeliverGives
  <2> QED BY <2>1, <2>2, <2>3, GotChanges
<1> QED BY <1>2, <1>4 DEF OrderInv
----------------------------------------------------------------------------
(* The theorems.                                                           *)

\* The event service starts with no client, no registration and no event.
LEMMA EventInvInit == Init => EventInv
<1> SUFFICES ASSUME Init PROVE EventInv
  OBVIOUS
<1>1. TypeOK
  <2>1. MaxSent \in 0 .. MaxSent /\ 0 \in 0 .. MaxSent
    BY EventAssumption
  <2>2. << >> \in Seq([kind : {"new", "data"}, fd : Fd]) /\ << >> \in Seq([from : Conn, by : Fd, key : EventKey])
        /\ << >> \in Seq(1 .. MaxEvents)
    OBVIOUS
  <2> QED BY <2>1, <2>2 DEF Init, TypeOK
<1>2. /\ Len(<< >>) = 0 /\ \A i \in 1 .. 0 : FALSE
  OBVIOUS
<1>3. UnreadInv
  BY EventAssumption DEF Init, UnreadInv
<1>4. \A t \in Worker : run[t] = Idle /\ ~Busy(t) /\ ~Publishing(t) /\ ~Walking(t) /\ ~At(t, "add") /\ ~At(t, "del")
  BY DEF Init, Idle, Busy, At, Publishing, Walking
<1>5. FreshInv
  BY <1>4 DEF Init, FreshInv
<1>6. \A c \in Conn : Len(got[c]) = 0
  BY <1>2 DEF Init
<1>7. EventsInv
  BY <1>2, <1>4, <1>6, EventAssumption DEF Init, EventsInv
<1>8. SentInv /\ OnceInv /\ WalkInv
  BY <1>2, <1>4, <1>6 DEF SentInv, OnceInv, WalkInv
<1>9. Len(jobs) = 0 /\ watched = {} /\ toClose = {} /\ known = {} /\ regs = {}
      /\ \A fd \in Fd : sock[fd] = NoConn
  BY <1>2 DEF Init
<1>10. \A fd \in Fd : Keeper(fd) /\ Stage(fd) /\ Own(fd)
  BY <1>2, <1>4, <1>9 DEF Keeper, Stage, Own, Holds, Waiting, KeysOf
<1>11. SenderInv
  BY <1>4 DEF SenderInv
<1>12. OrderInv
  BY <1>2, <1>4, <1>6 DEF OrderInv
<1> QED BY <1>1, <1>3, <1>5, <1>7, <1>8, <1>10, <1>11, <1>12 DEF EventInv, NumbersInv

\* Every step, of any thread and any client, keeps the inductive invariant.
LEMMA EventInvNext == EventInv /\ [Next]_vars => EventInv'
<1>1. ASSUME EventInv, Next PROVE EventInv'
  <2>1. TypeOK' /\ UnreadInv' /\ FreshInv' /\ SenderInv' /\ EventsInv' /\ SentInv' /\ OnceInv' /\ WalkInv'
    BY <1>1, TypeKeeps, UnreadKeeps, FreshKeeps, SenderKeeps, EventsKeeps, SentKeeps, OnceKeeps, WalkKeeps
       DEF EventInv
  <2>2. ASSUME NEW f \in Fd \ givenUp' PROVE Keeper(f)' /\ Stage(f)' /\ Own(f)'
    <3>1. /\ TypeOK /\ FreshInv /\ SenderInv /\ Keeper(f) /\ Stage(f) /\ Own(f)
      BY <1>1, GivenUpGrows DEF EventInv, NumbersInv
    <3>2. Keeper(f)'
      BY <1>1, <3>1, KeeperKeeps
    <3>3. Stage(f)'
      BY <1>1, <2>1, <3>1, StageService, StageThread, StageCallback DEF Next, ServerStep, WorkerStep, InCallback
    <3>4. Own(f)'
      BY <1>1, <2>1, <3>1, OwnKeeps
    <3> QED BY <3>2, <3>3, <3>4
  <2>3. OrderInv'
    BY <1>1, <2>1, OrderKeeps DEF EventInv, NumbersInv
  <2> QED BY <2>1, <2>2, <2>3 DEF EventInv, NumbersInv
<1>2. ASSUME EventInv, UNCHANGED vars PROVE EventInv'
  <2>1. UNCHANGED <<sock, watched, jobs, toClose, peer, unread, sendable, run, known, nodes, regs,
                    events, got, asked, givenUp>>
    BY <1>2 DEF vars, serviceVars, treeVars, historyVars
  <2>2. TypeOK'
    BY <1>2, <2>1 DEF EventInv, TypeOK
  <2>3. UnreadInv' /\ FreshInv' /\ SenderInv' /\ EventsInv' /\ SentInv' /\ OnceInv' /\ WalkInv'
    BY <1>2, <2>1 DEF EventInv, UnreadInv, FreshInv, SenderInv, EventsInv, SentInv, OnceInv, WalkInv, At,
                      Publishing, Walking, WalkKey, Reached
  <2>4. NumbersInv'
    BY <1>2, <2>1 DEF EventInv, NumbersInv, Keeper, Stage, Own, OrderInv, At, Holds, Busy, Waiting, Publishing,
                      KeysOf
  <2> QED BY <2>2, <2>3, <2>4 DEF EventInv
<1> QED BY <1>1, <1>2

\* The inductive invariant holds whatever clients do and in whatever order the
\* callbacks of std_event_service.cpp run.
THEOREM EventInvariant == Spec => []EventInv
BY EventInvInit, EventInvNext, PTL DEF Spec

\* Every variable keeps its type; in particular no closed descriptor is waited for,
\* and the tree of registrations has the nodes above each of its nodes.
THEOREM TypeCorrect == Spec => []TypeOK
<1>1. EventInv => TypeOK
  BY DEF EventInv
<1> QED BY <1>1, EventInvariant, PTL

\* No connection gets an event twice; and what one client publishes comes to the
\* others in the order in which he has sent it, as long as no publisher has given his
\* number up, whatever happens to the numbers of others.
THEOREM EventsComeInOrder == Spec => []OnceAndInOrder
<1>1. EventInv => OnceAndInOrder
  BY DEF EventInv, OnceInv, NumbersInv, OrderInv, OnceAndInOrder
<1> QED BY <1>1, EventInvariant, PTL

\* m_reg_tree holds for each descriptor that no publisher has given up what its
\* connection has asked for, and nothing of those that had the number before: clients
\* may hang up at any time, also while events are published.
THEOREM RegistrationsAreKept == Spec => []RegistrationsAreOwn
<1>1. EventInv => RegistrationsAreOwn
  BY DEF EventInv, NumbersInv, Own, RegistrationsAreOwn
<1> QED BY <1>1, EventInvariant, PTL

\* The walk of publish down the tree sends the event to all descriptors that are
\* registered for a prefix of its key, or gives them up, and to no others.
THEOREM PublishReachesAll == Spec => PublishIsComplete
<1>1. EventInv /\ [Next]_vars =>
        [\A t \in Worker : Walking(t) /\ ~Walking(t)' => run[t].sent = Subscribed(WalkKey(t))]_vars
  BY WalkEnds DEF EventInv
<1> QED BY <1>1, EventInvariant, PTL DEF PublishIsComplete, Spec
=============================================================================
