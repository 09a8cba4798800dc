------------------------ MODULE SocketServiceProofs ------------------------
(***************************************************************************)
(* Theorems about the socket service, for any number of threads,           *)
(* connections and descriptors.                                            *)
(***************************************************************************)
EXTENDS SocketService, FiniteSetTheorems, SequenceTheorems, WellFoundedInduction, TLAPS

(* The inductive invariants.                                               *)

\* Whoever is between two steps of a critical section holds m_mutex, and nobody else.
LockInv == \A t \in Thread : holder = t <=> Locked(run[t])

\* A byte that was seen in the pipe is still there when the server reads it.
PipeInv == server = "drain" /\ Ctl \in rset => pipe > 0

\* What the server waits for is a client; and while it is on the way from its copy
\* of the set to the clients' turn, what it has copied is still in the set.
SelectInv ==
  /\ pending \cap Fd \subseteq clients
  /\ server \notin {"closed", "copy"} => rset \cap Fd \subseteq pending

\* Unless the application closes descriptors itself, clients are open, so that
\* select never fails.
OpenInv ==
  app # "breaks" => clients \subseteq Open /\ server # "repair"

\* t is in a callback for fd, or about to give it back; a job for fd waits.
WorksOn(t, fd) == run[t].at \notin {"idle", "wake"} /\ run[t].job.fd = fd
WaitsIn(i, fd) == jobs[i].fd = fd

Worked(fd) ==
  \/ \E i \in DOMAIN jobs : WaitsIn(i, fd)
  \/ \E t \in Thread : WorksOn(t, fd)

OneWork(fd) ==
  /\ \A i, j \in DOMAIN jobs : WaitsIn(i, fd) /\ WaitsIn(j, fd) => i = j
  /\ \A t, u \in Thread : WorksOn(t, fd) /\ WorksOn(u, fd) => t = u
  /\ \A i \in DOMAIN jobs, t \in Thread : ~(WaitsIn(i, fd) /\ WorksOn(t, fd))

\* A descriptor has at most one keeper ...
OneKeeper(fd) ==
  /\ OneWork(fd)
  /\ fd \in pending \cup pendClose => ~Worked(fd)
  /\ ~(fd \in pending /\ fd \in pendClose)

\* ... has one just if it is a client's ...
Kept(fd) == fd \in pending \cup pendClose \/ Worked(fd)

\* ... and whoever works on it, or is to, does so for the connection it has.
ConnsMatch ==
  /\ \A i \in DOMAIN jobs : jobs[i].conn = sock[jobs[i].fd]
  /\ \A t \in Thread : run[t].at \notin {"idle", "wake"} => run[t].job.conn = sock[run[t].job.fd]

\* That somebody asked for what is to be closed follows.
KeeperInv ==
  app = "keeps" =>
    /\ \A fd \in Fd : OneKeeper(fd) /\ (Kept(fd) <=> fd \in clients)
    /\ ConnsMatch
    /\ \A fd \in pendClose : sock[fd] \in asked

\* A new client's descriptor may be beyond max_fd until its first callback, if
\* the application takes it, has raised max_fd.
IsNew(fd) ==
  \/ fd \in pendClose
  \/ \E i \in DOMAIN jobs : WaitsIn(i, fd) /\ jobs[i].kind = "new"
  \/ \E t \in Thread : WorksOn(t, fd) /\ run[t].at \in {"call", "lock", "close"} /\ run[t].job.kind = "new"

ReachInv ==
  app = "keeps" =>
    /\ \A fd \in clients : fd <= maxFd \/ IsNew(fd)
    /\ \A fd \in pending : fd <= maxFd

ServiceInv ==
  TypeOK /\ LockInv /\ PipeInv /\ SelectInv /\ OpenInv /\ KeeperInv /\ ReachInv
----------------------------------------------------------------------------
(* Lemmas on the operators of the model.                                   *)

\* Among subsets of a finite set, one has no other inside it.
LEMMA SmallestSubset ==
  ASSUME NEW S, IsFiniteSet(S)
  PROVE  \A T \in SUBSET (SUBSET S) :
           T # {} => \E A \in T : \A B \in T : B \subseteq A => B = A
<1> SUFFICES ASSUME NEW T \in SUBSET (SUBSET S), T # {}
             PROVE  \E A \in T : \A B \in T : B \subseteq A => B = A
  OBVIOUS
<1>1. T \subseteq FiniteSubsetsOf(S)
  BY FS_Subset DEF FiniteSubsetsOf
<1>2. PICK A \in T : \A B \in T : ~ (<<B, A>> \in StrictSubsetOrdering(S))
  BY <1>1, FS_StrictSubsetOrderingWellFounded, WFMin
<1> QED BY <1>2 DEF StrictSubsetOrdering

\* A finite set of descriptors has a smallest one: the clients are tried in turn.
LEMMA MinExists ==
  ASSUME NEW S, S \subseteq Nat, IsFiniteSet(S), S # {}
  PROVE  Min(S) \in S /\ \A y \in S : Min(S) <= y
<1> DEFINE below(x) == {y \in S : y < x}
<1> DEFINE Cuts == {below(x) : x \in S}
<1>1. \A U \in SUBSET (SUBSET S) : U # {} => \E A \in U : \A B \in U : B \subseteq A => B = A
  BY ONLY IsFiniteSet(S), SmallestSubset
<1>2. Cuts \in SUBSET (SUBSET S) /\ Cuts # {}
  OBVIOUS
<1>3. PICK A \in Cuts : \A B \in Cuts : B \subseteq A => B = A
  BY <1>1, <1>2
<1>4. PICK x \in S : A = below(x)
  BY <1>3
<1>5. \A y \in S : below(y) \subseteq A => below(y) = A
  BY <1>3
<1>6. \A y \in S : x <= y
  <2> SUFFICES ASSUME NEW y \in S, y < x PROVE FALSE
    OBVIOUS
  <2>1. \A z \in S : z < y => z < x
    OBVIOUS
  <2>2. ~ (y < y)
    OBVIOUS
  <2> QED BY <1>4, <1>5, <2>1, <2>2
<1> QED BY <1>6 DEF Min

\* A finite set of descriptors has a largest one: setup_max_fd finds it.
LEMMA MaxExists ==
  ASSUME NEW S, S \subseteq Nat, IsFiniteSet(S), S # {}
  PROVE  Max(S) \in S /\ \A y \in S : y <= Max(S)
<1> DEFINE above(x) == {y \in S : y > x}
<1> DEFINE Cuts == {above(x) : x \in S}
<1>1. \A U \in SUBSET (SUBSET S) : U # {} => \E A \in U : \A B \in U : B \subseteq A => B = A
  BY ONLY IsFiniteSet(S), SmallestSubset
<1>2. Cuts \in SUBSET (SUBSET S) /\ Cuts # {}
  OBVIOUS
<1>3. PICK A \in Cuts : \A B \in Cuts : B \subseteq A => B = A
  BY <1>1, <1>2
<1>4. PICK x \in S : A = above(x)
  BY <1>3
<1>5. \A y \in S : above(y) \subseteq A => above(y) = A
  BY <1>3
<1>6. \A y \in S : x >= y
  <2> SUFFICES ASSUME NEW y \in S, y > x PROVE FALSE
    OBVIOUS
  <2>1. \A z \in S : z > y => z > x
    OBVIOUS
  <2>2. ~ (y > y)
    OBVIOUS
  <2> QED BY <1>4, <1>5, <2>1, <2>2
<1> QED BY <1>6 DEF Max

\* The larger of max_fd and a descriptor.
LEMMA MaxOfTwo ==
  ASSUME NEW m \in Nat, NEW n \in Nat
  PROVE  Max({m, n}) \in {m, n} /\ m <= Max({m, n}) /\ n <= Max({m, n})
<1> DEFINE S == {m, n}
<1>1. IsFiniteSet(S)
  <2>1. IsFiniteSet({m}) /\ S = {m} \cup {n}
    BY FS_Singleton
  <2> HIDE DEF S
  <2> QED BY <2>1, FS_AddElement
<1>2. S \subseteq Nat /\ S # {} /\ m \in S /\ n \in S
  OBVIOUS
<1>3. Max(S) \in S /\ \A y \in S : y <= Max(S)
  <2> HIDE DEF S
  <2> QED BY <1>1, <1>2, MaxExists
<1> QED BY <1>2, <1>3

\* setup_max_fd's result is a descriptor of a client or the pipe's, and as large as any.
LEMMA SetupMaxFdResult ==
  ASSUME ServiceAssumption, NEW fds, fds \subseteq Fd
  PROVE  /\ SetupMaxFd(fds) \in Fd \cup {Ctl}
         /\ \A fd \in fds : fd <= SetupMaxFd(fds)
<1> DEFINE S == fds \cup {Listener, Ctl}
<1>1. IsFiniteSet(fds)
  <2>1. IsFiniteSet(Fd)
    BY DEF ServiceAssumption
  <2> QED BY ONLY <2>1, fds \subseteq Fd, FS_Subset
<1>2. IsFiniteSet(S)
  <2>1. IsFiniteSet(fds \cup {Listener})
    BY ONLY <1>1, FS_AddElement
  <2>2. IsFiniteSet((fds \cup {Listener}) \cup {Ctl})
    BY ONLY <2>1, FS_AddElement
  <2>3. S = (fds \cup {Listener}) \cup {Ctl}
    OBVIOUS
  <2> QED BY ONLY <2>2, <2>3
<1>3. S \subseteq Nat /\ S # {}
  BY DEF ServiceAssumption, Listener, Ctl
<1>4. Max(S) \in S /\ \A fd \in S : fd <= Max(S)
  <2> HIDE DEF S
  <2> QED BY <1>2, <1>3, MaxExists
<1>5. \A m \in S : (\A fd \in S : fd <= m) => m \in Fd \cup {Ctl}
  BY DEF Ctl, Listener
<1> QED BY <1>4, <1>5 DEF SetupMaxFd

----------------------------------------------------------------------------
(* Type correctness.                                                       *)

Places == {"call", "lock", "greet", "find", "wake", "close"}

\* What a thread is doing: nothing, or something for a job.
LEMMA RunShape ==
  ASSUME NEW r \in Run
  PROVE  /\ r.at = "idle" <=> r = Idle
         /\ r.at # "idle" => /\ r.at \in Places /\ r.job \in Job
                             /\ r = [at |-> r.at, job |-> r.job]
BY DEF Run, Idle, Places

\* A job is for a descriptor.
LEMMA JobShape ==
  ASSUME NEW j \in Job
  PROVE  j.kind \in {"new", "data"} /\ j.fd \in Fd /\ j.conn \in Conn \cup {NoConn}
BY DEF Job

\* A thread that goes on in a callback goes on with the same job.
LEMMA MoveEffect ==
  ASSUME run \in [Thread -> Run], NEW t \in Thread, run[t].at # "idle",
         NEW at \in Places, Move(t, at)
  PROVE  /\ run[t].job \in Job
         /\ run' \in [Thread -> Run]
         /\ run' = [run EXCEPT ![t] = [at |-> at, job |-> run[t].job]]
<1>1. run[t].job \in Job /\ run[t] = [at |-> run[t].at, job |-> run[t].job]
  BY RunShape
<1>2. [run[t] EXCEPT !.at = at] = [at |-> at, job |-> run[t].job]
  BY <1>1
<1>3. run' = [run EXCEPT ![t] = [at |-> at, job |-> run[t].job]]
  BY <1>2 DEF Move
<1>4. [at |-> at, job |-> run[t].job] \in Run
  BY <1>1 DEF Run, Places
<1> QED BY <1>1, <1>3, <1>4

\* A callback that ends leaves its thread idle.
LEMMA DoneEffect ==
  ASSUME run \in [Thread -> Run], NEW t \in Thread, Done(t)
  PROVE  run' \in [Thread -> Run] /\ run' = [run EXCEPT ![t] = Idle]
<1>1. Idle \in Run
  BY DEF Run
<1> QED BY <1>1 DEF Done

\* A thread that starts on a job.
LEMMA StartEffect ==
  ASSUME run \in [Thread -> Run], NEW t \in Thread, NEW at \in Places, NEW j \in Job
  PROVE  [run EXCEPT ![t] = [at |-> at, job |-> j]] \in [Thread -> Run]
<1>1. [at |-> at, job |-> j] \in Run
  BY DEF Run, Places
<1> QED BY <1>1

\* queue_job starts a call or makes the list one longer.
LEMMA QueueJobType ==
  ASSUME TypeOK, NEW j \in Job, QueueJob(j)
  PROVE  jobs' \in Seq(Job) /\ run' \in [Thread -> Run]
<1>1. Server \in Thread /\ "call" \in Places
  BY DEF Thread, Places
<1>2. [run EXCEPT ![Server] = [at |-> "call", job |-> j]] \in [Thread -> Run]
  BY <1>1, StartEffect DEF TypeOK
<1>3. Append(jobs, j) \in Seq(Job)
  BY AppendProperties DEF TypeOK
<1> QED BY <1>2, <1>3 DEF QueueJob, TypeOK

\* A place from which a step is taken is not idleness.
LEMMA AtPlace ==
  ASSUME NEW t \in Thread, NEW at \in Places, At(t, at)
  PROVE  run[t].at = at /\ run[t].at # "idle"
BY DEF At, Places

\* The descriptors the server tries are some of the finitely many there are.
LEMMA TriedMin ==
  ASSUME ServiceAssumption, rset \cap Fd # {}
  PROVE  Min(rset \cap Fd) \in Fd
<1> DEFINE S == rset \cap Fd
<1>1. IsFiniteSet(Fd) /\ Fd \subseteq Nat /\ S \subseteq Fd /\ S # {}
  BY DEF ServiceAssumption
<1> HIDE DEF S
<1>2. IsFiniteSet(S) /\ S \subseteq Nat
  BY ONLY <1>1, FS_Subset
<1>3. Min(S) \in S
  BY ONLY <1>1, <1>2, MinExists
<1> QED BY <1>1, <1>3 DEF S

\* So are the clients that are ready.
LEMMA ReadyMin ==
  ASSUME ServiceAssumption, TypeOK, rset \cap clients # {}
  PROVE  Min(rset \cap clients) \in rset \cap clients
<1> DEFINE S == rset \cap clients
<1>1. S \subseteq Fd
  BY DEF TypeOK
<1>2. IsFiniteSet(Fd) /\ Fd \subseteq Nat
  BY DEF ServiceAssumption
<1> HIDE DEF S
<1>3. IsFiniteSet(S)
  BY ONLY <1>1, <1>2, FS_Subset
<1>4. S \subseteq Nat
  BY <1>1, <1>2
<1>5. S # {}
  BY DEF S
<1>6. Min(S) \in S
  BY ONLY <1>3, <1>4, <1>5, MinExists
<1> QED BY <1>6 DEF S

\* The server's steps keep the types.
LEMMA ServerType ==
  ASSUME ServiceAssumption, TypeOK, PipeInv, ServerStep \/ SelectTimeout
  PROVE  TypeOK'
<1>1. CASE ProcessClosed
  <2>1. clients' \subseteq Fd /\ SetupMaxFd(clients') \in Fd \cup {Ctl}
    BY <1>1, SetupMaxFdResult DEF ProcessClosed, TypeOK
  <2>2. sock' \in [Fd -> Conn \cup {NoConn}]
    BY <1>1 DEF ProcessClosed, TypeOK
  <2> QED BY <1>1, <2>1, <2>2 DEF ProcessClosed, TypeOK, config
<1>2. CASE CopyPending
  BY <1>2 DEF CopyPending, TypeOK, config, shared, kernel
<1>3. CASE SelectFails
  BY <1>3 DEF SelectFails, Watched, TypeOK, config, shared, kernel
<1>4. CASE SelectWaits
  BY <1>4 DEF SelectWaits, Watched, TypeOK, config, shared, kernel
<1>5. CASE SelectReady
  <2>1. rset' \subseteq rset
    BY <1>5 DEF SelectReady, Ready
  <2> QED BY <1>5, <2>1 DEF SelectReady, TypeOK, config, shared, kernel
<1>6. CASE SelectTimeout
  BY <1>6 DEF SelectTimeout, TypeOK, config, shared, kernel
<1>7. CASE Repair
  <2>1. CASE rset \cap Fd = {}
    BY <1>7, <2>1 DEF Repair, TypeOK, config, kernel
  <2>2. CASE rset \cap Fd # {}
    <3>1. Min(rset \cap Fd) \in Fd
      BY <2>2, TriedMin
    <3> QED BY <1>7, <2>2, <3>1 DEF Repair, TypeOK, config, kernel
  <2> QED BY <2>1, <2>2
<1>8. CASE Drain
  <2>1. pipe' \in 0 .. PipeSize
    BY <1>8 DEF Drain, Serves, PipeInv, TypeOK, ServiceAssumption
  <2> QED BY <1>8, <2>1 DEF Drain, TypeOK, config, shared, kernel
<1>9. CASE Accept
  <2>1. CASE Listener \notin rset \/ Free = {}
    BY <1>9, <2>1 DEF Accept, TypeOK, config, Free
  <2>2. CASE ~(Listener \notin rset \/ Free = {})
    <3>1. PICK c \in backlog, fd \in Free :
            /\ backlog' = backlog \ {c}
            /\ sock' = [sock EXCEPT ![fd] = c]
            /\ clients' = clients \cup {fd}
            /\ \/ /\ QueueJob([kind |-> "new", fd |-> fd, conn |-> c])
                  /\ UNCHANGED <<pendClose, asked>>
               \/ QueueFails(fd, c)
      BY <1>9, <2>2 DEF Accept
    <3>2. c \in Conn /\ fd \in Fd /\ [kind |-> "new", fd |-> fd, conn |-> c] \in Job
      BY DEF TypeOK, Free, Job
    <3>3. jobs' \in Seq(Job) /\ run' \in [Thread -> Run]
          /\ pendClose' \subseteq Fd /\ asked' \subseteq Conn \cup {NoConn}
      BY <3>1, <3>2, QueueJobType DEF QueueFails, TypeOK
    <3> QED BY <1>9, <3>1, <3>2, <3>3 DEF Accept, TypeOK, config
  <2> QED BY <2>1, <2>2
<1>10. CASE Dispatch
  <2>1. CASE rset \cap clients = {}
    BY <1>10, <2>1 DEF Dispatch, TypeOK, config, kernel
  <2>2. CASE rset \cap clients # {}
    <3> DEFINE fd == Min(rset \cap clients)
    <3>1. fd \in Fd /\ [kind |-> "data", fd |-> fd, conn |-> sock[fd]] \in Job
      BY <2>2, ReadyMin DEF TypeOK, Job
    <3>2. /\ rset' = rset \ {fd}
          /\ pending' = pending \ {fd}
          /\ \/ /\ QueueJob([kind |-> "data", fd |-> fd, conn |-> sock[fd]])
                /\ UNCHANGED <<pendClose, asked>>
             \/ QueueFails(fd, sock[fd])
      BY <1>10, <2>2 DEF Dispatch
    <3> HIDE DEF fd
    <3>3. jobs' \in Seq(Job) /\ run' \in [Thread -> Run]
          /\ pendClose' \subseteq Fd /\ asked' \subseteq Conn \cup {NoConn}
      BY <3>1, <3>2, QueueJobType DEF QueueFails, TypeOK
    <3> QED BY <1>10, <2>2, <3>1, <3>2, <3>3 DEF Dispatch, TypeOK, config, kernel
  <2> QED BY <2>1, <2>2
<1> QED BY <1>1, <1>2, <1>3, <1>4, <1>5, <1>6, <1>7, <1>8, <1>9, <1>10 DEF ServerStep

\* The descriptors in max_fd's place are numbers.
LEMMA FdIsNat ==
  ASSUME ServiceAssumption, TypeOK
  PROVE  /\ Fd \subseteq Nat /\ maxFd \in Nat /\ Ctl \in Nat
         /\ \A fd \in Fd : fd > Ctl
         /\ maxFd >= Ctl
BY DEF ServiceAssumption, TypeOK, Ctl

\* The callbacks' steps keep the types.
LEMMA CallbackType ==
  ASSUME ServiceAssumption, TypeOK, NEW t \in Thread, CallbackStep(t)
  PROVE  TypeOK'
<1> USE DEF Places
<1>0. run \in [Thread -> Run] /\ (run[t].at # "idle" => run[t].job \in Job /\ run[t].job.fd \in Fd
                                    /\ run[t].job.conn \in Conn \cup {NoConn})
  <2>1. run[t] \in Run
    BY DEF TypeOK
  <2> QED BY <2>1, RunShape, JobShape DEF TypeOK
<1>1. CASE NewClient(t)
  <2>1. run' \in [Thread -> Run]
    BY <1>1, <1>0, AtPlace, MoveEffect DEF NewClient
  <2> QED BY <1>1, <2>1 DEF NewClient, TypeOK, config, shared, kernel
<1>2. CASE SomeData(t)
  <2>1. run' \in [Thread -> Run]
    BY <1>2, <1>0, AtPlace, MoveEffect DEF SomeData
  <2>2. sock' \in [Fd -> Conn \cup {NoConn}] /\ asked' \subseteq Conn \cup {NoConn}
    BY <1>2, <1>0, AtPlace DEF SomeData, TypeOK
  <2> QED BY <1>2, <2>1, <2>2 DEF SomeData, TypeOK, config
<1>3. CASE PendClose(t)
  <2>1. run' \in [Thread -> Run]
    BY <1>3, <1>0, DoneEffect DEF PendClose
  <2> QED BY <1>3, <1>0, <2>1, AtPlace DEF PendClose, TypeOK, config, kernel
<1>4. CASE Lock(t)
  <2>1. run' \in [Thread -> Run]
    BY <1>4, <1>0, AtPlace, MoveEffect DEF Lock
  <2>2. maxFd' \in Fd \cup {Ctl}
    <3>1. run[t].job.fd \in Fd /\ run[t].job.fd \in Nat
      BY <1>4, <1>0, AtPlace, FdIsNat DEF Lock
    <3>2. Max({maxFd, run[t].job.fd}) \in {maxFd, run[t].job.fd}
      BY <3>1, FdIsNat, MaxOfTwo
    <3> QED BY <1>4, <3>1, <3>2 DEF Lock, TypeOK
  <2> QED BY <1>4, <2>1, <2>2 DEF Lock, TypeOK, config, kernel
<1>5. CASE Greet(t)
  <2>1. run' \in [Thread -> Run]
    BY <1>5, <1>0, AtPlace, MoveEffect DEF Greet
  <2>2. pipe' \in 0 .. PipeSize
    BY <1>5 DEF Greet, TypeOK, ServiceAssumption
  <2> QED BY <1>5, <2>1, <2>2 DEF Greet, TypeOK, config, shared, kernel
<1>6. CASE Find(t)
  <2>1. run' \in [Thread -> Run]
    BY <1>6, <1>0, AtPlace, MoveEffect, DoneEffect DEF Find
  <2>2. pending' \subseteq Fd \cup {Listener, Ctl}
    BY <1>6, <1>0, AtPlace DEF Find, TypeOK
  <2> QED BY <1>6, <2>1, <2>2 DEF Find, TypeOK, config, kernel
<1>7. CASE Wake(t)
  <2>1. run' \in [Thread -> Run]
    BY <1>7, <1>0, DoneEffect DEF Wake
  <2>2. pipe' \in 0 .. PipeSize
    BY <1>7 DEF Wake, TypeOK, ServiceAssumption
  <2> QED BY <1>7, <2>1, <2>2 DEF Wake, TypeOK, config, shared, kernel
<1> QED BY <1>1, <1>2, <1>3, <1>4, <1>5, <1>6, <1>7 DEF CallbackStep

\* The steps of the application and of the peers keep the types, and so does
\* the start of a job.
LEMMA OutsideType ==
  ASSUME ServiceAssumption, TypeOK,
         \/ \E w \in Worker : StartJob(w)
         \/ \E c \in Conn : ClientAdd(c) \/ Connect(c) \/ Send(c)
         \/ \E fd \in Fd : ClientClose(fd)
  PROVE  TypeOK'
<1>1. ASSUME NEW w \in Worker, StartJob(w) PROVE TypeOK'
  <2>1. Head(jobs) \in Job /\ Tail(jobs) \in Seq(Job)
    BY <1>1, HeadTailProperties DEF StartJob, TypeOK
  <2>2. w \in Thread /\ "call" \in Places
    BY DEF Thread, Places
  <2>3. run' \in [Thread -> Run]
    BY <1>1, <2>1, <2>2, StartEffect DEF StartJob, TypeOK
  <2> QED BY <1>1, <2>1, <2>3 DEF StartJob, TypeOK, config, shared, kernel
<1>2. ASSUME NEW c \in Conn, ClientAdd(c) PROVE TypeOK'
  <2>1. PICK fd \in Free :
          /\ sock' = [sock EXCEPT ![fd] = c]
          /\ clients' = clients \cup {fd}
          /\ maxFd' = Max({maxFd, fd})
          /\ run' = [run EXCEPT ![Adder] =
                       [at |-> "greet", job |-> [kind |-> "new", fd |-> fd, conn |-> c]]]
    BY <1>2 DEF ClientAdd
  <2>2. fd \in Fd /\ fd \in Nat /\ [kind |-> "new", fd |-> fd, conn |-> c] \in Job
    BY FdIsNat DEF Free, Job
  <2>3. maxFd' \in Fd \cup {Ctl}
    BY <2>1, <2>2, FdIsNat, MaxOfTwo DEF TypeOK
  <2>4. Adder \in Thread /\ "greet" \in Places
    BY DEF Thread, Places
  <2>5. run' \in [Thread -> Run]
    BY <2>1, <2>2, <2>4, StartEffect DEF TypeOK
  <2>6. sock' \in [Fd -> Conn \cup {NoConn}] /\ clients' \subseteq Fd
    BY <2>1, <2>2 DEF TypeOK
  <2> QED BY <1>2, <2>3, <2>4, <2>5, <2>6 DEF ClientAdd, TypeOK, config
<1>3. ASSUME NEW c \in Conn, Connect(c) PROVE TypeOK'
  BY <1>3 DEF Connect, TypeOK, config, shared
<1>4. ASSUME NEW c \in Conn, Send(c) PROVE TypeOK'
  BY <1>4 DEF Send, TypeOK, config, shared, ServiceAssumption
<1>5. ASSUME NEW fd \in Fd, ClientClose(fd) PROVE TypeOK'
  BY <1>5 DEF ClientClose, TypeOK, config, kernel
<1> QED BY <1>1, <1>2, <1>3, <1>4, <1>5

----------------------------------------------------------------------------
(* m_mutex and the pipe.                                                   *)

\* The server holds no lock between its steps, and what it starts, a call of
\* its own, holds none either.
LEMMA ServerRuns ==
  ASSUME TypeOK, ServerStep \/ SelectTimeout
  PROVE  /\ holder' = holder
         /\ \/ run' = run
            \/ /\ run[Server] = Idle
               /\ \E j : run' = [run EXCEPT ![Server] = [at |-> "call", job |-> j]]
<1>1. CASE Accept
  <2>1. CASE Listener \notin rset \/ Free = {}
    BY <1>1, <2>1 DEF Accept, Free
  <2>2. CASE ~(Listener \notin rset \/ Free = {})
    BY <1>1, <2>2 DEF Accept, QueueJob, QueueFails, Serves
  <2> QED BY <2>1, <2>2
<1>2. CASE Dispatch
  BY <1>2 DEF Dispatch, QueueJob, QueueFails, Serves
<1>3. CASE ~Accept /\ ~Dispatch
  BY <1>3 DEF ServerStep, ProcessClosed, CopyPending, SelectFails, SelectWaits, SelectReady,
              SelectTimeout, Repair, Drain
<1> QED BY <1>1, <1>2, <1>3

\* m_mutex is held by the thread that is in a critical section.
LEMMA LockStep ==
  ASSUME ServiceAssumption, TypeOK, LockInv, [Next]_vars
  PROVE  LockInv'
<1> USE DEF Places
<1>0. /\ run \in [Thread -> Run] /\ NoThread \notin Thread /\ ~Locked(Idle)
      /\ Server \in Thread /\ Adder \in Thread /\ Worker \subseteq Thread
  BY DEF TypeOK, ServiceAssumption, Locked, Idle, Thread
<1>1. CASE ServerStep \/ SelectTimeout
  BY <1>0, <1>1, ServerRuns DEF LockInv, Locked
<1>2. ASSUME NEW w \in Worker, StartJob(w) PROVE LockInv'
  BY <1>0, <1>2 DEF StartJob, LockInv, Locked
<1>3. ASSUME NEW t \in Thread, CallbackStep(t) PROVE LockInv'
  <2>1. CASE NewClient(t) \/ SomeData(t)
    <3>1. PICK at \in {"lock", "close"} : Move(t, at)
      BY <2>1 DEF NewClient, SomeData
    <3>2. At(t, "call") /\ holder' = holder
      BY <2>1 DEF NewClient, SomeData
    <3>3. run' = [run EXCEPT ![t] = [at |-> at, job |-> run[t].job]]
      BY <1>0, <3>1, <3>2, AtPlace, MoveEffect
    <3> QED BY <1>0, <3>2, <3>3 DEF LockInv, Locked, At
  <2>2. CASE PendClose(t)
    <3>1. At(t, "close") /\ holder' = holder /\ Done(t)
      BY <2>2 DEF PendClose
    <3> QED BY <1>0, <3>1, DoneEffect DEF LockInv, Locked, At
  <2>3. CASE Lock(t)
    <3>1. PICK at \in {"greet", "find"} : Move(t, at)
      BY <2>3 DEF Lock
    <3>2. At(t, "lock") /\ holder = NoThread /\ holder' = t
      BY <2>3 DEF Lock
    <3>3. run' = [run EXCEPT ![t] = [at |-> at, job |-> run[t].job]]
      BY <1>0, <3>1, <3>2, AtPlace, MoveEffect
    <3> QED BY <1>0, <3>2, <3>3 DEF LockInv, Locked
  <2>4. CASE Greet(t)
    <3>1. At(t, "greet") /\ holder' = holder /\ Move(t, "find")
      BY <2>4 DEF Greet
    <3>2. run' = [run EXCEPT ![t] = [at |-> "find", job |-> run[t].job]]
      BY <1>0, <3>1, AtPlace, MoveEffect
    <3> QED BY <1>0, <3>1, <3>2 DEF LockInv, Locked, At
  <2>5. CASE Find(t)
    <3>1. At(t, "find")
      BY <2>5 DEF Find
    <3>2. CASE holder' = holder /\ Move(t, "wake")
      <4>1. run' = [run EXCEPT ![t] = [at |-> "wake", job |-> run[t].job]]
        BY <1>0, <3>1, <3>2, AtPlace, MoveEffect
      <4> QED BY <1>0, <3>1, <3>2, <4>1 DEF LockInv, Locked, At
    <3>3. CASE holder' = NoThread /\ Done(t)
      BY <1>0, <3>1, <3>3, DoneEffect DEF LockInv, Locked, At
    <3> QED BY <2>5, <3>2, <3>3 DEF Find
  <2>6. CASE Wake(t)
    <3>1. At(t, "wake") /\ holder' = NoThread /\ Done(t)
      BY <2>6 DEF Wake
    <3> QED BY <1>0, <3>1, DoneEffect DEF LockInv, Locked, At
  <2> QED BY <1>3, <2>1, <2>2, <2>3, <2>4, <2>5, <2>6 DEF CallbackStep
<1>4. ASSUME NEW c \in Conn, ClientAdd(c) PROVE LockInv'
  <2>1. /\ run[Adder] = Idle /\ holder = NoThread /\ holder' = Adder
        /\ \E j : run' = [run EXCEPT ![Adder] = [at |-> "greet", job |-> j]]
    BY <1>4 DEF ClientAdd
  <2> QED BY <1>0, <2>1 DEF LockInv, Locked
<1>5. CASE \/ \E c \in Conn : Connect(c) \/ Send(c)
           \/ \E fd \in Fd : ClientClose(fd)
           \/ UNCHANGED vars
  BY <1>5 DEF Connect, Send, ClientClose, vars, LockInv
<1> QED BY <1>1, <1>2, <1>3, <1>4, <1>5 DEF Next

\* Only the server reads the pipe, so that a byte it saw is still there.
LEMMA PipeStep ==
  ASSUME ServiceAssumption, TypeOK, PipeInv, [Next]_vars
  PROVE  PipeInv'
<1>1. CASE SelectReady
  <2>1. Ctl \in Ready => pipe > 0
    BY DEF Ready, Readable, Ctl, Listener
  <2> QED BY <1>1, <2>1 DEF SelectReady, PipeInv
<1>2. CASE ServerStep /\ ~SelectReady
  <2>1. server' = "drain" => server = "drain" /\ rset' = rset /\ FALSE
    BY <1>2 DEF ServerStep, ProcessClosed, CopyPending, SelectFails, SelectWaits,
                Repair, Drain, Accept, Dispatch, Serves
  <2> QED BY <2>1 DEF PipeInv
<1>3. CASE ~ServerStep
  <2>1. server' = server \/ server' = "closed"
    BY <1>3 DEF Next, CallbackStep, SelectTimeout, StartJob, NewClient, SomeData, PendClose, Lock,
                Greet, Find, Wake, ClientAdd, Connect, Send, ClientClose, vars
  <2>2. rset' = rset /\ pipe' \in {pipe, pipe + 1}
    BY <1>3 DEF Next, CallbackStep, SelectTimeout, StartJob, NewClient, SomeData, PendClose, Lock,
                Greet, Find, Wake, ClientAdd, Connect, Send, ClientClose, vars
  <2>3. pipe \in Nat
    BY DEF TypeOK, ServiceAssumption
  <2> QED BY <2>1, <2>2, <2>3 DEF PipeInv
<1> QED BY <1>1, <1>2, <1>3

\* The types, m_mutex and the pipe, in every reachable state.
THEOREM TypeAndLock == Spec => [](TypeOK /\ LockInv /\ PipeInv)
<1> USE DEF Places
<1>1. ASSUME ServiceAssumption, Init PROVE TypeOK /\ LockInv /\ PipeInv
  <2>1. TypeOK
    <3>1. Idle \in Run /\ << >> \in Seq(Job)
      BY DEF Run
    <3> QED BY <1>1, <3>1 DEF Init, TypeOK, Listener, Ctl, ServiceAssumption
  <2>2. LockInv /\ PipeInv
    BY <1>1 DEF Init, LockInv, PipeInv, Locked, Idle, ServiceAssumption
  <2> QED BY <2>1, <2>2
<1>2. ASSUME ServiceAssumption, TypeOK /\ LockInv /\ PipeInv, [Next]_vars
      PROVE  (TypeOK /\ LockInv /\ PipeInv)'
  <2>1. TypeOK'
    <3>1. CASE UNCHANGED vars
      BY <1>2, <3>1 DEF vars, TypeOK
    <3>2. CASE Next
      BY <1>2, <3>2, ServerType, CallbackType, OutsideType DEF Next
    <3> QED BY <1>2, <3>1, <3>2
  <2> QED BY <1>2, <2>1, LockStep, PipeStep
<1> QED BY <1>1, <1>2, ServiceAssumption, PTL DEF Spec

----------------------------------------------------------------------------
(* What select sees.                                                       *)

\* What the server waits for stays a client, and what it has copied stays in
\* the set: only the server takes a descriptor out.
LEMMA SelectStep ==
  ASSUME ServiceAssumption, TypeOK, SelectInv, [Next]_vars
  PROVE  SelectInv'
<1>1. CASE ProcessClosed
  BY <1>1 DEF ProcessClosed, SelectInv
<1>2. CASE CopyPending
  BY <1>2 DEF CopyPending, SelectInv, shared
<1>3. CASE SelectFails
  BY <1>3 DEF SelectFails, Serves, Watched, SelectInv, shared
<1>4. CASE SelectWaits
  BY <1>4 DEF SelectWaits, Serves, Watched, SelectInv, shared
<1>5. CASE SelectReady
  <2>1. rset' \subseteq rset
    BY <1>5 DEF SelectReady, Ready
  <2> QED BY <1>5, <2>1 DEF SelectReady, Serves, SelectInv, shared
<1>6. CASE SelectTimeout
  BY <1>6 DEF SelectTimeout, SelectInv, shared
<1>7. CASE Repair
  <2>1. rset' \subseteq rset
    BY <1>7 DEF Repair
  <2> QED BY <1>7, <2>1 DEF Repair, Serves, SelectInv
<1>8. CASE Drain
  BY <1>8 DEF Drain, Serves, SelectInv, shared
<1>9. CASE Accept
  <2>1. clients \subseteq clients' /\ rset' = rset /\ pending' = pending /\ server = "accept"
    BY <1>9 DEF Accept, Serves
  <2> QED BY <2>1 DEF SelectInv
<1>10. CASE Dispatch
  <2>1. CASE rset \cap clients = {}
    BY <1>10, <2>1 DEF Dispatch, SelectInv
  <2>2. CASE rset \cap clients # {}
    <3>1. /\ rset' = rset \ {Min(rset \cap clients)}
          /\ pending' = pending \ {Min(rset \cap clients)}
          /\ server = "each" /\ clients' = clients
      BY <1>10, <2>2 DEF Dispatch, Serves
    <3> QED BY <3>1 DEF SelectInv
  <2> QED BY <2>1, <2>2
<1>11. ASSUME NEW t \in Thread, CallbackStep(t) PROVE SelectInv'
  <2>1. rset' = rset /\ server' = server /\ clients' = clients
    BY <1>11 DEF CallbackStep, NewClient, SomeData, PendClose, Lock, Greet, Find, Wake, shared
  <2>2. \/ pending' = pending
        \/ run[t].job.fd \in clients /\ pending' = pending \cup {run[t].job.fd}
    BY <1>11 DEF CallbackStep, NewClient, SomeData, PendClose, Lock, Greet, Find, Wake, shared
  <2> QED BY <2>1, <2>2 DEF SelectInv
<1>12. CASE \/ \E w \in Worker : StartJob(w)
            \/ \E c \in Conn : ClientAdd(c) \/ Connect(c) \/ Send(c)
            \/ \E fd \in Fd : ClientClose(fd)
            \/ UNCHANGED vars
  <2>1. clients \subseteq clients' /\ rset' = rset /\ pending' = pending /\ server' = server
    BY <1>12 DEF StartJob, ClientAdd, Connect, Send, ClientClose, vars, shared
  <2> QED BY <2>1 DEF SelectInv
<1> QED BY <1>1, <1>2, <1>3, <1>4, <1>5, <1>6, <1>7, <1>8, <1>9, <1>10, <1>11, <1>12
           DEF Next, ServerStep

\* Clients stay open as long as only the server closes them, so that select
\* does not fail.
LEMMA OpenStep ==
  ASSUME ServiceAssumption, TypeOK, SelectInv, OpenInv, [Next]_vars
  PROVE  OpenInv'
<1> SUFFICES ASSUME app' # "breaks" PROVE clients' \subseteq Open' /\ server' # "repair"
  BY DEF OpenInv
<1>0. app' = app
  BY DEF Next, ServerStep, CallbackStep, ProcessClosed, CopyPending, SelectFails, SelectWaits,
         SelectReady, SelectTimeout, Repair, Drain, Accept, Dispatch, StartJob, NewClient, SomeData,
         PendClose, Lock, Greet, Find, Wake, ClientAdd, Connect, Send, ClientClose, vars, config
<1>1. clients \subseteq Open /\ server # "repair" /\ clients \subseteq Fd
      /\ \A fd \in clients : sock[fd] # NoConn
  BY <1>0 DEF OpenInv, Open, Free, TypeOK
<1>2. ASSUME NEW c \in Conn, NEW fd \in Free,
             sock' = [sock EXCEPT ![fd] = c], clients' = clients \cup {fd}
      PROVE  clients' \subseteq Open'
  <2>1. c # NoConn /\ fd \in Fd /\ sock \in [Fd -> Conn \cup {NoConn}]
    BY DEF ServiceAssumption, Free, TypeOK
  <2> QED BY <1>1, <1>2, <2>1 DEF Open, Free
<1>3. CASE ProcessClosed
  <2>1. \A fd \in clients' : fd \in Fd /\ sock'[fd] # NoConn
    BY <1>1, <1>3 DEF ProcessClosed
  <2> QED BY <1>3, <2>1 DEF ProcessClosed, Open, Free
<1>4. CASE SelectFails
  <2>1. Bad = {}
    BY <1>1, <1>4 DEF SelectFails, Serves, SelectInv, Bad, Watched
  <2> QED BY <1>4, <2>1 DEF SelectFails
<1>5. CASE Accept
  <2>1. CASE UNCHANGED <<clients, sock>>
    BY <1>1, <1>5, <2>1 DEF Accept, Open, Free
  <2>2. CASE ~UNCHANGED <<clients, sock>>
    <3>1. \E c \in backlog, fd \in Free :
            sock' = [sock EXCEPT ![fd] = c] /\ clients' = clients \cup {fd}
      BY <1>5, <2>2 DEF Accept
    <3>2. clients' \subseteq Open'
      BY <1>2, <3>1 DEF TypeOK
    <3> QED BY <1>5, <3>2 DEF Accept
  <2> QED BY <2>1, <2>2
<1>6. CASE ServerStep /\ ~ProcessClosed /\ ~SelectFails /\ ~Accept
  <2>1. clients' = clients /\ sock' = sock /\ server' # "repair"
    BY <1>1, <1>6 DEF ServerStep, CopyPending, SelectWaits, SelectReady, Repair, Drain, Dispatch,
                      Serves, shared, kernel
  <2> QED BY <1>1, <2>1 DEF Open, Free
<1>7. ASSUME NEW c \in Conn, ClientAdd(c) PROVE clients' \subseteq Open' /\ server' # "repair"
  <2>1. \E fd \in Free : sock' = [sock EXCEPT ![fd] = c] /\ clients' = clients \cup {fd}
    BY <1>7 DEF ClientAdd
  <2> QED BY <1>1, <1>2, <1>7, <2>1 DEF ClientAdd
<1>8. ASSUME NEW t \in Thread, CallbackStep(t) PROVE clients' = clients /\ sock' = sock /\ server' = server
  BY <1>0, <1>8 DEF CallbackStep, NewClient, SomeData, PendClose, Lock, Greet, Find, Wake, shared, kernel
<1>9. CASE \/ SelectTimeout
           \/ \E w \in Worker : StartJob(w)
           \/ \E c \in Conn : Connect(c) \/ Send(c)
           \/ \E fd \in Fd : ClientClose(fd)
           \/ UNCHANGED vars
  <2>1. clients' = clients /\ sock' = sock /\ server' \in {server, "closed"}
    BY <1>9 DEF SelectTimeout, StartJob, Connect, Send, ClientClose, vars, shared, kernel
  <2> QED BY <1>1, <2>1 DEF Open, Free
<1> QED BY <1>1, <1>3, <1>4, <1>5, <1>6, <1>7, <1>8, <1>9 DEF Next, Open, Free

----------------------------------------------------------------------------
(* Who works on a descriptor.                                              *)

\* A thread that does something does it for a job, whose descriptor is one.
LEMMA WorkShape ==
  ASSUME TypeOK
  PROVE  /\ run \in [Thread -> Run] /\ jobs \in Seq(Job) /\ DOMAIN jobs = 1 .. Len(jobs) /\ Len(jobs) \in Nat
         /\ \A i \in DOMAIN jobs : jobs[i] \in Job /\ jobs[i].fd \in Fd
         /\ \A t \in Thread : run[t].at # "idle" => run[t].job \in Job /\ run[t].job.fd \in Fd
<1>1. \A t \in Thread : run[t].at # "idle" => run[t].job \in Job
  BY RunShape DEF TypeOK
<1>2. jobs \in Seq(Job) /\ DOMAIN jobs = 1 .. Len(jobs) /\ Len(jobs) \in Nat
      /\ \A i \in DOMAIN jobs : jobs[i] \in Job
  BY LenProperties, ElementOfSeq DEF TypeOK
<1> QED BY <1>1, <1>2, JobShape DEF TypeOK

\* Work that goes on is for the same connections, if those stay where they are.
LEMMA ConnsStay ==
  ASSUME TypeOK, ConnsMatch, jobs' = jobs, run' = run,
         \A fd \in Fd : Worked(fd) => sock'[fd] = sock[fd]
  PROVE  ConnsMatch'
<1>1. ASSUME NEW i \in DOMAIN jobs PROVE jobs[i].conn = sock'[jobs[i].fd]
  <2>1. Worked(jobs[i].fd) /\ jobs[i].fd \in Fd
    BY WorkShape DEF Worked, WaitsIn
  <2> QED BY <2>1 DEF ConnsMatch
<1>2. ASSUME NEW t \in Thread, run[t].at \notin {"idle", "wake"}
      PROVE  run[t].job.conn = sock'[run[t].job.fd]
  <2>1. Worked(run[t].job.fd) /\ run[t].job.fd \in Fd
    BY <1>2, WorkShape DEF Worked, WorksOn
  <2> QED BY <1>2, <2>1 DEF ConnsMatch
<1> QED BY <1>1, <1>2 DEF ConnsMatch

\* A step within a callback leaves the work as it is.
LEMMA WorkMoves ==
  ASSUME TypeOK, NEW t \in Thread, run[t].at \notin {"idle", "wake"},
         NEW at \in Places \ {"wake"}, run' = [run EXCEPT ![t] = [at |-> at, job |-> run[t].job]],
         jobs' = jobs
  PROVE  /\ \A fd \in Fd : (Worked(fd)' <=> Worked(fd)) /\ (OneWork(fd) => OneWork(fd)')
         /\ sock' = sock /\ ConnsMatch => ConnsMatch'
<1>1. \A u \in Thread, fd \in Fd : WorksOn(u, fd)' <=> WorksOn(u, fd)
  BY DEF WorksOn, Places, TypeOK
<1>2. \A i \in DOMAIN jobs, fd \in Fd : WaitsIn(i, fd)' <=> WaitsIn(i, fd)
  BY DEF WaitsIn
<1>3. ASSUME sock' = sock, ConnsMatch PROVE ConnsMatch'
  BY <1>3 DEF ConnsMatch, Places, TypeOK
<1> QED BY <1>1, <1>2, <1>3 DEF Worked, OneWork

\* A callback that gives its client back, or has it closed, works on it no more.
LEMMA WorkEnds ==
  ASSUME TypeOK, NEW t \in Thread, run[t].at \notin {"idle", "wake"}, OneWork(run[t].job.fd),
         NEW r \in Run, r.at \in {"idle", "wake"}, run' = [run EXCEPT ![t] = r],
         jobs' = jobs
  PROVE  /\ \A fd \in Fd : /\ Worked(fd)' <=> Worked(fd) /\ fd # run[t].job.fd
                           /\ OneWork(fd) => OneWork(fd)'
         /\ sock' = sock /\ ConnsMatch => ConnsMatch'
<1>1. \A u \in Thread, fd \in Fd : WorksOn(u, fd)' <=> WorksOn(u, fd) /\ u # t
  BY DEF WorksOn, TypeOK
<1>2. \A i \in DOMAIN jobs, fd \in Fd : WaitsIn(i, fd)' <=> WaitsIn(i, fd)
  BY DEF WaitsIn
<1>3. ASSUME sock' = sock, ConnsMatch PROVE ConnsMatch'
  BY <1>3 DEF ConnsMatch, TypeOK
<1>4. \A fd \in Fd : WorksOn(t, fd) <=> fd = run[t].job.fd
  BY DEF WorksOn
<1>5. ASSUME NEW fd \in Fd PROVE Worked(fd)' <=> Worked(fd) /\ fd # run[t].job.fd
  BY <1>1, <1>2, <1>4 DEF Worked, OneWork
<1>6. ASSUME NEW fd \in Fd, OneWork(fd) PROVE OneWork(fd)'
  BY <1>1, <1>2, <1>6 DEF OneWork
<1> QED BY <1>3, <1>5, <1>6

\* The last step of a callback that has given its client back.
LEMMA WorkEnded ==
  ASSUME TypeOK, NEW t \in Thread, run[t].at = "wake", run' = [run EXCEPT ![t] = Idle],
         jobs' = jobs
  PROVE  /\ \A fd \in Fd : (Worked(fd)' <=> Worked(fd)) /\ (OneWork(fd) => OneWork(fd)')
         /\ sock' = sock /\ ConnsMatch => ConnsMatch'
<1>1. \A u \in Thread, fd \in Fd : WorksOn(u, fd)' <=> WorksOn(u, fd)
  BY DEF WorksOn, TypeOK, Idle
<1>2. \A i \in DOMAIN jobs, fd \in Fd : WaitsIn(i, fd)' <=> WaitsIn(i, fd)
  BY DEF WaitsIn
<1>3. ASSUME sock' = sock, ConnsMatch PROVE ConnsMatch'
  BY <1>3 DEF ConnsMatch, TypeOK, Idle
<1> QED BY <1>1, <1>2, <1>3 DEF Worked, OneWork

\* A thread that was idle starts on a descriptor nobody worked on.
LEMMA WorkCalled ==
  ASSUME TypeOK, NEW t \in Thread, run[t] = Idle, NEW at \in Places \ {"wake"}, NEW j \in Job,
         run' = [run EXCEPT ![t] = [at |-> at, job |-> j]], jobs' = jobs,
         ~Worked(j.fd)
  PROVE  /\ \A fd \in Fd : /\ Worked(fd)' <=> Worked(fd) \/ fd = j.fd
                           /\ OneWork(fd) => OneWork(fd)'
         /\ /\ j.conn = sock'[j.fd] /\ ConnsMatch
            /\ \A fd \in Fd : Worked(fd) => sock'[fd] = sock[fd]
            => ConnsMatch'
<1>0. j.fd \in Fd
  BY JobShape
<1>1. \A u \in Thread, fd \in Fd : WorksOn(u, fd)' <=> IF u = t THEN fd = j.fd ELSE WorksOn(u, fd)
  BY DEF WorksOn, TypeOK, Idle, Places
<1>2. \A i \in DOMAIN jobs, fd \in Fd : WaitsIn(i, fd)' <=> WaitsIn(i, fd)
  BY DEF WaitsIn
<1>3. \A fd \in Fd : ~WorksOn(t, fd)
  BY DEF WorksOn, Idle
<1>4. ASSUME NEW fd \in Fd PROVE Worked(fd)' <=> Worked(fd) \/ fd = j.fd
  BY <1>1, <1>2, <1>3 DEF Worked
<1>5. ASSUME NEW fd \in Fd, OneWork(fd) PROVE OneWork(fd)'
  <2>1. CASE fd = j.fd
    BY <1>1, <1>2, <2>1 DEF OneWork, Worked
  <2>2. CASE fd # j.fd
    BY <1>1, <1>2, <1>5, <2>2 DEF OneWork
  <2> QED BY <2>1, <2>2
<1>6. ASSUME j.conn = sock'[j.fd], ConnsMatch, \A fd \in Fd : Worked(fd) => sock'[fd] = sock[fd]
      PROVE  ConnsMatch'
  <2>1. ASSUME NEW i \in DOMAIN jobs' PROVE jobs'[i].conn = sock'[jobs'[i].fd]
    <3>1. Worked(jobs[i].fd) /\ jobs[i].fd \in Fd
      BY WorkShape DEF Worked, WaitsIn
    <3> QED BY <1>6, <3>1 DEF ConnsMatch
  <2>2. ASSUME NEW u \in Thread, run'[u].at \notin {"idle", "wake"}
        PROVE  run'[u].job.conn = sock'[run'[u].job.fd]
    <3>1. CASE u = t
      BY <1>6, <3>1 DEF TypeOK
    <3>2. CASE u # t
      <4>1. run'[u] = run[u]
        BY <3>2 DEF TypeOK
      <4>2. Worked(run[u].job.fd) /\ run[u].job.fd \in Fd
        BY <2>2, <4>1, WorkShape DEF Worked, WorksOn
      <4> QED BY <1>6, <2>2, <4>1, <4>2 DEF ConnsMatch
    <3> QED BY <3>1, <3>2
  <2> QED BY <2>1, <2>2 DEF ConnsMatch
<1> QED BY <1>4, <1>5, <1>6

\* A job is put in the list for a descriptor nobody worked on.
LEMMA WorkAppended ==
  ASSUME TypeOK, NEW j \in Job, jobs' = Append(jobs, j), run' = run, ~Worked(j.fd)
  PROVE  /\ \A fd \in Fd : /\ Worked(fd)' <=> Worked(fd) \/ fd = j.fd
                           /\ OneWork(fd) => OneWork(fd)'
         /\ /\ j.conn = sock'[j.fd] /\ ConnsMatch
            /\ \A fd \in Fd : Worked(fd) => sock'[fd] = sock[fd]
            => ConnsMatch'
<1> DEFINE n == Len(jobs) + 1
<1>0. j.fd \in Fd /\ jobs \in Seq(Job)
  BY JobShape DEF TypeOK
<1>1. /\ DOMAIN jobs = 1 .. Len(jobs) /\ Len(jobs) \in Nat
      /\ DOMAIN jobs' = 1 .. n
      /\ \A i \in 1 .. Len(jobs) : jobs'[i] = jobs[i]
      /\ jobs'[n] = j
  BY <1>0, AppendProperties, LenProperties
<1>2. DOMAIN jobs' = DOMAIN jobs \cup {n} /\ n \notin DOMAIN jobs
  BY <1>1
<1> HIDE DEF n
<1>3. \A i \in DOMAIN jobs', fd \in Fd : WaitsIn(i, fd)' <=> IF i = n THEN fd = j.fd ELSE WaitsIn(i, fd)
  BY <1>1, <1>2 DEF WaitsIn
<1>4. \A u \in Thread, fd \in Fd : WorksOn(u, fd)' <=> WorksOn(u, fd)
  BY DEF WorksOn
<1>5. ASSUME NEW fd \in Fd PROVE Worked(fd)' <=> Worked(fd) \/ fd = j.fd
  BY <1>2, <1>3, <1>4 DEF Worked
<1>6. ASSUME NEW fd \in Fd, OneWork(fd) PROVE OneWork(fd)'
  <2>1. CASE fd = j.fd
    BY <1>2, <1>3, <1>4, <2>1 DEF OneWork, Worked
  <2>2. CASE fd # j.fd
    BY <1>2, <1>3, <1>4, <1>6, <2>2 DEF OneWork
  <2> QED BY <2>1, <2>2
<1>7. ASSUME j.conn = sock'[j.fd], ConnsMatch, \A fd \in Fd : Worked(fd) => sock'[fd] = sock[fd]
      PROVE  ConnsMatch'
  <2>1. ASSUME NEW i \in DOMAIN jobs' PROVE jobs'[i].conn = sock'[jobs'[i].fd]
    <3>1. CASE i = n
      BY <1>1, <1>7, <3>1
    <3>2. CASE i \in DOMAIN jobs
      <4>1. Worked(jobs[i].fd) /\ jobs[i].fd \in Fd
        BY <3>2, WorkShape DEF Worked, WaitsIn
      <4> QED BY <1>1, <1>7, <3>2, <4>1 DEF ConnsMatch
    <3> QED BY <1>2, <3>1, <3>2
  <2>2. ASSUME NEW u \in Thread, run[u].at \notin {"idle", "wake"}
        PROVE  run[u].job.conn = sock'[run[u].job.fd]
    <3>1. Worked(run[u].job.fd) /\ run[u].job.fd \in Fd
      BY <2>2, WorkShape DEF Worked, WorksOn
    <3> QED BY <1>7, <2>2, <3>1 DEF ConnsMatch
  <2> QED BY <2>1, <2>2 DEF ConnsMatch
<1> QED BY <1>5, <1>6, <1>7

\* queue_job, in either mode, for a descriptor nobody worked on.
LEMMA WorkQueued ==
  ASSUME TypeOK, NEW j \in Job, run[Server] = Idle, QueueJob(j), ~Worked(j.fd)
  PROVE  /\ \A fd \in Fd : /\ Worked(fd)' <=> Worked(fd) \/ fd = j.fd
                           /\ OneWork(fd) => OneWork(fd)'
         /\ /\ j.conn = sock'[j.fd] /\ ConnsMatch
            /\ \A fd \in Fd : Worked(fd) => sock'[fd] = sock[fd]
            => ConnsMatch'
<1>1. Server \in Thread /\ "call" \in Places \ {"wake"}
  BY DEF Thread, Places
<1>2. CASE inline
  BY <1>1, <1>2, WorkCalled DEF QueueJob
<1>3. CASE ~inline
  BY <1>3, WorkAppended DEF QueueJob
<1> QED BY <1>2, <1>3

\* The oldest job becomes a callback: its descriptor is worked on as before.
LEMMA WorkStarts ==
  ASSUME TypeOK, NEW w \in Worker, StartJob(w)
  PROVE  /\ \A fd \in Fd : (Worked(fd)' <=> Worked(fd)) /\ (OneWork(fd) => OneWork(fd)')
         /\ ConnsMatch => ConnsMatch'
<1> DEFINE h == Head(jobs)
<1>1. /\ w \in Thread /\ run[w] = Idle /\ sock' = sock
      /\ jobs' = Tail(jobs) /\ jobs # << >> /\ jobs \in Seq(Job)
      /\ run' = [run EXCEPT ![w] = [at |-> "call", job |-> h]]
  BY DEF StartJob, Thread, TypeOK, kernel
<1>2. /\ DOMAIN jobs = 1 .. Len(jobs) /\ Len(jobs) \in Nat \ {0}
      /\ DOMAIN jobs' = 1 .. Len(jobs) - 1
      /\ \A i \in 1 .. Len(jobs) - 1 : jobs'[i] = jobs[i + 1]
      /\ h = jobs[1] /\ h \in Job /\ h.fd \in Fd
  <2>1. h = jobs[1] /\ h \in Job
    BY <1>1, HeadTailProperties
  <2> QED BY <1>1, <2>1, HeadTailProperties, LenProperties, EmptySeq, JobShape
<1> HIDE DEF h
<1>3. \A i \in DOMAIN jobs, fd \in Fd : WaitsIn(i, fd) <=> IF i = 1 THEN fd = h.fd ELSE WaitsIn(i - 1, fd)'
  BY <1>2 DEF WaitsIn
<1>4. \A i \in DOMAIN jobs' : i + 1 \in DOMAIN jobs /\ i + 1 # 1 /\ (i + 1) - 1 = i
  BY <1>2
<1>5. \A i \in DOMAIN jobs : i # 1 => i - 1 \in DOMAIN jobs'
  BY <1>2
<1>6. \A u \in Thread, fd \in Fd : WorksOn(u, fd)' <=> IF u = w THEN fd = h.fd ELSE WorksOn(u, fd)
  BY <1>1 DEF WorksOn, TypeOK
<1>7. \A fd \in Fd : ~WorksOn(w, fd)
  BY <1>1 DEF WorksOn, Idle
<1>8. 1 \in DOMAIN jobs
  BY <1>2
<1>9. \A i \in DOMAIN jobs', fd \in Fd : WaitsIn(i, fd)' <=> WaitsIn(i + 1, fd)
  BY <1>2 DEF WaitsIn
<1>10. ASSUME NEW fd \in Fd PROVE Worked(fd)' <=> Worked(fd)
  <2>1. ASSUME Worked(fd) PROVE Worked(fd)'
    <3>1. ASSUME NEW i \in DOMAIN jobs, WaitsIn(i, fd) PROVE Worked(fd)'
      <4>1. CASE i = 1
        BY <1>1, <1>3, <1>6, <3>1, <4>1 DEF Worked
      <4>2. CASE i # 1
        BY <1>3, <1>5, <3>1, <4>2 DEF Worked
      <4> QED BY <4>1, <4>2
    <3>2. ASSUME NEW u \in Thread, WorksOn(u, fd) PROVE Worked(fd)'
      BY <1>6, <1>7, <3>2 DEF Worked
    <3> QED BY <2>1, <3>1, <3>2 DEF Worked
  <2>2. ASSUME Worked(fd)' PROVE Worked(fd)
    <3>1. ASSUME NEW i \in DOMAIN jobs', WaitsIn(i, fd)' PROVE Worked(fd)
      BY <1>4, <1>9, <3>1 DEF Worked
    <3>2. ASSUME NEW u \in Thread, WorksOn(u, fd)' PROVE Worked(fd)
      BY <1>3, <1>6, <1>8, <3>2 DEF Worked
    <3> QED BY <2>2, <3>1, <3>2 DEF Worked
  <2> QED BY <2>1, <2>2
<1>11. ASSUME NEW fd \in Fd, OneWork(fd) PROVE OneWork(fd)'
  <2>1. ASSUME NEW i \in DOMAIN jobs', NEW k \in DOMAIN jobs', WaitsIn(i, fd)', WaitsIn(k, fd)'
        PROVE  i = k
    <3>1. i + 1 = k + 1
      BY <1>4, <1>9, <1>11, <2>1 DEF OneWork
    <3> QED BY <1>2, <3>1
  <2>2. ASSUME NEW t \in Thread, NEW u \in Thread, WorksOn(t, fd)', WorksOn(u, fd)'
        PROVE  t = u
    BY <1>3, <1>6, <1>8, <1>11, <2>2 DEF OneWork
  <2>3. ASSUME NEW i \in DOMAIN jobs', NEW t \in Thread, WaitsIn(i, fd)', WorksOn(t, fd)'
        PROVE  FALSE
    <3>1. WaitsIn(i + 1, fd) /\ i + 1 \in DOMAIN jobs /\ i + 1 # 1
      BY <1>4, <1>9, <2>3
    <3> QED BY <1>3, <1>6, <1>8, <1>11, <2>3, <3>1 DEF OneWork
  <2> QED BY <2>1, <2>2, <2>3 DEF OneWork
<1>12. ASSUME ConnsMatch PROVE ConnsMatch'
  <2>1. ASSUME NEW i \in DOMAIN jobs' PROVE jobs'[i].conn = sock'[jobs'[i].fd]
    BY <1>1, <1>2, <1>4, <1>12 DEF ConnsMatch
  <2>2. ASSUME NEW u \in Thread, run'[u].at \notin {"idle", "wake"}
        PROVE  run'[u].job.conn = sock'[run'[u].job.fd]
    BY <1>1, <1>2, <1>8, <1>12, <2>2 DEF ConnsMatch, TypeOK
  <2> QED BY <2>1, <2>2 DEF ConnsMatch
<1> QED BY <1>10, <1>11, <1>12

----------------------------------------------------------------------------
(* Every client has one keeper.                                            *)

\* The kind of application is a matter of configuration.
LEMMA AppConstant ==
  ASSUME [Next]_vars
  PROVE  app' = app
BY DEF Next, ServerStep, CallbackStep, ProcessClosed, CopyPending, SelectFails, SelectWaits,
       SelectReady, SelectTimeout, Repair, Drain, Accept, Dispatch, StartJob, NewClient, SomeData,
       PendClose, Lock, Greet, Find, Wake, ClientAdd, Connect, Send, ClientClose, vars, config

\* A descriptor the kernel has just given out has no keeper: if it had been a
\* client's, the client would have been open.
LEMMA FreeHasNoKeeper ==
  ASSUME app = "keeps", OpenInv, KeeperInv, NEW fd \in Free
  PROVE  fd \in Fd /\ fd \notin clients /\ ~Worked(fd) /\ fd \notin pending \cup pendClose
BY DEF OpenInv, KeeperInv, Kept, Open, Free

\* What leaves the places of the clients alone leaves the keepers alone.
LEMMA KeeperUnchanged ==
  ASSUME app = "keeps", KeeperInv, sock' = sock, asked \subseteq asked',
         clients' = clients, pending' = pending, pendClose' = pendClose,
         \A fd \in Fd : (Worked(fd)' <=> Worked(fd)) /\ (OneWork(fd) => OneWork(fd)'),
         ConnsMatch => ConnsMatch'
  PROVE  KeeperInv'
BY DEF KeeperInv, OneKeeper, Kept

\* The server closes what is to be closed: nobody works on it.
LEMMA KeeperProcessClosed ==
  ASSUME TypeOK, app = "keeps", KeeperInv, ProcessClosed
  PROVE  KeeperInv'
<1>1. /\ jobs' = jobs /\ run' = run /\ pendClose' = {} /\ pendClose \subseteq Fd
      /\ pending' = pending \ pendClose /\ clients' = clients \ pendClose
      /\ \A fd \in Fd : fd \notin pendClose => sock'[fd] = sock[fd]
  BY DEF ProcessClosed, TypeOK
<1>2. \A fd \in Fd : (Worked(fd)' <=> Worked(fd)) /\ (OneWork(fd)' <=> OneWork(fd))
  BY <1>1 DEF Worked, OneWork, WorksOn, WaitsIn
<1>3. /\ \A fd \in Fd : OneKeeper(fd) /\ (Kept(fd) <=> fd \in clients)
      /\ ConnsMatch
  BY DEF KeeperInv
<1>4. \A fd \in Fd : OneKeeper(fd)' /\ (Kept(fd)' <=> fd \in clients')
  BY <1>1, <1>2, <1>3 DEF OneKeeper, Kept
<1>5. ConnsMatch'
  BY <1>1, <1>3, ConnsStay DEF OneKeeper
<1> QED BY <1>1, <1>4, <1>5 DEF KeeperInv

\* A new client's keeper is its job, or the set of what is to be closed.
LEMMA KeeperAccept ==
  ASSUME ServiceAssumption, TypeOK, app = "keeps", OpenInv, KeeperInv, Accept
  PROVE  KeeperInv'
<1>1. CASE Listener \notin rset \/ Free = {}
  <2>1. UNCHANGED <<clients, pending, pendClose, asked, sock, jobs, run>>
    BY <1>1 DEF Accept, Free
  <2> QED BY <2>1 DEF KeeperInv, OneKeeper, Kept, Worked, OneWork, WorksOn, WaitsIn, ConnsMatch
<1>2. CASE ~(Listener \notin rset \/ Free = {})
  <2>1. PICK c \in backlog, fd \in Free :
          /\ sock' = [sock EXCEPT ![fd] = c]
          /\ clients' = clients \cup {fd}
          /\ \/ /\ QueueJob([kind |-> "new", fd |-> fd, conn |-> c])
                /\ UNCHANGED <<pendClose, asked>>
             \/ QueueFails(fd, c)
    BY <1>2 DEF Accept
  <2> DEFINE j == [kind |-> "new", fd |-> fd, conn |-> c]
  <2>2. fd \in Fd /\ fd \notin clients /\ ~Worked(fd) /\ fd \notin pending \cup pendClose
    BY FreeHasNoKeeper
  <2>3. /\ j \in Job /\ j.fd = fd /\ j.conn = c
        /\ run[Server] = Idle /\ pending' = pending
        /\ sock'[fd] = c /\ \A g \in Fd : g # fd => sock'[g] = sock[g]
    BY <2>1, <2>2 DEF Accept, Serves, TypeOK, Job
  <2>4. /\ \A g \in Fd : OneKeeper(g) /\ (Kept(g) <=> g \in clients)
        /\ ConnsMatch /\ pendClose \subseteq Fd
        /\ \A g \in pendClose : sock[g] \in asked
    BY DEF KeeperInv, TypeOK
  <2>5. CASE QueueJob(j) /\ UNCHANGED <<pendClose, asked>>
    <3> HIDE DEF j
    <3>1. /\ \A g \in Fd : /\ Worked(g)' <=> Worked(g) \/ g = fd
                           /\ OneWork(g) => OneWork(g)'
          /\ ConnsMatch'
      BY <2>2, <2>3, <2>4, <2>5, WorkQueued
    <3>2. \A g \in Fd : OneKeeper(g)' /\ (Kept(g)' <=> g \in clients')
      BY <2>1, <2>2, <2>3, <2>4, <2>5, <3>1 DEF OneKeeper, Kept
    <3> QED BY <2>2, <2>3, <2>4, <2>5, <3>1, <3>2 DEF KeeperInv
  <2>6. CASE QueueFails(fd, c)
    <3>1. jobs' = jobs /\ run' = run /\ pendClose' = pendClose \cup {fd} /\ asked' = asked \cup {c}
      BY <2>6 DEF QueueFails
    <3>2. \A g \in Fd : (Worked(g)' <=> Worked(g)) /\ (OneWork(g)' <=> OneWork(g))
      BY <3>1 DEF Worked, OneWork, WorksOn, WaitsIn
    <3>3. \A g \in Fd : OneKeeper(g)' /\ (Kept(g)' <=> g \in clients')
      BY <2>1, <2>2, <2>3, <2>4, <3>1, <3>2 DEF OneKeeper, Kept
    <3>4. ConnsMatch'
      BY <2>2, <2>3, <2>4, <3>1, ConnsStay
    <3> QED BY <2>2, <2>3, <2>4, <3>1, <3>3, <3>4 DEF KeeperInv
  <2> QED BY <2>1, <2>5, <2>6
<1> QED BY <1>1, <1>2

\* A readable client's keeper was the set: it is now the job, the call or,
\* for want of memory, the set of what is to be closed.
LEMMA KeeperDispatch ==
  ASSUME ServiceAssumption, TypeOK, app = "keeps", SelectInv, KeeperInv, Dispatch
  PROVE  KeeperInv'
<1>1. CASE rset \cap clients = {}
  <2>1. UNCHANGED <<clients, pending, pendClose, asked, sock, jobs, run>>
    BY <1>1 DEF Dispatch, kernel
  <2> QED BY <2>1 DEF KeeperInv, OneKeeper, Kept, Worked, OneWork, WorksOn, WaitsIn, ConnsMatch
<1>2. CASE rset \cap clients # {}
  <2> DEFINE fd == Min(rset \cap clients)
  <2> DEFINE j == [kind |-> "data", fd |-> fd, conn |-> sock[fd]]
  <2>1. /\ pending' = pending \ {fd} /\ clients' = clients /\ sock' = sock
        /\ run[Server] = Idle /\ server = "each"
        /\ \/ /\ QueueJob(j)
              /\ UNCHANGED <<pendClose, asked>>
           \/ QueueFails(fd, sock[fd])
    BY <1>2 DEF Dispatch, Serves, kernel
  <2>2. fd \in rset /\ fd \in clients
    BY <1>2, ReadyMin
  <2> HIDE DEF fd
  <2>3. fd \in Fd /\ fd \in pending
    BY <2>1, <2>2 DEF SelectInv, TypeOK
  <2>4. j \in Job /\ j.fd = fd /\ j.conn = sock[fd]
    BY <2>3 DEF TypeOK, Job
  <2>5. /\ \A g \in Fd : OneKeeper(g) /\ (Kept(g) <=> g \in clients)
        /\ ConnsMatch /\ pendClose \subseteq Fd
        /\ \A g \in pendClose : sock[g] \in asked
    BY DEF KeeperInv, TypeOK
  <2>6. ~Worked(fd) /\ fd \notin pendClose
    BY <2>3, <2>5 DEF OneKeeper
  <2> HIDE DEF j
  <2>7. CASE QueueJob(j) /\ UNCHANGED <<pendClose, asked>>
    <3>1. /\ \A g \in Fd : /\ Worked(g)' <=> Worked(g) \/ g = fd
                           /\ OneWork(g) => OneWork(g)'
          /\ ConnsMatch'
      BY <2>1, <2>4, <2>5, <2>6, <2>7, WorkQueued
    <3>2. \A g \in Fd : OneKeeper(g)' /\ (Kept(g)' <=> g \in clients')
      BY <2>1, <2>2, <2>5, <2>6, <2>7, <3>1 DEF OneKeeper, Kept
    <3> QED BY <2>1, <2>5, <2>7, <3>1, <3>2 DEF KeeperInv
  <2>8. CASE QueueFails(fd, sock[fd])
    <3>1. jobs' = jobs /\ run' = run /\ pendClose' = pendClose \cup {fd} /\ asked' = asked \cup {sock[fd]}
      BY <2>8 DEF QueueFails
    <3>2. \A g \in Fd : (Worked(g)' <=> Worked(g)) /\ (OneWork(g)' <=> OneWork(g))
      BY <3>1 DEF Worked, OneWork, WorksOn, WaitsIn
    <3>3. \A g \in Fd : OneKeeper(g)' /\ (Kept(g)' <=> g \in clients')
      BY <2>1, <2>2, <2>5, <2>6, <3>1, <3>2 DEF OneKeeper, Kept
    <3>4. ConnsMatch'
      BY <2>1, <2>5, <3>1, ConnsStay
    <3> QED BY <2>1, <2>5, <3>1, <3>3, <3>4 DEF KeeperInv
  <2> QED BY <2>1, <2>7, <2>8
<1> QED BY <1>1, <1>2

\* A callback is its client's only keeper until it gives it back or has it
\* closed.
LEMMA KeeperCallback ==
  ASSUME ServiceAssumption, TypeOK, app = "keeps", KeeperInv, NEW t \in Thread, CallbackStep(t)
  PROVE  KeeperInv'
<1> USE DEF Places
<1> DEFINE fd == run[t].job.fd
<1>0. run \in [Thread -> Run] /\ pendClose \subseteq Fd
  BY DEF TypeOK
<1>1. /\ \A g \in Fd : OneKeeper(g) /\ (Kept(g) <=> g \in clients)
      /\ ConnsMatch
      /\ \A g \in pendClose : sock[g] \in asked
  BY DEF KeeperInv
<1>2. ASSUME run[t].at \notin {"idle", "wake"}
      PROVE  /\ fd \in Fd /\ OneWork(fd) /\ Worked(fd) /\ fd \notin pending \cup pendClose
             /\ fd \in clients /\ run[t].job.conn = sock[fd]
  <2>1. fd \in Fd /\ Worked(fd)
    BY <1>2, WorkShape DEF Worked, WorksOn
  <2> QED BY <1>1, <1>2, <2>1 DEF OneKeeper, Kept, ConnsMatch
<1>3. ASSUME run[t].at \notin {"idle", "wake"}, NEW at \in Places \ {"wake"}, Move(t, at),
             UNCHANGED <<clients, pending, pendClose, asked, sock, jobs>>
      PROVE  KeeperInv'
  <2>1. run' = [run EXCEPT ![t] = [at |-> at, job |-> run[t].job]]
    BY <1>0, <1>3, MoveEffect
  <2> QED BY <1>3, <2>1, WorkMoves, KeeperUnchanged
<1>4. CASE NewClient(t) \/ SomeData(t)
  BY <1>3, <1>4 DEF NewClient, SomeData, At, shared, kernel
<1>5. CASE Lock(t)
  BY <1>3, <1>5 DEF Lock, At, kernel
<1>6. CASE Greet(t)
  BY <1>3, <1>6 DEF Greet, At, shared, kernel
<1>7. CASE PendClose(t)
  <2>1. /\ run[t].at = "close" /\ Done(t) /\ jobs' = jobs /\ sock' = sock
        /\ clients' = clients /\ pending' = pending
        /\ pendClose' = pendClose \cup {fd} /\ asked' = asked \cup {run[t].job.conn}
    BY <1>7 DEF PendClose, At, kernel
  <2>2. run' = [run EXCEPT ![t] = Idle] /\ Idle \in Run /\ Idle.at = "idle"
    BY <1>0, <2>1, DoneEffect DEF Run, Idle
  <2>3. /\ fd \in Fd /\ OneWork(fd) /\ fd \notin pending \cup pendClose
        /\ fd \in clients /\ run[t].job.conn = sock[fd]
    BY <1>2, <2>1
  <2>4. /\ \A g \in Fd : (Worked(g)' <=> Worked(g) /\ g # fd) /\ (OneWork(g) => OneWork(g)')
        /\ ConnsMatch'
    BY <1>1, <2>1, <2>2, <2>3, WorkEnds
  <2> HIDE DEF fd
  <2>5. \A g \in Fd : OneKeeper(g)' /\ (Kept(g)' <=> g \in clients')
    BY <1>1, <2>1, <2>3, <2>4 DEF OneKeeper, Kept
  <2> QED BY <1>0, <1>1, <2>1, <2>3, <2>4, <2>5 DEF KeeperInv
<1>8. CASE Find(t)
  <2>1. run[t].at = "find" /\ fd \in clients
    BY <1>2, <1>8 DEF Find, At
  <2>2. /\ Move(t, "wake") /\ jobs' = jobs /\ sock' = sock /\ asked' = asked
        /\ clients' = clients /\ pending' = pending \cup {fd} /\ pendClose' = pendClose
    BY <1>8, <2>1 DEF Find, kernel
  <2>3. /\ run' = [run EXCEPT ![t] = [at |-> "wake", job |-> run[t].job]]
        /\ [at |-> "wake", job |-> run[t].job] \in Run
    BY <1>0, <2>1, <2>2, MoveEffect DEF Run
  <2>4. fd \in Fd /\ OneWork(fd) /\ fd \notin pending \cup pendClose
    BY <1>2, <2>1
  <2>5. /\ \A g \in Fd : (Worked(g)' <=> Worked(g) /\ g # fd) /\ (OneWork(g) => OneWork(g)')
        /\ ConnsMatch'
    BY <1>1, <2>1, <2>2, <2>3, <2>4, WorkEnds
  <2> HIDE DEF fd
  <2>6. \A g \in Fd : OneKeeper(g)' /\ (Kept(g)' <=> g \in clients')
    BY <1>1, <2>1, <2>2, <2>4, <2>5 DEF OneKeeper, Kept
  <2> QED BY <1>1, <2>2, <2>5, <2>6 DEF KeeperInv
<1>9. CASE Wake(t)
  <2>1. /\ run[t].at = "wake" /\ Done(t)
        /\ UNCHANGED <<clients, pending, pendClose, asked, sock, jobs>>
    BY <1>9 DEF Wake, At, shared, kernel
  <2>2. run' = [run EXCEPT ![t] = Idle]
    BY <1>0, <2>1, DoneEffect
  <2> QED BY <2>1, <2>2, WorkEnded, KeeperUnchanged
<1> QED BY <1>4, <1>5, <1>6, <1>7, <1>8, <1>9 DEF CallbackStep

\* One keeper for each client, whatever happens.
LEMMA KeeperStep ==
  ASSUME ServiceAssumption, TypeOK, SelectInv, OpenInv, KeeperInv, [Next]_vars
  PROVE  KeeperInv'
<1> SUFFICES ASSUME app' = "keeps" PROVE KeeperInv'
  BY DEF KeeperInv
<1>0. app = "keeps"
  BY AppConstant
<1>1. ASSUME UNCHANGED <<clients, pending, pendClose, sock, jobs, run>>, asked \subseteq asked'
      PROVE  KeeperInv'
  BY <1>0, <1>1, KeeperUnchanged DEF Worked, OneWork, WorksOn, WaitsIn, ConnsMatch
<1>2. CASE ProcessClosed
  BY <1>0, <1>2, KeeperProcessClosed
<1>3. CASE Accept
  BY <1>0, <1>3, KeeperAccept
<1>4. CASE Dispatch
  BY <1>0, <1>4, KeeperDispatch
<1>5. CASE \/ CopyPending \/ SelectFails \/ SelectWaits \/ SelectReady \/ SelectTimeout \/ Drain
           \/ \E c \in Conn : Connect(c) \/ Send(c)
           \/ UNCHANGED vars
  BY <1>1, <1>5 DEF CopyPending, SelectFails, SelectWaits, SelectReady, SelectTimeout, Drain,
                    Connect, Send, vars, shared, kernel
<1>6. ~Repair /\ \A fd \in Fd : ~ClientClose(fd)
  BY <1>0 DEF Repair, Serves, OpenInv, ClientClose
<1>7. ASSUME NEW w \in Worker, StartJob(w) PROVE KeeperInv'
  <2>1. UNCHANGED <<clients, pending, pendClose, asked, sock>>
    BY <1>7 DEF StartJob, shared, kernel
  <2> QED BY <1>0, <1>7, <2>1, WorkStarts, KeeperUnchanged
<1>8. ASSUME NEW t \in Thread, CallbackStep(t) PROVE KeeperInv'
  BY <1>0, <1>8, KeeperCallback
<1>9. ASSUME NEW c \in Conn, ClientAdd(c) PROVE KeeperInv'
  <2>1. PICK fd \in Free :
          /\ sock' = [sock EXCEPT ![fd] = c]
          /\ clients' = clients \cup {fd}
          /\ run' = [run EXCEPT ![Adder] =
                       [at |-> "greet", job |-> [kind |-> "new", fd |-> fd, conn |-> c]]]
    BY <1>9 DEF ClientAdd
  <2> DEFINE j == [kind |-> "new", fd |-> fd, conn |-> c]
  <2>2. /\ run[Adder] = Idle /\ jobs' = jobs /\ pending' = pending
        /\ pendClose' = pendClose /\ asked' = asked
    BY <1>9 DEF ClientAdd
  <2>3. fd \in Fd /\ fd \notin clients /\ ~Worked(fd) /\ fd \notin pending \cup pendClose
    BY <1>0, FreeHasNoKeeper
  <2>4. j \in Job /\ j.fd = fd /\ j.conn = c /\ Adder \in Thread /\ "greet" \in Places \ {"wake"}
        /\ sock'[fd] = c /\ \A g \in Fd : g # fd => sock'[g] = sock[g]
    BY <2>1, <2>3 DEF Job, Thread, Places, TypeOK
  <2>5. /\ \A g \in Fd : OneKeeper(g) /\ (Kept(g) <=> g \in clients)
        /\ ConnsMatch /\ pendClose \subseteq Fd
        /\ \A g \in pendClose : sock[g] \in asked
    BY <1>0 DEF KeeperInv, TypeOK
  <2>6. run' = [run EXCEPT ![Adder] = [at |-> "greet", job |-> j]]
    BY <2>1
  <2> HIDE DEF j
  <2>7. /\ \A g \in Fd : /\ Worked(g)' <=> Worked(g) \/ g = fd
                         /\ OneWork(g) => OneWork(g)'
        /\ ConnsMatch'
    BY <2>2, <2>3, <2>4, <2>5, <2>6, WorkCalled
  <2>8. \A g \in Fd : OneKeeper(g)' /\ (Kept(g)' <=> g \in clients')
    BY <2>1, <2>2, <2>3, <2>5, <2>7 DEF OneKeeper, Kept
  <2> QED BY <2>2, <2>3, <2>4, <2>5, <2>7, <2>8 DEF KeeperInv
<1> QED BY <1>2, <1>3, <1>4, <1>5, <1>6, <1>7, <1>8, <1>9 DEF Next, ServerStep

----------------------------------------------------------------------------
(* max_fd.                                                                 *)

\* What is queued for a new client is new, and what was new stays so.
LEMMA NewQueued ==
  ASSUME TypeOK, NEW j \in Job, run[Server] = Idle, QueueJob(j), pendClose' = pendClose
  PROVE  /\ \A fd \in Fd : IsNew(fd) => IsNew(fd)'
         /\ j.kind = "new" => IsNew(j.fd)'
<1>1. Server \in Thread /\ j.fd \in Fd /\ run \in [Thread -> Run]
  BY JobShape DEF Thread, TypeOK
<1>2. CASE inline
  <2>1. jobs' = jobs /\ run' = [run EXCEPT ![Server] = [at |-> "call", job |-> j]]
    BY <1>2 DEF QueueJob
  <2> QED BY <1>1, <2>1 DEF IsNew, WorksOn, WaitsIn, Idle
<1>3. CASE ~inline
  <2>1. jobs' = Append(jobs, j) /\ run' = run
    BY <1>3 DEF QueueJob
  <2>2. /\ DOMAIN jobs \subseteq DOMAIN jobs' /\ \A i \in DOMAIN jobs : jobs'[i] = jobs[i]
        /\ \E i \in DOMAIN jobs' : jobs'[i] = j
    BY <2>1, AppendProperties, LenProperties DEF TypeOK
  <2> QED BY <1>1, <2>1, <2>2 DEF IsNew, WorksOn, WaitsIn
<1> QED BY <1>2, <1>3

\* A new client's job becomes its first callback.
LEMMA NewStarts ==
  ASSUME TypeOK, NEW w \in Worker, StartJob(w), NEW fd \in Fd, IsNew(fd)
  PROVE  IsNew(fd)'
<1>1. /\ w \in Thread /\ run[w] = Idle /\ pendClose' = pendClose
      /\ jobs' = Tail(jobs) /\ jobs # << >> /\ jobs \in Seq(Job)
      /\ run \in [Thread -> Run]
      /\ run' = [run EXCEPT ![w] = [at |-> "call", job |-> Head(jobs)]]
  BY DEF StartJob, Thread, TypeOK, shared
<1>2. /\ DOMAIN jobs = 1 .. Len(jobs) /\ Len(jobs) \in Nat \ {0}
      /\ DOMAIN jobs' = 1 .. Len(jobs) - 1
      /\ \A i \in 1 .. Len(jobs) - 1 : jobs'[i] = jobs[i + 1]
      /\ Head(jobs) = jobs[1]
  BY <1>1, HeadTailProperties, LenProperties, EmptySeq
<1>3. ASSUME NEW i \in DOMAIN jobs, WaitsIn(i, fd), jobs[i].kind = "new"
      PROVE  IsNew(fd)'
  <2>1. CASE i = 1
    <3>1. WorksOn(w, fd)' /\ run'[w].at = "call" /\ run'[w].job.kind = "new"
      BY <1>1, <1>2, <1>3, <2>1 DEF WorksOn, WaitsIn
    <3> QED BY <1>1, <3>1 DEF IsNew
  <2>2. CASE i # 1
    <3>1. i - 1 \in DOMAIN jobs' /\ jobs'[i - 1] = jobs[i]
      BY <1>2, <2>2
    <3> QED BY <1>3, <3>1 DEF IsNew, WaitsIn
  <2> QED BY <2>1, <2>2
<1>4. ASSUME NEW t \in Thread, WorksOn(t, fd) PROVE run'[t] = run[t]
  BY <1>1, <1>4 DEF WorksOn, Idle
<1> QED BY <1>1, <1>3, <1>4 DEF IsNew, WorksOn

\* A client beyond max_fd is new; what the server waits for is within max_fd.
LEMMA ReachStep ==
  ASSUME ServiceAssumption, TypeOK, SelectInv, OpenInv, KeeperInv, ReachInv, [Next]_vars, TypeOK'
  PROVE  ReachInv'
<1> USE DEF Places
<1> SUFFICES ASSUME app' = "keeps" PROVE ReachInv'
  BY DEF ReachInv
<1>0. app = "keeps"
  BY AppConstant
<1>1. /\ \A fd \in clients : fd <= maxFd \/ IsNew(fd)
      /\ \A fd \in pending : fd <= maxFd
      /\ run \in [Thread -> Run] /\ clients \subseteq Fd /\ pendClose \subseteq Fd
      /\ maxFd \in Nat /\ maxFd >= Ctl /\ Fd \subseteq Nat /\ pending \subseteq Nat
  BY <1>0, FdIsNat DEF ReachInv, TypeOK, Listener, Ctl
<1>2. ASSUME UNCHANGED <<clients, maxFd>>, pending' \subseteq pending,
             \A fd \in Fd : IsNew(fd) => IsNew(fd)'
      PROVE  ReachInv'
  BY <1>1, <1>2 DEF ReachInv
<1>3. CASE ProcessClosed
  <2>1. CASE pendClose = {}
    <3>1. UNCHANGED <<clients, pending, maxFd, pendClose, jobs, run>>
      BY <1>3, <2>1 DEF ProcessClosed
    <3> QED BY <1>2, <3>1 DEF IsNew, WorksOn, WaitsIn
  <2>2. CASE pendClose # {}
    <3>1. /\ maxFd' = SetupMaxFd(clients') /\ clients' \subseteq Fd
          /\ clients' = clients \ pendClose /\ pending' = pending \ pendClose
      BY <1>1, <1>3, <2>2 DEF ProcessClosed
    <3>2. \A fd \in clients' : fd <= maxFd'
      BY <3>1, SetupMaxFdResult
    <3>3. maxFd' >= Ctl /\ \A fd \in pending' : fd \in clients' \/ fd = Listener \/ fd = Ctl
      <4>1. ServiceAssumption /\ maxFd' \in Fd \cup {Ctl}
        BY DEF TypeOK
      <4>2. maxFd' >= Ctl
        BY <4>1 DEF ServiceAssumption, Ctl
      <4>3. pending \subseteq Fd \cup {Listener, Ctl} /\ pending \cap Fd \subseteq clients
        BY DEF TypeOK, SelectInv
      <4> QED BY <3>1, <4>2, <4>3
    <3>4. maxFd' \in Nat
      BY FdIsNat DEF TypeOK
    <3> QED BY <3>2, <3>3, <3>4 DEF ReachInv, Listener, Ctl
  <2> QED BY <2>1, <2>2
<1>4. CASE Accept
  <2>1. CASE Listener \notin rset \/ Free = {}
    <3>1. UNCHANGED <<clients, pending, pendClose, maxFd, jobs, run>>
      BY <1>4, <2>1 DEF Accept, Free
    <3> QED BY <1>2, <3>1 DEF IsNew, WorksOn, WaitsIn
  <2>2. CASE ~(Listener \notin rset \/ Free = {})
    <3>1. PICK c \in backlog, fd \in Free :
            /\ clients' = clients \cup {fd}
            /\ \/ /\ QueueJob([kind |-> "new", fd |-> fd, conn |-> c])
                  /\ UNCHANGED <<pendClose, asked>>
               \/ QueueFails(fd, c)
      BY <1>4, <2>2 DEF Accept
    <3> DEFINE j == [kind |-> "new", fd |-> fd, conn |-> c]
    <3>2. j \in Job /\ j.fd = fd /\ j.kind = "new" /\ fd \in Fd
          /\ run[Server] = Idle /\ UNCHANGED <<pending, maxFd>>
      BY <1>4 DEF Accept, Serves, Job, Free, TypeOK
    <3>3. \A g \in Fd : IsNew(g) \/ g = fd => IsNew(g)'
      <4>1. CASE QueueJob(j) /\ pendClose' = pendClose
        <5> HIDE DEF j
        <5> QED BY <3>2, <4>1, NewQueued
      <4>2. CASE QueueFails(fd, c)
        BY <4>2 DEF QueueFails, IsNew, WorksOn, WaitsIn
      <4> QED BY <3>1, <4>1, <4>2
    <3> QED BY <1>1, <3>1, <3>2, <3>3 DEF ReachInv
  <2> QED BY <2>1, <2>2
<1>5. CASE Dispatch
  <2>1. CASE rset \cap clients = {}
    <3>1. UNCHANGED <<clients, pending, pendClose, maxFd, jobs, run>>
      BY <1>5, <2>1 DEF Dispatch
    <3> QED BY <1>2, <3>1 DEF IsNew, WorksOn, WaitsIn
  <2>2. CASE rset \cap clients # {}
    <3> DEFINE fd == Min(rset \cap clients)
    <3> DEFINE j == [kind |-> "data", fd |-> fd, conn |-> sock[fd]]
    <3>1. /\ pending' = pending \ {fd} /\ UNCHANGED <<clients, maxFd>>
          /\ run[Server] = Idle
          /\ \/ QueueJob(j) /\ UNCHANGED <<pendClose, asked>>
             \/ QueueFails(fd, sock[fd])
      BY <1>5, <2>2 DEF Dispatch, Serves
    <3>2. j \in Job
      BY <1>1, <2>2, ReadyMin DEF TypeOK, Job
    <3>3. \A g \in Fd : IsNew(g) => IsNew(g)'
      <4> HIDE DEF fd, j
      <4>1. CASE QueueJob(j) /\ UNCHANGED <<pendClose, asked>>
        BY <3>1, <3>2, <4>1, NewQueued
      <4>2. CASE QueueFails(fd, sock[fd])
        BY <4>2 DEF QueueFails, IsNew, WorksOn, WaitsIn
      <4> QED BY <3>1, <4>1, <4>2
    <3> QED BY <1>2, <3>1, <3>3
  <2> QED BY <2>1, <2>2
<1>6. CASE \/ CopyPending \/ SelectFails \/ SelectWaits \/ SelectReady \/ SelectTimeout \/ Drain
           \/ \E c \in Conn : Connect(c) \/ Send(c)
           \/ UNCHANGED vars
  <2>1. UNCHANGED <<clients, pending, pendClose, maxFd, jobs, run>>
    BY <1>6 DEF CopyPending, SelectFails, SelectWaits, SelectReady, SelectTimeout, Drain,
                Connect, Send, vars, shared
  <2> QED BY <1>2, <2>1 DEF IsNew, WorksOn, WaitsIn
<1>7. ~Repair /\ \A fd \in Fd : ~ClientClose(fd)
  BY <1>0 DEF Repair, Serves, OpenInv, ClientClose
<1>8. ASSUME NEW w \in Worker, StartJob(w) PROVE ReachInv'
  <2>1. UNCHANGED <<clients, pending, maxFd>>
    BY <1>8 DEF StartJob, shared
  <2> QED BY <1>2, <1>8, <2>1, NewStarts
<1>9. ASSUME NEW t \in Thread, CallbackStep(t) PROVE ReachInv'
  <2>1. ASSUME NEW at \in Places, run[t].at \notin {"idle", "wake"}, Move(t, at),
               UNCHANGED <<clients, pending, pendClose, jobs>>,
               \/ run[t].job.kind = "data" /\ maxFd' = maxFd
               \/ at \in {"call", "lock", "close"} /\ maxFd' = maxFd
               \/ run[t].at \notin {"call", "lock", "close"} /\ maxFd' = maxFd
               \/ maxFd' = Max({maxFd, run[t].job.fd})
        PROVE  ReachInv'
    <3>1. /\ run' = [run EXCEPT ![t] = [at |-> at, job |-> run[t].job]]
          /\ run[t].job.fd \in Fd
      BY <1>1, <2>1, MoveEffect, JobShape
    <3>2. maxFd' \in Nat /\ maxFd' >= maxFd
      BY <1>1, <2>1, <3>1, MaxOfTwo
    <3>3. ASSUME NEW fd \in Fd, IsNew(fd) PROVE fd <= maxFd' \/ IsNew(fd)'
      <4>1. CASE \E u \in Thread : /\ WorksOn(u, fd) /\ run[u].at \in {"call", "lock", "close"}
                                   /\ run[u].job.kind = "new" /\ u # t
        BY <1>1, <3>1, <4>1 DEF IsNew, WorksOn
      <4>2. CASE /\ WorksOn(t, fd) /\ run[t].at \in {"call", "lock", "close"}
                 /\ run[t].job.kind = "new"
        <5>1. CASE maxFd' = Max({maxFd, run[t].job.fd})
          BY <1>1, <3>1, <4>2, <5>1, MaxOfTwo DEF WorksOn
        <5>2. CASE at \in {"call", "lock", "close"}
          BY <1>1, <3>1, <4>2, <5>2 DEF IsNew, WorksOn
        <5> QED BY <2>1, <4>2, <5>1, <5>2
      <4>3. CASE fd \in pendClose \/ \E i \in DOMAIN jobs : WaitsIn(i, fd) /\ jobs[i].kind = "new"
        BY <2>1, <4>3 DEF IsNew, WaitsIn
      <4> QED BY <3>3, <4>1, <4>2, <4>3 DEF IsNew
    <3>4. \A fd \in Fd : fd <= maxFd => fd <= maxFd'
      BY <1>1, <3>2
    <3>5. \A fd \in pending : fd <= maxFd'
      BY <1>1, <3>2
    <3> QED BY <1>1, <2>1, <3>3, <3>4, <3>5 DEF ReachInv
  <2>2. CASE NewClient(t) \/ SomeData(t)
    BY <2>1, <2>2 DEF NewClient, SomeData, At, shared
  <2>3. CASE Lock(t)
    <3>1. run[t].job.kind \in {"new", "data"}
      BY <1>1, <2>3, RunShape, JobShape DEF Lock, At
    <3> QED BY <2>1, <2>3, <3>1 DEF Lock, At
  <2>4. CASE Greet(t)
    BY <2>1, <2>4 DEF Greet, At, shared
  <2>5. CASE PendClose(t)
    <3>1. /\ run[t].at = "close" /\ Done(t) /\ UNCHANGED <<clients, pending, maxFd, jobs>>
          /\ pendClose' = pendClose \cup {run[t].job.fd}
      BY <2>5 DEF PendClose, At
    <3>2. run' = [run EXCEPT ![t] = Idle]
      BY <1>1, <3>1, DoneEffect
    <3>3. \A fd \in Fd : IsNew(fd) => IsNew(fd)'
      BY <1>1, <3>1, <3>2 DEF IsNew, WorksOn, WaitsIn
    <3> QED BY <1>2, <3>1, <3>3
  <2>6. CASE Find(t)
    <3> DEFINE fd == run[t].job.fd
    <3>1. run[t].at = "find" /\ UNCHANGED <<clients, pendClose, maxFd, jobs>>
      BY <2>6 DEF Find, At
    <3>2. fd \in Fd /\ WorksOn(t, fd) /\ Worked(fd)
      BY <1>1, <3>1, WorkShape DEF WorksOn, Worked
    <3>3. OneKeeper(fd) /\ fd \in clients
      BY <1>0, <3>2 DEF KeeperInv, Kept
    <3>4. ~IsNew(fd)
      BY <3>1, <3>2, <3>3 DEF IsNew, OneKeeper, OneWork
    <3>5. fd <= maxFd
      BY <1>1, <3>3, <3>4
    <3>6. Move(t, "wake") /\ pending' = pending \cup {fd}
      BY <2>6, <3>3 DEF Find
    <3>7. run' = [run EXCEPT ![t] = [at |-> "wake", job |-> run[t].job]]
      BY <1>1, <3>1, <3>6, MoveEffect
    <3>8. \A g \in Fd : IsNew(g) => IsNew(g)'
      BY <1>1, <3>1, <3>7 DEF IsNew, WorksOn, WaitsIn
    <3> QED BY <1>1, <3>1, <3>5, <3>6, <3>8 DEF ReachInv
  <2>7. CASE Wake(t)
    <3>1. run[t].at = "wake" /\ Done(t) /\ UNCHANGED <<clients, pending, pendClose, maxFd, jobs>>
      BY <2>7 DEF Wake, At, shared
    <3>2. run' = [run EXCEPT ![t] = Idle]
      BY <1>1, <3>1, DoneEffect
    <3>3. \A fd \in Fd : IsNew(fd) => IsNew(fd)'
      BY <1>1, <3>1, <3>2 DEF IsNew, WorksOn, WaitsIn
    <3> QED BY <1>2, <3>1, <3>3
  <2> QED BY <1>9, <2>2, <2>3, <2>4, <2>5, <2>6, <2>7 DEF CallbackStep
<1>10. ASSUME NEW c \in Conn, ClientAdd(c) PROVE ReachInv'
  <2>1. PICK fd \in Free :
          /\ clients' = clients \cup {fd}
          /\ maxFd' = Max({maxFd, fd})
          /\ run' = [run EXCEPT ![Adder] =
                       [at |-> "greet", job |-> [kind |-> "new", fd |-> fd, conn |-> c]]]
    BY <1>10 DEF ClientAdd
  <2>2. run[Adder] = Idle /\ UNCHANGED <<pending, pendClose, jobs>>
    BY <1>10 DEF ClientAdd
  <2>3. fd \in Nat /\ maxFd' \in Nat /\ maxFd <= maxFd' /\ fd <= maxFd'
    BY <1>1, <2>1, MaxOfTwo DEF Free
  <2>4. \A g \in Fd : IsNew(g) => IsNew(g)'
    BY <1>1, <2>1, <2>2 DEF IsNew, WorksOn, WaitsIn, Idle
  <2>5. \A g \in clients \cup pending : g <= maxFd => g <= maxFd'
    BY <1>1, <2>3
  <2> QED BY <1>1, <2>1, <2>2, <2>3, <2>4, <2>5 DEF ReachInv
<1> QED BY <1>3, <1>4, <1>5, <1>6, <1>7, <1>8, <1>9, <1>10 DEF Next, ServerStep

----------------------------------------------------------------------------
(* The theorems.                                                           *)

\* The inductive invariant holds in every reachable state.
THEOREM ServiceInvariant == Spec => []ServiceInv
<1>1. ASSUME ServiceAssumption, Init PROVE SelectInv /\ OpenInv /\ KeeperInv /\ ReachInv
  <2>1. \A fd \in Fd : OneKeeper(fd) /\ ~Kept(fd)
    BY <1>1 DEF Init, OneKeeper, Kept, OneWork, Worked, WorksOn, WaitsIn, Idle,
                ServiceAssumption, Listener, Ctl
  <2>2. SelectInv /\ OpenInv /\ ConnsMatch
    BY <1>1 DEF Init, SelectInv, OpenInv, ConnsMatch, Idle, ServiceAssumption, Listener, Ctl
  <2> QED BY <1>1, <2>1, <2>2 DEF Init, KeeperInv, ReachInv, Listener, Ctl
<1>2. ASSUME ServiceAssumption, TypeOK, TypeOK', SelectInv /\ OpenInv /\ KeeperInv /\ ReachInv, [Next]_vars
      PROVE  (SelectInv /\ OpenInv /\ KeeperInv /\ ReachInv)'
  BY <1>2, SelectStep, OpenStep, KeeperStep, ReachStep
<1>3. TypeOK /\ LockInv /\ PipeInv /\ SelectInv /\ OpenInv /\ KeeperInv /\ ReachInv => ServiceInv
  BY DEF ServiceInv
<1> QED BY <1>1, <1>2, <1>3, TypeAndLock, ServiceAssumption, PTL DEF Spec

\* Every variable keeps its type: the pipe's count stays within the pipe, max_fd is a
\* descriptor.
THEOREM TypeCorrect == Spec => []TypeOK
BY ServiceInvariant, PTL DEF ServiceInv

\* What select is given is open, unless the application closes clients itself,
\* and none of it is beyond max_fd, for an application that keeps to the results.
THEOREM SelectIsSound == Spec => []SelectsOnWholeOpenSet
<1>1. ASSUME ServiceAssumption, ServiceInv PROVE SelectsOnWholeOpenSet
  <2> SUFFICES ASSUME server = "select"
               PROVE  (app # "breaks" => Bad = {}) /\ (app = "keeps" => Watched = rset)
    BY DEF SelectsOnWholeOpenSet
  <2>1. /\ rset \cap Fd \subseteq pending /\ pending \cap Fd \subseteq clients
        /\ rset \subseteq Fd \cup {Listener, Ctl}
    BY <1>1 DEF ServiceInv, SelectInv, TypeOK
  <2>2. ASSUME app # "breaks" PROVE Bad = {}
    BY <1>1, <2>1, <2>2 DEF ServiceInv, OpenInv, Open, Free, Bad, Watched
  <2>3. ASSUME app = "keeps" PROVE Watched = rset
    <3>1. (\A fd \in pending : fd <= maxFd) /\ maxFd \in Nat /\ maxFd >= Ctl
      BY <1>1, <2>3, FdIsNat DEF ServiceInv, ReachInv
    <3>2. \A d \in rset : d <= maxFd
      BY <2>1, <3>1 DEF Listener, Ctl
    <3> QED BY <3>2 DEF Watched
  <2> QED BY <2>2, <2>3
<1> QED BY <1>1, ServiceInvariant, ServiceAssumption, PTL

\* A set whose members are all the same has one, or none.
LEMMA AtMostOne ==
  ASSUME NEW S, \A x, y \in S : x = y
  PROVE  Cardinality(S) = IF S = {} THEN 0 ELSE 1
<1>1. CASE S = {}
  BY <1>1, FS_EmptySet
<1>2. CASE S # {}
  <2>1. PICK x \in S : TRUE
    BY <1>2
  <2>2. S = {x}
    BY <2>1
  <2> QED BY <1>2, <2>2, FS_Singleton
<1> QED BY <1>1, <1>2

\* Every client is in one place, and one only: the set the server waits for, a job, a
\* callback or the set of what is to be closed.
THEOREM ClientsAreKept == Spec => []EveryClientHasOneKeeper
<1>1. ASSUME ServiceAssumption, ServiceInv PROVE EveryClientHasOneKeeper
  <2> SUFFICES ASSUME app = "keeps", NEW fd \in clients PROVE Holdings(fd)
    BY DEF EveryClientHasOneKeeper
  <2> DEFINE queued  == {i \in DOMAIN jobs : jobs[i].fd = fd}
             running == {t \in Thread : run[t].at \notin {"idle", "wake"} /\ run[t].job.fd = fd}
             sets    == {S \in {<<1, pending>>, <<2, pendClose>>} : fd \in S[2]}
  <2>1. fd \in Fd /\ OneKeeper(fd) /\ Kept(fd)
    BY <1>1 DEF ServiceInv, KeeperInv, TypeOK
  <2>2. /\ \A i, j \in queued : i = j
        /\ \A t, u \in running : t = u
        /\ queued = {} \/ running = {}
        /\ Worked(fd) <=> ~(queued = {} /\ running = {})
    BY <2>1 DEF OneKeeper, OneWork, Worked, WaitsIn, WorksOn
  <2>3. /\ \A S, T \in sets : S = T
        /\ sets = {} <=> fd \notin pending \cup pendClose
    <3>1. /\ <<1, pending>> \in sets <=> fd \in pending
          /\ <<2, pendClose>> \in sets <=> fd \in pendClose
          /\ sets \subseteq {<<1, pending>>, <<2, pendClose>>}
      OBVIOUS
    <3> HIDE DEF sets
    <3> QED BY <2>1, <3>1 DEF OneKeeper
  <2>4. sets = {} <=> Worked(fd)
    BY <2>1, <2>3 DEF OneKeeper, Kept
  <2>5. Cardinality(queued) + Cardinality(running) + Cardinality(sets) = 1
    <3> HIDE DEF queued, running, sets
    <3>1. /\ Cardinality(queued) = IF queued = {} THEN 0 ELSE 1
          /\ Cardinality(running) = IF running = {} THEN 0 ELSE 1
          /\ Cardinality(sets) = IF sets = {} THEN 0 ELSE 1
      BY <2>2, <2>3, AtMostOne
    <3> QED BY <2>2, <2>4, <3>1
  <2> QED BY <2>5 DEF Holdings
<1> QED BY <1>1, ServiceInvariant, ServiceAssumption, PTL

\* Every connection that is to be closed is one somebody asked to close.
THEOREM ClosesWhatWasAsked == Spec => []KeeperClosesOnlyWhatWasAsked
<1>1. ServiceInv => KeeperClosesOnlyWhatWasAsked
  BY DEF ServiceInv, KeeperInv, KeeperClosesOnlyWhatWasAsked, ClosesOnlyWhatWasAsked
<1> QED BY <1>1, ServiceInvariant, PTL

\* m_mutex excludes: no two threads are in its critical sections at once.
THEOREM MutexExcludes ==
  Spec => [](\A t, u \in Thread : Locked(run[t]) /\ Locked(run[u]) => t = u)
<1>1. ServiceInv => \A t, u \in Thread : Locked(run[t]) /\ Locked(run[u]) => t = u
  BY DEF ServiceInv, LockInv
<1> QED BY <1>1, ServiceInvariant, PTL
============================================================================
