------------------------- MODULE ThreadPoolProofs -------------------------
(***************************************************************************)
(* Theorems about the thread pool, for any number of workers and jobs.     *)
(***************************************************************************)
EXTENDS ThreadPool, FiniteSetTheorems, SequenceTheorems, TLAPS

\* The names of places are strings that appear in several definitions.
USE DEF Holding, Seeking, Busy, Places

\* What a signal can do to the places of the workers: nothing when nobody
\* sleeps, otherwise one sleeper is woken.
LEMMA SignalEffect ==
  ASSUME NEW places \in [Worker -> Places], NEW p \in Signal(places)
  PROVE  /\ p \in [Worker -> Places]
         /\ \A v \in Worker : \/ p[v] = places[v]
                              \/ places[v] = "asleep" /\ p[v] = "woken"
         /\ \/ p = places /\ \A v \in Worker : places[v] # "asleep"
            \/ \E v \in Worker : /\ places[v] = "asleep"
                                 /\ p = [places EXCEPT ![v] = "woken"]
<1> DEFINE S == {w \in Worker : places[w] = "asleep"}
<1>1. CASE S = {}
  <2>1. p = places
    BY <1>1 DEF Signal
  <2>2. \A v \in Worker : places[v] # "asleep"
    BY <1>1
  <2> QED BY <2>1, <2>2
<1>2. CASE S # {}
  <2>1. PICK v \in S : p = [places EXCEPT ![v] = "woken"]
    BY <1>2 DEF Signal
  <2> QED BY <2>1
<1> QED BY <1>1, <1>2

\* A worker moves to a place other than sleep, with or without a signal.
LEMMA MoveEffect ==
  ASSUME pc \in [Worker -> Places], NEW w \in Worker, NEW l \in Places, l # "asleep",
         \/ pc' = [pc EXCEPT ![w] = l]
         \/ pc' \in Signal([pc EXCEPT ![w] = l])
  PROVE  /\ pc' \in [Worker -> Places]
         /\ pc'[w] = l
         /\ \A v \in Worker : v # w => \/ pc'[v] = pc[v]
                                       \/ pc[v] = "asleep" /\ pc'[v] = "woken"
<1> DEFINE P == [pc EXCEPT ![w] = l]
<1>1. P \in [Worker -> Places] /\ P[w] = l /\ \A v \in Worker : v # w => P[v] = pc[v]
  OBVIOUS
<1>2. CASE pc' = P
  BY <1>1, <1>2
<1>3. CASE pc' \in Signal(P)
  <2>1. /\ pc' \in [Worker -> Places]
        /\ \A v \in Worker : pc'[v] = P[v] \/ (P[v] = "asleep" /\ pc'[v] = "woken")
    BY <1>1, <1>3, SignalEffect
  <2> HIDE DEF P
  <2> QED BY <1>1, <2>1
<1> QED BY <1>2, <1>3

----------------------------------------------------------------------------
(* The inductive invariant.                                                *)

\* A worker between its lock and its unlock is the one that holds m_lock.
LockInv == \A w \in Worker : pc[w] \in Holding => holder = w

\* What a worker has seen of the list is still so while it holds the lock.
ListInv ==
  \A w \in Worker :
    /\ pc[w] = "take" => jobs # << >>
    /\ pc[w] = "wait" /\ ~shutdown => jobs = << >>

\* The flag is down until the pool is deleted, and from the first signal of
\* do_shutdown on no worker is about to take a job.
CloseInv ==
  /\ shutdown <=> owner \notin {"create", "up"}
  /\ Closed => \A w \in Worker : pc[w] # "take"
  /\ unsignalled \subseteq Created

\* A worker that executes a job has one.
JobInv == \A w \in Worker : pc[w] \in Busy => job[w] \in Job

PoolInv == ThreadPoolTypeOK /\ JobInv /\ LockInv /\ ListInv /\ CloseInv

LEMMA InitPoolInv == ThreadPoolInit => PoolInv
<1> SUFFICES ASSUME ThreadPoolInit PROVE PoolInv
  OBVIOUS
<1>1. ThreadPoolTypeOK
  BY EmptySeq DEF ThreadPoolInit, ThreadPoolTypeOK
<1>2. JobInv /\ LockInv /\ ListInv /\ CloseInv
  BY DEF ThreadPoolInit, JobInv, LockInv, ListInv, CloseInv, Closed, Live
<1> QED BY <1>1, <1>2 DEF PoolInv

LEMMA WorkerPoolInv ==
  ASSUME PoolInv, NEW w \in Worker, WorkerStep(w) \/ Spurious(w) \/ CreateThread(w)
  PROVE  PoolInv'
<1> USE DEF PoolInv, ThreadPoolTypeOK, JobInv, LockInv, ListInv, CloseInv, Closed, Live
<1>1. CASE Enter(w)
  <2>1. ThreadPoolTypeOK'
    BY <1>1 DEF Enter
  <2>2. JobInv' /\ LockInv' /\ ListInv'
    BY <1>1, PoolAssumption DEF Enter
  <2>3. CloseInv'
    BY <1>1 DEF Enter, Created
  <2> QED BY <2>1, <2>2, <2>3
<1>2. CASE Test(w)
  <2>1. ThreadPoolTypeOK'
    BY <1>2 DEF Test
  <2>2. JobInv' /\ LockInv' /\ ListInv'
    BY <1>2, PoolAssumption DEF Test
  <2>3. CloseInv'
    BY <1>2 DEF Test, Created
  <2> QED BY <2>1, <2>2, <2>3
<1>3. CASE Check(w)
  <2>1. PICK l \in {"wait", "take"} :
          /\ \/ l = "wait" /\ (shutdown \/ jobs = << >>)
             \/ l = "take" /\ ~shutdown /\ jobs # << >>
          /\ \/ pc' = [pc EXCEPT ![w] = l]
             \/ pc' \in Signal([pc EXCEPT ![w] = l])
    BY <1>3 DEF Check
  <2>2. /\ pc' \in [Worker -> Places]
        /\ pc'[w] = l
        /\ \A v \in Worker : v # w => \/ pc'[v] = pc[v]
                                      \/ pc[v] = "asleep" /\ pc'[v] = "woken"
    BY <2>1, MoveEffect
  <2>3. ThreadPoolTypeOK'
    BY <1>3, <2>2 DEF Check
  <2>4. JobInv' /\ LockInv' /\ ListInv'
    BY <1>3, <2>1, <2>2, PoolAssumption DEF Check
  <2>5. Created' = Created
    BY <1>3, <2>2, <2>1 DEF Check, Created
  <2>6. CloseInv'
    BY <1>3, <2>1, <2>2, <2>5 DEF Check
  <2> QED BY <2>3, <2>4, <2>6
<1>4. CASE Take(w)
  <2>1. \/ pc' = [pc EXCEPT ![w] = "run"]
        \/ pc' \in Signal([pc EXCEPT ![w] = "run"])
    BY <1>4 DEF Take
  <2>2. /\ pc' \in [Worker -> Places]
        /\ pc'[w] = "run"
        /\ \A v \in Worker : v # w => \/ pc'[v] = pc[v]
                                      \/ pc[v] = "asleep" /\ pc'[v] = "woken"
    BY <2>1, MoveEffect
  <2>3. jobs # << >> /\ holder = w
    BY <1>4 DEF Take
  <2>4. Head(jobs) \in Job /\ Tail(jobs) \in Seq(Job)
    BY <2>3, HeadTailProperties
  <2>5. ThreadPoolTypeOK'
    BY <1>4, <2>2, <2>4 DEF Take
  <2>6. JobInv' /\ LockInv' /\ ListInv'
    BY <1>4, <2>2, <2>3, <2>4, PoolAssumption DEF Take
  <2>7. Created' = Created
    BY <1>4, <2>2 DEF Take, Created
  <2>8. CloseInv'
    BY <1>4, <2>2, <2>7 DEF Take
  <2> QED BY <2>5, <2>6, <2>8
<1>5. CASE JobReturns(w)
  <2>1. ThreadPoolTypeOK'
    BY <1>5 DEF JobReturns
  <2>2. JobInv' /\ LockInv' /\ ListInv'
    BY <1>5 DEF JobReturns
  <2>3. CloseInv'
    BY <1>5 DEF JobReturns, Created
  <2> QED BY <2>1, <2>2, <2>3
<1>6. CASE FreeJob(w)
  <2>1. ThreadPoolTypeOK'
    BY <1>6 DEF FreeJob
  <2>2. JobInv' /\ LockInv' /\ ListInv'
    BY <1>6 DEF FreeJob
  <2>3. CloseInv'
    BY <1>6 DEF FreeJob, Created
  <2> QED BY <2>1, <2>2, <2>3
<1>7. CASE Relock(w)
  <2>1. ThreadPoolTypeOK'
    BY <1>7 DEF Relock
  <2>2. JobInv' /\ LockInv' /\ ListInv'
    BY <1>7, PoolAssumption DEF Relock
  <2>3. CloseInv'
    BY <1>7 DEF Relock, Created
  <2> QED BY <2>1, <2>2, <2>3
<1>8. CASE Wait(w)
  <2>1. ThreadPoolTypeOK'
    BY <1>8 DEF Wait
  <2>2. JobInv' /\ LockInv' /\ ListInv'
    BY <1>8, PoolAssumption DEF Wait
  <2>3. CloseInv'
    BY <1>8 DEF Wait, Created
  <2> QED BY <2>1, <2>2, <2>3
<1>9. CASE Stray(w)
  <2>1. ThreadPoolTypeOK'
    BY <1>9 DEF Stray
  <2>2. JobInv' /\ LockInv' /\ ListInv'
    BY <1>9 DEF Stray
  <2>3. CloseInv'
    BY <1>9 DEF Stray, Created
  <2> QED BY <2>1, <2>2, <2>3
<1>10. CASE Spurious(w)
  <2>1. ThreadPoolTypeOK'
    BY <1>10 DEF Spurious
  <2>2. JobInv' /\ LockInv' /\ ListInv'
    BY <1>10 DEF Spurious
  <2>3. CloseInv'
    BY <1>10 DEF Spurious, Created
  <2> QED BY <2>1, <2>2, <2>3
<1>11. CASE CreateThread(w)
  <2>1. ThreadPoolTypeOK'
    BY <1>11 DEF CreateThread
  <2>2. JobInv' /\ LockInv' /\ ListInv'
    BY <1>11 DEF CreateThread
  <2>3. CloseInv'
    BY <1>11 DEF CreateThread, Created
  <2> QED BY <2>1, <2>2, <2>3
<1> QED BY <1>1, <1>2, <1>3, <1>4, <1>5, <1>6, <1>7, <1>8, <1>9, <1>10, <1>11
        DEF WorkerStep

LEMMA CallerPoolInv ==
  ASSUME PoolInv,
         (\E j \in Job : AddWork(j)) \/ CreateDone \/ BeginShutdown \/ ShutdownStep
  PROVE  PoolInv'
<1> USE DEF PoolInv, ThreadPoolTypeOK, JobInv, LockInv, ListInv, CloseInv, Closed, Live
<1>1. ASSUME NEW j \in Job, AddWork(j)
      PROVE  PoolInv'
  <2>1. ThreadPoolTypeOK'
    BY <1>1, SignalEffect, AppendProperties DEF AddWork
  <2>2. \A v \in Worker : \/ pc'[v] = pc[v]
                          \/ pc[v] = "asleep" /\ pc'[v] = "woken"
    BY <1>1, SignalEffect DEF AddWork
  <2>3. \A v \in Worker : pc[v] \notin Holding
    BY <1>1, PoolAssumption DEF AddWork
  <2>4. JobInv' /\ LockInv' /\ ListInv'
    BY <1>1, <2>2, <2>3 DEF AddWork
  <2>5. Created' = Created
    BY <2>2 DEF Created
  <2>6. CloseInv'
    BY <1>1, <2>2, <2>3, <2>5 DEF AddWork
  <2> QED BY <2>1, <2>4, <2>6
<1>2. CASE CreateDone
  BY <1>2 DEF CreateDone, Created
<1>3. CASE BeginShutdown
  BY <1>3 DEF BeginShutdown, Created
<1>4. CASE SignalThread
  <2>1. ThreadPoolTypeOK'
    BY <1>4, SignalEffect DEF SignalThread
  <2>2. \A v \in Worker : \/ pc'[v] = pc[v]
                          \/ pc[v] = "asleep" /\ pc'[v] = "woken"
    BY <1>4, SignalEffect DEF SignalThread
  <2>3. \A v \in Worker : pc[v] \notin Holding
    BY <1>4, PoolAssumption DEF SignalThread
  <2>4. Created' = Created
    BY <2>2 DEF Created
  <2>5. JobInv' /\ LockInv' /\ ListInv'
    BY <1>4, <2>2, <2>3 DEF SignalThread
  <2>6. CloseInv'
    BY <1>4, <2>2, <2>3, <2>4 DEF SignalThread
  <2> QED BY <2>1, <2>5, <2>6
<1>5. CASE Destroy
  <2>1. Created' = Created /\ (Created = {} => \A v \in Worker : pc[v] # "take")
    BY <1>5 DEF Destroy, Created
  <2> QED BY <1>5, <2>1 DEF Destroy
<1>6. CASE Delete
  BY <1>6 DEF Delete, Created
<1> QED BY <1>1, <1>2, <1>3, <1>4, <1>5, <1>6 DEF ShutdownStep

LEMMA NextPoolInv == PoolInv /\ [ThreadPoolNext]_threadPoolVars => PoolInv'
<1> SUFFICES ASSUME PoolInv, [ThreadPoolNext]_threadPoolVars PROVE PoolInv'
  OBVIOUS
<1>1. CASE UNCHANGED threadPoolVars
  BY <1>1 DEF threadPoolVars, PoolInv, ThreadPoolTypeOK, JobInv, LockInv, ListInv, CloseInv, Closed, Live, Created
<1>2. CASE ThreadPoolNext
  BY <1>2, WorkerPoolInv, CallerPoolInv DEF ThreadPoolNext
<1> QED BY <1>1, <1>2

LEMMA PoolInvariant == ThreadPoolSpec => []PoolInv
BY InitPoolInv, NextPoolInv, PTL DEF ThreadPoolSpec

\* The variables of the pool keep their types: in particular a worker only
\* takes a job off a list that has one, because it looked at it with the lock.
THEOREM PoolTypeOK == ThreadPoolSpec => []ThreadPoolTypeOK
<1>1. PoolInv => ThreadPoolTypeOK
  BY DEF PoolInv
<1> QED BY <1>1, PoolInvariant, PTL
----------------------------------------------------------------------------
(* No wakeup is lost.                                                      *)

\* The workers are finitely many, and so are those that seek, now and next.
LEMMA SeekersFinite ==
  /\ IsFiniteSet(Seekers) /\ Cardinality(Seekers) \in Nat
  /\ IsFiniteSet(Seekers') /\ Cardinality(Seekers') \in Nat
<1>1. Seekers \in SUBSET Worker /\ Seekers' \in SUBSET Worker
  BY DEF Seekers
<1>2. IsFiniteSet(Seekers) /\ IsFiniteSet(Seekers')
  BY <1>1, PoolAssumption, FS_Subset
<1> QED BY <1>2, FS_CardinalityType

\* A step by which nobody falls asleep, no job is added and no worker stops
\* seeking keeps the invariant.
LEMMA NoLostWakeupStable ==
  ASSUME ThreadPoolTypeOK, NoLostWakeup, jobs' = jobs, shutdown => shutdown',
         Asleep' \subseteq Asleep, Seekers \subseteq Seekers'
  PROVE  NoLostWakeup'
<1>1. SUFFICES ASSUME ~shutdown, Asleep # {}
               PROVE  Len(jobs) <= Cardinality(Seekers')
  BY DEF NoLostWakeup, ThreadPoolTypeOK
<1>2. Len(jobs) <= Cardinality(Seekers)
  BY <1>1 DEF NoLostWakeup
<1>3. Cardinality(Seekers) <= Cardinality(Seekers')
  BY SeekersFinite, FS_Subset
<1>4. Len(jobs) \in Nat
  BY LenProperties DEF ThreadPoolTypeOK
<1> QED BY <1>2, <1>3, <1>4, SeekersFinite

\* A step that ends with an empty list, or with the flag up, keeps it too.
LEMMA NoLostWakeupEmpty ==
  ASSUME jobs' = << >> \/ shutdown'
  PROVE  NoLostWakeup'
<1>1. CASE shutdown'
  BY <1>1 DEF NoLostWakeup
<1>2. CASE jobs' = << >>
  BY <1>2, SeekersFinite, EmptySeq DEF NoLostWakeup
<1> QED BY <1>1, <1>2

LEMMA WorkerNoLostWakeup ==
  ASSUME PoolInv, NoLostWakeup,
         NEW w \in Worker, WorkerStep(w) \/ Spurious(w) \/ CreateThread(w)
  PROVE  NoLostWakeup'
<1> USE DEF PoolInv, ThreadPoolTypeOK
<1>1. CASE Enter(w)
  BY <1>1, NoLostWakeupStable DEF Enter, Asleep, Seekers
<1>2. CASE Test(w)
  <2>1. CASE shutdown
    BY <1>2, <2>1, NoLostWakeupEmpty DEF Test
  <2>2. CASE ~shutdown
    BY <1>2, <2>2, NoLostWakeupStable DEF Test, Asleep, Seekers
  <2> QED BY <2>1, <2>2
<1>3. CASE Check(w)
  <2>1. CASE shutdown \/ jobs = << >>
    BY <1>3, <2>1, NoLostWakeupEmpty DEF Check
  <2>2. CASE ~shutdown /\ jobs # << >>
    BY <1>3, <2>2, NoLostWakeupStable DEF Check, Asleep, Seekers
  <2> QED BY <2>1, <2>2
<1>4. CASE Take(w)
  <2>1. /\ pc'[w] = "run"
        /\ \A v \in Worker : v # w => \/ pc'[v] = pc[v]
                                      \/ pc[v] = "asleep" /\ pc'[v] = "woken"
    BY <1>4, MoveEffect DEF Take
  <2>2. Asleep' \subseteq Asleep /\ Seekers \ {w} \subseteq Seekers' /\ w \in Seekers
    BY <1>4, <2>1 DEF Take, Asleep, Seekers
  <2>3. jobs # << >> /\ Len(jobs') = Len(jobs) - 1 /\ Len(jobs) \in Nat
    BY <1>4, HeadTailProperties, LenProperties DEF Take, ListInv
  <2>4. /\ IsFiniteSet(Seekers \ {w})
        /\ Cardinality(Seekers \ {w}) = Cardinality(Seekers) - 1
    BY <2>2, SeekersFinite, FS_RemoveElement
  <2>5. Cardinality(Seekers) - 1 <= Cardinality(Seekers')
    BY <2>2, <2>4, SeekersFinite, FS_Subset
  <2>6. shutdown' = shutdown
    BY <1>4 DEF Take
  <2> QED BY <2>2, <2>3, <2>5, <2>6, SeekersFinite DEF NoLostWakeup
<1>5. CASE JobReturns(w)
  BY <1>5, NoLostWakeupStable DEF JobReturns, Asleep, Seekers
<1>6. CASE FreeJob(w)
  BY <1>6, NoLostWakeupStable DEF FreeJob, Asleep, Seekers
<1>7. CASE Relock(w)
  <2>1. CASE jobs = << >>
    BY <1>7, <2>1, NoLostWakeupEmpty DEF Relock
  <2>2. CASE jobs # << >>
    BY <1>7, <2>2, NoLostWakeupStable DEF Relock, Asleep, Seekers
  <2> QED BY <2>1, <2>2
<1>8. CASE Wait(w)
  BY <1>8, NoLostWakeupEmpty DEF Wait, ListInv
<1>9. CASE Stray(w)
  BY <1>9, NoLostWakeupEmpty DEF Stray, CloseInv, Live
<1>10. CASE Spurious(w)
  BY <1>10, NoLostWakeupStable DEF Spurious, Asleep, Seekers
<1>11. CASE CreateThread(w)
  BY <1>11, NoLostWakeupStable DEF CreateThread, Asleep, Seekers
<1> QED BY <1>1, <1>2, <1>3, <1>4, <1>5, <1>6, <1>7, <1>8, <1>9, <1>10, <1>11
        DEF WorkerStep

LEMMA CallerNoLostWakeup ==
  ASSUME PoolInv, NoLostWakeup,
         (\E j \in Job : AddWork(j)) \/ CreateDone \/ BeginShutdown \/ ShutdownStep
  PROVE  NoLostWakeup'
<1> USE DEF PoolInv, ThreadPoolTypeOK
<1>1. ASSUME NEW j \in Job, AddWork(j)
      PROVE  NoLostWakeup'
  <2>1. SUFFICES ASSUME ~shutdown, Asleep' # {}
                 PROVE  Len(jobs') <= Cardinality(Seekers')
    BY <1>1 DEF AddWork, NoLostWakeup
  <2>2. \/ pc' = pc /\ Asleep = {}
        \/ \E v \in Worker : pc[v] = "asleep" /\ pc' = [pc EXCEPT ![v] = "woken"]
    BY <1>1, SignalEffect DEF AddWork, Asleep
  <2>3. PICK v \in Worker : pc[v] = "asleep" /\ pc' = [pc EXCEPT ![v] = "woken"]
    BY <2>1, <2>2 DEF Asleep
  <2>4. Seekers' = Seekers \cup {v} /\ v \notin Seekers /\ v \in Asleep
    BY <2>3 DEF Seekers, Asleep
  <2>5. Cardinality(Seekers') = Cardinality(Seekers) + 1
    BY <2>4, SeekersFinite, FS_AddElement
  <2>6. Len(jobs') = Len(jobs) + 1 /\ Len(jobs) \in Nat
    BY <1>1, AppendProperties, LenProperties DEF AddWork
  <2>7. Len(jobs) <= Cardinality(Seekers)
    BY <2>1, <2>4 DEF NoLostWakeup
  <2> QED BY <2>5, <2>6, <2>7, SeekersFinite
<1>2. CASE CreateDone
  BY <1>2, NoLostWakeupStable DEF CreateDone, Asleep, Seekers
<1>3. CASE BeginShutdown
  BY <1>3, NoLostWakeupEmpty DEF BeginShutdown
<1>4. CASE ShutdownStep
  BY <1>4, NoLostWakeupEmpty DEF ShutdownStep, SignalThread, Destroy, Delete, CloseInv
<1> QED BY <1>1, <1>2, <1>3, <1>4

\* std_thread_pool_job_add never loses a wakeup: while a worker sleeps there
\* is for each job in the list another worker on its way to it.
THEOREM PoolNoLostWakeup == ThreadPoolSpec => []NoLostWakeup
<1>1. ThreadPoolInit => NoLostWakeup
  BY DEF ThreadPoolInit, NoLostWakeup, Asleep
<1>2. PoolInv /\ NoLostWakeup /\ [ThreadPoolNext]_threadPoolVars => NoLostWakeup'
  <2> SUFFICES ASSUME PoolInv, NoLostWakeup, [ThreadPoolNext]_threadPoolVars PROVE NoLostWakeup'
    OBVIOUS
  <2>1. CASE UNCHANGED threadPoolVars
    BY <2>1, NoLostWakeupStable DEF threadPoolVars, PoolInv, Asleep, Seekers
  <2>2. CASE ThreadPoolNext
    BY <2>2, WorkerNoLostWakeup, CallerNoLostWakeup DEF ThreadPoolNext
  <2> QED BY <2>1, <2>2
<1> QED BY <1>1, <1>2, PoolInvariant, PTL DEF ThreadPoolSpec
----------------------------------------------------------------------------
(* The pool of threads is a pool of jobs.                                  *)

Elements(s) == {s[i] : i \in DOMAIN s}
Distinct(s) == \A i, k \in DOMAIN s : s[i] = s[k] => i = k

\* Taking the first of distinct elements off a sequence.
LEMMA TailElements ==
  ASSUME NEW S, NEW s \in Seq(S), s # << >>, Distinct(s)
  PROVE  /\ Elements(Tail(s)) = Elements(s) \ {Head(s)}
         /\ Distinct(Tail(s))
         /\ Head(s) \in Elements(s)
<1>1. /\ Len(s) \in Nat \ {0} /\ DOMAIN s = 1 .. Len(s)
      /\ DOMAIN Tail(s) = 1 .. (Len(s) - 1)
      /\ \A i \in 1 .. (Len(s) - 1) : Tail(s)[i] = s[i + 1]
      /\ Head(s) = s[1]
  BY HeadTailProperties, EmptySeq, LenProperties
<1>2. \A i \in 2 .. Len(s) : s[i] = Tail(s)[i - 1] /\ i - 1 \in 1 .. (Len(s) - 1)
  BY <1>1
<1>3. \A i \in 2 .. Len(s) : s[i] # s[1]
  BY <1>1 DEF Distinct
<1>4. Elements(Tail(s)) \subseteq Elements(s) \ {Head(s)}
  <2>1. SUFFICES ASSUME NEW i \in 1 .. (Len(s) - 1)
                 PROVE  Tail(s)[i] \in Elements(s) \ {Head(s)}
    BY <1>1 DEF Elements
  <2>2. Tail(s)[i] = s[i + 1] /\ i + 1 \in 2 .. Len(s)
    BY <1>1
  <2> QED BY <1>1, <1>3, <2>2 DEF Elements
<1>5. Elements(s) \ {Head(s)} \subseteq Elements(Tail(s))
  <2>1. SUFFICES ASSUME NEW i \in 1 .. Len(s), s[i] # s[1]
                 PROVE  s[i] \in Elements(Tail(s))
    BY <1>1 DEF Elements
  <2>2. i \in 2 .. Len(s)
    BY <1>1, <2>1
  <2> QED BY <1>1, <1>2, <2>2 DEF Elements
<1>6. Distinct(Tail(s))
  BY <1>1 DEF Distinct
<1>7. Head(s) \in Elements(s)
  BY <1>1 DEF Elements
<1> QED BY <1>4, <1>5, <1>6, <1>7

\* Appending a new element.
LEMMA AppendElements ==
  ASSUME NEW S, NEW s \in Seq(S), NEW e \in S, e \notin Elements(s), Distinct(s)
  PROVE  /\ Elements(Append(s, e)) = Elements(s) \cup {e}
         /\ Distinct(Append(s, e))
<1>1. /\ Len(s) \in Nat /\ DOMAIN s = 1 .. Len(s)
      /\ DOMAIN Append(s, e) = 1 .. (Len(s) + 1)
      /\ \A i \in 1 .. Len(s) : Append(s, e)[i] = s[i]
      /\ Append(s, e)[Len(s) + 1] = e
  BY AppendProperties, LenProperties
<1>2. Elements(Append(s, e)) = Elements(s) \cup {e}
  <2>1. \A i \in 1 .. (Len(s) + 1) : i \in 1 .. Len(s) \/ i = Len(s) + 1
    BY <1>1
  <2>2. \A i \in 1 .. Len(s) : i \in 1 .. (Len(s) + 1)
    BY <1>1
  <2>3. Len(s) + 1 \in 1 .. (Len(s) + 1)
    BY <1>1
  <2> QED BY <1>1, <2>1, <2>2, <2>3 DEF Elements
<1>3. \A i \in 1 .. Len(s) : s[i] # e
  BY <1>1 DEF Elements
<1>4. Distinct(Append(s, e))
  BY <1>1, <1>3 DEF Distinct
<1> QED BY <1>2, <1>4

\* No job is twice in the pool: not twice in the list, not with two workers,
\* not in the list or with a worker when it is finished.
UniqueInv ==
  /\ Distinct(jobs)
  /\ Listed \cap finished = {}
  /\ \A w \in Worker : pc[w] \in Busy =>
       /\ job[w] \notin Listed \cup finished
       /\ \A v \in Worker : pc[v] \in Busy /\ job[v] = job[w] => v = w

\* A step of a worker that takes up and puts down no job.
Idle == /\ jobs' = jobs /\ finished' = finished /\ job' = job
        /\ \A v \in Worker : pc'[v] \in Busy <=> pc[v] \in Busy

LEMMA IdleUnique == UniqueInv /\ Idle => UniqueInv'
BY DEF UniqueInv, Idle, Listed

LEMMA IdleRunning == Idle => Running' = Running
BY DEF Idle, Running

\* The steps that leave the jobs alone.
LEMMA IdleWorker ==
  ASSUME PoolInv, NEW w \in Worker,
         \/ Enter(w) \/ Test(w) \/ Check(w) \/ Relock(w) \/ Wait(w) \/ Stray(w)
         \/ Spurious(w) \/ CreateThread(w)
         \/ JobReturns(w) /\ job[w] \in Freeing
  PROVE  Idle /\ Closed' = Closed
<1> USE DEF PoolInv, ThreadPoolTypeOK
<1>1. CASE Check(w)
  <2>1. PICK l \in {"wait", "take"} :
          \/ pc' = [pc EXCEPT ![w] = l]
          \/ pc' \in Signal([pc EXCEPT ![w] = l])
    BY <1>1 DEF Check
  <2>2. /\ pc'[w] = l
        /\ \A v \in Worker : v # w => \/ pc'[v] = pc[v]
                                      \/ pc[v] = "asleep" /\ pc'[v] = "woken"
    BY <2>1, MoveEffect
  <2>3. Idle
    BY <1>1, <2>2 DEF Check, Idle
  <2>4. Created' = Created
    BY <1>1, <2>2 DEF Check, Created
  <2> QED BY <1>1, <2>3, <2>4 DEF Check, Closed, Live
<1>2. CASE Enter(w) \/ Test(w) \/ Relock(w)
  <2>1. Idle
    BY <1>2 DEF Enter, Test, Relock, Idle
  <2>2. Created' = Created
    BY <1>2 DEF Enter, Test, Relock, Created
  <2> QED BY <1>2, <2>1, <2>2 DEF Enter, Test, Relock, Closed, Live
<1>3. CASE Wait(w) \/ Stray(w) \/ Spurious(w)
  <2>1. Idle
    BY <1>3 DEF Wait, Stray, Spurious, Idle
  <2>2. Created' = Created
    BY <1>3 DEF Wait, Stray, Spurious, Created
  <2> QED BY <1>3, <2>1, <2>2 DEF Wait, Stray, Spurious, Closed, Live
<1>4. CASE CreateThread(w)
  BY <1>4 DEF CreateThread, Idle, Closed, Live
<1>5. CASE JobReturns(w) /\ job[w] \in Freeing
  <2>1. Idle
    BY <1>5 DEF JobReturns, Idle
  <2>2. Created' = Created
    BY <1>5 DEF JobReturns, Created
  <2> QED BY <1>5, <2>1, <2>2 DEF JobReturns, Closed, Live
<1> QED BY <1>1, <1>2, <1>3, <1>4, <1>5

\* A worker takes the oldest job: JobPool's Start.
LEMMA TakeStarts ==
  ASSUME PoolInv, UniqueInv, NEW w \in Worker, Take(w)
  PROVE  UniqueInv' /\ Pool!Start
<1> USE DEF PoolInv, ThreadPoolTypeOK
<1>1. jobs # << >> /\ pc[w] = "take" /\ ~Closed
  BY DEF Take, ListInv, CloseInv
<1>2. /\ pc'[w] = "run"
      /\ \A v \in Worker : v # w => \/ pc'[v] = pc[v]
                                    \/ pc[v] = "asleep" /\ pc'[v] = "woken"
  BY MoveEffect DEF Take
<1>3. Created' = Created
  BY <1>1, <1>2 DEF Created
<1>4. Closed' = Closed
  BY <1>3 DEF Take, Closed, Live
<1>5. /\ Listed' = Listed \ {Head(jobs)}
      /\ Distinct(jobs')
      /\ Head(jobs) \in Listed
  <2>1. jobs \in Seq(Job) /\ Distinct(jobs) /\ jobs' = Tail(jobs)
    BY DEF UniqueInv, Take
  <2>2. /\ Elements(Tail(jobs)) = Elements(jobs) \ {Head(jobs)}
        /\ Distinct(Tail(jobs))
        /\ Head(jobs) \in Elements(jobs)
    BY <1>1, <2>1, TailElements
  <2>3. Listed = Elements(jobs) /\ Listed' = Elements(jobs')
    BY DEF Listed, Elements
  <2> QED BY <2>1, <2>2, <2>3
<1>6. job'[w] = Head(jobs) /\ \A v \in Worker : v # w => job'[v] = job[v]
  BY DEF Take
<1>7. finished' = finished
  BY DEF Take
<1>8. \A v \in Worker : pc[v] \in Busy => v # w /\ pc'[v] \in Busy
  BY <1>1, <1>2
<1>9. \A v \in Worker : pc'[v] \in Busy => (v = w \/ pc[v] \in Busy)
  BY <1>1, <1>2
<1>10. UniqueInv'
  <2>1. Listed' \cap finished' = {}
    BY <1>5, <1>7 DEF UniqueInv
  <2>2. ASSUME NEW v \in Worker, pc'[v] \in Busy
        PROVE  job'[v] \notin Listed' \cup finished'
    BY <1>5, <1>6, <1>7, <1>9, <2>2 DEF UniqueInv
  <2>3. ASSUME NEW u \in Worker, NEW v \in Worker,
               pc'[u] \in Busy, pc'[v] \in Busy, job'[u] = job'[v]
        PROVE  u = v
    BY <1>5, <1>6, <1>9, <2>3 DEF UniqueInv
  <2> QED BY <1>5, <2>1, <2>2, <2>3 DEF UniqueInv
<1>11. Running' = Running \cup {Head(jobs)}
  BY <1>2, <1>6, <1>8, <1>9 DEF Running
<1> QED BY <1>1, <1>4, <1>7, <1>10, <1>11 DEF Take, Pool!Start

\* A worker is done with a job: JobPool's Finish.
LEMMA DoneFinishes ==
  ASSUME PoolInv, UniqueInv, NEW w \in Worker,
         (JobReturns(w) /\ job[w] \notin Freeing) \/ FreeJob(w)
  PROVE  UniqueInv' /\ \E j \in Job : Pool!Finish(j)
<1> USE DEF PoolInv, ThreadPoolTypeOK
<1>1. /\ pc[w] \in Busy
      /\ pc' = [pc EXCEPT ![w] = "relock"]
      /\ job' = [job EXCEPT ![w] = NoJob]
      /\ finished' = finished \cup {job[w]}
      /\ jobs' = jobs
      /\ UNCHANGED <<owner, unsignalled>>
  BY DEF JobReturns, FreeJob
<1>2. job[w] \in Job
  BY <1>1 DEF JobInv
<1>3. Created' = Created
  BY <1>1 DEF Created
<1>4. Closed' = Closed
  BY <1>1, <1>3 DEF Closed, Live
<1>5. \A v \in Worker : pc'[v] \in Busy <=> pc[v] \in Busy /\ v # w
  BY <1>1
<1>6. \A v \in Worker : v # w => job'[v] = job[v]
  BY <1>1
<1>7. Listed' = Listed
  BY <1>1 DEF Listed
<1>8. UniqueInv'
  <2>1. Distinct(jobs') /\ Listed' \cap finished' = {}
    BY <1>1, <1>7 DEF UniqueInv
  <2>2. ASSUME NEW v \in Worker, pc'[v] \in Busy
        PROVE  job'[v] \notin Listed' \cup finished'
    BY <1>1, <1>5, <1>6, <1>7, <2>2 DEF UniqueInv
  <2>3. ASSUME NEW u \in Worker, NEW v \in Worker,
               pc'[u] \in Busy, pc'[v] \in Busy, job'[u] = job'[v]
        PROVE  u = v
    BY <1>5, <1>6, <2>3 DEF UniqueInv
  <2> QED BY <2>1, <2>2, <2>3 DEF UniqueInv
<1>9. Running' = Running \ {job[w]}
  BY <1>1, <1>5, <1>6 DEF Running, UniqueInv
<1>10. job[w] \in Running
  BY <1>1 DEF Running
<1> QED BY <1>1, <1>2, <1>4, <1>8, <1>9, <1>10 DEF Pool!Finish

\* A job is added: JobPool's Submit.
LEMMA AddSubmits ==
  ASSUME PoolInv, UniqueInv, NEW j \in Job, AddWork(j)
  PROVE  UniqueInv' /\ Pool!Submit(j)
<1> USE DEF PoolInv, ThreadPoolTypeOK
<1>1. \A v \in Worker : \/ pc'[v] = pc[v]
                        \/ pc[v] = "asleep" /\ pc'[v] = "woken"
  BY SignalEffect DEF AddWork
<1>2. Created' = Created
  BY <1>1 DEF Created
<1>3. Closed' = Closed
  BY <1>2 DEF AddWork, Closed, Live
<1>4. Listed' = Listed \cup {j} /\ Distinct(jobs')
  BY AppendElements DEF AddWork, Listed, Elements, UniqueInv
<1>5. /\ job' = job /\ finished' = finished
      /\ \A v \in Worker : pc'[v] \in Busy <=> pc[v] \in Busy
  BY <1>1 DEF AddWork
<1>6. Running' = Running
  BY <1>5 DEF Running
<1>7. \A v \in Worker : pc[v] \in Busy => job[v] # j
  BY DEF AddWork, Running
<1>8. UniqueInv'
  BY <1>4, <1>5, <1>7 DEF AddWork, UniqueInv
<1> QED BY <1>3, <1>5, <1>6, <1>8 DEF AddWork, Pool!Submit, Pool!Seen, Listed

\* The owner's steps: JobPool's Close, or nothing.
LEMMA OwnerCloses ==
  ASSUME PoolInv, UniqueInv, CreateDone \/ BeginShutdown \/ ShutdownStep
  PROVE  UniqueInv' /\ (Pool!Close \/ UNCHANGED Pool!poolVars)
<1> USE DEF PoolInv, ThreadPoolTypeOK
<1>1. \A v \in Worker : \/ pc'[v] = pc[v]
                        \/ pc[v] = "asleep" /\ pc'[v] = "woken"
  BY SignalEffect DEF CreateDone, BeginShutdown, ShutdownStep, SignalThread, Destroy, Delete
<1>2. Idle
  BY <1>1 DEF Idle, CreateDone, BeginShutdown, ShutdownStep, SignalThread, Destroy, Delete
<1>3. Created' = Created
  BY <1>1 DEF Created
<1>4. Closed' = Closed \/ Closed'
  <2>1. CASE CreateDone \/ BeginShutdown
    BY <1>3, <2>1 DEF CreateDone, BeginShutdown, Closed, Live
  <2>2. CASE SignalThread
    BY <1>3, <2>2 DEF SignalThread, CloseInv, Closed, Live
  <2>3. CASE Destroy \/ Delete
    BY <2>3 DEF Destroy, Delete, Closed, Live
  <2> QED BY <2>1, <2>2, <2>3 DEF ShutdownStep
<1>5. Closed \in BOOLEAN /\ Closed' \in BOOLEAN
  BY DEF Closed, Live
<1> QED BY <1>2, <1>4, <1>5, IdleUnique, IdleRunning DEF Idle, Pool!Close, Pool!poolVars

\* The threads, the lock and the condition implement the pool of jobs: jobs
\* start in the order they were added, once, and none after the shutdown.
THEOREM PoolImplementsJobPool == ThreadPoolSpec => ImplementsJobPool
<1>1. ThreadPoolInit => Pool!PoolInit /\ UniqueInv
  BY DEF ThreadPoolInit, Pool!PoolInit, UniqueInv, Listed, Distinct, Running, Closed, Live
<1>2. ASSUME PoolInv, UniqueInv, [ThreadPoolNext]_threadPoolVars
      PROVE  UniqueInv' /\ [Pool!PoolNext]_(Pool!poolVars)
  <2>1. ASSUME NEW w \in Worker, WorkerStep(w) \/ Spurious(w) \/ CreateThread(w)
        PROVE  UniqueInv' /\ [Pool!PoolNext]_(Pool!poolVars)
    <3>1. CASE Take(w)
      BY <1>2, <3>1, TakeStarts DEF Pool!PoolNext
    <3>2. CASE (JobReturns(w) /\ job[w] \notin Freeing) \/ FreeJob(w)
      BY <1>2, <3>2, DoneFinishes DEF Pool!PoolNext
    <3>3. CASE ~(Take(w) \/ FreeJob(w) \/ (JobReturns(w) /\ job[w] \notin Freeing))
      <4>1. \/ Enter(w) \/ Test(w) \/ Check(w) \/ Relock(w) \/ Wait(w) \/ Stray(w)
            \/ Spurious(w) \/ CreateThread(w)
            \/ JobReturns(w) /\ job[w] \in Freeing
        BY <2>1, <3>3 DEF WorkerStep
      <4>2. Idle /\ Closed' = Closed
        BY <1>2, <4>1, IdleWorker
      <4> QED BY <1>2, <4>2, IdleUnique, IdleRunning DEF Idle, Pool!poolVars
    <3> QED BY <3>1, <3>2, <3>3
  <2>2. ASSUME NEW j \in Job, AddWork(j)
        PROVE  UniqueInv' /\ [Pool!PoolNext]_(Pool!poolVars)
    BY <1>2, <2>2, AddSubmits DEF Pool!PoolNext
  <2>3. CASE CreateDone \/ BeginShutdown \/ ShutdownStep
    BY <1>2, <2>3, OwnerCloses DEF Pool!PoolNext
  <2>4. CASE UNCHANGED threadPoolVars
    <3>1. Idle
      BY <2>4 DEF threadPoolVars, Idle
    <3>2. Closed' = Closed
      BY <2>4 DEF threadPoolVars, Closed, Live, Created
    <3> QED BY <1>2, <2>4, <3>1, <3>2, IdleUnique, IdleRunning DEF threadPoolVars, Pool!poolVars
  <2> QED BY <1>2, <2>1, <2>2, <2>3, <2>4 DEF ThreadPoolNext
<1> QED BY <1>1, <1>2, PoolInvariant, PTL DEF ThreadPoolSpec, ImplementsJobPool, Pool!PoolSpec
============================================================================
