------------------------------ MODULE JobPool ------------------------------
(***************************************************************************)
(* What a pool of threads promises the code that hands it jobs             *)
(* (sonic/std_thread_pool.h), said without locks, condition variables or   *)
(* threads: the jobs that were accepted start in the order they were       *)
(* accepted, each of them at most once, and none starts once the pool is   *)
(* closed.  ThreadPool.tla is the implementation of it.                    *)
(***************************************************************************)
EXTENDS Sequences, FiniteSets

CONSTANT Job           \* the identities of the jobs that may be submitted

VARIABLES
  queue,               \* jobs accepted and not yet started, oldest first
  running,             \* jobs some thread of the pool is executing
  finished,            \* jobs that were executed and released
  closed               \* the pool starts no further job

poolVars == <<queue, running, finished, closed>>

PoolInit ==
  /\ queue = << >>
  /\ running = {}
  /\ finished = {}
  /\ closed = FALSE

\* The jobs the pool has seen: an identity is submitted once.
Seen == {queue[i] : i \in DOMAIN queue} \cup running \cup finished

Submit(j) ==
  /\ j \notin Seen
  /\ queue' = Append(queue, j)
  /\ UNCHANGED <<running, finished, closed>>

Start ==
  /\ ~closed
  /\ queue # << >>
  /\ running' = running \cup {Head(queue)}
  /\ queue' = Tail(queue)
  /\ UNCHANGED <<finished, closed>>

Finish(j) ==
  /\ j \in running
  /\ running' = running \ {j}
  /\ finished' = finished \cup {j}
  /\ UNCHANGED <<queue, closed>>

Close ==
  /\ closed' = TRUE
  /\ UNCHANGED <<queue, running, finished>>

PoolNext ==
  \/ \E j \in Job : Submit(j) \/ Finish(j)
  \/ Start
  \/ Close

PoolSpec == PoolInit /\ [][PoolNext]_poolVars
============================================================================
