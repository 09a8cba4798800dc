---------------------------- MODULE ThreadPool ----------------------------
(***************************************************************************)
(* The thread pool of std_thread_pool.cpp: a mutex, a condition variable,  *)
(* a list of jobs and a number of worker threads that take jobs off it.    *)
(*                                                                         *)
(* The critical sections that touch only data guarded by the mutex are one *)
(* action each.  The flag shutdown is written without the mutex, so every  *)
(* read of it by a worker is an action of its own.                         *)
(***************************************************************************)
EXTENDS Naturals, Sequences, FiniteSets

CONSTANTS
  Worker,    \* the threads of the pool, thread_pool_size of them
  Job,       \* the identities of the jobs that may be added
  Endless,   \* the jobs whose function never returns (socket_service is one)
  Freeing,   \* the jobs that come with a free_job_func
  NoJob,     \* no job
  NoThread   \* the mutex is free

ASSUME PoolAssumption ==
  /\ IsFiniteSet(Worker)
  /\ Endless \subseteq Job
  /\ Freeing \subseteq Job
  /\ NoJob \notin Job
  /\ NoThread \notin Worker

VARIABLES
  jobs,         \* std_thread_pool_context_t::jobs
  shutdown,     \* std_thread_pool_context_t::shutdown
  holder,       \* the worker that holds m_lock between two of its steps
  pc,           \* where each worker is
  job,          \* the local copy of the job a worker executes
  finished,     \* history: the jobs executed to their end and released
  owner,        \* where the thread is that creates and deletes the pool
  unsignalled   \* the threads do_shutdown's loop has still to signal

threadPoolVars == <<jobs, shutdown, holder, pc, job, finished, owner, unsignalled>>

\* The places of a worker at which it holds m_lock, and those at which it is
\* going to look at the list of jobs without anybody's help.
Holding == {"test", "check", "take", "wait"}
Seeking == {"lock", "woken", "relock", "test", "check", "take"}
Busy    == {"run", "free"}
Places  == Holding \cup Seeking \cup Busy \cup {"none", "asleep", "exit", "undefined"}

Asleep  == {w \in Worker : pc[w] = "asleep"}
Seekers == {w \in Worker : pc[w] \in Seeking}
Created == {w \in Worker : pc[w] # "none"}
Listed  == {jobs[i] : i \in DOMAIN jobs}
Running == {job[w] : w \in {v \in Worker : pc[v] \in Busy}}

\* m_lock and m_cond exist: do_shutdown has not yet destroyed them.
Live == owner \in {"create", "up", "signal"}

ThreadPoolTypeOK ==
  /\ jobs \in Seq(Job)
  /\ shutdown \in BOOLEAN
  /\ holder \in Worker \cup {NoThread}
  /\ pc \in [Worker -> Places]
  /\ job \in [Worker -> Job \cup {NoJob}]
  /\ finished \subseteq Job
  /\ owner \in {"create", "up", "signal", "sleep", "gone", "undefined"}
  /\ unsignalled \subseteq Worker

\* std_thread_pool_create up to its loop.
ThreadPoolInit ==
  /\ jobs = << >>
  /\ shutdown = FALSE
  /\ holder = NoThread
  /\ pc = [w \in Worker |-> "none"]
  /\ job = [w \in Worker |-> NoJob]
  /\ finished = {}
  /\ owner = "create"
  /\ unsignalled = {}

\* The program counters that may result from signalling m_cond when the
\* workers are at places: one of the sleepers, if there is one, is woken.
Signal(places) ==
  LET sleepers == {w \in Worker : places[w] = "asleep"}
  IN  IF sleepers = {} THEN {places}
      ELSE {[places EXCEPT ![v] = "woken"] : v \in sleepers}
----------------------------------------------------------------------------
(* The workers.                                                            *)

\* A worker enters its loop with the lock, at the start of the thread or on
\* the return of std_condition_var_wait.
Enter(w) ==
  /\ Live
  /\ pc[w] \in {"lock", "woken"}
  /\ holder = NoThread
  /\ holder' = w
  /\ pc' = [pc EXCEPT ![w] = "test"]
  /\ UNCHANGED <<jobs, shutdown, job, finished, owner, unsignalled>>

\* while (!ctx->shutdown): leave with an unlock, or go into dequeue.
Test(w) ==
  /\ Live
  /\ pc[w] = "test"
  /\ \/ /\ shutdown
        /\ pc' = [pc EXCEPT ![w] = "exit"]
        /\ holder' = NoThread
     \/ /\ ~shutdown
        /\ pc' = [pc EXCEPT ![w] = "check"]
        /\ UNCHANGED holder
  /\ UNCHANGED <<jobs, shutdown, job, finished, owner, unsignalled>>

\* dequeue's first lines: a pool that shuts down passes the signal on and
\* the worker goes to wait; so does a worker that finds no job.
Check(w) ==
  /\ Live
  /\ pc[w] = "check"
  /\ \/ /\ shutdown
        /\ pc' \in Signal([pc EXCEPT ![w] = "wait"])
     \/ /\ ~shutdown
        /\ jobs = << >>
        /\ pc' = [pc EXCEPT ![w] = "wait"]
     \/ /\ ~shutdown
        /\ jobs # << >>
        /\ pc' = [pc EXCEPT ![w] = "take"]
  /\ UNCHANGED <<jobs, shutdown, holder, job, finished, owner, unsignalled>>

\* Two mutants of Take: the newest job is taken instead of the oldest one;
\* the function runs with the lock held.
TakeNewest(w) ==
  /\ Live
  /\ pc[w] = "take"
  /\ job' = [job EXCEPT ![w] = jobs[Len(jobs)]]
  /\ jobs' = SubSeq(jobs, 1, Len(jobs) - 1)
  /\ pc' \in IF Len(jobs) > 1 THEN Signal([pc EXCEPT ![w] = "run"])
             ELSE {[pc EXCEPT ![w] = "run"]}
  /\ holder' = NoThread
  /\ UNCHANGED <<shutdown, finished, owner, unsignalled>>

TakeWithLock(w) ==
  /\ Live
  /\ pc[w] = "take"
  /\ job' = [job EXCEPT ![w] = Head(jobs)]
  /\ jobs' = Tail(jobs)
  /\ pc' \in IF Len(jobs) > 1 THEN Signal([pc EXCEPT ![w] = "run"])
             ELSE {[pc EXCEPT ![w] = "run"]}
  /\ UNCHANGED <<shutdown, holder, finished, owner, unsignalled>>

\* The oldest job leaves the list, another worker is called if there are
\* more of them, and the function runs without the lock.
Take(w) ==
  /\ Live
  /\ pc[w] = "take"
  /\ job' = [job EXCEPT ![w] = Head(jobs)]
  /\ jobs' = Tail(jobs)
  /\ pc' \in IF Len(jobs) > 1 THEN Signal([pc EXCEPT ![w] = "run"])
             ELSE {[pc EXCEPT ![w] = "run"]}
  /\ holder' = NoThread
  /\ UNCHANGED <<shutdown, finished, owner, unsignalled>>

\* A mutant of JobReturns: the job is cleared before free_job_func gets it.
JobReturnsClearing(w) ==
  /\ pc[w] = "run"
  /\ job[w] \notin Endless
  /\ \/ /\ job[w] \in Freeing
        /\ pc' = [pc EXCEPT ![w] = "free"]
        /\ UNCHANGED finished
     \/ /\ job[w] \notin Freeing
        /\ pc' = [pc EXCEPT ![w] = "relock"]
        /\ finished' = finished \cup {job[w]}
  /\ job' = [job EXCEPT ![w] = NoJob]
  /\ UNCHANGED <<jobs, shutdown, holder, owner, unsignalled>>

\* job.funct returns; a job without a free_job_func is done.
JobReturns(w) ==
  /\ pc[w] = "run"
  /\ job[w] \notin Endless
  /\ \/ /\ job[w] \in Freeing
        /\ pc' = [pc EXCEPT ![w] = "free"]
        /\ UNCHANGED <<job, finished>>
     \/ /\ job[w] \notin Freeing
        /\ pc' = [pc EXCEPT ![w] = "relock"]
        /\ finished' = finished \cup {job[w]}
        /\ job' = [job EXCEPT ![w] = NoJob]
  /\ UNCHANGED <<jobs, shutdown, holder, owner, unsignalled>>

\* job.free_job_func(job.context).
FreeJob(w) ==
  /\ pc[w] = "free"
  /\ pc' = [pc EXCEPT ![w] = "relock"]
  /\ finished' = finished \cup {job[w]}
  /\ job' = [job EXCEPT ![w] = NoJob]
  /\ UNCHANGED <<jobs, shutdown, holder, owner, unsignalled>>

\* The end of dequeue: only the length of the list decides whether the worker
\* goes round its loop or waits; shutdown is not looked at.
Relock(w) ==
  /\ Live
  /\ pc[w] = "relock"
  /\ holder = NoThread
  /\ holder' = w
  /\ pc' = [pc EXCEPT ![w] = IF jobs # << >> THEN "test" ELSE "wait"]
  /\ UNCHANGED <<jobs, shutdown, job, finished, owner, unsignalled>>

\* std_condition_var_wait: the lock is given up and the worker sleeps, in one
\* step.
Wait(w) ==
  /\ Live
  /\ pc[w] = "wait"
  /\ pc' = [pc EXCEPT ![w] = "asleep"]
  /\ holder' = NoThread
  /\ UNCHANGED <<jobs, shutdown, job, finished, owner, unsignalled>>

\* POSIX lets a condition wait end without a signal.
Spurious(w) ==
  /\ Live
  /\ pc[w] = "asleep"
  /\ pc' = [pc EXCEPT ![w] = "woken"]
  /\ UNCHANGED <<jobs, shutdown, holder, job, finished, owner, unsignalled>>

\* A worker that comes back to the mutex, the list or the flag of a context
\* that is destroyed may still find its way out (the calls on the destroyed
\* mutex fail and are not looked at, shutdown reads as true) or do anything.
Stray(w) ==
  /\ ~Live
  /\ pc[w] \in Holding \cup Seeking
  /\ \E end \in {"exit", "undefined"} : pc' = [pc EXCEPT ![w] = end]
  /\ UNCHANGED <<jobs, shutdown, holder, job, finished, owner, unsignalled>>
----------------------------------------------------------------------------
(* The callers.                                                            *)

\* A mutant of AddWork: nobody is told of the job.
AddWorkUnsignalled(j) ==
  /\ \/ owner = "up"
     \/ owner = "signal" /\ Running # {}
  /\ holder = NoThread
  /\ j \notin Listed \cup Running \cup finished
  /\ jobs' = Append(jobs, j)
  /\ UNCHANGED <<shutdown, holder, pc, job, finished, owner, unsignalled>>

\* std_thread_pool_job_add, by a thread that knows the handle or by a job
\* that is running.  (A call that fails for want of memory changes nothing.)
AddWork(j) ==
  /\ \/ owner = "up"
     \/ owner = "signal" /\ Running # {}
  /\ holder = NoThread
  /\ j \notin Listed \cup Running \cup finished
  /\ jobs' = Append(jobs, j)
  /\ pc' \in Signal(pc)
  /\ UNCHANGED <<shutdown, holder, job, finished, owner, unsignalled>>

\* std_thread_pool_create: one thread after the other is started ...
CreateThread(w) ==
  /\ owner = "create"
  /\ pc[w] = "none"
  /\ pc' = [pc EXCEPT ![w] = "lock"]
  /\ UNCHANGED <<jobs, shutdown, holder, job, finished, owner, unsignalled>>

\* ... until all of them are, and the caller gets the handle ...
CreateDone ==
  /\ owner = "create"
  /\ Created = Worker
  /\ owner' = "up"
  /\ UNCHANGED <<jobs, shutdown, holder, pc, job, finished, unsignalled>>

\* ... or one cannot be started and the pool is given up at once.
\* std_thread_pool_delete begins in the same way.
BeginShutdown ==
  /\ \/ owner = "create" /\ Created # Worker
     \/ owner = "up"
  /\ shutdown' = TRUE
  /\ unsignalled' = Created
  /\ owner' = "signal"
  /\ UNCHANGED <<jobs, holder, pc, job, finished>>

\* One round of do_shutdown's loop: lock, signal, unlock.
SignalThread ==
  /\ owner = "signal"
  /\ holder = NoThread
  /\ \E w \in unsignalled : unsignalled' = unsignalled \ {w}
  /\ pc' \in Signal(pc)
  /\ UNCHANGED <<jobs, shutdown, holder, job, finished, owner>>

\* The rest of do_shutdown: the condition and the mutex are destroyed
\* whatever the workers do, and the caller sleeps ten milliseconds.  To
\* destroy a condition somebody sleeps on, or a mutex somebody holds, is
\* undefined: the caller may also stay in that call or do anything ...
Destroy ==
  /\ owner = "signal"
  /\ unsignalled = {}
  /\ \/ owner' = "sleep"
     \/ /\ Asleep # {} \/ holder # NoThread
        /\ owner' = "undefined"
  /\ UNCHANGED <<jobs, shutdown, holder, pc, job, finished, unsignalled>>

\* ... and the context is deleted, with the jobs that are still in the list.
Delete ==
  /\ owner = "sleep"
  /\ owner' = "gone"
  /\ UNCHANGED <<jobs, shutdown, holder, pc, job, finished, unsignalled>>
----------------------------------------------------------------------------
WorkerStep(w) ==
  \/ Enter(w)
  \/ Test(w)
  \/ Check(w)
  \/ Take(w)
  \/ JobReturns(w)
  \/ FreeJob(w)
  \/ Relock(w)
  \/ Wait(w)
  \/ Stray(w)

ShutdownStep == SignalThread \/ Destroy \/ Delete

ThreadPoolNext ==
  \/ \E w \in Worker : WorkerStep(w) \/ Spurious(w) \/ CreateThread(w)
  \/ \E j \in Job : AddWork(j)
  \/ CreateDone
  \/ BeginShutdown
  \/ ShutdownStep

ThreadPoolSpec == ThreadPoolInit /\ [][ThreadPoolNext]_threadPoolVars

\* A worker that can take a step takes it, and so does a deletion that has
\* begun.  Nobody has to add a job or to delete the pool, and no sleeper is
\* woken without a signal.
ThreadPoolFairness ==
  /\ \A w \in Worker : WF_threadPoolVars(WorkerStep(w))
  /\ WF_threadPoolVars(ShutdownStep)

ThreadPoolFairSpec == ThreadPoolSpec /\ ThreadPoolFairness
----------------------------------------------------------------------------
(* Properties.                                                             *)

\* As long as a worker sleeps there is for every job in the list a worker of
\* its own that is awake and on its way to the list: add_work's signal is
\* never lost between a worker's look at the list and its wait.
NoLostWakeup ==
  ~shutdown /\ Asleep # {} => Len(jobs) <= Cardinality(Seekers)

\* The pool of threads is a pool of jobs: started in the order of the calls
\* of std_thread_pool_job_add, none twice, none after do_shutdown has got
\* hold of the lock once.
Closed ==
  \/ ~Live
  \/ owner = "signal" /\ unsignalled # Created

Pool == INSTANCE JobPool WITH queue <- jobs, running <- Running, closed <- Closed

ImplementsJobPool == Pool!PoolSpec

\* A job that was added is started, however long the other jobs run (as long
\* as they leave one worker), unless the pool is deleted.
EveryJobStarts == \A j \in Job : j \in Listed ~> (j \notin Listed \/ shutdown)

\* No job keeps std_thread_pool_delete from its work: however long the jobs
\* run, do_shutdown gets the lock for each of its signals and comes to the
\* destruction of the condition, and from there the call returns, unless
\* somebody sleeps on the condition or holds the mutex at that moment.
JobsDoNotHoldUpDelete == (owner = "signal") ~> (owner \in {"gone", "undefined"})

\* "Will attempt to shutdown all threads in the pool": when do_shutdown has
\* signalled as many times as there are threads, none of them sleeps on the
\* condition that nobody signals again.
ShutdownReachesSleepers ==
  owner = "signal" /\ unsignalled = {} => Asleep = {}
============================================================================
