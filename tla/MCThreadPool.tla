--------------------------- MODULE MCThreadPool ---------------------------
(* The thread pool for TLC.  The threads are interchangeable: the only     *)
(* thing the pool does with one is to run its loop.  (The jobs are not: a  *)
(* job may be endless, or come with a free_job_func.)                      *)
EXTENDS ThreadPool, TLC

WorkerSymmetry == Permutations(Worker)
============================================================================
