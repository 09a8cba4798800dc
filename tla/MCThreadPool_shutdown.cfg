CONSTANTS
  Worker = {w1, w2}
  Job = {j1, j2}
  Endless = {}
  Freeing = {j2}
  NoJob = NoJob
  NoThread = NoThread
SPECIFICATION ThreadPoolSpec
SYMMETRY WorkerSymmetry
INVARIANT
  ShutdownReachesSleepers
CHECK_DEADLOCK FALSE
