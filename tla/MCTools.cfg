CONSTANTS
  Data <- TreeData
  Nil = Nil
  Publisher = {p1, p2}
  Event <- TwoEvents
  Room = 2
  Space = 1
  Client = {c1, c2}
  NoClient = NoClient
  OutRoom = 1
  InRoom = 1
  MaxOut = 2
  MaxIn = 1
  MaxTerms = 1
  Item <- FiveItems
  HeadEnd = HeadEnd
  TailEnd = TailEnd
  Null = Null
  Nothing = Nothing
  Worker = {w1, w2, w3}
  Job = {j1, j2, j3}
  Endless = {j1}
  Freeing = {j2}
  NoJob = NoJob
  NoThread = NoThread
SPECIFICATION Spec
\* A list of events, of calls and of clients comes to an end.
CHECK_DEADLOCK FALSE
INVARIANTS
  TypeOK
  TreeIsSorted
  Balanced
  TreeLookupsAgree
  MessagesComeWhole
  SessionsAreSeparate
  ReadsBack
  ListIsItsContent
  FunctionsAgree
  NoLostWakeup
PROPERTIES
  RebalancingEnds
  ImplementsJobPool
  EveryJobStarts
  JobsDoNotHoldUpDelete
