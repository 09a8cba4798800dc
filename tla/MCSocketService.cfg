CONSTANTS
  Worker = {w1}
  Server = server
  Adder = adder
  Conn <- TwoConns
  Fd <- TwoFds
  PipeSize = 6
  MaxSent = 2
  App = {"keeps", "closes", "breaks"}
  NoConn = NoConn
  NoThread = NoThread
SPECIFICATION InTurnSpec
INVARIANTS
  TypeOK
  EveryClientHasOneKeeper
  SelectsOnWholeOpenSet
  KeeperClosesOnlyWhatWasAsked
PROPERTIES
  EveryClientIsServed
  BadDescriptorsLeave
  ClosesInTime
  ServerKeepsListening
CHECK_DEADLOCK FALSE
