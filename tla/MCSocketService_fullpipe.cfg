CONSTANTS
  Worker = {w1}
  Server = server
  Adder = adder
  Conn = {c1, c2}
  Fd <- TwoFds
  PipeSize = 3
  MaxSent = 2
  App = {"keeps"}
  NoConn = NoConn
  NoThread = NoThread
SPECIFICATION FairSpec
PROPERTY
  ServerKeepsListening
CHECK_DEADLOCK FALSE
