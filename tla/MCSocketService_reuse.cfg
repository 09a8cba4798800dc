CONSTANTS
  Worker = {w1}
  Server = server
  Adder = adder
  Conn = {c1, c2}
  Fd <- TwoFds
  PipeSize = 6
  MaxSent = 1
  App = {"closes"}
  NoConn = NoConn
  NoThread = NoThread
SPECIFICATION Spec
INVARIANT
  ClosesOnlyWhatWasAsked
CHECK_DEADLOCK FALSE
