CONSTANTS
  Worker = {t1, t2}
  Conn = {c1, c2}
  Fd = {1}
  Key <- MCKey
  EventKey <- MCEventKey
  NoConn = NoConn
  MaxSent = 3
  MaxEvents = 2
SPECIFICATION Spec
PROPERTIES
  OnlyWhatWasAskedFor
CHECK_DEADLOCK FALSE
