CONSTANTS
  Worker = {t1, t2}
  Conn = {c1, c2}
  Fd = {1, 2}
  Key <- MCKey
  EventKey <- MCEventKey
  NoConn = NoConn
  MaxSent = 3
  MaxEvents = 2
SPECIFICATION FairSpec
INVARIANTS
  TypeOK
  OnceAndInOrder
  RegistrationsAreOwn
PROPERTIES
  PublishIsComplete
  RequestsAreHandled
  ClientsLeave
CHECK_DEADLOCK FALSE
