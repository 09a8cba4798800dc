CONSTANTS
  Route = {n1, n2}
  Walker = {w1}
  NoRoute = NoRoute
  MaxChanges = 4
  MaxNodes = 2
  Restless = TRUE
SPECIFICATION RadicalSpec
PROPERTIES
  NothingSkipped
CHECK_DEADLOCK FALSE
