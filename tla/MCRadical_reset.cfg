CONSTANTS
  Route = {n1, n2}
  Walker = {w1}
  NoRoute = NoRoute
  MaxChanges = 2
  MaxNodes = 1
  Restless = FALSE
SPECIFICATION RadicalSpec
INVARIANT ResetMarkersHonest
CHECK_DEADLOCK FALSE
