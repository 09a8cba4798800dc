CONSTANTS
  Route = {n1, n2, n3}
  Walker = {w1, w2}
  NoRoute = NoRoute
  MaxChanges = 3
  MaxNodes = 1
  Restless = FALSE
SPECIFICATION RadicalSpec
SYMMETRY RadicalSymmetry
INVARIANTS
  RadicalTypeOK
  VersionsRise
  MarkersHonest
PROPERTIES
  ImplementsFeed
CHECK_DEADLOCK FALSE
