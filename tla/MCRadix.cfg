CONSTANTS
  Rth <- Family
  Width = 3
  MaxVersion = 1
  MaxWalks = 2
  Counts = {0}
  NoNode = NoNode
  NoHead = NoHead
SPECIFICATION Spec
INVARIANTS TypeOK TreeIsTheHeads VersionsReachUp WalksKeepTheirNodes LookupsAgree
PROPERTIES CleanWalksMissNothing ImplementsTable
