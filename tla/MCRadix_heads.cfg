CONSTANTS
  Rth <- Family
  Width = 3
  MaxVersion = 0
  MaxWalks = 1
  Counts = {0}
  NoNode = NoNode
  NoHead = NoHead
SPECIFICATION Spec
INVARIANT WalksBeginAtHeads
