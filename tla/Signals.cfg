CONSTANTS
  Sig = {9, 10, 17}
  SigKill = 9
  Ignorable = {17}
  Dispositions <- MCDispositions
  MaxDepth = 2
SPECIFICATION FairSpec
INVARIANTS
  MaskRestored
PROPERTIES
  BlockedNotHandled
  LowestTaken
CHECK_DEADLOCK FALSE
