CONSTANTS
  BssStop = 20
  Ends = {16, 36864, 49152}
  MapLen = {12288, 16000}
  MaxLive = 3
  MaxModules = 2
SPECIFICATION ProgramSpec
INVARIANTS
  NoOverlap
  Coalesced
  InWindow
  LoaderGivesBack
CHECK_DEADLOCK FALSE
