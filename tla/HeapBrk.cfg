CONSTANTS
  BssStop = 20
  Ends = {36864}
  MapLen = {4096}
  MaxLive = 2
SPECIFICATION Spec
INVARIANT NoOverlap
