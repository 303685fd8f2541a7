CONSTANTS
  MaxTyped = 3
  IovLens <- MCIovLens
SPECIFICATION ConsoleFairSpec
INVARIANTS
  InputInOrder
PROPERTIES
  WaitEnds
  InterruptEndsRead
