CONSTANTS
  MaxThreads = 1
  MaxCreated = 3
  NewStates = {2, 3}
SPECIFICATION FairSpec
PROPERTIES
  LockGranted
  ExitCompletes
  JoinReturns
