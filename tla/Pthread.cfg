CONSTANTS
  MaxThreads = 2
  MaxCreated = 3
  NewStates = {2}
SPECIFICATION Spec
INVARIANTS
  StackNotReusedWhileLive
  ListLockExclusive
  CloneSlotsDistinct
