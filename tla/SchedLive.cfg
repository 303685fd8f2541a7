CONSTANTS
  MaxThreads = 1
  Addr = {a}
  Val = {0, 1}
  NoAddr = NoAddr
  Sig = {1}
  AppSig = {1}
SPECIFICATION FairSpec
INVARIANTS
  StatesExact
  FreeSlotsUnreferenced
  ExitingStaysParked
  WaitResultHonest
PROPERTIES
  ReadyRuns
  ImplementsFutex
  TimedWaitEnds
  SignalEndsWait
