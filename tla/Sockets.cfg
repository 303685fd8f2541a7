CONSTANTS
  SockMax = 3
  Threads = {t1, t2}
  Pcbs = {p1, p2, p3}
  NoPcb = NoPcb
  Window = 1
  UdpRxqMax = 1
  SndQueueLen = 1
  Types = {"stream"}
  Ops <- Acceptors
SPECIFICATION Spec
SYMMETRY Symmetry
INVARIANTS
  SlotsOwned
PROPERTY ImplementsBacklog
CHECK_DEADLOCK FALSE
