CONSTANTS
  SockMax = 2
  Threads = {t1, t2}
  Pcbs = {p1, p2}
  NoPcb = NoPcb
  Window = 1
  UdpRxqMax = 1
  SndQueueLen = 1
  Types = {"stream", "dgram"}
  Ops <- Everything
SPECIFICATION FairSpec
INVARIANTS
  PcbAgrees
  WindowExact
  PollHonest
PROPERTY SettledCallEnds
CHECK_DEADLOCK FALSE
