CONSTANTS
  Names = {n1, n2}
  NoName = NoName
  Cmdlines <- MCCmdlines
  TlsMaxConn = 2
  Fds = {1, 2, 3}
SPECIFICATION NetFairSpec
INVARIANTS
  AnswerNotStale
  ServersByClaim
  TlsOwnsDescriptors
PROPERTIES
  CallReturns
