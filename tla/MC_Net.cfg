SPECIFICATION NetSpec
CONSTANTS
  HttpCalls = {c1, c2}
  MaxCandidates = 1
  MaxPieces = 1
  DnsThreadCap = 1
  TcpTable = {1, 2}
  FdLimit = 5
  MaxOthers = 1
  MaxBacklog = 2
  AcceptStreak = 1
  ShedMax = 2
  SendUnits = 2
  PollTasks = {p, q}
  PollFdMax = 3
  PollDelays = {1, 2}
  PollLate = 1
  PollWant = 2
INVARIANTS
  HttpReleasedOnce
  DnsSound
  TcpAccounted
  TcpTimeoutTruthful
  TcpAcceptYields
  PollNeverMisused
PROPERTIES
  HttpCallEnds
  TcpHandlerEnds
  PollImplements
