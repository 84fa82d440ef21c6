CONSTANTS
  Ip = {zero, a, b}
  ZeroIp = zero
  Mac = {m1, m2}
  ZeroMac = m0
  NotFound = NotFound
  NoAnswer = NoAnswer
  ARP_CACHE_SIZE = 2
  ARP_TIMEOUT_MS = 2
  MaxTime = 4

SPECIFICATION Spec
INVARIANT TypeOK
INVARIANT UniqueIp
INVARIANT AnswerIsLatest
INVARIANT FreshIsAnswered
PROPERTY ImplementsMap
