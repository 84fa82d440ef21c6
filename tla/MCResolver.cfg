CONSTANTS
  Caller = {f1, f2}
  n1 = n1
  n2 = n2
  long = long
  a = a
  b = b
  d = d
  Name = {n1, n2, long}
  TooLong = {long}
  Address <- MCAddress
  MaxCalls = 2
  Txid <- OwnTxids
  NoTxid = 0
  NoName = NoName
  ZeroIp = zero

SPECIFICATION FairSpec
INVARIANT TypeOK
INVARIANT AnswersTheQuestion
INVARIANT FailsForAReason
PROPERTY ResolveEnds
