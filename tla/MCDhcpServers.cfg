CONSTANTS
  s1 = s1
  s2 = s2
  a = a
  b = b
  d = d
  Client = {c1}
  Server = {s1, s2}
  Ip = {zero, static, op, a, b, d}
  ZeroIp = zero
  StaticIp = static
  OperatorIp = {op, zero}
  Pool <- TwoPools
  Anonymous = {s2}
  Unicasting = {s2}
  MaxBoots = 2
  Xid <- OwnXids
  IP_BCAST = IP_BCAST
  NoServer = NoServer
  NoClient = NoClient
  Nobody = Nobody
  Fallback = Fallback
  Operator = Operator

SPECIFICATION FairSpec
INVARIANT LeaseFromChosenServer
INVARIANT AnnouncedIsCurrent
PROPERTY SettledIsFinal
PROPERTY BootEnds
