CONSTANTS
  s1 = s1
  s2 = s2
  a = a
  b = b
  d = d
  Client = {c1, c2}
  Server = {s1}
  Ip = {zero, static, op, a, b}
  ZeroIp = zero
  StaticIp = static
  OperatorIp = {op}
  Pool <- OnePool
  Anonymous = {}
  Unicasting = {}
  MaxBoots = 1
  Xid <- OwnXids
  IP_BCAST = IP_BCAST
  NoServer = NoServer
  NoClient = NoClient
  Nobody = Nobody
  Fallback = Fallback
  Operator = Operator

SPECIFICATION Spec
INVARIANT TypeOK
INVARIANT LeasesDistinct
