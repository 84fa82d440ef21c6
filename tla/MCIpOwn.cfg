CONSTANTS
  x = x
  y = y
  far = far
  Ip = {zero, x, y, far}
  Station = {zero, y, far}
  ZeroIp = zero
  Mac = {m1, m2}
  ZeroMac = m0
  NotFound = NotFound
  ARP_CACHE_SIZE = 1
  ARP_TIMEOUT_MS = 1
  IP_BCAST = IP_BCAST
  BcastMac = BcastMac
  Configs <- MCConfigs
  ZeroConfig <- Unset
  Main = Main
  Api = {api}
  None = None
  MaxTime = 1

SPECIFICATION Spec
INVARIANT AnswersOnlyOwn
