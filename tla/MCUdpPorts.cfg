CONSTANTS
  Port = {zero, dhcpc, dns}
  ZeroPort = zero
  DHCP_PORT_CLIENT = dhcpc
  DNS_PORT = dns
  UDP_MAX_BINDS = 2
  UDP_RXBUF_SIZE = 3
  ReplyRoom = 2
  Nothing = Nothing
  Closed = Closed
  Empty = Empty
  Lengths = {0, 1, 4}
  BufferSizes = {0, 1, 3}
  MaxDatagrams = 2

SPECIFICATION Spec
INVARIANT TypeOK
INVARIANT UniquePort
INVARIANT WaitingIsNew
PROPERTY ImplementsMailboxes

\* A run ends at the first receive that overruns its reply.
CHECK_DEADLOCK FALSE
