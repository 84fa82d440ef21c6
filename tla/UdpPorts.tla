------------------------------ MODULE UdpPorts ------------------------------
(***************************************************************************)
(* The table of bound UDP ports, g_net.udp_binds of src/src/udp.c, under   *)
(* API calls from clients and datagrams from the main loop.                *)
(*                                                                         *)
(* A payload is a number, its place in the order of arrival, and two       *)
(* lengths: what the UDP header claims, by which netd goes, and how many   *)
(* bytes came, which netd never compares with the claim.  None of the four *)
(* functions makes a system call, so each is one step.                     *)
(*                                                                         *)
(* A receive that copies more than the reply has room for overruns the     *)
(* stack.  That is undefined in C: sound records it, the table stays as it *)
(* was before that call, and nothing after it is described.                *)
(***************************************************************************)
EXTENDS Integers, FiniteSetsExt

CONSTANTS
  Port,              \* the ports of the instance
  ZeroPort,          \* the port number a zeroed entry holds
  DHCP_PORT_CLIENT,
  DNS_PORT,
  UDP_MAX_BINDS,
  UDP_RXBUF_SIZE,
  Nothing,           \* the latest step was not a client call
  Closed, Empty,     \* a port's mailbox, for the refinement
  ReplyRoom,         \* the bytes of data in netd_udp_recv_rep_t
  Lengths,           \* the payload lengths, 0 for an empty payload
  BufferSizes,       \* what clients ask for as max_len
  MaxDatagrams       \* bound on the datagrams that arrive

\* A reply to a client: its status and, of a udp_recv, the datagram, with the
\* bytes of it that are its own: those beyond were never received with it.
Reply == [status : {0, -1}, id : Nat, len : Nat, own : Nat]

Status(s) == [status |-> s, id |-> 0, len |-> 0, own |-> 0]

ASSUME PortAssumption ==
  /\ {ZeroPort, DHCP_PORT_CLIENT, DNS_PORT} \subseteq Port
  /\ UDP_MAX_BINDS \in Nat \ {0}
  /\ UDP_RXBUF_SIZE \in Nat \ {0}
  /\ ReplyRoom \in Nat \ {0}
  /\ Lengths \subseteq Nat /\ BufferSizes \subseteq Nat
  /\ MaxDatagrams \in Nat
  /\ Nothing \notin Reply
  /\ Closed # Empty /\ {Closed, Empty} \cap [id : Nat, len : Nat, own : Nat] = {}

Slots == 0 .. UDP_MAX_BINDS - 1

\* udp_bind_t; id stands for buf, src_ip and src_port, the data of the
\* datagram that was stored last.
udp_bind_t == [port : Port, used : BOOLEAN, len : 0 .. UDP_RXBUF_SIZE,
               id : Nat, own : Nat]

Zeroed == [port |-> ZeroPort, used |-> FALSE, len |-> 0, id |-> 0, own |-> 0]

\* A slot bound to p that holds len bytes for datagram id, own of them its.
InUse(p, id, len, own) ==
  [port |-> p, used |-> TRUE, len |-> len, id |-> id, own |-> own]

Least(m, n) == IF m < n THEN m ELSE n

Bound(b, p) == {i \in Slots : b[i].used /\ b[i].port = p}

Unused(b) == {i \in Slots : ~ b[i].used}

-----------------------------------------------------------------------------
(* Faulty variants; see ArpTable.                                          *)

\* The "already bound" test is missing.
BindTable_Again(b, p) ==
  IF Unused(b) = {} THEN b
  ELSE [b EXCEPT ![Min(Unused(b))] = InUse(p, 0, 0, 0)]

\* The slot is claimed without clearing it.
BindTable_NoMemset(b, p) ==
  IF Bound(b, p) # {} \/ Unused(b) = {} THEN b
  ELSE [b EXCEPT ![Min(Unused(b))].port = p, ![Min(Unused(b))].used = TRUE]

\* The payload is not cut to the size of the buffer.
StoreTable_NoCap(b, p, id, len, came) ==
  IF Bound(b, p) = {} THEN b
  ELSE [b EXCEPT ![Min(Bound(b, p))] = InUse(p, id, len, Least(came, len))]

\* The datagram stays in the buffer after it was received.
RecvTable_Keep(b, p) == b
-----------------------------------------------------------------------------

\* The table after udp_bind(p).
BindTable(b, p) ==
  IF Bound(b, p) # {} \/ Unused(b) = {} THEN b
  ELSE [b EXCEPT ![Min(Unused(b))] = InUse(p, 0, 0, 0)]

\* What udp_bind(p) returns.
BindStatus(b, p) == IF Bound(b, p) = {} /\ Unused(b) = {} THEN -1 ELSE 0

\* The table after udp_unbind(p), which clears nothing but used.
UnbindTable(b, p) ==
  IF Bound(b, p) = {} THEN b ELSE [b EXCEPT ![Min(Bound(b, p))].used = FALSE]

\* The table after udp_rx stored, for port p, a payload said to be of len
\* bytes of which came were received.  It copies as many as it was told of.
StoreTable(b, p, id, len, came) ==
  IF Bound(b, p) = {} THEN b
  ELSE LET n == Least(len, UDP_RXBUF_SIZE)
       IN  [b EXCEPT ![Min(Bound(b, p))] = InUse(p, id, n, Least(came, n))]

\* The slots udp_recv(p) may take a datagram from.
Waiting(b, p) == {i \in Bound(b, p) : b[i].len > 0}

RecvTable(b, p) ==
  IF Waiting(b, p) = {} THEN b ELSE [b EXCEPT ![Min(Waiting(b, p))].len = 0]

\* What the reply holds when at most room bytes are copied into it.
RecvResult(b, p, room) ==
  IF Waiting(b, p) = {} THEN Status(-1)
  ELSE LET e == b[Min(Waiting(b, p))]
       IN  [status |-> 0, id |-> e.id,
            len |-> Least(e.len, room), own |-> Least(e.own, room)]

\* The bytes api_invoke lets udp_recv copy: a max_len of 0 asks for all
\* the reply has room for, and no other is compared with that room.
Asked(max_len) == IF max_len = 0 THEN ReplyRoom ELSE max_len

-----------------------------------------------------------------------------

VARIABLES
  binds,    \* g_net.udp_binds
  arrived,  \* datagrams so far, which numbers them
  result,   \* what the latest client call returned
  lastGot,  \* history: the number of the datagram last received on a port
  bornAt,   \* history: arrived when the port was last opened
  sound     \* FALSE once a receive has overrun its reply

vars == <<binds, arrived, result, lastGot, bornAt, sound>>

\* The table clients find: zeroed by md_main, then dhcp_start bound its port.
Init ==
  /\ binds = BindTable([i \in Slots |-> Zeroed], DHCP_PORT_CLIENT)
  /\ arrived = 0
  /\ result = Nothing
  /\ lastGot = [p \in Port |-> 0]
  /\ bornAt = [p \in Port |-> 0]
  /\ sound = TRUE

\* NETD_CMD_UDP_BIND.
Bind(p) ==
  /\ sound
  /\ binds' = BindTable(binds, p)
  /\ result' = Status(BindStatus(binds, p))
  /\ bornAt' = IF Bound(binds, p) = {} THEN [bornAt EXCEPT ![p] = arrived] ELSE bornAt
  /\ UNCHANGED <<arrived, lastGot, sound>>

\* NETD_CMD_UDP_UNBIND.
Unbind(p) ==
  /\ sound
  /\ binds' = UnbindTable(binds, p)
  /\ result' = Status(0)
  /\ UNCHANGED <<arrived, lastGot, bornAt, sound>>

\* udp_rx hands what is for the DHCP client or from a name server to dhcp_rx
\* or dns_rx, drops an empty payload, and looks the rest up in the table.
ForMailbox(src, dst, len) ==
  len > 0 /\ dst # DHCP_PORT_CLIENT /\ src # DNS_PORT

\* udp_rx, for a payload said to be of len bytes of which came were received.
Arrive(src, dst, len, came) ==
  /\ sound /\ arrived < MaxDatagrams
  /\ arrived' = arrived + 1
  /\ binds' = IF ForMailbox(src, dst, len)
              THEN StoreTable(binds, dst, arrived + 1, len, came) ELSE binds
  /\ result' = Nothing
  /\ UNCHANGED <<lastGot, bornAt, sound>>

\* NETD_CMD_UDP_RECV, when what is copied fits into the reply.
Recv(p, max_len) ==
  LET got == RecvResult(binds, p, Asked(max_len))
  IN  /\ sound /\ got.len <= ReplyRoom
      /\ binds' = RecvTable(binds, p)
      /\ result' = got
      /\ lastGot' = IF Waiting(binds, p) = {} THEN lastGot
                    ELSE [lastGot EXCEPT ![p] = got.id]
      /\ UNCHANGED <<arrived, bornAt, sound>>

\* NETD_CMD_UDP_RECV of a client that asks for more than a reply holds, when
\* that much waits: memcpy writes past the end of rep.
Overrun(p, max_len) ==
  /\ sound /\ RecvResult(binds, p, Asked(max_len)).len > ReplyRoom
  /\ sound' = FALSE
  /\ UNCHANGED <<binds, arrived, result, lastGot, bornAt>>

Next ==
  \/ \E p \in Port : \/ Bind(p)
                     \/ Unbind(p)
                     \/ \E max \in BufferSizes : Recv(p, max) \/ Overrun(p, max)
  \/ \E src, dst \in Port, len, came \in Lengths : Arrive(src, dst, len, came)

Spec == Init /\ [][Next]_vars

-----------------------------------------------------------------------------

\* The type invariant; len never exceeds the buffer it counts bytes of.
TypeOK ==
  /\ binds \in [Slots -> udp_bind_t]
  /\ arrived \in 0 .. MaxDatagrams
  /\ result \in {Nothing} \cup Reply
  /\ lastGot \in [Port -> Nat] /\ bornAt \in [Port -> Nat]
  /\ sound \in BOOLEAN

\* No port is bound in two slots: udp_unbind would leave the second one
\* behind, open, to a client that has closed the port.
UniquePort ==
  \A i, j \in Slots :
    binds[i].used /\ binds[j].used /\ binds[i].port = binds[j].port => i = j

\* A datagram waiting on a port is newer than every datagram received there
\* before, and came after the port was opened: none is received twice, none
\* out of order, and none by a client that bound the port after it came.
WaitingIsNew ==
  \A i \in Slots : binds[i].used /\ binds[i].len > 0 =>
    /\ binds[i].id > lastGot[binds[i].port]
    /\ binds[i].id > bornAt[binds[i].port]
    /\ binds[i].id <= arrived

-----------------------------------------------------------------------------

\* The table read as a mailbox for each port.
BoxOf(p) ==
  CASE Bound(binds, p) = {} -> Closed
    [] Bound(binds, p) # {} /\ Waiting(binds, p) = {} -> Empty
    [] OTHER -> LET e == binds[Min(Waiting(binds, p))]
                IN  [id |-> e.id, len |-> e.len, own |-> e.own]

Boxes == INSTANCE PortMailboxes WITH
           box <- [p \in Port |-> BoxOf(p)],
           Capacity <- UDP_MAX_BINDS, BoxSize <- UDP_RXBUF_SIZE,
           ResolverPort <- DNS_PORT, LeasePort <- DHCP_PORT_CLIENT,
           AlwaysOpen <- DHCP_PORT_CLIENT

\* The table of slots with its searches implements one mailbox per port.
ImplementsMailboxes == Boxes!Spec

=============================================================================
