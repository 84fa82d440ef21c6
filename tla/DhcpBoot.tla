------------------------------ MODULE DhcpBoot ------------------------------
(***************************************************************************)
(* How netd gets its IP configuration: the boot sequence of                *)
(* src/src/main.c, the DHCP client of src/src/dhcp.c, and SET_IP of the    *)
(* API, on several machines of one network segment.                        *)
(*                                                                         *)
(* The servers are outside the code.  They follow the protocol: a server   *)
(* offers addresses of its own pool, answers a request that names it, and  *)
(* acknowledges an address to one client for the term of a lease, after    *)
(* which it may give it to another.  netd takes no notice of the term: it  *)
(* reads no option for it, never renews and never stops using an address;  *)
(* lapsed records the leases that have run out.  The network loses,        *)
(* repeats, delays and reorders messages: what was sent stays available    *)
(* to every receiver for ever.  Replies are broadcast, as the flag in the  *)
(* client's messages asks, unless the server ignores it.                   *)
(*                                                                         *)
(* Mask, gateway and name server are assigned together with the address in *)
(* every place that assigns one; origin stands for the three of them and   *)
(* says who supplied them.                                                 *)
(***************************************************************************)
EXTENDS Integers, FiniteSets

CONSTANTS
  Client,          \* machines running netd
  Server,          \* DHCP servers
  Ip, ZeroIp,
  StaticIp,        \* 10.0.2.15
  OperatorIp,      \* the addresses SET_IP is called with
  Pool,            \* Pool[s]: the addresses server s gives out
  Anonymous,       \* servers that leave out the server identifier option
  Unicasting,      \* servers that reply to the address they offer
  MaxBoots,        \* bound on how often a machine starts
  Xid,             \* Xid[c][n]: what the n-th start of c draws from the clock
  IP_BCAST,
  NoServer,        \* a zero server identifier, and g_net.dhcp_server at first
  NoClient,
  Nobody, Fallback, Operator   \* suppliers of a configuration besides servers

ASSUME DhcpAssumption ==
  /\ {ZeroIp, StaticIp} \cup OperatorIp \subseteq Ip
  /\ IP_BCAST \notin Ip
  /\ Pool \in [Server -> SUBSET (Ip \ {ZeroIp})]
  /\ \A s, t \in Server : s # t => Pool[s] \cap Pool[t] = {}
  /\ Anonymous \subseteq Server /\ Unicasting \subseteq Server
  /\ NoServer \notin Server /\ NoClient \notin Client
  /\ {Nobody, Fallback, Operator} \cap Server = {}
  /\ Fallback # Operator /\ Nobody # Operator
  /\ MaxBoots \in Nat

\* dhcp_start takes the transaction number from the clock; two starts of
\* machines on one segment are assumed to draw different ones.
Starts == 1 .. MaxBoots

ASSUME XidAssumption ==
  \A c, d \in Client, m, n \in Starts :
    Xid[c][m] = Xid[d][n] => c = d /\ m = n

Xids == {Xid[c][n] : c \in Client, n \in Starts}

dhcp_state_t == {"IDLE", "DISCOVER", "REQUEST", "BOUND", "FAILED"}

Origin == Server \cup {Nobody, Fallback, Operator}

Config == [ip : Ip, origin : Origin]

ZeroConfig == [ip |-> ZeroIp, origin |-> Nobody]

\* What clients send; server and ip are options of a REQUEST.
Request == [type : {"DISCOVER", "REQUEST"}, xid : Xids, chaddr : Client,
            ip : Ip, server : Server \cup {NoServer}]

\* What servers send: ip is yiaddr, sid the server identifier option.
Reply == [type : {"OFFER", "ACK", "NAK"}, xid : Xids, chaddr : Client, ip : Ip,
          src : Server, sid : Server \cup {NoServer}, dst : Ip \cup {IP_BCAST}]

VARIABLES
  pc,          \* where md_main is: off, dhcp (its loop), serving, exited
  boots,       \* how often the machine has started
  dhcp_state,  \* g_net.dhcp_state
  dhcp_server, \* g_net.dhcp_server
  cfg,         \* g_net.ip, netmask, gateway, dns
  expired,     \* dhcp_deadline has passed
  announced,   \* the address of the latest gratuitous ARP that was sent
  unsent,      \* the address of the latest one if the card refused it
  requests,    \* everything clients have sent
  replies,     \* everything servers have sent
  lent,        \* the servers' records: to whom an address is acknowledged
  lapsed       \* history: the leases that ran out since they were acknowledged

node == <<pc, boots, dhcp_state, dhcp_server, cfg, expired, announced, unsent>>
vars == <<node, requests, replies, lent, lapsed>>

MyXid(c) == Xid[c][boots[c]]

dhcp_bound(c) == dhcp_state[c] = "BOUND"

Init ==
  /\ pc = [c \in Client |-> "off"]
  /\ boots = [c \in Client |-> 0]
  /\ dhcp_state = [c \in Client |-> "IDLE"]
  /\ dhcp_server = [c \in Client |-> NoServer]
  /\ cfg = [c \in Client |-> ZeroConfig]
  /\ expired = [c \in Client |-> FALSE]
  /\ announced = [c \in Client |-> ZeroIp]
  /\ unsent = [c \in Client |-> ZeroIp]
  /\ requests = {} /\ replies = {}
  /\ lent = [s \in Server |-> [ip \in Ip |-> NoClient]]
  /\ lapsed = {}

-----------------------------------------------------------------------------

\* arp_announce: the card takes the frame or refuses it, and arp_send drops
\* what driver_tx returns.
Announce(c, ip) ==
  \/ /\ announced' = [announced EXCEPT ![c] = ip]
     /\ unsent' = [unsent EXCEPT ![c] = ZeroIp]
  \/ /\ unsent' = [unsent EXCEPT ![c] = ip]
     /\ UNCHANGED announced

-----------------------------------------------------------------------------
(* md_main.                                                                *)

\* The card opens and tells its address; dhcp_start clears the configuration
\* and sends a DISCOVER.
Start(c) ==
  /\ pc[c] = "off" /\ boots[c] < MaxBoots
  /\ pc' = [pc EXCEPT ![c] = "dhcp"]
  /\ boots' = [boots EXCEPT ![c] = @ + 1]
  /\ dhcp_state' = [dhcp_state EXCEPT ![c] = "DISCOVER"]
  /\ cfg' = [cfg EXCEPT ![c] = ZeroConfig]
  /\ requests' = requests \cup
       {[type |-> "DISCOVER", xid |-> MyXid(c)', chaddr |-> c,
         ip |-> ZeroIp, server |-> NoServer]}
  /\ UNCHANGED <<dhcp_server, expired, announced, unsent, replies, lent, lapsed>>

\* driver_open or GET_MAC fails and md_main returns 1.
FailToStart(c) ==
  /\ pc[c] = "off"
  /\ pc' = [pc EXCEPT ![c] = "exited"]
  /\ UNCHANGED <<boots, dhcp_state, dhcp_server, cfg, expired, announced, unsent,
                 requests, replies, lent, lapsed>>

\* The clock reaches dhcp_deadline.
Expire(c) ==
  /\ pc[c] = "dhcp" /\ ~ expired[c]
  /\ expired' = [expired EXCEPT ![c] = TRUE]
  /\ UNCHANGED <<pc, boots, dhcp_state, dhcp_server, cfg, announced, unsent,
                 requests, replies, lent, lapsed>>

\* Faulty: the loop waits for a lease without a deadline.
GiveUp_Never(c) == FALSE /\ UNCHANGED vars

\* Faulty: the fallback address is not announced.
GiveUp_Silent(c) ==
  /\ pc[c] = "dhcp" /\ ~ dhcp_bound(c) /\ expired[c]
  /\ cfg' = [cfg EXCEPT ![c] = [ip |-> StaticIp, origin |-> Fallback]]
  /\ pc' = [pc EXCEPT ![c] = "serving"]
  /\ UNCHANGED <<boots, dhcp_state, dhcp_server, expired, announced, unsent,
                 requests, replies, lent, lapsed>>

\* The loop ends with a lease, or without one: then the static configuration
\* is set and announced, and dhcp_state stays what it is.
GiveUp(c) ==
  /\ pc[c] = "dhcp" /\ ~ dhcp_bound(c) /\ expired[c]
  /\ cfg' = [cfg EXCEPT ![c] = [ip |-> StaticIp, origin |-> Fallback]]
  /\ Announce(c, StaticIp)
  /\ pc' = [pc EXCEPT ![c] = "serving"]
  /\ UNCHANGED <<boots, dhcp_state, dhcp_server, expired,
                 requests, replies, lent, lapsed>>

Proceed(c) ==
  /\ pc[c] = "dhcp" /\ dhcp_bound(c)
  /\ pc' = [pc EXCEPT ![c] = "serving"]
  /\ UNCHANGED <<boots, dhcp_state, dhcp_server, cfg, expired, announced, unsent,
                 requests, replies, lent, lapsed>>

\* The machine stops, whatever it was doing; nothing of g_net survives.
Crash(c) ==
  /\ pc[c] # "off"
  /\ pc' = [pc EXCEPT ![c] = "off"]
  /\ dhcp_state' = [dhcp_state EXCEPT ![c] = "IDLE"]
  /\ dhcp_server' = [dhcp_server EXCEPT ![c] = NoServer]
  /\ cfg' = [cfg EXCEPT ![c] = ZeroConfig]
  /\ expired' = [expired EXCEPT ![c] = FALSE]
  /\ announced' = [announced EXCEPT ![c] = ZeroIp]
  /\ unsent' = [unsent EXCEPT ![c] = ZeroIp]
  /\ UNCHANGED <<boots, requests, replies, lent, lapsed>>

-----------------------------------------------------------------------------
(* rx_once, ip_rx and udp_rx on the way to dhcp_rx.                        *)

Receiving(c) ==
  \/ pc[c] = "dhcp" /\ ~ dhcp_bound(c) /\ ~ expired[c]
  \/ pc[c] = "serving"

\* Faulty: dhcp_rx does not compare the transaction number.
Hears_AnyXid(c, m) ==
  Receiving(c) /\ (cfg[c].ip = ZeroIp \/ m.dst \in {cfg[c].ip, IP_BCAST})

\* The reply reaches dhcp_rx, passes the destination filter of ip_rx, and
\* carries the transaction number of this start.  chaddr is not looked at.
Hears(c, m) ==
  /\ Receiving(c)
  /\ cfg[c].ip = ZeroIp \/ m.dst \in {cfg[c].ip, IP_BCAST}
  /\ m.xid = MyXid(c)

ServerOf(m) == IF m.sid # NoServer THEN m.sid ELSE m.src

RequestFor(c, m) ==
  [type |-> "REQUEST", xid |-> MyXid(c), chaddr |-> c,
   ip |-> m.ip, server |-> ServerOf(m)]

\* Faulty: an offer is taken up in any state but BOUND.
RxOffer_Again(c, m) ==
  /\ m.type = "OFFER" /\ dhcp_state[c] \in {"DISCOVER", "REQUEST"}
  /\ dhcp_server' = [dhcp_server EXCEPT ![c] = ServerOf(m)]
  /\ dhcp_state' = [dhcp_state EXCEPT ![c] = "REQUEST"]
  /\ requests' = requests \cup {RequestFor(c, m)}
  /\ UNCHANGED <<pc, boots, cfg, expired, announced, unsent, replies, lent, lapsed>>

\* The first offer is taken up, and its server asked for its address.
RxOffer(c, m) ==
  /\ m.type = "OFFER" /\ dhcp_state[c] = "DISCOVER"
  /\ dhcp_server' = [dhcp_server EXCEPT ![c] = ServerOf(m)]
  /\ dhcp_state' = [dhcp_state EXCEPT ![c] = "REQUEST"]
  /\ requests' = requests \cup {RequestFor(c, m)}
  /\ UNCHANGED <<pc, boots, cfg, expired, announced, unsent, replies, lent, lapsed>>

\* Faulty: an acknowledgement is taken whatever the state.
RxAck_AnyState(c, m) ==
  /\ m.type = "ACK"
  /\ cfg' = [cfg EXCEPT ![c] = [ip |-> m.ip, origin |-> m.src]]
  /\ dhcp_state' = [dhcp_state EXCEPT ![c] = "BOUND"]
  /\ Announce(c, m.ip)
  /\ UNCHANGED <<pc, boots, dhcp_server, expired, requests, replies, lent, lapsed>>

\* The lease is configured and announced.
RxAck(c, m) ==
  /\ m.type = "ACK" /\ dhcp_state[c] = "REQUEST"
  /\ cfg' = [cfg EXCEPT ![c] = [ip |-> m.ip, origin |-> m.src]]
  /\ dhcp_state' = [dhcp_state EXCEPT ![c] = "BOUND"]
  /\ Announce(c, m.ip)
  /\ UNCHANGED <<pc, boots, dhcp_server, expired, requests, replies, lent, lapsed>>

\* Faulty: the number of the message is stored where a state belongs.
RxNak_MessageType(c, m) ==
  /\ m.type = "NAK"
  /\ dhcp_state' = [dhcp_state EXCEPT ![c] = "NAK"]
  /\ UNCHANGED <<pc, boots, dhcp_server, cfg, expired, announced, unsent,
                 requests, replies, lent, lapsed>>

\* A refusal in any state ends the exchange for good.
RxNak(c, m) ==
  /\ m.type = "NAK"
  /\ dhcp_state' = [dhcp_state EXCEPT ![c] = "FAILED"]
  /\ UNCHANGED <<pc, boots, dhcp_server, cfg, expired, announced, unsent,
                 requests, replies, lent, lapsed>>

dhcp_rx(c) ==
  \E m \in replies : Hears(c, m) /\ (RxOffer(c, m) \/ RxAck(c, m) \/ RxNak(c, m))

\* NETD_CMD_SET_IP, announced unless the address is zero.
SetIp(c, ip) ==
  /\ pc[c] = "serving"
  /\ cfg' = [cfg EXCEPT ![c] = [ip |-> ip, origin |-> Operator]]
  /\ \/ ip # ZeroIp /\ Announce(c, ip)
     \/ ip = ZeroIp /\ UNCHANGED <<announced, unsent>>
  /\ UNCHANGED <<pc, boots, dhcp_state, dhcp_server, expired,
                 requests, replies, lent, lapsed>>

-----------------------------------------------------------------------------
(* The servers.                                                            *)

Answer(s, r, type, ip) ==
  [type |-> type, xid |-> r.xid, chaddr |-> r.chaddr, ip |-> ip, src |-> s,
   sid |-> IF s \in Anonymous THEN NoServer ELSE s,
   dst |-> IF s \in Unicasting /\ type # "NAK" THEN ip ELSE IP_BCAST]

Available(s, ip, c) == ip \in Pool[s] /\ lent[s][ip] \in {NoClient, c}

Offer(s, r) ==
  /\ r.type = "DISCOVER"
  /\ \E ip \in Pool[s] :
       /\ Available(s, ip, r.chaddr)
       /\ replies' = replies \cup {Answer(s, r, "OFFER", ip)}
  /\ UNCHANGED <<node, requests, lent, lapsed>>

Acknowledge(s, r) ==
  /\ r.type = "REQUEST" /\ r.server = s /\ Available(s, r.ip, r.chaddr)
  /\ lent' = [lent EXCEPT ![s][r.ip] = r.chaddr]
  /\ lapsed' = lapsed \ {<<r.chaddr, r.ip>>}
  /\ replies' = replies \cup {Answer(s, r, "ACK", r.ip)}
  /\ UNCHANGED <<node, requests>>

Refuse(s, r) ==
  /\ r.type = "REQUEST" /\ r.server = s
  /\ replies' = replies \cup {Answer(s, r, "NAK", ZeroIp)}
  /\ UNCHANGED <<node, requests, lent, lapsed>>

\* A lease runs out that nobody renewed.
Lapse(s, ip) ==
  /\ lent[s][ip] # NoClient
  /\ lapsed' = lapsed \cup {<<lent[s][ip], ip>>}
  /\ lent' = [lent EXCEPT ![s][ip] = NoClient]
  /\ UNCHANGED <<node, requests, replies>>

-----------------------------------------------------------------------------

NetdStep(c) ==
  \/ Start(c) \/ FailToStart(c) \/ Expire(c) \/ GiveUp(c) \/ Proceed(c)
  \/ Crash(c) \/ dhcp_rx(c)
  \/ \E ip \in OperatorIp : SetIp(c, ip)

ServerStep(s) ==
  \/ \E r \in requests : Offer(s, r) \/ Acknowledge(s, r) \/ Refuse(s, r)
  \/ \E ip \in Pool[s] : Lapse(s, ip)

Next == (\E c \in Client : NetdStep(c)) \/ (\E s \in Server : ServerStep(s))

Spec == Init /\ [][Next]_vars

\* The clock runs and md_main's loop is scheduled; nothing is promised about
\* the network, the servers or the operator.
Fairness == \A c \in Client : WF_vars(Expire(c)) /\ WF_vars(GiveUp(c) \/ Proceed(c))

FairSpec == Spec /\ Fairness

-----------------------------------------------------------------------------

\* The type invariant.
TypeOK ==
  /\ pc \in [Client -> {"off", "dhcp", "serving", "exited"}]
  /\ boots \in [Client -> 0 .. MaxBoots]
  /\ dhcp_state \in [Client -> dhcp_state_t]
  /\ dhcp_server \in [Client -> Server \cup {NoServer}]
  /\ cfg \in [Client -> Config]
  /\ expired \in [Client -> BOOLEAN]
  /\ announced \in [Client -> Ip] /\ unsent \in [Client -> Ip]
  /\ requests \subseteq Request
  /\ replies \subseteq Reply
  /\ lent \in [Server -> [Ip -> Client \cup {NoClient}]]
  /\ lapsed \subseteq Client \X Ip

Leased(c) == cfg[c].origin \in Server

\* Two machines use the same address from DHCP only when the lease of one of
\* them has run out, although every machine hears the replies to the others
\* and dhcp_rx compares nothing but the transaction number.  It cannot be
\* said without the exception: netd uses a lease past its term.
LeasesDistinct ==
  \A c, d \in Client :
    Leased(c) /\ Leased(d) /\ cfg[c].ip = cfg[d].ip =>
      c = d \/ {<<c, cfg[c].ip>>, <<d, cfg[d].ip>>} \cap lapsed # {}

\* The lease in use comes from the server whose offer was taken up, however
\* many servers answered and however late.
LeaseFromChosenServer ==
  \A c \in Client : Leased(c) => cfg[c].origin = dhcp_server[c]

\* The neighbours were last told the address in use, or the card refused the
\* frame that was to tell them of it, which is not tried again: a fallback, a
\* late lease or SET_IP is never configured in silence.
AnnouncedIsCurrent ==
  \A c \in Client :
    cfg[c].ip # ZeroIp => announced[c] = cfg[c].ip \/ unsent[c] = cfg[c].ip

\* A step that leaves the configuration of every settled machine to SET_IP.
LeavesSettled ==
  \A c \in Client :
    dhcp_state[c] \in {"BOUND", "FAILED"} /\ pc[c] = "serving" /\ pc'[c] = "serving" =>
      cfg'[c] = cfg[c] \/ cfg'[c].origin = Operator

\* Once the exchange has ended, with a lease or a refusal, no message changes
\* the configuration of a machine that serves clients: a repeated or late
\* OFFER, ACK or NAK does not undo what SET_IP set.
SettledIsFinal == [][LeavesSettled]_vars

\* Boot never hangs in the DHCP loop, whatever the network does.
BootEnds == \A c \in Client : pc[c] = "dhcp" ~> pc[c] # "dhcp"

\* dhcp.c:178 says of a NAK: "NAK received, retrying".
NakIsRetried ==
  \A c \in Client : dhcp_state[c] = "FAILED" ~> dhcp_state[c] # "FAILED"

=============================================================================
