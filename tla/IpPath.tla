------------------------------- MODULE IpPath -------------------------------
(***************************************************************************)
(* How frames leave and enter netd: ip_tx and ip_rx of src/src/ip.c with   *)
(* the ARP protocol of src/src/arp.c and the echo responder of             *)
(* src/src/icmp.c, over the cache of ArpTable.                             *)
(*                                                                         *)
(* Two kinds of flow share all of it: main, which handles received frames, *)
(* and API invocations, which send datagrams, change the configuration and *)
(* handle received frames too while dns_resolve waits.  Control changes    *)
(* hands in system calls that can block.  The only one with work left      *)
(* after it is the ARP request that ip_tx sends when it cannot resolve the *)
(* next hop: what ip_tx does before and after it are two steps, everything *)
(* else is one.                                                            *)
(*                                                                         *)
(* A netmask is the set of addresses it puts on the link.                  *)
(***************************************************************************)
EXTENDS ArpTable

CONSTANTS
  Station,        \* the addresses that stations on the link send from and to
  IP_BCAST,       \* 255.255.255.255
  BcastMac,       \* ff:ff:ff:ff:ff:ff
  Configs,        \* the configurations DHCP, the fallback or SET_IP may set
  ZeroConfig,     \* the configuration before any is set
  Main, Api,      \* the main loop; the API invocations that may overlap
  None,           \* no frame, nothing pending
  MaxTime         \* bound on the clock

Config == [ip : Ip, link : SUBSET (Ip \cup {IP_BCAST}), gateway : Ip]

ASSUME IpAssumption ==
  /\ Station \subseteq Ip
  /\ IP_BCAST \notin Ip
  /\ BcastMac \notin Mac \cup {ZeroMac, NotFound}
  /\ Configs \subseteq Config /\ ZeroConfig \in Configs
  /\ ZeroConfig.ip = ZeroIp /\ ZeroConfig.gateway = ZeroIp
  /\ Main \notin Api
  /\ MaxTime \in Nat
  /\ NotFound \notin [mac : Mac \cup {ZeroMac}, ts : Nat]
  /\ None \notin [src : Ip, mac : Mac, near : BOOLEAN, own : BOOLEAN]

Flow == Api \cup {Main}

Destination == Ip \cup {IP_BCAST}

VARIABLES
  cfg,      \* g_net.ip, netmask, gateway
  cache,    \* g_net.arp_cache
  now,      \* time_ms()
  pending,  \* per flow: what ip_tx holds during its ARP request, or None
  out,      \* the frame handed to the driver in the latest step
  heard,    \* history: what was last learned of each address since a flush
  asked     \* history: per flow, the echo request it answers

vars == <<cfg, cache, now, pending, out, heard, asked>>

Init ==
  /\ cfg = ZeroConfig
  /\ cache = ZeroedCache
  /\ now = 0
  /\ pending = [f \in Flow |-> None]
  /\ out = None
  /\ heard = [ip \in Ip |-> NotFound]
  /\ asked = [f \in Flow |-> None]

Idle(f) == pending[f] = None

\* History: a request is forgotten one step after its flow is done with it.
KeepAsked == asked' = [f \in Flow |-> IF Idle(f) THEN None ELSE asked[f]]

-----------------------------------------------------------------------------
(* ip_tx.                                                                  *)

\* Faulty: the gateway is used for every destination but the link's own.
NextHop_Inverted(c, dst) ==
  IF c.gateway # ZeroIp /\ dst \in c.link THEN c.gateway ELSE dst

\* The gateway for what is not on the link, when there is one.
NextHop(c, dst) ==
  IF c.gateway # ZeroIp /\ dst \notin c.link THEN c.gateway ELSE dst

IpFrame(type, mac, src, dst) ==
  [type |-> type, mac |-> mac, src |-> src, dst |-> dst]

\* The frame is built and handed to the driver, with the address of the
\* moment; its identification, a number that nothing reads, is left out.
Emit(type, mac, dst) == out' = IpFrame(type, mac, cfg.ip, dst)

\* ip_tx(dst) in flow f with cache c, up to its end or to its ARP request.
ip_tx(f, type, dst, c) ==
  LET hop == NextHop(cfg, dst)
      mac == LookupMac(c, hop, now)
  IN  \/ /\ dst = IP_BCAST
         /\ cache' = c
         /\ Emit(type, BcastMac, dst)
         /\ UNCHANGED pending
      \/ /\ dst # IP_BCAST /\ mac # NotFound
         /\ cache' = AfterLookup(c, hop, now)
         /\ Emit(type, mac, dst)
         /\ UNCHANGED pending
      \/ /\ dst # IP_BCAST /\ mac = NotFound
         /\ cache' = AfterLookup(c, hop, now)
         /\ out' = IpFrame("request", BcastMac, cfg.ip, hop)
         /\ pending' = [pending EXCEPT ![f] = [type |-> type, dst |-> dst]]

\* Faulty: the address is the one the flow found when ip_tx began.
Resume_OldSource(f) ==
  /\ ~ Idle(f)
  /\ \E c \in Configs :
       /\ out' = IpFrame(pending[f].type, BcastMac, c.ip, pending[f].dst)
  /\ pending' = [pending EXCEPT ![f] = None]
  /\ KeepAsked
  /\ UNCHANGED <<cfg, cache, now, heard>>

\* After its ARP request ip_tx sends the datagram to everyone, whatever was
\* learned or configured meanwhile.
Resume(f) ==
  /\ ~ Idle(f)
  /\ Emit(pending[f].type, BcastMac, pending[f].dst)
  /\ pending' = [pending EXCEPT ![f] = None]
  /\ KeepAsked
  /\ UNCHANGED <<cfg, cache, now, heard>>

\* NETD_CMD_UDP_SEND and the other senders of the API.
Send(f, dst) ==
  /\ f \in Api /\ Idle(f)
  /\ ip_tx(f, "data", dst, cache)
  /\ KeepAsked
  /\ UNCHANGED <<cfg, now, heard>>

-----------------------------------------------------------------------------
(* Received frames: rx_once or dns_resolve's loop, arp_rx, ip_rx, icmp_rx. *)

\* An ARP packet teaches the sender's mapping unless its address is zero; a
\* request for our address is answered.
arp_rx(f, op, src, mac, dst) ==
  /\ Idle(f)
  /\ \/ /\ src # ZeroIp
        /\ cache' = ArpLearn(cache, src, mac, now)
        /\ heard' = [heard EXCEPT ![src] = [mac |-> mac, ts |-> now]]
     \/ src = ZeroIp /\ UNCHANGED <<cache, heard>>
  /\ out' = IF op = "request" /\ dst = cfg.ip /\ cfg.ip # ZeroIp
            THEN IpFrame("reply", mac, cfg.ip, src) ELSE None
  /\ KeepAsked
  /\ UNCHANGED <<cfg, now, pending>>

\* ip_rx drops what is for another host, once netd has an address.
Accepts(dst) == cfg.ip = ZeroIp \/ dst \in {cfg.ip, IP_BCAST}

\* A datagram is not for this host: nothing happens.
ip_rx_drop(f, src, mac, dst) ==
  /\ Idle(f) /\ ~ Accepts(dst)
  /\ out' = None
  /\ KeepAsked
  /\ UNCHANGED <<cfg, cache, now, pending, heard>>

\* A datagram that needs no answer, with its sender's mapping.
ip_rx_data(f, src, mac, dst) ==
  /\ Idle(f) /\ Accepts(dst)
  /\ cache' = ArpLearn(cache, src, mac, now)
  /\ heard' = [heard EXCEPT ![src] = [mac |-> mac, ts |-> now]]
  /\ out' = None
  /\ KeepAsked
  /\ UNCHANGED <<cfg, now, pending>>

\* History: what a flow that answers was asked.
EchoRequest(src, mac, dst) ==
  [src |-> src, mac |-> mac, near |-> NextHop(cfg, src) = src,
   own |-> dst \in {cfg.ip, IP_BCAST}]

\* Faulty: the answer is sent before the sender's mapping is learned.
ip_rx_echo_LearnLate(f, src, mac, dst) ==
  /\ Idle(f) /\ Accepts(dst)
  /\ heard' = [heard EXCEPT ![src] = [mac |-> mac, ts |-> now]]
  /\ asked' = [g \in Flow |->
       IF g = f THEN EchoRequest(src, mac, dst)
       ELSE IF Idle(g) THEN None ELSE asked[g]]
  /\ ip_tx(f, "echo", src, cache)
  /\ UNCHANGED <<cfg, now>>

\* An echo request is answered to its sender.
ip_rx_echo(f, src, mac, dst) ==
  /\ Idle(f) /\ Accepts(dst)
  /\ heard' = [heard EXCEPT ![src] = [mac |-> mac, ts |-> now]]
  /\ asked' = [g \in Flow |->
       IF g = f THEN EchoRequest(src, mac, dst)
       ELSE IF Idle(g) THEN None ELSE asked[g]]
  /\ ip_tx(f, "echo", src, ArpLearn(cache, src, mac, now))
  /\ UNCHANGED <<cfg, now>>

-----------------------------------------------------------------------------
(* Configuration, flush, time.                                             *)

\* SET_IP, or a DHCP lease in either kind of flow, or the fallback: assigned
\* and, unless the address is zero, announced.
Configure(f, c) ==
  /\ Idle(f)
  /\ cfg' = c
  /\ out' = IF c.ip # ZeroIp THEN IpFrame("request", BcastMac, c.ip, c.ip) ELSE None
  /\ KeepAsked
  /\ UNCHANGED <<cache, now, pending, heard>>

\* NETD_CMD_ARP_FLUSH.
Flush(f) ==
  /\ f \in Api /\ Idle(f)
  /\ cache' = ZeroedCache
  /\ heard' = [ip \in Ip |-> NotFound]
  /\ out' = None
  /\ KeepAsked
  /\ UNCHANGED <<cfg, now, pending>>

Tick ==
  /\ now < MaxTime
  /\ now' = now + 1
  /\ out' = None
  /\ KeepAsked
  /\ UNCHANGED <<cfg, cache, pending, heard>>

Receive(f) ==
  \E src \in Station, mac \in Mac, dst \in Destination :
    \/ \E op \in {"request", "reply"} : dst # IP_BCAST /\ arp_rx(f, op, src, mac, dst)
    \/ ip_rx_drop(f, src, mac, dst)
    \/ ip_rx_data(f, src, mac, dst)
    \/ ip_rx_echo(f, src, mac, dst)

Next ==
  \/ \E f \in Flow :
       \/ Receive(f)
       \/ Resume(f)
       \/ Flush(f)
       \/ \E dst \in Station \cup {IP_BCAST} : Send(f, dst)
       \/ \E c \in Configs : Configure(f, c)
  \/ Tick

Spec == Init /\ [][Next]_vars

-----------------------------------------------------------------------------

IsDatagram == out # None /\ out.type \in {"data", "echo"}

\* The station with this hardware address is the one heard last, and lately
\* enough, under address ip.
HeardAs(ip, mac) ==
  heard[ip] # NotFound /\ heard[ip].mac = mac /\ now - heard[ip].ts < ARP_TIMEOUT_MS

\* A datagram sent to one station only goes, when its destination is on the
\* link or there is no gateway, to the station last heard under that address,
\* and otherwise to the one last heard under the gateway's, by the
\* configuration in force, although configuration and cache change while
\* ip_tx waits.
UnicastIsResolved ==
  IsDatagram /\ out.mac # BcastMac =>
    IF out.dst \in cfg.link \/ cfg.gateway = ZeroIp
    THEN HeardAs(out.dst, out.mac) ELSE HeardAs(cfg.gateway, out.mac)

\* No frame of any kind claims an address the host no longer has.
SourceIsCurrent == out # None => out.src = cfg.ip

\* The flow whose echo reply has just gone out.
Answers(f) == Idle(f) /\ asked[f] # None

\* An echo request of a host on the link is answered to the very station it
\* came from, never to everyone and never to another flow's destination.
EchoAnswersSender ==
  out # None /\ out.type = "echo" =>
    \E f \in Flow : /\ Answers(f)
                    /\ out.dst = asked[f].src
                    /\ asked[f].near => out.mac = asked[f].mac

\* ip.c:64 says of ip_rx: "drop if not for us and not broadcast".
AnswersOnlyOwn ==
  out # None /\ out.type = "echo" => \E f \in Flow : Answers(f) /\ asked[f].own

=============================================================================
