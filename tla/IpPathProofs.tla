---------------------------- MODULE IpPathProofs ----------------------------
(***************************************************************************)
(* Proofs about IpPath for every table size, timeout, set of addresses and *)
(* number of overlapping invocations.  The properties speak of the frame   *)
(* of the latest step; Inv adds to them what makes that frame right: the   *)
(* cache agrees with what was heard (Agrees), and a flow that waits inside *)
(* ip_tx with an echo reply still answers the request it was asked, of a   *)
(* station behind the gateway (WaitingReply).                              *)
(***************************************************************************)
EXTENDS IpPath, WellFoundedInduction, TLAPS

(* What the functions of ArpTable do to a cache that agrees with what was  *)
(* heard: the lemmas of ArpCacheProofs, which is about other variables,    *)
(* and two more (LearnTyped, LearnedIsFound).                              *)

\* A non-empty set of naturals has a least element, and Min is that element.
LEMMA MinOfNats ==
  ASSUME NEW S \in SUBSET Nat, S # {}
  PROVE  Min(S) \in S /\ \A y \in S : Min(S) <= y
<1> DEFINE Less == {ss \in Nat \X Nat : ss[1] < ss[2]}
<1>1. IsWellFoundedOn(Less, Nat)
  BY NatLessThanWellFounded DEF OpToRel
<1>. HIDE DEF Less
<1>2. \E x \in S : \A y \in S : x <= y
  <2>1. PICK x \in S : \A y \in S : ~ (<<y, x>> \in Less)
    BY <1>1, WFMin, Zenon
  <2>2. \A y \in S : ~ (y < x)
    BY <2>1 DEF Less
  <2>. QED BY <2>2
<1>. QED BY <1>2 DEF Min

\* A cache agrees with the news h: no address is in two slots, and a valid
\* slot holds exactly what was heard last of its address.
Agrees(c, h) ==
  /\ \A i, j \in Slots : c[i].valid /\ c[j].valid /\ c[i].ip = c[j].ip => i = j
  /\ \A i \in Slots : c[i].valid => h[c[i].ip] = [mac |-> c[i].mac, ts |-> c[i].ts]

\* Min of a non-empty set of slots is one of them (the first).
LEMMA MinOfSlots ==
  ASSUME NEW S \in SUBSET Slots, S # {}
  PROVE  Min(S) \in S
BY MinOfNats, ArpAssumption DEF Slots

\* arp_learn always finds a slot: the one that already holds the address, or
\* a free one, or one of the oldest.
LEMMA LearnSlotFound ==
  ASSUME NEW c \in [Slots -> arp_entry_t], NEW ip
  PROVE  /\ LearnSlot(c, ip) \in Slots
         /\ Holding(c, ip) # {} => LearnSlot(c, ip) \in Holding(c, ip)
         /\ Holding(c, ip) = {} /\ Free(c) # {} => LearnSlot(c, ip) \in Free(c)
         /\ Holding(c, ip) = {} /\ Free(c) = {} => LearnSlot(c, ip) \in Oldest(c)
<1>1. Holding(c, ip) \subseteq Slots /\ Free(c) \subseteq Slots /\ Oldest(c) \subseteq Slots
  BY DEF Holding, Free, Oldest
<1>2. Oldest(c) # {}
  <2> DEFINE Stamps == {c[j].ts : j \in Slots}
  <2>1. Stamps \in SUBSET Nat /\ Stamps # {}
    BY ArpAssumption DEF arp_entry_t, Slots
  <2>2. PICK i \in Slots : c[i].ts = Min(Stamps)
    BY <2>1, MinOfNats
  <2>3. \A j \in Slots : c[i].ts <= c[j].ts
    BY <2>1, <2>2, MinOfNats
  <2>. QED BY <2>3 DEF Oldest
<1>. QED BY <1>1, <1>2, MinOfSlots DEF LearnSlot

\* The least fresh slot, where arp_lookup stops, holds the address.
LEMMA FreshSlotFound ==
  ASSUME NEW c, NEW ip, NEW t, Fresh(c, ip, t) # {}
  PROVE  /\ Min(Fresh(c, ip, t)) \in Slots
         /\ c[Min(Fresh(c, ip, t))].valid
         /\ c[Min(Fresh(c, ip, t))].ip = ip
         /\ t - c[Min(Fresh(c, ip, t))].ts < ARP_TIMEOUT_MS
BY MinOfSlots DEF Fresh, Holding

\* arp_learn keeps the type of the array.
LEMMA LearnTyped ==
  ASSUME NEW c \in [Slots -> arp_entry_t], NEW ip \in Ip, NEW mac \in Mac, NEW t \in Nat
  PROVE  ArpLearn(c, ip, mac, t) \in [Slots -> arp_entry_t]
BY LearnSlotFound DEF ArpLearn, arp_entry_t

\* arp_lookup only makes entries invalid.
LEMMA LookupOnlyDrops ==
  ASSUME NEW c \in [Slots -> arp_entry_t], NEW ip, NEW t
  PROVE  /\ AfterLookup(c, ip, t) \in [Slots -> arp_entry_t]
         /\ \A i \in Slots : /\ AfterLookup(c, ip, t)[i].ip = c[i].ip
                             /\ AfterLookup(c, ip, t)[i].mac = c[i].mac
                             /\ AfterLookup(c, ip, t)[i].ts = c[i].ts
                             /\ AfterLookup(c, ip, t)[i].valid => c[i].valid
BY DEF AfterLookup, arp_entry_t

\* arp_learn keeps the cache in agreement with the news: the slot it chooses
\* is the only one that could hold the address.
LEMMA LearnAgrees ==
  ASSUME NEW c \in [Slots -> arp_entry_t], NEW ip \in Ip, NEW mac \in Mac, NEW t \in Nat,
         NEW h, DOMAIN h = Ip, Agrees(c, h)
  PROVE  Agrees(ArpLearn(c, ip, mac, t), [h EXCEPT ![ip] = [mac |-> mac, ts |-> t]])
<1> DEFINE s == LearnSlot(c, ip)
           d == ArpLearn(c, ip, mac, t)
           g == [h EXCEPT ![ip] = [mac |-> mac, ts |-> t]]
<1>1. /\ s \in Slots
      /\ Holding(c, ip) # {} => s \in Holding(c, ip)
  BY LearnSlotFound
<1>2. d = [c EXCEPT ![s] = [ip |-> ip, mac |-> mac, ts |-> t, valid |-> TRUE]]
  BY DEF ArpLearn
<1>. HIDE DEF s, d
<1>3. /\ d[s] = [ip |-> ip, mac |-> mac, ts |-> t, valid |-> TRUE]
      /\ \A i \in Slots \ {s} : d[i] = c[i]
  BY <1>1, <1>2
<1>4. \A i \in Slots \ {s} : c[i].valid => c[i].ip # ip
  \* such a slot would hold ip, so s would hold it too: two slots, one address
  BY <1>1 DEF Holding, Agrees
<1>5. g[ip] = [mac |-> mac, ts |-> t] /\ \A j \in Ip \ {ip} : g[j] = h[j]
  OBVIOUS
<1>6. ASSUME NEW i \in Slots, NEW j \in Slots, d[i].valid, d[j].valid, d[i].ip = d[j].ip
      PROVE  i = j
  BY <1>3, <1>4, <1>6 DEF Agrees
<1>7. ASSUME NEW i \in Slots, d[i].valid
      PROVE  g[d[i].ip] = [mac |-> d[i].mac, ts |-> d[i].ts]
  <2>1. CASE i = s
    BY <2>1, <1>3, <1>5
  <2>2. CASE i # s
    <3>1. d[i] = c[i] /\ c[i].ip \in Ip \ {ip}
      BY <2>2, <1>3, <1>4, <1>7 DEF arp_entry_t
    <3>. QED BY <3>1, <1>5, <1>7 DEF Agrees
  <2>. QED BY <2>1, <2>2
<1>. QED BY <1>6, <1>7 DEF Agrees, d

\* arp_lookup keeps the cache in agreement with the news.
LEMMA LookupAgrees ==
  ASSUME NEW c \in [Slots -> arp_entry_t], NEW ip, NEW t, NEW h, Agrees(c, h)
  PROVE  Agrees(AfterLookup(c, ip, t), h)
BY LookupOnlyDrops DEF Agrees

\* What arp_lookup finds is the news of the address, not too old.
LEMMA LookupFindsNews ==
  ASSUME NEW c \in [Slots -> arp_entry_t], NEW ip, NEW t, NEW h, Agrees(c, h),
         LookupMac(c, ip, t) # NotFound
  PROVE  /\ h[ip] \in [mac : Mac \cup {ZeroMac}, ts : Nat]
         /\ h[ip].mac = LookupMac(c, ip, t)
         /\ t - h[ip].ts < ARP_TIMEOUT_MS
<1>1. Fresh(c, ip, t) # {} /\ LookupMac(c, ip, t) = c[Min(Fresh(c, ip, t))].mac
  BY DEF LookupMac
<1>2. PICK i \in Slots : /\ c[i].valid /\ c[i].ip = ip
                         /\ LookupMac(c, ip, t) = c[i].mac
                         /\ t - c[i].ts < ARP_TIMEOUT_MS
  BY <1>1, FreshSlotFound
<1>3. h[ip] = [mac |-> c[i].mac, ts |-> c[i].ts]
  BY <1>2 DEF Agrees
<1>. QED BY <1>2, <1>3 DEF arp_entry_t

\* What has just been learned is found.
LEMMA LearnedIsFound ==
  ASSUME NEW c \in [Slots -> arp_entry_t], NEW ip \in Ip, NEW mac \in Mac, NEW t \in Nat,
         NEW h, DOMAIN h = Ip, Agrees(c, h)
  PROVE  LookupMac(ArpLearn(c, ip, mac, t), ip, t) = mac
<1> DEFINE s == LearnSlot(c, ip)
           d == ArpLearn(c, ip, mac, t)
           g == [h EXCEPT ![ip] = [mac |-> mac, ts |-> t]]
<1>1. s \in Slots /\ d[s] = [ip |-> ip, mac |-> mac, ts |-> t, valid |-> TRUE]
  BY LearnSlotFound DEF ArpLearn
<1>2. s \in Fresh(d, ip, t)
  BY <1>1, ArpAssumption DEF Fresh, Holding
<1>3. /\ Min(Fresh(d, ip, t)) \in Slots
      /\ d[Min(Fresh(d, ip, t))].valid /\ d[Min(Fresh(d, ip, t))].ip = ip
  BY <1>2, FreshSlotFound
<1>4. Agrees(d, g)
  BY LearnAgrees
<1>. HIDE DEF s, d, g
<1>5. Min(Fresh(d, ip, t)) = s
  BY <1>1, <1>3, <1>4 DEF Agrees
<1>6. LookupMac(d, ip, t) = mac
  BY <1>1, <1>2, <1>5 DEF LookupMac
<1>. QED BY <1>6 DEF d

-----------------------------------------------------------------------------
(* The invariant.                                                          *)

News == [mac : Mac \cup {ZeroMac}, ts : Nat]

Waiting == [type : {"data", "echo"}, dst : Destination]

Request == [src : Ip, mac : Mac, near : BOOLEAN, own : BOOLEAN]

Typed ==
  /\ cfg \in Configs
  /\ cache \in [Slots -> arp_entry_t]
  /\ now \in Nat
  /\ pending \in [Flow -> {None} \cup Waiting]
  /\ heard \in [Ip -> {NotFound} \cup News]
  /\ asked \in [Flow -> {None} \cup Request]

\* A reply waits only for a sender that is not on the link: one that is was
\* learned in the same call, and its answer needs no ARP request.
WaitingReply ==
  \A f \in Flow : ~ Idle(f) /\ pending[f].type = "echo" =>
    /\ asked[f] # None
    /\ asked[f].src = pending[f].dst
    /\ ~ asked[f].near

\* What the frame of a step must be.
FrameRight == UnicastIsResolved /\ SourceIsCurrent /\ EchoAnswersSender

State == Typed /\ Agrees(cache, heard) /\ WaitingReply

Inv == State /\ FrameRight

USE ArpAssumption, IpAssumption

-----------------------------------------------------------------------------
(* Steps that leave out nothing, or a frame of the ARP protocol.           *)

LEMMA NoFrame == ASSUME out' = None PROVE FrameRight'
BY DEF FrameRight, UnicastIsResolved, IsDatagram, SourceIsCurrent, EchoAnswersSender

LEMMA ArpFrame ==
  ASSUME NEW type \in {"request", "reply"}, NEW mac, NEW dst,
         out' = IpFrame(type, mac, cfg.ip, dst), cfg'.ip = cfg.ip
  PROVE  FrameRight'
BY DEF FrameRight, UnicastIsResolved, IsDatagram, SourceIsCurrent, EchoAnswersSender, IpFrame

\* A request that is being answered is kept while its flow waits.
LEMMA AskedKept ==
  ASSUME Typed, KeepAsked
  PROVE  /\ asked' \in [Flow -> {None} \cup Request]
         /\ \A f \in Flow : ~ Idle(f) => asked'[f] = asked[f]
BY DEF Typed, KeepAsked

\* What is learned is the news of its sender.
LEMMA Learned ==
  ASSUME Typed, Agrees(cache, heard), NEW ip \in Ip, NEW mac \in Mac,
         heard' = [heard EXCEPT ![ip] = [mac |-> mac, ts |-> now]]
  PROVE  /\ ArpLearn(cache, ip, mac, now) \in [Slots -> arp_entry_t]
         /\ heard' \in [Ip -> {NotFound} \cup News]
         /\ Agrees(ArpLearn(cache, ip, mac, now), heard')
<1>1. ArpLearn(cache, ip, mac, now) \in [Slots -> arp_entry_t]
  BY LearnTyped DEF Typed
<1>2. [mac |-> mac, ts |-> now] \in News
  BY DEF Typed, News
<1>3. heard' \in [Ip -> {NotFound} \cup News]
  BY <1>2 DEF Typed
<1>4. DOMAIN heard = Ip /\ now \in Nat /\ cache \in [Slots -> arp_entry_t]
  BY DEF Typed
<1>5. Agrees(ArpLearn(cache, ip, mac, now), heard')
  BY <1>4, LearnAgrees
<1>. QED BY <1>1, <1>3, <1>5

-----------------------------------------------------------------------------
(* ip_tx.                                                                  *)

\* Up to its end or its ARP request, ip_tx keeps the cache in agreement and
\* sends a datagram only to the station last heard under the next hop.
LEMMA TxUnicast ==
  ASSUME NEW f \in Flow, NEW type \in {"data", "echo"}, NEW dst \in Destination,
         NEW c \in [Slots -> arp_entry_t], Agrees(c, heard'), Typed,
         cfg' = cfg, now' = now, ip_tx(f, type, dst, c)
  PROVE  /\ cache' \in [Slots -> arp_entry_t]
         /\ Agrees(cache', heard')
         /\ pending' \in [Flow -> {None} \cup Waiting]
         /\ UnicastIsResolved'
         /\ SourceIsCurrent'
<1>1. PICK hop : hop = NextHop(cfg, dst)
  OBVIOUS
<1>2. hop = IF dst \in cfg.link \/ cfg.gateway = ZeroIp THEN dst ELSE cfg.gateway
  BY <1>1 DEF NextHop
<1>3. /\ AfterLookup(c, hop, now) \in [Slots -> arp_entry_t]
      /\ Agrees(AfterLookup(c, hop, now), heard')
  BY LookupOnlyDrops, LookupAgrees
<1>4. CASE /\ dst = IP_BCAST /\ cache' = c
           /\ Emit(type, BcastMac, dst) /\ UNCHANGED pending
  BY <1>4 DEF Typed, Emit, IpFrame, UnicastIsResolved, IsDatagram, SourceIsCurrent
<1>5. ASSUME NEW mac, mac = LookupMac(c, hop, now), mac # NotFound,
             cache' = AfterLookup(c, hop, now), Emit(type, mac, dst), UNCHANGED pending
      PROVE  /\ cache' \in [Slots -> arp_entry_t]
             /\ Agrees(cache', heard')
             /\ pending' \in [Flow -> {None} \cup Waiting]
             /\ UnicastIsResolved'
             /\ SourceIsCurrent'
  <2>1. /\ heard'[hop] \in [mac : Mac \cup {ZeroMac}, ts : Nat]
        /\ heard'[hop].mac = mac
        /\ now - heard'[hop].ts < ARP_TIMEOUT_MS
    BY <1>5, LookupFindsNews
  <2>2. /\ heard'[hop] # NotFound
        /\ heard'[hop].mac = mac
        /\ now' - heard'[hop].ts < ARP_TIMEOUT_MS
    BY <2>1
  <2>3. out' = [type |-> type, mac |-> mac, src |-> cfg'.ip, dst |-> dst]
    BY <1>5 DEF Emit, IpFrame
  <2>4. UnicastIsResolved'
    BY <1>2, <2>2, <2>3 DEF UnicastIsResolved, HeardAs
  <2>5. SourceIsCurrent'
    BY <2>3 DEF SourceIsCurrent
  <2>. QED BY <1>3, <1>5, <2>4, <2>5 DEF Typed
<1>6. CASE /\ cache' = AfterLookup(c, hop, now)
           /\ out' = IpFrame("request", BcastMac, cfg.ip, hop)
           /\ pending' = [pending EXCEPT ![f] = [type |-> type, dst |-> dst]]
  BY <1>3, <1>6, ArpFrame DEF Typed, Waiting, FrameRight
<1>. QED BY <1>1, <1>4, <1>5, <1>6 DEF ip_tx

LEMMA SendInv ==
  ASSUME Inv, NEW f \in Flow, NEW dst \in Station \cup {IP_BCAST}, Send(f, dst)
  PROVE  Inv'
<1>1. /\ Typed /\ WaitingReply /\ Agrees(cache, heard)
      /\ Idle(f) /\ ip_tx(f, "data", dst, cache) /\ KeepAsked
      /\ UNCHANGED <<cfg, now, heard>>
  BY DEF Inv, State, Send
<1>2. /\ cache' \in [Slots -> arp_entry_t] /\ Agrees(cache', heard')
      /\ pending' \in [Flow -> {None} \cup Waiting]
      /\ UnicastIsResolved' /\ SourceIsCurrent'
  BY <1>1, TxUnicast DEF Typed, Destination
<1>3. Typed'
  BY <1>1, <1>2, AskedKept DEF Typed
<1>4. /\ \A g \in Flow \ {f} : pending'[g] = pending[g]
      /\ pending'[f] = pending[f] \/ pending'[f].type = "data"
      /\ out'.type # "echo"
  BY <1>1 DEF ip_tx, Typed, Emit, IpFrame
<1>5. WaitingReply'
  BY <1>1, <1>4, AskedKept DEF WaitingReply, Idle
<1>6. EchoAnswersSender'
  BY <1>4 DEF EchoAnswersSender
<1>. QED BY <1>2, <1>3, <1>5, <1>6 DEF Inv, State, FrameRight

LEMMA ResumeInv ==
  ASSUME Inv, NEW f \in Flow, Resume(f)
  PROVE  Inv'
<1>1. /\ Typed /\ WaitingReply /\ Agrees(cache, heard) /\ ~ Idle(f) /\ KeepAsked
      /\ out' = IpFrame(pending[f].type, BcastMac, cfg.ip, pending[f].dst)
      /\ pending' = [pending EXCEPT ![f] = None]
      /\ UNCHANGED <<cfg, cache, now, heard>>
  BY DEF Inv, State, Resume, Emit
<1>2. Typed'
  BY <1>1, AskedKept DEF Typed
<1>3. /\ pending'[f] = None
      /\ \A g \in Flow \ {f} : pending'[g] = pending[g]
  BY <1>1 DEF Typed
<1>4. WaitingReply'
  BY <1>1, <1>3, AskedKept DEF WaitingReply, Idle
<1>5. UnicastIsResolved' /\ SourceIsCurrent'
  BY <1>1 DEF IpFrame, UnicastIsResolved, SourceIsCurrent
<1>6. EchoAnswersSender'
  <2>1. CASE pending[f].type = "echo"
    <3>1. asked'[f] # None /\ asked'[f].src = pending[f].dst /\ ~ asked'[f].near
      BY <1>1, <2>1, AskedKept DEF WaitingReply
    <3>. QED BY <1>1, <1>3, <3>1 DEF EchoAnswersSender, Answers, Idle, IpFrame
  <2>2. CASE pending[f].type # "echo"
    BY <1>1, <2>2 DEF EchoAnswersSender, IpFrame
  <2>. QED BY <2>1, <2>2
<1>. QED BY <1>1, <1>2, <1>4, <1>5, <1>6 DEF Inv, State, FrameRight

-----------------------------------------------------------------------------
(* Received frames.                                                        *)

\* Steps that start no transmission: only the cache, its news and cfg change.
LEMMA QuietInv ==
  ASSUME State, Typed', Agrees(cache', heard'), FrameRight', KeepAsked, UNCHANGED pending
  PROVE  Inv'
BY AskedKept DEF State, Inv, WaitingReply, Idle

LEMMA ArpRxInv ==
  ASSUME Inv, NEW f \in Flow, NEW op \in {"request", "reply"}, NEW src \in Station,
         NEW mac \in Mac, NEW dst, arp_rx(f, op, src, mac, dst)
  PROVE  Inv'
<1>1. Typed /\ State /\ Agrees(cache, heard) /\ src \in Ip
  BY DEF Inv, State
<1>2. KeepAsked /\ UNCHANGED <<cfg, now, pending>>
  BY DEF arp_rx
<1>3. /\ cache' \in [Slots -> arp_entry_t]
      /\ heard' \in [Ip -> {NotFound} \cup News]
      /\ Agrees(cache', heard')
  <2>1. CASE src # ZeroIp
    BY <1>1, <2>1, Learned DEF arp_rx
  <2>2. CASE UNCHANGED <<cache, heard>>
    BY <1>1, <2>2 DEF Typed
  <2>. QED BY <2>1, <2>2 DEF arp_rx
<1>4. FrameRight'
  BY <1>2, NoFrame, ArpFrame DEF arp_rx
<1>5. Typed'
  BY <1>1, <1>2, <1>3, AskedKept DEF Typed
<1>. QED BY <1>1, <1>2, <1>3, <1>4, <1>5, QuietInv

LEMMA EchoInv ==
  ASSUME Inv, NEW f \in Flow, NEW src \in Station, NEW mac \in Mac, NEW dst,
         ip_rx_echo(f, src, mac, dst)
  PROVE  Inv'
<1> DEFINE c == ArpLearn(cache, src, mac, now)
           request == EchoRequest(src, mac, dst)
<1>1. /\ Typed /\ WaitingReply /\ Agrees(cache, heard) /\ src \in Ip
      /\ src # IP_BCAST /\ src \in Destination /\ Idle(f)
      /\ heard' = [heard EXCEPT ![src] = [mac |-> mac, ts |-> now]]
      /\ ip_tx(f, "echo", src, c) /\ UNCHANGED <<cfg, now>>
  BY DEF Inv, State, ip_rx_echo, Destination
<1>2. /\ c \in [Slots -> arp_entry_t] /\ Agrees(c, heard')
      /\ heard' \in [Ip -> {NotFound} \cup News]
  BY <1>1, Learned
<1>3. NextHop(cfg, src) = src => LookupMac(c, NextHop(cfg, src), now) = mac
  BY <1>1, LearnedIsFound DEF Typed
<1>4. /\ request \in Request
      /\ request # None /\ request.src = src /\ request.mac = mac
      /\ request.near <=> (NextHop(cfg, src) = src)
  <2>1. request = [src |-> src, mac |-> mac, near |-> (NextHop(cfg, src) = src),
                   own |-> (dst \in {cfg.ip, IP_BCAST})]
    BY DEF EchoRequest
  <2>. HIDE DEF request
  <2>2. /\ (NextHop(cfg, src) = src) \in BOOLEAN
        /\ (dst \in {cfg.ip, IP_BCAST}) \in BOOLEAN
    OBVIOUS
  <2>3. request \in Request
    BY <1>1, <2>1, <2>2, Zenon DEF Request
  <2>4. request.src = src /\ request.mac = mac /\ (request.near <=> (NextHop(cfg, src) = src))
    BY <2>1, Zenon
  <2>. QED BY <2>3, <2>4 DEF Request
<1>. HIDE DEF c, request
<1>5. /\ cache' \in [Slots -> arp_entry_t] /\ Agrees(cache', heard')
      /\ pending' \in [Flow -> {None} \cup Waiting]
      /\ UnicastIsResolved' /\ SourceIsCurrent'
  BY <1>1, <1>2, TxUnicast
<1>6. /\ asked'[f] = request
      /\ \A g \in Flow \ {f} : ~ Idle(g) => asked'[g] = asked[g]
      /\ asked' \in [Flow -> {None} \cup Request]
  BY <1>1, <1>4 DEF ip_rx_echo, Typed, request
<1>7. Typed'
  BY <1>1, <1>2, <1>5, <1>6 DEF Typed
<1>8. CASE /\ LookupMac(c, NextHop(cfg, src), now) # NotFound
           /\ Emit("echo", LookupMac(c, NextHop(cfg, src), now), src)
           /\ UNCHANGED pending
  \* the reply leaves at once: f is idle and the request is its own
  <2>1. WaitingReply'
    BY <1>1, <1>6, <1>8 DEF WaitingReply, Idle
  <2>2. Answers(f)' /\ out'.dst = asked'[f].src /\ (asked'[f].near => out'.mac = asked'[f].mac)
    BY <1>1, <1>3, <1>4, <1>6, <1>8 DEF Answers, Idle, Emit, IpFrame
  <2>3. EchoAnswersSender'
    BY <2>2 DEF EchoAnswersSender, Answers, Idle
  <2>. QED BY <1>5, <1>7, <2>1, <2>3 DEF Inv, State, FrameRight
<1>9. CASE /\ LookupMac(c, NextHop(cfg, src), now) = NotFound
           /\ out' = IpFrame("request", BcastMac, cfg.ip, NextHop(cfg, src))
           /\ pending' = [pending EXCEPT ![f] = [type |-> "echo", dst |-> src]]
  \* the next hop is unknown, so it is not the sender just learned
  <2>1. ~ request.near
    BY <1>3, <1>4, <1>9
  <2>2. /\ pending'[f] = [type |-> "echo", dst |-> src]
        /\ \A g \in Flow \ {f} : pending'[g] = pending[g]
    BY <1>1, <1>9 DEF Typed
  <2>3. WaitingReply'
    BY <1>1, <1>4, <1>6, <2>1, <2>2 DEF WaitingReply, Idle
  <2>4. EchoAnswersSender'
    BY <1>9 DEF EchoAnswersSender, IpFrame
  <2>. QED BY <1>5, <1>7, <2>3, <2>4 DEF Inv, State, FrameRight
<1>. QED BY <1>1, <1>8, <1>9 DEF ip_tx

LEMMA ReceiveInv ==
  ASSUME Inv, NEW f \in Flow, Receive(f)
  PROVE  Inv'
<1>1. PICK src \in Station, mac \in Mac, dst \in Destination :
        \/ \E op \in {"request", "reply"} : arp_rx(f, op, src, mac, dst)
        \/ ip_rx_drop(f, src, mac, dst)
        \/ ip_rx_data(f, src, mac, dst)
        \/ ip_rx_echo(f, src, mac, dst)
  BY DEF Receive
<1>2. ASSUME NEW op \in {"request", "reply"}, arp_rx(f, op, src, mac, dst) PROVE Inv'
  BY <1>2, ArpRxInv
<1>3. CASE ip_rx_drop(f, src, mac, dst)
  BY <1>3, AskedKept, NoFrame, QuietInv DEF ip_rx_drop, Inv, State, Typed
<1>4. CASE ip_rx_data(f, src, mac, dst)
  <2>1. State /\ Typed /\ Agrees(cache, heard) /\ src \in Ip
    BY DEF Inv, State
  <2>2. /\ cache' \in [Slots -> arp_entry_t]
        /\ heard' \in [Ip -> {NotFound} \cup News]
        /\ Agrees(cache', heard')
    BY <1>4, <2>1, Learned DEF ip_rx_data
  <2>3. Typed'
    BY <1>4, <2>1, <2>2, AskedKept DEF ip_rx_data, Typed
  <2>. QED BY <1>4, <2>1, <2>2, <2>3, NoFrame, QuietInv DEF ip_rx_data
<1>5. CASE ip_rx_echo(f, src, mac, dst)
  BY <1>5, EchoInv
<1>. QED BY <1>1, <1>2, <1>3, <1>4, <1>5

-----------------------------------------------------------------------------
(* Configuration, flush, time.                                             *)

LEMMA ConfigureInv ==
  ASSUME Inv, NEW f \in Flow, NEW c \in Configs, Configure(f, c)
  PROVE  Inv'
<1>1. /\ State /\ Typed /\ Agrees(cache, heard) /\ KeepAsked
      /\ UNCHANGED <<cache, now, pending, heard>> /\ cfg' = c
  BY DEF Inv, State, Configure
<1>2. Typed'
  BY <1>1, AskedKept DEF Typed
<1>3. FrameRight'
  BY <1>1 DEF Configure, FrameRight, UnicastIsResolved, IsDatagram, SourceIsCurrent,
              EchoAnswersSender, IpFrame
<1>. QED BY <1>1, <1>2, <1>3, QuietInv

LEMMA FlushInv ==
  ASSUME Inv, NEW f \in Flow, Flush(f)
  PROVE  Inv'
<1>1. /\ State /\ Typed /\ KeepAsked /\ out' = None
      /\ UNCHANGED <<cfg, now, pending>>
      /\ cache' = ZeroedCache /\ heard' = [ip \in Ip |-> NotFound]
  BY DEF Inv, State, Flush
<1>2. cache' \in [Slots -> arp_entry_t] /\ Agrees(cache', heard')
  BY <1>1 DEF ZeroedCache, arp_entry_t, Agrees
<1>3. Typed'
  BY <1>1, <1>2, AskedKept DEF Typed
<1>. QED BY <1>1, <1>2, <1>3, NoFrame, QuietInv

LEMMA TickInv == ASSUME Inv, Tick PROVE Inv'
<1>1. /\ State /\ Typed /\ Agrees(cache, heard) /\ KeepAsked /\ out' = None
      /\ UNCHANGED <<cfg, cache, pending, heard>> /\ now' = now + 1
  BY DEF Inv, State, Tick
<1>2. Typed'
  BY <1>1, AskedKept DEF Typed
<1>. QED BY <1>1, <1>2, NoFrame, QuietInv

-----------------------------------------------------------------------------

LEMMA InitInv == Init => Inv
<1> SUFFICES ASSUME Init PROVE Inv
  OBVIOUS
<1>1. Typed
  BY DEF Init, Typed, ZeroedCache, arp_entry_t
<1>2. Agrees(cache, heard)
  BY DEF Init, ZeroedCache, Agrees
<1>3. WaitingReply
  BY DEF Init, WaitingReply, Idle
<1>4. FrameRight
  BY DEF Init, FrameRight, UnicastIsResolved, IsDatagram, SourceIsCurrent, EchoAnswersSender
<1>. QED BY <1>1, <1>2, <1>3, <1>4 DEF Inv, State

LEMMA NextInv == Inv /\ [Next]_vars => Inv'
<1> SUFFICES ASSUME Inv, [Next]_vars PROVE Inv'
  OBVIOUS
<1>1. ASSUME NEW f \in Flow, Receive(f) PROVE Inv'
  BY <1>1, ReceiveInv
<1>2. ASSUME NEW f \in Flow, Resume(f) PROVE Inv'
  BY <1>2, ResumeInv
<1>3. ASSUME NEW f \in Flow, Flush(f) PROVE Inv'
  BY <1>3, FlushInv
<1>4. ASSUME NEW f \in Flow, NEW dst \in Station \cup {IP_BCAST}, Send(f, dst) PROVE Inv'
  BY <1>4, SendInv
<1>5. ASSUME NEW f \in Flow, NEW c \in Configs, Configure(f, c) PROVE Inv'
  BY <1>5, ConfigureInv
<1>6. CASE Tick
  BY <1>6, TickInv
<1>7. CASE UNCHANGED vars
  BY <1>7 DEF vars, Inv, State, Typed, WaitingReply, Idle, FrameRight, UnicastIsResolved,
              IsDatagram, HeardAs, SourceIsCurrent, EchoAnswersSender, Answers
<1>. QED BY <1>1, <1>2, <1>3, <1>4, <1>5, <1>6, <1>7 DEF Next

\* A datagram to one station goes to the one last heard, and lately, under
\* the next hop of the configuration in force, whatever the other flows
\* learn, flush or configure while ip_tx waits.
THEOREM UnicastResolved == Spec => []UnicastIsResolved
<1>1. Inv => UnicastIsResolved
  BY DEF Inv, FrameRight
<1>. QED BY <1>1, InitInv, NextInv, PTL DEF Spec

\* No frame claims an address the host no longer has.
THEOREM SourceCurrent == Spec => []SourceIsCurrent
<1>1. Inv => SourceIsCurrent
  BY DEF Inv, FrameRight
<1>. QED BY <1>1, InitInv, NextInv, PTL DEF Spec

\* An echo reply goes to the station that asked, for every number of flows
\* that answer at once.
THEOREM EchoAnswered == Spec => []EchoAnswersSender
<1>1. Inv => EchoAnswersSender
  BY DEF Inv, FrameRight
<1>. QED BY <1>1, InitInv, NextInv, PTL DEF Spec

=============================================================================
