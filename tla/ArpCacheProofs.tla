--------------------------- MODULE ArpCacheProofs ---------------------------
(***************************************************************************)
(* Proofs about ArpCache for every table size, timeout and set of          *)
(* addresses.  The invariants are proved from one inductive invariant,     *)
(* Inv: its conjunct Agrees ties every valid slot to what was last heard   *)
(* of its address, and GoneIsCrowded says why an address that is still     *)
(* fresh may have no slot.                                                 *)
(***************************************************************************)
EXTENDS ArpCache, FiniteSetTheorems, FunctionTheorems, WellFoundedInduction, TLAPS

(* What the functions of ArpTable do to a cache that agrees with what was  *)
(* heard.                                                                  *)

\* A non-empty set of naturals has a least element, and Min is that element.
LEMMA MinOfNats ==
  ASSUME NEW S \in SUBSET Nat, S # {}
  PROVE  Min(S) \in S /\ \A y \in S : Min(S) <= y
<1> DEFINE Less == {ss \in Nat \X Nat : ss[1] < ss[2]}
<1>1. IsWellFoundedOn(Less, Nat)
  BY NatLessThanWellFounded DEF OpToRel
<1>. HIDE DEF Less
<1>2. \E x \in S : \A y \in S : x <= y
  <2>1. PICK x \in S : \A y \in S : ~ (<<y, x>> \in Less)
    BY <1>1, WFMin, Zenon
  <2>2. \A y \in S : ~ (y < x)
    BY <2>1 DEF Less
  <2>. QED BY <2>2
<1>. QED BY <1>2 DEF Min

\* A cache agrees with the news h: no address is in two slots, and a valid
\* slot holds exactly what was heard last of its address.
Agrees(c, h) ==
  /\ \A i, j \in Slots : c[i].valid /\ c[j].valid /\ c[i].ip = c[j].ip => i = j
  /\ \A i \in Slots : c[i].valid => h[c[i].ip] = [mac |-> c[i].mac, ts |-> c[i].ts]

\* Min of a non-empty set of slots is one of them (the first).
LEMMA MinOfSlots ==
  ASSUME NEW S \in SUBSET Slots, S # {}
  PROVE  Min(S) \in S
BY MinOfNats, ArpAssumption DEF Slots

\* arp_learn always finds a slot: the one that already holds the address, or
\* a free one, or one of the oldest.
LEMMA LearnSlotFound ==
  ASSUME NEW c \in [Slots -> arp_entry_t], NEW ip
  PROVE  /\ LearnSlot(c, ip) \in Slots
         /\ Holding(c, ip) # {} => LearnSlot(c, ip) \in Holding(c, ip)
         /\ Holding(c, ip) = {} /\ Free(c) # {} => LearnSlot(c, ip) \in Free(c)
         /\ Holding(c, ip) = {} /\ Free(c) = {} => LearnSlot(c, ip) \in Oldest(c)
<1>1. Holding(c, ip) \subseteq Slots /\ Free(c) \subseteq Slots /\ Oldest(c) \subseteq Slots
  BY DEF Holding, Free, Oldest
<1>2. Oldest(c) # {}
  <2> DEFINE Stamps == {c[j].ts : j \in Slots}
  <2>1. Stamps \in SUBSET Nat /\ Stamps # {}
    BY ArpAssumption DEF arp_entry_t, Slots
  <2>2. PICK i \in Slots : c[i].ts = Min(Stamps)
    BY <2>1, MinOfNats
  <2>3. \A j \in Slots : c[i].ts <= c[j].ts
    BY <2>1, <2>2, MinOfNats
  <2>. QED BY <2>3 DEF Oldest
<1>. QED BY <1>1, <1>2, MinOfSlots DEF LearnSlot

\* The least fresh slot, where arp_lookup stops, holds the address.
LEMMA FreshSlotFound ==
  ASSUME NEW c, NEW ip, NEW t, Fresh(c, ip, t) # {}
  PROVE  /\ Min(Fresh(c, ip, t)) \in Slots
         /\ c[Min(Fresh(c, ip, t))].valid
         /\ c[Min(Fresh(c, ip, t))].ip = ip
         /\ t - c[Min(Fresh(c, ip, t))].ts < ARP_TIMEOUT_MS
BY MinOfSlots DEF Fresh, Holding

\* arp_lookup only makes entries invalid.
LEMMA LookupOnlyDrops ==
  ASSUME NEW c \in [Slots -> arp_entry_t], NEW ip, NEW t
  PROVE  /\ AfterLookup(c, ip, t) \in [Slots -> arp_entry_t]
         /\ \A i \in Slots : /\ AfterLookup(c, ip, t)[i].ip = c[i].ip
                             /\ AfterLookup(c, ip, t)[i].mac = c[i].mac
                             /\ AfterLookup(c, ip, t)[i].ts = c[i].ts
                             /\ AfterLookup(c, ip, t)[i].valid => c[i].valid
BY DEF AfterLookup, arp_entry_t

\* arp_learn keeps the cache in agreement with the news: the slot it chooses
\* is the only one that could hold the address.
LEMMA LearnAgrees ==
  ASSUME NEW c \in [Slots -> arp_entry_t], NEW ip \in Ip, NEW mac \in Mac, NEW t \in Nat,
         NEW h, DOMAIN h = Ip, Agrees(c, h)
  PROVE  Agrees(ArpLearn(c, ip, mac, t), [h EXCEPT ![ip] = [mac |-> mac, ts |-> t]])
<1> DEFINE s == LearnSlot(c, ip)
           d == ArpLearn(c, ip, mac, t)
           g == [h EXCEPT ![ip] = [mac |-> mac, ts |-> t]]
<1>1. /\ s \in Slots
      /\ Holding(c, ip) # {} => s \in Holding(c, ip)
  BY LearnSlotFound
<1>2. d = [c EXCEPT ![s] = [ip |-> ip, mac |-> mac, ts |-> t, valid |-> TRUE]]
  BY DEF ArpLearn
<1>. HIDE DEF s, d
<1>3. /\ d[s] = [ip |-> ip, mac |-> mac, ts |-> t, valid |-> TRUE]
      /\ \A i \in Slots \ {s} : d[i] = c[i]
  BY <1>1, <1>2
<1>4. \A i \in Slots \ {s} : c[i].valid => c[i].ip # ip
  \* such a slot would hold ip, so s would hold it too: two slots, one address
  BY <1>1 DEF Holding, Agrees
<1>5. g[ip] = [mac |-> mac, ts |-> t] /\ \A j \in Ip \ {ip} : g[j] = h[j]
  OBVIOUS
<1>6. ASSUME NEW i \in Slots, NEW j \in Slots, d[i].valid, d[j].valid, d[i].ip = d[j].ip
      PROVE  i = j
  BY <1>3, <1>4, <1>6 DEF Agrees
<1>7. ASSUME NEW i \in Slots, d[i].valid
      PROVE  g[d[i].ip] = [mac |-> d[i].mac, ts |-> d[i].ts]
  <2>1. CASE i = s
    BY <2>1, <1>3, <1>5
  <2>2. CASE i # s
    <3>1. d[i] = c[i] /\ c[i].ip \in Ip \ {ip}
      BY <2>2, <1>3, <1>4, <1>7 DEF arp_entry_t
    <3>. QED BY <3>1, <1>5, <1>7 DEF Agrees
  <2>. QED BY <2>1, <2>2
<1>. QED BY <1>6, <1>7 DEF Agrees, d

\* arp_lookup keeps the cache in agreement with the news.
LEMMA LookupAgrees ==
  ASSUME NEW c \in [Slots -> arp_entry_t], NEW ip, NEW t, NEW h, Agrees(c, h)
  PROVE  Agrees(AfterLookup(c, ip, t), h)
BY LookupOnlyDrops DEF Agrees

\* What arp_lookup finds is the news of the address, not too old.
LEMMA LookupFindsNews ==
  ASSUME NEW c \in [Slots -> arp_entry_t], NEW ip, NEW t, NEW h, Agrees(c, h),
         LookupMac(c, ip, t) # NotFound
  PROVE  /\ h[ip] \in [mac : Mac \cup {ZeroMac}, ts : Nat]
         /\ h[ip].mac = LookupMac(c, ip, t)
         /\ t - h[ip].ts < ARP_TIMEOUT_MS
<1>1. Fresh(c, ip, t) # {} /\ LookupMac(c, ip, t) = c[Min(Fresh(c, ip, t))].mac
  BY DEF LookupMac
<1>2. PICK i \in Slots : /\ c[i].valid /\ c[i].ip = ip
                         /\ LookupMac(c, ip, t) = c[i].mac
                         /\ t - c[i].ts < ARP_TIMEOUT_MS
  BY <1>1, FreshSlotFound
<1>3. h[ip] = [mac |-> c[i].mac, ts |-> c[i].ts]
  BY <1>2 DEF Agrees
<1>. QED BY <1>2, <1>3 DEF arp_entry_t

-----------------------------------------------------------------------------
(* Type correctness.                                                       *)

LEMMA InitTyped == Init => TypeOK
BY ArpAssumption, ClockAssumption
   DEF Init, TypeOK, ZeroedCache, NothingHeard, arp_entry_t

LEMMA NextTyped == TypeOK /\ [Next]_vars => TypeOK'
<1> SUFFICES ASSUME TypeOK, [Next]_vars PROVE TypeOK'
  OBVIOUS
<1>. USE ArpAssumption, ClockAssumption
<1>1. ASSUME NEW ip \in Ip, NEW mac \in Mac, Learn(ip, mac) PROVE TypeOK'
  <2>1. now \in Nat /\ LearnSlot(cache, ip) \in Slots
    BY LearnSlotFound DEF TypeOK
  <2>. QED BY <1>1, <2>1 DEF TypeOK, Learn, ArpLearn, arp_entry_t
<1>2. ASSUME NEW ip \in Ip, Lookup(ip) PROVE TypeOK'
  <2>1. LookupMac(cache, ip, now) \in Mac \cup {ZeroMac, NotFound}
    BY FreshSlotFound DEF LookupMac, TypeOK, arp_entry_t
  <2>2. /\ cache' \in [Slots -> arp_entry_t]
        /\ \A i \in Slots : cache'[i].ts = cache[i].ts
    BY <1>2 DEF TypeOK, Lookup, AfterLookup, arp_entry_t
  <2>. QED BY <1>2, <2>1, <2>2 DEF TypeOK, Lookup, Answer
<1>3. CASE Flush
  BY <1>3 DEF TypeOK, Flush, ZeroedCache, NothingHeard, arp_entry_t
<1>4. CASE Tick
  BY <1>4 DEF TypeOK, Tick, arp_entry_t
<1>5. CASE UNCHANGED vars
  BY <1>5 DEF TypeOK, vars
<1>. QED BY <1>1, <1>2, <1>3, <1>4, <1>5 DEF Next

\* The cache, the clock, the answers and the history keep their types, and no
\* entry is ever stamped later than the clock, whatever is learned.
THEOREM TypeCorrect == Spec => []TypeOK
BY InitTyped, NextTyped, PTL DEF Spec

-----------------------------------------------------------------------------
(* The safety invariants.                                                  *)

StillFresh(ip) == heard[ip] # NotFound /\ now - heard[ip].ts < ARP_TIMEOUT_MS

\* Strengthens FreshIsAnswered: not only when it is looked up, but at any
\* time, an address that is fresh and has no slot was pushed out by others.
GoneIsCrowded ==
  \A ip \in Ip : StillFresh(ip) /\ Holding(cache, ip) = {} =>
    Cardinality(HeardSince(ip)) >= ARP_CACHE_SIZE

NewsIsPast == \A ip \in Ip : heard[ip] # NotFound => heard[ip].ts <= now

Inv == /\ TypeOK
       /\ Agrees(cache, heard)
       /\ NewsIsPast
       /\ GoneIsCrowded
       /\ AnswerIsLatest
       /\ FreshIsAnswered

LEMMA InitInv == Init => Inv
BY InitTyped, ArpAssumption
   DEF Inv, Init, Agrees, NewsIsPast, GoneIsCrowded, StillFresh, NothingHeard, AnswerIsLatest,
       FreshIsAnswered, ZeroedCache

\* arp_learn gives the slot of another address away only when every slot is
\* taken and none is older: with the new one, as many addresses as there are
\* slots have been heard since.
LEMMA EvictionIsCrowded ==
  ASSUME Inv, TypeOK', NEW ip \in Ip, NEW mac \in Mac, Learn(ip, mac), NEW j \in Ip \ {ip},
         Holding(cache, j) # {}, Holding(cache', j) = {}
  PROVE  Cardinality(HeardSince(j)') >= ARP_CACHE_SIZE
<1>1. PICK s : s = LearnSlot(cache, ip)
  OBVIOUS
<1>2. /\ s \in Slots
      /\ cache' = [cache EXCEPT ![s] = [ip |-> ip, mac |-> mac, ts |-> now, valid |-> TRUE]]
      /\ Holding(cache, ip) # {} => s \in Holding(cache, ip)
      /\ Holding(cache, ip) = {} /\ Free(cache) # {} => s \in Free(cache)
      /\ Holding(cache, ip) = {} /\ Free(cache) = {} => s \in Oldest(cache)
  BY <1>1, LearnSlotFound DEF Inv, TypeOK, Learn, ArpLearn
<1>3. /\ cache'[s] = [ip |-> ip, mac |-> mac, ts |-> now, valid |-> TRUE]
      /\ \A k \in Slots \ {s} : cache'[k] = cache[k]
  BY <1>2 DEF Inv, TypeOK
<1>4. cache[s].valid /\ cache[s].ip = j
  BY <1>3 DEF Holding
<1>5. Holding(cache, ip) = {} /\ Free(cache) = {} /\ s \in Oldest(cache)
  BY <1>2, <1>4 DEF Holding, Free
<1>6. /\ heard'[ip] = [mac |-> mac, ts |-> now]
      /\ \A k \in Ip \ {ip} : heard'[k] = heard[k]
  BY DEF Learn, Inv, TypeOK
<1>7. heard[j].ts = cache[s].ts /\ heard'[j].ts = cache[s].ts /\ cache[s].ts \in Nat /\ now \in Nat
  <2>1. /\ heard[j] = [mac |-> cache[s].mac, ts |-> cache[s].ts]
        /\ cache[s].ts \in Nat
    BY <1>2, <1>4 DEF Inv, Agrees, TypeOK, arp_entry_t
  <2>2. now \in Nat
    BY ClockAssumption DEF Inv, TypeOK
  <2>. QED BY <1>6, <2>1, <2>2
<1>8. ASSUME NEW k \in Slots PROVE cache'[k].ip \in HeardSince(j)'
  <2>1. CASE k = s
    <3>1. cache'[k].ip = ip /\ heard'[ip] # NotFound /\ heard'[ip].ts = now
      BY <2>1, <1>3, <1>6, ClockAssumption DEF Inv, TypeOK
    <3>2. now >= cache[s].ts
      BY <1>2 DEF Inv, TypeOK
    <3>. QED BY <3>1, <3>2, <1>7 DEF HeardSince
  <2>2. CASE k # s
    <3>1. /\ cache'[k] = cache[k] /\ cache[k].valid /\ cache[k].ip \in Ip
          /\ cache[k].ts >= cache[s].ts
      BY <2>2, <1>3, <1>5 DEF Free, Oldest, Inv, TypeOK, arp_entry_t
    <3>2. cache[k].ip # ip /\ cache[k].ip # j
      BY <2>2, <3>1, <1>2, <1>4, <1>5 DEF Holding, Inv, Agrees
    <3>3. heard'[cache[k].ip] = [mac |-> cache[k].mac, ts |-> cache[k].ts]
      BY <3>1, <3>2, <1>6 DEF Inv, Agrees
    <3>4. heard'[cache[k].ip] # NotFound
      BY <3>3, ClockAssumption DEF Inv, TypeOK, arp_entry_t
    <3>. QED BY <3>1, <3>2, <3>3, <3>4, <1>7 DEF HeardSince
  <2>. QED BY <2>1, <2>2
<1>9. ASSUME NEW k \in Slots, NEW l \in Slots, cache'[k].ip = cache'[l].ip PROVE k = l
  BY <1>3, <1>5, <1>9 DEF Holding, Free, Inv, Agrees
<1>10. PICK H : H = HeardSince(j)'
  OBVIOUS
<1>11. [k \in Slots |-> cache'[k].ip] \in Injection(Slots, H)
  BY <1>8, <1>9, <1>10 DEF Injection, IsInjective
<1>12. H \in SUBSET Ip
  BY <1>10 DEF HeardSince
<1>13. IsFiniteSet(H)
  BY <1>12, ArpAssumption, FS_Subset
<1>14. Cardinality(Slots) <= Cardinality(H)
  BY <1>11, <1>13, FS_Injection
<1>15. Cardinality(Slots) = ARP_CACHE_SIZE
  BY ArpAssumption, FS_Interval DEF Slots
<1>. QED BY <1>10, <1>14, <1>15

LEMMA LearnInv ==
  ASSUME Inv, TypeOK', NEW ip \in Ip, NEW mac \in Mac, Learn(ip, mac)
  PROVE  Inv'
<1>1. /\ cache' = ArpLearn(cache, ip, mac, now) /\ answer' = NoAnswer /\ now' = now
      /\ heard' = [heard EXCEPT ![ip] = [mac |-> mac, ts |-> now]]
      /\ now \in Nat /\ DOMAIN heard = Ip /\ cache \in [Slots -> arp_entry_t]
  BY DEF Learn, Inv, TypeOK
<1>2. Agrees(cache', heard')
  BY <1>1, LearnAgrees DEF Inv
<1>3. GoneIsCrowded'
  <2>1. SUFFICES ASSUME NEW j \in Ip, StillFresh(j)', Holding(cache', j) = {}
                 PROVE  Cardinality(HeardSince(j)') >= ARP_CACHE_SIZE
    BY DEF GoneIsCrowded
  <2>2. LearnSlot(cache, ip) \in Holding(cache', ip)
    BY <1>1, LearnSlotFound DEF ArpLearn, Holding
  <2>3. j \in Ip \ {ip} /\ heard'[j] = heard[j]
    BY <1>1, <2>1, <2>2
  <2>4. CASE Holding(cache, j) # {}
    BY <2>1, <2>3, <2>4, EvictionIsCrowded
  <2>5. CASE Holding(cache, j) = {}
    <3>1. Cardinality(HeardSince(j)) >= ARP_CACHE_SIZE
      BY <1>1, <2>1, <2>3, <2>5 DEF StillFresh, Inv, GoneIsCrowded
    <3>2. ASSUME NEW k \in HeardSince(j) PROVE k \in HeardSince(j)'
      <4>1. CASE k = ip
        <5>1. /\ heard[ip].ts <= now /\ heard[ip].ts >= heard[j].ts
              /\ heard[ip] \in [mac : Mac, ts : Nat] /\ heard[j] \in [mac : Mac, ts : Nat]
          BY <2>1, <2>3, <3>2, <4>1 DEF StillFresh, HeardSince, Inv, NewsIsPast, TypeOK
        <5>2. heard'[ip] = [mac |-> mac, ts |-> now] /\ heard'[ip] # NotFound
          BY <1>1, ClockAssumption
        <5>3. heard'[ip].ts >= heard'[j].ts
          BY <1>1, <2>3, <5>1, <5>2
        <5>. QED BY <2>3, <4>1, <5>2, <5>3 DEF HeardSince
      <4>2. CASE k # ip
        BY <1>1, <2>3, <3>2, <4>2 DEF HeardSince
      <4>. QED BY <4>1, <4>2
    <3>3. PICK H, G : H = HeardSince(j)' /\ G = HeardSince(j)
      OBVIOUS
    <3>4. G \in SUBSET H /\ H \in SUBSET Ip
      BY <3>2, <3>3 DEF HeardSince
    <3>5. IsFiniteSet(H)
      BY <3>4, ArpAssumption, FS_Subset
    <3>6. /\ Cardinality(G) <= Cardinality(H)
          /\ Cardinality(G) \in Nat /\ Cardinality(H) \in Nat
      BY <3>4, <3>5, FS_Subset, FS_CardinalityType
    <3>. QED BY <3>1, <3>3, <3>6, ArpAssumption
  <2>. QED BY <2>4, <2>5
<1>4. NewsIsPast'
  BY <1>1 DEF Inv, NewsIsPast
<1>5. AnswerIsLatest' /\ FreshIsAnswered'
  BY <1>1 DEF AnswerIsLatest, FreshIsAnswered
<1>. QED BY <1>2, <1>3, <1>4, <1>5 DEF Inv

LEMMA LookupInv ==
  ASSUME Inv, TypeOK', NEW ip \in Ip, Lookup(ip)
  PROVE  Inv'
<1>1. /\ cache' = AfterLookup(cache, ip, now) /\ now' = now /\ heard' = heard
      /\ answer' = [ip |-> ip, mac |-> LookupMac(cache, ip, now)]
      /\ now \in Nat /\ cache \in [Slots -> arp_entry_t] /\ Agrees(cache, heard)
  BY DEF Lookup, Inv, TypeOK
<1>2. Agrees(cache', heard') /\ NewsIsPast'
  BY <1>1, LookupAgrees DEF Inv, NewsIsPast
<1>3. ASSUME NEW j \in Ip, StillFresh(j), NEW i \in Holding(cache, j)
      PROVE  now - cache[i].ts < ARP_TIMEOUT_MS
  <2>1. i \in Slots /\ cache[i].valid /\ cache[i].ip = j
    BY DEF Holding
  <2>2. heard[j] = [mac |-> cache[i].mac, ts |-> cache[i].ts]
    BY <1>1, <2>1 DEF Agrees
  <2>. QED BY <1>3, <2>2 DEF StillFresh
<1>4. GoneIsCrowded'
  \* arp_lookup drops only stale slots
  <2>1. ASSUME NEW j \in Ip, StillFresh(j), NEW i \in Holding(cache, j)
        PROVE  i \in Holding(cache', j)
    <3>1. i \in Slots /\ cache[i].ts \in Nat /\ now - cache[i].ts < ARP_TIMEOUT_MS
      BY <1>1, <1>3, <2>1 DEF Holding, arp_entry_t
    <3>2. i \notin LookupPasses(cache, ip, now)
      BY <3>1 DEF LookupPasses, Fresh, Slots
    <3>. QED BY <1>1, <2>1, <3>1, <3>2 DEF AfterLookup, Holding, arp_entry_t
  <2>. QED BY <1>1, <2>1 DEF GoneIsCrowded, StillFresh, HeardSince, Inv
<1>5. AnswerIsLatest'
  <2>1. ASSUME LookupMac(cache, ip, now) # NotFound
        PROVE  /\ heard[ip] # NotFound
               /\ heard[ip].mac = LookupMac(cache, ip, now)
               /\ now - heard[ip].ts < ARP_TIMEOUT_MS
    <3>1. /\ heard[ip] \in [mac : Mac \cup {ZeroMac}, ts : Nat]
          /\ heard[ip].mac = LookupMac(cache, ip, now)
          /\ now - heard[ip].ts < ARP_TIMEOUT_MS
      BY <1>1, <2>1, LookupFindsNews
    <3>. QED BY <3>1, ClockAssumption
  <2>2. answer'.ip = ip /\ answer'.mac = LookupMac(cache, ip, now)
    BY <1>1
  <2>. QED BY <1>1, <2>1, <2>2 DEF AnswerIsLatest
<1>6. FreshIsAnswered'
  <2>1. SUFFICES ASSUME LookupMac(cache, ip, now) = NotFound, StillFresh(ip)
                 PROVE  Cardinality(HeardSince(ip)) >= ARP_CACHE_SIZE
    BY <1>1 DEF FreshIsAnswered, StillFresh, HeardSince
  <2>2. Fresh(cache, ip, now) = {}
    BY <1>1, <2>1, FreshSlotFound, ArpAssumption DEF LookupMac, arp_entry_t
  <2>3. Holding(cache, ip) = {}
    BY <1>3, <2>1, <2>2 DEF Fresh
  <2>. QED BY <2>1, <2>3 DEF Inv, GoneIsCrowded
<1>. QED BY <1>2, <1>4, <1>5, <1>6 DEF Inv

LEMMA NextInv == Inv /\ [Next]_vars => Inv'
<1> SUFFICES ASSUME Inv, [Next]_vars PROVE Inv'
  OBVIOUS
<1>1. TypeOK'
  BY NextTyped DEF Inv
<1>2. ASSUME NEW ip \in Ip, NEW mac \in Mac, Learn(ip, mac) PROVE Inv'
  BY <1>1, <1>2, LearnInv
<1>3. ASSUME NEW ip \in Ip, Lookup(ip) PROVE Inv'
  BY <1>1, <1>3, LookupInv
<1>4. CASE Flush
  BY <1>1, <1>4 DEF Inv, Flush, ZeroedCache, NothingHeard, Agrees, NewsIsPast,
                    GoneIsCrowded, StillFresh, AnswerIsLatest, FreshIsAnswered
<1>5. CASE Tick
  <2>1. /\ now' = now + 1 /\ UNCHANGED <<cache, heard>> /\ answer' = NoAnswer
        /\ now \in Nat
    BY <1>5 DEF Tick, Inv, TypeOK
  <2>2. \A ip \in Ip : heard[ip] # NotFound => heard[ip].ts \in Nat
    BY DEF Inv, TypeOK
  <2>3. \A ip \in Ip : StillFresh(ip)' => StillFresh(ip)
    BY <2>1, <2>2, ArpAssumption DEF StillFresh
  <2>4. GoneIsCrowded'
    BY <2>1, <2>3 DEF Inv, GoneIsCrowded, HeardSince
  <2>5. Agrees(cache', heard') /\ NewsIsPast'
    BY <2>1, <2>2 DEF Inv, Agrees, NewsIsPast
  <2>. QED BY <1>1, <2>1, <2>4, <2>5 DEF Inv, AnswerIsLatest, FreshIsAnswered
<1>6. CASE UNCHANGED vars
  BY <1>1, <1>6 DEF Inv, vars, Agrees, NewsIsPast, GoneIsCrowded, StillFresh, HeardSince,
                    AnswerIsLatest, FreshIsAnswered
<1>. QED BY <1>2, <1>3, <1>4, <1>5, <1>6 DEF Next

\* arp_learn never leaves an address in two slots.
THEOREM OneSlotPerAddress == Spec => []UniqueIp
<1>1. Inv => UniqueIp
  BY DEF Inv, Agrees, UniqueIp
<1>. QED BY <1>1, InitInv, NextInv, PTL DEF Spec

\* What arp_lookup answers is the latest news of that address and not stale,
\* for every table size, timeout and order of calls.
THEOREM LookupAnswersLatest == Spec => []AnswerIsLatest
<1>1. Inv => AnswerIsLatest
  BY DEF Inv
<1>. QED BY <1>1, InitInv, NextInv, PTL DEF Spec

\* arp_lookup fails for an address that is still fresh only when as many
\* others as the table has slots were heard since, for every table size.
THEOREM FreshAnswered == Spec => []FreshIsAnswered
<1>1. Inv => FreshIsAnswered
  BY DEF Inv
<1>. QED BY <1>1, InitInv, NextInv, PTL DEF Spec

-----------------------------------------------------------------------------
(* The refinement of NeighborMap.                                          *)

\* The array, read as a map, knows the addresses that have a slot, and of
\* each the entry of any slot that holds it.
SlotsAreEntries ==
  \A ip \in Ip :
    /\ Entry(ip) = NotFound <=> Holding(cache, ip) = {}
    /\ \A i \in Holding(cache, ip) : Entry(ip) = [mac |-> cache[i].mac, ts |-> cache[i].ts]

LEMMA EntryOfSlot == Inv => SlotsAreEntries
<1> SUFFICES ASSUME Inv, NEW ip \in Ip
             PROVE  /\ Entry(ip) = NotFound <=> Holding(cache, ip) = {}
                    /\ \A i \in Holding(cache, ip) :
                         Entry(ip) = [mac |-> cache[i].mac, ts |-> cache[i].ts]
  BY DEF SlotsAreEntries
<1>1. CASE Holding(cache, ip) = {}
  BY <1>1 DEF Entry
<1>2. CASE Holding(cache, ip) # {}
  <2>1. PICK k : k = Min(Holding(cache, ip))
    OBVIOUS
  <2>2. k \in Holding(cache, ip)
    BY <1>2, <2>1, MinOfSlots DEF Holding
  <2>3. \A i \in Holding(cache, ip) : i = k
    BY <2>2 DEF Holding, Inv, Agrees
  <2>4. Entry(ip) = [mac |-> cache[k].mac, ts |-> cache[k].ts]
    BY <1>2, <2>1 DEF Entry
  <2>5. cache[k] \in arp_entry_t
    BY <2>2 DEF Holding, Inv, TypeOK
  <2>6. Entry(ip) # NotFound
    BY <2>4, <2>5, ClockAssumption DEF arp_entry_t
  <2>. QED BY <1>2, <2>3, <2>4, <2>6
<1>. QED BY <1>1, <1>2

\* NeighborMap counts as this module does.
LEMMA SameCardinality == ASSUME NEW S PROVE Map!Cardinality(S) = Cardinality(S)
BY DEF Map!Cardinality, Cardinality

LEMMA InitRefines == Init => Map!Init
BY DEF Init, Map!Init, Entry, Holding, ZeroedCache

\* When no slot is free the map is full; when one is, it is not.
LEMMA FullMeansNoSlotFree ==
  ASSUME Inv
  PROVE  /\ Free(cache) = {} => ~ (Map!Cardinality(Map!Known) < ARP_CACHE_SIZE)
         /\ Free(cache) # {} => Map!Cardinality(Map!Known) < ARP_CACHE_SIZE
<1> DEFINE Known == {ip \in Ip : Entry(ip) # NotFound}
           Taken == {i \in Slots : cache[i].valid}
<1>1. IsFiniteSet(Known) /\ IsFiniteSet(Slots) /\ Cardinality(Slots) = ARP_CACHE_SIZE
  BY ArpAssumption, FS_Subset, FS_Interval DEF Slots
<1>2. \A ip \in Ip : ip \in Known <=> \E i \in Slots : cache[i].valid /\ cache[i].ip = ip
  BY EntryOfSlot DEF SlotsAreEntries, Holding
<1>3. \A i \in Taken : cache[i].ip \in Known
  BY <1>2 DEF Inv, TypeOK, arp_entry_t
<1>4. [i \in Taken |-> cache[i].ip] \in Bijection(Taken, Known)
  <2> DEFINE m == [i \in Taken |-> cache[i].ip]
  <2>1. m \in [Taken -> Known]
    BY <1>3
  <2>2. \A i, j \in Taken : m[i] = m[j] => i = j
    BY DEF Inv, Agrees
  <2>3. \A ip \in Known : \E i \in Taken : m[i] = ip
    BY <1>2
  <2>. QED BY <2>1, <2>2, <2>3, Fun_IsBij
<1>5. Taken \subseteq Slots /\ IsFiniteSet(Taken)
  BY <1>1, FS_Subset
<1>6. Cardinality(Taken) = Cardinality(Known)
  <2>1. ExistsBijection(Taken, Known)
    BY <1>4 DEF ExistsBijection
  <2>. HIDE DEF Known, Taken
  <2>. QED BY <1>5, <2>1, FS_Bijection
<1>7. ASSUME Free(cache) = {} PROVE ~ (Cardinality(Known) < ARP_CACHE_SIZE)
  <2>1. Taken = Slots
    BY <1>7 DEF Free
  <2>2. ~ (ARP_CACHE_SIZE < ARP_CACHE_SIZE)
    BY ArpAssumption
  <2>. HIDE DEF Known, Taken
  <2>. QED BY <1>1, <1>6, <2>1, <2>2, Zenon
<1>8. ASSUME Free(cache) # {} PROVE Cardinality(Known) < ARP_CACHE_SIZE
  <2>1. Taken # Slots
    BY <1>8 DEF Free
  <2>. HIDE DEF Known, Taken
  <2>2. Cardinality(Taken) < Cardinality(Slots)
    BY <1>1, <1>5, <2>1, FS_Subset, FS_CardinalityType
  <2>. QED BY <1>1, <1>6, <2>2
<1>9. Map!Known = Known
  BY DEF Map!Known
<1>. HIDE DEF Known
<1>. QED BY <1>7, <1>8, <1>9, SameCardinality

\* arp_learn: in place, in a free slot, or in the slot of the address learned
\* longest ago.
LEMMA LearnRefines ==
  ASSUME Inv, Inv', NEW ip \in Ip, NEW mac \in Mac, Learn(ip, mac)
  PROVE  Map!Learn(ip, mac)
<1>0. SlotsAreEntries /\ SlotsAreEntries'
  BY EntryOfSlot, PTL
<1>1. PICK s : s = LearnSlot(cache, ip)
  OBVIOUS
<1>2. /\ s \in Slots
      /\ Holding(cache, ip) # {} => s \in Holding(cache, ip)
      /\ Holding(cache, ip) = {} /\ Free(cache) # {} => s \in Free(cache)
      /\ Holding(cache, ip) = {} /\ Free(cache) = {} => s \in Oldest(cache)
  BY <1>1, LearnSlotFound DEF Inv, TypeOK
<1>3. /\ cache'[s] = [ip |-> ip, mac |-> mac, ts |-> now, valid |-> TRUE]
      /\ \A k \in Slots \ {s} : cache'[k] = cache[k]
  BY <1>1, <1>2 DEF Inv, TypeOK, Learn, ArpLearn
<1>4. ASSUME NEW j \in Ip, j = ip PROVE Entry(j)' = [mac |-> mac, ts |-> now]
  <2>1. s \in Holding(cache', j)
    BY <1>2, <1>3, <1>4 DEF Holding
  <2>. QED BY <1>0, <1>3, <2>1 DEF SlotsAreEntries
\* An address that was not in slot s keeps its entry, one that was has none.
<1>5. ASSUME NEW j \in Ip \ {ip}, s \notin Holding(cache, j)
      PROVE  Entry(j)' = Entry(j)
  <2>1. Holding(cache', j) = Holding(cache, j)
    BY <1>3, <1>5 DEF Holding
  <2>2. \A i \in Holding(cache, j) : cache'[i] = cache[i]
    BY <1>3, <1>5 DEF Holding
  <2>. QED BY <2>1, <2>2, <1>0 DEF SlotsAreEntries
<1>6. ASSUME NEW j \in Ip \ {ip}, s \in Holding(cache, j)
      PROVE  Entry(j)' = NotFound
  <2>1. Holding(cache', j) = {}
    BY <1>3, <1>6 DEF Holding, Inv, Agrees
  <2>. QED BY <2>1, <1>0 DEF SlotsAreEntries
\* Which addresses the map may give up.
<1>7. \E lost \in Map!GivenUp(ip) :
       /\ ip \notin lost
       /\ \A j \in Ip \ {ip} : j \in lost <=> s \in Holding(cache, j)
  <2>1. CASE Holding(cache, ip) # {}
    <3>1. {} \in Map!GivenUp(ip)
      BY <2>1, <1>0 DEF SlotsAreEntries, Map!GivenUp, Map!Known
    <3>2. \A j \in Ip \ {ip} : s \notin Holding(cache, j)
      BY <1>2, <2>1 DEF Holding
    <3>. QED BY <3>1, <3>2
  <2>2. CASE Holding(cache, ip) = {} /\ Free(cache) # {}
    <3>1. {} \in Map!GivenUp(ip)
      BY <2>2, FullMeansNoSlotFree DEF Map!GivenUp, Map!Known
    <3>2. \A j \in Ip \ {ip} : s \notin Holding(cache, j)
      BY <1>2, <2>2 DEF Holding, Free
    <3>. QED BY <3>1, <3>2
  <2>3. CASE Holding(cache, ip) = {} /\ Free(cache) = {}
    <3>1. cache[s].valid /\ cache[s].ip \in Ip
      BY <1>2, <2>3 DEF Free, Inv, TypeOK, arp_entry_t
    <3>2. s \in Holding(cache, cache[s].ip)
      BY <1>2, <3>1 DEF Holding
    <3>3. cache[s].ip \in Map!LongestAgo
      <4>1. cache[s].ip \in Map!Known /\ Entry(cache[s].ip).ts = cache[s].ts
        BY <3>1, <3>2, <1>0 DEF SlotsAreEntries, Map!Known
      <4>2. ASSUME NEW j \in Map!Known PROVE cache[s].ts <= Entry(j).ts
        <5>1. j \in Ip /\ Holding(cache, j) # {}
          BY <4>2, <1>0 DEF SlotsAreEntries, Map!Known
        <5>2. PICK i \in Holding(cache, j) : Entry(j).ts = cache[i].ts
          BY <5>1, <1>0 DEF SlotsAreEntries
        <5>. QED BY <1>2, <2>3, <5>2 DEF Oldest, Holding
      <4>. QED BY <4>1, <4>2 DEF Map!LongestAgo, Map!Known
    <3>4. {cache[s].ip} \in Map!GivenUp(ip)
      <4>1. ip \notin Map!Known /\ ~ (Map!Cardinality(Map!Known) < ARP_CACHE_SIZE)
        BY <2>3, <1>0, FullMeansNoSlotFree DEF SlotsAreEntries, Map!Known
      <4>2. Map!GivenUp(ip) = {{old} : old \in Map!LongestAgo}
        BY <4>1 DEF Map!GivenUp
      <4>. QED BY <3>3, <4>2
    <3>5. ip # cache[s].ip
      BY <1>2, <2>3, <3>2
    <3>6. \A j \in Ip \ {ip} : j \in {cache[s].ip} <=> s \in Holding(cache, j)
      BY <3>1, <3>2 DEF Holding
    <3>. QED BY <3>4, <3>5, <3>6
  <2>. QED BY <2>1, <2>2, <2>3
<1>8. PICK lost \in Map!GivenUp(ip) :
        /\ ip \notin lost
        /\ \A j \in Ip \ {ip} : j \in lost <=> s \in Holding(cache, j)
  BY <1>7
<1>9. [j \in Ip |-> Entry(j)'] =
      [j \in Ip |-> CASE j = ip -> [mac |-> mac, ts |-> now]
                      [] j \in lost -> NotFound
                      [] OTHER -> [k \in Ip |-> Entry(k)][j]]
  <2>. SUFFICES ASSUME NEW j \in Ip
       PROVE  Entry(j)' = CASE j = ip -> [mac |-> mac, ts |-> now]
                            [] j \in lost -> NotFound
                            [] OTHER -> Entry(j)
    OBVIOUS
  <2>1. CASE j = ip
    BY <1>4, <1>8, <2>1
  <2>2. CASE j # ip /\ s \in Holding(cache, j)
    <3>1. Entry(j)' = NotFound /\ j \in lost
      BY <1>6, <1>8, <2>2
    <3>. QED BY <2>2, <3>1
  <2>3. CASE j # ip /\ s \notin Holding(cache, j)
    <3>1. Entry(j)' = Entry(j) /\ j \notin lost
      BY <1>5, <1>8, <2>3
    <3>. QED BY <2>3, <3>1
  <2>. QED BY <2>1, <2>2, <2>3
<1>. QED BY <1>8, <1>9 DEF Map!Learn, Learn

\* arp_lookup: a hit leaves the map as it is, a miss forgets the address.
LEMMA LookupRefines ==
  ASSUME Inv, Inv', NEW ip \in Ip, Lookup(ip)
  PROVE  Map!LookupHit(ip) \/ Map!LookupMiss(ip)
<1>0. SlotsAreEntries /\ SlotsAreEntries'
  BY EntryOfSlot, PTL
<1>1. /\ \A i \in Slots : /\ cache'[i].ip = cache[i].ip /\ cache'[i].mac = cache[i].mac
                          /\ cache'[i].ts = cache[i].ts
                          /\ cache'[i].valid <=>
                               cache[i].valid /\ i \notin LookupPasses(cache, ip, now)
      /\ answer' = [ip |-> ip, mac |-> LookupMac(cache, ip, now)] /\ now' = now
  BY DEF Lookup, AfterLookup, Inv, TypeOK, arp_entry_t
<1>2. \A i, j \in Holding(cache, ip) : i = j
  BY DEF Holding, Inv, Agrees
\* Only the entry of ip can be dropped.
<1>3. ASSUME NEW j \in Ip, j # ip \/ LookupPasses(cache, ip, now) = {}
      PROVE  Entry(j)' = Entry(j)
  <2>1. Holding(cache', j) = Holding(cache, j)
    BY <1>1, <1>3 DEF Holding, LookupPasses
  <2>2. \A i \in Holding(cache, j) : cache'[i].mac = cache[i].mac /\ cache'[i].ts = cache[i].ts
    BY <1>1 DEF Holding
  <2>. QED BY <1>0, <2>1, <2>2 DEF SlotsAreEntries
<1>4. CASE Fresh(cache, ip, now) # {}
  <2>1. PICK i \in Fresh(cache, ip, now) : i = Min(Fresh(cache, ip, now))
    BY <1>4, MinOfSlots DEF Fresh, Holding
  <2>2. i \in Holding(cache, ip) /\ now - cache[i].ts < ARP_TIMEOUT_MS
    BY DEF Fresh
  <2>3. LookupPasses(cache, ip, now) = {}
    <3>1. ~ (i < i)
      BY <2>2 DEF Holding, Slots
    <3>. QED BY <1>2, <2>2, <3>1 DEF LookupPasses
  <2>4. LookupMac(cache, ip, now) = cache[i].mac
    BY <1>4, <2>1 DEF LookupMac
  <2>5. Entry(ip) = [mac |-> cache[i].mac, ts |-> cache[i].ts] /\ Entry(ip) # NotFound
    BY <1>0, <2>2 DEF SlotsAreEntries
  <2>6. [j \in Ip |-> Entry(j)'] = [j \in Ip |-> Entry(j)]
    BY <1>3, <2>3
  <2>. QED BY <1>1, <2>2, <2>4, <2>5, <2>6 DEF Map!LookupHit, Map!Known
<1>5. CASE Fresh(cache, ip, now) = {}
  <2>1. LookupPasses(cache, ip, now) = Holding(cache, ip)
    BY <1>5 DEF LookupPasses
  <2>2. ASSUME NEW j \in Ip, j = ip PROVE Entry(j)' = NotFound
    <3>1. Holding(cache', j) = {}
      BY <1>1, <2>1, <2>2 DEF Holding
    <3>. QED BY <1>0, <3>1 DEF SlotsAreEntries
  <2>3. [j \in Ip |-> Entry(j)'] = [[j \in Ip |-> Entry(j)] EXCEPT ![ip] = NotFound]
    BY <1>3, <2>2
  <2>4. LookupMac(cache, ip, now) = NotFound
    BY <1>5 DEF LookupMac
  <2>5. Entry(ip) = NotFound \/ now - Entry(ip).ts >= ARP_TIMEOUT_MS
    <3>1. ASSUME NEW i \in Holding(cache, ip) PROVE now - cache[i].ts >= ARP_TIMEOUT_MS
      <4>1. ~ (now - cache[i].ts < ARP_TIMEOUT_MS)
        BY <1>5 DEF Fresh
      <4>2. now \in Nat /\ cache[i].ts \in Nat
        BY DEF Inv, TypeOK, Holding, arp_entry_t
      <4>. QED BY <4>1, <4>2, ArpAssumption
    <3>. QED BY <1>0, <3>1 DEF SlotsAreEntries
  <2>. QED BY <1>1, <2>3, <2>4, <2>5 DEF Map!LookupMiss, Map!Known
<1>. QED BY <1>4, <1>5

LEMMA NextRefines == Inv /\ Inv' /\ [Next]_vars => [Map!Next]_Map!vars
<1> SUFFICES ASSUME Inv, Inv', [Next]_vars PROVE [Map!Next]_Map!vars
  OBVIOUS
<1>1. ASSUME NEW ip \in Ip, NEW mac \in Mac, Learn(ip, mac) PROVE Map!Next
  BY <1>1, LearnRefines DEF Map!Next
<1>2. ASSUME NEW ip \in Ip, Lookup(ip) PROVE Map!Next
  BY <1>2, LookupRefines DEF Map!Next
<1>3. CASE Flush
  <2>1. \A ip \in Ip : Entry(ip)' = NotFound
    BY <1>3 DEF Flush, Entry, Holding, ZeroedCache
  <2>. QED BY <1>3, <2>1 DEF Flush, Map!Next, Map!Flush
<1>4. CASE Tick
  <2>1. \A ip \in Ip : Entry(ip)' = Entry(ip)
    BY <1>4 DEF Tick, Entry
  <2>. QED BY <1>4, <2>1 DEF Tick, Map!Next, Map!Tick
<1>5. CASE UNCHANGED vars
  <2>1. \A ip \in Ip : Entry(ip)' = Entry(ip)
    BY <1>5 DEF vars, Entry
  <2>. QED BY <1>5, <2>1 DEF vars, Map!vars
<1>. QED BY <1>1, <1>2, <1>3, <1>4, <1>5 DEF Next

\* The array with its searches, updates in place, evictions and lazy expiry
\* implements NeighborMap for every table size: no caller of arp_learn and
\* arp_lookup can tell it from the map.
THEOREM RefinesMap == Spec => ImplementsMap
BY InitInv, NextInv, InitRefines, NextRefines, PTL DEF Spec, ImplementsMap, Map!Spec

=============================================================================
