------------------------------ MODULE ArpCache ------------------------------
(***************************************************************************)
(* The ARP cache as a state machine: the four functions of the code that   *)
(* touch g_net.arp_cache, called in any order and with any argument, while *)
(* the clock runs.                                                         *)
(*                                                                         *)
(* Callers pass any address to arp_learn, 0.0.0.0 included: arp_rx tests   *)
(* for it, ip_rx does not.  Each function runs to its end before another   *)
(* starts, which is what the cooperative scheduling of the system gives    *)
(* functions that make no blocking call.                                   *)
(***************************************************************************)
EXTENDS ArpTable

CONSTANTS
  NoAnswer,   \* the latest call was not an arp_lookup
  MaxTime     \* bound on the clock

Answer == [ip : Ip, mac : Mac \cup {ZeroMac, NotFound}]

ASSUME ClockAssumption ==
  /\ MaxTime \in Nat
  /\ NoAnswer \notin Answer
  /\ NotFound \notin [mac : Mac \cup {ZeroMac}, ts : Nat]

VARIABLES
  cache,      \* g_net.arp_cache
  now,        \* time_ms()
  answer,     \* what the latest call returned
  heard       \* history: what was last learned of each address since a flush

vars == <<cache, now, answer, heard>>

NothingHeard == [ip \in Ip |-> NotFound]

\* md_main calls arp_init before anything else can run.
Init ==
  /\ cache = ZeroedCache
  /\ now = 0
  /\ answer = NoAnswer
  /\ heard = NothingHeard

Learn(ip, mac) ==
  /\ cache' = ArpLearn(cache, ip, mac, now)
  /\ heard' = [heard EXCEPT ![ip] = [mac |-> mac, ts |-> now]]
  /\ answer' = NoAnswer
  /\ UNCHANGED now

Lookup(ip) ==
  /\ cache' = AfterLookup(cache, ip, now)
  /\ answer' = [ip |-> ip, mac |-> LookupMac(cache, ip, now)]
  /\ UNCHANGED <<now, heard>>

\* NETD_CMD_ARP_FLUSH.
Flush ==
  /\ cache' = ZeroedCache
  /\ heard' = NothingHeard
  /\ answer' = NoAnswer
  /\ UNCHANGED now

Tick ==
  /\ now < MaxTime
  /\ now' = now + 1
  /\ answer' = NoAnswer
  /\ UNCHANGED <<cache, heard>>

Next ==
  \/ \E ip \in Ip, mac \in Mac : Learn(ip, mac)
  \/ \E ip \in Ip : Lookup(ip)
  \/ Flush
  \/ Tick

Spec == Init /\ [][Next]_vars

-----------------------------------------------------------------------------

\* The type invariant.  An entry is never stamped later than the clock: the
\* unsigned subtraction time_ms() - ts in arp_lookup cannot wrap around.
TypeOK ==
  /\ cache \in [Slots -> arp_entry_t]
  /\ now \in 0 .. MaxTime
  /\ answer \in {NoAnswer} \cup Answer
  /\ heard \in [Ip -> {NotFound} \cup [mac : Mac, ts : Nat]]
  /\ \A i \in Slots : cache[i].ts <= now

\* No address is in two slots: arp_learn would refresh one of them, and the
\* other would come back once the first had expired.
UniqueIp ==
  \A i, j \in Slots :
    cache[i].valid /\ cache[j].valid /\ cache[i].ip = cache[j].ip => i = j

\* An address given by arp_lookup is the one heard last for that address,
\* and it was heard less than ARP_TIMEOUT_MS ago, whatever was learned,
\* evicted, expired and learned again in between.
AnswerIsLatest ==
  answer # NoAnswer /\ answer.mac # NotFound =>
    LET h == heard[answer.ip]
    IN  h # NotFound /\ h.mac = answer.mac /\ now - h.ts < ARP_TIMEOUT_MS

\* The other addresses heard when ip was last heard or since.
HeardSince(ip) ==
  {j \in Ip \ {ip} : heard[j] # NotFound /\ heard[j].ts >= heard[ip].ts}

\* arp_lookup fails for an address heard within ARP_TIMEOUT_MS only when as
\* many other addresses as the table has slots were heard no earlier: stale
\* and older entries are given up first (the oldest-slot rule of arp_learn).
FreshIsAnswered ==
  answer # NoAnswer /\ answer.mac = NotFound =>
    LET h == heard[answer.ip]
    IN  h # NotFound /\ now - h.ts < ARP_TIMEOUT_MS =>
          Cardinality(HeardSince(answer.ip)) >= ARP_CACHE_SIZE

-----------------------------------------------------------------------------

\* The array read as a map: the first valid slot of an address, if any.
Entry(ip) ==
  IF Holding(cache, ip) = {}
  THEN NotFound
  ELSE LET e == cache[Min(Holding(cache, ip))] IN [mac |-> e.mac, ts |-> e.ts]

Map == INSTANCE NeighborMap WITH
         known <- [ip \in Ip |-> Entry(ip)],
         Capacity <- ARP_CACHE_SIZE, Timeout <- ARP_TIMEOUT_MS

\* The array with its linear searches, in-place updates, evictions and lazy
\* expiry implements the map of NeighborMap.
ImplementsMap == Map!Spec

=============================================================================
