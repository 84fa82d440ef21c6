------------------------------ MODULE ArpTable ------------------------------
(***************************************************************************)
(* The ARP cache of src/src/arp.c as a data structure: the array           *)
(* g_net.arp_cache and the functions that read or write it, as operators   *)
(* on a cache value.  ArpCache turns them into a state machine; IpPath     *)
(* calls them from the handlers that use the cache.                        *)
(***************************************************************************)
EXTENDS Integers, FiniteSetsExt

CONSTANTS
  Ip,              \* the IPv4 addresses of the instance
  ZeroIp,          \* 0.0.0.0, the address a zeroed entry holds
  Mac,             \* the hardware addresses that stations claim
  ZeroMac,         \* 00:00:00:00:00:00, the address a zeroed entry holds
  NotFound,        \* arp_lookup's result when it returns -1
  ARP_CACHE_SIZE,  \* number of slots
  ARP_TIMEOUT_MS   \* age, in clock units, at which an entry is stale

ASSUME ArpAssumption ==
  /\ ZeroIp \in Ip /\ IsFiniteSet(Ip)
  /\ NotFound \notin Mac \cup {ZeroMac}
  /\ ARP_CACHE_SIZE \in Nat \ {0}
  /\ ARP_TIMEOUT_MS \in Nat \ {0}

Slots == 0 .. ARP_CACHE_SIZE - 1

arp_entry_t == [ip : Ip, mac : Mac \cup {ZeroMac}, ts : Nat, valid : BOOLEAN]

\* arp_init and the API's ARP_FLUSH: the whole array set to zero bytes.
ZeroedCache ==
  [i \in Slots |-> [ip |-> ZeroIp, mac |-> ZeroMac, ts |-> 0, valid |-> FALSE]]

\* The slots both functions search for: valid and of that address.
Holding(c, ip) == {i \in Slots : c[i].valid /\ c[i].ip = ip}

Free(c) == {i \in Slots : ~ c[i].valid}

Oldest(c) == {i \in Slots : \A j \in Slots : c[i].ts <= c[j].ts}

-----------------------------------------------------------------------------
(* Faulty variants of LearnSlot, ArpLearn and Fresh: slips one could make  *)
(* in arp.c.  No specification uses them; they are there to show that the  *)
(* properties can tell the code from its near misses.                      *)

\* The "update existing" loop is missing.
LearnSlot_NoUpdate(c, ip) ==
  IF Free(c) # {} THEN Min(Free(c)) ELSE Min(Oldest(c))

\* The comparison with "oldest" is the wrong way round.
LearnSlot_Newest(c, ip) ==
  CASE Holding(c, ip) # {} -> Min(Holding(c, ip))
    [] Holding(c, ip) = {} /\ Free(c) # {} -> Min(Free(c))
    [] OTHER -> CHOOSE i \in Slots : \A j \in Slots : c[i].ts >= c[j].ts

\* The search for a free slot is missing.
LearnSlot_IgnoreFree(c, ip) ==
  IF Holding(c, ip) # {} THEN Min(Holding(c, ip)) ELSE Min(Oldest(c))

\* Fresh up to and including the timeout.
Fresh_Inclusive(c, ip, t) ==
  {i \in Holding(c, ip) : t - c[i].ts <= ARP_TIMEOUT_MS}
-----------------------------------------------------------------------------

\* arp_learn's choice of slot: the entry of that address, else the first
\* free slot, else the first slot with the smallest time stamp.
LearnSlot(c, ip) ==
  CASE Holding(c, ip) # {} -> Min(Holding(c, ip))
    [] Holding(c, ip) = {} /\ Free(c) # {} -> Min(Free(c))
    [] OTHER -> Min(Oldest(c))

\* Faulty: the stamp is when the entry expires, not when it was learned.
ArpLearn_Expiry(c, ip, mac, t) ==
  [c EXCEPT ![LearnSlot(c, ip)] =
     [ip |-> ip, mac |-> mac, ts |-> t + ARP_TIMEOUT_MS, valid |-> TRUE]]

\* The cache after arp_learn(ip, mac) at time t.
ArpLearn(c, ip, mac, t) ==
  [c EXCEPT ![LearnSlot(c, ip)] =
     [ip |-> ip, mac |-> mac, ts |-> t, valid |-> TRUE]]

Fresh(c, ip, t) == {i \in Holding(c, ip) : t - c[i].ts < ARP_TIMEOUT_MS}

\* What arp_lookup(ip) at time t returns.
LookupMac(c, ip, t) ==
  IF Fresh(c, ip, t) = {} THEN NotFound ELSE c[Min(Fresh(c, ip, t))].mac

\* The stale entries the loop of arp_lookup passes before it returns.
LookupPasses(c, ip, t) ==
  {i \in Holding(c, ip) : \A j \in Fresh(c, ip, t) : i < j}

\* The cache after arp_lookup(ip) at time t: what it passed is invalid.
AfterLookup(c, ip, t) ==
  [i \in Slots |-> [c[i] EXCEPT
     !.valid = @ /\ i \notin LookupPasses(c, ip, t)]]

=============================================================================
