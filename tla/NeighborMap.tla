---------------------------- MODULE NeighborMap -----------------------------
(***************************************************************************)
(* What a neighbour cache promises its callers, with no array in sight: a  *)
(* map from addresses to the hardware address last learned for them and    *)
(* when.  It holds at most Capacity addresses, gives one up only to make   *)
(* room for an address it does not know, and then the one learned longest  *)
(* ago; it never answers with a mapping as old as Timeout.                 *)
(***************************************************************************)
EXTENDS Integers, FiniteSets

CONSTANTS Ip, Mac, NotFound, NoAnswer, Capacity, Timeout, MaxTime

VARIABLES
  known,    \* what the map holds for each address, NotFound for nothing
  now,
  answer    \* what the latest call returned

vars == <<known, now, answer>>

Known == {ip \in Ip : known[ip] # NotFound}

\* The addresses learned no later than any other.
LongestAgo == {i \in Known : \A j \in Known : known[i].ts <= known[j].ts}

Init ==
  /\ known = [ip \in Ip |-> NotFound]
  /\ now = 0
  /\ answer = NoAnswer

\* The sets of addresses that may be given up when ip is learned.
GivenUp(ip) ==
  IF ip \in Known \/ Cardinality(Known) < Capacity
  THEN {{}}
  ELSE {{old} : old \in LongestAgo}

Learn(ip, mac) ==
  /\ \E lost \in GivenUp(ip) :
       known' = [j \in Ip |-> CASE j = ip -> [mac |-> mac, ts |-> now]
                                [] j \in lost -> NotFound
                                [] OTHER -> known[j]]
  /\ answer' = NoAnswer
  /\ UNCHANGED now

LookupHit(ip) ==
  /\ ip \in Known /\ now - known[ip].ts < Timeout
  /\ answer' = [ip |-> ip, mac |-> known[ip].mac]
  /\ UNCHANGED <<known, now>>

LookupMiss(ip) ==
  /\ ip \notin Known \/ now - known[ip].ts >= Timeout
  /\ known' = [known EXCEPT ![ip] = NotFound]
  /\ answer' = [ip |-> ip, mac |-> NotFound]
  /\ UNCHANGED now

Flush ==
  /\ known' = [ip \in Ip |-> NotFound]
  /\ answer' = NoAnswer
  /\ UNCHANGED now

Tick ==
  /\ now < MaxTime
  /\ now' = now + 1
  /\ answer' = NoAnswer
  /\ UNCHANGED known

Next ==
  \/ \E ip \in Ip : (\E mac \in Mac : Learn(ip, mac))
                       \/ LookupHit(ip) \/ LookupMiss(ip)
  \/ Flush
  \/ Tick

Spec == Init /\ [][Next]_vars

=============================================================================
