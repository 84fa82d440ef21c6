------------------------------ MODULE Resolver ------------------------------
(***************************************************************************)
(* The DNS resolver of src/src/dns.c: dns_resolve in the flow of an API    *)
(* invocation, dns_rx in whatever flow receives the answer, dns_resolve's  *)
(* own loop included.  Invocations overlap and share the three fields of   *)
(* g_net: control changes hands while a query is being sent, and in every  *)
(* turn of the loop.                                                       *)
(*                                                                         *)
(* Name servers answer queries they received: with an address of the name, *)
(* or without one.  The network loses, repeats and delays; answers to      *)
(* queries that were given up still arrive.  What dns_rx parses out of a   *)
(* message is abstracted to whether it found an address record.            *)
(***************************************************************************)
EXTENDS Integers

CONSTANTS
  Caller,     \* invocations that may overlap
  Name,       \* the names clients ask for
  TooLong,    \* those that dns_build_query refuses
  Address,    \* Address[n]: what servers may answer for name n
  MaxCalls,   \* bound on the invocations
  Txid,       \* Txid[n]: what the n-th invocation draws from the clock
  NoTxid,     \* a zeroed dns_txid
  NoName,     \* nothing was asked yet
  ZeroIp      \* a zeroed dns_result

Calls == 1 .. MaxCalls

\* The transaction number is the time in ms modulo 2^16; invocations are
\* assumed to draw different ones.
ASSUME ResolverAssumption ==
  /\ TooLong \subseteq Name /\ NoName \notin Name
  /\ ZeroIp \notin UNION {Address[n] : n \in Name}
  /\ MaxCalls \in Nat
  /\ \A m, n \in Calls : Txid[m] = Txid[n] => m = n
  /\ NoTxid \notin {Txid[n] : n \in Calls}

Txids == {Txid[n] : n \in Calls}

Ips == UNION {Address[n] : n \in Name}

Query == [txid : Txids, name : Name]

\* ip is ZeroIp in an answer without an address record.
Reply == [txid : Txids, ip : Ips \cup {ZeroIp}]

VARIABLES
  pc,         \* per caller: free, sending, looping
  call,       \* per caller: the number of its latest invocation, or 0
  name,       \* per caller: what that invocation asks for
  late,       \* per caller: the deadline has passed
  result,     \* per caller: what it returned, its status and ip
  calls,      \* invocations so far
  ready,      \* g_net.dns and g_net.ip are set
  dns_txid, dns_done, dns_result,
  queries,    \* queries that reached the network
  answers,    \* what name servers sent
  seen,       \* history: per caller, the answers dns_rx accepted during it
  drawn       \* history: per caller, the numbers drawn by it and during it

caller == <<pc, call, name, late, result>>
dns == <<dns_txid, dns_done, dns_result>>
history == <<seen, drawn>>
vars == <<caller, calls, ready, dns, queries, answers, history>>

NoResult == [rc |-> -1, ip |-> ZeroIp]

Init ==
  /\ pc = [f \in Caller |-> "free"]
  /\ call = [f \in Caller |-> 0]
  /\ name = [f \in Caller |-> NoName]
  /\ late = [f \in Caller |-> FALSE]
  /\ result = [f \in Caller |-> NoResult]
  /\ calls = 0 /\ ready \in BOOLEAN
  /\ dns_txid = NoTxid /\ dns_done = 0 /\ dns_result = ZeroIp
  /\ queries = {} /\ answers = {}
  /\ seen = [f \in Caller |-> {}] /\ drawn = [f \in Caller |-> {}]

MyTxid(f) == Txid[call[f]]

-----------------------------------------------------------------------------

\* Faulty: dns_done is left as the previous invocation left it.
Prepared_NoReset(n) ==
  /\ dns_txid' = Txid[calls + 1]
  /\ UNCHANGED <<dns_done, dns_result>>

\* What dns_resolve sets before it asks.
Prepared(n) ==
  /\ dns_txid' = Txid[calls + 1]
  /\ dns_done' = 0
  /\ dns_result' = ZeroIp

\* NETD_CMD_DNS_RESOLVE: refused without an address or a name server, and,
\* after the fields are set, for a name that does not fit into a query.
Invoke(f, n) ==
  /\ pc[f] = "free" /\ calls < MaxCalls
  /\ calls' = calls + 1
  /\ call' = [call EXCEPT ![f] = calls + 1]
  /\ name' = [name EXCEPT ![f] = n]
  /\ result' = [result EXCEPT ![f] = NoResult]
  /\ seen' = [seen EXCEPT ![f] = {}]
  /\ \/ /\ ~ ready
        /\ drawn' = [drawn EXCEPT ![f] = {}]
        /\ UNCHANGED <<pc, dns>>
     \/ /\ ready /\ Prepared(n)
        /\ drawn' = [g \in Caller |-> IF g = f THEN {Txid[calls + 1]}
                                      ELSE IF pc[g] = "free" THEN drawn[g]
                                      ELSE drawn[g] \cup {Txid[calls + 1]}]
        /\ pc' = IF n \in TooLong THEN pc ELSE [pc EXCEPT ![f] = "sending"]
  /\ UNCHANGED <<late, ready, queries, answers>>

\* udp_tx returns, whether it sent the query or failed; the deadline is set.
Transmit(f) ==
  /\ pc[f] = "sending"
  /\ queries' \in {queries, queries \cup {[txid |-> MyTxid(f), name |-> name[f]]}}
  /\ pc' = [pc EXCEPT ![f] = "looping"]
  /\ late' = [late EXCEPT ![f] = FALSE]
  /\ UNCHANGED <<call, name, result, calls, ready, dns, answers, history>>

Expire(f) ==
  /\ pc[f] = "looping" /\ ~ late[f]
  /\ late' = [late EXCEPT ![f] = TRUE]
  /\ UNCHANGED <<pc, call, name, result, calls, ready, dns, queries, answers, history>>

-----------------------------------------------------------------------------

\* Faulty: the transaction number is not compared.
Matches_AnyTxid(m) == TRUE

Matches(m) == m.txid = dns_txid

\* Faulty: the answers are counted.
DoneAfter_Counts(m) ==
  IF ~ Matches(m) THEN dns_done ELSE IF m.ip = ZeroIp THEN -1 ELSE dns_done + 1

\* What dns_rx leaves in done and result: an answer without an address
\* overwrites done only.
DoneAfter(m) == IF ~ Matches(m) THEN dns_done ELSE IF m.ip = ZeroIp THEN -1 ELSE 1

ResultAfter(m) == IF Matches(m) /\ m.ip # ZeroIp THEN m.ip ELSE dns_result

SeenAfter(m) ==
  [f \in Caller |-> IF Matches(m) /\ pc[f] # "free" THEN seen[f] \cup {m} ELSE seen[f]]

RxEffect(m) ==
  /\ dns_done' = DoneAfter(m) /\ dns_result' = ResultAfter(m) /\ seen' = SeenAfter(m)
  /\ UNCHANGED <<call, name, late, calls, ready, dns_txid, queries, answers, drawn>>

Leave(f, done, ip) ==
  /\ pc' = [pc EXCEPT ![f] = "free"]
  /\ result' = [result EXCEPT ![f] = IF done = 1 THEN [rc |-> 0, ip |-> ip] ELSE NoResult]

\* dns_rx in the main loop.
dns_rx(m) ==
  /\ m \in answers
  /\ RxEffect(m)
  /\ UNCHANGED <<pc, result>>

\* One turn of dns_resolve's loop that receives a DNS answer, anyone's.
PumpAnswer(f, m) ==
  /\ pc[f] = "looping" /\ ~ late[f] /\ m \in answers
  /\ RxEffect(m)
  /\ IF DoneAfter(m) # 0 THEN Leave(f, DoneAfter(m), ResultAfter(m)) ELSE UNCHANGED <<pc, result>>

\* Faulty: the loop has no deadline.
LoopEnds_Patient(f) == dns_done # 0

\* The loop's two ways out.
LoopEnds(f) == late[f] \/ dns_done # 0

\* A turn that receives nothing, or something else, and leaves the loop.
Return(f) ==
  /\ pc[f] = "looping" /\ LoopEnds(f)
  /\ Leave(f, dns_done, dns_result)
  /\ UNCHANGED <<call, name, late, calls, ready, dns, queries, answers, history>>

-----------------------------------------------------------------------------
(* The environment.                                                        *)

\* Address and name server are configured, or lost by SET_IP.
Configure ==
  /\ ready' = ~ ready
  /\ UNCHANGED <<caller, calls, dns, queries, answers, history>>

\* A name server answers a query, with an address of the name or without.
Answer(q) ==
  /\ \E ip \in Address[q.name] \cup {ZeroIp} :
       answers' = answers \cup {[txid |-> q.txid, ip |-> ip]}
  /\ UNCHANGED <<caller, calls, ready, dns, queries, history>>

CallerStep(f) ==
  \/ \E n \in Name : Invoke(f, n)
  \/ Transmit(f) \/ Expire(f) \/ Return(f)
  \/ \E m \in answers : PumpAnswer(f, m)

Next ==
  \/ \E f \in Caller : CallerStep(f)
  \/ \E m \in answers : dns_rx(m)
  \/ \E q \in queries : Answer(q)
  \/ Configure

Spec == Init /\ [][Next]_vars

\* The clock runs, the driver returns from a transmission, and the loop,
\* which yields in every turn, is scheduled again.
FairSpec ==
  Spec /\ \A f \in Caller : WF_vars(Transmit(f)) /\ WF_vars(Expire(f)) /\ WF_vars(Return(f))

-----------------------------------------------------------------------------

\* The type invariant.
TypeOK ==
  /\ pc \in [Caller -> {"free", "sending", "looping"}]
  /\ call \in [Caller -> 0 .. MaxCalls]
  /\ name \in [Caller -> Name \cup {NoName}]
  /\ late \in [Caller -> BOOLEAN]
  /\ result \in [Caller -> [rc : {0, -1}, ip : Ips \cup {ZeroIp}]]
  /\ calls \in 0 .. MaxCalls /\ ready \in BOOLEAN
  /\ dns_txid \in Txids \cup {NoTxid}
  /\ dns_done \in {-1, 0, 1}
  /\ dns_result \in Ips \cup {ZeroIp}
  /\ queries \subseteq Query /\ answers \subseteq Reply
  /\ seen \in [Caller -> SUBSET Reply] /\ drawn \in [Caller -> SUBSET Txids]
  /\ \A f \in Caller : pc[f] # "free" => call[f] > 0 /\ name[f] \in Name

\* A resolved address comes from an answer, accepted during the invocation,
\* to its own query or to one that began during it: never from the late
\* answer to a query that was given up before, and never left behind by an
\* earlier invocation.  When no other began meanwhile, it is one that a
\* server gave for the very name asked.
AnswersTheQuestion ==
  \A f \in Caller : pc[f] = "free" /\ result[f].rc = 0 =>
    /\ \E m \in seen[f] : m.ip = result[f].ip /\ m.txid \in drawn[f]
    /\ drawn[f] = {MyTxid(f)} => result[f].ip \in Address[name[f]]

\* A resolution whose query is on the network fails only for a reason: its
\* deadline passed, or dns_rx accepted an answer without an address during
\* it, also when other invocations reset the shared fields meanwhile.
FailsForAReason ==
  \A f \in Caller :
    /\ pc[f] = "free" /\ call[f] > 0 /\ result[f].rc = -1
    /\ [txid |-> MyTxid(f), name |-> name[f]] \in queries
    => late[f] \/ \E m \in seen[f] : m.ip = ZeroIp

\* A resolution returns whatever the network, the servers and the other
\* invocations do.
ResolveEnds == \A f \in Caller : pc[f] # "free" ~> pc[f] = "free"

=============================================================================
