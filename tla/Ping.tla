-------------------------------- MODULE Ping --------------------------------
(***************************************************************************)
(* NETD_CMD_PING of src/src/api.c with icmp_ping and the echo-reply half   *)
(* of icmp_rx in src/src/icmp.c.                                           *)
(*                                                                         *)
(* An invocation sends count echo requests, one at a time, and waits for   *)
(* each until its deadline.  It shares four fields of g_net with icmp_rx,  *)
(* which other flows run: main, or a dns_resolve.  Control changes hands   *)
(* while a request is being sent (twice when an ARP request precedes it)   *)
(* and in the yield of the waiting loop.  The network loses, repeats and   *)
(* delays requests and answers.                                            *)
(***************************************************************************)
EXTENDS Integers, FiniteSets

CONSTANTS
  Caller,    \* invocations that may overlap
  Station,   \* the addresses pinged
  MaxCalls,  \* bound on the invocations of a caller
  MaxCount,  \* bound on the count of a request
  Id,        \* Id[f][n]: what the n-th invocation of f draws from the clock
  NoId,      \* a zeroed ping_id
  ZeroIp     \* reply_ip before any reply

Calls == 1 .. MaxCalls
Seqs == 1 .. MaxCount

\* The identifier is the time in ms modulo 2^16: invocations that begin in
\* different milliseconds of a period of 65 seconds draw different ones.
ASSUME PingAssumption ==
  /\ MaxCalls \in Nat /\ MaxCount \in Nat
  /\ ZeroIp \notin Station
  /\ \A f, g \in Caller, m, n \in Calls : Id[f][m] = Id[g][n] => f = g /\ m = n

Ids == {Id[f][n] : f \in Caller, n \in Calls}

Echo == [id : Ids, seq : Seqs, ip : Station]

VARIABLES
  pc,         \* per caller: free, sending, sent, waiting
  calls,      \* per caller: invocations so far
  target,     \* per caller: the address pinged
  count,      \* per caller: requests to send
  seq,        \* per caller: seq + i of the current round
  rep,        \* per caller: the netd_ping_rep_t being filled
  late,       \* per caller: the deadline of the round has passed
  ping,       \* g_net.ping_id, ping_seq, ping_replied, ping_reply_ip
  requests,   \* echo requests that reached the network
  answers,    \* echo replies that stations sent
  credited,   \* history: the rounds of the invocation that counted a reply
  alone,      \* history: no other invocation ran during this one
  handled     \* history: the current request's replies seen by icmp_rx

caller == <<pc, calls, target, count, seq, rep, late>>
vars == <<caller, ping, requests, answers, credited, alone, handled>>

MyId(f) == Id[f][calls[f]]

NoReply == [replied |-> FALSE, ip |-> ZeroIp]

Init ==
  /\ pc = [f \in Caller |-> "free"]
  /\ calls = [f \in Caller |-> 0]
  /\ target = [f \in Caller |-> ZeroIp]
  /\ count = [f \in Caller |-> 0]
  /\ seq = [f \in Caller |-> 0]
  /\ rep = [f \in Caller |-> NoReply]
  /\ late = [f \in Caller |-> FALSE]
  /\ ping = [id |-> NoId, seq |-> 0, replied |-> FALSE, ip |-> ZeroIp]
  /\ requests = {} /\ answers = {}
  /\ credited = [f \in Caller |-> {}]
  /\ alone = [f \in Caller |-> TRUE]
  /\ handled = {}

-----------------------------------------------------------------------------

\* icmp_ping up to the call of ip_tx: the fields say what is awaited before
\* the request leaves.
Awaits(id, s) == ping' = [ping EXCEPT !.id = id, !.seq = s, !.replied = FALSE]

\* The command arrives; the first round starts at once.
Invoke(f, ip, n) ==
  /\ pc[f] = "free" /\ calls[f] < MaxCalls
  /\ calls' = [calls EXCEPT ![f] = @ + 1]
  /\ target' = [target EXCEPT ![f] = ip]
  /\ count' = [count EXCEPT ![f] = n]
  /\ seq' = [seq EXCEPT ![f] = 1]
  /\ rep' = [rep EXCEPT ![f] = NoReply]
  /\ pc' = [pc EXCEPT ![f] = "sending"]
  /\ Awaits(MyId(f)', 1)
  /\ credited' = [credited EXCEPT ![f] = {}]
  /\ alone' = [g \in Caller |-> IF g = f THEN \A h \in Caller \ {f} : pc[h] = "free"
                                ELSE alone[g] /\ pc[g] = "free"]
  /\ UNCHANGED <<late, requests, answers, handled>>

\* The card takes the frame, or the send fails: ping does not look.
Transmit(f) ==
  /\ pc[f] = "sending"
  /\ \/ requests' = requests \cup {[id |-> MyId(f), seq |-> seq[f], ip |-> target[f]]}
     \/ UNCHANGED requests
  /\ pc' = [pc EXCEPT ![f] = "sent"]
  /\ UNCHANGED <<calls, target, count, seq, rep, late, ping, answers, credited, alone, handled>>

\* Faulty: ping_replied is cleared when the request has left.
Await_Reset(f) ==
  /\ pc[f] = "sent"
  /\ pc' = [pc EXCEPT ![f] = "waiting"]
  /\ late' = [late EXCEPT ![f] = FALSE]
  /\ ping' = [ping EXCEPT !.replied = FALSE]
  /\ UNCHANGED <<calls, target, count, seq, rep, requests, answers, credited, alone, handled>>

\* icmp_ping returns and the deadline is computed.
Await(f) ==
  /\ pc[f] = "sent"
  /\ pc' = [pc EXCEPT ![f] = "waiting"]
  /\ late' = [late EXCEPT ![f] = FALSE]
  /\ UNCHANGED <<calls, target, count, seq, rep, ping, requests, answers, credited, alone, handled>>

Expire(f) ==
  /\ pc[f] = "waiting" /\ ~ late[f]
  /\ late' = [late EXCEPT ![f] = TRUE]
  /\ UNCHANGED <<pc, calls, target, count, seq, rep, ping, requests, answers, credited, alone, handled>>

\* Faulty: the deadline is forgotten.
WaitIsOver_Patient(f) == ping.replied

WaitIsOver(f) == late[f] \/ ping.replied

\* Faulty: one round too many.
MoreRounds_OffByOne(f) == seq[f] <= count[f]

MoreRounds(f) == seq[f] < count[f]

\* The waiting loop ends: a reply is counted, and the next round starts or
\* the invocation returns.
EndRound(f) ==
  /\ pc[f] = "waiting" /\ WaitIsOver(f)
  /\ rep' = IF ping.replied
            THEN [rep EXCEPT ![f] = [replied |-> TRUE, ip |-> ping.ip]] ELSE rep
  /\ credited' = IF ping.replied
                 THEN [credited EXCEPT ![f] = @ \cup {seq[f]}] ELSE credited
  /\ \/ /\ MoreRounds(f)
        /\ seq' = [seq EXCEPT ![f] = @ + 1]
        /\ pc' = [pc EXCEPT ![f] = "sending"]
        /\ Awaits(MyId(f), seq[f] + 1)
     \/ /\ ~ MoreRounds(f)
        /\ pc' = [pc EXCEPT ![f] = "free"]
        /\ ping' = [ping EXCEPT !.replied = FALSE]
        /\ UNCHANGED seq
  /\ UNCHANGED <<calls, target, count, late, requests, answers, alone, handled>>

\* Faulty: replies to earlier requests are taken for the current one's.
Matches_AnySeq(m) == m.id = ping.id

Matches(m) == m.id = ping.id /\ m.seq = ping.seq

\* The invocation that sent the request m answers has not returned.
Outstanding(m) == \E f \in Caller : pc[f] # "free" /\ m.id = MyId(f)

\* The echo-reply branch of icmp_rx, in whatever flow receives the frame; a
\* reply that does not match changes nothing.
icmp_rx(m) ==
  /\ m \in answers /\ Matches(m)
  /\ ping' = [ping EXCEPT !.replied = TRUE, !.ip = m.ip]
  /\ handled' = IF Outstanding(m) THEN handled \cup {m} ELSE handled
  /\ UNCHANGED <<caller, requests, answers, credited, alone>>

\* A station answers a request that reached it.
Answer(r) ==
  /\ r \in requests
  /\ answers' = answers \cup {r}
  /\ UNCHANGED <<caller, ping, requests, credited, alone, handled>>

CallerStep(f) ==
  \/ \E ip \in Station, n \in Seqs : Invoke(f, ip, n)
  \/ Transmit(f) \/ Await(f) \/ Expire(f) \/ EndRound(f)

Next ==
  \/ \E f \in Caller : CallerStep(f)
  \/ \E m \in answers : icmp_rx(m)
  \/ \E r \in requests : Answer(r)

Spec == Init /\ [][Next]_vars

\* The clock runs and an invocation that can go on does; the driver returns.
Fairness ==
  \A f \in Caller : WF_vars(Transmit(f) \/ Await(f) \/ EndRound(f)) /\ WF_vars(Expire(f))

FairSpec == Spec /\ Fairness

-----------------------------------------------------------------------------

\* The type invariant.
TypeOK ==
  /\ pc \in [Caller -> {"free", "sending", "sent", "waiting"}]
  /\ calls \in [Caller -> 0 .. MaxCalls]
  /\ target \in [Caller -> Station \cup {ZeroIp}]
  /\ count \in [Caller -> 0 .. MaxCount]
  /\ seq \in [Caller -> 0 .. MaxCount]
  /\ rep \in [Caller -> [replied : BOOLEAN, ip : Station \cup {ZeroIp}]]
  /\ late \in [Caller -> BOOLEAN]
  /\ ping \in [id : Ids \cup {NoId}, seq : 0 .. MaxCount, replied : BOOLEAN,
               ip : Station \cup {ZeroIp}]
  /\ requests \subseteq Echo /\ answers \subseteq Echo
  /\ credited \in [Caller -> SUBSET Seqs]
  /\ alone \in [Caller -> BOOLEAN]
  /\ handled \subseteq Echo

\* A round of a ping that no other overlapped counts a reply only when the
\* station pinged answered that very round's request: not an earlier round's,
\* whose answer is late, and not one of an invocation that gave up before.
CountedWasAnswered ==
  \A f \in Caller : alone[f] =>
    /\ \A s \in credited[f] : [id |-> MyId(f), seq |-> s, ip |-> target[f]] \in answers
    /\ rep[f].replied => credited[f] # {} /\ rep[f].ip = target[f]

\* The reply that icmp_rx matched while an invocation ran, and no other, is
\* never lost: when its round is over it has been counted, even if it was
\* handled before icmp_ping returned.
MatchedIsCounted ==
  \A f \in Caller, m \in handled :
    /\ alone[f]
    /\ calls[f] > 0 /\ m.id = MyId(f)
    /\ m.seq < seq[f] \/ pc[f] = "free"
    => m.seq \in credited[f]

\* A ping returns whatever the network does and whoever else pings.
PingEnds == \A f \in Caller : pc[f] # "free" ~> pc[f] = "free"

=============================================================================
