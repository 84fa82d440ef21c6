----------------------------- MODULE ApiProofs ------------------------------
(***************************************************************************)
(* Proofs about Ping for every number of callers, invocations, rounds and  *)
(* stations, when the identifiers drawn are distinct (PingAssumption).  The*)
(* inductive invariant, Inv, says where requests come from (SentInOrder)   *)
(* and what the four shared fields of g_net hold while one invocation has  *)
(* them for itself (FieldsAreOwn).                                         *)
(*                                                                         *)
(* Then proofs about the frame of api_invoke, for every number of callers  *)
(* and invocations and all sizes of their buffers.  WaitsOnOwnBuffer says  *)
(* what an invocation that waits may still rely on in the shared g_rep.    *)
(***************************************************************************)
EXTENDS MCApi, TLAPS

-----------------------------------------------------------------------------
(* Ping: type correctness.                                                 *)

LEMMA OwnId ==
  ASSUME NEW f \in Caller, NEW n \in Calls
  PROVE  Id[f][n] \in Ids
BY DEF Ids

LEMMA InitTyped == Init => TypeOK
BY PingAssumption DEF Init, TypeOK, NoReply

\* An invocation under way has a target and is in one of its rounds.
Underway ==
  \A f \in Caller : pc[f] # "free" =>
    calls[f] \in Calls /\ target[f] \in Station /\ seq[f] \in Seqs /\ seq[f] <= count[f]

LEMMA NextTyped == TypeOK /\ Underway /\ [Next]_vars => TypeOK' /\ Underway'
<1> SUFFICES ASSUME TypeOK, Underway, [Next]_vars PROVE TypeOK' /\ Underway'
  OBVIOUS
<1>. USE PingAssumption
<1>1. ASSUME NEW f \in Caller, NEW ip \in Station, NEW n \in Seqs, Invoke(f, ip, n)
      PROVE  TypeOK' /\ Underway'
  <2>1. calls'[f] \in Calls /\ MyId(f)' \in Ids
    BY <1>1, OwnId DEF Invoke, TypeOK, Calls, MyId
  <2>2. n \in 0 .. MaxCount /\ 1 \in 0 .. MaxCount
    BY DEF Seqs
  <2>3. Underway'
    <3>1. /\ calls'[f] \in Calls /\ target'[f] \in Station /\ seq'[f] \in Seqs
          /\ seq'[f] <= count'[f]
      BY <1>1, <2>1 DEF Invoke, TypeOK, Seqs
    <3>2. \A g \in Caller \ {f} : /\ pc'[g] = pc[g] /\ calls'[g] = calls[g]
                                 /\ target'[g] = target[g] /\ seq'[g] = seq[g]
                                 /\ count'[g] = count[g]
      BY <1>1 DEF Invoke, TypeOK
    <3>. QED BY <3>1, <3>2 DEF Underway
  <2>4. ping' \in [id : Ids \cup {NoId}, seq : 0 .. MaxCount, replied : BOOLEAN,
                   ip : Station \cup {ZeroIp}]
    BY <1>1, <2>1, <2>2 DEF Invoke, Awaits, TypeOK
  <2>5. alone' \in [Caller -> BOOLEAN]
    BY <1>1 DEF Invoke, TypeOK
  <2>6. /\ calls' \in [Caller -> 0 .. MaxCalls]
        /\ UNCHANGED <<late, requests, answers, handled>>
        /\ pc' \in [Caller -> {"free", "sending", "sent", "waiting"}]
        /\ target' \in [Caller -> Station \cup {ZeroIp}]
        /\ count' \in [Caller -> 0 .. MaxCount]
        /\ seq' \in [Caller -> 0 .. MaxCount]
        /\ rep' \in [Caller -> [replied : BOOLEAN, ip : Station \cup {ZeroIp}]]
        /\ credited' \in [Caller -> SUBSET Seqs]
    BY <1>1, <2>1, <2>2 DEF Invoke, TypeOK, Calls, NoReply
  <2>. QED BY <2>3, <2>4, <2>5, <2>6 DEF TypeOK
<1>2. ASSUME NEW f \in Caller, Transmit(f) PROVE TypeOK' /\ Underway'
  <2>1. [id |-> MyId(f), seq |-> seq[f], ip |-> target[f]] \in Echo
    BY <1>2, OwnId DEF Transmit, TypeOK, Underway, MyId, Echo
  <2>2. /\ pc' \in [Caller -> {"free", "sending", "sent", "waiting"}]
        /\ requests' \subseteq Echo
        /\ UNCHANGED <<calls, target, count, seq, rep, late, ping, answers, credited, alone,
                       handled>>
    BY <1>2, <2>1 DEF Transmit, TypeOK
  <2>3. \A g \in Caller : pc'[g] # "free" => pc[g] # "free"
    BY <1>2 DEF Transmit, TypeOK
  <2>. QED BY <2>2, <2>3 DEF TypeOK, Underway
<1>3. ASSUME NEW f \in Caller, Await(f) \/ Expire(f) PROVE TypeOK' /\ Underway'
  <2>1. /\ pc' \in [Caller -> {"free", "sending", "sent", "waiting"}]
        /\ \A g \in Caller : pc'[g] # "free" => pc[g] # "free"
    BY <1>3 DEF Await, Expire, TypeOK
  <2>2. /\ late' \in [Caller -> BOOLEAN]
        /\ UNCHANGED <<calls, target, count, seq, rep, ping, requests, answers, credited, alone,
                       handled>>
    BY <1>3 DEF Await, Expire, TypeOK
  <2>. QED BY <2>1, <2>2 DEF TypeOK, Underway
<1>4. ASSUME NEW f \in Caller, EndRound(f) PROVE TypeOK' /\ Underway'
  <2>1. /\ MyId(f) \in Ids /\ seq[f] \in Seqs /\ count[f] \in 0 .. MaxCount
        /\ UNCHANGED <<calls, target, count, late, requests, answers, alone, handled>>
    BY <1>4, OwnId DEF EndRound, TypeOK, Underway, MyId
  <2>2. rep' \in [Caller -> [replied : BOOLEAN, ip : Station \cup {ZeroIp}]]
    BY <1>4 DEF EndRound, TypeOK
  <2>3. credited' \in [Caller -> SUBSET Seqs]
    BY <1>4, <2>1 DEF EndRound, TypeOK
  <2>4. CASE /\ MoreRounds(f)
             /\ seq' = [seq EXCEPT ![f] = @ + 1]
             /\ pc' = [pc EXCEPT ![f] = "sending"]
             /\ Awaits(MyId(f), seq[f] + 1)
    <3>1. seq[f] + 1 \in Seqs /\ seq[f] + 1 \in 0 .. MaxCount /\ seq[f] + 1 <= count[f]
      BY <2>1, <2>4 DEF MoreRounds, Seqs
    <3>2. ping' \in [id : Ids \cup {NoId}, seq : 0 .. MaxCount, replied : BOOLEAN,
                     ip : Station \cup {ZeroIp}]
      BY <2>1, <2>4, <3>1 DEF Awaits, TypeOK
    <3>3. Underway'
      BY <1>4, <2>1, <2>4, <3>1 DEF Underway, EndRound, TypeOK
    <3>. QED BY <2>1, <2>2, <2>3, <2>4, <3>1, <3>2, <3>3 DEF TypeOK
  <2>5. CASE /\ pc' = [pc EXCEPT ![f] = "free"]
             /\ ping' = [ping EXCEPT !.replied = FALSE]
             /\ UNCHANGED seq
    <3>1. Underway'
      BY <2>1, <2>5 DEF Underway, TypeOK
    <3>. QED BY <2>1, <2>2, <2>3, <2>5, <3>1 DEF TypeOK
  <2>. QED BY <1>4, <2>4, <2>5 DEF EndRound
<1>5. ASSUME NEW m \in answers, icmp_rx(m) PROVE TypeOK' /\ Underway'
  <2>1. /\ m \in Echo /\ UNCHANGED <<caller, requests, answers, credited, alone>>
        /\ handled' \subseteq handled \cup {m}
    BY <1>5 DEF icmp_rx, TypeOK
  <2>2. m.ip \in Station
    BY <2>1 DEF Echo
  <2>3. ping' \in [id : Ids \cup {NoId}, seq : 0 .. MaxCount, replied : BOOLEAN,
                   ip : Station \cup {ZeroIp}]
    BY <1>5, <2>2 DEF icmp_rx, TypeOK
  <2>. QED BY <2>1, <2>3 DEF caller, TypeOK, Underway
<1>6. ASSUME NEW r \in requests, Answer(r) PROVE TypeOK' /\ Underway'
  BY <1>6 DEF Answer, caller, TypeOK, Underway
<1>7. CASE UNCHANGED vars
  BY <1>7 DEF vars, caller, TypeOK, Underway
<1>. QED BY <1>1, <1>2, <1>3, <1>4, <1>5, <1>6, <1>7 DEF Next, CallerStep


\* The callers, the shared fields and the histories keep their types for any
\* number of overlapping invocations.
THEOREM TypeCorrect == Spec => []TypeOK
<1>1. Init => Underway
  BY DEF Init, Underway
<1>. QED BY <1>1, InitTyped, NextTyped, PTL DEF Spec

-----------------------------------------------------------------------------
(* Ping: the two safety invariants.                                        *)

\* A request belongs to an invocation that has begun; one of the caller's
\* latest went to its target in a round it has reached.
SentInOrder ==
  \A r \in requests, f \in Caller, n \in Calls : r.id = Id[f][n] =>
    /\ n <= calls[f]
    /\ n = calls[f] => r.ip = target[f] /\ r.seq <= seq[f]

CurrentRequest(f) == [id |-> MyId(f), seq |-> seq[f], ip |-> target[f]]

\* While an invocation is alone the fields of g_net speak of its current
\* round, and ping_replied says whether that round's reply was seen.
FieldsAreOwn ==
  \A f \in Caller : alone[f] /\ pc[f] # "free" =>
    /\ \A g \in Caller \ {f} : pc[g] = "free"
    /\ ping.id = MyId(f) /\ ping.seq = seq[f]
    /\ ping.replied => CurrentRequest(f) \in answers /\ ping.ip = target[f]
    /\ \A m \in handled : m.id = MyId(f) /\ m.seq = seq[f] => ping.replied

Inv == /\ TypeOK /\ Underway
       /\ handled \subseteq answers /\ answers \subseteq requests
       /\ SentInOrder
       /\ FieldsAreOwn
       /\ CountedWasAnswered
       /\ MatchedIsCounted

LEMMA InitInv == Init => Inv
BY InitTyped
   DEF Inv, Init, Underway, SentInOrder, FieldsAreOwn, CountedWasAnswered, MatchedIsCounted,
       NoReply

\* A new invocation draws an identifier that no request carries.
LEMMA InvokeInv ==
  ASSUME Inv, TypeOK', Underway', NEW f \in Caller, NEW ip \in Station, NEW n \in Seqs,
         Invoke(f, ip, n)
  PROVE  Inv'
<1>1. /\ calls'[f] = calls[f] + 1 /\ calls'[f] \in Calls /\ target'[f] = ip /\ seq'[f] = 1
      /\ rep'[f] = NoReply /\ pc'[f] = "sending" /\ credited'[f] = {}
      /\ UNCHANGED <<late, requests, answers, handled>>
      /\ pc[f] = "free" /\ calls[f] \in Nat
      /\ alone'[f] => \A h \in Caller \ {f} : pc[h] = "free"
      /\ ping'.id = MyId(f)' /\ ping'.seq = 1 /\ ping'.replied = FALSE
  BY PingAssumption DEF Invoke, Inv, TypeOK, Awaits, Calls
<1>2. \A g \in Caller \ {f} :
        /\ calls'[g] = calls[g] /\ target'[g] = target[g] /\ seq'[g] = seq[g]
        /\ rep'[g] = rep[g] /\ pc'[g] = pc[g] /\ credited'[g] = credited[g]
        /\ alone'[g] => alone[g] /\ pc[g] = "free"
  <2>1. ASSUME NEW g \in Caller \ {f} PROVE alone'[g] <=> alone[g] /\ pc[g] = "free"
    BY Zenon DEF Invoke
  <2>. QED BY <2>1 DEF Invoke, Inv, TypeOK
<1>3. \A r \in requests : r.id # MyId(f)'
  BY <1>1 DEF Inv, SentInOrder, MyId
<1>4. \A g \in Caller \ {f} : MyId(g)' = MyId(g)
  BY <1>2 DEF MyId
<1>5. SentInOrder'
  BY <1>1, <1>2, <1>3 DEF Inv, SentInOrder, MyId, Calls
<1>6. FieldsAreOwn'
  BY <1>1, <1>2, <1>3 DEF Inv, FieldsAreOwn
<1>7. CountedWasAnswered'
  BY <1>1, <1>2, <1>4 DEF Inv, CountedWasAnswered, NoReply
<1>8. MatchedIsCounted'
  BY <1>1, <1>2, <1>3, <1>4 DEF Inv, MatchedIsCounted
<1>. QED BY <1>1, <1>5, <1>6, <1>7, <1>8 DEF Inv

LEMMA TransmitInv ==
  ASSUME Inv, TypeOK', Underway', NEW f \in Caller, Transmit(f)
  PROVE  Inv'
<1>1. /\ UNCHANGED <<calls, target, count, seq, rep, late, ping, answers, credited, alone, handled>>
      /\ requests \subseteq requests'
      /\ \A r \in requests' : r \in requests \/ r = CurrentRequest(f)
      /\ pc' = [pc EXCEPT ![f] = "sent"] /\ pc[f] = "sending"
      /\ \A g \in Caller : MyId(g)' = MyId(g)
  BY DEF Transmit, CurrentRequest, MyId
<1>2. \A g \in Caller : pc'[g] = "free" <=> pc[g] = "free"
  BY <1>1 DEF Inv, TypeOK
<1>3. SentInOrder'
  <2>1. ASSUME NEW g \in Caller, NEW n \in Calls, CurrentRequest(f).id = Id[g][n]
        PROVE  g = f /\ n = calls[f]
    BY <1>1, <2>1, PingAssumption DEF CurrentRequest, MyId, Inv, Underway
  <2>2. seq[f] <= seq[f] /\ calls[f] <= calls[f]
    BY <1>1 DEF Inv, Underway, Seqs, Calls
  <2>. QED BY <1>1, <2>1, <2>2 DEF Inv, SentInOrder, CurrentRequest
<1>4. FieldsAreOwn'
  BY <1>1, <1>2 DEF Inv, FieldsAreOwn, CurrentRequest
<1>5. CountedWasAnswered'
  BY <1>1 DEF Inv, CountedWasAnswered
<1>6. MatchedIsCounted'
  BY <1>1, <1>2 DEF Inv, MatchedIsCounted
<1>. QED BY <1>1, <1>3, <1>4, <1>5, <1>6 DEF Inv

\* Steps that change only how far a caller has come in its round.
LEMMA WaitInv ==
  ASSUME Inv, TypeOK', Underway', NEW f \in Caller, Await(f) \/ Expire(f)
  PROVE  Inv'
<1>1. /\ UNCHANGED <<calls, target, seq, rep, ping, requests, answers, credited, alone, handled>>
      /\ \A g \in Caller : pc'[g] = "free" <=> pc[g] = "free"
      /\ \A g \in Caller : MyId(g)' = MyId(g)
  BY DEF Await, Expire, Inv, TypeOK, MyId
<1>2. SentInOrder' /\ CountedWasAnswered'
  BY <1>1 DEF Inv, SentInOrder, CountedWasAnswered
<1>3. FieldsAreOwn'
  BY <1>1 DEF Inv, FieldsAreOwn, CurrentRequest
<1>4. MatchedIsCounted'
  BY <1>1 DEF Inv, MatchedIsCounted
<1>. QED BY <1>1, <1>2, <1>3, <1>4 DEF Inv

LEMMA EndRoundInv ==
  ASSUME Inv, TypeOK', Underway', NEW f \in Caller, EndRound(f)
  PROVE  Inv'
<1>1. /\ UNCHANGED <<calls, target, count, late, requests, answers, alone, handled>>
      /\ pc[f] = "waiting" /\ seq[f] \in Nat /\ calls[f] \in Calls
      /\ \A g \in Caller : MyId(g)' = MyId(g)
  BY DEF EndRound, MyId, Inv, Underway, Seqs
<1>2. \A g \in Caller \ {f} : /\ pc'[g] = pc[g] /\ seq'[g] = seq[g] /\ rep'[g] = rep[g]
                              /\ credited'[g] = credited[g]
  BY DEF EndRound, Inv, TypeOK
<1>3. /\ ping.replied => /\ rep'[f] = [replied |-> TRUE, ip |-> ping.ip]
                         /\ credited'[f] = credited[f] \cup {seq[f]}
      /\ ~ ping.replied => rep'[f] = rep[f] /\ credited'[f] = credited[f]
  BY DEF EndRound, Inv, TypeOK
<1>4. \/ /\ seq'[f] = seq[f] + 1 /\ pc'[f] = "sending"
         /\ ping'.id = MyId(f) /\ ping'.seq = seq'[f] /\ ping'.replied = FALSE
      \/ seq'[f] = seq[f] /\ pc'[f] = "free" /\ ping'.replied = FALSE
  <2>1. CASE /\ seq' = [seq EXCEPT ![f] = @ + 1]
             /\ pc' = [pc EXCEPT ![f] = "sending"]
             /\ Awaits(MyId(f), seq[f] + 1)
    BY <2>1 DEF Awaits, Inv, TypeOK
  <2>2. CASE /\ pc' = [pc EXCEPT ![f] = "free"]
             /\ ping' = [ping EXCEPT !.replied = FALSE]
             /\ UNCHANGED seq
    BY <2>2 DEF Inv, TypeOK
  <2>. QED BY <2>1, <2>2 DEF EndRound
<1>5. \A m \in handled : m.id = MyId(f) => m.seq \in Nat /\ m.seq <= seq[f]
  BY <1>1 DEF Inv, SentInOrder, MyId, TypeOK, Echo, Seqs
<1>6. \A g \in Caller \ {f} : alone[g] => pc[g] = "free"
  BY <1>1 DEF Inv, FieldsAreOwn
<1>7. alone[f] =>
        /\ ping.replied => CurrentRequest(f) \in answers /\ ping.ip = target[f]
        /\ \A m \in handled : m.id = MyId(f) /\ m.seq = seq[f] => ping.replied
  BY <1>1 DEF Inv, FieldsAreOwn
<1>8. SentInOrder'
  <2>1. \A g \in Caller : seq'[g] \in Nat /\ seq[g] \in Nat /\ seq[g] <= seq'[g]
    <3>1. \A g \in Caller : seq[g] \in Nat
      BY DEF Inv, TypeOK
    <3>. QED BY <1>1, <1>2, <1>4, <3>1
  <2>2. \A r \in requests : r.seq \in Nat
    BY DEF Inv, TypeOK, Echo, Seqs
  <2>. QED BY <1>1, <2>1, <2>2 DEF Inv, SentInOrder
<1>9. FieldsAreOwn'
  <2>1. ASSUME NEW g \in Caller, alone'[g], pc'[g] # "free" PROVE g = f
    BY <1>1, <1>2, <1>6, <2>1
  <2>2. ASSUME alone'[f], pc'[f] # "free"
        PROVE  /\ \A g \in Caller \ {f} : pc'[g] = "free"
               /\ ping'.id = MyId(f)' /\ ping'.seq = seq'[f] /\ ~ ping'.replied
               /\ \A m \in handled' : ~ (m.id = MyId(f)' /\ m.seq = seq'[f])
    BY <1>1, <1>2, <1>4, <1>5, <2>2 DEF Inv, FieldsAreOwn
  <2>. QED BY <2>1, <2>2 DEF FieldsAreOwn
<1>10. CountedWasAnswered'
  <2>1. ASSUME alone'[f]
        PROVE  /\ \A s \in credited'[f] : [id |-> MyId(f), seq |-> s, ip |-> target[f]] \in answers
               /\ rep'[f].replied => credited'[f] # {} /\ rep'[f].ip = target[f]
    BY <1>1, <1>3, <1>7, <2>1 DEF Inv, CountedWasAnswered, CurrentRequest
  <2>. QED BY <1>1, <1>2, <2>1 DEF Inv, CountedWasAnswered
<1>11. MatchedIsCounted'
  <2>1. ASSUME alone'[f], NEW m \in handled', m.id = MyId(f)',
               m.seq < seq'[f] \/ pc'[f] = "free"
        PROVE  m.seq \in credited'[f]
    <3>1. m.seq < seq[f] \/ m.seq = seq[f]
      BY <1>1, <1>5, <2>1
    <3>2. calls[f] > 0
      BY <1>1 DEF Calls
    <3>. QED BY <1>1, <1>3, <1>7, <2>1, <3>1, <3>2 DEF Inv, MatchedIsCounted
  <2>. QED BY <1>1, <1>2, <2>1 DEF Inv, MatchedIsCounted
<1>. QED BY <1>1, <1>8, <1>9, <1>10, <1>11 DEF Inv

LEMMA ReplyInv ==
  ASSUME Inv, TypeOK', Underway', NEW m \in answers, icmp_rx(m)
  PROVE  Inv'
<1>1. /\ UNCHANGED <<pc, calls, target, seq, rep, requests, answers, credited, alone>>
      /\ m.id = ping.id /\ m.seq = ping.seq
      /\ ping'.id = ping.id /\ ping'.seq = ping.seq /\ ping'.replied = TRUE /\ ping'.ip = m.ip
      /\ handled \subseteq handled' /\ handled' \subseteq handled \cup {m}
      /\ m \in handled' \ handled => Outstanding(m)
      /\ \A g \in Caller : MyId(g)' = MyId(g)
  BY DEF icmp_rx, Matches, caller, MyId, Inv, TypeOK
<1>2. ASSUME NEW f \in Caller, alone[f], pc[f] # "free"
      PROVE  /\ m = CurrentRequest(f) /\ m.ip = target[f]
  <2>1. m.id = Id[f][calls[f]] /\ m.seq = seq[f] /\ calls[f] \in Calls
    BY <1>1, <1>2 DEF Inv, FieldsAreOwn, MyId, Underway
  <2>2. m.ip = target[f] /\ m \in Echo
    BY <2>1 DEF Inv, SentInOrder, TypeOK
  <2>. QED BY <2>1, <2>2 DEF CurrentRequest, MyId, Echo
<1>3. FieldsAreOwn'
  BY <1>1, <1>2 DEF Inv, FieldsAreOwn, CurrentRequest
<1>4. ASSUME NEW f \in Caller, alone[f], m \in handled' \ handled, calls[f] > 0, m.id = MyId(f)
      PROVE  pc[f] # "free" /\ ~ (m.seq < seq[f])
  <2>1. PICK g \in Caller : pc[g] # "free" /\ m.id = MyId(g)
    BY <1>1, <1>4 DEF Outstanding
  <2>2. calls[f] \in Calls /\ calls[g] \in Calls
    BY <1>4, <2>1 DEF Inv, Underway, TypeOK, Calls
  <2>3. Id[f][calls[f]] = Id[g][calls[g]]
    BY <1>4, <2>1 DEF MyId
  <2>4. g = f
    BY <2>2, <2>3, PingAssumption
  <2>5. m.seq = seq[f] /\ seq[f] \in Nat
    BY <1>2, <1>4, <2>1, <2>4 DEF CurrentRequest, Inv, Underway, Seqs
  <2>. QED BY <2>1, <2>4, <2>5
<1>5. MatchedIsCounted'
  BY <1>1, <1>4 DEF Inv, MatchedIsCounted
<1>6. SentInOrder' /\ CountedWasAnswered'
  BY <1>1 DEF Inv, SentInOrder, CountedWasAnswered
<1>. QED BY <1>1, <1>3, <1>5, <1>6 DEF Inv

LEMMA AnswerInv ==
  ASSUME Inv, TypeOK', Underway', NEW r \in requests, Answer(r)
  PROVE  Inv'
<1>1. /\ UNCHANGED <<pc, calls, target, seq, rep, ping, requests, credited, alone, handled>>
      /\ answers \subseteq answers' /\ answers' \subseteq requests
      /\ \A g \in Caller : MyId(g)' = MyId(g)
  BY DEF Answer, caller, MyId, Inv
<1>2. SentInOrder' /\ CountedWasAnswered' /\ MatchedIsCounted'
  BY <1>1 DEF Inv, SentInOrder, CountedWasAnswered, MatchedIsCounted
<1>3. FieldsAreOwn'
  BY <1>1 DEF Inv, FieldsAreOwn, CurrentRequest
<1>. QED BY <1>1, <1>2, <1>3 DEF Inv

LEMMA NextInv == Inv /\ [Next]_vars => Inv'
<1> SUFFICES ASSUME Inv, [Next]_vars PROVE Inv'
  OBVIOUS
<1>1. TypeOK' /\ Underway'
  BY NextTyped DEF Inv
<1>2. ASSUME NEW f \in Caller, NEW ip \in Station, NEW n \in Seqs, Invoke(f, ip, n) PROVE Inv'
  BY <1>1, <1>2, InvokeInv
<1>3. ASSUME NEW f \in Caller, Transmit(f) PROVE Inv'
  BY <1>1, <1>3, TransmitInv
<1>4. ASSUME NEW f \in Caller, Await(f) \/ Expire(f) PROVE Inv'
  BY <1>1, <1>4, WaitInv
<1>5. ASSUME NEW f \in Caller, EndRound(f) PROVE Inv'
  BY <1>1, <1>5, EndRoundInv
<1>6. ASSUME NEW m \in answers, icmp_rx(m) PROVE Inv'
  BY <1>1, <1>6, ReplyInv
<1>7. ASSUME NEW r \in requests, Answer(r) PROVE Inv'
  BY <1>1, <1>7, AnswerInv
<1>8. CASE UNCHANGED vars
  BY <1>1, <1>8 DEF vars, caller, Inv, SentInOrder, FieldsAreOwn, CurrentRequest, MyId,
                    CountedWasAnswered, MatchedIsCounted
<1>. QED BY <1>2, <1>3, <1>4, <1>5, <1>6, <1>7, <1>8 DEF Next, CallerStep

\* A round that no other ping overlapped counts a reply only when the station
\* pinged answered that round's request, however replies are late or repeated.
THEOREM CountsOwnAnswers == Spec => []CountedWasAnswered
<1>1. Inv => CountedWasAnswered
  BY DEF Inv
<1>. QED BY <1>1, InitInv, NextInv, PTL DEF Spec

\* A reply that icmp_rx matched while a lone invocation ran is counted when
\* its round is over, even if it came before icmp_ping returned.
THEOREM CountsMatchedReplies == Spec => []MatchedIsCounted
<1>1. Inv => MatchedIsCounted
  BY DEF Inv
<1>. QED BY <1>1, InitInv, NextInv, PTL DEF Spec

-----------------------------------------------------------------------------
(* The frame of api_invoke.                                                *)

CallIds == 0 .. MaxInvocations \cup {None}

Statuses == {0, -1, -99} \cup A!TransactStatus

Reps == [status : Statuses, len : {A!ReplyBytes[c] : c \in A!Commands},
         data : CallIds]

Buffers == {0} \cup OutSizes
Copied == -1 .. 1508

Invocation == [call : CallIds, cmd : A!Commands, accepted : BOOLEAN, undisturbed : BOOLEAN,
               out : Buffers, rep : Reps, bytes : Copied]

\* The lengths of the replies.
LEMMA ReplyLengths ==
  \A c \in A!Commands : A!ReplyBytes[c] \in {0, 4, 8, 10, 34, 1480}
BY DEF A!ReplyBytes

\* Clearing g_rep, refusing and filling in leave a reply in it.
LEMMA RepsTyped ==
  /\ A!Cleared \in Reps
  /\ [A!Cleared EXCEPT !.status = -1] \in Reps
  /\ A!NoAnswer \in Invocation
  /\ \A r \in Reps, c \in A!Commands, call \in CallIds,
        status \in Statuses : A!Filled(r, c, call, status) \in Reps
<1>1. /\ "UNKNOWN" \in A!Commands /\ A!ReplyBytes["UNKNOWN"] = 0
  BY DEF A!Commands, A!RequestBytes, A!ReplyBytes
<1>2. 0 \in {A!ReplyBytes[c] : c \in A!Commands}
  BY <1>1
<1>3. A!Cleared \in Reps /\ [A!Cleared EXCEPT !.status = -1] \in Reps
  BY <1>2 DEF A!Cleared, Reps, CallIds, Statuses
<1>4. A!NoAnswer \in Invocation
  BY <1>1, <1>3 DEF A!NoAnswer, Invocation, CallIds, Buffers, Copied
<1>. QED BY <1>3, <1>4 DEF A!Filled, Reps

\* What the tail of api_invoke copies out.
LEMMA CopiedOutTyped ==
  ASSUME NEW r \in Reps, NEW out \in Buffers
  PROVE  /\ A!CopiedOut(r, out) \in Copied
         /\ A!CopiedOut(r, out) = IF out < 8 + r.len THEN out ELSE 8 + r.len
<1>1. r.len \in {0, 4, 8, 10, 34, 1480}
  BY ReplyLengths DEF Reps
<1>2. out \in Nat
  BY FrameAssumption DEF A!ApiAssumption, Buffers
<1>. QED BY <1>1, <1>2 DEF A!CopiedOut, Copied

Answered(a, r, b) == [a EXCEPT !.rep = r, !.bytes = b]

Disturbed(a) == [a EXCEPT !.undisturbed = FALSE]

\* An invocation stays one when it is answered or disturbed.
LEMMA InvocationParts ==
  ASSUME NEW a \in Invocation
  PROVE  /\ a.cmd \in A!Commands /\ a.out \in Buffers /\ a.call \in CallIds
         /\ \A r \in Reps, b \in Copied :
              /\ Answered(a, r, b) \in Invocation
              /\ Answered(a, r, b).rep = r /\ Answered(a, r, b).bytes = b
              /\ Answered(a, r, b).call = a.call /\ Answered(a, r, b).cmd = a.cmd
              /\ Answered(a, r, b).accepted = a.accepted
              /\ Answered(a, r, b).undisturbed = a.undisturbed
              /\ Answered(a, r, b).out = a.out
         /\ Disturbed(a) \in Invocation /\ ~ Disturbed(a).undisturbed
         /\ Disturbed(a).call = a.call /\ Disturbed(a).cmd = a.cmd
         /\ Disturbed(a).accepted = a.accepted
<1>1. a.cmd \in A!Commands /\ a.out \in Buffers /\ a.call \in CallIds
  BY DEF Invocation
<1>2. ASSUME NEW r \in Reps, NEW b \in Copied PROVE Answered(a, r, b) \in Invocation
  BY DEF Invocation, Answered
<1>3. Disturbed(a) \in Invocation
  BY DEF Invocation, Disturbed
<1>. QED BY <1>1, <1>2, <1>3 DEF Invocation, Answered, Disturbed

\* How an invocation begins.
Begun(call, c, out, accepted) ==
  [A!NoAnswer EXCEPT !.call = call, !.cmd = c, !.out = out, !.accepted = accepted]

LEMMA BegunTyped ==
  ASSUME NEW call \in CallIds, NEW c \in A!Commands, NEW out \in Buffers,
         NEW accepted \in BOOLEAN
  PROVE  LET a == Begun(call, c, out, accepted)
         IN  /\ a \in Invocation
             /\ a.call = call /\ a.cmd = c /\ a.accepted = accepted /\ a.undisturbed
<1>1. A!NoAnswer \in Invocation /\ A!NoAnswer.undisturbed
  BY RepsTyped DEF A!NoAnswer
<1>2. Begun(call, c, out, accepted) \in Invocation
  BY <1>1 DEF Begun, Invocation
<1>. QED BY <1>1, <1>2 DEF Begun, Invocation

\* An invocation that waits has been accepted, and as long as no other came in
\* or returned g_rep is as it left it: cleared.
WaitsOnOwnBuffer ==
  \A f \in Caller : serving[f] # None =>
    /\ serving[f] \in Invocation /\ serving[f].accepted
    /\ serving[f].undisturbed => g_rep = A!Cleared

FrameInv == A!TypeOK /\ WaitsOnOwnBuffer /\ ReplyIsOwn

FrameTyped ==
  /\ serving \in [Caller -> Invocation \cup {None}]
  /\ g_rep \in Reps /\ calls_made \in 0 .. MaxInvocations /\ answer \in Invocation

LEMMA FrameTypes == A!TypeOK <=> FrameTyped
BY DEF A!TypeOK, FrameTyped, Invocation, CallIds, Buffers, Copied, Reps, Statuses

\* The bytes of its own reply that an invocation has a right to.
Own(a) == IF a.accepted THEN A!ReplyBytes[a.cmd] ELSE 0

LEMMA InitFrame == A!Init => FrameInv
<1> SUFFICES ASSUME A!Init PROVE FrameInv
  OBVIOUS
<1>1. FrameTyped
  BY RepsTyped, FrameAssumption DEF A!Init, FrameTyped, A!ApiAssumption
<1>2. WaitsOnOwnBuffer
  BY DEF A!Init, WaitsOnOwnBuffer
<1>3. ReplyIsOwn
  BY DEF A!Init, ReplyIsOwn, A!ReplyIsOwn, A!NoAnswer
<1>. QED BY <1>1, <1>2, <1>3, FrameTypes DEF FrameInv

\* The tail of api_invoke hands out the reply that is the invocation's own.
LEMMA ReturnOwn ==
  ASSUME NEW a \in Invocation, NEW r \in Reps, A!Return(a, r),
         ~ a.accepted => r.status = -1,
         Own(a) > 0 \/ a.undisturbed =>
           r.len = Own(a) /\ r.data = IF Own(a) > 0 THEN a.call ELSE None
  PROVE  g_rep' \in Reps /\ answer' \in Invocation /\ ReplyIsOwn'
<1>1. /\ g_rep' = r
      /\ answer' = Answered(a, r, A!CopiedOut(r, a.out))
  BY DEF A!Return, Answered
<1>2. /\ A!CopiedOut(r, a.out) \in Copied
      /\ A!CopiedOut(r, a.out) = IF a.out < 8 + r.len THEN a.out ELSE 8 + r.len
  BY CopiedOutTyped, InvocationParts
<1>3. answer' \in Invocation
  BY <1>1, <1>2, InvocationParts
<1>4. /\ answer'.rep = r /\ answer'.bytes = A!CopiedOut(r, a.out)
      /\ answer'.accepted = a.accepted /\ answer'.cmd = a.cmd /\ answer'.call = a.call
      /\ answer'.out = a.out /\ answer'.undisturbed = a.undisturbed
  BY <1>1, <1>2, InvocationParts
<1>5. ReplyIsOwn'
  BY <1>2, <1>4 DEF ReplyIsOwn, A!ReplyIsOwn, Own
<1>. QED BY <1>1, <1>3, <1>5

\* The others see g_rep change hands.
LEMMA DisturbEffect ==
  ASSUME NEW s \in [Caller -> Invocation \cup {None}],
         \A f \in Caller : s[f] # None => s[f] \in Invocation /\ s[f].accepted
  PROVE  /\ A!Disturb(s) \in [Caller -> Invocation \cup {None}]
         /\ \A f \in Caller : A!Disturb(s)[f] # None =>
              /\ s[f] # None
              /\ A!Disturb(s)[f] \in Invocation /\ A!Disturb(s)[f].accepted
              /\ ~ A!Disturb(s)[f].undisturbed
<1>1. \A f \in Caller : A!Disturb(s)[f] =
                         IF s[f] = None THEN None ELSE Disturbed(s[f])
  BY DEF A!Disturb, Disturbed
<1>2. ASSUME NEW f \in Caller, s[f] # None
      PROVE  /\ A!Disturb(s)[f] \in Invocation /\ A!Disturb(s)[f].accepted
             /\ ~ A!Disturb(s)[f].undisturbed
  BY <1>1, <1>2, InvocationParts
<1>3. A!Disturb(s) \in [Caller -> Invocation \cup {None}]
  BY <1>1, <1>2 DEF A!Disturb, Disturbed
<1>. QED BY <1>1, <1>2, <1>3

\* The statuses of the calls that commands make.
LEMMA OutcomesTyped ==
  ASSUME NEW c \in A!Commands
  PROVE  A!Outcomes(c) \subseteq Statuses
BY DEF A!Outcomes, Statuses

LEMMA RefuseFrame ==
  ASSUME FrameInv, A!Refuse
  PROVE  FrameInv'
<1>1. FrameTyped /\ WaitsOnOwnBuffer
  BY FrameTypes DEF FrameInv
<1>2. /\ answer' = [A!NoAnswer EXCEPT !.call = calls_made']
      /\ calls_made' = calls_made + 1 /\ calls_made' \in 0 .. MaxInvocations
      /\ UNCHANGED <<serving, g_rep>>
  BY <1>1, FrameAssumption DEF A!Refuse, FrameTyped, A!ApiAssumption
<1>3. answer' \in Invocation /\ answer'.bytes = -1
  BY <1>2, RepsTyped DEF Invocation, CallIds, A!NoAnswer
<1>4. FrameTyped' /\ WaitsOnOwnBuffer'
  BY <1>1, <1>2, <1>3 DEF FrameTyped, WaitsOnOwnBuffer
<1>5. ReplyIsOwn'
  BY <1>3 DEF ReplyIsOwn, A!ReplyIsOwn
<1>6. A!TypeOK'
  BY <1>4, FrameTypes, PTL
<1>. QED BY <1>4, <1>5, <1>6 DEF FrameInv

\* An invocation returns its own reply, and the others see g_rep change hands.
LEMMA ReturnFrame ==
  ASSUME NEW s \in [Caller -> Invocation \cup {None}],
         \A f \in Caller : s[f] # None => s[f] \in Invocation /\ s[f].accepted,
         NEW a \in Invocation, NEW r \in Reps, A!Return(a, r),
         ~ a.accepted => r.status = -1,
         Own(a) > 0 \/ a.undisturbed =>
           r.len = Own(a) /\ r.data = IF Own(a) > 0 THEN a.call ELSE None,
         serving' = A!Disturb(s), calls_made' \in 0 .. MaxInvocations
  PROVE  FrameInv'
<1>1. g_rep' \in Reps /\ answer' \in Invocation /\ ReplyIsOwn'
  BY ReturnOwn
<1>2. FrameTyped' /\ WaitsOnOwnBuffer'
  BY <1>1, DisturbEffect DEF FrameTyped, WaitsOnOwnBuffer
<1>3. A!TypeOK'
  BY <1>2, FrameTypes, PTL
<1>. QED BY <1>1, <1>2, <1>3 DEF FrameInv

LEMMA InvokeFrame ==
  ASSUME FrameInv, NEW f \in Caller, NEW c \in A!Commands, NEW out \in OutSizes, NEW size,
         A!Invoke(f, c, size, out)
  PROVE  FrameInv'
<1> DEFINE a == Begun(calls_made', c, out, A!Long(c, size))
<1>1. FrameTyped /\ WaitsOnOwnBuffer
  BY FrameTypes DEF FrameInv
<1>2. calls_made' = calls_made + 1 /\ calls_made' \in 0 .. MaxInvocations
  BY <1>1, FrameAssumption DEF A!Invoke, FrameTyped, A!ApiAssumption
<1>3. A!Long(c, size) \in BOOLEAN
  BY DEF A!Long
<1>4. calls_made' \in CallIds /\ out \in Buffers
  BY <1>2 DEF CallIds, Buffers
<1>5. /\ a \in Invocation
      /\ a.call = calls_made' /\ a.cmd = c /\ a.accepted = A!Long(c, size) /\ a.undisturbed
  BY <1>3, <1>4, BegunTyped
<1>6. \/ /\ ~ A!Long(c, size)
         /\ A!Return(a, [A!Cleared EXCEPT !.status = -1])
         /\ serving' = A!Disturb(serving)
      \/ /\ A!Long(c, size)
         /\ \E status \in A!Outcomes(c) :
              A!Return(a, A!Filled(A!Cleared, c, calls_made', status))
         /\ serving' = A!Disturb(serving)
      \/ /\ A!Long(c, size)
         /\ g_rep' = A!Cleared
         /\ serving' = [A!Disturb(serving) EXCEPT ![f] = a]
         /\ UNCHANGED answer
  BY Zenon DEF A!Invoke, A!Entered, Begun
<1>. HIDE DEF a
<1>7. /\ serving \in [Caller -> Invocation \cup {None}]
      /\ \A g \in Caller : serving[g] # None =>
                           serving[g] \in Invocation /\ serving[g].accepted
  BY <1>1 DEF FrameTyped, WaitsOnOwnBuffer
<1>8. CASE /\ ~ A!Long(c, size)
           /\ A!Return(a, [A!Cleared EXCEPT !.status = -1])
           /\ serving' = A!Disturb(serving)
  <2> DEFINE r == [A!Cleared EXCEPT !.status = -1]
  <2>1. r \in Reps /\ r.status = -1 /\ r.len = 0 /\ r.data = None
    BY RepsTyped DEF A!Cleared
  <2>2. A!Return(a, r)
    BY <1>8
  <2>. HIDE DEF r
  <2>3. Own(a) = 0
    BY <1>5, <1>8 DEF Own
  <2>4. r.len = Own(a) /\ r.data = IF Own(a) > 0 THEN a.call ELSE None
    BY <2>1, <2>3
  <2>. QED BY <1>2, <1>5, <1>7, <1>8, <2>1, <2>2, <2>4, ReturnFrame
<1>9. ASSUME A!Long(c, size), NEW status \in A!Outcomes(c),
             A!Return(a, A!Filled(A!Cleared, c, calls_made', status)),
             serving' = A!Disturb(serving)
      PROVE  FrameInv'
  <2>1. Own(a) = A!ReplyBytes[c] /\ A!ReplyBytes[c] \in Nat
    BY <1>5, <1>9, ReplyLengths DEF Own
  <2>2. A!Filled(A!Cleared, c, calls_made', status) \in Reps
    BY <1>2, RepsTyped, OutcomesTyped DEF CallIds
  <2>3. /\ A!Filled(A!Cleared, c, calls_made', status).len = Own(a)
        /\ A!Filled(A!Cleared, c, calls_made', status).data =
             IF Own(a) > 0 THEN a.call ELSE None
    BY <1>5, <2>1 DEF A!Filled, A!Cleared
  <2>. QED BY <1>2, <1>5, <1>7, <1>9, <2>2, <2>3, ReturnFrame
<1>10. ASSUME A!Long(c, size), g_rep' = A!Cleared,
              serving' = [A!Disturb(serving) EXCEPT ![f] = a], UNCHANGED answer
       PROVE  FrameInv'
  <2>1. FrameTyped' /\ WaitsOnOwnBuffer'
    BY <1>1, <1>2, <1>5, <1>7, <1>10, RepsTyped, DisturbEffect
    DEF FrameTyped, WaitsOnOwnBuffer
  <2>2. A!TypeOK'
    BY <2>1, FrameTypes, PTL
  <2>3. ReplyIsOwn'
    BY <1>10 DEF FrameInv, ReplyIsOwn, A!ReplyIsOwn
  <2>. QED BY <2>1, <2>2, <2>3 DEF FrameInv
<1>. QED BY <1>6, <1>8, <1>9, <1>10

\* What a waiting invocation fills in is its own, or its own is nothing and
\* g_rep was last disturbed before it was cleared.
LEMMA FinishFrame ==
  ASSUME FrameInv, NEW f \in Caller, A!Finish(f)
  PROVE  FrameInv'
<1> DEFINE a == serving[f]
           s == [serving EXCEPT ![f] = None]
<1>1. FrameTyped /\ WaitsOnOwnBuffer
  BY FrameTypes DEF FrameInv
<1>2. /\ a \in Invocation /\ a.accepted
      /\ a.undisturbed => g_rep = A!Cleared
      /\ a.cmd \in A!Commands /\ a.call \in CallIds
  BY <1>1, InvocationParts DEF A!Finish, WaitsOnOwnBuffer
<1>3. PICK status \in A!Outcomes(a.cmd) :
        A!Return(a, A!Filled(g_rep, a.cmd, a.call, status))
  BY DEF A!Finish
<1>4. A!Filled(g_rep, a.cmd, a.call, status) \in Reps
  BY <1>1, <1>2, RepsTyped, OutcomesTyped DEF FrameTyped
<1>5. /\ s \in [Caller -> Invocation \cup {None}]
      /\ \A g \in Caller : s[g] # None => s[g] \in Invocation /\ s[g].accepted
  BY <1>1 DEF FrameTyped, WaitsOnOwnBuffer
<1>6. serving' = A!Disturb(s) /\ calls_made' \in 0 .. MaxInvocations
  BY <1>1 DEF A!Finish, FrameTyped
<1>. HIDE DEF a, s
<1>7. Own(a) = A!ReplyBytes[a.cmd] /\ Own(a) \in Nat
  BY <1>2, ReplyLengths DEF Own
<1>8. Own(a) > 0 \/ a.undisturbed =>
        /\ A!Filled(g_rep, a.cmd, a.call, status).len = Own(a)
        /\ A!Filled(g_rep, a.cmd, a.call, status).data = IF Own(a) > 0 THEN a.call ELSE None
  BY <1>2, <1>7 DEF A!Filled, A!Cleared
<1>. QED BY <1>2, <1>3, <1>4, <1>5, <1>6, <1>8, ReturnFrame

LEMMA NextFrame == FrameInv /\ [A!Next]_frame => FrameInv'
<1> SUFFICES ASSUME FrameInv, [A!Next]_frame PROVE FrameInv'
  OBVIOUS
<1>1. ASSUME NEW f \in Caller, NEW c \in A!Commands, NEW out \in OutSizes,
             NEW size \in {A!Header + A!RequestBytes[c] - 1, A!Header + A!RequestBytes[c]},
             A!Invoke(f, c, size, out)
      PROVE  FrameInv'
  BY <1>1, InvokeFrame
<1>2. CASE UNCHANGED frame
  <2>1. FrameTyped' /\ WaitsOnOwnBuffer'
    BY <1>2, FrameTypes DEF frame, FrameInv, FrameTyped, WaitsOnOwnBuffer
  <2>2. A!TypeOK'
    BY <2>1, FrameTypes, PTL
  <2>3. ReplyIsOwn'
    BY <1>2 DEF frame, FrameInv, ReplyIsOwn, A!ReplyIsOwn
  <2>. QED BY <2>1, <2>2, <2>3 DEF FrameInv
<1>. QED BY <1>1, <1>2, RefuseFrame, FinishFrame DEF A!Next

-----------------------------------------------------------------------------
(* Both, side by side.                                                     *)

\* A step moves one of the two.
LEMMA MovesOne ==
  [MCNext]_<<vars, frame, part>> => [Next]_vars /\ [A!Next]_frame
BY Zenon DEF MCNext

\* The pings, g_rep and the invocations keep their types, for any number of
\* both.
THEOREM BothTyped == MCSpec => []Typed
<1>1. Init => Underway
  BY DEF Init, Underway
<1>2. TypeOK /\ FrameInv => Typed
  BY DEF FrameInv, Typed
<1>. QED BY <1>1, <1>2, InitTyped, NextTyped, InitFrame, NextFrame, MovesOne, PTL
         DEF MCSpec, MCInit

\* Each caller gets the reply to its own command, whole or cut to its buffer,
\* whatever other invocations did with g_rep while it waited; a command
\* without data is the exception when another came in or returned meanwhile.
THEOREM EachGetsItsReply == MCSpec => []ReplyIsOwn
<1>1. FrameInv => ReplyIsOwn
  BY DEF FrameInv
<1>. QED BY <1>1, InitFrame, NextFrame, MovesOne, PTL DEF MCSpec, MCInit

=============================================================================
