--------------------------- MODULE ResolverProofs ---------------------------
(***************************************************************************)
(* Proofs about Resolver: type correctness, and that a resolved address    *)
(* answers a question asked during the invocation and a failure has a      *)
(* reason, for any names, servers and number of overlapping invocations.   *)
(***************************************************************************)
EXTENDS Resolver, TLAPS

\* Invocations have numbers of their own.
OwnCalls ==
  /\ \A f \in Caller : call[f] <= calls
  /\ \A f, g \in Caller : call[f] = call[g] /\ call[f] > 0 => f = g

\* The number that dns_rx compares was drawn by or during every invocation
\* under way.
TxidIsDrawn ==
  \A f \in Caller : pc[f] # "free" => dns_txid \in drawn[f]

\* Queries come from invocations so far and ask for the names of theirs.
QueriesAsked ==
  \A q \in queries :
    /\ \E k \in 1 .. calls : q.txid = Txid[k]
    /\ \A f \in Caller : call[f] > 0 /\ q.txid = MyTxid(f) => q.name = name[f]

AnswersFromQueries ==
  \A m \in answers : \E q \in queries :
    q.txid = m.txid /\ m.ip \in Address[q.name] \cup {ZeroIp}

\* What dns_rx accepted during an invocation is an answer to it or to one
\* that began during it.
SeenIsDrawn ==
  \A f \in Caller : \A m \in seen[f] : m \in answers /\ m.txid \in drawn[f]

\* done and result say what was accepted since the latest invocation began,
\* which every one under way has seen.
DoneIsSeen ==
  \A f \in Caller : pc[f] # "free" =>
    /\ dns_done = 1 => dns_result # ZeroIp /\ \E m \in seen[f] : m.ip = dns_result
    /\ dns_done = -1 => \E m \in seen[f] : m.ip = ZeroIp

Inv ==
  /\ TypeOK
  /\ OwnCalls /\ TxidIsDrawn /\ QueriesAsked /\ AnswersFromQueries /\ SeenIsDrawn /\ DoneIsSeen
  /\ AnswersTheQuestion /\ FailsForAReason

-----------------------------------------------------------------------------

LEMMA InitTyped == Init => TypeOK
<1> SUFFICES ASSUME Init PROVE TypeOK
  OBVIOUS
<1>1. 0 \in 0 .. MaxCalls
  BY ResolverAssumption
<1>2. NoResult \in [rc : {0, -1}, ip : Ips \cup {ZeroIp}]
  BY DEF NoResult
<1>. QED BY <1>1, <1>2 DEF Init, TypeOK

\* A new invocation.
LEMMA InvokeTyped ==
  ASSUME TypeOK, NEW f \in Caller, NEW n \in Name, Invoke(f, n)
  PROVE  TypeOK'
<1>1. /\ calls + 1 \in Calls /\ calls' = calls + 1 /\ calls' \in 0 .. MaxCalls
      /\ calls + 1 \in 0 .. MaxCalls /\ calls + 1 > 0
      /\ Txid[calls + 1] \in Txids
  BY ResolverAssumption DEF Invoke, TypeOK, Calls, Txids
<1>2. /\ call' \in [Caller -> 0 .. MaxCalls]
      /\ name' \in [Caller -> Name \cup {NoName}]
      /\ result' \in [Caller -> [rc : {0, -1}, ip : Ips \cup {ZeroIp}]]
      /\ seen' \in [Caller -> SUBSET Reply]
      /\ UNCHANGED <<late, ready, queries, answers>>
  BY <1>1 DEF Invoke, TypeOK, NoResult
<1>3. /\ pc' \in [Caller -> {"free", "sending", "looping"}]
      /\ \A g \in Caller \ {f} : pc'[g] = pc[g]
  BY DEF Invoke, TypeOK
<1>4. /\ dns_txid' \in Txids \cup {NoTxid} /\ dns_done' \in {-1, 0, 1}
      /\ dns_result' \in Ips \cup {ZeroIp}
  BY <1>1 DEF Invoke, TypeOK, Prepared, dns
<1>5. drawn' \in [Caller -> SUBSET Txids]
  BY <1>1 DEF Invoke, TypeOK
<1>6. \A g \in Caller : pc'[g] # "free" => call'[g] > 0 /\ name'[g] \in Name
  <2>1. call'[f] = calls + 1 /\ name'[f] = n
    BY DEF Invoke, TypeOK
  <2>2. \A g \in Caller \ {f} : call'[g] = call[g] /\ name'[g] = name[g]
    BY DEF Invoke, TypeOK
  <2>. QED BY <1>1, <1>3, <2>1, <2>2 DEF TypeOK
<1>. QED BY <1>1, <1>2, <1>3, <1>4, <1>5, <1>6 DEF TypeOK

\* What dns_rx leaves behind has its type.
LEMMA RxTyped ==
  ASSUME TypeOK, NEW m \in answers, RxEffect(m)
  PROVE  /\ dns_done' \in {-1, 0, 1} /\ dns_result' \in Ips \cup {ZeroIp}
         /\ seen' \in [Caller -> SUBSET Reply]
<1>1. m \in Reply
  BY DEF TypeOK
<1>2. SeenAfter(m) \in [Caller -> SUBSET Reply]
  BY <1>1 DEF SeenAfter, TypeOK
<1>. QED BY <1>1, <1>2 DEF RxEffect, DoneAfter, ResultAfter, TypeOK, Reply

LEMMA NextTyped == TypeOK /\ [Next]_vars => TypeOK'
<1> SUFFICES ASSUME TypeOK, [Next]_vars PROVE TypeOK'
  OBVIOUS
<1>1. CASE UNCHANGED vars
  BY <1>1 DEF vars, caller, dns, history, TypeOK
<1>2. ASSUME NEW f \in Caller, NEW n \in Name, Invoke(f, n) PROVE TypeOK'
  BY <1>2, InvokeTyped
<1>3. ASSUME NEW f \in Caller, Transmit(f) PROVE TypeOK'
  <2>1. call[f] \in Calls /\ name[f] \in Name
    BY <1>3, ResolverAssumption DEF Transmit, TypeOK, Calls
  <2>2. [txid |-> MyTxid(f), name |-> name[f]] \in Query
    BY <2>1 DEF Query, Txids, MyTxid
  <2>. QED BY <1>3, <2>2 DEF Transmit, TypeOK, dns, history
<1>4. ASSUME NEW f \in Caller, Expire(f) PROVE TypeOK'
  BY <1>4 DEF Expire, TypeOK, dns, history
<1>5. ASSUME NEW f \in Caller, Return(f) PROVE TypeOK'
  BY <1>5 DEF Return, Leave, NoResult, TypeOK, dns, history
<1>6. ASSUME NEW f \in Caller, NEW m \in answers, PumpAnswer(f, m) PROVE TypeOK'
  <2>1. ResultAfter(m) \in Ips \cup {ZeroIp}
    BY DEF ResultAfter, TypeOK, Reply
  <2>2. /\ RxEffect(m)
        /\ UNCHANGED <<call, name, late, calls, ready, dns_txid, queries, answers, drawn>>
    BY <1>6 DEF PumpAnswer, RxEffect
  <2>3. /\ dns_done' \in {-1, 0, 1} /\ dns_result' \in Ips \cup {ZeroIp}
        /\ seen' \in [Caller -> SUBSET Reply]
    BY <2>2, RxTyped
  <2>4. \/ Leave(f, DoneAfter(m), ResultAfter(m))
        \/ UNCHANGED <<pc, result>>
    BY <1>6 DEF PumpAnswer
  <2>5. /\ pc' \in [Caller -> {"free", "sending", "looping"}]
        /\ result' \in [Caller -> [rc : {0, -1}, ip : Ips \cup {ZeroIp}]]
        /\ \A g \in Caller : pc'[g] # "free" => pc[g] # "free"
    <3>1. /\ pc \in [Caller -> {"free", "sending", "looping"}]
          /\ result \in [Caller -> [rc : {0, -1}, ip : Ips \cup {ZeroIp}]]
      BY DEF TypeOK
    <3>. QED BY <2>1, <2>4, <3>1 DEF Leave, NoResult
  <2>. QED BY <2>2, <2>3, <2>5 DEF TypeOK
<1>7. ASSUME NEW m \in answers, dns_rx(m) PROVE TypeOK'
  BY <1>7, RxTyped DEF dns_rx, RxEffect, TypeOK
<1>8. ASSUME NEW q \in queries, Answer(q) PROVE TypeOK'
  BY <1>8 DEF Answer, Query, Reply, Ips, TypeOK, caller, dns, history
<1>9. CASE Configure
  BY <1>9 DEF Configure, TypeOK, caller, dns, history
<1>. QED BY <1>1, <1>2, <1>3, <1>4, <1>5, <1>6, <1>7, <1>8, <1>9 DEF Next, CallerStep

\* The state of the resolver has its type, however many invocations overlap.
THEOREM TypeCorrect == Spec => []TypeOK
BY InitTyped, NextTyped, PTL DEF Spec

-----------------------------------------------------------------------------

\* A new invocation: nothing on the network has its number, and it resets
\* what those under way have seen.
LEMMA InvokeInv ==
  ASSUME Inv, TypeOK', NEW f \in Caller, NEW n \in Name, Invoke(f, n)
  PROVE  Inv'
<1>1. /\ calls \in Nat /\ calls + 1 \in Calls /\ calls' = calls + 1
      /\ \A g \in Caller : call[g] \in Nat /\ call[g] <= calls
  BY ResolverAssumption DEF Inv, TypeOK, OwnCalls, Calls, Invoke
<1>2. /\ call'[f] = calls + 1 /\ name'[f] = n /\ result'[f] = NoResult /\ seen'[f] = {}
      /\ pc[f] = "free" /\ UNCHANGED <<late, ready, queries, answers>>
  BY DEF Invoke, Inv, TypeOK
<1>3. \A g \in Caller \ {f} : /\ call'[g] = call[g] /\ name'[g] = name[g]
                              /\ result'[g] = result[g] /\ seen'[g] = seen[g]
                              /\ pc'[g] = pc[g] /\ MyTxid(g)' = MyTxid(g)
                              /\ drawn[g] \subseteq drawn'[g]
                              /\ pc[g] = "free" => drawn'[g] = drawn[g]
  BY DEF Invoke, Inv, TypeOK, MyTxid
<1>4. \/ pc'[f] = "free" /\ UNCHANGED <<pc, dns>>
      \/ /\ dns_txid' = Txid[calls + 1] /\ dns_done' = 0
         /\ \A g \in Caller : pc'[g] # "free" => Txid[calls + 1] \in drawn'[g]
  BY <1>2 DEF Invoke, Prepared, Inv, TypeOK
<1>5. \A q \in queries : q.txid # Txid[calls + 1]
  BY <1>1, ResolverAssumption DEF Inv, QueriesAsked, Calls
<1>6. OwnCalls'
  BY <1>1, <1>2, <1>3 DEF Inv, OwnCalls
<1>7. TxidIsDrawn'
  BY <1>3, <1>4 DEF Inv, TxidIsDrawn, dns
<1>8. QueriesAsked'
  <2>1. MyTxid(f)' = Txid[calls + 1]
    BY <1>2 DEF MyTxid
  <2>. QED BY <1>1, <1>2, <1>3, <1>5, <2>1 DEF Inv, QueriesAsked
<1>9. AnswersFromQueries' /\ SeenIsDrawn'
  BY <1>2, <1>3 DEF Inv, AnswersFromQueries, SeenIsDrawn
<1>10. DoneIsSeen'
  BY <1>2, <1>3, <1>4 DEF Inv, DoneIsSeen, dns
<1>11. AnswersTheQuestion'
  BY <1>2, <1>3 DEF Inv, AnswersTheQuestion, NoResult
<1>12. FailsForAReason'
  <2>1. MyTxid(f)' = Txid[calls + 1]
    BY <1>2 DEF MyTxid
  <2>. QED BY <1>2, <1>3, <1>5, <2>1 DEF Inv, FailsForAReason
<1>. QED BY <1>6, <1>7, <1>8, <1>9, <1>10, <1>11, <1>12 DEF Inv

\* Two invocations that have begun have drawn different numbers.
LEMMA NumbersDiffer ==
  ASSUME TypeOK, OwnCalls, NEW f \in Caller, NEW g \in Caller,
         call[f] > 0, call[g] > 0, MyTxid(f) = MyTxid(g)
  PROVE  f = g
<1>1. call[f] \in Calls /\ call[g] \in Calls
  BY ResolverAssumption DEF TypeOK, Calls
<1>2. call[f] = call[g]
  BY <1>1, ResolverAssumption DEF MyTxid
<1>. QED BY <1>2 DEF OwnCalls

\* The query gets to the network, or does not.
LEMMA TransmitInv ==
  ASSUME Inv, TypeOK', NEW f \in Caller, Transmit(f)
  PROVE  Inv'
<1>1. /\ UNCHANGED <<call, name, result, calls, dns_txid, dns_done, dns_result, answers, seen, drawn>>
      /\ queries \subseteq queries' /\ pc[f] = "sending" /\ pc'[f] = "looping"
      /\ \A q \in queries' : q \in queries \/ q = [txid |-> MyTxid(f), name |-> name[f]]
      /\ \A g \in Caller \ {f} : pc'[g] = pc[g] /\ late'[g] = late[g]
      /\ \A g \in Caller : MyTxid(g)' = MyTxid(g)
  BY DEF Transmit, dns, history, Inv, TypeOK, MyTxid
<1>2. call[f] \in 1 .. calls /\ call[f] > 0
  BY <1>1 DEF Inv, TypeOK, OwnCalls
<1>3. OwnCalls' /\ TxidIsDrawn' /\ AnswersFromQueries' /\ SeenIsDrawn' /\ DoneIsSeen'
  BY <1>1 DEF Inv, OwnCalls, TxidIsDrawn, AnswersFromQueries, SeenIsDrawn, DoneIsSeen
<1>4. ASSUME NEW g \in Caller, call[g] > 0, MyTxid(f) = MyTxid(g) PROVE f = g
  BY <1>2, <1>4, NumbersDiffer DEF Inv
<1>5. QueriesAsked'
  <2>1. \E k \in 1 .. calls : MyTxid(f) = Txid[k]
    BY <1>2 DEF MyTxid
  <2>. QED BY <1>1, <1>4, <2>1 DEF Inv, QueriesAsked
<1>6. AnswersTheQuestion'
  BY <1>1 DEF Inv, AnswersTheQuestion
<1>7. FailsForAReason'
  BY <1>1, <1>4 DEF Inv, FailsForAReason
<1>. QED BY <1>3, <1>5, <1>6, <1>7 DEF Inv

\* An answer accepted while invocations run was asked by one of them or
\* during them, and done and result follow it.
LEMMA RxKeeps ==
  ASSUME Inv, TypeOK', NEW m \in answers, RxEffect(m)
  PROVE  /\ OwnCalls' /\ QueriesAsked' /\ AnswersFromQueries' /\ SeenIsDrawn'
         /\ \A f \in Caller :
              IF pc[f] = "free" THEN seen'[f] = seen[f] ELSE
                /\ dns_done' = 1 => dns_result' # ZeroIp /\ \E s \in seen'[f] : s.ip = dns_result'
                /\ dns_done' = -1 => \E s \in seen'[f] : s.ip = ZeroIp
<1>1. UNCHANGED <<call, name, late, calls, ready, dns_txid, queries, answers, drawn>>
  BY DEF RxEffect
<1>2. OwnCalls' /\ QueriesAsked' /\ AnswersFromQueries'
  BY <1>1 DEF Inv, OwnCalls, QueriesAsked, AnswersFromQueries, MyTxid
<1>3. \A f \in Caller : seen'[f] = IF Matches(m) /\ pc[f] # "free" THEN seen[f] \cup {m} ELSE seen[f]
  BY DEF RxEffect, SeenAfter
<1>4. SeenIsDrawn'
  BY <1>1, <1>3 DEF Inv, SeenIsDrawn, TxidIsDrawn, Matches
<1>5. ASSUME NEW f \in Caller, pc[f] # "free"
      PROVE  /\ dns_done' = 1 => dns_result' # ZeroIp /\ \E s \in seen'[f] : s.ip = dns_result'
             /\ dns_done' = -1 => \E s \in seen'[f] : s.ip = ZeroIp
  <2>1. CASE Matches(m)
    <3>1. m \in seen'[f]
      BY <1>3, <1>5, <2>1
    <3>2. dns_done' = IF m.ip = ZeroIp THEN -1 ELSE 1
      BY <2>1 DEF RxEffect, DoneAfter
    <3>3. m.ip # ZeroIp => dns_result' = m.ip
      BY <2>1 DEF RxEffect, ResultAfter
    <3>. QED BY <3>1, <3>2, <3>3
  <2>2. CASE ~ Matches(m)
    BY <1>3, <1>5, <2>2 DEF RxEffect, Inv, DoneIsSeen, DoneAfter, ResultAfter
  <2>. QED BY <2>1, <2>2
<1>. QED BY <1>2, <1>3, <1>4, <1>5

\* The address in an answer with an invocation's number is the asked name's.
LEMMA AnswerIsForName ==
  ASSUME QueriesAsked, AnswersFromQueries, NEW f \in Caller, call[f] > 0, NEW m \in answers,
         m.txid = MyTxid(f), m.ip # ZeroIp
  PROVE  m.ip \in Address[name[f]]
<1>1. PICK q \in queries : q.txid = m.txid /\ m.ip \in Address[q.name] \cup {ZeroIp}
  BY DEF AnswersFromQueries
<1>2. q.name = name[f]
  BY <1>1 DEF QueriesAsked
<1>. QED BY <1>1, <1>2

\* The loop is left with done and ip, the fields after its last turn, when
\* seens is what was accepted until then.
LEMMA LeaveAnswers ==
  ASSUME TypeOK, QueriesAsked, AnswersFromQueries, NEW f \in Caller, call[f] > 0,
         NEW seens \in SUBSET answers, \A m \in seens : m.txid \in drawn[f],
         NEW done, NEW ip,
         done = 1 => ip # ZeroIp /\ \E m \in seens : m.ip = ip,
         Leave(f, done, ip), result'[f].rc = 0
  PROVE  /\ \E m \in seens : m.ip = result'[f].ip /\ m.txid \in drawn[f]
         /\ drawn[f] = {MyTxid(f)} => result'[f].ip \in Address[name[f]]
<1>1. done = 1 /\ result'[f].ip = ip
  BY DEF Leave, NoResult, TypeOK
<1>2. PICK m \in seens : m.ip = ip /\ m.ip # ZeroIp /\ m.txid \in drawn[f]
  BY <1>1
<1>3. drawn[f] = {MyTxid(f)} => m.ip \in Address[name[f]]
  BY <1>2, AnswerIsForName
<1>. QED BY <1>1, <1>2, <1>3

\* A turn of a loop that receives, or dns_rx in the main loop: a resolution
\* ends, if it does, with what dns_rx left.
LEMMA RxInv ==
  ASSUME Inv, TypeOK', NEW m \in answers, RxEffect(m),
         \/ UNCHANGED <<pc, result>>
         \/ \E f \in Caller : /\ pc[f] = "looping" /\ dns_done' # 0
                              /\ Leave(f, dns_done', dns_result')
  PROVE  Inv'
<1>1. UNCHANGED <<call, name, late, calls, ready, dns_txid, queries, answers, drawn>>
  BY DEF RxEffect
<1>2. /\ OwnCalls' /\ QueriesAsked' /\ AnswersFromQueries' /\ SeenIsDrawn'
      /\ \A f \in Caller :
           IF pc[f] = "free" THEN seen'[f] = seen[f] ELSE
             /\ dns_done' = 1 => dns_result' # ZeroIp /\ \E s \in seen'[f] : s.ip = dns_result'
             /\ dns_done' = -1 => \E s \in seen'[f] : s.ip = ZeroIp
  BY RxKeeps
<1>3. \A f \in Caller : MyTxid(f)' = MyTxid(f)
  BY <1>1 DEF MyTxid
<1>4. CASE UNCHANGED <<pc, result>>
  <2>1. TxidIsDrawn' /\ DoneIsSeen'
    BY <1>1, <1>2, <1>4 DEF Inv, TxidIsDrawn, DoneIsSeen
  <2>2. AnswersTheQuestion' /\ FailsForAReason'
    BY <1>1, <1>2, <1>3, <1>4 DEF Inv, AnswersTheQuestion, FailsForAReason
  <2>. QED BY <1>2, <2>1, <2>2 DEF Inv
<1>5. ASSUME NEW f \in Caller, pc[f] = "looping", dns_done' # 0,
             Leave(f, dns_done', dns_result')
      PROVE  Inv'
  <2>1. /\ pc'[f] = "free" /\ call[f] > 0
        /\ \A g \in Caller \ {f} : pc'[g] = pc[g] /\ result'[g] = result[g]
    BY <1>5 DEF Leave, Inv, TypeOK
  <2>2. TxidIsDrawn' /\ DoneIsSeen'
    BY <1>1, <1>2, <2>1 DEF Inv, TxidIsDrawn, DoneIsSeen
  <2>3. ASSUME result'[f].rc = 0
        PROVE  /\ \E s \in seen'[f] : s.ip = result'[f].ip /\ s.txid \in drawn[f]
               /\ drawn[f] = {MyTxid(f)} => result'[f].ip \in Address[name[f]]
    <3>1. PICK seens, done, ip : seens = seen'[f] /\ done = dns_done' /\ ip = dns_result'
      OBVIOUS
    <3>2. seens \in SUBSET answers /\ \A s \in seens : s.txid \in drawn[f]
      BY <1>1, <1>2, <3>1 DEF SeenIsDrawn
    <3>3. done = 1 => ip # ZeroIp /\ \E s \in seens : s.ip = ip
      BY <1>2, <1>5, <3>1
    <3>4. Leave(f, done, ip)
      BY <1>5, <3>1
    <3>5. /\ \E s \in seens : s.ip = result'[f].ip /\ s.txid \in drawn[f]
          /\ drawn[f] = {MyTxid(f)} => result'[f].ip \in Address[name[f]]
      BY <2>1, <2>3, <3>2, <3>3, <3>4, LeaveAnswers DEF Inv
    <3>. QED BY <3>1, <3>5
  <2>4. AnswersTheQuestion'
    BY <1>1, <1>2, <1>3, <2>1, <2>3 DEF Inv, AnswersTheQuestion
  <2>5. result'[f].rc = -1 => \E s \in seen'[f] : s.ip = ZeroIp
    BY <1>2, <1>5 DEF Leave, Inv, TypeOK
  <2>6. FailsForAReason'
    BY <1>1, <1>2, <1>3, <2>1, <2>5 DEF Inv, FailsForAReason
  <2>. QED BY <1>2, <2>2, <2>4, <2>6 DEF Inv
<1>. QED BY <1>4, <1>5

\* The loop is left with what its last turns found, or at the deadline.
LEMMA ReturnInv ==
  ASSUME Inv, TypeOK', NEW f \in Caller, Return(f)
  PROVE  Inv'
<1>1. /\ UNCHANGED <<call, name, late, calls, ready, dns_txid, dns_done, dns_result,
                     queries, answers, seen, drawn>>
      /\ pc[f] = "looping" /\ call[f] > 0 /\ pc'[f] = "free"
      /\ Leave(f, dns_done, dns_result)
      /\ \A g \in Caller \ {f} : pc'[g] = pc[g] /\ result'[g] = result[g]
      /\ \A g \in Caller : MyTxid(g)' = MyTxid(g)
  BY DEF Return, Leave, Inv, TypeOK, dns, history, MyTxid
<1>2. OwnCalls' /\ TxidIsDrawn' /\ QueriesAsked' /\ AnswersFromQueries' /\ SeenIsDrawn' /\ DoneIsSeen'
  BY <1>1 DEF Inv, OwnCalls, TxidIsDrawn, QueriesAsked, AnswersFromQueries, SeenIsDrawn, DoneIsSeen
<1>3. /\ seen[f] \in SUBSET answers
      /\ \A m \in seen[f] : m.txid \in drawn[f]
      /\ dns_done = 1 => dns_result # ZeroIp /\ \E m \in seen[f] : m.ip = dns_result
      /\ dns_done = -1 => \E m \in seen[f] : m.ip = ZeroIp
  BY <1>1 DEF Inv, SeenIsDrawn, DoneIsSeen
<1>4. AnswersTheQuestion'
  <2>1. ASSUME result'[f].rc = 0
        PROVE  /\ \E m \in seen[f] : m.ip = result'[f].ip /\ m.txid \in drawn[f]
               /\ drawn[f] = {MyTxid(f)} => result'[f].ip \in Address[name[f]]
    BY <1>1, <1>3, <2>1, LeaveAnswers DEF Inv
  <2>. QED BY <1>1, <2>1 DEF Inv, AnswersTheQuestion
<1>5. FailsForAReason'
  <2>1. result'[f].rc = -1 => late[f] \/ \E m \in seen[f] : m.ip = ZeroIp
    BY <1>1, <1>3 DEF Return, LoopEnds, Leave, Inv, TypeOK
  <2>. QED BY <1>1, <2>1 DEF Inv, FailsForAReason
<1>. QED BY <1>2, <1>4, <1>5 DEF Inv

\* A server answers a query that is on the network.
LEMMA AnswerInv ==
  ASSUME Inv, TypeOK', NEW q \in queries, Answer(q)
  PROVE  Inv'
<1>1. PICK ip \in Address[q.name] \cup {ZeroIp} :
        answers' = answers \cup {[txid |-> q.txid, ip |-> ip]}
  BY DEF Answer
<1>2. /\ UNCHANGED <<pc, call, name, late, result, calls, dns_txid, dns_done, dns_result,
                     queries, seen, drawn>>
      /\ \A g \in Caller : MyTxid(g)' = MyTxid(g)
  BY DEF Answer, caller, dns, history, MyTxid
<1>3. AnswersFromQueries'
  <2>1. \A m \in answers' : m \in answers \/ (m.txid = q.txid /\ m.ip = ip)
    BY <1>1
  <2>. QED BY <1>1, <1>2, <2>1 DEF Inv, AnswersFromQueries
<1>4. SeenIsDrawn'
  BY <1>1, <1>2 DEF Inv, SeenIsDrawn
<1>5. OwnCalls' /\ TxidIsDrawn' /\ QueriesAsked' /\ DoneIsSeen'
  BY <1>2 DEF Inv, OwnCalls, TxidIsDrawn, QueriesAsked, DoneIsSeen
<1>6. AnswersTheQuestion' /\ FailsForAReason'
  BY <1>2 DEF Inv, AnswersTheQuestion, FailsForAReason
<1>. QED BY <1>3, <1>4, <1>5, <1>6 DEF Inv

\* The deadline passes, or the configuration changes.
LEMMA QuietInv ==
  ASSUME Inv, TypeOK',
         (\E f \in Caller : Expire(f)) \/ Configure \/ UNCHANGED vars
  PROVE  Inv'
<1>1. /\ UNCHANGED <<pc, call, name, result, calls, dns_txid, dns_done, dns_result,
                     queries, answers, seen, drawn>>
      /\ \A f \in Caller : late[f] => late'[f]
      /\ \A g \in Caller : MyTxid(g)' = MyTxid(g)
  BY DEF Expire, Configure, vars, caller, dns, history, Inv, TypeOK, MyTxid
<1>2. /\ OwnCalls' /\ TxidIsDrawn' /\ QueriesAsked' /\ AnswersFromQueries'
      /\ SeenIsDrawn' /\ DoneIsSeen'
  BY <1>1 DEF Inv, OwnCalls, TxidIsDrawn, QueriesAsked, AnswersFromQueries, SeenIsDrawn, DoneIsSeen
<1>3. AnswersTheQuestion' /\ FailsForAReason'
  BY <1>1 DEF Inv, AnswersTheQuestion, FailsForAReason
<1>. QED BY <1>2, <1>3 DEF Inv

-----------------------------------------------------------------------------

LEMMA InitInv == Init => Inv
BY InitTyped
   DEF Init, NoResult, Inv, TypeOK, OwnCalls, TxidIsDrawn, QueriesAsked, AnswersFromQueries,
       SeenIsDrawn, DoneIsSeen, AnswersTheQuestion, FailsForAReason

LEMMA NextInv == Inv /\ [Next]_vars => Inv'
<1> SUFFICES ASSUME Inv, [Next]_vars PROVE Inv'
  OBVIOUS
<1>1. TypeOK'
  BY NextTyped DEF Inv
<1>2. ASSUME (\E f \in Caller : Expire(f)) \/ Configure \/ UNCHANGED vars PROVE Inv'
  BY <1>1, <1>2, QuietInv
<1>3. ASSUME NEW f \in Caller, NEW n \in Name, Invoke(f, n) PROVE Inv'
  BY <1>1, <1>3, InvokeInv
<1>4. ASSUME NEW f \in Caller, Transmit(f) PROVE Inv'
  BY <1>1, <1>4, TransmitInv
<1>5. ASSUME NEW f \in Caller, Return(f) PROVE Inv'
  BY <1>1, <1>5, ReturnInv
<1>6. ASSUME NEW f \in Caller, NEW m \in answers, PumpAnswer(f, m) PROVE Inv'
  <2>1. RxEffect(m) /\ pc[f] = "looping"
    BY <1>6 DEF PumpAnswer
  <2>2. UNCHANGED <<pc, result>> \/ (dns_done' # 0 /\ Leave(f, dns_done', dns_result'))
    BY <1>6 DEF PumpAnswer, RxEffect
  <2>. QED BY <1>1, <2>1, <2>2, RxInv
<1>7. ASSUME NEW m \in answers, dns_rx(m) PROVE Inv'
  BY <1>1, <1>7, RxInv DEF dns_rx
<1>8. ASSUME NEW q \in queries, Answer(q) PROVE Inv'
  BY <1>1, <1>8, AnswerInv
<1>. QED BY <1>2, <1>3, <1>4, <1>5, <1>6, <1>7, <1>8 DEF Next, CallerStep

\* A resolved address answers this invocation's query or that of one begun
\* during it, and is the asked name's when there was none (dns_rx, dns_resolve).
THEOREM ResolvesTheQuestion == Spec => []AnswersTheQuestion
<1>1. Inv => AnswersTheQuestion
  BY DEF Inv
<1>. QED BY <1>1, InitInv, NextInv, PTL DEF Spec

\* dns_resolve fails only at its deadline or on an answer without an address,
\* once its query is on the network, also when others reset its fields.
THEOREM FailuresHaveReasons == Spec => []FailsForAReason
<1>1. Inv => FailsForAReason
  BY DEF Inv
<1>. QED BY <1>1, InitInv, NextInv, PTL DEF Spec

=============================================================================
