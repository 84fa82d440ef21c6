--------------------------- MODULE UdpPortsProofs ---------------------------
(***************************************************************************)
(* Proofs about UdpPorts for every number of slots, ports and datagrams.   *)
(* UniquePort and WaitingIsNew need each other and HistoryBehind: a slot   *)
(* that kept an old datagram of a port bound twice would break             *)
(* WaitingIsNew when the other slot is received from.                      *)
(***************************************************************************)
EXTENDS UdpPorts, FiniteSetTheorems, FunctionTheorems, WellFoundedInduction, TLAPS

\* A non-empty set of naturals has a least element, and Min is that element.
LEMMA MinOfNats ==
  ASSUME NEW S \in SUBSET Nat, S # {}
  PROVE  Min(S) \in S /\ \A y \in S : Min(S) <= y
<1> DEFINE Less == {ss \in Nat \X Nat : ss[1] < ss[2]}
<1>1. IsWellFoundedOn(Less, Nat)
  BY NatLessThanWellFounded DEF OpToRel
<1>. HIDE DEF Less
<1>2. \E x \in S : \A y \in S : x <= y
  <2>1. PICK x \in S : \A y \in S : ~ (<<y, x>> \in Less)
    BY <1>1, WFMin, Zenon
  <2>2. \A y \in S : ~ (y < x)
    BY <2>1 DEF Less
  <2>. QED BY <2>2
<1>. QED BY <1>2 DEF Min

-----------------------------------------------------------------------------
(* The operators on the table.                                             *)

Table == [Slots -> udp_bind_t]

\* A search that finds anything ends at a slot of the set it searches.
LEMMA MinOfSlots ==
  ASSUME NEW S \in SUBSET Slots, S # {}
  PROVE  Min(S) \in S
BY MinOfNats, PortAssumption DEF Slots

LEMMA SlotSets ==
  ASSUME NEW b, NEW p
  PROVE  /\ Bound(b, p) \subseteq Slots /\ Unused(b) \subseteq Slots
         /\ Waiting(b, p) \subseteq Bound(b, p)
BY DEF Bound, Unused, Waiting

\* udp_bind leaves the table alone or gives one unused slot, emptied, to a
\* port that had none.
LEMMA BindEffect ==
  ASSUME NEW b \in Table, NEW p \in Port
  PROVE  /\ BindTable(b, p) \in Table
         /\ \/ BindTable(b, p) = b
            \/ /\ Bound(b, p) = {}
               /\ \E s \in Slots :
                    BindTable(b, p) =
                      [b EXCEPT ![s] = InUse(p, 0, 0, 0)]
<1>1. InUse(p, 0, 0, 0) \in udp_bind_t
  BY PortAssumption DEF InUse, udp_bind_t
<1>2. CASE Bound(b, p) # {} \/ Unused(b) = {}
  BY <1>2 DEF BindTable
<1>3. CASE Bound(b, p) = {} /\ Unused(b) # {}
  <2>1. Min(Unused(b)) \in Slots
    BY <1>3, SlotSets, MinOfSlots
  <2>. QED BY <1>1, <1>3, <2>1 DEF BindTable, Table
<1>. QED BY <1>2, <1>3

\* udp_unbind changes at most the used flag of one slot, to FALSE.
LEMMA UnbindEffect ==
  ASSUME NEW b \in Table, NEW p \in Port
  PROVE  \/ UnbindTable(b, p) = b
         \/ \E s \in Slots : UnbindTable(b, p) = [b EXCEPT ![s].used = FALSE]
BY SlotSets, MinOfSlots DEF UnbindTable

\* c is b, or b with a slot of p filled with datagram id.
Filled(b, c, p, id) ==
  \/ c = b
  \/ \E s \in Bound(b, p), n \in 0 .. UDP_RXBUF_SIZE, m \in Nat :
       c = [b EXCEPT ![s] = InUse(p, id, n, m)]

\* udp_rx fills a slot bound to the port, if there is one.
LEMMA StoreEffect ==
  ASSUME NEW b \in Table, NEW p \in Port, NEW id \in Nat, NEW len \in Nat,
         NEW came \in Nat
  PROVE  Filled(b, StoreTable(b, p, id, len, came), p, id)
<1> DEFINE n == Least(len, UDP_RXBUF_SIZE)
<1>1. n \in 0 .. UDP_RXBUF_SIZE /\ Least(came, n) \in Nat
  BY PortAssumption DEF Least
<1>2. CASE Bound(b, p) = {}
  BY <1>2 DEF StoreTable, Filled
<1>3. CASE Bound(b, p) # {}
  <2>1. Min(Bound(b, p)) \in Bound(b, p)
    BY <1>3, SlotSets, MinOfSlots
  <2>2. StoreTable(b, p, id, len, came) =
          [b EXCEPT ![Min(Bound(b, p))] = InUse(p, id, n, Least(came, n))]
    BY <1>3 DEF StoreTable
  <2>. QED BY <1>1, <2>1, <2>2 DEF Filled
<1>. QED BY <1>2, <1>3

\* What a client asks for is a number of bytes.
LEMMA AskedIsNat == ASSUME NEW max \in BufferSizes PROVE Asked(max) \in Nat
BY PortAssumption DEF Asked

\* udp_recv takes the datagram out of the slot it returns it from.
LEMMA RecvEffect ==
  ASSUME NEW b \in Table, NEW p \in Port, NEW room \in Nat, Waiting(b, p) # {}
  PROVE  \E s \in Waiting(b, p) :
           /\ RecvTable(b, p) = [b EXCEPT ![s].len = 0]
           /\ RecvResult(b, p, room).id = b[s].id
           /\ RecvResult(b, p, room) \in Reply
<1>1. PICK s \in Waiting(b, p) : s = Min(Waiting(b, p))
  BY SlotSets, MinOfSlots
<1>2. s \in Slots /\ b[s].id \in Nat /\ b[s].len \in Nat /\ b[s].own \in Nat
  BY SlotSets, PortAssumption DEF Table, udp_bind_t
<1>3. Least(b[s].len, room) \in Nat /\ Least(b[s].own, room) \in Nat
  BY <1>2 DEF Least
<1>. QED BY <1>1, <1>2, <1>3 DEF RecvTable, RecvResult, Reply

-----------------------------------------------------------------------------
(* The inductive invariant.                                                *)

\* Nothing that history records is ahead of the datagrams that arrived.
HistoryBehind ==
  \A p \in Port : lastGot[p] <= arrived /\ bornAt[p] <= arrived

Inv == TypeOK /\ UniquePort /\ WaitingIsNew /\ HistoryBehind

LEMMA InitInv == Init => Inv
<1> SUFFICES ASSUME Init PROVE Inv
  OBVIOUS
<1> DEFINE z == [i \in Slots |-> Zeroed]
<1>1. z \in Table
  BY PortAssumption DEF Table, Zeroed, udp_bind_t
<1>2. /\ binds \in Table
      /\ \/ binds = z
         \/ \E s \in Slots :
              binds = [z EXCEPT ![s] = InUse(DHCP_PORT_CLIENT, 0, 0, 0)]
  BY <1>1, BindEffect, PortAssumption DEF Init
<1>3. UniquePort /\ WaitingIsNew
  <2>1. \A i \in Slots : binds[i].len = 0
    BY <1>2 DEF Zeroed, InUse
  <2>2. \A i, j \in Slots : binds[i].used /\ binds[j].used => i = j
    BY <1>2 DEF Zeroed, InUse
  <2>. QED BY <2>1, <2>2 DEF UniquePort, WaitingIsNew
<1>. QED
  BY <1>2, <1>3, PortAssumption DEF Init, Inv, TypeOK, Table, HistoryBehind

LEMMA BindInv ==
  ASSUME Inv, NEW p \in Port, Bind(p)
  PROVE  Inv'
<1>1. binds' \in Table
  BY BindEffect DEF Inv, TypeOK, Table, Bind
<1>2. Status(BindStatus(binds, p)) \in Reply
  BY DEF Status, BindStatus, Reply
<1>3. TypeOK' /\ HistoryBehind'
  BY <1>1, <1>2 DEF Inv, TypeOK, HistoryBehind, Table, Bind
<1>4. CASE Bound(binds, p) # {}
  <2>1. binds' = binds /\ bornAt' = bornAt
    BY <1>4 DEF Bind, BindTable
  <2>. QED BY <1>3, <2>1 DEF Inv, UniquePort, WaitingIsNew, Bind
<1>5. CASE Bound(binds, p) = {}
  <2>1. \A i \in Slots : binds[i].used => binds[i].port # p
    BY <1>5 DEF Bound
  <2>2. /\ \A i \in Slots : binds[i].used => bornAt'[binds[i].port] = bornAt[binds[i].port]
        /\ lastGot' = lastGot /\ arrived' = arrived
    BY <1>5, <2>1 DEF Bind, Inv, TypeOK, udp_bind_t
  <2>3. CASE binds' = binds
    BY <1>3, <2>2, <2>3 DEF Inv, UniquePort, WaitingIsNew
  <2>4. ASSUME NEW s \in Slots,
               binds' = [binds EXCEPT ![s] = InUse(p, 0, 0, 0)]
        PROVE  UniquePort' /\ WaitingIsNew'
    <3>1. /\ binds'[s].used /\ binds'[s].port = p /\ binds'[s].len = 0
          /\ \A i \in Slots \ {s} : binds'[i] = binds[i]
      BY <2>4 DEF Inv, TypeOK, InUse
    <3>2. UniquePort'
      BY <2>1, <3>1 DEF Inv, UniquePort
    <3>3. WaitingIsNew'
      BY <2>2, <3>1 DEF Inv, WaitingIsNew
    <3>. QED BY <3>2, <3>3
  <2>5. \/ binds' = binds
        \/ \E s \in Slots : binds' = [binds EXCEPT ![s] = InUse(p, 0, 0, 0)]
    BY BindEffect DEF Inv, TypeOK, Table, Bind
  <2>. QED BY <1>3, <2>3, <2>4, <2>5 DEF Inv
<1>. QED BY <1>4, <1>5

LEMMA UnbindInv ==
  ASSUME Inv, NEW p \in Port, Unbind(p)
  PROVE  Inv'
<1>1. CASE binds' = binds
  BY <1>1 DEF Inv, TypeOK, Reply, Status, UniquePort, WaitingIsNew, HistoryBehind, Unbind
<1>2. ASSUME NEW s \in Slots, binds' = [binds EXCEPT ![s].used = FALSE]
      PROVE  Inv'
  <2>1. \A i \in Slots : /\ binds'[i].used => binds[i].used
                         /\ binds'[i].port = binds[i].port
                         /\ binds'[i].len = binds[i].len
                         /\ binds'[i].id = binds[i].id
    BY <1>2 DEF Inv, TypeOK, udp_bind_t
  <2>2. TypeOK' /\ HistoryBehind'
    BY <1>2 DEF Inv, TypeOK, Reply, Status, udp_bind_t, HistoryBehind, Unbind
  <2>3. UniquePort' /\ WaitingIsNew'
    BY <2>1 DEF Inv, UniquePort, WaitingIsNew, Unbind
  <2>. QED BY <2>2, <2>3 DEF Inv
<1>. QED BY <1>1, <1>2, UnbindEffect DEF Inv, TypeOK, Table, Unbind

LEMMA ArriveInv ==
  ASSUME Inv, NEW src \in Port, NEW dst \in Port, NEW len \in Lengths,
         NEW came \in Lengths, Arrive(src, dst, len, came)
  PROVE  Inv'
<1>1. /\ arrived \in Nat /\ arrived' = arrived + 1 /\ arrived' \in 0 .. MaxDatagrams
      /\ lastGot' = lastGot /\ bornAt' = bornAt /\ result' = Nothing
      /\ sound' = sound
      /\ \A q \in Port : lastGot[q] \in Nat /\ bornAt[q] \in Nat
  BY PortAssumption DEF Arrive, Inv, TypeOK
<1>2. HistoryBehind'
  BY <1>1 DEF Inv, HistoryBehind
<1>3. CASE binds' = binds
  <2>1. TypeOK' /\ UniquePort'
    BY <1>1, <1>3 DEF Inv, TypeOK, UniquePort
  <2>2. WaitingIsNew'
    BY <1>1, <1>3 DEF Inv, TypeOK, udp_bind_t, WaitingIsNew
  <2>. QED BY <1>2, <2>1, <2>2 DEF Inv
<1>4. ASSUME NEW s \in Slots, NEW n \in 0 .. UDP_RXBUF_SIZE, NEW m \in Nat,
             binds' = [binds EXCEPT ![s] = InUse(dst, arrived + 1, n, m)],
             binds[s].used, binds[s].port = dst
      PROVE  Inv'
  <2>1. /\ binds'[s].id = arrived' /\ binds'[s].len = n
        /\ binds'[s].port = binds[s].port /\ binds'[s].used
        /\ \A i \in Slots \ {s} : binds'[i] = binds[i]
    BY <1>1, <1>4 DEF Inv, TypeOK, InUse
  <2>2. TypeOK'
    <3>1. binds' \in [Slots -> udp_bind_t]
      BY <1>1, <1>4 DEF Inv, TypeOK, udp_bind_t, InUse
    <3>. QED BY <1>1, <3>1 DEF Inv, TypeOK
  <2>3. UniquePort'
    BY <1>4, <2>1 DEF Inv, UniquePort
  <2>4. \A i \in Slots : binds[i].port \in Port /\ binds[i].id \in Nat
    BY DEF Inv, TypeOK, udp_bind_t
  <2>5. WaitingIsNew'
    BY <1>1, <2>1, <2>4 DEF Inv, WaitingIsNew, HistoryBehind
  <2>. QED BY <1>2, <2>2, <2>3, <2>5 DEF Inv
<1>5. len \in Nat /\ came \in Nat /\ binds \in Table /\ arrived + 1 \in Nat
  BY <1>1, PortAssumption DEF Inv, TypeOK, Table
<1>6. CASE ForMailbox(src, dst, len)
  <2>1. binds' = StoreTable(binds, dst, arrived + 1, len, came)
    BY <1>6 DEF Arrive
  <2>2. \A s \in Bound(binds, dst) : s \in Slots /\ binds[s].used /\ binds[s].port = dst
    BY DEF Bound
  <2>3. \/ binds' = binds
        \/ \E s \in Bound(binds, dst), n \in 0 .. UDP_RXBUF_SIZE, m \in Nat :
             binds' = [binds EXCEPT ![s] = InUse(dst, arrived + 1, n, m)]
    <3>1. Filled(binds, StoreTable(binds, dst, arrived + 1, len, came), dst, arrived + 1)
      BY <1>5, StoreEffect
    <3>. QED BY <2>1, <3>1 DEF Filled
  <2>4. ASSUME NEW s \in Bound(binds, dst), NEW n \in 0 .. UDP_RXBUF_SIZE, NEW m \in Nat,
               binds' = [binds EXCEPT ![s] = InUse(dst, arrived + 1, n, m)]
        PROVE  Inv'
    BY <1>4, <2>2, <2>4
  <2>. QED BY <1>3, <2>3, <2>4
<1>7. CASE ~ ForMailbox(src, dst, len)
  BY <1>3, <1>7 DEF Arrive
<1>. QED BY <1>6, <1>7

LEMMA RecvInv ==
  ASSUME Inv, NEW p \in Port, NEW max \in BufferSizes, Recv(p, max)
  PROVE  Inv'
<1>1. Asked(max) \in Nat /\ binds \in Table
  BY AskedIsNat DEF Inv, TypeOK, Table
<1>2. CASE Waiting(binds, p) = {}
  <2>1. binds' = binds /\ result' = Status(-1) /\ UNCHANGED <<arrived, lastGot, bornAt, sound>>
    BY <1>2 DEF Recv, RecvTable, RecvResult
  <2>. QED
    BY <2>1 DEF Inv, TypeOK, Reply, Status, UniquePort, WaitingIsNew, HistoryBehind
<1>3. CASE Waiting(binds, p) # {}
  <2>1. PICK s \in Waiting(binds, p) :
          /\ binds' = [binds EXCEPT ![s].len = 0]
          /\ lastGot' = [lastGot EXCEPT ![p] = binds[s].id]
          /\ result' \in Reply
          /\ UNCHANGED <<arrived, bornAt, sound>>
    BY <1>1, <1>3, RecvEffect DEF Recv
  <2>2. s \in Slots /\ binds[s].used /\ binds[s].port = p /\ binds[s].len > 0
    BY DEF Waiting, Bound
  <2>3. binds[s].id \in Nat /\ binds[s].id <= arrived
    BY <2>2 DEF Inv, TypeOK, udp_bind_t, WaitingIsNew
  <2>4. /\ binds'[s].len = 0
        /\ \A i \in Slots : binds'[i].used = binds[i].used /\ binds'[i].port = binds[i].port
        /\ \A i \in Slots \ {s} : binds'[i] = binds[i]
    BY <2>1, <2>2 DEF Inv, TypeOK, udp_bind_t
  <2>5. TypeOK'
    BY <2>1, <2>2, <2>3, PortAssumption DEF Inv, TypeOK, udp_bind_t
  <2>6. UniquePort'
    BY <2>4 DEF Inv, UniquePort
  <2>7. HistoryBehind'
    BY <2>1, <2>3 DEF Inv, TypeOK, HistoryBehind
  <2>8. \A i \in Slots \ {s} : binds[i].used => binds[i].port \in Port \ {p}
    BY <2>2 DEF Inv, TypeOK, udp_bind_t, UniquePort
  <2>9. WaitingIsNew'
    <3> SUFFICES ASSUME NEW i \in Slots, binds'[i].used, binds'[i].len > 0
                 PROVE  /\ binds'[i].id > lastGot'[binds'[i].port]
                        /\ binds'[i].id > bornAt'[binds'[i].port]
                        /\ binds'[i].id <= arrived'
      BY DEF WaitingIsNew
    <3>1. i # s /\ binds'[i] = binds[i] /\ binds[i].port \in Port \ {p}
      BY <2>4, <2>8
    <3>2. lastGot'[binds[i].port] = lastGot[binds[i].port]
      BY <2>1, <3>1 DEF Inv, TypeOK
    <3>. QED BY <2>1, <3>1, <3>2 DEF Inv, WaitingIsNew
  <2>. QED BY <2>5, <2>6, <2>7, <2>9 DEF Inv
<1>. QED BY <1>2, <1>3

LEMMA OverrunInv ==
  ASSUME Inv, NEW p \in Port, NEW max \in BufferSizes, Overrun(p, max)
  PROVE  Inv'
BY DEF Overrun, Inv, TypeOK, UniquePort, WaitingIsNew, HistoryBehind

LEMMA NextInv == Inv /\ [Next]_vars => Inv'
<1> SUFFICES ASSUME Inv, [Next]_vars PROVE Inv'
  OBVIOUS
<1>1. CASE Next
  BY <1>1, BindInv, UnbindInv, ArriveInv, RecvInv, OverrunInv DEF Next
<1>2. CASE UNCHANGED vars
  BY <1>2 DEF vars, Inv, TypeOK, UniquePort, WaitingIsNew, HistoryBehind
<1>. QED BY <1>1, <1>2

\* The table, the counters and the replies keep their types, and no slot
\* ever counts more bytes than its buffer holds.
THEOREM TypeCorrect == Spec => []TypeOK
<1>1. Inv => TypeOK
  BY DEF Inv
<1>. QED BY <1>1, InitInv, NextInv, PTL DEF Spec

\* No order of binds and unbinds gives one port two slots.
THEOREM OneSlotPerPort == Spec => []UniquePort
<1>1. Inv => UniquePort
  BY DEF Inv
<1>. QED BY <1>1, InitInv, NextInv, PTL DEF Spec

\* A datagram is received at most once, after those received before it, and
\* only by a client that had the port open when it arrived.
THEOREM DatagramsAreNew == Spec => []WaitingIsNew
<1>1. Inv => WaitingIsNew
  BY DEF Inv
<1>. QED BY <1>1, InitInv, NextInv, PTL DEF Spec

-----------------------------------------------------------------------------
(* The refinement of PortMailboxes.                                        *)

\* What a slot holds for its port.
BoxIn(e) == IF e.len = 0 THEN Empty ELSE [id |-> e.id, len |-> e.len, own |-> e.own]

\* A port is closed when no slot is bound to it, and any slot that is holds
\* what its mailbox holds.
SlotsAreBoxes ==
  \A p \in Port :
    /\ BoxOf(p) = Closed <=> Bound(binds, p) = {}
    /\ \A i \in Bound(binds, p) : BoxOf(p) = BoxIn(binds[i])

LEMMA BoxOfSlot == Inv => SlotsAreBoxes
<1> SUFFICES ASSUME Inv, NEW p \in Port
             PROVE  /\ BoxOf(p) = Closed <=> Bound(binds, p) = {}
                    /\ \A i \in Bound(binds, p) : BoxOf(p) = BoxIn(binds[i])
  BY DEF SlotsAreBoxes
<1>1. CASE Bound(binds, p) = {}
  BY <1>1 DEF BoxOf
<1>2. ASSUME NEW i \in Bound(binds, p)
      PROVE  BoxOf(p) = BoxIn(binds[i]) /\ BoxOf(p) # Closed
  <2>1. i \in Slots /\ binds[i].len \in Nat /\ binds[i].id \in Nat
        /\ binds[i].own \in Nat
    BY <1>2, PortAssumption DEF Bound, Inv, TypeOK, udp_bind_t
  <2>2. Bound(binds, p) = {i}
    BY <1>2 DEF Bound, Inv, UniquePort
  <2>3. CASE binds[i].len = 0
    <3>1. Waiting(binds, p) = {}
      BY <2>2, <2>3 DEF Waiting
    <3>. QED BY <1>2, <2>3, <3>1, PortAssumption DEF BoxOf, BoxIn
  <2>4. CASE binds[i].len > 0
    <3>1. Waiting(binds, p) = {i}
      BY <2>2, <2>4 DEF Waiting
    <3>2. Min(Waiting(binds, p)) = i
      BY <2>1, <3>1, MinOfSlots
    <3>3. BoxOf(p) = [id |-> binds[i].id, len |-> binds[i].len, own |-> binds[i].own]
      BY <1>2, <3>1, <3>2 DEF BoxOf
    <3>. QED BY <2>1, <2>4, <3>3, PortAssumption DEF BoxIn
  <2>. QED BY <2>1, <2>3, <2>4
<1>. QED BY <1>1, <1>2

\* PortMailboxes counts as this module does.
LEMMA SameCardinality == ASSUME NEW S PROVE Boxes!Cardinality(S) = Cardinality(S)
BY DEF Boxes!Cardinality, Cardinality

\* As many ports are open as slots are in use.
LEMMA FullMeansNoneUnused ==
  ASSUME Inv
  PROVE  /\ Unused(binds) = {} => Boxes!Cardinality(Boxes!Open) = UDP_MAX_BINDS
         /\ Unused(binds) # {} => Boxes!Cardinality(Boxes!Open) < UDP_MAX_BINDS
         /\ Boxes!Cardinality(Boxes!Open) \in Nat
<1> DEFINE Open == {p \in Port : BoxOf(p) # Closed}
           Used == {i \in Slots : binds[i].used}
<1>1. IsFiniteSet(Slots) /\ Cardinality(Slots) = UDP_MAX_BINDS
  BY PortAssumption, FS_Interval DEF Slots
<1>2. \A p \in Port : p \in Open <=> \E i \in Slots : binds[i].used /\ binds[i].port = p
  BY BoxOfSlot DEF SlotsAreBoxes, Bound
<1>3. [i \in Used |-> binds[i].port] \in Bijection(Used, Open)
  <2> DEFINE m == [i \in Used |-> binds[i].port]
  <2>1. m \in [Used -> Open]
    BY <1>2 DEF Inv, TypeOK, udp_bind_t
  <2>2. \A i, j \in Used : m[i] = m[j] => i = j
    BY DEF Inv, UniquePort
  <2>3. \A p \in Open : \E i \in Used : m[i] = p
    BY <1>2
  <2>. QED BY <2>1, <2>2, <2>3, Fun_IsBij
<1>4. Used \subseteq Slots /\ ExistsBijection(Used, Open)
  BY <1>3 DEF ExistsBijection
<1>5. /\ Unused(binds) = {} => Used = Slots
      /\ Unused(binds) # {} => Used # Slots
  BY DEF Unused
<1>6. Boxes!Open = Open
  BY DEF Boxes!Open
<1>. HIDE DEF Open, Used
<1>7. IsFiniteSet(Used) /\ Cardinality(Used) \in Nat /\ Cardinality(Used) = Cardinality(Open)
  BY <1>1, <1>4, FS_Subset, FS_Bijection, FS_CardinalityType
<1>8. Used # Slots => Cardinality(Used) < UDP_MAX_BINDS
  BY <1>1, <1>4, <1>7, FS_Subset, FS_CardinalityType
<1>9. /\ Used = Slots => Cardinality(Open) = UDP_MAX_BINDS
      /\ Used # Slots => Cardinality(Open) < UDP_MAX_BINDS
      /\ Cardinality(Open) \in Nat
  <2>1. Used = Slots => Cardinality(Used) = UDP_MAX_BINDS
    BY <1>1
  <2>. QED BY <1>7, <1>8, <2>1
<1>. QED BY <1>5, <1>6, <1>9, SameCardinality

LEMMA InitRefines == Init => Boxes!Init
<1> SUFFICES ASSUME Init PROVE Boxes!Init
  OBVIOUS
<1>. USE PortAssumption
<1> DEFINE z == [i \in Slots |-> Zeroed]
<1>1. Inv
  BY InitInv
<1>2. Unused(z) = Slots /\ \A p \in Port : Bound(z, p) = {}
  BY DEF Unused, Bound, Zeroed
<1>3. PICK s \in Slots : s = Min(Unused(z))
  <2>1. 0 \in Unused(z)
    BY <1>2 DEF Slots
  <2>2. Min(Unused(z)) \in Slots
    BY <2>1, SlotSets, MinOfSlots
  <2>. QED BY <2>2
<1>4. binds = [z EXCEPT ![s] = InUse(DHCP_PORT_CLIENT, 0, 0, 0)]
  BY <1>2, <1>3 DEF Init, BindTable
<1>5. ASSUME NEW p \in Port
      PROVE  BoxOf(p) = IF p = DHCP_PORT_CLIENT THEN Empty ELSE Closed
  <2>1. CASE p = DHCP_PORT_CLIENT
    <3>1. s \in Bound(binds, p) /\ binds[s].len = 0
      BY <1>4, <2>1 DEF Bound, InUse
    <3>. QED BY <1>1, <2>1, <3>1, BoxOfSlot DEF SlotsAreBoxes, BoxIn
  <2>2. CASE p # DHCP_PORT_CLIENT
    <3>1. Bound(binds, p) = {}
      BY <1>4, <2>2 DEF Bound, InUse, Zeroed
    <3>. QED BY <1>1, <2>2, <3>1, BoxOfSlot DEF SlotsAreBoxes
  <2>. QED BY <2>1, <2>2
<1>. QED BY <1>5 DEF Init, Boxes!Init

\* A port's mailbox changes only with the slots bound to it.
LEMMA SameBox ==
  ASSUME SlotsAreBoxes, SlotsAreBoxes', NEW p \in Port,
         Bound(binds', p) = Bound(binds, p),
         \A i \in Bound(binds, p) : binds'[i] = binds[i]
  PROVE  BoxOf(p)' = BoxOf(p)
BY DEF SlotsAreBoxes, BoxIn

LEMMA BindRefines ==
  ASSUME Inv, Inv', NEW p \in Port, Bind(p)
  PROVE  Boxes!Bind(p)
<1>0. SlotsAreBoxes /\ SlotsAreBoxes'
  BY BoxOfSlot, PTL
<1>1. /\ Status(0) = Boxes!Status(0) /\ Status(-1) = Boxes!Status(-1)
      /\ p \in Boxes!Open <=> Bound(binds, p) # {}
  BY <1>0 DEF Status, Boxes!Status, Boxes!Open, SlotsAreBoxes
<1>2. CASE Bound(binds, p) # {}
  <2>1. binds' = binds /\ result' = Status(0)
    BY <1>2 DEF Bind, BindTable, BindStatus
  <2>2. \A q \in Port : BoxOf(q)' = BoxOf(q)
    BY <1>0, <2>1, SameBox
  <2>. QED BY <1>1, <1>2, <2>1, <2>2 DEF Bind, Boxes!Bind
<1>3. CASE Bound(binds, p) = {} /\ Unused(binds) = {}
  <2>1. binds' = binds /\ result' = Status(-1)
    BY <1>3 DEF Bind, BindTable, BindStatus
  <2>2. \A q \in Port : BoxOf(q)' = BoxOf(q)
    BY <1>0, <2>1, SameBox
  <2>3. Boxes!Cardinality(Boxes!Open) >= UDP_MAX_BINDS
    BY <1>3, FullMeansNoneUnused, PortAssumption
  <2>. QED BY <1>1, <1>3, <2>1, <2>2, <2>3 DEF Bind, Boxes!Bind
<1>4. CASE Bound(binds, p) = {} /\ Unused(binds) # {}
  <2>1. PICK s \in Unused(binds) : s = Min(Unused(binds))
    BY <1>4, SlotSets, MinOfSlots
  <2>2. /\ binds' = [binds EXCEPT ![s] = InUse(p, 0, 0, 0)] /\ result' = Status(0)
        /\ s \in Slots /\ ~ binds[s].used
    BY <1>4, <2>1 DEF Bind, BindTable, BindStatus, Unused
  <2>3. /\ binds'[s].used /\ binds'[s].port = p /\ binds'[s].len = 0
        /\ \A i \in Slots \ {s} : binds'[i] = binds[i]
    BY <2>2 DEF Inv, TypeOK, InUse
  <2>4. ASSUME NEW q \in Port, q # p PROVE BoxOf(q)' = BoxOf(q)
    <3>1. Bound(binds', q) = Bound(binds, q) /\ s \notin Bound(binds, q)
      BY <2>2, <2>3, <2>4 DEF Bound
    <3>2. \A i \in Bound(binds, q) : binds'[i] = binds[i]
      BY <2>3, <3>1 DEF Bound
    <3>. QED BY <1>0, <3>1, <3>2, SameBox
  <2>5. ASSUME NEW q \in Port, q = p PROVE BoxOf(q)' = Empty
    <3>1. s \in Bound(binds', q)
      BY <2>2, <2>3, <2>5 DEF Bound
    <3>. QED BY <1>0, <2>3, <3>1 DEF SlotsAreBoxes, BoxIn
  <2>6. [q \in Port |-> BoxOf(q)'] = [[q \in Port |-> BoxOf(q)] EXCEPT ![p] = Empty]
    BY <2>4, <2>5
  <2>7. Boxes!Cardinality(Boxes!Open) < UDP_MAX_BINDS
    BY <1>4, FullMeansNoneUnused
  <2>. QED BY <1>1, <1>4, <2>2, <2>6, <2>7 DEF Bind, Boxes!Bind
<1>. QED BY <1>2, <1>3, <1>4

LEMMA UnbindRefines ==
  ASSUME Inv, Inv', NEW p \in Port, Unbind(p)
  PROVE  Boxes!Unbind(p)
<1>0. SlotsAreBoxes /\ SlotsAreBoxes'
  BY BoxOfSlot, PTL
<1>1. \A i \in Slots : /\ binds'[i].port = binds[i].port
                       /\ binds'[i].used <=> binds[i].used /\ i \notin Bound(binds, p)
                       /\ i \notin Bound(binds, p) => binds'[i] = binds[i]
  <2>1. CASE Bound(binds, p) = {}
    BY <2>1 DEF Unbind, UnbindTable
  <2>2. CASE Bound(binds, p) # {}
    <3>1. PICK s \in Bound(binds, p) : s = Min(Bound(binds, p))
      BY <2>2, SlotSets, MinOfSlots
    <3>2. Bound(binds, p) = {s} /\ s \in Slots
      BY DEF Bound, Inv, UniquePort
    <3>3. binds' = [binds EXCEPT ![s].used = FALSE]
      BY <2>2, <3>1 DEF Unbind, UnbindTable
    <3>. QED BY <3>2, <3>3 DEF Inv, TypeOK, udp_bind_t
  <2>. QED BY <2>1, <2>2
<1>2. ASSUME NEW q \in Port, q # p PROVE BoxOf(q)' = BoxOf(q)
  <2>1. Bound(binds', q) = Bound(binds, q)
    BY <1>1, <1>2 DEF Bound
  <2>2. \A i \in Bound(binds, q) : binds'[i] = binds[i]
    BY <1>1, <1>2 DEF Bound
  <2>. QED BY <1>0, <2>1, <2>2, SameBox
<1>3. ASSUME NEW q \in Port, q = p PROVE BoxOf(q)' = Closed
  <2>1. Bound(binds', q) = {}
    BY <1>1, <1>3 DEF Bound
  <2>. QED BY <1>0, <2>1 DEF SlotsAreBoxes
<1>4. [q \in Port |-> BoxOf(q)'] = [[q \in Port |-> BoxOf(q)] EXCEPT ![p] = Closed]
  BY <1>2, <1>3
<1>. QED BY <1>4 DEF Unbind, Boxes!Unbind, Status, Boxes!Status

LEMMA ArriveRefines ==
  ASSUME Inv, Inv', NEW src \in Port, NEW dst \in Port, NEW len \in Lengths,
         NEW came \in Lengths, Arrive(src, dst, len, came)
  PROVE  Boxes!Arrive(src, dst, len, came)
<1>0. SlotsAreBoxes /\ SlotsAreBoxes'
  BY BoxOfSlot, PTL
<1>1. dst \in Boxes!Open <=> Bound(binds, dst) # {}
  BY <1>0 DEF Boxes!Open, SlotsAreBoxes
<1>2. CASE ~ ForMailbox(src, dst, len) \/ Bound(binds, dst) = {}
  <2>1. binds' = binds
    BY <1>2 DEF Arrive, StoreTable
  <2>2. \A q \in Port : BoxOf(q)' = BoxOf(q)
    BY <1>0, <2>1, SameBox
  <2>. QED BY <1>1, <1>2, <2>2 DEF Arrive, Boxes!Arrive, ForMailbox
<1>3. CASE ForMailbox(src, dst, len) /\ Bound(binds, dst) # {}
  <2> DEFINE n == Least(len, UDP_RXBUF_SIZE)
             m == Least(came, n)
  <2>1. PICK s \in Bound(binds, dst) : s = Min(Bound(binds, dst))
    BY <1>3, SlotSets, MinOfSlots
  <2>2. s \in Slots /\ binds[s].used /\ binds[s].port = dst
    BY DEF Bound
  <2>3. binds' = [binds EXCEPT ![s] = InUse(dst, arrived + 1, n, m)]
    BY <1>3, <2>1 DEF Arrive, StoreTable
  <2>4. /\ binds'[s] = InUse(dst, arrived + 1, n, m)
        /\ \A i \in Slots \ {s} : binds'[i] = binds[i]
    BY <2>2, <2>3 DEF Inv, TypeOK
  <2>5. n = Boxes!Least(len, UDP_RXBUF_SIZE) /\ n > 0 /\ m = Boxes!Least(came, n)
    BY <1>3, PortAssumption DEF Least, Boxes!Least, ForMailbox
  <2>6. ASSUME NEW q \in Port, q # dst PROVE BoxOf(q)' = BoxOf(q)
    <3>1. Bound(binds', q) = Bound(binds, q) /\ s \notin Bound(binds, q)
      BY <2>2, <2>4, <2>6 DEF Bound, InUse
    <3>2. \A i \in Bound(binds, q) : binds'[i] = binds[i]
      BY <2>4, <3>1 DEF Bound
    <3>. QED BY <1>0, <3>1, <3>2, SameBox
  <2>7. ASSUME NEW q \in Port, q = dst
        PROVE  BoxOf(q)' = [id |-> arrived + 1, len |-> n, own |-> m]
    <3>1. s \in Bound(binds', q)
      BY <2>2, <2>4, <2>7 DEF Bound, InUse
    <3>2. BoxIn(binds'[s]) = [id |-> arrived + 1, len |-> n, own |-> m]
      BY <2>4, <2>5 DEF BoxIn, InUse
    <3>. QED BY <1>0, <3>1, <3>2 DEF SlotsAreBoxes, BoxIn
  <2>8. [q \in Port |-> BoxOf(q)'] =
          [[q \in Port |-> BoxOf(q)] EXCEPT ![dst] = [id |-> arrived + 1, len |-> n, own |-> m]]
    BY <2>6, <2>7
  <2>. QED BY <1>1, <1>3, <2>5, <2>8 DEF Arrive, Boxes!Arrive, ForMailbox
<1>. QED BY <1>2, <1>3

\* Both modules take the same room for granted.
LEMMA SameRoom ==
  ASSUME NEW max \in BufferSizes, NEW n
  PROVE  /\ Asked(max) = IF max = 0 THEN ReplyRoom ELSE max
         /\ Least(n, Asked(max)) =
              Boxes!Least(n, IF max = 0 THEN ReplyRoom ELSE max)
BY DEF Asked, Least, Boxes!Least

\* The waiting datagram of a port is the one of its only slot that has any.
LEMMA WaitingSlot ==
  ASSUME Inv, NEW p \in Port, Waiting(binds, p) # {}
  PROVE  \E s \in Slots :
           /\ s = Min(Waiting(binds, p)) /\ s \in Bound(binds, p)
           /\ binds[s].used /\ binds[s].port = p /\ binds[s].len > 0
           /\ BoxOf(p) = [id |-> binds[s].id, len |-> binds[s].len, own |-> binds[s].own]
           /\ BoxOf(p) \notin {Closed, Empty}
<1>1. PICK s \in Waiting(binds, p) : s = Min(Waiting(binds, p))
  BY SlotSets, MinOfSlots
<1>2. /\ s \in Slots /\ binds[s].used /\ binds[s].port = p /\ binds[s].len > 0
      /\ s \in Bound(binds, p)
  BY DEF Waiting, Bound
<1>3. binds[s].len \in Nat /\ binds[s].id \in Nat /\ binds[s].own \in Nat
  BY <1>2, PortAssumption DEF Inv, TypeOK, udp_bind_t
<1>4. BoxOf(p) = [id |-> binds[s].id, len |-> binds[s].len, own |-> binds[s].own]
  BY <1>2, <1>3, BoxOfSlot DEF SlotsAreBoxes, BoxIn
<1>5. BoxOf(p) \notin {Closed, Empty}
  BY <1>3, <1>4, PortAssumption
<1>. QED BY <1>1, <1>2, <1>4, <1>5

LEMMA RecvRefines ==
  ASSUME Inv, Inv', NEW p \in Port, NEW max \in BufferSizes, Recv(p, max)
  PROVE  Boxes!Recv(p, max)
<1>0. SlotsAreBoxes /\ SlotsAreBoxes'
  BY BoxOfSlot, PTL
<1>1. CASE Waiting(binds, p) = {}
  <2>1. BoxOf(p) \in {Closed, Empty}
    BY <1>1 DEF BoxOf
  <2>2. /\ binds' = binds /\ result' = Boxes!Status(-1)
        /\ sound /\ sound' = sound /\ arrived' = arrived
    BY <1>1 DEF Recv, RecvTable, RecvResult, Status, Boxes!Status
  <2>3. \A q \in Port : BoxOf(q)' = BoxOf(q)
    BY <1>0, <2>2, SameBox
  <2>. QED BY <2>1, <2>2, <2>3 DEF Boxes!Recv
<1>2. CASE Waiting(binds, p) # {}
  <2>1. PICK s \in Slots :
          /\ s = Min(Waiting(binds, p)) /\ s \in Bound(binds, p)
          /\ binds[s].used /\ binds[s].port = p /\ binds[s].len > 0
          /\ BoxOf(p) = [id |-> binds[s].id, len |-> binds[s].len, own |-> binds[s].own]
          /\ BoxOf(p) \notin {Closed, Empty}
    BY <1>2, WaitingSlot
  <2> DEFINE room == IF max = 0 THEN ReplyRoom ELSE max
             got == [status |-> 0, id |-> BoxOf(p).id,
                     len |-> Boxes!Least(BoxOf(p).len, room),
                     own |-> Boxes!Least(BoxOf(p).own, room)]
  <2>2. RecvResult(binds, p, Asked(max)) = got
    BY <1>2, <2>1, SameRoom DEF RecvResult
  <2>3. /\ binds' = [binds EXCEPT ![s].len = 0] /\ result' = got
        /\ got.len <= ReplyRoom
        /\ sound /\ sound' = sound /\ arrived' = arrived
    BY <1>2, <2>1, <2>2 DEF Recv, RecvTable
  <2>4. /\ binds'[s].used /\ binds'[s].port = p /\ binds'[s].len = 0
        /\ \A i \in Slots \ {s} : binds'[i] = binds[i]
    BY <2>1, <2>3 DEF Inv, TypeOK, udp_bind_t
  <2>5. ASSUME NEW q \in Port, q # p PROVE BoxOf(q)' = BoxOf(q)
    <3>1. Bound(binds', q) = Bound(binds, q) /\ s \notin Bound(binds, q)
      BY <2>1, <2>4, <2>5 DEF Bound
    <3>2. \A i \in Bound(binds, q) : binds'[i] = binds[i]
      BY <2>4, <3>1 DEF Bound
    <3>. QED BY <1>0, <3>1, <3>2, SameBox
  <2>6. ASSUME NEW q \in Port, q = p PROVE BoxOf(q)' = Empty
    <3>1. s \in Bound(binds', q)
      BY <2>1, <2>4, <2>6 DEF Bound
    <3>. QED BY <1>0, <2>4, <3>1 DEF SlotsAreBoxes, BoxIn
  <2>7. [q \in Port |-> BoxOf(q)'] = [[q \in Port |-> BoxOf(q)] EXCEPT ![p] = Empty]
    BY <2>5, <2>6
  <2>8. [q \in Port |-> BoxOf(q)][p] = BoxOf(p)
    OBVIOUS
  <2>. QED BY <2>1, <2>3, <2>7, <2>8 DEF Boxes!Recv
<1>. QED BY <1>1, <1>2

LEMMA OverrunRefines ==
  ASSUME Inv, Inv', NEW p \in Port, NEW max \in BufferSizes, Overrun(p, max)
  PROVE  Boxes!Recv(p, max)
<1>0. SlotsAreBoxes /\ SlotsAreBoxes'
  BY BoxOfSlot, PTL
<1>1. /\ sound /\ sound' = FALSE /\ binds' = binds /\ result' = result
      /\ arrived' = arrived
      /\ RecvResult(binds, p, Asked(max)).len > ReplyRoom
  BY DEF Overrun
<1>2. CASE Waiting(binds, p) = {}
  <2>1. RecvResult(binds, p, Asked(max)).len = 0
    BY <1>2 DEF RecvResult, Status
  <2>. QED BY <1>1, <2>1, PortAssumption
<1>3. CASE Waiting(binds, p) # {}
  <2>1. PICK s \in Slots :
          /\ s = Min(Waiting(binds, p))
          /\ BoxOf(p) = [id |-> binds[s].id, len |-> binds[s].len, own |-> binds[s].own]
          /\ BoxOf(p) \notin {Closed, Empty}
    BY <1>3, WaitingSlot
  <2> DEFINE room == IF max = 0 THEN ReplyRoom ELSE max
  <2>2. Boxes!Least(BoxOf(p).len, room) > ReplyRoom
    BY <1>1, <1>3, <2>1, SameRoom DEF RecvResult
  <2>3. \A q \in Port : BoxOf(q)' = BoxOf(q)
    BY <1>0, <1>1, SameBox
  <2>4. [q \in Port |-> BoxOf(q)][p] = BoxOf(p)
    OBVIOUS
  <2>. QED BY <1>1, <2>1, <2>2, <2>3, <2>4 DEF Boxes!Recv
<1>. QED BY <1>2, <1>3

\* Every step on the table is one on the mailboxes.
LEMMA NextRefines == Inv /\ Inv' /\ [Next]_vars => [Boxes!Next]_Boxes!vars
<1> SUFFICES ASSUME Inv, Inv', [Next]_vars PROVE [Boxes!Next]_Boxes!vars
  OBVIOUS
<1>1. CASE UNCHANGED vars
  <2>1. SlotsAreBoxes /\ SlotsAreBoxes'
    BY BoxOfSlot, PTL
  <2>2. \A q \in Port : BoxOf(q)' = BoxOf(q)
    BY <1>1, <2>1, SameBox DEF vars
  <2>. QED BY <1>1, <2>2 DEF vars, Boxes!vars
<1>2. ASSUME NEW p \in Port, Bind(p) PROVE Boxes!Next
  BY <1>2, BindRefines DEF Boxes!Next
<1>3. ASSUME NEW p \in Port, Unbind(p) PROVE Boxes!Next
  BY <1>3, UnbindRefines DEF Boxes!Next
<1>4. ASSUME NEW p \in Port, NEW max \in BufferSizes, Recv(p, max) PROVE Boxes!Next
  BY <1>4, RecvRefines DEF Boxes!Next
<1>5. ASSUME NEW p \in Port, NEW max \in BufferSizes, Overrun(p, max) PROVE Boxes!Next
  BY <1>5, OverrunRefines DEF Boxes!Next
<1>6. ASSUME NEW src \in Port, NEW dst \in Port, NEW len \in Lengths,
             NEW came \in Lengths, Arrive(src, dst, len, came)
      PROVE  Boxes!Next
  BY <1>6, ArriveRefines DEF Boxes!Next
<1>. QED BY <1>1, <1>2, <1>3, <1>4, <1>5, <1>6 DEF Next

\* udp_bind, udp_unbind, udp_rx and udp_recv with their searches of the table
\* keep one mailbox for each open port, and open as many as the table has slots,
\* up to the first receive of more bytes than a reply holds: from there on
\* neither module describes anything.
THEOREM RefinesMailboxes == Spec => ImplementsMailboxes
BY InitInv, NextInv, InitRefines, NextRefines, PTL
DEF Spec, ImplementsMailboxes, Boxes!Spec

=============================================================================
