--------------------------- MODULE DhcpBootProofs ---------------------------
(***************************************************************************)
(* Proofs about DhcpBoot for any number of machines, servers, addresses    *)
(* and restarts.  LeasesDistinct follows from what the servers promise     *)
(* (AcksLent: an address is on record for whom it was acknowledged to, or  *)
(* that lease has run out) only because a machine that takes an ACK is the *)
(* one the ACK was for (XidsUsed and XidAssumption); LeaseFromChosenServer *)
(* because a start sends one REQUEST at most (OneRequest).                 *)
(***************************************************************************)
EXTENDS DhcpBoot, TLAPS

Running(c) == pc[c] \in {"dhcp", "serving"}

\* A machine that runs has started.
Booted == \A c \in Client : Running(c) => boots[c] \in Starts

\* A transaction number seen on the wire was drawn by an earlier start of the
\* machine whose exchange it belongs to.
XidsUsed ==
  /\ \A r \in requests : \E n \in 1 .. boots[r.chaddr] : r.xid = Xid[r.chaddr][n]
  /\ \A m \in replies : \E n \in 1 .. boots[m.chaddr] : m.xid = Xid[m.chaddr][n]

\* Server s has ip on record for c, or had until that lease ran out.
Granted(s, ip, c) == lent[s][ip] = c \/ <<c, ip>> \in lapsed

\* An acknowledged address was granted to the machine it is meant for.
AcksLent ==
  \A m \in replies : m.type = "ACK" =>
    m.ip \in Pool[m.src] /\ Granted(m.src, m.ip, m.chaddr)

\* So was an address in use.
LeasesLent ==
  \A c \in Client : Leased(c) =>
    /\ cfg[c].ip \in Pool[cfg[c].origin]
    /\ Granted(cfg[c].origin, cfg[c].ip, c)

\* Every REQUEST of the current start went to the chosen server.
OneRequest ==
  \A c \in Client, r \in requests :
    Running(c) /\ r.type = "REQUEST" /\ r.xid = MyXid(c) =>
      dhcp_state[c] # "DISCOVER" /\ r.server = dhcp_server[c]

\* A machine that waits for an offer has no lease.
Unleased ==
  \A c \in Client : Running(c) /\ dhcp_state[c] = "DISCOVER" => ~ Leased(c)

\* A server acknowledges only a REQUEST that named it.
AcksAnswer ==
  \A m \in replies : m.type = "ACK" =>
    \E r \in requests : r.type = "REQUEST" /\ r.xid = m.xid /\ r.server = m.src

Inv ==
  /\ TypeOK /\ Booted /\ XidsUsed /\ AcksLent /\ LeasesLent
  /\ OneRequest /\ Unleased /\ AcksAnswer /\ LeaseFromChosenServer

-----------------------------------------------------------------------------
(* Type correctness, with Booted, which types the transaction numbers.     *)

LEMMA MyXidTyped ==
  ASSUME NEW c \in Client, boots[c] \in Starts
  PROVE  MyXid(c) \in Xids
BY DEF MyXid, Xids

\* What a machine does by itself.
LEMMA MachineTyped ==
  ASSUME TypeOK, Booted, NEW c \in Client,
         \/ FailToStart(c) \/ Expire(c) \/ GiveUp(c) \/ Proceed(c) \/ Crash(c)
         \/ \E ip \in OperatorIp : SetIp(c, ip)
  PROVE  TypeOK' /\ Booted'
<1>. USE DhcpAssumption DEF TypeOK, Booted, Running
<1>1. CASE FailToStart(c)
  BY <1>1 DEF FailToStart
<1>2. CASE Expire(c)
  BY <1>2 DEF Expire
<1>3. CASE GiveUp(c)
  BY <1>3 DEF GiveUp, Announce, Config, Origin
<1>4. CASE Proceed(c)
  BY <1>4 DEF Proceed
<1>5. CASE Crash(c)
  BY <1>5 DEF Crash, Config, ZeroConfig, Origin, dhcp_state_t
<1>6. ASSUME NEW ip \in OperatorIp, SetIp(c, ip) PROVE TypeOK' /\ Booted'
  BY <1>6 DEF SetIp, Announce, Config, Origin
<1>. QED BY <1>1, <1>2, <1>3, <1>4, <1>5, <1>6

LEMMA StartTyped ==
  ASSUME TypeOK, Booted, NEW c \in Client, Start(c)
  PROVE  TypeOK' /\ Booted'
<1>1. boots[c] + 1 \in Starts /\ boots' = [boots EXCEPT ![c] = boots[c] + 1]
  BY DhcpAssumption DEF Start, TypeOK, Starts
<1>2. boots' \in [Client -> 0 .. MaxBoots] /\ boots'[c] \in Starts
  BY <1>1 DEF TypeOK, Starts
<1>3. Booted'
  BY <1>1, <1>2 DEF Booted, Running, Start, TypeOK
<1>4. MyXid(c)' \in Xids
  BY <1>2 DEF MyXid, Xids
<1>5. requests' \subseteq Request
  BY <1>4, DhcpAssumption DEF Start, TypeOK, Request
<1>6. /\ pc' \in [Client -> {"off", "dhcp", "serving", "exited"}]
      /\ dhcp_state' \in [Client -> dhcp_state_t]
      /\ cfg' \in [Client -> Config]
  BY DhcpAssumption DEF Start, TypeOK, Config, ZeroConfig, Origin, dhcp_state_t
<1>. QED BY <1>2, <1>3, <1>5, <1>6 DEF Start, TypeOK

LEMMA HearingRuns ==
  ASSUME Booted, NEW c \in Client, NEW m, Hears(c, m)
  PROVE  Running(c) /\ boots[c] \in Starts /\ m.xid = MyXid(c)
BY DEF Booted, Hears, Receiving, Running

\* A reply is handled.
LEMMA RxTyped ==
  ASSUME TypeOK, Booted, NEW c \in Client, NEW m \in replies, Hears(c, m),
         RxOffer(c, m) \/ RxAck(c, m) \/ RxNak(c, m)
  PROVE  TypeOK' /\ Booted'
<1>1. /\ m.ip \in Ip /\ m.src \in Server /\ ServerOf(m) \in Server \cup {NoServer}
  BY DEF TypeOK, Reply, ServerOf
<1>2. RequestFor(c, m) \in Request
  BY <1>1, HearingRuns, MyXidTyped DEF RequestFor, Request
<1>. USE DEF TypeOK, Booted, Running
<1>3. CASE RxOffer(c, m)
  BY <1>1, <1>2, <1>3 DEF RxOffer, dhcp_state_t
<1>4. CASE RxAck(c, m)
  BY <1>1, <1>4, DhcpAssumption DEF RxAck, Announce, dhcp_state_t, Config, Origin
<1>5. CASE RxNak(c, m)
  BY <1>5 DEF RxNak, dhcp_state_t
<1>. QED BY <1>3, <1>4, <1>5

LEMMA AnswerTyped ==
  ASSUME NEW s \in Server, NEW r \in Request, NEW ip \in Ip,
         NEW type \in {"OFFER", "ACK", "NAK"}
  PROVE  Answer(s, r, type, ip) \in Reply
BY DEF Answer, Request, Reply

\* A server answers a request.
LEMMA ServerTyped ==
  ASSUME TypeOK, Booted, NEW s \in Server, NEW r \in requests,
         Offer(s, r) \/ Acknowledge(s, r) \/ Refuse(s, r)
  PROVE  TypeOK' /\ Booted'
<1>1. r \in Request /\ r.ip \in Ip /\ r.chaddr \in Client
  BY DEF TypeOK, Request
<1>. USE DEF TypeOK, Booted, Running, node
<1>2. CASE Offer(s, r)
  <2>1. PICK ip \in Pool[s] : replies' = replies \cup {Answer(s, r, "OFFER", ip)}
    BY <1>2 DEF Offer
  <2>2. ip \in Ip
    BY <2>1, DhcpAssumption
  <2>. QED BY <1>1, <1>2, <2>1, <2>2, AnswerTyped DEF Offer
<1>3. CASE Acknowledge(s, r)
  BY <1>1, <1>3, AnswerTyped DEF Acknowledge
<1>4. CASE Refuse(s, r)
  BY <1>1, <1>4, AnswerTyped, DhcpAssumption DEF Refuse
<1>. QED BY <1>2, <1>3, <1>4

\* A lease runs out.
LEMMA LapseTyped ==
  ASSUME TypeOK, Booted, NEW s \in Server, NEW ip \in Pool[s], Lapse(s, ip)
  PROVE  TypeOK' /\ Booted'
<1>1. ip \in Ip /\ lent[s][ip] \in Client
  <2>1. ip \in Ip
    BY DhcpAssumption
  <2>2. lent[s][ip] \in Client \cup {NoClient} /\ lent[s][ip] # NoClient
    BY <2>1 DEF TypeOK, Lapse
  <2>. QED BY <2>1, <2>2
<1>2. <<lent[s][ip], ip>> \in Client \X Ip
  BY <1>1
<1>3. lapsed' \subseteq Client \X Ip
  BY <1>2 DEF Lapse, TypeOK
<1>4. lent' \in [Server -> [Ip -> Client \cup {NoClient}]]
  BY <1>1 DEF Lapse, TypeOK
<1>. QED BY <1>3, <1>4 DEF Lapse, TypeOK, Booted, Running, node

LEMMA NextTyped == TypeOK /\ Booted /\ [Next]_vars => TypeOK' /\ Booted'
<1> SUFFICES ASSUME TypeOK, Booted, [Next]_vars PROVE TypeOK' /\ Booted'
  OBVIOUS
<1>1. CASE UNCHANGED vars
  BY <1>1 DEF vars, node, TypeOK, Booted, Running
<1>2. ASSUME NEW c \in Client, NetdStep(c) PROVE TypeOK' /\ Booted'
  BY <1>2, MachineTyped, StartTyped, RxTyped DEF NetdStep, dhcp_rx
<1>3. ASSUME NEW s \in Server, ServerStep(s) PROVE TypeOK' /\ Booted'
  BY <1>3, ServerTyped, LapseTyped DEF ServerStep
<1>. QED BY <1>1, <1>2, <1>3 DEF Next

LEMMA InitTyped == Init => TypeOK /\ Booted
BY DhcpAssumption
   DEF Init, TypeOK, Booted, Running, Config, ZeroConfig, Origin, dhcp_state_t

\* Every variable keeps its type, whatever is lost, repeated or reordered.
THEOREM TypeCorrect == Spec => []TypeOK
BY InitTyped, NextTyped, PTL DEF Spec

-----------------------------------------------------------------------------
(* Safety.  A step of a machine leaves the servers' messages and records   *)
(* alone; a step of a server leaves the machines alone.                    *)

LEMMA InitInv == Init => Inv
BY InitTyped, DhcpAssumption
   DEF Init, Inv, XidsUsed, AcksLent, LeasesLent, OneRequest, Unleased, AcksAnswer,
       LeaseFromChosenServer, Leased, Running, ZeroConfig

\* Steps that send nothing and take up no lease: what runs keeps its
\* transaction number and its chosen server, and no REQUEST appears.
LEMMA QuietInv ==
  ASSUME Inv, TypeOK', Booted',
         UNCHANGED <<boots, requests, replies, lent, lapsed>>,
         \A c \in Client :
           /\ Running(c)' => /\ Running(c)
                             /\ dhcp_server'[c] = dhcp_server[c]
                             /\ dhcp_state'[c] = "DISCOVER" => dhcp_state[c] = "DISCOVER"
           /\ \/ cfg'[c] = cfg[c] /\ dhcp_server'[c] = dhcp_server[c]
              \/ cfg'[c].origin \notin Server
  PROVE  Inv'
<1>1. XidsUsed' /\ AcksLent' /\ AcksAnswer'
  BY DEF Inv, XidsUsed, AcksLent, AcksAnswer, Granted
<1>2. LeasesLent' /\ LeaseFromChosenServer'
  BY DEF Inv, LeasesLent, LeaseFromChosenServer, Leased, Granted
<1>3. OneRequest'
  BY DEF Inv, OneRequest, MyXid
<1>4. Unleased'
  BY DEF Inv, Unleased, Leased
<1>. QED BY <1>1, <1>2, <1>3, <1>4 DEF Inv

LEMMA MachineInv ==
  ASSUME Inv, TypeOK', Booted', NEW c \in Client,
         \/ FailToStart(c) \/ Expire(c) \/ GiveUp(c) \/ Proceed(c) \/ Crash(c)
         \/ \E ip \in OperatorIp : SetIp(c, ip)
  PROVE  Inv'
<1>0. Fallback \notin Server /\ Nobody \notin Server /\ Operator \notin Server
  BY DhcpAssumption
<1>. USE DEF Inv, TypeOK, Running
<1>1. CASE FailToStart(c)
  BY <1>1, QuietInv DEF FailToStart
<1>2. CASE Expire(c)
  BY <1>2, QuietInv DEF Expire
<1>3. CASE GiveUp(c)
  BY <1>0, <1>3, QuietInv DEF GiveUp
<1>4. CASE Proceed(c)
  BY <1>4, QuietInv DEF Proceed
<1>5. CASE Crash(c)
  BY <1>0, <1>5, QuietInv DEF Crash, ZeroConfig
<1>6. ASSUME NEW ip \in OperatorIp, SetIp(c, ip) PROVE Inv'
  BY <1>0, <1>6, QuietInv DEF SetIp
<1>. QED BY <1>1, <1>2, <1>3, <1>4, <1>5, <1>6

\* A start draws a number that no message carries.
LEMMA StartInv ==
  ASSUME Inv, TypeOK', Booted', NEW c \in Client, Start(c)
  PROVE  Inv'
<1> DEFINE n == boots[c] + 1
           new == [type |-> "DISCOVER", xid |-> Xid[c][n], chaddr |-> c,
                   ip |-> ZeroIp, server |-> NoServer]
<1>1. /\ n \in Starts /\ boots'[c] = n /\ boots[c] \in Nat /\ n \in 1 .. n
      /\ \A d \in Client \ {c} : boots'[d] = boots[d]
      /\ \A d \in Client : boots[d] \in 0 .. MaxBoots /\ boots'[d] \in 0 .. MaxBoots
  BY DhcpAssumption DEF Start, Inv, TypeOK, Starts
<1>2. /\ requests' = requests \cup {new}
      /\ replies' = replies /\ lent' = lent /\ lapsed' = lapsed
  BY <1>1 DEF Start, MyXid
<1>3. \A d \in Client : 1 .. boots[d] \subseteq 1 .. boots'[d]
  BY <1>1
<1>4. XidsUsed'
  <2>1. \A r \in requests : r.chaddr \in Client
    BY DEF Inv, TypeOK, Request
  <2>2. \A m \in replies : m.chaddr \in Client
    BY DEF Inv, TypeOK, Reply
  <2>3. \A r \in requests : \E k \in 1 .. boots'[r.chaddr] : r.xid = Xid[r.chaddr][k]
    BY <1>3, <2>1 DEF Inv, XidsUsed
  <2>4. \A m \in replies : \E k \in 1 .. boots'[m.chaddr] : m.xid = Xid[m.chaddr][k]
    BY <1>3, <2>2 DEF Inv, XidsUsed
  <2>5. n \in 1 .. boots'[new.chaddr] /\ new.xid = Xid[new.chaddr][n]
    BY <1>1
  <2>. QED BY <1>2, <2>3, <2>4, <2>5 DEF XidsUsed
<1>5. AcksLent' /\ AcksAnswer'
  BY <1>2 DEF Inv, AcksLent, AcksAnswer, Granted
<1>6. /\ dhcp_server' = dhcp_server /\ cfg'[c].origin \notin Server
      /\ \A d \in Client \ {c} :
           /\ cfg'[d] = cfg[d] /\ dhcp_state'[d] = dhcp_state[d]
           /\ Running(d)' <=> Running(d)
  BY DhcpAssumption DEF Start, Inv, TypeOK, ZeroConfig, Running
<1>7. LeasesLent' /\ LeaseFromChosenServer'
  BY <1>2, <1>6 DEF Inv, LeasesLent, LeaseFromChosenServer, Leased, Granted
<1>9. Unleased'
  BY <1>6 DEF Inv, Unleased, Leased
<1>8. OneRequest'
  <2> SUFFICES ASSUME NEW d \in Client, NEW r \in requests', Running(d)',
                      r.type = "REQUEST", r.xid = MyXid(d)'
               PROVE  dhcp_state'[d] # "DISCOVER" /\ r.server = dhcp_server'[d]
    BY DEF OneRequest, Running, MyXid
  <2>1. r \in requests
    BY <1>2
  <2>2. PICK k \in 1 .. boots[r.chaddr] : r.xid = Xid[r.chaddr][k]
    BY <2>1 DEF Inv, XidsUsed
  <2>3. r.chaddr \in Client /\ k \in Starts /\ k <= boots[r.chaddr]
    BY <1>1, <2>1, <2>2, DhcpAssumption DEF Inv, TypeOK, Request, Starts
  <2>4. d # c
    <3>1. SUFFICES ASSUME d = c PROVE FALSE
      OBVIOUS
    <3>2. Xid[r.chaddr][k] = Xid[c][n]
      BY <1>1, <2>2, <3>1 DEF MyXid
    <3>3. r.chaddr = c /\ k = n
      BY <1>1, <2>3, <3>2, XidAssumption
    <3>. QED BY <1>1, <2>3, <3>3
  <2>5. MyXid(d)' = MyXid(d)
    BY <1>1, <2>4 DEF MyXid
  <2>. QED BY <1>6, <2>1, <2>4, <2>5 DEF Inv, OneRequest
<1>. QED BY <1>4, <1>5, <1>7, <1>8, <1>9 DEF Inv

\* A message with the number of a running start belongs to its machine.
LEMMA XidsTell ==
  ASSUME Inv, NEW c \in Client, boots[c] \in Starts, NEW m \in replies \cup requests,
         m.xid = MyXid(c)
  PROVE  m.chaddr = c
<1>1. PICK k \in 1 .. boots[m.chaddr] : m.xid = Xid[m.chaddr][k]
  BY DEF Inv, XidsUsed
<1>2. m.chaddr \in Client /\ k \in Starts
  BY <1>1, DhcpAssumption DEF Inv, TypeOK, Request, Reply, Starts
<1>3. Xid[c][boots[c]] = Xid[m.chaddr][k]
  BY <1>1 DEF MyXid
<1>4. \A d \in Client, j \in Starts : Xid[c][boots[c]] = Xid[d][j] => c = d
  BY XidAssumption
<1>. QED BY <1>2, <1>3, <1>4

\* Handling a reply.
LEMMA RxInv ==
  ASSUME Inv, TypeOK', Booted', NEW c \in Client, NEW m \in replies, Hears(c, m),
         RxOffer(c, m) \/ RxAck(c, m) \/ RxNak(c, m)
  PROVE  Inv'
<1>1. Running(c) /\ boots[c] \in Starts /\ m.xid = MyXid(c)
  BY HearingRuns DEF Inv
<1>2. m.chaddr = c
  BY <1>1, XidsTell
<1>3. CASE RxNak(c, m)
  BY <1>3, QuietInv DEF RxNak, Inv, TypeOK, Running
<1>4. CASE RxAck(c, m)
  <2>1. /\ cfg'[c] = [ip |-> m.ip, origin |-> m.src] /\ dhcp_state'[c] = "BOUND"
        /\ dhcp_state[c] = "REQUEST"
        /\ \A d \in Client \ {c} : cfg'[d] = cfg[d] /\ dhcp_state'[d] = dhcp_state[d]
        /\ UNCHANGED <<pc, boots, dhcp_server, requests, replies, lent, lapsed>>
    BY <1>4 DEF RxAck, Inv, TypeOK
  <2>2. XidsUsed' /\ AcksLent' /\ AcksAnswer'
    BY <2>1 DEF Inv, XidsUsed, AcksLent, AcksAnswer, Granted
  <2>3. OneRequest'
    BY <2>1 DEF Inv, OneRequest, MyXid, Running
  <2>8. Unleased'
    BY <2>1 DEF Inv, Unleased, Leased, Running
  <2>4. m.type = "ACK" /\ m.ip \in Pool[m.src] /\ Granted(m.src, m.ip, c)
    BY <1>2, <1>4 DEF RxAck, Inv, AcksLent
  <2>5. LeasesLent'
    BY <2>1, <2>4 DEF Inv, LeasesLent, Leased, Granted
  <2>6. m.src = dhcp_server[c]
    <3>1. PICK r \in requests : r.type = "REQUEST" /\ r.xid = m.xid /\ r.server = m.src
      BY <2>4 DEF Inv, AcksAnswer
    <3>. QED BY <1>1, <3>1 DEF Inv, OneRequest
  <2>7. LeaseFromChosenServer'
    BY <2>1, <2>6 DEF Inv, LeaseFromChosenServer, Leased
  <2>. QED BY <2>2, <2>3, <2>5, <2>7, <2>8 DEF Inv
<1>5. CASE RxOffer(c, m)
  <2> DEFINE q == RequestFor(c, m)
  <2>1. /\ dhcp_state[c] = "DISCOVER" /\ dhcp_state'[c] = "REQUEST"
        /\ dhcp_server'[c] = ServerOf(m)
        /\ \A d \in Client \ {c} : /\ dhcp_server'[d] = dhcp_server[d]
                                   /\ dhcp_state'[d] = dhcp_state[d]
        /\ requests' = requests \cup {q}
        /\ UNCHANGED <<pc, boots, cfg, replies, lent, lapsed>>
    BY <1>5 DEF RxOffer, Inv, TypeOK
  <2>2. q.xid = MyXid(c) /\ q.chaddr = c /\ q.server = ServerOf(m)
    BY DEF RequestFor
  <2>3. XidsUsed'
    <3>1. boots[c] \in 1 .. boots[c] /\ q.xid = Xid[c][boots[c]]
      BY <1>1, <2>2, DhcpAssumption DEF MyXid, Starts
    <3>2. \A r \in requests' : \E n \in 1 .. boots[r.chaddr] : r.xid = Xid[r.chaddr][n]
      BY <2>1, <2>2, <3>1 DEF Inv, XidsUsed
    <3>. QED BY <2>1, <3>2 DEF Inv, XidsUsed
  <2>4. AcksLent' /\ LeasesLent' /\ AcksAnswer'
    BY <2>1 DEF Inv, AcksLent, LeasesLent, Leased, AcksAnswer, Granted
  <2>5. ~ Leased(c)
    BY <1>1, <2>1 DEF Inv, Unleased
  <2>6. LeaseFromChosenServer'
    BY <2>1, <2>5 DEF Inv, LeaseFromChosenServer, Leased
  <2>8. Unleased'
    BY <2>1 DEF Inv, Unleased, Leased, Running
  <2>7. OneRequest'
    <3> SUFFICES ASSUME NEW d \in Client, NEW r \in requests', Running(d)',
                        r.type = "REQUEST", r.xid = MyXid(d)'
                 PROVE  dhcp_state'[d] # "DISCOVER" /\ r.server = dhcp_server'[d]
      BY DEF OneRequest, Running, MyXid
    <3>1. Running(d) /\ r.xid = MyXid(d) /\ boots[d] \in Starts
      BY <2>1 DEF Running, MyXid, Inv, Booted
    <3>2. CASE r \in requests
      BY <2>1, <3>1, <3>2 DEF Inv, OneRequest
    <3>3. CASE r = q
      <4>1. \A e \in Client, j, k \in Starts : Xid[c][j] = Xid[e][k] => c = e
        BY XidAssumption
      <4>2. d = c
        BY <1>1, <2>2, <3>1, <3>3, <4>1 DEF MyXid
      <4>. QED BY <2>1, <2>2, <3>3, <4>2
    <3>. QED BY <2>1, <3>2, <3>3
  <2>. QED BY <2>3, <2>4, <2>6, <2>7, <2>8 DEF Inv
<1>. QED BY <1>3, <1>4, <1>5

\* An answer of a server.
LEMMA ServerInv ==
  ASSUME Inv, TypeOK', Booted', NEW s \in Server, NEW r \in requests,
         Offer(s, r) \/ Acknowledge(s, r) \/ Refuse(s, r)
  PROVE  Inv'
<1>1. /\ UNCHANGED <<pc, boots, dhcp_state, dhcp_server, cfg, announced, requests>>
      /\ r \in Request
  BY DEF Offer, Acknowledge, Refuse, node, Inv, TypeOK
<1>2. OneRequest' /\ Unleased' /\ LeaseFromChosenServer'
  BY <1>1 DEF Inv, OneRequest, Unleased, LeaseFromChosenServer, Leased, Running, MyXid
<1>3. PICK type \in {"OFFER", "ACK", "NAK"}, ip \in Ip :
        /\ replies' = replies \cup {Answer(s, r, type, ip)}
        /\ type = "ACK" => Acknowledge(s, r) /\ ip = r.ip
        /\ type # "ACK" => lent' = lent /\ lapsed' = lapsed
  BY <1>1, DhcpAssumption DEF Offer, Acknowledge, Refuse, Request
<1> DEFINE m == Answer(s, r, type, ip)
<1>4. m.xid = r.xid /\ m.chaddr = r.chaddr /\ m.type = type /\ m.ip = ip /\ m.src = s
  BY DEF Answer
<1>. HIDE DEF m
<1>5. replies' = replies \cup {m}
  BY <1>3 DEF m
<1>6. XidsUsed'
  <2>1. \E n \in 1 .. boots[m.chaddr] : m.xid = Xid[m.chaddr][n]
    BY <1>4 DEF Inv, XidsUsed
  <2>. QED BY <1>1, <1>5, <2>1 DEF Inv, XidsUsed
<1>7. AcksAnswer'
  <2>1. type = "ACK" => r.type = "REQUEST" /\ r.server = s
    BY <1>3 DEF Acknowledge
  <2>. QED BY <1>1, <1>4, <1>5, <2>1 DEF Inv, AcksAnswer
<1>8. \A t \in Server, c \in Client : \A x \in Pool[t] :
        Granted(t, x, c) => Granted(t, x, c)'
  \* what was granted stays so: the record is kept or renewed
  <2>1. CASE type # "ACK"
    BY <1>3, <2>1 DEF Granted
  <2>2. CASE type = "ACK"
    <3>1. /\ lent' = [lent EXCEPT ![s][r.ip] = r.chaddr]
          /\ lapsed' = lapsed \ {<<r.chaddr, r.ip>>}
          /\ lent[s][r.ip] \in {NoClient, r.chaddr}
          /\ r.ip \in Pool[s]
      BY <1>3, <2>2 DEF Acknowledge, Available
    <3> SUFFICES ASSUME NEW t \in Server, NEW c \in Client, NEW x \in Pool[t],
                        Granted(t, x, c)
                 PROVE  Granted(t, x, c)'
      OBVIOUS
    <3>2. x \in Ip /\ (x = r.ip => t = s)
      BY <3>1, DhcpAssumption
    <3>3. /\ lent'[t][x] = IF t = s /\ x = r.ip THEN r.chaddr ELSE lent[t][x]
          /\ NoClient # c
      BY <3>1, <3>2, DhcpAssumption DEF Inv, TypeOK
    <3>. QED BY <3>1, <3>2, <3>3 DEF Granted
  <2>. QED BY <2>1, <2>2
<1>9. AcksLent'
  <2>1. \A x \in replies : x.src \in Server /\ x.ip \in Ip /\ x.chaddr \in Client
    BY DEF Inv, TypeOK, Reply
  <2>2. \A x \in replies : x.type = "ACK" =>
          x.ip \in Pool[x.src] /\ Granted(x.src, x.ip, x.chaddr)'
    BY <1>8, <2>1 DEF Inv, AcksLent, Granted
  <2>3. type = "ACK" => ip \in Pool[s] /\ Granted(s, ip, r.chaddr)'
    BY <1>1, <1>3 DEF Acknowledge, Available, Inv, TypeOK, Request, Granted
  <2>. QED BY <1>4, <1>5, <2>2, <2>3 DEF AcksLent, Granted
<1>10. LeasesLent'
  <2>1. \A c \in Client : cfg[c].ip \in Ip
    BY DEF Inv, TypeOK, Config
  <2>. QED BY <1>1, <1>8, <2>1 DEF Inv, LeasesLent, Leased, Granted
<1>. QED BY <1>2, <1>6, <1>7, <1>9, <1>10 DEF Inv

\* A lease that runs out: who had the address on record has it as lapsed.
LEMMA LapseInv ==
  ASSUME Inv, TypeOK', Booted', NEW s \in Server, NEW ip \in Pool[s], Lapse(s, ip)
  PROVE  Inv'
<1>1. /\ UNCHANGED <<pc, boots, dhcp_state, dhcp_server, cfg, requests, replies>>
      /\ lapsed' = lapsed \cup {<<lent[s][ip], ip>>}
      /\ lent' = [lent EXCEPT ![s][ip] = NoClient]
  BY DEF Lapse, node
<1>2. /\ OneRequest' /\ Unleased' /\ LeaseFromChosenServer'
      /\ XidsUsed' /\ AcksAnswer'
  BY <1>1 DEF Inv, OneRequest, Unleased, LeaseFromChosenServer, Leased, Running, MyXid,
              XidsUsed, AcksAnswer
<1>3. \A t \in Server, x \in Ip, c \in Client : Granted(t, x, c) => Granted(t, x, c)'
  <2> SUFFICES ASSUME NEW t \in Server, NEW x \in Ip, NEW c \in Client, Granted(t, x, c)
               PROVE  Granted(t, x, c)'
    OBVIOUS
  <2>1. CASE t = s /\ x = ip
    BY <1>1, <2>1 DEF Granted
  <2>2. CASE ~ (t = s /\ x = ip)
    BY <1>1, <2>2 DEF Granted, Inv, TypeOK
  <2>. QED BY <2>1, <2>2
<1>4. AcksLent'
  <2>1. \A x \in replies : x.src \in Server /\ x.ip \in Ip /\ x.chaddr \in Client
    BY DEF Inv, TypeOK, Reply
  <2>. QED BY <1>1, <1>3, <2>1 DEF Inv, AcksLent, Granted
<1>5. LeasesLent'
  <2>1. \A c \in Client : cfg[c].ip \in Ip
    BY DEF Inv, TypeOK, Config
  <2>. QED BY <1>1, <1>3, <2>1 DEF Inv, LeasesLent, Leased, Granted
<1>. QED BY <1>2, <1>4, <1>5 DEF Inv

LEMMA NextInv == Inv /\ [Next]_vars => Inv'
<1> SUFFICES ASSUME Inv, [Next]_vars PROVE Inv'
  OBVIOUS
<1>1. TypeOK' /\ Booted'
  BY NextTyped DEF Inv
<1>2. CASE UNCHANGED vars
  BY <1>1, <1>2, QuietInv DEF vars, node, Running, Inv
<1>3. ASSUME NEW c \in Client, NetdStep(c) PROVE Inv'
  BY <1>1, <1>3, MachineInv, StartInv, RxInv DEF NetdStep, dhcp_rx
<1>4. ASSUME NEW s \in Server, ServerStep(s) PROVE Inv'
  BY <1>1, <1>4, ServerInv, LapseInv DEF ServerStep
<1>. QED BY <1>2, <1>3, <1>4 DEF Next

\* Two machines use one leased address only when a lease of it has run out,
\* for any number of machines, servers, leases and restarts, if no two starts
\* draw the same transaction number.
THEOREM LeasesStayDistinct == Spec => []LeasesDistinct
<1>1. Inv => LeasesDistinct
  <2> SUFFICES ASSUME Inv, NEW c \in Client, NEW d \in Client,
                      Leased(c), Leased(d), cfg[c].ip = cfg[d].ip,
                      <<c, cfg[c].ip>> \notin lapsed, <<d, cfg[d].ip>> \notin lapsed
               PROVE  c = d
    BY DEF LeasesDistinct
  <2>1. cfg[c].ip \in Pool[cfg[c].origin] /\ cfg[c].ip \in Pool[cfg[d].origin]
    BY DEF Inv, LeasesLent
  <2>2. cfg[c].origin = cfg[d].origin
    BY <2>1, DhcpAssumption DEF Leased
  <2>. QED BY <2>2 DEF Inv, LeasesLent, Granted
<1>. QED BY <1>1, InitInv, NextInv, PTL DEF Spec

\* A lease is always the chosen server's.
THEOREM LeaseStaysWithChosenServer == Spec => []LeaseFromChosenServer
<1>1. Inv => LeaseFromChosenServer
  BY DEF Inv
<1>. QED BY <1>1, InitInv, NextInv, PTL DEF Spec

-----------------------------------------------------------------------------
(* Two properties that need no more than types.                            *)

LEMMA NextAnnounced ==
  TypeOK /\ AnnouncedIsCurrent /\ [Next]_vars => AnnouncedIsCurrent'
<1> SUFFICES ASSUME TypeOK, AnnouncedIsCurrent, [Next]_vars
             PROVE  AnnouncedIsCurrent'
  OBVIOUS
<1>. USE DEF TypeOK, AnnouncedIsCurrent
<1>1. CASE UNCHANGED vars
  BY <1>1 DEF vars, node
<1>2. ASSUME NEW c \in Client, NetdStep(c) PROVE AnnouncedIsCurrent'
  <2>1. CASE Start(c) \/ FailToStart(c) \/ Expire(c) \/ Proceed(c) \/ Crash(c)
    BY <2>1 DEF Start, FailToStart, Expire, Proceed, Crash, ZeroConfig
  <2>2. CASE GiveUp(c)
    BY <2>2 DEF GiveUp, Announce
  <2>3. ASSUME NEW m \in replies, RxOffer(c, m) \/ RxAck(c, m) \/ RxNak(c, m)
        PROVE  AnnouncedIsCurrent'
    BY <2>3 DEF RxOffer, RxAck, RxNak, Announce
  <2>4. ASSUME NEW ip \in OperatorIp, SetIp(c, ip) PROVE AnnouncedIsCurrent'
    BY <2>4 DEF SetIp, Announce
  <2>. QED BY <1>2, <2>1, <2>2, <2>3, <2>4 DEF NetdStep, dhcp_rx
<1>3. ASSUME NEW s \in Server, ServerStep(s) PROVE AnnouncedIsCurrent'
  BY <1>3 DEF ServerStep, Offer, Acknowledge, Refuse, Lapse, node
<1>. QED BY <1>1, <1>2, <1>3 DEF Next

\* Every address a machine uses was announced to its neighbours, or the card
\* refused the frame.
THEOREM AddressesAreAnnounced == Spec => []AnnouncedIsCurrent
<1>1. Init => AnnouncedIsCurrent
  BY DEF Init, AnnouncedIsCurrent, ZeroConfig
<1>. QED BY <1>1, NextAnnounced, TypeCorrect, PTL DEF Spec

\* Once the exchange has ended only SET_IP changes a serving machine's
\* configuration.
THEOREM SettledStaysFinal == Spec => SettledIsFinal
<1>1. TypeOK /\ [Next]_vars => [LeavesSettled]_vars
  <2> SUFFICES ASSUME TypeOK, Next PROVE LeavesSettled
    OBVIOUS
  <2>1. ASSUME NEW c \in Client, NetdStep(c) PROVE LeavesSettled
    <3>1. CASE Start(c) \/ FailToStart(c) \/ Expire(c) \/ Proceed(c) \/ GiveUp(c) \/ Crash(c)
      BY <3>1 DEF LeavesSettled, TypeOK, Start, FailToStart, Expire, Proceed, GiveUp, Crash
    <3>2. ASSUME NEW m \in replies, RxOffer(c, m) \/ RxAck(c, m) \/ RxNak(c, m)
          PROVE  LeavesSettled
      BY <3>2 DEF LeavesSettled, TypeOK, RxOffer, RxAck, RxNak
    <3>3. ASSUME NEW ip \in OperatorIp, SetIp(c, ip) PROVE LeavesSettled
      BY <3>3 DEF LeavesSettled, TypeOK, SetIp
    <3>. QED BY <2>1, <3>1, <3>2, <3>3 DEF NetdStep, dhcp_rx
  <2>2. ASSUME NEW s \in Server, ServerStep(s) PROVE LeavesSettled
    BY <2>2 DEF LeavesSettled, ServerStep, Offer, Acknowledge, Refuse, Lapse, node
  <2>. QED BY <2>1, <2>2 DEF Next
<1>. QED BY <1>1, TypeCorrect, PTL DEF Spec, SettledIsFinal

=============================================================================
