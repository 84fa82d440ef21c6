--------------------------- MODULE PlatformProofs ---------------------------
(***************************************************************************)
(* Proofs about the parts of MCPlatform, each for all values of its        *)
(* constants.  Recursive functions over data are handled by the least      *)
(* place at which something would go wrong (LeastNat).                     *)
(*                                                                         *)
(* DriverLink: LinkInv says that the replies end one after the other       *)
(* (Increasing), that with a card in pieces enough are to come (Enough),   *)
(* that one flow at most waits while none has written beside another       *)
(* (Alone), and what a prompt card leaves between two exchanges (Prompt).  *)
(* TextBuffer: TextInv says which part of the string that was meant is in  *)
(* the buffer, and what lies behind it.                                    *)
(* LineInput: LineInv says that the buffer is what editing the keys read   *)
(* so far gives.                                                           *)
(* Tokenizer: TokenInv says that the memory behind the place read up to is *)
(* still the text (Unread), that the stretches before it are strings of    *)
(* their own (CutOut), and that the calls gave these, one each (Given,     *)
(* Counted).                                                               *)
(* Heap: HeapInv says that the blocks lie end to end (Tiled), that the     *)
(* list has the free ones in order (Listed), that the others are held by   *)
(* one client each (HaveBlocks, OwnBlocks, AllHeld), which finds in its    *)
(* block what it wrote (Filled), and that no two free blocks are left side *)
(* by side once nothing is held (Coalesced).                               *)
(***************************************************************************)
EXTENDS MCPlatform, FiniteSetTheorems, SequenceTheorems, FunctionTheorems,
  WellFoundedInduction, TLAPS

\* A set of naturals that is not empty has a least element.
LEMMA LeastNat ==
  ASSUME NEW S \in SUBSET Nat, S # {}
  PROVE  \E x \in S : \A y \in S : x <= y
<1> DEFINE Less == {ss \in Nat \X Nat : ss[1] < ss[2]}
<1>1. IsWellFoundedOn(Less, Nat)
  BY NatLessThanWellFounded DEF OpToRel
<1>. HIDE DEF Less
<1>2. PICK x \in S : \A y \in S : ~ (<<y, x>> \in Less)
  BY <1>1, WFMin, Zenon
<1>3. \A y \in S : ~ (y < x)
  BY <1>2 DEF Less
<1>. QED BY <1>3

-----------------------------------------------------------------------------
(* DriverLink: the stream of replies.                                      *)

Reply == [cmd : Commands, end : Nat \ {0}]

\* The replies end one after the other.
Increasing(st) == \A i, j \in 1 .. Len(st) : i < j => st[i].end < st[j].end

\* A reply of the stream.
LEMMA ReplyAt ==
  ASSUME NEW st \in Seq(Reply), NEW i \in 1 .. Len(st)
  PROVE  st[i] \in Reply /\ st[i].cmd \in Commands /\ st[i].end \in Nat /\ st[i].end > 0
<1>1. st[i] \in Reply
  BY ElementOfSeq
<1>. QED BY <1>1 DEF Reply

\* While no command was written beside another, one flow at most waits, and
\* it has something to wait for.
Alone == ~ beside =>
  /\ \A f, g \in Flow : open[f] # None /\ open[g] # None => f = g
  /\ \A f \in Flow : open[f] # None => stream # <<>> \/ todo # <<>>

\* With a card in pieces, as many replies are to come as flows wait for one.
Enough == card = "pieces" => Len(stream) + Len(todo) >= Cardinality(Waiting)

\* With a prompt card the only exchange is that of the flow on the processor,
\* and its command or its reply is all that is under way.
Prompt == card = "prompt" /\ ~ outgrown =>
  /\ \A f \in Flow : f # running => open[f] = None
  /\ running = None => stream = <<>> /\ todo = <<>>
  /\ running # None =>
       /\ open[running].got = 0 /\ open[running].from = {}
       /\ \/ stream = <<>> /\ todo = <<open[running].cmd>>
          \/ /\ todo = <<>> /\ Len(stream) = 1
             /\ stream[1].cmd = open[running].cmd /\ stream[1].end <= Room

LinkInv == /\ TypeOK
           /\ Increasing(stream)
           /\ IsFiniteSet(Waiting)
           /\ Alone
           /\ Enough
           /\ Prompt
           /\ InStep

LEMMA InitLink == Init => LinkInv
<1> SUFFICES ASSUME Init PROVE LinkInv
  OBVIOUS
<1>1. /\ Waiting = {} /\ Len(stream) = 0 /\ Len(todo) = 0 /\ stream = <<>> /\ todo = <<>>
      /\ running = None /\ answer = None /\ \A f \in Flow : open[f] = None
  BY DEF Init, Waiting
<1>2. TypeOK
  <2>1. 0 \in 0 .. MaxCommands
    BY DriverAssumption
  <2>2. <<>> \in Seq(Commands) /\ <<>> \in Seq([cmd : Commands, end : Nat \ {0}])
    BY EmptySeq
  <2>. QED BY <1>1, <2>1, <2>2 DEF Init, TypeOK
<1>3. Increasing(stream) /\ Alone /\ Prompt /\ InStep
  BY <1>1 DEF Increasing, Alone, Prompt, InStep
<1>4. IsFiniteSet(Waiting) /\ Enough
  BY <1>1, FS_EmptySet DEF Enough
<1>. QED BY <1>2, <1>3, <1>4 DEF LinkInv

\* The flows that wait, when one begins to or no longer does.
LEMMA WaitingGrows ==
  ASSUME TypeOK, IsFiniteSet(Waiting), NEW f \in Flow, open[f] = None,
         NEW e \in Exchange, open' = [open EXCEPT ![f] = e]
  PROVE  /\ IsFiniteSet(Waiting') /\ Cardinality(Waiting') = Cardinality(Waiting) + 1
         /\ Cardinality(Waiting) \in Nat
<1>1. Waiting' = Waiting \cup {f} /\ f \notin Waiting
  BY DriverAssumption DEF Waiting, TypeOK
<1>. QED BY <1>1, FS_AddElement, FS_CardinalityType

LEMMA WaitingShrinks ==
  ASSUME TypeOK, IsFiniteSet(Waiting), NEW f \in Flow, open' = [open EXCEPT ![f] = None]
  PROVE  /\ IsFiniteSet(Waiting') /\ Cardinality(Waiting') <= Cardinality(Waiting)
         /\ open[f] # None => Cardinality(Waiting') = Cardinality(Waiting) - 1
         /\ Cardinality(Waiting) \in Nat /\ Cardinality(Waiting') \in Nat
<1>1. Waiting' = Waiting \ {f} /\ (f \in Waiting <=> open[f] # None)
  BY DEF Waiting, TypeOK
<1>2. Cardinality(Waiting) \in Nat
  BY FS_CardinalityType
<1>3. /\ IsFiniteSet(Waiting \ {f}) /\ Cardinality(Waiting \ {f}) \in Nat
      /\ Cardinality(Waiting \ {f}) =
           IF f \in Waiting THEN Cardinality(Waiting) - 1 ELSE Cardinality(Waiting)
  BY FS_RemoveElement, FS_CardinalityType
<1>. QED BY <1>1, <1>2, <1>3

\* What the invariant says of the replies to come is ReplyIsComing.
LEMMA Coming == LinkInv => ReplyIsComing
<1> SUFFICES ASSUME LinkInv, card = "pieces" \/ ~ beside
             PROVE  Len(stream) + Len(todo) >= Cardinality(Waiting)
  BY DEF ReplyIsComing
<1>1. /\ Len(stream) \in Nat /\ Len(todo) \in Nat
      /\ stream # <<>> => Len(stream) >= 1
      /\ todo # <<>> => Len(todo) >= 1
  <2>1. stream \in Seq(Reply) /\ todo \in Seq(Commands)
    BY DEF LinkInv, TypeOK, Reply
  <2>2. Len(stream) \in Nat /\ (Len(stream) = 0 => stream = <<>>)
    BY <2>1, EmptySeq
  <2>3. Len(todo) \in Nat /\ (Len(todo) = 0 => todo = <<>>)
    BY <2>1, EmptySeq
  <2>. QED BY <2>2, <2>3
<1>2. CASE card = "pieces"
  BY <1>2 DEF LinkInv, Enough
<1>3. CASE ~ beside /\ Waiting = {}
  <2>1. Cardinality(Waiting) = 0
    BY <1>3, FS_EmptySet
  <2>. QED BY <1>1, <2>1
<1>4. CASE ~ beside /\ Waiting # {}
  <2>1. PICK f \in Waiting : TRUE
    BY <1>4
  <2>2. Waiting = {f} /\ (stream # <<>> \/ todo # <<>>)
    BY <1>4, <2>1 DEF LinkInv, Alone, Waiting
  <2>3. Cardinality(Waiting) = 1
    BY <2>2, FS_Singleton
  <2>. QED BY <1>1, <2>2, <2>3
<1>. QED BY <1>2, <1>3, <1>4

LEMMA WriteLink ==
  ASSUME LinkInv, NEW f \in Flow, NEW kind \in Kind, NEW plen, Write(f, kind, plen)
  PROVE  LinkInv'
<1> DEFINE e == [kind |-> kind, cmd |-> written + 1, got |-> 0, from |-> {}]
<1>1. /\ running = None /\ open[f] = None /\ written < MaxCommands
      /\ written' = written + 1 /\ todo' = Append(todo, written + 1)
      /\ running' = f /\ open' = [open EXCEPT ![f] = e]
      /\ beside' = (beside \/ Waiting # {})
      /\ answer' = None /\ UNCHANGED <<card, stream, outgrown, sound>>
  BY DEF Write
<1>2. /\ e \in Exchange /\ e # None /\ e.got = 0 /\ e.from = {} /\ e.cmd = written + 1
      /\ written + 1 \in Commands /\ written + 1 \in 0 .. MaxCommands
      /\ f # None /\ 0 < Room
  <2>1. written + 1 \in Commands /\ written + 1 \in 0 .. MaxCommands
    BY <1>1, DriverAssumption DEF LinkInv, TypeOK, Commands
  <2>2. 0 \in 0 .. Room /\ 0 < Room
    BY DriverAssumption
  <2>3. e \in Exchange
    BY <2>1, <2>2 DEF Exchange
  <2>. QED BY <2>1, <2>2, <2>3, DriverAssumption
<1>3. open'[f] = e /\ \A g \in Flow \ {f} : open'[g] = open[g]
  BY <1>1 DEF LinkInv, TypeOK
<1>4. todo \in Seq(Commands) /\ Len(todo') = Len(todo) + 1 /\ todo' \in Seq(Commands)
  BY <1>1, <1>2 DEF LinkInv, TypeOK
<1>. HIDE DEF e
<1>5. TypeOK'
  <2>1. open' \in [Flow -> Exchange \cup {None}]
    BY <1>1, <1>2 DEF LinkInv, TypeOK
  <2>2. /\ \A g \in Flow : open'[g] # None => open'[g].got < Room
        /\ running' # None => open'[running'] # None
    BY <1>1, <1>2, <1>3 DEF LinkInv, TypeOK
  <2>. QED BY <1>1, <1>2, <1>4, <2>1, <2>2 DEF LinkInv, TypeOK
<1>6. IsFiniteSet(Waiting') /\ Cardinality(Waiting') = Cardinality(Waiting) + 1
      /\ Cardinality(Waiting) \in Nat
  BY <1>1, <1>2, WaitingGrows DEF LinkInv
<1>7. Alone'
  <2>1. ASSUME ~ beside' PROVE \A g \in Flow : g # f => open'[g] = None
    BY <1>1, <1>3, <2>1 DEF Waiting
  <2>2. todo' # <<>>
    BY <1>4, EmptySeq
  <2>. QED BY <2>1, <2>2 DEF Alone
<1>8. Enough'
  <2>1. Len(stream) \in Nat /\ Len(todo) \in Nat
    BY <1>4 DEF LinkInv, TypeOK
  <2>2. card' = "pieces" => Len(stream) + (Len(todo) + 1) >= Cardinality(Waiting) + 1
    BY <1>1, <1>6, <2>1 DEF LinkInv, Enough
  <2>. QED BY <1>1, <1>4, <1>6, <2>2 DEF Enough
<1>9. Prompt' /\ InStep'
  <2>1. ASSUME card = "prompt", ~ outgrown
        PROVE  /\ \A g \in Flow : open[g] = None
               /\ stream = <<>> /\ todo' = <<written + 1>>
    BY <1>1, <2>1, DriverAssumption DEF LinkInv, Prompt
  <2>2. open'[running'] = e
    BY <1>1, <1>3
  <2>3. Prompt'
    BY <1>1, <1>2, <1>3, <2>1, <2>2 DEF Prompt
  <2>4. InStep'
    BY <1>1, <1>2 DEF InStep
  <2>. QED BY <2>3, <2>4
<1>10. Increasing(stream')
  BY <1>1 DEF LinkInv
<1>. QED BY <1>5, <1>6, <1>7, <1>8, <1>9, <1>10 DEF LinkInv, Increasing

\* Steps that change none of what the invariant is about.
LEMMA StillLink ==
  ASSUME LinkInv, answer' = None \/ answer' = answer, sound' \in BOOLEAN,
         UNCHANGED <<card, written, todo, stream, running, open, beside, outgrown>>
  PROVE  LinkInv'
<1>1. TypeOK' /\ Prompt' /\ InStep'
  BY DEF LinkInv, TypeOK, Prompt, InStep
<1>2. Waiting' = Waiting
  BY DEF Waiting
<1>3. IsFiniteSet(Waiting') /\ Enough' /\ Alone' /\ Increasing(stream')
  BY <1>2 DEF LinkInv, Enough, Alone
<1>. QED BY <1>1, <1>3 DEF LinkInv, Increasing

\* A flow that leaves the processor, and perhaps its exchange, without having
\* read: a read that finds nothing or fails.
LEMMA LeaveLink ==
  ASSUME LinkInv, NEW f \in Flow, running = f, card # "prompt", running' = None,
         answer' = None, open' = [open EXCEPT ![f] = None] \/ open' = open,
         UNCHANGED <<card, written, todo, stream, beside, outgrown, sound>>
  PROVE  LinkInv'
<1>1. \A g \in Flow : open'[g] = open[g] \/ open'[g] = None
  BY DEF LinkInv, TypeOK
<1>2. open' \in [Flow -> Exchange \cup {None}]
  BY DEF LinkInv, TypeOK
<1>3. \A g \in Flow : open'[g] # None => open'[g].got < Room
  BY <1>1 DEF LinkInv, TypeOK
<1>4. TypeOK'
  BY <1>2, <1>3 DEF LinkInv, TypeOK
<1>5. Prompt' /\ InStep'
  BY DEF Prompt, InStep
<1>6. Alone'
  BY <1>1 DEF LinkInv, Alone
<1>7. IsFiniteSet(Waiting') /\ Enough'
  <2>1. CASE open' = open
    BY <2>1 DEF LinkInv, Waiting, Enough
  <2>2. CASE open' = [open EXCEPT ![f] = None]
    <3>1. /\ IsFiniteSet(Waiting') /\ Cardinality(Waiting') <= Cardinality(Waiting)
          /\ Cardinality(Waiting) \in Nat /\ Cardinality(Waiting') \in Nat
      BY <2>2, WaitingShrinks DEF LinkInv
    <3>2. Len(stream) \in Nat /\ Len(todo) \in Nat
      BY LenProperties DEF LinkInv, TypeOK
    <3>3. card = "pieces" => Len(stream) + Len(todo) >= Cardinality(Waiting')
      BY <3>1, <3>2 DEF LinkInv, Enough
    <3>. QED BY <3>1, <3>3 DEF Enough
  <2>. QED BY <2>1, <2>2
<1>8. Increasing(stream')
  BY DEF LinkInv
<1>. QED BY <1>4, <1>5, <1>6, <1>7, <1>8 DEF LinkInv, Increasing

LEMMA WakeLink ==
  ASSUME LinkInv, NEW f \in Flow, Wake(f)
  PROVE  LinkInv'
<1>1. /\ running = None /\ open[f] # None /\ running' = f /\ answer' = None
      /\ UNCHANGED <<card, written, todo, stream, open, beside, outgrown, sound>>
      /\ f # None
  BY DriverAssumption DEF Wake
<1>2. ~ (card = "prompt" /\ ~ outgrown)
  BY <1>1 DEF LinkInv, Prompt
<1>3. TypeOK' /\ Prompt' /\ InStep'
  BY <1>1, <1>2 DEF LinkInv, TypeOK, Prompt, InStep
<1>4. IsFiniteSet(Waiting') /\ Alone' /\ Enough' /\ Increasing(stream')
  BY <1>1 DEF LinkInv, Waiting, Alone, Enough
<1>. QED BY <1>3, <1>4 DEF LinkInv, Increasing

\* What is left of the stream after a read.
LEMMA RestOfStream ==
  ASSUME TypeOK, Increasing(stream), NEW bytes \in 1 .. Room, NEW j \in 0 .. Len(stream),
         bytes <= Total, \A i \in DOMAIN stream : stream[i].end <= bytes <=> i <= j,
         NEW rest, rest = [i \in 1 .. Len(stream) - j |->
                             [cmd |-> stream[i + j].cmd, end |-> stream[i + j].end - bytes]]
  PROVE  /\ rest \in Seq(Reply) /\ Len(rest) = Len(stream) - j /\ Increasing(rest)
         /\ j = Len(stream) => j > 0 /\ stream[j].end = bytes
<1>1. /\ stream \in Seq(Reply) /\ Len(stream) \in Nat /\ DOMAIN stream = 1 .. Len(stream)
      /\ bytes \in Nat /\ bytes > 0 /\ j \in Nat
      /\ Len(stream) = 0 => stream = <<>>
  BY DriverAssumption, EmptySeq, LenProperties DEF TypeOK, Reply
<1>2. ASSUME NEW i \in 1 .. Len(stream) - j
      PROVE  /\ i + j \in 1 .. Len(stream) /\ stream[i + j] \in Reply
             /\ stream[i + j].end - bytes \in Nat \ {0}
             /\ rest[i] = [cmd |-> stream[i + j].cmd, end |-> stream[i + j].end - bytes]
  <2>1. i + j \in 1 .. Len(stream) /\ ~ (i + j <= j)
    BY <1>1
  <2>2. stream[i + j] \in Reply /\ stream[i + j].end \in Nat
    BY <1>1, <2>1, ReplyAt
  <2>3. ~ (stream[i + j].end <= bytes)
    BY <1>1, <2>1
  <2>4. stream[i + j].end - bytes \in Nat \ {0}
    BY <1>1, <2>2, <2>3
  <2>. QED BY <2>1, <2>2, <2>4
<1>3. rest \in [1 .. Len(stream) - j -> Reply]
  BY <1>2 DEF Reply
<1>4. Len(stream) - j \in Nat
  BY <1>1
<1>5. rest \in Seq(Reply) /\ Len(rest) = Len(stream) - j
  <2>1. rest \in Seq(Reply)
    BY <1>3, <1>4, SeqDef
  <2>2. DOMAIN rest = 1 .. Len(stream) - j
    BY <1>3
  <2>3. DOMAIN rest = 1 .. Len(rest) /\ Len(rest) \in Nat
    BY <2>1, LenProperties
  <2> DEFINE N == Len(stream) - j
             M == Len(rest)
  <2>4. N \in Nat /\ M \in Nat /\ 1 .. N = 1 .. M
    BY <1>4, <2>2, <2>3
  <2>5. M = N
    <3>. HIDE DEF M, N
    <3>1. N \in 1 .. N \/ N = 0
      BY <2>4
    <3>2. M \in 1 .. M \/ M = 0
      BY <2>4
    <3>. QED BY <2>4, <3>1, <3>2
  <2>. QED BY <2>1, <2>5
<1>6. Increasing(rest)
  <2>1. ASSUME NEW i \in 1 .. Len(stream) - j, NEW k \in 1 .. Len(stream) - j, i < k
        PROVE  rest[i].end < rest[k].end
    <3>1. i + j \in 1 .. Len(stream) /\ k + j \in 1 .. Len(stream) /\ i + j < k + j
      BY <1>1, <2>1
    <3>2. stream[i + j].end < stream[k + j].end
      BY <3>1 DEF Increasing
    <3>3. stream[i + j].end \in Nat /\ stream[k + j].end \in Nat
      BY <1>2 DEF Reply
    <3>4. rest[i].end = stream[i + j].end - bytes /\ rest[k].end = stream[k + j].end - bytes
      BY <1>2
    <3>. QED BY <1>1, <3>2, <3>3, <3>4
  <2>. QED BY <1>5, <2>1 DEF Increasing
<1>7. ASSUME j = Len(stream) PROVE j > 0 /\ stream[j].end = bytes
  <2>1. stream # <<>> /\ Total = stream[Len(stream)].end
    BY <1>1 DEF Total
  <2>2. j > 0 /\ j \in 1 .. Len(stream)
    BY <1>1, <1>7, <2>1
  <2>3. stream[j].end \in Nat /\ stream[j].end <= bytes
    BY <1>1, <2>2, ReplyAt
  <2>. QED BY <1>1, <1>7, <2>1, <2>2, <2>3
<1>. QED BY <1>5, <1>6, <1>7

\* A read of a card in pieces takes one end of a reply at most, and with it
\* ends an exchange.
LEMMA OneEnd ==
  ASSUME TypeOK, Increasing(stream), NEW bytes \in 1 .. Room, NEW j \in 0 .. Len(stream),
         bytes <= Total, bytes <= stream[1].end,
         \A i \in DOMAIN stream : stream[i].end <= bytes <=> i <= j
  PROVE  j = 0 \/ (j = 1 /\ stream[j].end = bytes)
<1>1. /\ stream \in Seq(Reply) /\ Len(stream) \in Nat /\ DOMAIN stream = 1 .. Len(stream)
      /\ bytes \in Nat /\ j \in Nat
  BY DriverAssumption, LenProperties DEF TypeOK, Reply
<1>2. CASE j > 0
  <2>1. 1 \in 1 .. Len(stream) /\ j \in 1 .. Len(stream)
    BY <1>1, <1>2
  <2>2. stream[1].end \in Nat /\ stream[j].end \in Nat
    BY <1>1, <2>1, ReplyAt
  <2>3. stream[j].end <= bytes /\ (1 < j => stream[1].end < stream[j].end)
    BY <1>1, <2>1 DEF Increasing
  <2>4. j = 1
    BY <1>1, <1>2, <2>2, <2>3
  <2>5. stream[j].end = bytes
    BY <1>1, <2>2, <2>3, <2>4
  <2>. QED BY <2>4, <2>5
<1>. QED BY <1>1, <1>2

LEMMA ReadLink ==
  ASSUME LinkInv, NEW f \in Flow, NEW bytes \in 1 .. Room, NEW j \in 0 .. Len(stream),
         Read(f, bytes, j)
  PROVE  LinkInv'
<1> DEFINE rest == [i \in 1 .. Len(stream) - j |->
                      [cmd |-> stream[i + j].cmd, end |-> stream[i + j].end - bytes]]
           taken == {stream[i].cmd : i \in
                       {i \in DOMAIN stream : i = 1 \/ stream[i - 1].end < bytes}}
           all == [open[f] EXCEPT !.got = @ + bytes, !.from = @ \cup taken]
<1>1. /\ running = f /\ stream' = rest /\ Delivers(bytes, j, open[f].got)
      /\ UNCHANGED <<card, written, todo, beside, outgrown, sound>>
      /\ f # None /\ open[f] # None /\ open[f] \in Exchange /\ open[f].got < Room
      /\ TypeOK /\ Increasing(stream)
  BY DriverAssumption DEF Read, LinkInv, TypeOK
<1>2. PICK zero \in BOOLEAN :
        /\ j > 0 /\ stream[j].end = bytes => zero
        /\ IF Complete(zero, all.got)
           THEN /\ answer' = IF all.got < HeaderSize THEN None ELSE all
                /\ open' = [open EXCEPT ![f] = None] /\ running' = None
           ELSE answer' = None /\ open' = [open EXCEPT ![f] = all] /\ UNCHANGED running
  BY DEF Read
<1>3. /\ bytes <= Ask(open[f].got) /\ bytes <= Total
      /\ \A i \in DOMAIN stream : stream[i].end <= bytes <=> i <= j
      /\ card = "prompt" => todo = <<>> /\ (bytes = Ask(open[f].got) \/ bytes = Total)
      /\ card = "pieces" => bytes <= stream[1].end
  BY <1>1 DEF Delivers
<1>4. /\ stream \in Seq(Reply) /\ Len(stream) \in Nat /\ DOMAIN stream = 1 .. Len(stream)
      /\ todo \in Seq(Commands) /\ Len(todo) \in Nat
  BY <1>1, LenProperties DEF TypeOK, Reply
<1>5. /\ all.got = open[f].got + bytes /\ all.from = open[f].from \cup taken
      /\ all.cmd = open[f].cmd /\ all.kind = open[f].kind
  BY <1>1 DEF Exchange
<1>6. taken \subseteq Commands
  <2>1. ASSUME NEW i \in 1 .. Len(stream) PROVE stream[i].cmd \in Commands
    BY <1>4, <2>1, ReplyAt
  <2>. QED BY <1>4, <2>1
<1>7. all.got \in 0 .. Room /\ all \in Exchange /\ all # None
  <2>1. all.got \in 0 .. Room
    BY <1>1, <1>3, <1>5, DriverAssumption DEF Exchange, Ask
  <2>2. all \in Exchange
    <3>. HIDE DEF taken
    <3>. QED BY <1>1, <1>5, <1>6, <2>1 DEF Exchange
  <2>. QED BY <2>1, <2>2, DriverAssumption
<1>8. /\ rest \in Seq(Reply) /\ Len(rest) = Len(stream) - j /\ Increasing(rest)
      /\ j = Len(stream) => j > 0 /\ stream[j].end = bytes
  <2>. HIDE DEF taken, all
  <2>. QED BY <1>1, <1>3, RestOfStream
<1>. HIDE DEF rest, taken, all
<1> DEFINE ends == Complete(zero, all.got)
<1>9. /\ ends => /\ answer' = IF all.got < HeaderSize THEN None ELSE all
                 /\ open' = [open EXCEPT ![f] = None] /\ running' = None
      /\ ~ ends => answer' = None /\ open' = [open EXCEPT ![f] = all] /\ running' = f
      /\ ~ ends => all.got < Room
      /\ j > 0 /\ stream[j].end = bytes => ends
  <2>1. ~ ends => all.got < Room
    BY <1>7, DriverAssumption DEF Complete
  <2>2. zero => ends
    BY DEF Complete
  <2>. HIDE DEF ends
  <2>3. IF ends
        THEN /\ answer' = IF all.got < HeaderSize THEN None ELSE all
             /\ open' = [open EXCEPT ![f] = None] /\ running' = None
        ELSE answer' = None /\ open' = [open EXCEPT ![f] = all] /\ UNCHANGED running
    BY <1>2 DEF ends
  <2>4. j > 0 /\ stream[j].end = bytes => ends
    BY <1>2, <2>2
  <2>. QED BY <1>1, <2>1, <2>3, <2>4
<1>. HIDE DEF ends
<1>10. /\ open' \in [Flow -> Exchange \cup {None}]
       /\ \A g \in Flow \ {f} : open'[g] = open[g]
       /\ open'[f] = IF ends THEN None ELSE all
  BY <1>7, <1>9 DEF LinkInv, TypeOK
<1>11. TypeOK'
  <2>1. \A g \in Flow : open'[g] # None => open'[g].got < Room
    BY <1>1, <1>9, <1>10 DEF TypeOK
  <2>2. running' \in Flow \cup {None} /\ (running' # None => open'[running'] # None)
    BY <1>7, <1>9, <1>10
  <2>3. answer' \in Exchange \cup {None}
    BY <1>7, <1>9
  <2>. QED BY <1>1, <1>8, <1>10, <2>1, <2>2, <2>3 DEF TypeOK, Reply
<1>12. Increasing(stream')
  BY <1>1, <1>8
<1>13. Alone'
  <2>1. ASSUME ~ ends PROVE stream' # <<>>
    <3>1. j # Len(stream)
      BY <1>8, <1>9, <2>1
    <3>2. Len(stream) \in Nat /\ j \in Nat
      BY <1>4
    <3>3. Len(stream) - j # 0
      BY <3>1, <3>2
    <3>. QED BY <1>1, <1>8, <3>3
  <2>2. ASSUME ~ beside' PROVE \A g \in Flow \ {f} : open'[g] = None
    BY <1>1, <1>10, <2>2 DEF LinkInv, Alone
  <2>. QED BY <1>10, <2>1, <2>2 DEF Alone
<1>14. IsFiniteSet(Waiting') /\ Enough'
  <2>1. IsFiniteSet(Waiting) /\ Cardinality(Waiting) \in Nat
    BY FS_CardinalityType DEF LinkInv
  <2>2. CASE ends
    <3>1. IsFiniteSet(Waiting') /\ Cardinality(Waiting') = Cardinality(Waiting) - 1
      BY <1>1, <1>9, <2>2, WaitingShrinks DEF LinkInv
    <3>2. ASSUME card = "pieces"
          PROVE  Len(stream') + Len(todo) >= Cardinality(Waiting')
      <4>1. j = 0 \/ j = 1
        BY <1>1, <1>3, <3>2, OneEnd
      <4>2. Len(stream) + Len(todo) >= Cardinality(Waiting)
        BY <3>2 DEF LinkInv, Enough
      <4>3. Len(stream') = Len(stream) - j
        BY <1>1, <1>8
      <4>. QED BY <1>4, <2>1, <3>1, <4>1, <4>2, <4>3
    <3>. QED BY <1>1, <3>1, <3>2 DEF Enough
  <2>3. CASE ~ ends
    <3>1. Waiting' = Waiting
      BY <1>1, <1>7, <1>10, <2>3 DEF Waiting
    <3>2. ASSUME card = "pieces"
          PROVE  Len(stream') + Len(todo) >= Cardinality(Waiting')
      <4>1. j = 0 \/ (j = 1 /\ stream[j].end = bytes)
        BY <1>1, <1>3, <3>2, OneEnd
      <4>2. j = 0
        BY <1>9, <2>3, <4>1
      <4>3. Len(stream) + Len(todo) >= Cardinality(Waiting)
        BY <3>2 DEF LinkInv, Enough
      <4>4. Len(stream') = Len(stream)
        BY <1>1, <1>4, <1>8, <4>2
      <4>. QED BY <3>1, <4>3, <4>4
    <3>. QED BY <1>1, <2>1, <3>1, <3>2 DEF Enough
  <2>. QED BY <2>2, <2>3
<1>15. Prompt' /\ InStep'
  <2>1. ASSUME card = "prompt", ~ outgrown
        PROVE  /\ ends /\ stream' = <<>> /\ todo = <<>> /\ all.from = {all.cmd}
               /\ \A g \in Flow : open'[g] = None
    <3>1. /\ open[f].got = 0 /\ open[f].from = {} /\ todo = <<>>
          /\ \A g \in Flow : g # f => open[g] = None
      BY <1>1, <1>3, <2>1 DEF LinkInv, Prompt
    <3>2. stream # <<>>
      BY <1>3, DriverAssumption DEF Total
    <3>3. Len(stream) = 1 /\ stream[1].cmd = open[f].cmd /\ stream[1].end <= Room
      BY <1>1, <2>1, <3>2 DEF LinkInv, Prompt
    <3>4. stream[1].end \in Nat /\ Total = stream[1].end
      BY <1>4, <3>2, <3>3, ReplyAt DEF Total
    <3>5. bytes = stream[1].end
      BY <1>3, <2>1, <3>1, <3>3, <3>4, DriverAssumption DEF Ask
    <3>6. j = 1
      BY <1>3, <1>4, <3>3, <3>4, <3>5
    <3>7. ends
      BY <1>9, <3>5, <3>6
    <3>8. stream' = <<>>
      BY <1>1, <1>4, <1>8, <3>3, <3>6, EmptySeq
    <3>9. taken = {stream[1].cmd}
      BY <1>4, <3>3 DEF taken
    <3>10. all.from = {all.cmd}
      BY <1>5, <3>1, <3>3, <3>9
    <3>11. \A g \in Flow : open'[g] = None
      BY <1>10, <3>1, <3>7
    <3>. QED BY <3>1, <3>7, <3>8, <3>10, <3>11
  <2>2. Prompt'
    BY <1>1, <1>9, <2>1 DEF Prompt
  <2>3. InStep'
    BY <1>1, <1>9, <2>1 DEF InStep
  <2>. QED BY <2>2, <2>3
<1>. QED BY <1>11, <1>12, <1>13, <1>14, <1>15 DEF LinkInv, Increasing

LEMMA CardLink ==
  ASSUME LinkInv, NEW sz \in ReplySizes, Card(sz)
  PROVE  LinkInv'
<1> DEFINE r == [cmd |-> Head(todo), end |-> Total + sz]
<1>1. /\ todo # <<>> /\ todo' = Tail(todo) /\ answer' = None
      /\ stream' = Append(stream, r) /\ outgrown' = (outgrown \/ sz > Room)
      /\ UNCHANGED <<card, written, running, open, beside, sound>>
      /\ stream \in Seq(Reply) /\ todo \in Seq(Commands)
  BY DEF Card, LinkInv, TypeOK, Reply
<1>2. /\ Head(todo) \in Commands /\ todo' \in Seq(Commands)
      /\ Len(todo') = Len(todo) - 1 /\ Len(todo) \in Nat \ {0}
  BY <1>1, HeadTailProperties, EmptySeq
<1>3. sz \in Nat \ {0} /\ Len(stream) \in Nat /\ (Len(stream) = 0 => stream = <<>>)
  BY <1>1, DriverAssumption, EmptySeq
<1>4. Total \in Nat /\ \A i \in 1 .. Len(stream) : stream[i].end \in Nat /\ stream[i].end <= Total
  <2>1. ASSUME NEW i \in 1 .. Len(stream) PROVE stream[i].end \in Nat
    BY <1>1, <2>1, ReplyAt
  <2>2. CASE stream = <<>>
    BY <2>2 DEF Total
  <2>3. CASE stream # <<>>
    <3>1. Len(stream) \in 1 .. Len(stream) /\ Total = stream[Len(stream)].end
      BY <1>3, <2>3 DEF Total
    <3>2. ASSUME NEW i \in 1 .. Len(stream) PROVE stream[i].end <= Total
      <4>1. i < Len(stream) => stream[i].end < Total
        BY <3>1 DEF LinkInv, Increasing
      <4>2. i = Len(stream) \/ i < Len(stream)
        BY <1>3
      <4>. QED BY <2>1, <3>1, <4>1, <4>2
    <3>. QED BY <2>1, <3>1, <3>2
  <2>. QED BY <2>2, <2>3
<1>5. r \in Reply /\ r.end = Total + sz /\ r.cmd = Head(todo) /\ r.end > Total
  BY <1>2, <1>3, <1>4 DEF Reply
<1>. HIDE DEF r
<1>6. /\ stream' \in Seq(Reply) /\ Len(stream') = Len(stream) + 1
      /\ \A i \in 1 .. Len(stream) : stream'[i] = stream[i]
      /\ stream'[Len(stream) + 1] = r
  BY <1>1, <1>5, AppendProperties
<1>7. Increasing(stream')
  <2>1. ASSUME NEW i \in 1 .. Len(stream'), NEW j \in 1 .. Len(stream'), i < j
        PROVE  stream'[i].end < stream'[j].end
    <3>1. i \in 1 .. Len(stream) /\ stream'[i] = stream[i]
      BY <1>3, <1>6, <2>1
    <3>2. CASE j \in 1 .. Len(stream)
      BY <1>6, <2>1, <3>1, <3>2 DEF LinkInv, Increasing
    <3>3. CASE j = Len(stream) + 1
      <4>1. stream'[j].end = r.end /\ stream[i].end <= Total /\ stream[i].end \in Nat
        BY <1>4, <1>6, <3>1, <3>3
      <4>. QED BY <1>3, <1>4, <1>5, <3>1, <4>1
    <3>4. j \in 1 .. Len(stream) \/ j = Len(stream) + 1
      BY <1>3, <1>6
    <3>. QED BY <3>2, <3>3, <3>4
  <2>. QED BY <2>1 DEF Increasing
<1>8. TypeOK'
  BY <1>1, <1>2, <1>6 DEF LinkInv, TypeOK, Reply
<1>9. Waiting' = Waiting
  BY <1>1 DEF Waiting
<1>10. Alone'
  <2>1. stream' # <<>>
    BY <1>3, <1>6, EmptySeq
  <2>. QED BY <1>1, <2>1 DEF LinkInv, Alone
<1>11. IsFiniteSet(Waiting') /\ Enough'
  <2>1. Len(stream') + Len(todo') = Len(stream) + Len(todo)
    BY <1>2, <1>3, <1>6
  <2>. QED BY <1>1, <1>9, <2>1 DEF LinkInv, Enough
<1>12. Prompt' /\ InStep'
  <2>1. ASSUME card = "prompt", ~ outgrown'
        PROVE  /\ running # None /\ open[running].got = 0 /\ open[running].from = {}
               /\ todo' = <<>> /\ Len(stream') = 1
               /\ stream'[1].cmd = open[running].cmd /\ stream'[1].end <= Room
               /\ \A g \in Flow : g # running => open[g] = None
    <3>1. ~ outgrown /\ ~ (sz > Room)
      BY <1>1, <2>1 DEF LinkInv, TypeOK
    <3>2. /\ running # None /\ stream = <<>> /\ todo = <<open[running].cmd>>
          /\ open[running].got = 0 /\ open[running].from = {}
          /\ \A g \in Flow : g # running => open[g] = None
      BY <1>1, <2>1, <3>1 DEF LinkInv, Prompt
    <3>3. Head(todo) = open[running].cmd /\ Len(todo') = 0
      BY <1>1, <1>2, <3>2
    <3>4. todo' = <<>>
      BY <1>2, <3>3, EmptySeq
    <3>5. Total = 0 /\ Len(stream) = 0
      BY <3>2 DEF Total
    <3>6. Len(stream') = 1 /\ stream'[1] = r
      BY <1>6, <3>5
    <3>7. r.end <= Room
      BY <1>3, <1>5, <3>1, <3>5, DriverAssumption
    <3>. QED BY <1>5, <3>2, <3>3, <3>4, <3>6, <3>7
  <2>2. Prompt'
    BY <1>1, <2>1 DEF Prompt
  <2>3. InStep'
    BY <1>1, <2>1 DEF InStep
  <2>. QED BY <2>2, <2>3
<1>. QED BY <1>7, <1>8, <1>10, <1>11, <1>12 DEF LinkInv, Increasing

LEMMA NextLink == LinkInv /\ [Next]_vars => LinkInv'
<1> SUFFICES ASSUME LinkInv, [Next]_vars PROVE LinkInv'
  OBVIOUS
<1>1. CASE UNCHANGED vars
  <2>1. sound' \in BOOLEAN
    BY <1>1 DEF vars, LinkInv, TypeOK
  <2>. QED BY <1>1, <2>1, StillLink DEF vars
<1>2. ASSUME NEW f \in Flow, NEW plen, Overrun(f, plen) PROVE LinkInv'
  BY <1>2, StillLink DEF Overrun
<1>3. ASSUME NEW f \in Flow, WriteFails(f) PROVE LinkInv'
  <2>1. sound' \in BOOLEAN
    BY <1>3 DEF WriteFails, LinkInv, TypeOK
  <2>. QED BY <1>3, <2>1, StillLink DEF WriteFails
<1>4. ASSUME NEW f \in Flow, ReadNothing(f) PROVE LinkInv'
  BY <1>4, LeaveLink DEF ReadNothing
<1>5. ASSUME NEW f \in Flow, ReadFails(f) PROVE LinkInv'
  BY <1>5, LeaveLink DEF ReadFails
<1>6. ASSUME NEW f \in Flow, NEW kind \in Kind, NEW plen, Write(f, kind, plen) PROVE LinkInv'
  BY <1>6, WriteLink
<1>7. CASE Next
  <2>1. "transact" \in Kind /\ "poll" \in Kind
    BY DEF Kind
  <2>. QED BY <1>2, <1>3, <1>4, <1>5, <1>6, <1>7, <2>1, ReadLink, WakeLink, CardLink DEF Next
<1>. QED BY <1>1, <1>7

\* The buffer that collects a reply is never read into past its end, and an
\* exchange that goes on has room for another read, whatever the lengths of
\* the replies and however the card splits or joins them.
THEOREM LinkTyped == Spec => []TypeOK
<1>1. LinkInv => TypeOK
  BY DEF LinkInv
<1>. QED BY <1>1, InitLink, NextLink, PTL DEF Spec

\* No flow waits in driver_transact for a reply that nobody sends: there are
\* as many replies under way as flows that wait, for any number of flows with
\* a card whose reads keep to one reply, though it splits them and fails; and
\* with one that joins replies, as long as no flow used it beside another.
THEOREM ReplyComes == Spec => []ReplyIsComing
BY InitLink, NextLink, Coming, PTL DEF Spec

\* With a prompt card, and while every reply fits the buffer, every exchange
\* gets the reply to its own command and leaves none behind.
THEOREM PromptInStep == Spec => []InStep
<1>1. LinkInv => InStep
  BY DEF LinkInv
<1>. QED BY <1>1, InitLink, NextLink, PTL DEF Spec

-----------------------------------------------------------------------------
(* TextBuffer: the buffer and the string spelled out.                      *)

Memories == [Tb!Cells -> Char \cup {NUL, Garbage}]

NothingBehind(d) == \A i \in Tb!Beyond : d[i] = Garbage

\* The buffer begins with the string w.
BeginsWith(d, w) == \A i \in 1 .. Len(w) : d[i - 1] = w[i]

\* The buffer holds w, which is terminated if there is room.
Holds(d, w) ==
  /\ Len(w) <= Capacity /\ BeginsWith(d, w)
  /\ Len(w) < Capacity => d[Len(w)] = NUL

\* The buffer holds the first k characters of what was meant, and those are
\* all there is room for.
HoldsFirst(k) ==
  /\ k \in 0 .. Len(meant)
  /\ Holds(mem, SubSeq(meant, 1, k))
  /\ k < Len(meant) => k >= Capacity - 1
  /\ ret[1] = "copied" => ret[2] = k

NothingYet == meant = <<>> /\ ret[1] # "copied" /\ \A i \in Tb!Cells : mem[i] = Garbage

TextInv ==
  /\ Tb!TypeOK
  /\ NothingBehind(mem)
  /\ NothingYet \/ \E k \in Nat : HoldsFirst(k)
  /\ ret[1] = "tried" => (ret[2] >= Capacity <=> cut)

\* A terminated string is as long as what the buffer holds.
LEMMA StrlenOfHeld ==
  ASSUME NEW d \in Memories, NEW w \in Seq(Char), Holds(d, w)
  PROVE  /\ Len(w) < Capacity => Tb!strlen(d) = Len(w)
         /\ (\E i \in 0 .. Capacity - 1 : d[i] = NUL) <=> Len(w) < Capacity
<1> DEFINE Ends == {i \in DOMAIN d : d[i] = NUL}
<1>1. Len(w) \in Nat /\ \A i \in 1 .. Len(w) : w[i] \in Char
  BY LenProperties, ElementOfSeq
<1>2. \A i \in 0 .. Len(w) - 1 : d[i] # NUL
  <2>1. ASSUME NEW i \in 0 .. Len(w) - 1 PROVE d[i] # NUL
    <3>1. i + 1 \in 1 .. Len(w) /\ d[(i + 1) - 1] = w[i + 1]
      BY <1>1 DEF Holds, BeginsWith
    <3>. QED BY <1>1, <3>1, PlatformAssumption DEF Tb!TextAssumption
  <2>. QED BY <2>1
<1>3. ASSUME Len(w) < Capacity PROVE Tb!strlen(d) = Len(w)
  <2>1. Ends \subseteq Nat /\ Len(w) \in Ends
    BY <1>1, <1>3, PlatformAssumption DEF Holds, Memories, Tb!Cells, Tb!TextAssumption
  <2>2. \A i \in Ends : Len(w) <= i
    BY <1>1, <1>2, <2>1
  <2>3. \A x \in Ends : (\A y \in Ends : x <= y) => x = Len(w)
    BY <1>1, <2>1, <2>2
  <2>. QED BY <2>1, <2>2, <2>3 DEF Tb!strlen, Tb!Min
<1>4. (\E i \in 0 .. Capacity - 1 : d[i] = NUL) <=> Len(w) < Capacity
  BY <1>1, <1>2, PlatformAssumption DEF Holds, Tb!TextAssumption
<1>. QED BY <1>3, <1>4

\* Writing v and a terminator behind w makes w \o v.
LEMMA PutBehind ==
  ASSUME NEW d \in Memories, NothingBehind(d), NEW w \in Seq(Char), BeginsWith(d, w),
         NEW v \in Seq(Char), Len(w) + Len(v) < Capacity
  PROVE  LET e == Tb!Put(d, Len(w), Append(v, NUL))
         IN  e \in Memories /\ NothingBehind(e) /\ Holds(e, w \o v)
<1> DEFINE t == Append(v, NUL)
           e == Tb!Put(d, Len(w), t)
<1>1. /\ Len(w) \in Nat /\ Len(v) \in Nat
      /\ \A i \in 1 .. Len(w) : w[i] \in Char
      /\ \A i \in 1 .. Len(v) : v[i] \in Char
  BY LenProperties, ElementOfSeq
<1>2. /\ Len(t) = Len(v) + 1 /\ t[Len(v) + 1] = NUL
      /\ \A i \in 1 .. Len(v) : t[i] = v[i]
  <2>1. v \in Seq(Char \cup {NUL})
    BY SeqMonotonic
  <2>. QED BY <2>1, AppendProperties
<1>3. /\ DOMAIN d = Tb!Cells
      /\ e = [i \in Tb!Cells |-> IF i \in Len(w) .. Len(w) + Len(v) THEN t[i - Len(w) + 1] ELSE d[i]]
  BY <1>1, <1>2 DEF Tb!Put, Memories
<1>. HIDE DEF t, e
<1>4. e \in Memories
  <2>1. ASSUME NEW i \in Len(w) .. Len(w) + Len(v) PROVE t[i - Len(w) + 1] \in Char \cup {NUL}
    BY <1>1, <1>2
  <2>. QED BY <1>3, <2>1 DEF Memories
<1>5. NothingBehind(e)
  BY <1>1, <1>3, PlatformAssumption DEF NothingBehind, Tb!Beyond, Tb!Cells, Tb!TextAssumption
<1>6. /\ w \o v \in Seq(Char) /\ Len(w \o v) = Len(w) + Len(v)
      /\ \A i \in 1 .. Len(w) + Len(v) :
           (w \o v)[i] = IF i <= Len(w) THEN w[i] ELSE v[i - Len(w)]
  BY ConcatProperties
<1>7. 0 .. Capacity - 1 \subseteq Tb!Cells
  BY PlatformAssumption DEF Tb!Cells, Tb!TextAssumption
<1>8. ASSUME NEW i \in 1 .. Len(w \o v) PROVE e[i - 1] = (w \o v)[i]
  <2>1. i - 1 \in Tb!Cells
    BY <1>1, <1>6, <1>7, PlatformAssumption DEF Tb!TextAssumption
  <2>2. CASE i <= Len(w)
    BY <1>1, <1>3, <1>6, <2>1, <2>2 DEF BeginsWith
  <2>3. CASE i > Len(w)
    <3>1. i - 1 \in Len(w) .. Len(w) + Len(v) /\ (i - 1) - Len(w) + 1 = i - Len(w)
          /\ i - Len(w) \in 1 .. Len(v)
      BY <1>1, <1>6, <2>3
    <3>. QED BY <1>2, <1>3, <1>6, <2>1, <2>3, <3>1
  <2>. QED BY <1>1, <2>2, <2>3, <1>6
<1>9. e[Len(w \o v)] = NUL
  <2>1. Len(w) + Len(v) \in Tb!Cells /\ Len(w) + Len(v) \in Len(w) .. Len(w) + Len(v)
        /\ (Len(w) + Len(v)) - Len(w) + 1 = Len(v) + 1
    BY <1>1, <1>7, PlatformAssumption DEF Tb!TextAssumption
  <2>. QED BY <1>2, <1>3, <1>6, <2>1
<1>10. Holds(e, w \o v)
  BY <1>1, <1>6, <1>8, <1>9, PlatformAssumption DEF Holds, BeginsWith, Tb!TextAssumption
<1>. QED BY <1>4, <1>5, <1>10 DEF e, t

\* What First gives: the characters up to n.
LEMMA FirstIs ==
  ASSUME NEW v \in Seq(Char), NEW k \in Nat
  PROVE  /\ Tb!First(v, k) \in Seq(Char)
         /\ Len(Tb!First(v, k)) = IF k < Len(v) THEN k ELSE Len(v)
         /\ \A i \in 1 .. Len(Tb!First(v, k)) : Tb!First(v, k)[i] = v[i]
         /\ k >= Len(v) => Tb!First(v, k) = v
<1>1. Len(v) \in Nat /\ \A i \in 1 .. Len(v) : v[i] \in Char
  BY LenProperties, ElementOfSeq
<1> DEFINE m == IF k < Len(v) THEN k ELSE Len(v)
<1>2. m \in Nat /\ m <= Len(v)
  BY <1>1
<1>3. Tb!First(v, k) = SubSeq(v, 1, m)
  BY DEF Tb!First
<1>. HIDE DEF m
<1>4. /\ SubSeq(v, 1, m) \in Seq(Char) /\ Len(SubSeq(v, 1, m)) = m
      /\ \A i \in 1 .. m : SubSeq(v, 1, m)[i] = v[i]
  <2>1. /\ SubSeq(v, 1, m) \in Seq(Char)
        /\ Len(SubSeq(v, 1, m)) = IF 1 <= m THEN m - 1 + 1 ELSE 0
        /\ \A i \in 1 .. m - 1 + 1 : SubSeq(v, 1, m)[i] = v[1 + i - 1]
    BY <1>1, <1>2, SubSeqProperties
  <2>2. m - 1 + 1 = m /\ \A i \in 1 .. m : 1 + i - 1 = i
    BY <1>2
  <2>. QED BY <1>2, <2>1, <2>2
<1>5. k >= Len(v) => m = Len(v)
  BY <1>1 DEF m
<1>6. SubSeq(v, 1, Len(v)) = v
  BY SubSeqFull
<1>7. m = IF k < Len(v) THEN k ELSE Len(v)
  BY DEF m
<1>. QED BY <1>3, <1>4, <1>5, <1>6, <1>7

LEMMA SourceIs ==
  ASSUME NEW v \in Tb!Sources
  PROVE  v \in Seq(Char) /\ Len(v) \in 0 .. MaxSource
<1>1. PICK l \in 0 .. MaxSource : v \in [1 .. l -> Char]
  BY DEF Tb!Sources
<1>2. l \in Nat
  BY PlatformAssumption DEF Tb!TextAssumption
<1>3. v \in Seq(Char)
  BY <1>1, <1>2, SeqDef
<1>. QED BY <1>1, <1>2, <1>3, LenProperties

\* strncpy fills the buffer with as much as fits, and NULs.
LEMMA StrncpyHolds ==
  ASSUME NEW d \in Memories, NothingBehind(d), NEW v \in Seq(Char)
  PROVE  LET e == Tb!strncpy(d, v, Capacity)
         IN  e \in Memories /\ NothingBehind(e) /\ Holds(e, Tb!First(v, Capacity))
<1> DEFINE w == Tb!First(v, Capacity)
           pad == [i \in 1 .. Capacity - Len(w) |-> NUL]
           t == w \o pad
           e == Tb!strncpy(d, v, Capacity)
<1>1. Capacity \in Nat \ {0} /\ MaxSource \in Nat
  BY PlatformAssumption DEF Tb!TextAssumption
<1>2. /\ w \in Seq(Char) /\ Len(w) \in Nat /\ Len(w) <= Capacity
      /\ \A i \in 1 .. Len(w) : w[i] \in Char
  <2>1. w \in Seq(Char) /\ Len(w) = IF Capacity < Len(v) THEN Capacity ELSE Len(v)
    BY <1>1, FirstIs
  <2>2. Len(v) \in Nat
    BY LenProperties
  <2>. QED BY <1>1, <2>1, <2>2, ElementOfSeq
<1>. HIDE DEF w
<1>3. /\ pad \in Seq(Char \cup {NUL}) /\ Len(pad) = Capacity - Len(w)
      /\ \A i \in 1 .. Capacity - Len(w) : pad[i] = NUL
  <2>1. Capacity - Len(w) \in Nat
    BY <1>1, <1>2
  <2>. QED BY <2>1
<1>. HIDE DEF pad
<1>4. w \in Seq(Char \cup {NUL})
  BY <1>2, SeqMonotonic
<1>5. /\ Len(t) = Capacity
      /\ \A i \in 1 .. Capacity : t[i] = IF i <= Len(w) THEN w[i] ELSE pad[i - Len(w)]
  BY <1>1, <1>2, <1>3, <1>4, ConcatProperties
<1>6. \A i \in 1 .. Capacity : t[i] = IF i <= Len(w) THEN w[i] ELSE NUL
  BY <1>1, <1>2, <1>3, <1>5
<1>7. e = [i \in Tb!Cells |-> IF i \in 0 .. 0 + Len(t) - 1 THEN t[i - 0 + 1] ELSE d[i]]
  BY DEF Tb!strncpy, Tb!Put, Memories, w, pad
<1>. HIDE DEF t, e
<1>8. e = [i \in Tb!Cells |-> IF i \in 0 .. Capacity - 1
                              THEN IF i + 1 <= Len(w) THEN w[i + 1] ELSE NUL ELSE d[i]]
  BY <1>1, <1>2, <1>5, <1>6, <1>7
<1>9. e \in Memories
  <2>1. ASSUME NEW i \in 0 .. Capacity - 1, i + 1 <= Len(w) PROVE w[i + 1] \in Char
    BY <1>1, <1>2, <2>1
  <2>. QED BY <1>8, <2>1 DEF Memories
<1>10. NothingBehind(e)
  BY <1>1, <1>8 DEF NothingBehind, Tb!Beyond, Tb!Cells
<1>11. BeginsWith(e, w)
  <2>1. ASSUME NEW i \in 1 .. Len(w) PROVE e[i - 1] = w[i]
    <3>1. i - 1 \in 0 .. Capacity - 1 /\ i - 1 \in Tb!Cells /\ (i - 1) + 1 = i /\ i <= Len(w)
      BY <1>1, <1>2 DEF Tb!Cells
    <3>. QED BY <1>8, <3>1
  <2>. QED BY <2>1 DEF BeginsWith
<1>12. Len(w) < Capacity => e[Len(w)] = NUL
  BY <1>1, <1>2, <1>8 DEF Tb!Cells
<1>13. Holds(e, w)
  BY <1>2, <1>11, <1>12 DEF Holds
<1>. QED BY <1>9, <1>10, <1>13 DEF e, w

\* memmove to the front copies each cell before it is overwritten: after k
\* turns the first k cells are those behind them.
LEMMA MemmoveForth ==
  ASSUME NEW d \in Memories, NEW l \in 1 .. Capacity
  PROVE  Tb!memmove(d, 0, 1, l) = [i \in Tb!Cells |-> IF i < l THEN d[i + 1] ELSE d[i]]
<1> DEFINE Turns(g) ==
             g = [k \in 0 .. l |-> IF k = 0 THEN d ELSE Tb!Copy(g[k - 1], 0 + (k - 1), 1 + (k - 1))]
           Moved == CHOOSE g : Turns(g)
           After(k) == [i \in Tb!Cells |-> IF i < k THEN d[i + 1] ELSE d[i]]
           F == [k \in 0 .. l |-> After(k)]
<1>1. Tb!memmove(d, 0, 1, l) = Moved[l]
  BY DEF Tb!memmove
<1>2. Capacity \in Nat /\ l \in Nat /\ l >= 1 /\ l \in 0 .. l /\ \A i \in 0 .. l : i \in Tb!Cells
  BY PlatformAssumption DEF Tb!Cells, Tb!TextAssumption
<1>3. After(0) = d
  BY DEF Memories, Tb!Cells
<1>4. ASSUME NEW k \in 1 .. l
      PROVE  Tb!Copy(After(k - 1), 0 + (k - 1), 1 + (k - 1)) = After(k)
  <2>1. k - 1 \in Tb!Cells /\ k \in Tb!Cells /\ 0 + (k - 1) = k - 1 /\ 1 + (k - 1) = k
    BY <1>2
  <2>2. After(k - 1)[k] = d[k]
    BY <2>1
  <2>3. ASSUME NEW i \in Tb!Cells, i # k - 1 PROVE After(k - 1)[i] = After(k)[i]
    BY <1>2, <2>3 DEF Tb!Cells
  <2>4. After(k)[k - 1] = d[k]
    BY <2>1
  <2>. QED BY <2>1, <2>2, <2>3, <2>4 DEF Tb!Copy
<1>. HIDE DEF After
<1>5. Turns(F)
  <2>1. ASSUME NEW k \in 0 .. l
        PROVE  F[k] = IF k = 0 THEN d ELSE Tb!Copy(F[k - 1], 0 + (k - 1), 1 + (k - 1))
    <3>1. CASE k = 0
      BY <1>3, <3>1
    <3>2. CASE k # 0
      <4>1. k \in 1 .. l /\ k - 1 \in 0 .. l
        BY <3>2
      <4>. QED BY <1>4, <3>2, <4>1
    <3>. QED BY <3>1, <3>2
  <2>. QED BY <2>1
<1>6. Turns(Moved)
  BY <1>5, Zenon
<1>7. Moved = F
  <2>1. ASSUME NEW g, Turns(g) PROVE \A k \in 0 .. l : g[k] = F[k]
    <3> DEFINE Wrong == {k \in 0 .. l : g[k] # F[k]}
    <3>1. SUFFICES ASSUME Wrong # {} PROVE FALSE
      OBVIOUS
    <3>2. Wrong \in SUBSET Nat
      OBVIOUS
    <3>3. PICK k \in Wrong : \A j \in Wrong : k <= j
      <4>. HIDE DEF Wrong
      <4>. QED BY <3>1, <3>2, LeastNat
    <3>4. k # 0
      BY <1>3, <2>1, <3>3
    <3>5. k \in 1 .. l /\ k - 1 \in 0 .. l /\ g[k - 1] = F[k - 1]
      BY <3>3, <3>4
    <3>. QED BY <1>4, <2>1, <3>3, <3>4, <3>5
  <2>2. Moved = [k \in 0 .. l |-> Moved[k]]
    BY <1>6
  <2>3. \A k \in 0 .. l : Moved[k] = F[k]
    BY <1>6, <2>1
  <2>. QED BY <2>2, <2>3
<1>. QED BY <1>1, <1>2, <1>7 DEF After

\* memmove to the back does so from the other end: after k turns the last k
\* cells are those before them.
LEMMA MemmoveBack ==
  ASSUME NEW d \in Memories, NEW l \in 1 .. Capacity
  PROVE  Tb!memmove(d, 1, 0, l) = [i \in Tb!Cells |-> IF i \in 1 .. l THEN d[i - 1] ELSE d[i]]
<1> DEFINE Turns(g) ==
             g = [k \in 0 .. l |-> IF k = 0 THEN d ELSE Tb!Copy(g[k - 1], 1 + (l - k), 0 + (l - k))]
           Moved == CHOOSE g : Turns(g)
           After(k) == [i \in Tb!Cells |-> IF i \in l - k + 1 .. l THEN d[i - 1] ELSE d[i]]
           F == [k \in 0 .. l |-> After(k)]
<1>1. Tb!memmove(d, 1, 0, l) = Moved[l]
  BY DEF Tb!memmove
<1>2. Capacity \in Nat /\ l \in Nat /\ l >= 1 /\ l \in 0 .. l /\ \A i \in 0 .. l : i \in Tb!Cells
  BY PlatformAssumption DEF Tb!Cells, Tb!TextAssumption
<1>3. After(0) = d
  BY DEF Memories, Tb!Cells
<1>4. ASSUME NEW k \in 1 .. l
      PROVE  Tb!Copy(After(k - 1), 1 + (l - k), 0 + (l - k)) = After(k)
  <2> DEFINE to == 1 + (l - k)
  <2>1. to \in Tb!Cells /\ to - 1 \in Tb!Cells /\ 0 + (l - k) = to - 1 /\ to \in 1 .. l
        /\ l - (k - 1) + 1 = to + 1 /\ l - k + 1 = to
    BY <1>2
  <2>. HIDE DEF to
  <2>2. After(k - 1)[to - 1] = d[to - 1]
    BY <2>1
  <2>3. ASSUME NEW i \in Tb!Cells, i # to PROVE After(k - 1)[i] = After(k)[i]
    BY <1>2, <2>1, <2>3 DEF Tb!Cells
  <2>4. After(k)[to] = d[to - 1]
    BY <2>1
  <2>. QED BY <2>1, <2>2, <2>3, <2>4 DEF Tb!Copy, to
<1>. HIDE DEF After
<1>5. Turns(F)
  <2>1. ASSUME NEW k \in 0 .. l
        PROVE  F[k] = IF k = 0 THEN d ELSE Tb!Copy(F[k - 1], 1 + (l - k), 0 + (l - k))
    <3>1. CASE k = 0
      BY <1>3, <3>1
    <3>2. CASE k # 0
      <4>1. k \in 1 .. l /\ k - 1 \in 0 .. l
        BY <3>2
      <4>. QED BY <1>4, <3>2, <4>1
    <3>. QED BY <3>1, <3>2
  <2>. QED BY <2>1
<1>6. Turns(Moved)
  BY <1>5, Zenon
<1>7. Moved = F
  <2>1. ASSUME NEW g, Turns(g) PROVE \A k \in 0 .. l : g[k] = F[k]
    <3> DEFINE Wrong == {k \in 0 .. l : g[k] # F[k]}
    <3>1. SUFFICES ASSUME Wrong # {} PROVE FALSE
      OBVIOUS
    <3>2. Wrong \in SUBSET Nat
      OBVIOUS
    <3>3. PICK k \in Wrong : \A j \in Wrong : k <= j
      <4>. HIDE DEF Wrong
      <4>. QED BY <3>1, <3>2, LeastNat
    <3>4. k # 0
      BY <1>3, <2>1, <3>3
    <3>5. k \in 1 .. l /\ k - 1 \in 0 .. l /\ g[k - 1] = F[k - 1]
      BY <3>3, <3>4
    <3>. QED BY <1>4, <2>1, <3>3, <3>4, <3>5
  <2>2. Moved = [k \in 0 .. l |-> Moved[k]]
    BY <1>6
  <2>3. \A k \in 0 .. l : Moved[k] = F[k]
    BY <1>6, <2>1
  <2>. QED BY <2>2, <2>3
<1>8. l - l + 1 = 1
  BY <1>2
<1>. QED BY <1>1, <1>2, <1>7, <1>8 DEF After

LEMMA TextInit == Tb!Init => TextInv
<1>. SUFFICES ASSUME Tb!Init PROVE TextInv
  OBVIOUS
<1>. USE DEF Tb!Init, Tb!Pointer
<1>1. Capacity \in Nat /\ MaxSource \in Nat
  BY PlatformAssumption DEF Tb!TextAssumption
<1>2. Tb!TypeOK
  <2>1. ret \in {"pointer", "copied", "tried"} \X (0 .. Capacity + MaxSource)
    BY <1>1
  <2>2. meant \in Seq(Char)
    BY EmptySeq
  <2>. QED BY <2>1, <2>2 DEF Tb!TypeOK
<1>3. NothingBehind(mem)
  BY <1>1 DEF NothingBehind, Tb!Beyond, Tb!Cells
<1>4. NothingYet
  BY DEF NothingYet
<1>. QED BY <1>2, <1>3, <1>4 DEF TextInv

\* What a call leaves when the buffer holds the first k characters meant.
LEMMA TextAfter ==
  ASSUME mem' \in Memories, NothingBehind(mem'), meant' \in Seq(Char),
         NEW k \in 0 .. Len(meant'), Holds(mem', SubSeq(meant', 1, k)),
         k < Len(meant') => k >= Capacity - 1,
         NEW kind \in {"pointer", "copied", "tried"}, NEW l \in 0 .. Capacity + MaxSource,
         ret' = <<kind, l>>, cut' \in BOOLEAN,
         kind = "copied" => l = k, kind = "tried" => (l >= Capacity <=> cut')
  PROVE  TextInv'
<1>1. Tb!TypeOK'
  BY DEF Tb!TypeOK, Memories
<1>2. k \in Nat
  BY LenProperties
<1>3. HoldsFirst(k)'
  BY DEF HoldsFirst
<1>4. (ret[1] = "tried" => (ret[2] >= Capacity <=> cut))'
  OBVIOUS
<1>. QED BY <1>1, <1>2, <1>3, <1>4 DEF TextInv

\* strlcpy, safe_strcpy, strcpy and strncpy: w is what was written.
LEMMA CopiesText ==
  ASSUME TextInv, NEW v \in Tb!Sources, NEW k \in Capacity - 1 .. Capacity,
         NEW d \in Memories, NothingBehind(d), Holds(d, Tb!First(v, k)),
         NEW kind \in {"pointer", "copied", "tried"}, NEW l \in 0 .. Capacity + MaxSource,
         Tb!Copies(v, d, <<kind, l>>, k),
         kind = "copied" => l = Len(Tb!First(v, k)),
         kind = "tried" => (l >= Capacity <=> Len(v) > k)
  PROVE  TextInv'
<1>1. Capacity \in Nat \ {0} /\ MaxSource \in Nat /\ k \in Nat
  BY PlatformAssumption DEF Tb!TextAssumption
<1>2. v \in Seq(Char) /\ Len(v) \in Nat
  BY SourceIs, LenProperties
<1> DEFINE m == Len(Tb!First(v, k))
<1>3. /\ m = IF k < Len(v) THEN k ELSE Len(v)
      /\ m \in 0 .. Len(v)
      /\ m < Len(v) => m >= Capacity - 1
  BY <1>1, <1>2, FirstIs
<1>4. Tb!First(v, k) = SubSeq(v, 1, m)
  BY <1>3 DEF Tb!First
<1>. HIDE DEF m
<1>5. /\ mem' = d /\ ret' = <<kind, l>> /\ meant' = v
      /\ cut' \in BOOLEAN
      /\ cut' <=> Len(v) > k
  <2>1. /\ mem' = d /\ ret' = <<kind, l>> /\ meant' = v
        /\ cut' = (Len(v) > k)
    BY DEF Tb!Copies
  <2>2. (Len(v) > k) \in BOOLEAN
    BY <1>1, <1>2
  <2>. QED BY <2>1, <2>2, Zenon
<1>6. Holds(mem', SubSeq(meant', 1, m))
  BY <1>4, <1>5
<1>7. mem' \in Memories /\ NothingBehind(mem') /\ meant' \in Seq(Char) /\ cut' \in BOOLEAN
      /\ m \in 0 .. Len(meant')
  BY <1>2, <1>3, <1>5
<1>8. (m < Len(meant') => m >= Capacity - 1) /\ (kind = "copied" => l = m)
      /\ (kind = "tried" => (l >= Capacity <=> cut'))
  BY <1>3, <1>5 DEF m
<1>. QED BY <1>5, <1>6, <1>7, <1>8, TextAfter

\* strlcpy into the whole buffer.
LEMMA StrlcpyHolds ==
  ASSUME NEW d \in Memories, NothingBehind(d), NEW v \in Seq(Char)
  PROVE  LET e == Tb!strlcpy(d, 0, v, Capacity)
         IN  e \in Memories /\ NothingBehind(e) /\ Holds(e, Tb!First(v, Capacity - 1))
<1>1. Capacity \in Nat \ {0} /\ Capacity - 1 \in Nat
  BY PlatformAssumption DEF Tb!TextAssumption
<1> DEFINE w == Tb!First(v, Capacity - 1)
<1>2. w \in Seq(Char) /\ Len(w) \in Nat /\ Len(w) < Capacity
  <2>1. w \in Seq(Char) /\ Len(w) = IF Capacity - 1 < Len(v) THEN Capacity - 1 ELSE Len(v)
    BY <1>1, FirstIs
  <2>2. Len(v) \in Nat
    BY LenProperties
  <2>. QED BY <1>1, <2>1, <2>2
<1>3. Tb!strlcpy(d, 0, v, Capacity) = Tb!Put(d, 0, Append(w, NUL))
  BY <1>1 DEF Tb!strlcpy
<1>. HIDE DEF w
<1>4. <<>> \in Seq(Char) /\ Len(<<>>) = 0 /\ <<>> \o w = w /\ BeginsWith(d, <<>>)
  BY <1>2, ConcatEmptySeq, EmptySeq DEF BeginsWith
<1>5. LET e == Tb!Put(d, 0, Append(w, NUL))
      IN  e \in Memories /\ NothingBehind(e) /\ Holds(e, w)
  <2>1. Len(<<>>) + Len(w) < Capacity
    BY <1>2, <1>4
  <2>2. LET e == Tb!Put(d, Len(<<>>), Append(w, NUL))
        IN  e \in Memories /\ NothingBehind(e) /\ Holds(e, <<>> \o w)
    BY <1>2, <1>4, <2>1, PutBehind
  <2>. QED BY <1>4, <2>2
<1>. QED BY <1>3, <1>5 DEF w

LEMMA StringCopies ==
  ASSUME TextInv, NEW v \in Tb!Sources,
         \/ Tb!Strlcpy(v) \/ Tb!SafeStrcpy(v) \/ Tb!Strcpy(v) \/ Tb!Strncpy(v)
  PROVE  TextInv'
<1>1. Capacity \in Nat \ {0} /\ MaxSource \in Nat /\ Capacity - 1 \in Capacity - 1 .. Capacity
      /\ Capacity \in Capacity - 1 .. Capacity /\ Capacity - 1 \in Nat
  BY PlatformAssumption DEF Tb!TextAssumption
<1>2. v \in Seq(Char) /\ Len(v) \in 0 .. MaxSource
  BY SourceIs
<1>3. mem \in Memories /\ NothingBehind(mem)
  BY DEF TextInv, Tb!TypeOK, Memories
<1> DEFINE d == Tb!strlcpy(mem, 0, v, Capacity)
<1>4. d \in Memories /\ NothingBehind(d) /\ Holds(d, Tb!First(v, Capacity - 1))
  BY <1>2, <1>3, StrlcpyHolds
<1>. HIDE DEF d
<1>5. CASE Tb!Strlcpy(v)
  <2>1. Tb!Copies(v, d, <<"tried", Len(v)>>, Capacity - 1)
    BY <1>5 DEF Tb!Strlcpy, Tb!Tried, d
  <2>2. Len(v) \in 0 .. Capacity + MaxSource /\ (Len(v) >= Capacity <=> Len(v) > Capacity - 1)
    BY <1>1, <1>2
  <2>. QED BY <1>1, <1>4, <2>1, <2>2, CopiesText
<1>6. CASE Tb!SafeStrcpy(v)
  <2> DEFINE l == Len(Tb!First(v, Capacity - 1))
  <2>1. Tb!Copies(v, d, <<"copied", l>>, Capacity - 1)
    BY <1>6 DEF Tb!SafeStrcpy, Tb!Copied, d
  <2>2. l \in 0 .. Capacity + MaxSource
    BY <1>1, <1>2, FirstIs
  <2>. HIDE DEF l
  <2>3. \A kind \in {"copied"} : kind \in {"pointer", "copied", "tried"}
    OBVIOUS
  <2>. QED BY <1>1, <1>4, <2>1, <2>2, <2>3, CopiesText DEF l
<1>7. CASE Tb!Strcpy(v)
  <2>1. Len(v) <= Capacity - 1 /\ Tb!First(v, Capacity - 1) = v
    BY <1>1, <1>2, <1>7, FirstIs DEF Tb!Strcpy
  <2>2. d = Tb!Put(mem, 0, Append(v, NUL))
    BY <1>1, <2>1 DEF d, Tb!strlcpy
  <2>3. Tb!Copies(v, d, <<"pointer", 0>>, Capacity - 1)
    BY <1>7, <2>2 DEF Tb!Strcpy, Tb!Pointer
  <2>. QED BY <1>1, <1>4, <2>3, CopiesText
<1>8. CASE Tb!Strncpy(v)
  <2> DEFINE e == Tb!strncpy(mem, v, Capacity)
  <2>1. e \in Memories /\ NothingBehind(e) /\ Holds(e, Tb!First(v, Capacity))
    BY <1>2, <1>3, StrncpyHolds
  <2>2. Tb!Copies(v, e, <<"pointer", 0>>, Capacity)
    BY <1>8 DEF Tb!Strncpy, Tb!Pointer
  <2>. HIDE DEF e
  <2>. QED BY <1>1, <2>1, <2>2, CopiesText
<1>. QED BY <1>5, <1>6, <1>7, <1>8
\* A terminated buffer: its length, and what it holds.
LEMMA TerminatedHolds ==
  ASSUME TextInv, Tb!Terminated
  PROVE  LET k == Tb!strlen(mem)
             w == SubSeq(meant, 1, k)
         IN  /\ k \in Nat /\ k < Capacity /\ k <= Len(meant)
             /\ k < Len(meant) => k = Capacity - 1
             /\ w \in Seq(Char) /\ Len(w) = k /\ \A i \in 1 .. k : w[i] = meant[i]
             /\ Holds(mem, w)
<1>1. Capacity \in Nat \ {0} /\ meant \in Seq(Char) /\ mem \in Memories /\ Garbage # NUL
  BY PlatformAssumption DEF TextInv, Tb!TypeOK, Tb!TextAssumption, Memories
<1>2. Len(meant) \in Nat /\ \A i \in 1 .. Len(meant) : meant[i] \in Char
  BY <1>1, LenProperties, ElementOfSeq
<1>3. ~ NothingYet
  BY <1>1, PlatformAssumption DEF NothingYet, Tb!Terminated, Tb!Cells, Tb!TextAssumption
<1>4. PICK k \in Nat : HoldsFirst(k)
  BY <1>3 DEF TextInv
<1> DEFINE w == SubSeq(meant, 1, k)
<1>5. k <= Len(meant) /\ Holds(mem, w) /\ (k < Len(meant) => k >= Capacity - 1)
  BY <1>4 DEF HoldsFirst
<1>6. w \in Seq(Char) /\ Len(w) = k /\ \A i \in 1 .. k : w[i] = meant[i]
  <2>1. /\ SubSeq(meant, 1, k) \in Seq(Char)
        /\ Len(SubSeq(meant, 1, k)) = IF 1 <= k THEN k - 1 + 1 ELSE 0
        /\ \A i \in 1 .. k - 1 + 1 : SubSeq(meant, 1, k)[i] = meant[1 + i - 1]
    BY <1>2, <1>5, SubSeqProperties
  <2>2. k - 1 + 1 = k /\ \A i \in 1 .. k : 1 + i - 1 = i
    OBVIOUS
  <2>. QED BY <2>1, <2>2
<1>7. Len(w) < Capacity /\ Tb!strlen(mem) = Len(w)
  BY <1>1, <1>5, <1>6, StrlenOfHeld DEF Tb!Terminated
<1>. HIDE DEF w
<1>8. k < Capacity /\ Tb!strlen(mem) = k
  BY <1>6, <1>7
<1>. QED BY <1>1, <1>2, <1>5, <1>6, <1>8 DEF w

\* strlcat, strcat and strncat write the same: as much of v as fits behind
\* what is there, and a NUL.
LEMMA AppendsText ==
  ASSUME TextInv, NEW v \in Tb!Sources, Tb!Terminated,
         NEW d, d = Tb!Put(mem, Tb!strlen(mem),
                           Append(Tb!First(v, Capacity - Tb!strlen(mem) - 1), NUL)),
         NEW kind \in {"pointer", "tried"}, NEW l \in 0 .. Capacity + MaxSource,
         Tb!Appends(v, d, <<kind, l>>),
         kind = "tried" => (l >= Capacity <=> Tb!strlen(mem) + Len(v) > Capacity - 1)
  PROVE  TextInv'
<1> DEFINE k == Tb!strlen(mem)
           w == SubSeq(meant, 1, k)
           room == Capacity - k - 1
           u == Tb!First(v, room)
<1>1. /\ k \in Nat /\ k < Capacity /\ k <= Len(meant)
      /\ k < Len(meant) => k = Capacity - 1
      /\ w \in Seq(Char) /\ Len(w) = k /\ \A i \in 1 .. k : w[i] = meant[i]
      /\ Holds(mem, w)
  BY TerminatedHolds
<1>2. Capacity \in Nat \ {0} /\ MaxSource \in Nat /\ meant \in Seq(Char) /\ mem \in Memories
      /\ NothingBehind(mem)
  BY PlatformAssumption DEF TextInv, Tb!TypeOK, Tb!TextAssumption, Memories
<1>3. v \in Seq(Char) /\ Len(v) \in Nat /\ Len(meant) \in Nat
  BY <1>2, SourceIs, LenProperties
<1>4. /\ mem' = d /\ ret' = <<kind, l>> /\ meant' = meant \o v
      /\ cut' \in BOOLEAN
      /\ cut' <=> k + Len(v) > Capacity - 1
  <2>1. /\ mem' = d /\ ret' = <<kind, l>> /\ meant' = meant \o v
        /\ cut' = (k + Len(v) > Capacity - 1)
    BY DEF Tb!Appends
  <2>2. (k + Len(v) > Capacity - 1) \in BOOLEAN
    BY <1>1, <1>2, <1>3
  <2>. QED BY <2>1, <2>2, Zenon
<1>5. d = Tb!Put(mem, k, Append(u, NUL))
  OBVIOUS
<1>6. kind = "tried" => (l >= Capacity <=> k + Len(v) > Capacity - 1)
  OBVIOUS
<1>. HIDE DEF k
<1>7. /\ u \in Seq(Char) /\ Len(u) = IF room < Len(v) THEN room ELSE Len(v)
      /\ \A i \in 1 .. Len(u) : u[i] = v[i]
      /\ Len(u) \in Nat /\ Len(u) <= Len(v) /\ Len(u) <= room
  <2>1. room \in Nat
    BY <1>1, <1>2
  <2>2. /\ u \in Seq(Char) /\ Len(u) = IF room < Len(v) THEN room ELSE Len(v)
        /\ \A i \in 1 .. Len(u) : u[i] = v[i]
    BY <1>3, <2>1, FirstIs
  <2>. QED BY <1>3, <2>1, <2>2
<1>. HIDE DEF w, u
<1>8. d \in Memories /\ NothingBehind(d) /\ Holds(d, w \o u)
  <2>1. Len(w) + Len(u) < Capacity /\ BeginsWith(mem, w)
    BY <1>1, <1>2, <1>7 DEF Holds
  <2>. QED BY <1>1, <1>2, <1>5, <1>7, <2>1, PutBehind
<1> DEFINE m == k + Len(u)
<1>9. /\ meant' \in Seq(Char) /\ Len(meant') = Len(meant) + Len(v)
      /\ \A i \in 1 .. Len(meant) + Len(v) :
           meant'[i] = IF i <= Len(meant) THEN meant[i] ELSE v[i - Len(meant)]
  BY <1>2, <1>3, <1>4, ConcatProperties
<1>10. m \in 0 .. Len(meant') /\ (m < Len(meant') => m >= Capacity - 1)
  <2>1. m \in Nat /\ m <= Len(meant')
    BY <1>1, <1>3, <1>7, <1>9
  <2>2. CASE room < Len(v)
    BY <1>1, <1>2, <1>7, <2>1, <2>2
  <2>3. CASE ~ (room < Len(v))
    <3>1. Len(u) = Len(v)
      BY <1>7, <2>3
    <3>2. k < Len(meant) \/ m = Len(meant')
      <4>1. k \in Nat /\ Len(meant) \in Nat /\ k <= Len(meant)
        BY <1>1
      <4>2. Len(meant') = Len(meant) + Len(v)
        BY <1>9
      <4>3. m = k + Len(v)
        BY <3>1
      <4>4. CASE k = Len(meant)
        BY <4>2, <4>3, <4>4
      <4>5. CASE k # Len(meant)
        BY <4>1, <4>5
      <4>. QED BY <4>4, <4>5
    <3>. QED BY <1>1, <1>2, <1>7, <2>1, <3>2
  <2>. QED BY <2>2, <2>3
<1>11. w \o u = SubSeq(meant', 1, m)
  <2>1. /\ w \o u \in Seq(Char) /\ Len(w \o u) = m
        /\ \A i \in 1 .. m : (w \o u)[i] = IF i <= k THEN w[i] ELSE u[i - k]
    <3>1. /\ w \o u \in Seq(Char) /\ Len(w \o u) = Len(w) + Len(u)
          /\ \A i \in 1 .. Len(w) + Len(u) :
               (w \o u)[i] = IF i <= Len(w) THEN w[i] ELSE u[i - Len(w)]
      <4>1. w \in Seq(Char) /\ u \in Seq(Char)
        BY <1>1, <1>7
      <4>. QED BY <4>1, ConcatProperties
    <3>2. Len(w) = k
      BY <1>1
    <3>. QED BY <3>1, <3>2
  <2>2. /\ SubSeq(meant', 1, m) \in Seq(Char) /\ Len(SubSeq(meant', 1, m)) = m
        /\ \A i \in 1 .. m : SubSeq(meant', 1, m)[i] = meant'[i]
    <3>1. m \in Nat /\ \A i \in 1 .. m : meant'[i] \in Char
      BY <1>9, <1>10, ElementOfSeq, LenProperties
    <3>2. /\ SubSeq(meant', 1, m) \in Seq(Char)
          /\ Len(SubSeq(meant', 1, m)) = IF 1 <= m THEN m - 1 + 1 ELSE 0
          /\ \A i \in 1 .. m - 1 + 1 : SubSeq(meant', 1, m)[i] = meant'[1 + i - 1]
      BY <3>1, SubSeqProperties
    <3>3. m - 1 + 1 = m /\ \A i \in 1 .. m : 1 + i - 1 = i
      BY <3>1
    <3>. QED BY <3>1, <3>2, <3>3
  <2>3. ASSUME NEW i \in 1 .. m PROVE (w \o u)[i] = meant'[i]
    <3>1. CASE i <= k
      <4>1. (w \o u)[i] = meant[i]
        BY <1>1, <2>1, <3>1
      <4>2. meant'[i] = meant[i]
        BY <1>1, <1>3, <1>9, <3>1
      <4>. QED BY <4>1, <4>2
    <3>2. CASE i > k
      <4>1. k = Len(meant) /\ i - k \in 1 .. Len(u)
        BY <1>1, <1>2, <1>3, <1>7, <3>2
      <4>2. (w \o u)[i] = v[i - k]
        BY <1>1, <1>7, <2>1, <3>2, <4>1
      <4>3. meant'[i] = v[i - k]
        BY <1>1, <1>3, <1>7, <1>9, <3>2, <4>1
      <4>. QED BY <4>2, <4>3
    <3>. QED BY <1>1, <3>1, <3>2
  <2>. HIDE DEF m
  <2>. QED BY <2>1, <2>2, <2>3, SeqEqual
<1>. HIDE DEF m
<1>12. Holds(mem', SubSeq(meant', 1, m)) /\ mem' \in Memories /\ NothingBehind(mem')
  BY <1>4, <1>8, <1>11
<1>13. kind \in {"pointer", "copied", "tried"} /\ (kind = "copied" => l = m)
  OBVIOUS
<1>. QED BY <1>4, <1>6, <1>9, <1>10, <1>12, <1>13, TextAfter

LEMMA StringAppends ==
  ASSUME TextInv, NEW v \in Tb!Sources,
         Tb!Strlcat(v) \/ Tb!Strcat(v) \/ Tb!Strncat(v)
  PROVE  TextInv'
<1> DEFINE k == Tb!strlen(mem)
           d == Tb!Put(mem, k, Append(Tb!First(v, Capacity - k - 1), NUL))
<1>1. Tb!Terminated
  BY DEF Tb!Strlcat, Tb!Strcat, Tb!Strncat
<1>2. k \in Nat /\ k < Capacity
  BY <1>1, TerminatedHolds
<1>3. Capacity \in Nat \ {0} /\ MaxSource \in Nat /\ v \in Seq(Char) /\ Len(v) \in 0 .. MaxSource
  BY PlatformAssumption, SourceIs DEF Tb!TextAssumption
<1>4. CASE Tb!Strlcat(v)
  <2>1. Tb!strlcat(mem, v, Capacity) = d
    <3>1. ~ (k >= Capacity) /\ Capacity - k # 0
      BY <1>2, <1>3
    <3>. QED BY <3>1 DEF Tb!strlcat, Tb!strlcpy
  <2>2. Tb!strlcat_Returns(mem, v, Capacity) = k + Len(v)
    BY <1>2, <1>3 DEF Tb!strlcat_Returns
  <2>3. Tb!Appends(v, d, <<"tried", k + Len(v)>>)
    BY <1>4, <2>1, <2>2 DEF Tb!Strlcat, Tb!Tried
  <2>4. k + Len(v) \in 0 .. Capacity + MaxSource /\ (k + Len(v) >= Capacity <=> k + Len(v) > Capacity - 1)
    BY <1>2, <1>3
  <2>. QED BY <1>1, <2>3, <2>4, AppendsText
<1>5. CASE Tb!Strcat(v)
  <2>1. Tb!First(v, Capacity - k - 1) = v
    BY <1>2, <1>3, <1>5, FirstIs DEF Tb!Strcat
  <2>2. Tb!Appends(v, d, <<"pointer", 0>>)
    BY <1>5, <2>1 DEF Tb!Strcat, Tb!strcat, Tb!Pointer
  <2>. QED BY <1>1, <1>3, <2>2, AppendsText
<1>6. CASE Tb!Strncat(v)
  <2>1. Tb!Appends(v, d, <<"pointer", 0>>)
    BY <1>6 DEF Tb!Strncat, Tb!strncat, Tb!Pointer
  <2>. QED BY <1>1, <1>3, <2>1, AppendsText
<1>. QED BY <1>4, <1>5, <1>6
LEMMA FirstIsLost == ASSUME TextInv, Tb!DropFirst PROVE TextInv'
<1> DEFINE k == Tb!strlen(mem)
           w == SubSeq(meant, 1, k)
<1>1. /\ k \in Nat /\ k < Capacity /\ k <= Len(meant)
      /\ w \in Seq(Char) /\ Len(w) = k
      /\ Holds(mem, w)
  BY TerminatedHolds DEF Tb!DropFirst
<1>2. Capacity \in Nat \ {0} /\ MaxSource \in Nat /\ meant \in Seq(Char) /\ mem \in Memories
      /\ NothingBehind(mem)
  BY PlatformAssumption DEF TextInv, Tb!TypeOK, Tb!TextAssumption, Memories
<1>3. Tb!First(meant, k) = w
  <2>1. Len(meant) \in Nat
    BY <1>2, LenProperties
  <2>2. (IF k < Len(meant) THEN k ELSE Len(meant)) = k
    BY <1>1, <2>1
  <2>. QED BY <2>2 DEF Tb!First
<1>4. k > 0 /\ mem' = Tb!memmove(mem, 0, 1, k) /\ meant' = Tail(w) /\ ret' = <<"pointer", 0>>
      /\ cut' = FALSE
  BY <1>3 DEF Tb!DropFirst, Tb!Pointer
<1>. HIDE DEF k
<1>5. mem' = [i \in Tb!Cells |-> IF i < k THEN mem[i + 1] ELSE mem[i]]
  <2>1. k \in 1 .. Capacity
    BY <1>1, <1>2, <1>4
  <2>. QED BY <1>2, <1>4, <2>1, MemmoveForth
<1>. HIDE DEF w
<1>6. /\ meant' \in Seq(Char) /\ Len(meant') = k - 1
      /\ \A i \in 1 .. k - 1 : meant'[i] = w[i + 1]
  <2>1. w # <<>>
    BY <1>1, <1>4, EmptySeq
  <2>. QED BY <1>1, <1>4, <2>1, HeadTailProperties
<1>7. mem' \in Memories
  <2>1. \A i \in Tb!Cells : i < k => i + 1 \in Tb!Cells
    BY <1>1, <1>2 DEF Tb!Cells
  <2>. QED BY <1>2, <1>5, <2>1 DEF Memories
<1>8. NothingBehind(mem')
  BY <1>1, <1>2, <1>5 DEF NothingBehind, Tb!Beyond, Tb!Cells
<1>9. Holds(mem', meant')
  <2>1. ASSUME NEW i \in 1 .. k - 1 PROVE mem'[i - 1] = meant'[i]
    <3>1. i - 1 \in Tb!Cells /\ i - 1 < k /\ (i - 1) + 1 = i /\ i + 1 \in 1 .. k /\ (i + 1) - 1 = i
      BY <1>1, <1>2 DEF Tb!Cells
    <3>2. mem[i] = w[i + 1]
      BY <1>1, <3>1 DEF Holds, BeginsWith
    <3>. QED BY <1>5, <1>6, <3>1, <3>2
  <2>2. mem'[k - 1] = NUL
    <3>1. k - 1 \in Tb!Cells /\ k - 1 < k /\ (k - 1) + 1 = k
      BY <1>1, <1>2, <1>4 DEF Tb!Cells
    <3>2. mem[k] = NUL
      BY <1>1 DEF Holds
    <3>. QED BY <1>5, <3>1, <3>2
  <2>. QED BY <1>1, <1>2, <1>6, <2>1, <2>2 DEF Holds, BeginsWith
<1>10. SubSeq(meant', 1, Len(meant')) = meant' /\ Len(meant') \in 0 .. Len(meant')
  BY <1>6, SubSeqFull, LenProperties
<1>. QED
  <2>1. 0 \in 0 .. Capacity + MaxSource /\ ~ (Len(meant') < Len(meant'))
    BY <1>1, <1>2, <1>6
  <2>2. cut' \in BOOLEAN
    BY <1>4, Zenon
  <2>. QED BY <2>2, <1>4, <1>6, <1>7, <1>8, <1>9, <1>10, <2>1, TextAfter

LEMMA FirstIsPut == ASSUME TextInv, NEW c \in Char, Tb!PutFirst(c) PROVE TextInv'
<1> DEFINE k == Tb!strlen(mem)
           moved == Tb!memmove(mem, 1, 0, k + 1)
<1>1. /\ k \in Nat /\ k < Capacity /\ k <= Len(meant)
      /\ k < Len(meant) => k = Capacity - 1
      /\ Holds(mem, SubSeq(meant, 1, k))
  BY TerminatedHolds DEF Tb!PutFirst
<1>2. Capacity \in Nat \ {0} /\ MaxSource \in Nat /\ meant \in Seq(Char) /\ mem \in Memories
      /\ NothingBehind(mem) /\ Len(meant) \in Nat
  BY PlatformAssumption, LenProperties DEF TextInv, Tb!TypeOK, Tb!TextAssumption, Memories
<1>3. /\ k + 1 < Capacity /\ mem' = Tb!Put(moved, 0, <<c>>) /\ meant' = <<c>> \o meant
      /\ ret' = <<"pointer", 0>> /\ cut' = FALSE
  BY DEF Tb!PutFirst, Tb!Pointer
<1>. HIDE DEF k
<1>4. k = Len(meant) /\ Holds(mem, meant)
  <2>1. k = Len(meant)
    BY <1>1, <1>2, <1>3
  <2>. QED BY <1>1, <1>2, <2>1, SubSeqFull
<1>5. moved = [i \in Tb!Cells |-> IF i \in 1 .. k + 1 THEN mem[i - 1] ELSE mem[i]]
  <2>1. k + 1 \in 1 .. Capacity
    BY <1>1, <1>2, <1>3
  <2>. QED BY <1>2, <2>1, MemmoveBack
<1>6. mem' = [i \in Tb!Cells |-> IF i = 0 THEN c ELSE IF i \in 1 .. k + 1 THEN mem[i - 1] ELSE mem[i]]
  <2>1. /\ DOMAIN moved = Tb!Cells /\ Len(<<c>>) = 1 /\ <<c>>[1] = c
        /\ \A i \in Tb!Cells : i \in Nat
    BY <1>2, <1>5 DEF Tb!Cells
  <2>. HIDE DEF moved
  <2>2. mem' = [i \in Tb!Cells |-> IF i \in 0 .. 0 + Len(<<c>>) - 1 THEN <<c>>[i - 0 + 1] ELSE moved[i]]
    BY <1>3, <2>1 DEF Tb!Put
  <2>3. ASSUME NEW i \in Tb!Cells
        PROVE  mem'[i] = IF i = 0 THEN c ELSE moved[i]
    BY <2>1, <2>2
  <2>4. mem' = [i \in Tb!Cells |-> IF i = 0 THEN c ELSE moved[i]]
    BY <2>2, <2>3
  <2>. QED BY <1>5, <2>4
<1>. HIDE DEF moved
<1>7. mem' \in Memories
  <2>1. \A i \in Tb!Cells : i \in 1 .. k + 1 => i - 1 \in Tb!Cells
    BY <1>2 DEF Tb!Cells
  <2>. QED BY <1>2, <1>6, <2>1 DEF Memories
<1>8. NothingBehind(mem')
  BY <1>1, <1>2, <1>3, <1>6 DEF NothingBehind, Tb!Beyond, Tb!Cells
<1>9. /\ meant' \in Seq(Char) /\ Len(meant') = k + 1
      /\ \A i \in 1 .. k + 1 : meant'[i] = IF i = 1 THEN c ELSE meant[i - 1]
  <2>1. <<c>> \in Seq(Char) /\ Len(<<c>>) = 1 /\ <<c>>[1] = c
    OBVIOUS
  <2>2. /\ meant' \in Seq(Char) /\ Len(meant') = Len(<<c>>) + Len(meant)
        /\ \A i \in 1 .. Len(<<c>>) + Len(meant) :
             meant'[i] = IF i <= Len(<<c>>) THEN <<c>>[i] ELSE meant[i - Len(<<c>>)]
    BY <1>2, <1>3, <2>1, ConcatProperties
  <2>3. /\ meant' \in Seq(Char) /\ Len(meant') = 1 + k
        /\ \A i \in 1 .. 1 + k : meant'[i] = IF i <= 1 THEN <<c>>[i] ELSE meant[i - 1]
    BY <1>4, <2>1, <2>2
  <2>. QED BY <1>1, <2>1, <2>3
<1>10. Holds(mem', meant')
  <2>1. ASSUME NEW i \in 1 .. k + 1 PROVE mem'[i - 1] = meant'[i]
    <3>1. i - 1 \in Tb!Cells /\ i \in Int
      BY <1>1, <1>2, <1>3 DEF Tb!Cells
    <3>2. CASE i = 1
      BY <1>6, <1>9, <3>1, <3>2
    <3>3. CASE i # 1
      <4>1. i - 1 \in 1 .. k + 1 /\ i - 1 # 0 /\ i - 1 \in 1 .. Len(meant)
        BY <1>1, <1>4, <3>3
      <4>2. mem[(i - 1) - 1] = meant[i - 1]
        BY <1>4, <4>1 DEF Holds, BeginsWith
      <4>. QED BY <1>6, <1>9, <3>1, <3>3, <4>1, <4>2
    <3>. QED BY <3>2, <3>3
  <2>2. mem'[k + 1] = NUL
    <3>1. k + 1 \in Tb!Cells /\ k + 1 \in 1 .. k + 1 /\ k + 1 # 0 /\ (k + 1) - 1 = k
      BY <1>1, <1>2, <1>3 DEF Tb!Cells
    <3>2. mem[k] = NUL
      BY <1>1, <1>4 DEF Holds
    <3>. QED BY <1>6, <3>1, <3>2
  <2>3. Len(meant') <= Capacity /\ (Len(meant') < Capacity => mem'[Len(meant')] = NUL)
    <3>1. Len(meant') = k + 1 /\ k + 1 <= Capacity
      BY <1>1, <1>2, <1>3, <1>9
    <3>. QED BY <3>1, <2>2
  <2>4. BeginsWith(mem', meant')
    <3>1. \A i \in 1 .. Len(meant') : mem'[i - 1] = meant'[i]
      BY <1>9, <2>1
    <3>. QED BY <3>1 DEF BeginsWith
  <2>. QED BY <2>3, <2>4 DEF Holds
<1>11. SubSeq(meant', 1, Len(meant')) = meant' /\ Len(meant') \in 0 .. Len(meant')
  BY <1>9, SubSeqFull, LenProperties
<1>. QED
  <2>1. 0 \in 0 .. Capacity + MaxSource /\ ~ (Len(meant') < Len(meant'))
    BY <1>1, <1>2, <1>9
  <2>2. cut' \in BOOLEAN
    BY <1>3, Zenon
  <2>. QED BY <2>2, <1>3, <1>7, <1>8, <1>9, <1>10, <1>11, <2>1, TextAfter

LEMMA TextStays == TextInv /\ UNCHANGED texts => TextInv'
BY DEF TextInv, texts, Tb!TypeOK, NothingBehind, NothingYet, HoldsFirst, Holds, BeginsWith

LEMMA TextNext == TextInv /\ Tb!Next => TextInv'
<1>. SUFFICES ASSUME TextInv, Tb!Next PROVE TextInv'
  OBVIOUS
<1>1. CASE \E v \in Tb!Sources :
             \/ Tb!Strlcpy(v) \/ Tb!SafeStrcpy(v) \/ Tb!Strcpy(v) \/ Tb!Strncpy(v)
             \/ Tb!Strlcat(v) \/ Tb!Strcat(v) \/ Tb!Strncat(v)
  BY <1>1, StringCopies, StringAppends
<1>2. CASE Tb!DropFirst
  BY <1>2, FirstIsLost
<1>3. CASE \E c \in Char : Tb!PutFirst(c)
  BY <1>3, FirstIsPut
<1>. QED BY <1>1, <1>2, <1>3 DEF Tb!Next

\* The buffer holds the longest prefix of what was meant.
LEMMA TextHolds == TextInv => LongestPrefix
<1>. SUFFICES ASSUME TextInv PROVE LongestPrefix
  OBVIOUS
<1>1. Capacity \in Nat \ {0} /\ MaxSource \in Nat /\ Garbage # NUL /\ meant \in Seq(Char)
      /\ mem \in Memories /\ Len(meant) \in Nat /\ \A i \in 1 .. Len(meant) : meant[i] \in Char
  BY PlatformAssumption, LenProperties, ElementOfSeq DEF TextInv, Tb!TypeOK, Tb!TextAssumption, Memories
<1>2. CASE NothingYet
  <2>1. ~ Tb!Written
    BY <1>1, <1>2 DEF NothingYet, Tb!Written, Tb!Cells
  <2>. QED BY <1>2, <2>1 DEF TextInv, NothingBehind, NothingYet, LongestPrefix, Tb!LongestPrefix
<1>3. ASSUME NEW k \in Nat, HoldsFirst(k)
      PROVE  LongestPrefix
  <2> DEFINE w == SubSeq(meant, 1, k)
  <2>1. k <= Len(meant) /\ Holds(mem, w) /\ (k < Len(meant) => k >= Capacity - 1)
        /\ (ret[1] = "copied" => ret[2] = k)
    BY <1>3 DEF HoldsFirst
  <2>2. w \in Seq(Char) /\ Len(w) = k
    <3>1. /\ SubSeq(meant, 1, k) \in Seq(Char)
          /\ Len(SubSeq(meant, 1, k)) = IF 1 <= k THEN k - 1 + 1 ELSE 0
      BY <1>1, <2>1, SubSeqProperties
    <3>. QED BY <3>1
  <2>. HIDE DEF w
  <2>3. (IF Tb!Terminated THEN Tb!strlen(mem) ELSE Capacity) = k
    <3>1. (k < Capacity => Tb!strlen(mem) = k) /\ (Tb!Terminated <=> k < Capacity)
      BY <1>1, <2>1, <2>2, StrlenOfHeld DEF Tb!Terminated
    <3>2. k <= Capacity
      BY <2>1, <2>2 DEF Holds
    <3>. QED BY <1>1, <3>1, <3>2
  <2>4. Tb!Content = w
    <3>1. Tb!Content = [i \in 1 .. k |-> mem[i - 1]]
      BY <2>3 DEF Tb!Content
    <3>2. w = [i \in 1 .. k |-> w[i]]
      BY <2>2, LenProperties
    <3>3. \A i \in 1 .. k : mem[i - 1] = w[i]
      BY <2>1, <2>2 DEF Holds, BeginsWith
    <3>. QED BY <3>1, <3>2, <3>3
  <2>5. Tb!IsPrefix(w, meant)
    <3>1. SubSeq(w, 1, Len(w)) = w
      BY <2>2, SubSeqFull
    <3>. QED BY <2>1, <2>2, <3>1 DEF Tb!IsPrefix, w
  <2>6. Len(w) < Len(meant) => Len(w) >= Capacity - 1
    BY <2>1, <2>2
  <2>7. ret[1] = "copied" => ret[2] = Len(w)
    BY <2>1, <2>2
  <2>. QED BY <2>4, <2>5, <2>6, <2>7 DEF TextInv, NothingBehind, LongestPrefix, Tb!LongestPrefix
<1>. QED BY <1>2, <1>3 DEF TextInv

\* Whatever the order of the calls the buffer holds the longest prefix of
\* what the program spelled out, for any size of the buffer and any sources.
THEOREM PrefixIsKept == MCSpec => []LongestPrefix
<1>1. MCInit => TextInv
  BY TextInit DEF MCInit
<1>2. TextInv /\ [MCNext]_<<vars, part, allocator, texts, fields, formats, lines, wire>> => TextInv'
  BY TextNext, TextStays DEF MCNext
<1>. QED BY <1>1, <1>2, TextHolds, PTL DEF MCSpec

-----------------------------------------------------------------------------
(* LineInput: the line and the keys it is made of.                         *)

\* after gives the line after each of the first m keys.
LinesAfter(after, m, keys, room) ==
  after = [k \in 0 .. m |-> IF k = 0 THEN <<>> ELSE Li!Key(after[k - 1], keys[k], room)]

\* There is such a function, for any number of keys.
LEMMA LinesExist ==
  ASSUME NEW keys, NEW room, NEW m \in Nat
  PROVE  \E after : LinesAfter(after, m, keys, room)
<1> DEFINE Without == {k \in 0 .. m : ~ \E after : LinesAfter(after, k, keys, room)}
<1>1. SUFFICES ASSUME Without # {} PROVE FALSE
  OBVIOUS
<1>2. Without \in SUBSET Nat
  OBVIOUS
<1>3. PICK k \in Without : \A j \in Without : k <= j
  <2>. HIDE DEF Without
  <2>. QED BY <1>1, <1>2, LeastNat
<1>4. k # 0
  <2>1. LinesAfter([j \in 0 .. 0 |-> <<>>], 0, keys, room)
    BY DEF LinesAfter
  <2>. QED BY <1>3, <2>1
<1>5. k - 1 \in 0 .. m /\ k - 1 \notin Without /\ k \in 1 .. m
  BY <1>3, <1>4
<1>6. PICK f : LinesAfter(f, k - 1, keys, room)
  BY <1>5
<1> DEFINE g == [j \in 0 .. k |-> IF j = k THEN Li!Key(f[k - 1], keys[k], room) ELSE f[j]]
<1>7. ASSUME NEW j \in 0 .. k
      PROVE  g[j] = IF j = 0 THEN <<>> ELSE Li!Key(g[j - 1], keys[j], room)
  <2>1. CASE j = 0
    BY <1>5, <1>6, <2>1 DEF LinesAfter
  <2>2. CASE j = k
    <3>1. k # 0 /\ k - 1 \in 0 .. k /\ k - 1 # k
      BY <1>5
    <3>. QED BY <2>2, <3>1
  <2>3. CASE j # 0 /\ j # k
    <3>1. j \in 0 .. k - 1 /\ j - 1 \in 0 .. k - 1 /\ j - 1 \in 0 .. k /\ j - 1 # k
      BY <1>5, <2>3
    <3>2. f[j] = Li!Key(f[j - 1], keys[j], room)
      BY <1>6, <2>3, <3>1 DEF LinesAfter
    <3>. QED BY <2>3, <3>1, <3>2
  <2>. QED BY <2>1, <2>2, <2>3
<1>8. LinesAfter(g, k, keys, room)
  BY <1>7 DEF LinesAfter
<1>. QED BY <1>3, <1>8

\* One key more makes one step more; what keys behind do does not matter.
LEMMA LinesAgree ==
  ASSUME NEW keys, NEW more, NEW room, NEW m \in Nat, NEW l \in Nat, m <= l,
         \A i \in 1 .. m : more[i] = keys[i],
         NEW f, NEW g, LinesAfter(f, m, keys, room), LinesAfter(g, l, more, room)
  PROVE  \A k \in 0 .. m : g[k] = f[k]
<1> DEFINE Wrong == {k \in 0 .. m : g[k] # f[k]}
<1>1. SUFFICES ASSUME Wrong # {} PROVE FALSE
  OBVIOUS
<1>2. Wrong \in SUBSET Nat
  OBVIOUS
<1>3. PICK k \in Wrong : \A j \in Wrong : k <= j
  <2>. HIDE DEF Wrong
  <2>. QED BY <1>1, <1>2, LeastNat
<1>4. k \in 0 .. m /\ k \in 0 .. l
  BY <1>3
<1>5. f[k] = (IF k = 0 THEN <<>> ELSE Li!Key(f[k - 1], keys[k], room))
  BY <1>4 DEF LinesAfter
<1>6. g[k] = (IF k = 0 THEN <<>> ELSE Li!Key(g[k - 1], more[k], room))
  BY <1>4 DEF LinesAfter
<1>7. k # 0
  BY <1>3, <1>5, <1>6
<1>8. k \in 1 .. m /\ k - 1 \in 0 .. m /\ k - 1 \notin Wrong
  BY <1>3, <1>7
<1>. QED BY <1>3, <1>5, <1>6, <1>7, <1>8

\* What the keys make, one by one.
LEMMA EditedStep ==
  ASSUME NEW keys \in Seq(Li!Keys), NEW c \in Li!Keys, NEW room
  PROVE  /\ Li!Edited(<<>>, room) = <<>>
         /\ Li!Edited(Append(keys, c), room) = Li!Key(Li!Edited(keys, room), c, room)
<1> DEFINE After(ks) == CHOOSE after : LinesAfter(after, Len(ks), ks, room)
<1>1. ASSUME NEW ks PROVE Li!Edited(ks, room) = After(ks)[Len(ks)]
  BY DEF Li!Edited, LinesAfter
<1>2. ASSUME NEW ks, Len(ks) \in Nat PROVE LinesAfter(After(ks), Len(ks), ks, room)
  <2>1. \E after : LinesAfter(after, Len(ks), ks, room)
    BY <1>2, LinesExist
  <2>. QED BY <2>1
<1>. HIDE DEF After
<1>3. Len(<<>>) = 0
  BY EmptySeq
<1>4. Li!Edited(<<>>, room) = <<>>
  <2>1. LinesAfter(After(<<>>), 0, <<>>, room)
    BY <1>2, <1>3
  <2>2. After(<<>>)[0] = <<>>
    BY <2>1 DEF LinesAfter
  <2>. QED BY <1>1, <1>3, <2>2
<1> DEFINE more == Append(keys, c)
           m == Len(keys)
<1>5. m \in Nat /\ Len(more) = m + 1 /\ more[m + 1] = c /\ \A i \in 1 .. m : more[i] = keys[i]
  BY LenProperties, AppendProperties
<1>. HIDE DEF more, m
<1>6. LinesAfter(After(keys), m, keys, room) /\ LinesAfter(After(more), m + 1, more, room)
  BY <1>2, <1>5 DEF m
<1>7. After(more)[m] = After(keys)[m]
  <2> DEFINE l == m + 1
             F == After(keys)
             G == After(more)
  <2>1. m \in Nat /\ l \in Nat /\ m <= l /\ m \in 0 .. m
    BY <1>5
  <2>2. LinesAfter(F, m, keys, room) /\ LinesAfter(G, l, more, room)
    BY <1>6
  <2>. HIDE DEF F, G, l
  <2>3. \A i \in 1 .. m : more[i] = keys[i]
    BY <1>5
  <2>4. \A k \in 0 .. m : G[k] = F[k]
    BY <2>1, <2>2, <2>3, LinesAgree
  <2>. QED BY <2>1, <2>4 DEF F, G
<1>8. After(more)[m + 1] = Li!Key(After(more)[m], c, room)
  <2>1. m + 1 \in 0 .. m + 1 /\ m + 1 # 0 /\ (m + 1) - 1 = m
    BY <1>5
  <2>2. After(more)[m + 1] = Li!Key(After(more)[(m + 1) - 1], more[m + 1], room)
    BY <1>6, <2>1 DEF LinesAfter
  <2>. QED BY <1>5, <2>1, <2>2
<1>9. Li!Edited(more, room) = Li!Key(Li!Edited(keys, room), c, room)
  BY <1>1, <1>5, <1>7, <1>8 DEF m
<1>. QED BY <1>4, <1>9 DEF more

\* While a line is read: the buffer begins with what the user sees, which the
\* keys read so far make.
LineSoFar ==
  /\ maxlen > 0 /\ n = Len(screen) /\ n < maxlen
  /\ n <= Len(buf) /\ \A i \in 1 .. n : buf[i] = screen[i]
  /\ screen = Li!Edited(SubSeq(kept, 1, read), maxlen)

\* The line has been ended by the key read last, and by a terminator.
LineDone ==
  /\ n < Len(buf) /\ buf[n + 1] = NUL
  /\ {i \in 1 .. read : kept[i] = LF} = {read}

LineInv ==
  /\ Li!TypeOK
  /\ kbd0 = SubSeq(kept, read + 1, Len(kept))
  /\ Len(buf) <= maxlen
  /\ pc \in {"reading", "ended"} => LineSoFar
  /\ pc = "reading" => \A i \in 1 .. read : kept[i] # LF
  /\ pc = "ended" => LineDone

LineTypes == Printable \cup {NUL}

LEMMA LineInit == Li!Init => LineInv
<1>. SUFFICES ASSUME Li!Init PROVE LineInv
  OBVIOUS
<1>1. /\ kbd0 = <<>> /\ event0 = 0 /\ maxlen = 0 /\ buf = <<>> /\ screen = <<>> /\ kept = <<>>
      /\ n = 0 /\ read = 0 /\ pc = "free" /\ Len(<<>>) = 0
  BY EmptySeq DEF Li!Init
<1>2. Li!TypeOK
  BY <1>1, EmptySeq DEF Li!TypeOK
<1>3. SubSeq(kept, read + 1, Len(kept)) = <<>>
  BY <1>1, SubSeqEmpty
<1>. QED BY <1>1, <1>2, <1>3 DEF LineInv

\* buf[i] = c, with i in the buffer or right behind what was written.
LEMMA StoreIs ==
  ASSUME NEW S, NEW b \in Seq(S), NEW i \in 0 .. Len(b), NEW c \in S
  PROVE  /\ Li!Store(b, i, c) \in Seq(S)
         /\ Len(Li!Store(b, i, c)) = IF i < Len(b) THEN Len(b) ELSE i + 1
         /\ Li!Store(b, i, c)[i + 1] = c
         /\ \A j \in 1 .. Len(b) : j # i + 1 => Li!Store(b, i, c)[j] = b[j]
<1> DEFINE m == IF i < Len(b) THEN Len(b) ELSE i + 1
           g == [j \in 1 .. m |-> IF j = i + 1 THEN c ELSE b[j]]
<1>1. Len(b) \in Nat /\ m \in Nat /\ i + 1 \in 1 .. m /\ Len(b) <= m /\ i \in Nat
  BY LenProperties
<1>2. Li!Store(b, i, c) = g
  BY DEF Li!Store
<1>3. \A j \in 1 .. m : j # i + 1 => j \in 1 .. Len(b)
  BY <1>1
<1>. HIDE DEF m
<1>4. g \in [1 .. m -> S]
  BY <1>1, <1>3, ElementOfSeq
<1>5. g \in Seq(S)
  BY <1>1, <1>4, SeqDef
<1>6. Len(g) = m
  BY <1>1, <1>4, <1>5, LenProperties
<1>7. g[i + 1] = c /\ \A j \in 1 .. Len(b) : j # i + 1 => g[j] = b[j]
  BY <1>1
<1>. HIDE DEF g
<1>. QED BY <1>2, <1>5, <1>6, <1>7 DEF m

\* Typing a key leaves the keys before it.
LEMMA LineType ==
  ASSUME LineInv, NEW c \in Li!Keys, Li!Type(c)
  PROVE  LineInv'
<1> DEFINE m == Len(kept)
<1>1. /\ kept \in Seq(Li!Keys) /\ kbd0 \in Seq(Li!Keys) /\ m \in Nat /\ read \in 0 .. m
      /\ event0 \in Nat
  BY LenProperties DEF LineInv, Li!TypeOK
<1>2. kept' = Append(kept, c) /\ kbd0' = Append(kbd0, c) /\ event0' = event0 + 1
  BY DEF Li!Type
<1>3. UNCHANGED <<pc, maxlen, buf, n, screen, read>>
  BY DEF Li!Type
<1>4. /\ kept' \in Seq(Li!Keys) /\ Len(kept') = m + 1 /\ kbd0' \in Seq(Li!Keys)
      /\ \A i \in 1 .. m : kept'[i] = kept[i]
      /\ kept'[m + 1] = c
  BY <1>1, <1>2, AppendProperties
<1>. HIDE DEF m
<1>5. Li!TypeOK'
  <2>1. read \in 0 .. m + 1 /\ event0 + 1 \in Nat
    BY <1>1
  <2>. QED BY <1>2, <1>3, <1>4, <2>1 DEF LineInv, Li!TypeOK
<1>6. \A i \in 1 .. read : kept'[i] = kept[i]
  BY <1>1, <1>4
<1>7. SubSeq(kept', 1, read) = SubSeq(kept, 1, read)
  <2>1. /\ kept \in Seq(Li!Keys) /\ <<c>> \in Seq(Li!Keys) /\ kept' = kept \o <<c>>
    BY <1>1, <1>2, AppendIsConcat
  <2>2. CASE read = 0
    BY <2>2, SubSeqEmpty
  <2>3. CASE read # 0
    <3>1. 1 \in 1 .. Len(kept) /\ read \in 1 .. Len(kept)
      BY <1>1, <2>3 DEF m
    <3>. QED BY <2>1, <3>1, SubSeqOfConcat1
  <2>. QED BY <2>2, <2>3
<1>8. kbd0' = SubSeq(kept', read + 1, Len(kept'))
  <2>1. kbd0 = SubSeq(kept, read + 1, m)
    BY DEF LineInv, m
  <2>2. SubSeq(kept', read + 1, m + 1) = SubSeq(kept', read + 1, m) \o <<kept'[m + 1]>>
    <3>1. read + 1 \in 1 .. Len(kept') /\ m + 1 \in read + 1 .. Len(kept') /\ (m + 1) - 1 = m
      BY <1>1, <1>4
    <3>. QED BY <1>4, <3>1, SubSeqRecursiveSecond
  <2>3. SubSeq(kept', read + 1, m) = SubSeq(kept, read + 1, m)
    <3>1. CASE read = m
      BY <1>1, <3>1, SubSeqEmpty
    <3>2. CASE read # m
      <4>1. /\ kept \in Seq(Li!Keys) /\ <<c>> \in Seq(Li!Keys) /\ kept' = kept \o <<c>>
            /\ read + 1 \in 1 .. Len(kept) /\ m \in 1 .. Len(kept)
        BY <1>1, <1>2, <3>2, AppendIsConcat DEF m
      <4>. QED BY <4>1, SubSeqOfConcat1
    <3>. QED BY <3>1, <3>2
  <2>4. kbd0 \o <<c>> = Append(kbd0, c)
    BY <1>1, AppendIsConcat
  <2>. QED BY <1>2, <1>4, <2>1, <2>2, <2>3, <2>4
<1>9. LineSoFar => LineSoFar'
  BY <1>3, <1>7 DEF LineSoFar
<1>10. LineDone => LineDone'
  BY <1>3, <1>6 DEF LineDone
<1>. QED BY <1>3, <1>5, <1>6, <1>8, <1>9, <1>10 DEF LineInv

LEMMA LineCall ==
  ASSUME LineInv, NEW room \in BufferSizes, Li!Call(room)
  PROVE  LineInv'
<1>1. /\ kbd0 \in Seq(Li!Keys) /\ kbd0' = kbd0 /\ kept' = kbd0 /\ read' = 0 /\ event0' = event0
      /\ maxlen' = room /\ n' = 0 /\ screen' = <<>> /\ room \in Nat
  BY PlatformAssumption DEF Li!Call, LineInv, Li!TypeOK, Li!InputAssumption
<1>2. \/ room > 0 /\ pc' = "reading" /\ buf' = <<>>
      \/ room > 0 /\ pc' = "free" /\ buf' = <<NUL>>
      \/ room = 0 /\ pc' = "free" /\ buf' = <<>>
  BY DEF Li!Call
<1>3. buf' \in Seq(LineTypes) /\ Len(buf') <= room /\ pc' \in {"free", "reading"}
  <2>1. <<NUL>> \in Seq(LineTypes) /\ Len(<<NUL>>) = 1
    BY DEF LineTypes
  <2>2. <<>> \in Seq(LineTypes) /\ Len(<<>>) = 0
    BY EmptySeq
  <2>3. buf' = <<NUL>> => room > 0
    BY <1>2, <2>1, <2>2
  <2>4. (buf' = <<>> \/ buf' = <<NUL>>) /\ pc' \in {"free", "reading"}
    BY <1>2
  <2>5. CASE buf' = <<>>
    BY <1>1, <2>2, <2>4, <2>5
  <2>6. CASE buf' = <<NUL>>
    <3>1. Len(buf') = 1 /\ 1 <= room
      BY <1>1, <2>1, <2>3, <2>6
    <3>. QED BY <2>1, <2>4, <2>6, <3>1
  <2>. QED BY <2>4, <2>5, <2>6
<1>4. Li!TypeOK'
  <2>1. screen' \in Seq(Printable) /\ 0 \in 0 .. Len(kept')
    BY <1>1, EmptySeq, LenProperties
  <2>. QED BY <1>1, <1>3, <2>1 DEF LineInv, Li!TypeOK, LineTypes
<1>5. kbd0' = SubSeq(kept', read' + 1, Len(kept'))
  BY <1>1, SubSeqFull
<1>6. pc' = "reading" => LineSoFar'
  <2>1. SubSeq(kept', 1, read') = <<>> /\ Len(<<>>) = 0
    BY <1>1, SubSeqEmpty
  <2>2. Li!Edited(<<>>, room) = <<>>
    <3>1. LF \in Li!Keys /\ <<>> \in Seq(Li!Keys)
      BY EmptySeq DEF Li!Keys
    <3>. QED BY <3>1, EditedStep
  <2>3. ASSUME pc' = "reading" PROVE LineSoFar'
    <3>1. room > 0 /\ buf' = <<>>
      BY <1>2, <2>3
    <3>2. screen' = Li!Edited(SubSeq(kept', 1, read'), maxlen')
      BY <1>1, <2>1, <2>2
    <3>3. maxlen' > 0 /\ n' = Len(screen') /\ n' < maxlen' /\ n' <= Len(buf')
          /\ \A i \in 1 .. n' : buf'[i] = screen'[i]
      BY <1>1, <2>1, <3>1
    <3>. QED BY <3>2, <3>3 DEF LineSoFar
  <2>. QED BY <2>3
<1>. QED BY <1>1, <1>3, <1>4, <1>5, <1>6 DEF LineInv

LEMMA LineFlush == ASSUME LineInv, Li!Flush PROVE LineInv'
<1>1. /\ kbd0' = <<>> /\ kept' = <<>> /\ read' = 0 /\ pc' = "flushing"
      /\ UNCHANGED <<event0, maxlen, buf, n, screen>> /\ Len(<<>>) = 0
  BY EmptySeq DEF Li!Flush
<1>2. Li!TypeOK'
  BY <1>1, EmptySeq DEF LineInv, Li!TypeOK
<1>3. SubSeq(kept', read' + 1, Len(kept')) = <<>>
  BY <1>1, SubSeqEmpty
<1>. QED BY <1>1, <1>2, <1>3 DEF LineInv

LEMMA LineFlushEvents == ASSUME LineInv, Li!FlushEvents PROVE LineInv'
<1>1. event0' = 0 /\ pc' = "free" /\ UNCHANGED <<kbd0, maxlen, buf, n, screen, kept, read>>
  BY DEF Li!FlushEvents
<1>2. Li!TypeOK'
  BY <1>1 DEF LineInv, Li!TypeOK
<1>. QED BY <1>1, <1>2 DEF LineInv
\* One key: the queue and the history move on together, and the line is what
\* the keys so far make.
LEMMA KeyIsNext ==
  ASSUME LineInv, pc = "reading", kbd0 # <<>>
  PROVE  /\ read + 1 \in 1 .. Len(kept) /\ Head(kbd0) = kept[read + 1] /\ Head(kbd0) \in Li!Keys
         /\ Tail(kbd0) = SubSeq(kept, read + 2, Len(kept)) /\ Tail(kbd0) \in Seq(Li!Keys)
         /\ Li!Edited(SubSeq(kept, 1, read + 1), maxlen) = Li!Key(screen, Head(kbd0), maxlen)
<1>1. /\ kept \in Seq(Li!Keys) /\ kbd0 \in Seq(Li!Keys) /\ Len(kept) \in Nat
      /\ read \in 0 .. Len(kept) /\ kbd0 = SubSeq(kept, read + 1, Len(kept))
  BY LenProperties DEF LineInv, Li!TypeOK
<1>2. read # Len(kept)
  <2>1. read = Len(kept) => SubSeq(kept, read + 1, Len(kept)) = <<>>
    BY <1>1, SubSeqEmpty
  <2>. QED BY <1>1, <2>1
<1>3. read + 1 \in 1 .. Len(kept) /\ Len(kept) \in read + 1 .. Len(kept) /\ (read + 1) + 1 = read + 2
  BY <1>1, <1>2
<1>4. Head(kbd0) = kept[read + 1] /\ Tail(kbd0) = SubSeq(kept, (read + 1) + 1, Len(kept))
  BY <1>1, <1>3, HeadTailOfSubSeq
<1>5. Head(kbd0) \in Li!Keys /\ Tail(kbd0) \in Seq(Li!Keys)
  BY <1>1, HeadTailProperties
<1> DEFINE before == SubSeq(kept, 1, read)
<1>6. SubSeq(kept, 1, read + 1) = Append(before, Head(kbd0)) /\ before \in Seq(Li!Keys)
  <2>1. before \in Seq(Li!Keys)
    <3>1. \A i \in 1 .. read : kept[i] \in Li!Keys
      BY <1>1, ElementOfSeq
    <3>. QED BY <1>1, <3>1, SubSeqProperties
  <2>2. SubSeq(kept, 1, read + 1) = SubSeq(kept, 1, (read + 1) - 1) \o <<kept[read + 1]>>
    <3>1. 1 \in 1 .. Len(kept) /\ read + 1 \in 1 .. Len(kept)
      BY <1>1, <1>3
    <3>. QED BY <1>1, <3>1, SubSeqRecursiveSecond
  <2>3. (read + 1) - 1 = read
    BY <1>1
  <2>4. Append(before, Head(kbd0)) = before \o <<Head(kbd0)>>
    BY <1>5, <2>1, AppendIsConcat
  <2>. QED BY <1>4, <2>1, <2>2, <2>3, <2>4
<1>7. screen = Li!Edited(before, maxlen)
  BY DEF LineInv, LineSoFar
<1>. HIDE DEF before
<1>8. Li!Edited(Append(before, Head(kbd0)), maxlen) = Li!Key(Li!Edited(before, maxlen), Head(kbd0), maxlen)
  BY <1>5, <1>6, EditedStep
<1>. QED BY <1>3, <1>4, <1>5, <1>6, <1>7, <1>8

LEMMA LineReadKey == ASSUME LineInv, Li!ReadKey PROVE LineInv'
<1> DEFINE c == Head(kbd0)
<1>1. /\ pc = "reading" /\ kbd0 # <<>>
      /\ kbd0' = Tail(kbd0) /\ read' = read + 1 /\ UNCHANGED <<event0, maxlen, kept>>
  BY DEF Li!ReadKey
<1>2. /\ read + 1 \in 1 .. Len(kept) /\ c = kept[read + 1] /\ c \in Li!Keys
      /\ kbd0' = SubSeq(kept, read + 2, Len(kept)) /\ kbd0' \in Seq(Li!Keys)
      /\ Li!Edited(SubSeq(kept, 1, read + 1), maxlen) = Li!Key(screen, c, maxlen)
  BY <1>1, KeyIsNext
<1>3. /\ maxlen \in Nat /\ maxlen > 0 /\ n = Len(screen) /\ n < maxlen /\ n \in Nat
      /\ n \in 0 .. Len(buf) /\ Len(buf) \in Nat /\ Len(buf) <= maxlen
      /\ \A i \in 1 .. n : buf[i] = screen[i]
      /\ buf \in Seq(LineTypes) /\ screen \in Seq(Printable)
  <2>1. buf \in Seq(LineTypes) /\ screen \in Seq(Printable) /\ maxlen \in Nat
    BY PlatformAssumption DEF LineInv, Li!TypeOK, LineTypes, Li!InputAssumption
  <2>. QED BY <1>1, <2>1, LenProperties DEF LineInv, LineSoFar
<1>4. read \in Nat /\ read' \in 0 .. Len(kept) /\ Len(kept) \in Nat /\ kept \in Seq(Li!Keys)
      /\ read' + 1 = read + 2
  BY <1>1, <1>2, LenProperties DEF LineInv, Li!TypeOK
<1>5. \A i \in 1 .. read : kept[i] # LF
  BY <1>1 DEF LineInv
<1>6. \/ /\ c = LF
         /\ pc' = "ended" /\ buf' = Li!Store(buf, n, NUL)
         /\ UNCHANGED <<n, screen>>
      \/ c \in Backspaces /\ n > 0 /\ Li!Erase /\ UNCHANGED pc
      \/ c \in Printable /\ n < maxlen - 1 /\ Li!Take(c) /\ UNCHANGED pc
      \/ /\ \/ c \in {CR, Other}
            \/ c \in Backspaces /\ n = 0
            \/ c \in Printable /\ ~ (n < maxlen - 1)
         /\ UNCHANGED <<pc, buf, n, screen>>
  BY DEF Li!ReadKey, Li!HasRoom
<1>. HIDE DEF c
<1>7. /\ screen = <<>> <=> n = 0
      /\ c = LF => c \notin Printable /\ c \notin Backspaces
      /\ c \in Printable \cup Backspaces => c # LF
      /\ c \in {CR, Other} => c # LF /\ c \notin Printable /\ c \notin Backspaces
      /\ c \in Printable => c \notin Backspaces
  BY <1>3, EmptySeq, PlatformAssumption DEF Li!InputAssumption
<1>8. ASSUME buf' \in Seq(LineTypes), Len(buf') <= maxlen, screen' \in Seq(Printable),
             n' = Len(screen'), n' < maxlen, n' <= Len(buf'), \A i \in 1 .. n' : buf'[i] = screen'[i],
             screen' = Li!Key(screen, c, maxlen), pc' \in {"reading", "ended"},
             pc' = "reading" => c # LF, pc' = "ended" => c = LF /\ n' < Len(buf') /\ buf'[n' + 1] = NUL
      PROVE  LineInv'
  <2>1. n' \in Nat
    BY <1>8, LenProperties
  <2>2. Li!TypeOK'
    BY <1>1, <1>2, <1>4, <1>8, <2>1 DEF LineInv, Li!TypeOK, LineTypes
  <2>3. LineSoFar'
    BY <1>1, <1>2, <1>3, <1>8 DEF LineSoFar
  <2>4. pc' = "reading" => \A i \in 1 .. read' : kept[i] # LF
    BY <1>1, <1>2, <1>4, <1>5, <1>8
  <2>5. pc' = "ended" => LineDone'
    <3>1. ASSUME c = LF PROVE {i \in 1 .. read + 1 : kept[i] = LF} = {read + 1}
      <4>1. \A i \in 1 .. read + 1 : i \in 1 .. read \/ i = read + 1
        BY <1>4
      <4>2. read + 1 \in 1 .. read + 1 /\ kept[read + 1] = LF
        BY <1>2, <1>4, <3>1
      <4>. QED BY <1>5, <4>1, <4>2
    <3>. QED BY <1>1, <1>8, <3>1 DEF LineDone
  <2>. QED BY <1>1, <1>2, <1>4, <1>8, <2>2, <2>3, <2>4, <2>5 DEF LineInv
<1>9. NUL \in LineTypes
  BY DEF LineTypes
<1>10. CASE c = LF /\ pc' = "ended" /\ buf' = Li!Store(buf, n, NUL) /\ UNCHANGED <<n, screen>>
  <2>1. /\ buf' \in Seq(LineTypes)
        /\ Len(buf') = IF n < Len(buf) THEN Len(buf) ELSE n + 1
        /\ buf'[n + 1] = NUL
        /\ \A j \in 1 .. Len(buf) : j # n + 1 => buf'[j] = buf[j]
    BY <1>3, <1>9, <1>10, StoreIs
  <2>2. Li!Key(screen, c, maxlen) = screen
    BY <1>7, <1>10 DEF Li!Key
  <2>3. Len(buf') <= maxlen /\ n < Len(buf')
    BY <1>3, <2>1
  <2>4. ASSUME NEW i \in 1 .. n PROVE buf'[i] = screen[i]
    <3>1. i \in 1 .. Len(buf) /\ i # n + 1
      BY <1>3
    <3>. QED BY <1>3, <2>1, <3>1
  <2>. QED BY <1>3, <1>8, <1>10, <2>1, <2>2, <2>3, <2>4
<1>11. CASE c \in Backspaces /\ n > 0 /\ Li!Erase /\ UNCHANGED pc
  <2>1. buf' = Li!Store(buf, n - 1, NUL) /\ n' = n - 1 /\ screen' = Li!Front(screen)
    BY <1>11 DEF Li!Erase
  <2>2. n - 1 \in 0 .. Len(buf) /\ n - 1 < Len(buf) /\ (n - 1) + 1 = n
    BY <1>3, <1>11
  <2>3. /\ buf' \in Seq(LineTypes) /\ Len(buf') = Len(buf)
        /\ \A j \in 1 .. Len(buf) : j # n => buf'[j] = buf[j]
    <3> DEFINE i == n - 1
    <3>1. i \in 0 .. Len(buf) /\ i < Len(buf) /\ i + 1 = n
      BY <2>2
    <3>. HIDE DEF i
    <3>2. /\ Li!Store(buf, i, NUL) \in Seq(LineTypes)
          /\ Len(Li!Store(buf, i, NUL)) = IF i < Len(buf) THEN Len(buf) ELSE i + 1
          /\ \A j \in 1 .. Len(buf) : j # i + 1 => Li!Store(buf, i, NUL)[j] = buf[j]
      <4>1. buf \in Seq(LineTypes)
        BY <1>3
      <4>. QED BY <1>9, <3>1, <4>1, StoreIs
    <3>. QED BY <2>1, <3>1, <3>2 DEF i
  <2>4. /\ screen' \in Seq(Printable) /\ Len(screen') = n - 1
        /\ \A i \in 1 .. n - 1 : screen'[i] = screen[i]
    <3>1. screen' = SubSeq(screen, 1, n - 1) /\ \A i \in 1 .. n - 1 : screen[i] \in Printable
      BY <1>3, <2>1, ElementOfSeq DEF Li!Front
    <3>2. /\ SubSeq(screen, 1, n - 1) \in Seq(Printable)
          /\ Len(SubSeq(screen, 1, n - 1)) = IF 1 <= n - 1 THEN (n - 1) - 1 + 1 ELSE 0
          /\ \A i \in 1 .. (n - 1) - 1 + 1 : SubSeq(screen, 1, n - 1)[i] = screen[1 + i - 1]
      BY <1>3, <3>1, SubSeqProperties
    <3>3. (n - 1) - 1 + 1 = n - 1 /\ \A i \in 1 .. n - 1 : 1 + i - 1 = i
      BY <1>3
    <3>. QED BY <1>3, <1>11, <3>1, <3>2, <3>3
  <2>5. Li!Key(screen, c, maxlen) = screen'
    BY <1>3, <1>7, <1>11, <2>1 DEF Li!Key
  <2>6. c # LF
    BY <1>7, <1>11
  <2>7. n' < maxlen /\ n' <= Len(buf') /\ \A i \in 1 .. n' : buf'[i] = screen'[i]
    <3>1. \A i \in 1 .. n - 1 : i \in 1 .. Len(buf) /\ i \in 1 .. n /\ i # n
      BY <1>3
    <3>2. n - 1 < maxlen /\ n - 1 <= Len(buf)
      BY <1>3
    <3>. QED BY <1>3, <2>1, <2>3, <2>4, <3>1, <3>2
  <2>. QED BY <1>1, <1>3, <1>8, <1>11, <2>1, <2>3, <2>4, <2>5, <2>6, <2>7
<1>12. CASE c \in Printable /\ n < maxlen - 1 /\ Li!Take(c) /\ UNCHANGED pc
  <2> DEFINE b == Li!Store(buf, n, c)
  <2>1. buf' = Li!Store(b, n + 1, NUL) /\ n' = n + 1 /\ screen' = Append(screen, c)
    BY <1>12 DEF Li!Take
  <2>2. c \in LineTypes
    BY <1>12 DEF LineTypes
  <2>3. /\ b \in Seq(LineTypes)
        /\ Len(b) = IF n < Len(buf) THEN Len(buf) ELSE n + 1
        /\ b[n + 1] = c
        /\ \A j \in 1 .. Len(buf) : j # n + 1 => b[j] = buf[j]
    <3>1. buf \in Seq(LineTypes) /\ n \in 0 .. Len(buf)
      BY <1>3
    <3>2. /\ Li!Store(buf, n, c) \in Seq(LineTypes)
          /\ Len(Li!Store(buf, n, c)) = IF n < Len(buf) THEN Len(buf) ELSE n + 1
          /\ Li!Store(buf, n, c)[n + 1] = c
          /\ \A j \in 1 .. Len(buf) : j # n + 1 => Li!Store(buf, n, c)[j] = buf[j]
      BY <2>2, <3>1, StoreIs, SMTT(30)
    <3>. QED BY <3>2
  <2>. HIDE DEF b
  <2>4. n + 1 \in 0 .. Len(b) /\ Len(b) <= maxlen
    BY <1>3, <2>3
  <2>5. /\ buf' \in Seq(LineTypes)
        /\ Len(buf') = IF n + 1 < Len(b) THEN Len(b) ELSE (n + 1) + 1
        /\ \A j \in 1 .. Len(b) : j # (n + 1) + 1 => buf'[j] = b[j]
    <3> DEFINE i == n + 1
    <3>1. i \in 0 .. Len(b)
      BY <2>4
    <3>. HIDE DEF i
    <3>2. /\ Li!Store(b, i, NUL) \in Seq(LineTypes)
          /\ Len(Li!Store(b, i, NUL)) = IF i < Len(b) THEN Len(b) ELSE i + 1
          /\ \A j \in 1 .. Len(b) : j # i + 1 => Li!Store(b, i, NUL)[j] = b[j]
      <4>1. b \in Seq(LineTypes)
        BY <2>3
      <4>. QED BY <1>9, <3>1, <4>1, StoreIs
    <3>. QED BY <2>1, <3>2 DEF i
  <2>6. /\ screen' \in Seq(Printable) /\ Len(screen') = n + 1 /\ screen'[n + 1] = c
        /\ \A i \in 1 .. n : screen'[i] = screen[i]
    BY <1>3, <1>12, <2>1, AppendProperties
  <2>7. Li!Key(screen, c, maxlen) = screen'
    <3>1. Len(screen) + 1 < maxlen /\ c \notin Backspaces
      BY <1>3, <1>7, <1>12
    <3>. QED BY <1>12, <2>1, <3>1 DEF Li!Key
  <2>8. Len(buf') <= maxlen /\ n' < maxlen /\ n' <= Len(buf')
    BY <1>3, <1>12, <2>1, <2>3, <2>4, <2>5
  <2>9. ASSUME NEW i \in 1 .. n' PROVE buf'[i] = screen'[i]
    <3>1. i \in 1 .. Len(b) /\ i # (n + 1) + 1
      BY <1>3, <2>1, <2>4
    <3>2. buf'[i] = b[i]
      BY <2>5, <3>1
    <3>3. CASE i = n + 1
      BY <2>3, <2>6, <3>2, <3>3
    <3>4. CASE i # n + 1
      <4>1. i \in 1 .. n /\ i \in 1 .. Len(buf)
        BY <1>3, <2>1, <3>4
      <4>. QED BY <1>3, <2>3, <2>6, <3>2, <3>4, <4>1
    <3>. QED BY <3>3, <3>4
  <2>10. c # LF
    BY <1>7, <1>12
  <2>. QED BY <1>1, <1>8, <1>12, <2>1, <2>5, <2>6, <2>7, <2>8, <2>9, <2>10
<1>13. CASE /\ \/ c \in {CR, Other}
               \/ c \in Backspaces /\ n = 0
               \/ c \in Printable /\ ~ (n < maxlen - 1)
            /\ UNCHANGED <<pc, buf, n, screen>>
  <2>1. Li!Key(screen, c, maxlen) = screen
    <3>1. ~ (c \in Backspaces /\ screen # <<>>) /\ ~ (c \in Printable /\ Len(screen) + 1 < maxlen)
      BY <1>3, <1>7, <1>13
    <3>. QED BY <3>1 DEF Li!Key
  <2>2. c # LF
    BY <1>7, <1>13
  <2>. QED BY <1>1, <1>3, <1>8, <1>13, <2>1, <2>2
<1>. QED BY <1>6, <1>10, <1>11, <1>12, <1>13

LEMMA LineStays == LineInv /\ UNCHANGED lines => LineInv'
BY DEF LineInv, lines, Li!TypeOK, LineSoFar, LineDone

LEMMA LineNext == LineInv /\ Li!Next => LineInv'
BY LineType, LineCall, LineReadKey, LineFlush, LineFlushEvents DEF Li!Next

LEMMA LineHolds == LineInv => LineIsTyped
<1>. SUFFICES ASSUME LineInv, pc = "ended"
              PROVE  /\ SubSeq(buf, 1, n + 1) = Append(Li!Edited(SubSeq(kept, 1, read), maxlen), NUL)
                     /\ screen = SubSeq(buf, 1, n)
  BY DEF LineInv, LineDone, LineIsTyped, Li!LineIsTyped
<1>1. /\ n = Len(screen) /\ n \in Nat /\ n < Len(buf) /\ buf[n + 1] = NUL
      /\ \A i \in 1 .. n : buf[i] = screen[i]
      /\ screen = Li!Edited(SubSeq(kept, 1, read), maxlen)
  BY DEF LineInv, LineDone, LineSoFar, Li!TypeOK
<1>2. buf \in Seq(LineTypes) /\ screen \in Seq(LineTypes) /\ Len(buf) \in Nat
  <2>1. buf \in Seq(LineTypes) /\ screen \in Seq(Printable) /\ Printable \subseteq LineTypes
    BY DEF LineInv, Li!TypeOK, LineTypes
  <2>. QED BY <2>1, SeqMonotonic, LenProperties
<1>3. \A i \in 1 .. n : buf[i] \in LineTypes
  BY <1>1, <1>2, ElementOfSeq
<1>4. screen = SubSeq(buf, 1, n)
  <2>1. /\ SubSeq(buf, 1, n) \in Seq(LineTypes)
        /\ Len(SubSeq(buf, 1, n)) = IF 1 <= n THEN n - 1 + 1 ELSE 0
        /\ \A i \in 1 .. n - 1 + 1 : SubSeq(buf, 1, n)[i] = buf[1 + i - 1]
    BY <1>1, <1>3, SubSeqProperties
  <2>2. n - 1 + 1 = n /\ \A i \in 1 .. n : 1 + i - 1 = i
    BY <1>1
  <2>3. Len(SubSeq(buf, 1, n)) = n /\ \A i \in 1 .. n : screen[i] = SubSeq(buf, 1, n)[i]
    BY <1>1, <2>1, <2>2
  <2>. QED BY <1>1, <1>2, <2>1, <2>3, SeqEqual
<1>5. SubSeq(buf, 1, n + 1) = SubSeq(buf, 1, n) \o <<buf[n + 1]>>
  <2>1. 1 \in 1 .. Len(buf) /\ n + 1 \in 1 .. Len(buf) /\ (n + 1) - 1 = n
    BY <1>1, <1>2
  <2>. QED BY <1>2, <2>1, SubSeqRecursiveSecond
<1>6. NUL \in LineTypes
  BY DEF LineTypes
<1>7. Append(screen, NUL) = screen \o <<NUL>>
  BY <1>2, <1>6, AppendIsConcat
<1>. QED BY <1>1, <1>4, <1>5, <1>7

\* The line read is the line typed, edited as the user saw it, for buffers of
\* any size and any number of keys typed at any time.
THEOREM LineAsTyped == MCSpec => []LineIsTyped
<1>1. MCInit => LineInv
  BY LineInit DEF MCInit
<1>2. LineInv /\ [MCNext]_<<vars, part, allocator, texts, fields, formats, lines, wire>> => LineInv'
  BY LineNext, LineStays DEF MCNext
<1>. QED BY <1>1, <1>2, LineHolds, PTL DEF MCSpec

-----------------------------------------------------------------------------
(* Tokenizer: the stretches of a text and what strtok makes of them.       *)

\* The stretches of a text without a separator, first and last place.
Stretches(w) ==
  {r \in (DOMAIN w) \X (DOMAIN w) :
     /\ r[1] <= r[2] /\ \A k \in r[1] .. r[2] : w[k] \notin Delim
     /\ r[1] = 1 \/ w[r[1] - 1] \in Delim
     /\ r[2] = Len(w) \/ w[r[2] + 1] \in Delim}

\* Those that begin before place x.
Ahead(w, x) == {r \in Stretches(w) : r[1] < x}

\* The characters of texts and of their memory.
Chars == Letters \cup Delim

IsText(w) == w \in Seq(Chars) /\ \A i \in 1 .. Len(w) : w[i] # NUL

\* Memory d, read from place at on, is still the text w with its NUL.
Unread(d, at, w) ==
  /\ d \in Seq(Chars \cup {NUL}) /\ Len(d) = Len(w) + 1 /\ at \in 1 .. Len(d)
  /\ \A i \in at .. Len(w) : d[i] = w[i]
  /\ d[Len(d)] = NUL
  /\ at = 1 \/ at = Len(d) \/ w[at - 1] \in Delim

\* The stretches before at are strings of their own.
CutOut(d, at, w) ==
  \A r \in Ahead(w, at) :
    r[2] < at /\ d[r[2] + 1] = NUL /\ \A j \in r[1] .. r[2] : d[j] = w[j]

\* There were as many calls as there are stretches before at, or more after
\* the last one.
Counted(m, at, w) ==
  \/ Cardinality(Ahead(w, at)) = m
  \/ Ahead(w, at) = Stretches(w) /\ Cardinality(Stretches(w)) <= m

\* Call k gave the stretch that has k - 1 before it, or there is none.
Given(got, at, w) ==
  \A k \in 1 .. Len(got) :
    \/ got[k] = Null /\ k > Cardinality(Stretches(w))
    \/ \E r \in Ahead(w, at) : r[1] = got[k] /\ Cardinality(Ahead(w, r[1])) = k - 1

\* What holds of memory d, read up to place at, after the calls gave got.
Reading(d, at, got, w) ==
  /\ IsText(w) /\ got \in Seq(Nat \cup {Null})
  /\ Unread(d, at, w) /\ CutOut(d, at, w)
  /\ Counted(Len(got), at, w) /\ Given(got, at, w)

\* The inductive invariant: before the first text strtok gives NULL.
TokenInv ==
  IF last = Null THEN /\ origin = <<>> /\ tokens \in Seq({Null})
                 ELSE Reading(line, last, tokens, origin)

LEMMA CountsAgree == \A S : Tk!Cardinality(S) = Cardinality(S)
BY DEF Tk!Cardinality, Cardinality

\* Fields, with its local definitions named.
LEMMA FieldsAre ==
  ASSUME NEW w
  PROVE  Tk!Fields(w) =
           [k \in 1 .. Tk!Cardinality(Stretches(w)) |->
              LET r == CHOOSE r \in Stretches(w) : Tk!Cardinality(Ahead(w, r[1])) = k - 1
              IN  SubSeq(w, r[1], r[2])]
BY DEF Tk!Fields, Stretches, Ahead

\* A stretch, place by place.
LEMMA StretchIs ==
  ASSUME NEW w, IsText(w), NEW r \in Stretches(w)
  PROVE  /\ r = <<r[1], r[2]>> /\ r[1] \in 1 .. Len(w) /\ r[2] \in r[1] .. Len(w)
         /\ \A k \in r[1] .. r[2] : w[k] \notin Delim
         /\ r[1] = 1 \/ w[r[1] - 1] \in Delim
         /\ r[2] = Len(w) \/ w[r[2] + 1] \in Delim
<1>1. DOMAIN w = 1 .. Len(w) /\ Len(w) \in Nat
  BY DEF IsText
<1>. QED BY <1>1 DEF Stretches

\* A stretch is known by where it begins.
LEMMA StretchEnds ==
  ASSUME NEW w, IsText(w), NEW r \in Stretches(w), NEW q \in Stretches(w), r[1] = q[1]
  PROVE  r = q
<1>1. Len(w) \in Nat
  BY DEF IsText
<1>2. ~ (r[2] < q[2])
  <2>1. SUFFICES ASSUME r[2] < q[2] PROVE FALSE
    OBVIOUS
  <2>2. w[r[2] + 1] \in Delim /\ r[2] + 1 \in q[1] .. q[2]
    BY <1>1, <2>1, StretchIs
  <2>. QED BY <2>2, StretchIs
<1>3. ~ (q[2] < r[2])
  <2>1. SUFFICES ASSUME q[2] < r[2] PROVE FALSE
    OBVIOUS
  <2>2. w[q[2] + 1] \in Delim /\ q[2] + 1 \in r[1] .. r[2]
    BY <1>1, <2>1, StretchIs
  <2>. QED BY <2>2, StretchIs
<1>4. r[2] \in Int /\ q[2] \in Int
  BY <1>1, StretchIs
<1>5. r[2] = q[2]
  BY <1>2, <1>3, <1>4
<1>. QED BY <1>5, StretchIs

\* There are finitely many.
LEMMA FiniteStretches ==
  ASSUME NEW w, IsText(w)
  PROVE  /\ IsFiniteSet(Stretches(w)) /\ Cardinality(Stretches(w)) \in Nat
         /\ \A x : /\ Ahead(w, x) \subseteq Stretches(w) /\ IsFiniteSet(Ahead(w, x))
                   /\ Cardinality(Ahead(w, x)) \in Nat
                   /\ Cardinality(Ahead(w, x)) <= Cardinality(Stretches(w))
<1>1. DOMAIN w = 1 .. Len(w) /\ Len(w) \in Nat
  BY DEF IsText
<1>2. IsFiniteSet(1 .. Len(w))
  BY <1>1, FS_Interval
<1>3. IsFiniteSet((DOMAIN w) \X (DOMAIN w))
  BY <1>1, <1>2, FS_Product
<1>4. Stretches(w) \in SUBSET ((DOMAIN w) \X (DOMAIN w))
  BY DEF Stretches
<1>5. IsFiniteSet(Stretches(w))
  BY <1>3, <1>4, FS_Subset
<1>6. \A x : Ahead(w, x) \in SUBSET Stretches(w)
  BY DEF Ahead
<1>. QED BY <1>5, <1>6, FS_Subset, FS_CardinalityType

\* No two stretches have as many before them.
LEMMA RanksDiffer ==
  ASSUME NEW w, IsText(w), NEW r \in Stretches(w), NEW q \in Stretches(w), r[1] < q[1]
  PROVE  Cardinality(Ahead(w, r[1])) # Cardinality(Ahead(w, q[1]))
<1>1. r[1] \in Int /\ q[1] \in Int
  BY StretchIs DEF IsText
<1>2. Ahead(w, r[1]) \in SUBSET Ahead(w, q[1])
  <2>1. ASSUME NEW s \in Stretches(w), s[1] < r[1] PROVE s[1] < q[1]
    <3>1. s[1] \in Int
      BY StretchIs DEF IsText
    <3>. QED BY <1>1, <2>1, <3>1
  <2>. QED BY <2>1 DEF Ahead
<1>3. r \in Ahead(w, q[1]) /\ r \notin Ahead(w, r[1])
  BY <1>1 DEF Ahead
<1>4. Ahead(w, r[1]) # Ahead(w, q[1])
  BY <1>3
<1>5. IsFiniteSet(Ahead(w, q[1]))
  BY FiniteStretches
<1>. QED BY <1>2, <1>4, <1>5, FS_Subset

\* So the stretch of a rank is the one that Fields chooses.
LEMMA RankIs ==
  ASSUME NEW w, IsText(w), NEW r \in Stretches(w), NEW k \in Nat,
         Cardinality(Ahead(w, r[1])) = k - 1
  PROVE  r = CHOOSE q \in Stretches(w) : Tk!Cardinality(Ahead(w, q[1])) = k - 1
<1>1. ASSUME NEW q \in Stretches(w), Cardinality(Ahead(w, q[1])) = k - 1 PROVE q = r
  <2>1. ~ (q[1] < r[1]) /\ ~ (r[1] < q[1])
    BY <1>1, RanksDiffer
  <2>2. q[1] \in Int /\ r[1] \in Int
    BY StretchIs DEF IsText
  <2>3. q[1] = r[1]
    BY <2>1, <2>2
  <2>. QED BY <2>3, StretchEnds
<1>. QED BY <1>1, CountsAgree

\* From gives the first place that separates or does not, or the end.
LEMMA FromIs ==
  ASSUME NEW S, NEW d \in Seq(S), NEW i \in 1 .. Len(d), d[Len(d)] = NUL, NEW b \in BOOLEAN
  PROVE  /\ Tk!From(d, i, b) \in i .. Len(d)
         /\ d[Tk!From(d, i, b)] = NUL \/ (d[Tk!From(d, i, b)] \in Delim <=> b)
         /\ \A j \in i .. Tk!From(d, i, b) - 1 : d[j] # NUL /\ (d[j] \in Delim <=> ~ b)
<1> DEFINE C == {j \in i .. Len(d) : d[j] = NUL \/ (d[j] \in Delim) = b}
<1>0. ASSUME NEW j PROVE (d[j] \in Delim) = b <=> (d[j] \in Delim <=> b)
  OBVIOUS
<1>1. Len(d) \in Nat
  OBVIOUS
<1>2. Len(d) \in C
  BY <1>1
<1>3. C \in SUBSET Nat
  BY <1>1
<1>4. PICK x \in C : \A y \in C : x <= y
  BY <1>2, <1>3, LeastNat
<1>5. Tk!From(d, i, b) = CHOOSE y \in C : \A z \in C : y =< z
  BY DEF Tk!From, Tk!Min
<1>6. Tk!From(d, i, b) \in C /\ \A z \in C : Tk!From(d, i, b) <= z
  <2>. HIDE DEF C
  <2>. QED BY <1>4, <1>5
<1>7. ASSUME NEW j \in i .. Tk!From(d, i, b) - 1 PROVE j \notin C /\ j \in i .. Len(d)
  BY <1>1, <1>6
<1>. QED BY <1>0, <1>6, <1>7

\* The places Token finds: the end of the text, or the ends of a stretch.
Start(d, at) == Tk!From(d, at, FALSE)

Stop(d, at) == Tk!From(d, Start(d, at), TRUE)

LEMMA ScanIs ==
  ASSUME NEW d, NEW at, NEW w, IsText(w), Unread(d, at, w)
  PROVE  /\ Start(d, at) \in at .. Len(w) + 1
         /\ \A j \in at .. Start(d, at) - 1 : w[j] \in Delim
         /\ d[Start(d, at)] = NUL => Start(d, at) = Len(w) + 1
         /\ d[Start(d, at)] # NUL =>
              /\ Start(d, at) <= Len(w) /\ Stop(d, at) \in Start(d, at) + 1 .. Len(w) + 1
              /\ \A j \in Start(d, at) .. Stop(d, at) - 1 : w[j] \notin Delim
              /\ Stop(d, at) = Len(w) + 1 \/ w[Stop(d, at)] \in Delim
              /\ d[Stop(d, at)] = NUL <=> Stop(d, at) = Len(w) + 1
<1>1. /\ Len(w) \in Nat /\ \A i \in 1 .. Len(w) : w[i] # NUL
      /\ d \in Seq(Chars \cup {NUL}) /\ Len(d) = Len(w) + 1 /\ at \in 1 .. Len(d)
      /\ \A i \in at .. Len(w) : d[i] = w[i]
      /\ d[Len(d)] = NUL
  BY DEF IsText, Unread
<1>2. /\ Start(d, at) \in at .. Len(d)
      /\ d[Start(d, at)] = NUL \/ d[Start(d, at)] \notin Delim
      /\ \A j \in at .. Start(d, at) - 1 : d[j] # NUL /\ d[j] \in Delim
  BY <1>1, FromIs DEF Start
<1>3. \A j \in at .. Len(w) : d[j] # NUL /\ d[j] = w[j]
  BY <1>1
<1>4. Start(d, at) \in at .. Len(w) + 1 /\ \A j \in at .. Start(d, at) - 1 : w[j] \in Delim
  <2>1. ASSUME NEW j \in at .. Start(d, at) - 1 PROVE w[j] \in Delim
    <3>1. d[j] \in Delim
      BY <1>2, <2>1, Zenon
    <3>2. j \in at .. Len(w)
      BY <1>1, <1>2
    <3>. QED BY <1>3, <3>1, <3>2
  <2>. QED BY <1>1, <1>2, <2>1
<1>5. d[Start(d, at)] = NUL => Start(d, at) = Len(w) + 1
  BY <1>1, <1>3, <1>4
<1>6. CASE d[Start(d, at)] # NUL
  <2>1. Start(d, at) <= Len(w) /\ Start(d, at) \in 1 .. Len(d)
    BY <1>1, <1>4, <1>6
  <2>2. /\ Stop(d, at) \in Start(d, at) .. Len(d)
        /\ d[Stop(d, at)] = NUL \/ d[Stop(d, at)] \in Delim
        /\ \A j \in Start(d, at) .. Stop(d, at) - 1 : d[j] # NUL /\ d[j] \notin Delim
    BY <1>1, <2>1, FromIs DEF Stop
  <2>3. Stop(d, at) # Start(d, at)
    BY <1>2, <1>6, <2>2
  <2>4. Stop(d, at) \in Start(d, at) + 1 .. Len(w) + 1
    BY <1>1, <1>4, <2>2, <2>3
  <2>5. \A j \in Start(d, at) .. Stop(d, at) - 1 : w[j] \notin Delim
    <3>1. ASSUME NEW j \in Start(d, at) .. Stop(d, at) - 1 PROVE w[j] \notin Delim
      <4>1. d[j] \notin Delim
        BY <2>2, <3>1, Zenon
      <4>2. j \in at .. Len(w)
        BY <1>1, <1>4, <2>4
      <4>. QED BY <1>3, <4>1, <4>2
    <3>. QED BY <3>1
  <2>6. d[Stop(d, at)] = NUL <=> Stop(d, at) = Len(w) + 1
    BY <1>1, <1>3, <1>4, <2>4
  <2>7. Stop(d, at) = Len(w) + 1 \/ w[Stop(d, at)] \in Delim
    BY <1>1, <1>3, <1>4, <2>2, <2>4, <2>6
  <2>. QED BY <1>4, <1>6, <2>1, <2>4, <2>5, <2>6, <2>7
<1>. QED BY <1>4, <1>5, <1>6

\* At the end of the text there is no stretch left.
LEMMA NoneLeft ==
  ASSUME NEW d, NEW at, NEW w, IsText(w), Unread(d, at, w), d[Start(d, at)] = NUL
  PROVE  Ahead(w, at) = Stretches(w) /\ Ahead(w, Start(d, at)) = Stretches(w)
<1>1. Len(w) \in Nat /\ at \in 1 .. Len(w) + 1
  BY DEF IsText, Unread
<1>2. Start(d, at) = Len(w) + 1 /\ \A j \in at .. Len(w) : w[j] \in Delim
  BY <1>1, ScanIs
<1>3. ASSUME NEW r \in Stretches(w) PROVE r[1] < at /\ r[1] < Len(w) + 1
  <2>1. r[1] \in 1 .. Len(w) /\ r[2] \in r[1] .. Len(w) /\ w[r[1]] \notin Delim
    BY <1>1, StretchIs
  <2>. QED BY <1>1, <1>2, <2>1
<1>. QED BY <1>2, <1>3 DEF Ahead

\* Otherwise what is found is the next stretch.
LEMMA NextIs ==
  ASSUME NEW d, NEW at, NEW w, IsText(w), Unread(d, at, w), d[Start(d, at)] # NUL
  PROVE  LET r == <<Start(d, at), Stop(d, at) - 1>>
         IN  /\ r \in Stretches(w) /\ r \notin Ahead(w, at)
             /\ Ahead(w, Start(d, at)) = Ahead(w, at)
             /\ \A x \in Stop(d, at) .. Stop(d, at) + 1 : Ahead(w, x) = Ahead(w, at) \cup {r}
<1> DEFINE s == Start(d, at)
           e == Stop(d, at)
           r == <<s, e - 1>>
<1>1. Len(w) \in Nat /\ DOMAIN w = 1 .. Len(w) /\ at \in 1 .. Len(w) + 1
  BY DEF IsText, Unread
<1>2. /\ s \in at .. Len(w) /\ e \in s + 1 .. Len(w) + 1
      /\ \A j \in at .. s - 1 : w[j] \in Delim
      /\ \A j \in s .. e - 1 : w[j] \notin Delim
      /\ e = Len(w) + 1 \/ w[e] \in Delim
  <2>1. s \in at .. Len(w) + 1 /\ \A j \in at .. s - 1 : w[j] \in Delim
    BY ScanIs, Zenon
  <2>2. /\ s <= Len(w) /\ e \in s + 1 .. Len(w) + 1
        /\ \A j \in s .. e - 1 : w[j] \notin Delim
        /\ e = Len(w) + 1 \/ w[e] \in Delim
    BY ScanIs, Zenon
  <2>. HIDE DEF s, e
  <2>. QED BY <1>1, <2>1, <2>2
<1>. HIDE DEF s, e
<1>3. s = 1 \/ w[s - 1] \in Delim
  <2>1. CASE s = at
    <3>1. at = 1 \/ at = Len(w) + 1 \/ w[at - 1] \in Delim
      BY DEF Unread
    <3>. QED BY <1>1, <1>2, <2>1, <3>1
  <2>2. CASE s # at
    BY <1>1, <1>2, <2>2
  <2>. QED BY <2>1, <2>2
<1>4. r \in Stretches(w)
  BY <1>1, <1>2, <1>3 DEF Stretches
<1>5. ASSUME NEW q \in Stretches(w)
      PROVE  /\ q[1] \in Int
             /\ ~ (at <= q[1] /\ q[1] < s)
             /\ ~ (s < q[1] /\ q[1] <= e)
  <2>1. /\ q[1] \in 1 .. Len(w) /\ q[2] \in q[1] .. Len(w) /\ w[q[1]] \notin Delim
        /\ q[1] = 1 \/ w[q[1] - 1] \in Delim
    BY <1>1, StretchIs
  <2>2. ~ (at <= q[1] /\ q[1] < s)
    BY <1>1, <1>2, <2>1
  <2>3. ~ (s < q[1] /\ q[1] <= e)
    BY <1>1, <1>2, <2>1
  <2>. QED BY <2>1, <2>2, <2>3
<1>6. r[1] = s
  OBVIOUS
<1>7. Ahead(w, s) = Ahead(w, at) /\ r \notin Ahead(w, at)
  <2>1. \A q \in Stretches(w) : q[1] < s <=> q[1] < at
    BY <1>1, <1>2, <1>5
  <2>2. ~ (r[1] < at)
    BY <1>1, <1>2, <1>6
  <2>. QED BY <2>1, <2>2 DEF Ahead
<1>8. ASSUME NEW x \in e .. e + 1 PROVE Ahead(w, x) = Ahead(w, at) \cup {r}
  <2>1. ASSUME NEW q \in Stretches(w), q[1] < x PROVE q[1] < at \/ q = r
    <3>1. q[1] < at \/ q[1] = s
      BY <1>1, <1>2, <1>5, <2>1
    <3>. QED BY <1>4, <1>6, <3>1, StretchEnds
  <2>2. ASSUME NEW q \in Stretches(w), q[1] < at PROVE q[1] < x
    BY <1>1, <1>2, <1>5, <2>2
  <2>3. r[1] < x
    BY <1>1, <1>2, <1>6
  <2>. HIDE DEF r
  <2>. QED BY <1>4, <2>1, <2>2, <2>3 DEF Ahead
<1>. QED BY <1>4, <1>7, <1>8 DEF s, e

\* The string at place i of memory d.
StringFrom(d, i) == SubSeq(d, i, Tk!Min({j \in i .. Len(d) : d[j] = NUL}) - 1)

\* Stretch r of w is a string of its own in d.
IsString(d, w, r) == d[r[2] + 1] = NUL /\ \A j \in r[1] .. r[2] : d[j] = w[j]

\* Two pieces of sequences that agree.
LEMMA SamePiece ==
  ASSUME NEW v, NEW w, NEW a \in Int, NEW b \in Int, \A j \in a .. b : v[j] = w[j]
  PROVE  SubSeq(v, a, b) = SubSeq(w, a, b)
<1>1. \A i \in 1 .. b - a + 1 : v[a + i - 1] = w[a + i - 1]
  OBVIOUS
<1>2. \A u : SubSeq(u, a, b) = [i \in 1 .. b - a + 1 |-> u[a + i - 1]]
  OBVIOUS
<1>. QED BY <1>1, <1>2

\* At the beginning of a stretch that was cut out it is that stretch.
LEMMA StringIs ==
  ASSUME NEW d, NEW w, IsText(w), d \in Seq(Chars \cup {NUL}), Len(d) = Len(w) + 1,
         NEW r \in Stretches(w), IsString(d, w, r)
  PROVE  StringFrom(d, r[1]) = SubSeq(w, r[1], r[2])
<1> DEFINE Ends == {j \in r[1] .. Len(d) : d[j] = NUL}
<1>0. d[r[2] + 1] = NUL /\ \A j \in r[1] .. r[2] : d[j] = w[j]
  BY DEF IsString
<1>1. /\ Len(w) \in Nat /\ \A i \in 1 .. Len(w) : w[i] # NUL
      /\ r[1] \in 1 .. Len(w) /\ r[2] \in r[1] .. Len(w)
  BY StretchIs DEF IsText
<1>2. r[2] + 1 \in Ends /\ \A j \in Ends : r[2] + 1 <= j
  <2>1. r[2] + 1 \in Ends
    BY <1>0, <1>1
  <2>2. ASSUME NEW j \in Ends PROVE r[2] + 1 <= j
    <3>1. j \notin r[1] .. r[2]
      BY <1>0, <1>1
    <3>. QED BY <1>1, <3>1
  <2>. QED BY <2>1, <2>2
<1>3. Tk!Min(Ends) = r[2] + 1
  <2>1. \A j \in Ends : j \in Int
    BY <1>1
  <2>2. Tk!Min(Ends) \in Ends /\ \A j \in Ends : Tk!Min(Ends) <= j
    <3>. HIDE DEF Ends
    <3>. QED BY <1>2 DEF Tk!Min
  <2>. HIDE DEF Ends
  <2>. QED BY <1>1, <1>2, <2>1, <2>2
<1>4. SubSeq(d, r[1], r[2]) = SubSeq(w, r[1], r[2])
  <2>1. r[1] \in Int /\ r[2] \in Int
    BY <1>1
  <2>. QED BY <1>0, <2>1, SamePiece, Zenon
<1>5. Tk!Min(Ends) - 1 = r[2]
  BY <1>1, <1>3
<1>. QED BY <1>4, <1>5 DEF StringFrom

\* One call keeps what is known of the text being read.
LEMMA TokenReads ==
  ASSUME NEW d, NEW at, NEW got, NEW w, Reading(d, at, got, w), Null \notin Nat
  PROVE  LET t == Tk!Token(d, at) IN Reading(t.mem, t.last, Append(got, t.token), w)
<1> DEFINE s == Start(d, at)
           e == Stop(d, at)
           r == <<s, e - 1>>
<1>1. /\ IsText(w) /\ got \in Seq(Nat \cup {Null}) /\ Unread(d, at, w) /\ CutOut(d, at, w)
      /\ Counted(Len(got), at, w) /\ Given(got, at, w)
      /\ Len(w) \in Nat /\ Len(got) \in Nat /\ at \in 1 .. Len(w) + 1
      /\ d \in Seq(Chars \cup {NUL}) /\ Len(d) = Len(w) + 1 /\ d[Len(d)] = NUL
  BY DEF Reading, IsText, Unread
<1>2. /\ Cardinality(Stretches(w)) \in Nat
      /\ \A x : Cardinality(Ahead(w, x)) \in Nat /\ Cardinality(Ahead(w, x)) <= Cardinality(Stretches(w))
  BY <1>1, FiniteStretches
<1>3. CASE d[s] = NUL
  <2>1. Tk!Token(d, at) = [mem |-> d, last |-> s, token |-> Null]
    BY <1>3 DEF Tk!Token, Start
  <2>2. s = Len(w) + 1 /\ s \in at .. Len(w) + 1
    BY <1>1, <1>3, ScanIs
  <2>3. Ahead(w, at) = Stretches(w) /\ Ahead(w, s) = Stretches(w)
    BY <1>1, <1>3, NoneLeft
  <2>4. Cardinality(Stretches(w)) <= Len(got)
    BY <1>1, <1>2, <2>3 DEF Counted
  <2>. HIDE DEF s
  <2>5. Unread(d, s, w)
    BY <1>1, <2>2 DEF Unread
  <2>6. CutOut(d, s, w)
    <3>1. ASSUME NEW q \in Ahead(w, s) PROVE q[2] < s
      <4>1. q[2] < at /\ q[2] \in Int
        BY <1>1, <2>3, StretchIs DEF CutOut
      <4>. QED BY <1>1, <2>2, <4>1
    <3>. QED BY <1>1, <2>3, <3>1 DEF CutOut
  <2> DEFINE g == Append(got, Null)
  <2>7. g \in Seq(Nat \cup {Null}) /\ Len(g) = Len(got) + 1
    BY <1>1
  <2>8. Counted(Len(g), s, w)
    BY <1>1, <1>2, <2>3, <2>4, <2>7 DEF Counted
  <2>9. Given(g, s, w)
    <3>1. ASSUME NEW k \in 1 .. Len(got) PROVE g[k] = got[k]
      BY <1>1
    <3>2. g[Len(got) + 1] = Null /\ Len(got) + 1 > Cardinality(Stretches(w))
      BY <1>1, <1>2, <2>4
    <3>3. \A k \in 1 .. Len(g) : k \in 1 .. Len(got) \/ k = Len(got) + 1
      BY <1>1, <2>7
    <3>. HIDE DEF g
    <3>. QED BY <1>1, <2>3, <3>1, <3>2, <3>3 DEF Given
  <2>10. Reading(d, s, g, w)
    BY <1>1, <2>5, <2>6, <2>7, <2>8, <2>9 DEF Reading
  <2>. QED BY <2>1, <2>10
<1>4. CASE d[s] # NUL
  <2> DEFINE c == IF d[e] = NUL THEN d ELSE [d EXCEPT ![e] = NUL]
             p == IF d[e] = NUL THEN e ELSE e + 1
             g == Append(got, s)
  <2>1. Tk!Token(d, at) = [mem |-> c, last |-> p, token |-> s]
    BY <1>4 DEF Tk!Token, Start, Stop
  <2>2. /\ s \in at .. Len(w) /\ e \in s + 1 .. Len(w) + 1
        /\ e = Len(w) + 1 \/ w[e] \in Delim
        /\ d[e] = NUL <=> e = Len(w) + 1
    BY <1>1, <1>4, ScanIs
  <2>3. /\ r \in Stretches(w) /\ r \notin Ahead(w, at) /\ Ahead(w, s) = Ahead(w, at)
        /\ \A x \in e .. e + 1 : Ahead(w, x) = Ahead(w, at) \cup {r}
    BY <1>1, <1>4, NextIs
  <2>. HIDE DEF s, e
  <2>4. p \in e .. e + 1 /\ p \in 1 .. Len(w) + 1 /\ (p = Len(w) + 1 \/ (p = e + 1 /\ w[p - 1] \in Delim))
    BY <1>1, <2>2
  <2>5. Ahead(w, p) = Ahead(w, at) \cup {r}
    BY <2>3, <2>4
  <2>6. /\ c \in Seq(Chars \cup {NUL}) /\ Len(c) = Len(d) /\ c[e] = NUL
        /\ \A j \in 1 .. Len(d) : j # e => c[j] = d[j]
    <3>1. e \in 1 .. Len(d) /\ NUL \in Chars \cup {NUL}
      BY <1>1, <2>2
    <3>2. CASE d[e] = NUL
      BY <1>1, <3>2
    <3>3. CASE d[e] # NUL
      <4>1. c = [d EXCEPT ![e] = NUL]
        BY <3>3
      <4>. HIDE DEF c
      <4>. QED BY <1>1, <3>1, <4>1, ExceptSeq
    <3>. QED BY <3>2, <3>3
  <2>. HIDE DEF c
  <2>7. Unread(c, p, w)
    <3>1. \A i \in at .. Len(w) : d[i] = w[i]
      BY <1>1 DEF Unread
    <3>2. \A i \in p .. Len(w) : c[i] = w[i]
      BY <1>1, <2>2, <2>4, <2>6, <3>1
    <3>3. c[Len(c)] = NUL
      BY <1>1, <2>6
    <3>4. p = 1 \/ p = Len(c) \/ w[p - 1] \in Delim
      BY <1>1, <2>4, <2>6
    <3>. QED BY <1>1, <2>4, <2>6, <3>2, <3>3, <3>4 DEF Unread
  <2>8. CutOut(c, p, w)
    <3>1. ASSUME NEW q \in Ahead(w, at)
          PROVE  q[2] < p /\ c[q[2] + 1] = NUL /\ \A j \in q[1] .. q[2] : c[j] = w[j]
      <4>1. /\ q[2] < at /\ d[q[2] + 1] = NUL /\ \A j \in q[1] .. q[2] : d[j] = w[j]
            /\ q[1] \in 1 .. Len(w) /\ q[2] \in q[1] .. Len(w)
        BY <1>1, StretchIs DEF CutOut, Ahead
      <4>2. q[2] < p /\ c[q[2] + 1] = NUL
        <5>1. q[2] < e /\ q[2] + 1 \in 1 .. Len(d)
          BY <1>1, <2>2, <4>1
        <5>2. p \in Int /\ q[2] < p
          BY <1>1, <2>2, <2>4, <4>1
        <5>. QED BY <2>6, <4>1, <5>1, <5>2
      <4>3. \A j \in q[1] .. q[2] : j \in 1 .. Len(d) /\ j # e
        BY <1>1, <2>2, <4>1
      <4>. QED BY <2>6, <4>1, <4>2, <4>3
    <3>2. r[2] < p /\ c[r[2] + 1] = NUL
      BY <1>1, <2>2, <2>4, <2>6
    <3>3. ASSUME NEW j \in s .. e - 1 PROVE c[j] = w[j]
      <4>1. j \in at .. Len(w) /\ j \in 1 .. Len(d) /\ j # e
        BY <1>1, <2>2
      <4>. QED BY <1>1, <2>6, <4>1 DEF Unread
    <3>. QED BY <2>5, <3>1, <3>2, <3>3 DEF CutOut
  <2>9. Cardinality(Ahead(w, at)) = Len(got)
    BY <1>1, <2>3 DEF Counted
  <2>10. Cardinality(Ahead(w, p)) = Len(got) + 1
    <3>1. IsFiniteSet(Ahead(w, at))
      BY <1>1, FiniteStretches
    <3>. QED BY <2>3, <2>5, <2>9, <3>1, FS_AddElement
  <2>11. g \in Seq(Nat \cup {Null}) /\ Len(g) = Len(got) + 1
    BY <1>1, <2>2
  <2>12. Counted(Len(g), p, w)
    BY <2>10, <2>11 DEF Counted
  <2>13. Given(g, p, w)
    <3>1. ASSUME NEW k \in 1 .. Len(got) PROVE g[k] = got[k]
      BY <1>1
    <3>2. g[Len(got) + 1] = s /\ Len(got) + 1 - 1 = Len(got)
      BY <1>1
    <3>3. \A k \in 1 .. Len(g) : k \in 1 .. Len(got) \/ k = Len(got) + 1
      BY <1>1, <2>11
    <3>4. r \in Ahead(w, p) /\ r[1] = s /\ Cardinality(Ahead(w, r[1])) = Len(got)
      BY <2>3, <2>5, <2>9
    <3>5. Ahead(w, at) \subseteq Ahead(w, p)
      BY <2>5
    <3>6. \E q \in Ahead(w, p) : q[1] = g[Len(got) + 1]
             /\ Cardinality(Ahead(w, q[1])) = Len(got) + 1 - 1
      BY <3>2, <3>4
    <3>. HIDE DEF g
    <3>7. ASSUME NEW k \in 1 .. Len(got)
          PROVE  \/ g[k] = Null /\ k > Cardinality(Stretches(w))
                 \/ \E q \in Ahead(w, p) : q[1] = g[k] /\ Cardinality(Ahead(w, q[1])) = k - 1
      BY <1>1, <3>1, <3>5 DEF Given
    <3>. QED BY <3>3, <3>6, <3>7 DEF Given
  <2>14. Reading(c, p, g, w)
    BY <1>1, <2>7, <2>8, <2>11, <2>12, <2>13 DEF Reading
  <2>. QED BY <2>1, <2>14
<1>. QED BY <1>3, <1>4

LEMMA TokenInit == Tk!Init => TokenInv
<1>1. <<>> \in Seq({Null})
  OBVIOUS
<1>. QED BY <1>1 DEF Tk!Init, TokenInv

\* strtok with a text begins to read it.
LEMMA TokenBegin ==
  ASSUME NEW w \in UNION {[1 .. l -> Chars] : l \in 0 .. MaxText}, Tk!Begin(w)
  PROVE  TokenInv'
<1> DEFINE d == Append(w, NUL)
<1>1. w \in Seq(Chars)
  <2>1. PICK l \in 0 .. MaxText : w \in [1 .. l -> Chars]
    OBVIOUS
  <2>2. l \in Nat
    OBVIOUS
  <2>. QED BY <2>1, <2>2, SeqDef
<1>2. Len(w) \in Nat /\ DOMAIN w = 1 .. Len(w)
  BY <1>1
<1>3. IsText(w) /\ Null \notin Nat
  <2>1. NUL \notin {w[i] : i \in DOMAIN w} /\ Null \notin Nat
    BY PlatformAssumption DEF Tk!TokenAssumption, Tk!ToSet, Chars
  <2>. QED BY <1>1, <1>2, <2>1 DEF IsText
<1>4. /\ d \in Seq(Chars \cup {NUL}) /\ Len(d) = Len(w) + 1 /\ d[Len(d)] = NUL
      /\ \A i \in 1 .. Len(w) : d[i] = w[i]
  BY <1>1
<1>5. Unread(d, 1, w)
  <2>. HIDE DEF d
  <2>. QED BY <1>2, <1>4 DEF Unread
<1>6. Ahead(w, 1) = {}
  <2>1. ASSUME NEW r \in Stretches(w) PROVE ~ (r[1] < 1)
    BY <1>2, <1>3, StretchIs
  <2>. QED BY <2>1 DEF Ahead
<1>7. /\ CutOut(d, 1, w) /\ Given(<<>>, 1, w) /\ <<>> \in Seq(Nat \cup {Null})
  BY <1>6 DEF CutOut, Given
<1>8. Counted(0, 1, w)
  BY <1>6, FS_EmptySet DEF Counted
<1>9. Reading(d, 1, <<>>, w)
  <2>1. Len(<<>>) = 0
    OBVIOUS
  <2>. HIDE DEF d
  <2>. QED BY <1>3, <1>5, <1>7, <1>8, <2>1 DEF Reading
<1> DEFINE t == Tk!Token(d, 1)
<1>10. Reading(t.mem, t.last, Append(<<>>, t.token), w)
  <2>. HIDE DEF d
  <2>. QED BY <1>3, <1>9, TokenReads
<1>11. line' = t.mem /\ last' = t.last /\ tokens' = <<t.token>> /\ origin' = w
  BY DEF Tk!Begin
<1>. HIDE DEF t
<1>12. Append(<<>>, t.token) = <<t.token>>
  OBVIOUS
<1>13. last' # Null
  BY <1>2, <1>3, <1>10, <1>11 DEF Reading, Unread
<1>. QED BY <1>10, <1>11, <1>12, <1>13 DEF TokenInv

\* strtok without one goes on where it stopped.
LEMMA TokenContinue == ASSUME TokenInv, Tk!Continue PROVE TokenInv'
<1>1. Null \notin Nat
  BY PlatformAssumption DEF Tk!TokenAssumption
<1>2. CASE last = Null
  <2>1. tokens' = Append(tokens, Null) /\ last' = Null /\ origin' = <<>> /\ tokens \in Seq({Null})
    BY <1>2 DEF Tk!Continue, TokenInv
  <2>2. Append(tokens, Null) \in Seq({Null})
    BY <2>1
  <2>. QED BY <2>1, <2>2 DEF TokenInv
<1>3. CASE last # Null
  <2> DEFINE t == Tk!Token(line, last)
  <2>1. Reading(line, last, tokens, origin)
    BY <1>3 DEF TokenInv
  <2>2. Reading(t.mem, t.last, Append(tokens, t.token), origin)
    BY <1>1, <2>1, TokenReads
  <2>3. line' = t.mem /\ last' = t.last /\ tokens' = Append(tokens, t.token) /\ origin' = origin
    BY <1>3 DEF Tk!Continue
  <2>. HIDE DEF t
  <2>4. last' # Null
    BY <1>1, <2>2, <2>3 DEF Reading, Unread, IsText
  <2>. QED BY <2>2, <2>3, <2>4 DEF TokenInv
<1>. QED BY <1>2, <1>3

LEMMA TokenNext == TokenInv /\ Tk!Next => TokenInv'
<1>. SUFFICES ASSUME TokenInv, Tk!Next PROVE TokenInv'
  OBVIOUS
<1>1. CASE Tk!Continue
  BY <1>1, TokenContinue
<1>2. CASE \E w \in UNION {[1 .. l -> Chars] : l \in 0 .. MaxText} : Tk!Begin(w)
  BY <1>2, TokenBegin
<1>. QED BY <1>1, <1>2 DEF Tk!Next, Chars

LEMMA TokenStays == TokenInv /\ UNCHANGED fields => TokenInv'
BY DEF TokenInv, fields

\* What the calls gave are the fields.
LEMMA TokensGiven ==
  ASSUME NEW d, NEW at, NEW got, NEW w, Reading(d, at, got, w), Null \notin Nat
  PROVE  \A k \in DOMAIN got :
           IF k <= Len(Tk!Fields(w))
           THEN /\ got[k] # Null
                /\ StringFrom(d, got[k]) = Tk!Fields(w)[k]
           ELSE got[k] = Null
<1> DEFINE all == Cardinality(Stretches(w))
<1>1. /\ IsText(w) /\ DOMAIN got = 1 .. Len(got) /\ Len(got) \in Nat /\ Len(w) \in Nat
      /\ CutOut(d, at, w) /\ Given(got, at, w) /\ d \in Seq(Chars \cup {NUL}) /\ Len(d) = Len(w) + 1
  BY DEF Reading, IsText, Unread
<1>2. all \in Nat
  BY <1>1, FiniteStretches
<1> DEFINE Field(k) == LET r == CHOOSE r \in Stretches(w) : Tk!Cardinality(Ahead(w, r[1])) = k - 1
                       IN  SubSeq(w, r[1], r[2])
<1>3. Tk!Fields(w) = [k \in 1 .. all |-> Field(k)]
  BY FieldsAre, CountsAgree
<1>. HIDE DEF all, Field
<1>4. Len(Tk!Fields(w)) = all /\ \A k \in 1 .. all : Tk!Fields(w)[k] = Field(k)
  <2> DEFINE S == {Field(k) : k \in 1 .. all}
  <2>1. Tk!Fields(w) \in [1 .. all -> S]
    BY <1>3
  <2>. HIDE DEF S
  <2>2. Tk!Fields(w) \in Seq(S)
    BY <1>2, <2>1, SeqDef
  <2>3. DOMAIN Tk!Fields(w) = 1 .. all /\ DOMAIN Tk!Fields(w) = 1 .. Len(Tk!Fields(w))
    BY <2>1, <2>2
  <2>4. Len(Tk!Fields(w)) = all
    <3>. HIDE DEF S
    <3>. QED BY <1>2, <2>2, <2>3
  <2>. QED BY <1>3, <2>4
<1>5. ASSUME NEW k \in 1 .. Len(got), NEW r \in Ahead(w, at), r[1] = got[k],
             Cardinality(Ahead(w, r[1])) = k - 1
      PROVE  /\ k <= all /\ got[k] # Null
             /\ StringFrom(d, got[k]) = Field(k)
  <2>1. r \in Stretches(w) /\ IsString(d, w, r)
    BY <1>1 DEF Ahead, CutOut, IsString
  <2>2. StringFrom(d, r[1]) = SubSeq(w, r[1], r[2])
    <3>1. IsText(w) /\ d \in Seq(Chars \cup {NUL}) /\ Len(d) = Len(w) + 1
      BY <1>1
    <3>. QED BY <2>1, <3>1, StringIs, Zenon
  <2>3. r = CHOOSE q \in Stretches(w) : Tk!Cardinality(Ahead(w, q[1])) = k - 1
    BY <1>1, <1>5, <2>1, RankIs
  <2>4. Field(k) = SubSeq(w, r[1], r[2])
    BY <2>3 DEF Field
  <2>5. got[k] # Null
    BY <1>1, <1>5, <2>1, StretchIs
  <2>6. k <= all
    <3>1. Ahead(w, r[1]) \in SUBSET Stretches(w) /\ IsFiniteSet(Stretches(w))
      BY <1>1, FiniteStretches
    <3>2. r \notin Ahead(w, r[1])
      <4>1. r[1] \in Int
        BY <1>1, <2>1, StretchIs
      <4>. QED BY <4>1 DEF Ahead
    <3>3. Ahead(w, r[1]) # Stretches(w)
      BY <2>1, <3>2
    <3>4. k - 1 <= all /\ k - 1 # all
      BY <1>5, <3>1, <3>3, FS_Subset DEF all
    <3>. QED BY <1>1, <1>2, <3>4
  <2>. QED BY <1>5, <2>2, <2>4, <2>5, <2>6
<1>6. ASSUME NEW k \in 1 .. Len(got)
      PROVE  IF k <= all
             THEN /\ got[k] # Null
                  /\ StringFrom(d, got[k]) = Field(k)
             ELSE got[k] = Null
  <2>1. CASE got[k] = Null /\ k > all
    BY <1>2, <2>1
  <2>2. CASE \E r \in Ahead(w, at) : r[1] = got[k] /\ Cardinality(Ahead(w, r[1])) = k - 1
    BY <1>5, <2>2
  <2>. QED BY <1>1, <2>1, <2>2 DEF Given, all
<1>7. ASSUME NEW k \in DOMAIN got
      PROVE  IF k <= Len(Tk!Fields(w))
             THEN got[k] # Null /\ StringFrom(d, got[k]) = Tk!Fields(w)[k]
             ELSE got[k] = Null
  <2>1. k \in 1 .. Len(got) /\ (k <= all => k \in 1 .. all)
    BY <1>1, <1>2
  <2>. QED BY <1>4, <1>6, <2>1
<1>. QED BY <1>7

\* The calls return the fields of the text begun last, in order and each once,
\* and then NULL; the strings returned earlier stay what they were: for texts of
\* any length, any separators, and a program that may begin anew at any time.
THEOREM FieldsInOrder == MCSpec => []TokensAreFields
<1>1. MCInit => TokenInv
  BY TokenInit DEF MCInit
<1>2. TokenInv /\ [MCNext]_<<vars, part, allocator, texts, fields, formats, lines, wire>> => TokenInv'
  BY TokenNext, TokenStays DEF MCNext
<1>3. TokenInv => TokensAreFields
  <2>. SUFFICES ASSUME TokenInv PROVE TokensAreFields
    OBVIOUS
  <2>1. Null \notin Nat
    BY PlatformAssumption DEF Tk!TokenAssumption
  <2>2. CASE last = Null
    <3>1. Stretches(<<>>) = {}
      BY DEF Stretches
    <3>2. Cardinality(Stretches(<<>>)) = 0
      BY <3>1, FS_EmptySet
    <3>3. Tk!Fields(<<>>) = <<>>
      <4>1. Tk!Cardinality(Stretches(<<>>)) = 0
        BY <3>2, CountsAgree
      <4>. QED BY <4>1, FieldsAre
    <3>4. Len(<<>>) = 0
      OBVIOUS
    <3>5. \A k \in DOMAIN tokens : k \in Nat \ {0} /\ tokens[k] = Null
      BY <2>2 DEF TokenInv
    <3>. QED BY <2>2, <3>3, <3>4, <3>5 DEF TokenInv, TokensAreFields, Tk!TokensAreFields
  <2>3. CASE last # Null
    <3>1. Reading(line, last, tokens, origin)
      BY <2>3 DEF TokenInv
    <3>2. \A i : Tk!StringAt(i) = StringFrom(line, i)
      BY DEF Tk!StringAt, StringFrom
    <3>3. \A k \in DOMAIN tokens :
            IF k <= Len(Tk!Fields(origin))
            THEN tokens[k] # Null /\ StringFrom(line, tokens[k]) = Tk!Fields(origin)[k]
            ELSE tokens[k] = Null
      BY <2>1, <3>1, TokensGiven
    <3>. QED BY <3>2, <3>3 DEF TokensAreFields, Tk!TokensAreFields
  <2>. QED BY <2>2, <2>3
<1>. QED BY <1>1, <1>2, <1>3, PTL DEF MCSpec

-----------------------------------------------------------------------------
(* Heap: sequences of addresses in ascending order.                        *)

\* What headers may be, and heaps.
Headers == UNION {[S -> [size : Nat, free : BOOLEAN]] : S \in SUBSET Nat}

Heaps == [hdr : Headers, list : Seq(Nat), brk : Nat]

LEMMA HeadersAre ==
  ASSUME NEW S \in SUBSET Nat, NEW h \in [S -> [size : Nat, free : BOOLEAN]]
  PROVE  h \in Headers
BY DEF Headers

\* A bounded set of naturals that is not empty has a greatest element.
LEMMA GreatestNat ==
  ASSUME NEW top \in Nat, NEW S \in SUBSET (0 .. top), S # {}
  PROVE  \E x \in S : \A y \in S : x >= y
<1> DEFINE Below == {d \in Nat : \E x \in S : d + x = top}
<1>1. Below \in SUBSET Nat
  OBVIOUS
<1>2. Below # {}
  <2>1. PICK x \in S : TRUE
    OBVIOUS
  <2>2. x \in Nat /\ top - x \in Nat /\ (top - x) + x = top
    OBVIOUS
  <2>. QED BY <2>1, <2>2
<1>3. PICK d \in Below : \A y \in Below : d <= y
  <2>. HIDE DEF Below
  <2>. QED BY <1>1, <1>2, LeastNat
<1>4. PICK x \in S : d + x = top
  OBVIOUS
<1>5. ASSUME NEW y \in S PROVE x >= y
  <2>1. y \in Nat /\ x \in Nat /\ top - y \in Nat /\ (top - y) + y = top
    OBVIOUS
  <2>2. top - y \in Below
    BY <2>1
  <2>3. d <= top - y
    BY <1>3, <2>2
  <2>. QED BY <1>4, <2>1, <2>3
<1>. QED BY <1>5

\* The first N of l are in ascending order, and are the members of S.
Ascending(l, N) == \A i, j \in 1 .. N : i < j => l[i] < l[j]

Lists(l, N, S) ==
  /\ \A i \in 1 .. N : l[i] \in S
  /\ \A a \in S : \E i \in 1 .. N : l[i] = a

\* w is l with a at place k + 1.
Put(w, l, N, k, a) ==
  /\ w \in Seq(Nat) /\ Len(w) = N + 1
  /\ \A i \in 1 .. k : w[i] = l[i]
  /\ w[k + 1] = a
  /\ \A i \in k + 2 .. N + 1 : w[i] = l[i - 1]

\* InsertAt, place by place.
LEMMA InsertAtIs ==
  ASSUME NEW l \in Seq(Nat), NEW N \in Nat, N = Len(l), NEW k \in 0 .. N, NEW a \in Nat,
         NEW w, w = Hp!InsertAt(l, k + 1, a)
  PROVE  Put(w, l, N, k, a)
<1> DEFINE u == SubSeq(l, 1, k)
           v == SubSeq(l, k + 1, N)
           t == u \o <<a>>
<1>1. \A i \in 1 .. N : l[i] \in Nat
  BY ElementOfSeq
<1>2. u \in Seq(Nat) /\ Len(u) = k /\ \A i \in 1 .. k : u[i] = l[i]
  <2>1. 1 \in Int /\ k \in Int /\ \A i \in 1 .. k : l[i] \in Nat
    BY <1>1
  <2>2. /\ SubSeq(l, 1, k) \in Seq(Nat)
        /\ Len(SubSeq(l, 1, k)) = IF 1 <= k THEN k - 1 + 1 ELSE 0
        /\ \A i \in 1 .. k - 1 + 1 : SubSeq(l, 1, k)[i] = l[1 + i - 1]
    BY <2>1, SubSeqProperties
  <2>. HIDE DEF u
  <2>3. k - 1 + 1 = k /\ \A i \in 1 .. k : 1 + i - 1 = i
    OBVIOUS
  <2>. QED BY <2>2, <2>3 DEF u
<1>3. v \in Seq(Nat) /\ Len(v) = N - k /\ \A i \in 1 .. N - k : v[i] = l[k + i]
  <2>1. k + 1 \in Int /\ N \in Int /\ \A i \in k + 1 .. N : l[i] \in Nat
    BY <1>1
  <2>2. /\ SubSeq(l, k + 1, N) \in Seq(Nat)
        /\ Len(SubSeq(l, k + 1, N)) = IF k + 1 <= N THEN N - (k + 1) + 1 ELSE 0
        /\ \A i \in 1 .. N - (k + 1) + 1 : SubSeq(l, k + 1, N)[i] = l[(k + 1) + i - 1]
    BY <2>1, SubSeqProperties
  <2>3. N - (k + 1) + 1 = N - k /\ (~ (k + 1 <= N) => N - k = 0) /\ \A i \in 1 .. N - k : (k + 1) + i - 1 = k + i
    OBVIOUS
  <2>. HIDE DEF v
  <2>. QED BY <2>2, <2>3 DEF v
<1>. HIDE DEF u, v
<1>4. /\ t \in Seq(Nat) /\ Len(t) = k + 1
      /\ \A i \in 1 .. k : t[i] = u[i]
      /\ t[k + 1] = a
  <2>1. <<a>> \in Seq(Nat) /\ Len(<<a>>) = 1 /\ <<a>>[1] = a
    OBVIOUS
  <2>2. /\ t \in Seq(Nat) /\ Len(t) = k + 1
        /\ \A i \in 1 .. k + 1 : t[i] = IF i <= k THEN u[i] ELSE <<a>>[i - k]
    <3>1. u \in Seq(Nat) /\ <<a>> \in Seq(Nat)
      BY <1>2, <2>1
    <3>2. /\ t \in Seq(Nat) /\ Len(t) = Len(u) + Len(<<a>>)
          /\ \A i \in 1 .. Len(u) + Len(<<a>>) : t[i] = IF i <= Len(u) THEN u[i] ELSE <<a>>[i - Len(u)]
      BY <3>1, ConcatProperties
    <3>. HIDE DEF t
    <3>. QED BY <1>2, <2>1, <3>2
  <2>. HIDE DEF t
  <2>3. k + 1 \in 1 .. k + 1 /\ ~ (k + 1 <= k) /\ k + 1 - k = 1
    OBVIOUS
  <2>4. \A i \in 1 .. k : i \in 1 .. k + 1 /\ i <= k
    OBVIOUS
  <2>. QED BY <2>1, <2>2, <2>3, <2>4
<1>5. Hp!InsertAt(l, k + 1, a) = t \o v
  <2>1. (k + 1) - 1 = k
    OBVIOUS
  <2>2. SubSeq(l, 1, (k + 1) - 1) = u /\ SubSeq(l, k + 1, Len(l)) = v
    BY <2>1, Zenon DEF u, v
  <2>. QED BY <2>2, Zenon DEF Hp!InsertAt
<1>. HIDE DEF t
<1>6. /\ t \o v \in Seq(Nat) /\ Len(t \o v) = Len(t) + Len(v)
      /\ \A i \in 1 .. Len(t) + Len(v) : (t \o v)[i] = IF i <= Len(t) THEN t[i] ELSE v[i - Len(t)]
  <2>1. t \in Seq(Nat) /\ v \in Seq(Nat)
    BY <1>3, <1>4
  <2>. QED BY <2>1, ConcatProperties
<1>70. w = t \o v
  BY <1>5
<1>7. /\ w \in Seq(Nat) /\ Len(w) = N + 1
      /\ \A i \in 1 .. N + 1 : w[i] = IF i <= k + 1 THEN t[i] ELSE v[i - (k + 1)]
  <2>1. Len(t) + Len(v) = N + 1
    BY <1>3, <1>4
  <2>. QED BY <1>4, <1>6, <1>70, <2>1
<1>8. \A i \in 1 .. k : w[i] = l[i]
  <2>1. \A i \in 1 .. k : i \in 1 .. N + 1 /\ i <= k + 1
    OBVIOUS
  <2>. QED BY <1>2, <1>4, <1>7, <2>1
<1>9. w[k + 1] = a
  <2>1. k + 1 \in 1 .. N + 1 /\ k + 1 <= k + 1
    OBVIOUS
  <2>. QED BY <1>4, <1>7, <2>1
<1>10. ASSUME NEW i \in k + 2 .. N + 1 PROVE w[i] = l[i - 1]
  <2>1. /\ i \in 1 .. N + 1 /\ ~ (i <= k + 1)
        /\ i - (k + 1) \in 1 .. N - k /\ k + (i - (k + 1)) = i - 1
    OBVIOUS
  <2>2. w[i] = v[i - (k + 1)]
    BY <1>7, <2>1
  <2>3. v[i - (k + 1)] = l[k + (i - (k + 1))]
    BY <1>3, <2>1
  <2>. QED BY <2>1, <2>2, <2>3
<1>. QED BY <1>7, <1>8, <1>9, <1>10 DEF Put

\* The first k of l lie below a, the others above.
Between(l, N, k, a) == (\A i \in 1 .. k : l[i] < a) /\ (\A i \in k + 1 .. N : a < l[i])

\* The order survives when a gets to where it belongs.
LEMMA OrderedInsert ==
  ASSUME NEW l, NEW N \in Nat, NEW S, Ascending(l, N), Lists(l, N, S),
         \A i \in 1 .. N : l[i] \in Nat,
         NEW a \in Nat, NEW k \in 0 .. N,
         Between(l, N, k, a), NEW w, Put(w, l, N, k, a)
  PROVE  Ascending(w, N + 1) /\ Lists(w, N + 1, S \cup {a})
<1>0. /\ \A i \in 1 .. k : w[i] = l[i]
      /\ w[k + 1] = a
      /\ \A i \in k + 2 .. N + 1 : w[i] = l[i - 1]
      /\ (\A i \in 1 .. k : l[i] < a) /\ (\A i \in k + 1 .. N : a < l[i])
  BY Zenon DEF Between, Put
<1>1. ASSUME NEW i \in 1 .. N + 1, NEW j \in 1 .. N + 1, i < j PROVE w[i] < w[j]
  <2>1. CASE j <= k
    <3>1. i \in 1 .. k /\ j \in 1 .. k /\ i \in 1 .. N /\ j \in 1 .. N
      BY <1>0, <1>1, <2>1
    <3>. QED BY <1>0, <1>1, <3>1 DEF Ascending
  <2>2. CASE j = k + 1
    <3>1. i \in 1 .. k
      BY <1>0, <1>1, <2>2
    <3>. QED BY <1>0, <2>2, <3>1
  <2>3. CASE j > k + 1
    <3>1. j \in k + 2 .. N + 1 /\ j - 1 \in k + 1 .. N /\ j - 1 \in 1 .. N
      BY <1>0, <2>3
    <3>2. CASE i <= k
      <4>1. i \in 1 .. k /\ i \in 1 .. N /\ i < j - 1
        BY <1>0, <3>1, <3>2
      <4>. QED BY <1>0, <3>1, <4>1 DEF Ascending
    <3>3. CASE i = k + 1
      BY <1>0, <3>1, <3>3
    <3>4. CASE i > k + 1
      <4>1. i \in k + 2 .. N + 1 /\ i - 1 \in 1 .. N /\ i - 1 < j - 1
        BY <1>0, <1>1, <3>1, <3>4
      <4>. QED BY <1>0, <3>1, <4>1 DEF Ascending
    <3>. QED BY <1>0, <3>2, <3>3, <3>4
  <2>. QED BY <1>0, <2>1, <2>2, <2>3
<1>2. ASSUME NEW i \in 1 .. N + 1 PROVE w[i] \in S \cup {a}
  <2>1. CASE i <= k
    BY <1>0, <2>1 DEF Lists
  <2>2. CASE i = k + 1
    BY <1>0, <2>2
  <2>3. CASE i > k + 1
    <3>1. i \in k + 2 .. N + 1 /\ i - 1 \in 1 .. N
      BY <1>0, <2>3
    <3>. QED BY <1>0, <3>1 DEF Lists
  <2>. QED BY <1>0, <2>1, <2>2, <2>3
<1>3. ASSUME NEW b \in S \cup {a} PROVE \E i \in 1 .. N + 1 : w[i] = b
  <2>1. CASE b = a
    <3>1. k + 1 \in 1 .. N + 1
      OBVIOUS
    <3>. QED BY <1>0, <2>1, <3>1
  <2>2. CASE b \in S
    <3>1. PICK i \in 1 .. N : l[i] = b
      BY <1>0, <2>2 DEF Lists
    <3>2. CASE i <= k
      <4>1. i \in 1 .. k /\ i \in 1 .. N + 1
        BY <1>0, <3>2
      <4>. QED BY <1>0, <3>1, <4>1
    <3>3. CASE i > k
      <4>1. i + 1 \in k + 2 .. N + 1 /\ i + 1 - 1 = i /\ i + 1 \in 1 .. N + 1
        BY <1>0, <3>3
      <4>. QED BY <1>0, <3>1, <4>1
    <3>. QED BY <1>0, <3>2, <3>3
  <2>. QED BY <1>0, <2>1, <2>2
<1>. QED BY <1>1, <1>2, <1>3 DEF Ascending, Lists

\* A block is put into the list of free blocks.
WithBlock(w, N, S, a) ==
  w \in Seq(Nat) /\ Len(w) = N + 1 /\ Ascending(w, N + 1) /\ Lists(w, N + 1, S \cup {a})

\* uheap_insert_free finds the place where a belongs.
LEMMA InsertedIs ==
  ASSUME NEW l \in Seq(Nat), NEW N \in Nat, N = Len(l), NEW S,
         Ascending(l, N), Lists(l, N, S), NEW a \in Nat, a \notin S,
         NEW w, w = Hp!InsertAt(l, Hp!Max({i \in 0 .. Len(l) : \A j \in 1 .. i : l[j] < a}) + 1, a)
  PROVE  WithBlock(w, N, S, a)
<1> DEFINE below == {i \in 0 .. Len(l) : \A j \in 1 .. i : l[j] < a}
           k == Hp!Max(below)
<1>0. w = Hp!InsertAt(l, k + 1, a)
  OBVIOUS
<1>1. \A i \in 1 .. N : l[i] \in Nat
  BY ElementOfSeq
<1>2. below \in SUBSET (0 .. N) /\ below # {}
  <2>1. 0 \in below
    OBVIOUS
  <2>. QED BY <2>1
<1>3. k \in below /\ \A i \in below : k >= i
  <2>. HIDE DEF below
  <2>1. \E x \in below : \A y \in below : x >= y
    BY <1>2, GreatestNat
  <2>. QED BY <2>1 DEF Hp!Max
<1>. HIDE DEF k
<1>4. k \in 0 .. N /\ \A j \in 1 .. k : l[j] < a
  BY <1>2, <1>3
<1>5. ASSUME k < N PROVE a < l[k + 1]
  <2>1. k + 1 \in 1 .. N /\ l[k + 1] \in Nat
    BY <1>1, <1>4, <1>5
  <2>2. CASE l[k + 1] < a
    <3>1. \A j \in 1 .. k + 1 : j \in 1 .. k \/ j = k + 1
      BY <1>4
    <3>2. \A j \in 1 .. k + 1 : l[j] < a
      BY <1>4, <2>2, <3>1
    <3>3. k + 1 \in below
      BY <2>1, <3>2
    <3>. QED BY <1>3, <1>4, <3>3
  <2>3. l[k + 1] # a
    BY <2>1 DEF Lists
  <2>. QED BY <2>1, <2>2, <2>3
<1>6. ASSUME NEW j \in k + 1 .. N PROVE a < l[j]
  <2>1. k < N /\ k + 1 \in 1 .. N /\ j \in 1 .. N
    BY <1>4
  <2>2. CASE j = k + 1
    BY <1>5, <2>1, <2>2
  <2>3. CASE j # k + 1
    <3>1. k + 1 < j
      BY <1>4, <2>3
    <3>2. l[k + 1] < l[j] /\ l[k + 1] \in Nat /\ l[j] \in Nat
      BY <1>1, <2>1, <3>1 DEF Ascending
    <3>. QED BY <1>5, <2>1, <3>2
  <2>. QED BY <2>2, <2>3
<1>. HIDE DEF below
<1>7. Put(w, l, N, k, a)
  <2>1. k \in 0 .. N
    BY <1>4
  <2>. QED BY <1>0, <2>1, InsertAtIs, Zenon
<1>8. Ascending(w, N + 1) /\ Lists(w, N + 1, S \cup {a})
  <2>1. k \in 0 .. N /\ Between(l, N, k, a)
    BY <1>4, <1>6 DEF Between
  <2>. QED BY <1>1, <1>7, <2>1, OrderedInsert, Zenon
<1>. QED BY <1>7, <1>8 DEF Put, WithBlock

\* w is l without place k.
Dropped(w, l, N, k) ==
  /\ w \in Seq(Nat) /\ Len(w) = N - 1
  /\ \A i \in 1 .. k - 1 : w[i] = l[i]
  /\ \A i \in k .. N - 1 : w[i] = l[i + 1]

\* RemoveAt, place by place.
LEMMA RemoveAtIs ==
  ASSUME NEW l \in Seq(Nat), NEW N \in Nat, N = Len(l), NEW k \in 1 .. N,
         NEW w, w = Hp!RemoveAt(l, k)
  PROVE  Dropped(w, l, N, k)
<1> DEFINE u == SubSeq(l, 1, k - 1)
           v == SubSeq(l, k + 1, N)
<1>1. \A i \in 1 .. N : l[i] \in Nat
  BY ElementOfSeq
<1>2. u \in Seq(Nat) /\ Len(u) = k - 1 /\ \A i \in 1 .. k - 1 : u[i] = l[i]
  <2>1. 1 \in Int /\ k - 1 \in Int /\ \A i \in 1 .. k - 1 : l[i] \in Nat
    BY <1>1
  <2>2. /\ SubSeq(l, 1, k - 1) \in Seq(Nat)
        /\ Len(SubSeq(l, 1, k - 1)) = IF 1 <= k - 1 THEN (k - 1) - 1 + 1 ELSE 0
        /\ \A i \in 1 .. (k - 1) - 1 + 1 : SubSeq(l, 1, k - 1)[i] = l[1 + i - 1]
    BY <2>1, SubSeqProperties
  <2>3. /\ (k - 1) - 1 + 1 = k - 1 /\ (~ (1 <= k - 1) => k - 1 = 0)
        /\ \A i \in 1 .. k - 1 : 1 + i - 1 = i
    OBVIOUS
  <2>. HIDE DEF u
  <2>. QED BY <2>2, <2>3 DEF u
<1>3. v \in Seq(Nat) /\ Len(v) = N - k /\ \A i \in 1 .. N - k : v[i] = l[k + i]
  <2>1. k + 1 \in Int /\ N \in Int /\ \A i \in k + 1 .. N : l[i] \in Nat
    BY <1>1
  <2>2. /\ SubSeq(l, k + 1, N) \in Seq(Nat)
        /\ Len(SubSeq(l, k + 1, N)) = IF k + 1 <= N THEN N - (k + 1) + 1 ELSE 0
        /\ \A i \in 1 .. N - (k + 1) + 1 : SubSeq(l, k + 1, N)[i] = l[(k + 1) + i - 1]
    BY <2>1, SubSeqProperties
  <2>3. N - (k + 1) + 1 = N - k /\ (~ (k + 1 <= N) => N - k = 0) /\ \A i \in 1 .. N - k : (k + 1) + i - 1 = k + i
    OBVIOUS
  <2>. HIDE DEF v
  <2>. QED BY <2>2, <2>3 DEF v
<1>. HIDE DEF u, v
<1>4. w = u \o v
  BY Zenon DEF Hp!RemoveAt, u, v
<1>5. /\ u \o v \in Seq(Nat) /\ Len(u \o v) = Len(u) + Len(v)
      /\ \A i \in 1 .. Len(u) + Len(v) : (u \o v)[i] = IF i <= Len(u) THEN u[i] ELSE v[i - Len(u)]
  <2>1. u \in Seq(Nat) /\ v \in Seq(Nat)
    BY <1>2, <1>3
  <2>. QED BY <2>1, ConcatProperties
<1>6. /\ w \in Seq(Nat) /\ Len(w) = N - 1
      /\ \A i \in 1 .. N - 1 : w[i] = IF i <= k - 1 THEN u[i] ELSE v[i - (k - 1)]
  <2>1. Len(u) + Len(v) = N - 1
    BY <1>2, <1>3
  <2>. QED BY <1>2, <1>4, <1>5, <2>1
<1>7. \A i \in 1 .. k - 1 : w[i] = l[i]
  <2>1. \A i \in 1 .. k - 1 : i \in 1 .. N - 1 /\ i <= k - 1
    OBVIOUS
  <2>. QED BY <1>2, <1>6, <2>1
<1>8. ASSUME NEW i \in k .. N - 1 PROVE w[i] = l[i + 1]
  <2>1. /\ i \in 1 .. N - 1 /\ ~ (i <= k - 1)
        /\ i - (k - 1) \in 1 .. N - k /\ k + (i - (k - 1)) = i + 1
    OBVIOUS
  <2>2. w[i] = v[i - (k - 1)]
    BY <1>6, <2>1
  <2>3. v[i - (k - 1)] = l[k + (i - (k - 1))]
    BY <1>3, <2>1
  <2>. QED BY <2>1, <2>2, <2>3
<1>. QED BY <1>6, <1>7, <1>8 DEF Dropped

\* A block is taken out of the list of free blocks.
LEMMA RemovedIs ==
  ASSUME NEW l, NEW N \in Nat, NEW S, Ascending(l, N), Lists(l, N, S),
         \A i \in 1 .. N : l[i] \in Nat,
         NEW k \in 1 .. N, NEW w, Dropped(w, l, N, k)
  PROVE  Ascending(w, N - 1) /\ Lists(w, N - 1, S \ {l[k]})
<1>0. (\A i \in 1 .. k - 1 : w[i] = l[i]) /\ \A i \in k .. N - 1 : w[i] = l[i + 1]
  BY Zenon DEF Dropped
<1>1. ASSUME NEW i \in 1 .. N - 1, NEW j \in 1 .. N - 1, i < j PROVE w[i] < w[j]
  <2>1. CASE j < k
    <3>1. i \in 1 .. k - 1 /\ j \in 1 .. k - 1 /\ i \in 1 .. N /\ j \in 1 .. N
      BY <1>1, <2>1
    <3>. QED BY <1>0, <1>1, <3>1 DEF Ascending
  <2>2. CASE j >= k
    <3>1. j \in k .. N - 1 /\ j + 1 \in 1 .. N
      BY <2>2
    <3>2. CASE i < k
      <4>1. i \in 1 .. k - 1 /\ i \in 1 .. N /\ i < j + 1
        BY <1>1, <3>2
      <4>. QED BY <1>0, <3>1, <4>1 DEF Ascending
    <3>3. CASE i >= k
      <4>1. i \in k .. N - 1 /\ i + 1 \in 1 .. N /\ i + 1 < j + 1
        BY <1>1, <3>3
      <4>. QED BY <1>0, <3>1, <4>1 DEF Ascending
    <3>. QED BY <3>2, <3>3
  <2>. QED BY <2>1, <2>2
<1>2. ASSUME NEW i \in 1 .. N, i # k PROVE l[i] # l[k]
  <2>1. i < k \/ k < i
    BY <1>2
  <2>. QED BY <2>1 DEF Ascending
<1>3. ASSUME NEW i \in 1 .. N - 1 PROVE w[i] \in S \ {l[k]}
  <2>1. CASE i < k
    <3>1. i \in 1 .. k - 1 /\ i \in 1 .. N /\ i # k
      BY <2>1
    <3>. QED BY <1>0, <1>2, <3>1 DEF Lists
  <2>2. CASE i >= k
    <3>1. i \in k .. N - 1 /\ i + 1 \in 1 .. N /\ i + 1 # k
      BY <2>2
    <3>. QED BY <1>0, <1>2, <3>1 DEF Lists
  <2>. QED BY <2>1, <2>2
<1>4. ASSUME NEW b \in S \ {l[k]} PROVE \E i \in 1 .. N - 1 : w[i] = b
  <2>1. PICK i \in 1 .. N : l[i] = b
    BY <1>4 DEF Lists
  <2>2. CASE i < k
    <3>1. i \in 1 .. k - 1 /\ i \in 1 .. N - 1
      BY <2>2
    <3>. QED BY <1>0, <2>1, <3>1
  <2>3. CASE i > k
    <3>1. i - 1 \in k .. N - 1 /\ (i - 1) + 1 = i /\ i - 1 \in 1 .. N - 1
      BY <2>3
    <3>. QED BY <1>0, <2>1, <3>1
  <2>. QED BY <1>4, <2>1, <2>2, <2>3
<1>. QED BY <1>1, <1>3, <1>4 DEF Ascending, Lists

-----------------------------------------------------------------------------
(* Heap: blocks that lie end to end.                                       *)

\* The blocks lie end to end from 0 to the break.
Tiled(H) ==
  /\ DOMAIN H.hdr \subseteq Nat /\ H.brk \in Nat
  /\ \A a \in DOMAIN H.hdr :
       /\ Hp!End(H, a) \in Nat /\ a + 3 <= Hp!End(H, a) /\ Hp!End(H, a) <= H.brk
       /\ Hp!End(H, a) \in DOMAIN H.hdr \cup {H.brk}
  /\ \A a, b \in DOMAIN H.hdr : a < b => Hp!End(H, a) <= b
  /\ \A b \in DOMAIN H.hdr \cup {H.brk} : b # 0 => \E a \in DOMAIN H.hdr : Hp!End(H, a) = b
  /\ 0 \in DOMAIN H.hdr \cup {H.brk}

\* Block a is cut at b.
LEMMA SplitTiles ==
  ASSUME NEW H, Tiled(H), NEW a \in DOMAIN H.hdr,
         NEW b \in Nat, a + 3 <= b, b + 3 <= Hp!End(H, a),
         NEW G, DOMAIN G.hdr = DOMAIN H.hdr \cup {b}, G.brk = H.brk,
         Hp!End(G, a) = b, Hp!End(G, b) = Hp!End(H, a),
         \A c \in DOMAIN H.hdr : c # a => Hp!End(G, c) = Hp!End(H, c)
  PROVE  Tiled(G) /\ b \notin DOMAIN H.hdr
<1>1. \A c \in DOMAIN H.hdr : c <= a \/ Hp!End(H, a) <= c
  BY DEF Tiled
<1>2. b \notin DOMAIN H.hdr
  BY <1>1 DEF Tiled
<1>3. \A c \in DOMAIN G.hdr :
        /\ Hp!End(G, c) \in Nat /\ c + 3 <= Hp!End(G, c) /\ Hp!End(G, c) <= G.brk
        /\ Hp!End(G, c) \in DOMAIN G.hdr \cup {G.brk}
  BY <1>2 DEF Tiled
<1>4. ASSUME NEW c \in DOMAIN G.hdr, NEW d \in DOMAIN G.hdr, c < d PROVE Hp!End(G, c) <= d
  BY <1>1, <1>2, <1>4 DEF Tiled
<1>5. ASSUME NEW d \in DOMAIN G.hdr \cup {G.brk}, d # 0 PROVE \E c \in DOMAIN G.hdr : Hp!End(G, c) = d
  <2>1. CASE d = b
    BY <2>1
  <2>2. CASE d # b
    <3>1. PICK c \in DOMAIN H.hdr : Hp!End(H, c) = d
      BY <1>5, <2>2 DEF Tiled
    <3>. QED BY <1>2, <3>1
  <2>. QED BY <2>1, <2>2
<1>6. DOMAIN G.hdr \subseteq Nat /\ G.brk \in Nat /\ 0 \in DOMAIN G.hdr \cup {G.brk}
  BY DEF Tiled
<1>. QED BY <1>2, <1>3, <1>4, <1>5, <1>6 DEF Tiled

\* Block a takes in the block b behind it.
LEMMA MergeTiles ==
  ASSUME NEW H, Tiled(H), NEW a \in DOMAIN H.hdr, NEW b \in DOMAIN H.hdr, b = Hp!End(H, a),
         NEW G, DOMAIN G.hdr = DOMAIN H.hdr \ {b}, G.brk = H.brk,
         Hp!End(G, a) = Hp!End(H, b),
         \A c \in DOMAIN H.hdr \ {b} : c # a => Hp!End(G, c) = Hp!End(H, c)
  PROVE  Tiled(G)
<1>1. \A c \in DOMAIN H.hdr : c # a => Hp!End(H, c) # b
  BY DEF Tiled
<1>2. a # b /\ a \in DOMAIN G.hdr /\ a < b
  BY DEF Tiled
<1>3. \A c \in DOMAIN G.hdr :
        /\ Hp!End(G, c) \in Nat /\ c + 3 <= Hp!End(G, c) /\ Hp!End(G, c) <= G.brk
        /\ Hp!End(G, c) \in DOMAIN G.hdr \cup {G.brk}
  <2>1. Hp!End(H, b) # b
    BY DEF Tiled
  <2>. QED BY <1>1, <1>2, <2>1 DEF Tiled
<1>4. ASSUME NEW c \in DOMAIN G.hdr, NEW d \in DOMAIN G.hdr, c < d PROVE Hp!End(G, c) <= d
  <2>1. CASE c = a
    <3>1. b <= d /\ d # b /\ b \in Nat /\ d \in Nat
      BY <1>2, <1>4, <2>1 DEF Tiled
    <3>2. b < d
      BY <3>1
    <3>3. Hp!End(H, b) <= d
      BY <3>2 DEF Tiled
    <3>. QED BY <2>1, <3>3
  <2>2. CASE c # a
    BY <1>4, <2>2 DEF Tiled
  <2>. QED BY <2>1, <2>2
<1>5. ASSUME NEW d \in DOMAIN G.hdr \cup {G.brk}, d # 0 PROVE \E c \in DOMAIN G.hdr : Hp!End(G, c) = d
  <2>1. PICK c \in DOMAIN H.hdr : Hp!End(H, c) = d
    BY <1>5 DEF Tiled
  <2>2. CASE c = a
    BY <1>2, <1>5, <2>1, <2>2 DEF Tiled
  <2>3. CASE c = b
    BY <1>2, <2>1, <2>3
  <2>4. CASE c # a /\ c # b
    BY <2>1, <2>4
  <2>. QED BY <2>2, <2>3, <2>4
<1>6. DOMAIN G.hdr \subseteq Nat /\ G.brk \in Nat /\ 0 \in DOMAIN G.hdr \cup {G.brk}
  BY <1>2 DEF Tiled
<1>. QED BY <1>3, <1>4, <1>5, <1>6 DEF Tiled

\* A block is added at the end.
LEMMA ExtendTiles ==
  ASSUME NEW H, Tiled(H), NEW G, DOMAIN G.hdr = DOMAIN H.hdr \cup {H.brk},
         G.brk \in Nat, H.brk + 3 <= G.brk, Hp!End(G, H.brk) = G.brk,
         \A c \in DOMAIN H.hdr : Hp!End(G, c) = Hp!End(H, c)
  PROVE  Tiled(G) /\ H.brk \notin DOMAIN H.hdr
<1>1. \A c \in DOMAIN H.hdr : c < H.brk
  BY DEF Tiled
<1>2. H.brk \notin DOMAIN H.hdr /\ H.brk \in Nat
  BY <1>1 DEF Tiled
<1>3. \A c \in DOMAIN G.hdr :
        /\ Hp!End(G, c) \in Nat /\ c + 3 <= Hp!End(G, c) /\ Hp!End(G, c) <= G.brk
        /\ Hp!End(G, c) \in DOMAIN G.hdr \cup {G.brk}
  BY <1>2 DEF Tiled
<1>4. ASSUME NEW c \in DOMAIN G.hdr, NEW d \in DOMAIN G.hdr, c < d PROVE Hp!End(G, c) <= d
  <2>1. c \in DOMAIN H.hdr
    BY <1>1, <1>2, <1>4 DEF Tiled
  <2>2. CASE d \in DOMAIN H.hdr
    BY <1>4, <2>1, <2>2 DEF Tiled
  <2>3. CASE d = H.brk
    BY <2>1, <2>3 DEF Tiled
  <2>. QED BY <2>2, <2>3
<1>5. ASSUME NEW d \in DOMAIN G.hdr \cup {G.brk}, d # 0 PROVE \E c \in DOMAIN G.hdr : Hp!End(G, c) = d
  <2>1. CASE d = G.brk
    BY <2>1
  <2>2. CASE d # G.brk
    <3>1. PICK c \in DOMAIN H.hdr : Hp!End(H, c) = d
      BY <1>5, <2>2 DEF Tiled
    <3>. QED BY <3>1
  <2>. QED BY <2>1, <2>2
<1>6. DOMAIN G.hdr \subseteq Nat /\ G.brk \in Nat /\ 0 \in DOMAIN G.hdr \cup {G.brk}
  BY DEF Tiled
<1>. QED BY <1>2, <1>3, <1>4, <1>5, <1>6 DEF Tiled

-----------------------------------------------------------------------------
(* Heap: the functions on a heap.                                          *)

Freed(H) == {a \in DOMAIN H.hdr : H.hdr[a].free}
Used(H) == {a \in DOMAIN H.hdr : ~ H.hdr[a].free}

\* The list of free blocks has all of them, in the order of addresses.
Listed(H, S) == Ascending(H.list, Len(H.list)) /\ Lists(H.list, Len(H.list), S)

\* The blocks of H are those of G, but for a.
SameBut(G, H, a) ==
  \A b \in DOMAIN H.hdr : b # a => G.hdr[b] = H.hdr[b] /\ Hp!End(G, b) = Hp!End(H, b)

\* A block has a header, and ends behind it.
LEMMA EndIs ==
  ASSUME NEW H \in Heaps, NEW a \in DOMAIN H.hdr
  PROVE  /\ a \in Nat /\ H.hdr[a] \in [size : Nat, free : BOOLEAN]
         /\ Hp!End(H, a) = a + 3 + H.hdr[a].size
         /\ Hp!End(H, a) \in Nat /\ a + 3 <= Hp!End(H, a)
<1>1. PICK S \in SUBSET Nat : H.hdr \in [S -> [size : Nat, free : BOOLEAN]]
  BY DEF Heaps, Headers
<1>2. a \in Nat /\ H.hdr[a] \in [size : Nat, free : BOOLEAN] /\ H.hdr[a].size \in Nat
  BY <1>1
<1>. QED BY <1>2 DEF Hp!End, Hp!Header

\* G is H with a header written.
HasHeader(G, H, a, sz, free) ==
  /\ G \in Heaps /\ G.list = H.list /\ G.brk = H.brk
  /\ DOMAIN G.hdr = DOMAIN H.hdr \cup {a}
  /\ G.hdr[a] = [size |-> sz, free |-> free] /\ Hp!End(G, a) = a + 3 + sz
  /\ SameBut(G, H, a)

\* One header is written, and no other changes.
LEMMA HeaderIsSet ==
  ASSUME NEW H \in Heaps, NEW a \in Nat, NEW sz \in Nat, NEW free \in BOOLEAN,
         NEW G, G = Hp!SetHeader(H, a, sz, free)
  PROVE  HasHeader(G, H, a, sz, free)
<1> DEFINE h == [b \in DOMAIN H.hdr \cup {a} |-> IF b = a THEN [size |-> sz, free |-> free] ELSE H.hdr[b]]
<1>1. h \in Headers
  <2>1. PICK S \in SUBSET Nat : H.hdr \in [S -> [size : Nat, free : BOOLEAN]]
    BY DEF Heaps, Headers
  <2>2. h \in [S \cup {a} -> [size : Nat, free : BOOLEAN]]
    BY <2>1
  <2>. HIDE DEF h
  <2>. QED BY <2>2, HeadersAre
<1>2. G = [H EXCEPT !.hdr = h]
  BY DEF Hp!SetHeader
<1>3. /\ DOMAIN h = DOMAIN H.hdr \cup {a} /\ h[a] = [size |-> sz, free |-> free] /\ h[a].size = sz
      /\ \A b \in DOMAIN H.hdr : b # a => h[b] = H.hdr[b]
  OBVIOUS
<1>. HIDE DEF h
<1>4. G \in Heaps /\ G.hdr = h /\ G.list = H.list /\ G.brk = H.brk
  BY <1>1, <1>2 DEF Heaps
<1>. QED BY <1>3, <1>4 DEF HasHeader, SameBut, Hp!End, Hp!Header

\* A block is freed: its header says so, and it gets into the list.
LEMMA InsertFreeIs ==
  ASSUME NEW H \in Heaps, NEW S, Listed(H, S), NEW a \in DOMAIN H.hdr, a \notin S,
         NEW G, G = Hp!InsertFree(H, a)
  PROVE  /\ G \in Heaps /\ G.brk = H.brk /\ DOMAIN G.hdr = DOMAIN H.hdr
         /\ G.hdr[a].free = TRUE /\ Hp!End(G, a) = Hp!End(H, a)
         /\ SameBut(G, H, a)
         /\ Listed(G, S \cup {a})
<1> DEFINE below == {i \in 0 .. Len(H.list) : \A j \in 1 .. i : H.list[j] < a}
           w == Hp!InsertAt(H.list, Hp!Max(below) + 1, a)
           h == [H.hdr EXCEPT ![a].free = TRUE]
<1>1. a \in Nat /\ H.hdr[a] \in [size : Nat, free : BOOLEAN]
  BY EndIs
<1>2. H.list \in Seq(Nat) /\ Len(H.list) \in Nat
  BY LenProperties DEF Heaps
<1>3. w \in Seq(Nat) /\ Ascending(w, Len(w)) /\ Lists(w, Len(w), S \cup {a})
  <2> DEFINE l == H.list
             N == Len(l)
  <2>1. l \in Seq(Nat) /\ N \in Nat /\ N = Len(l) /\ Ascending(l, N) /\ Lists(l, N, S)
    BY <1>2 DEF Listed
  <2>2. w = Hp!InsertAt(l, Hp!Max({i \in 0 .. Len(l) : \A j \in 1 .. i : l[j] < a}) + 1, a)
    OBVIOUS
  <2>. HIDE DEF w, N, l
  <2>3. WithBlock(w, N, S, a)
    BY <1>1, <2>1, <2>2, InsertedIs, Zenon
  <2>. QED BY <2>3 DEF WithBlock
<1>4. h \in Headers
  <2>1. PICK D \in SUBSET Nat : H.hdr \in [D -> [size : Nat, free : BOOLEAN]]
    BY DEF Heaps, Headers
  <2>2. h \in [D -> [size : Nat, free : BOOLEAN]]
    BY <1>1, <2>1
  <2>. HIDE DEF h
  <2>. QED BY <2>2, HeadersAre
<1>5. /\ DOMAIN h = DOMAIN H.hdr
      /\ h[a].free = TRUE /\ h[a].size = H.hdr[a].size
      /\ \A b \in DOMAIN H.hdr : b # a => h[b] = H.hdr[b]
  BY <1>1
<1>6. G = [H EXCEPT !.hdr = h, !.list = w]
  BY DEF Heaps, Hp!InsertFree
<1>. HIDE DEF h, w
<1>7. G \in Heaps /\ G.brk = H.brk /\ G.hdr = h /\ G.list = w
  BY <1>3, <1>4, <1>6 DEF Heaps
<1>8. Listed(G, S \cup {a})
  BY <1>3, <1>7, Zenon DEF Listed
<1>9. SameBut(G, H, a) /\ Hp!End(G, a) = Hp!End(H, a)
  BY <1>5, <1>7 DEF SameBut, Hp!End
<1>. QED BY <1>5, <1>7, <1>8, <1>9

\* A place of the list is taken out.
LEMMA TakenOut ==
  ASSUME NEW H \in Heaps, NEW S, Listed(H, S), NEW k \in DOMAIN H.list,
         NEW G, G = [H EXCEPT !.list = Hp!RemoveAt(@, k)]
  PROVE  /\ G \in Heaps /\ G.brk = H.brk /\ G.hdr = H.hdr
         /\ \A b : Hp!End(G, b) = Hp!End(H, b)
         /\ Listed(G, S \ {H.list[k]})
<1> DEFINE l == H.list
           N == Len(l)
           w == Hp!RemoveAt(l, k)
<1>1. l \in Seq(Nat) /\ N \in Nat /\ N = Len(l) /\ Ascending(l, N) /\ Lists(l, N, S) /\ k \in 1 .. N
  BY LenProperties DEF Heaps, Listed
<1>2. w = Hp!RemoveAt(l, k) /\ G = [H EXCEPT !.list = w]
  OBVIOUS
<1>3. \A i \in 1 .. N : l[i] \in Nat
  <2>. HIDE DEF l, w
  <2>. QED BY <1>1, ElementOfSeq
<1>. HIDE DEF N, l, w
<1>4. Dropped(w, l, N, k)
  BY <1>1, <1>2, RemoveAtIs, Zenon
<1>5. Ascending(w, N - 1) /\ Lists(w, N - 1, S \ {l[k]})
  BY <1>1, <1>3, <1>4, RemovedIs, Zenon
<1>6. w \in Seq(Nat) /\ Len(w) = N - 1
  BY <1>4, Zenon DEF Dropped
<1>7. /\ G \in Heaps /\ G.list = w /\ G.hdr = H.hdr /\ G.brk = H.brk
      /\ \A b : Hp!End(G, b) = Hp!End(H, b)
  <2>1. G \in Heaps /\ G.list = w /\ G.hdr = H.hdr /\ G.brk = H.brk
    BY <1>2, <1>6 DEF Heaps
  <2>. QED BY <2>1 DEF Hp!End
<1>8. Listed(G, S \ {H.list[k]})
  BY <1>5, <1>6, <1>7, Zenon DEF Listed, l
<1>. QED BY <1>7, <1>8

\* Block a takes in the free block b behind it, which is off the list.
LEMMA MergeIs ==
  ASSUME NEW H \in Heaps, NEW a \in DOMAIN H.hdr, NEW b \in DOMAIN H.hdr, b = Hp!End(H, a),
         NEW G, G = Hp!Merge(H, a, b)
  PROVE  /\ G \in Heaps /\ G.list = H.list /\ G.brk = H.brk
         /\ DOMAIN G.hdr = DOMAIN H.hdr \ {b} /\ a # b
         /\ G.hdr[a] = [size |-> H.hdr[a].size + 3 + H.hdr[b].size, free |-> H.hdr[a].free]
         /\ Hp!End(G, a) = Hp!End(H, b)
         /\ \A c \in DOMAIN H.hdr \ {b} : c # a => G.hdr[c] = H.hdr[c] /\ Hp!End(G, c) = Hp!End(H, c)
<1> DEFINE h == [c \in DOMAIN H.hdr \ {b} |-> H.hdr[c]]
           W == Hp!Wipe(H, b)
           sz == H.hdr[a].size + 3 + H.hdr[b].size
           fr == H.hdr[a].free
<1>1. /\ a \in Nat /\ H.hdr[a] \in [size : Nat, free : BOOLEAN] /\ Hp!End(H, a) = a + 3 + H.hdr[a].size
      /\ b \in Nat /\ H.hdr[b] \in [size : Nat, free : BOOLEAN] /\ Hp!End(H, b) = b + 3 + H.hdr[b].size
  BY EndIs
<1>2. a # b /\ sz \in Nat /\ fr \in BOOLEAN /\ a + 3 + sz = Hp!End(H, b)
  BY <1>1
<1>3. h \in Headers
  <2>1. PICK S \in SUBSET Nat : H.hdr \in [S -> [size : Nat, free : BOOLEAN]]
    BY DEF Heaps, Headers
  <2>2. h \in [S \ {b} -> [size : Nat, free : BOOLEAN]] /\ S \ {b} \in SUBSET Nat
    BY <2>1
  <2>. HIDE DEF h
  <2>. QED BY <2>2, HeadersAre
<1>4. W = [H EXCEPT !.hdr = h]
  BY DEF Hp!Wipe
<1>5. DOMAIN h = DOMAIN H.hdr \ {b} /\ \A c \in DOMAIN H.hdr \ {b} : h[c] = H.hdr[c]
  OBVIOUS
<1>. HIDE DEF h, W
<1>6. W \in Heaps /\ W.hdr = h /\ W.list = H.list /\ W.brk = H.brk
  BY <1>3, <1>4 DEF Heaps
<1>7. G = Hp!SetHeader(W, a, sz, fr)
  BY DEF Hp!Merge, W, Hp!Header
<1>. HIDE DEF sz, fr
<1>8. HasHeader(G, W, a, sz, fr)
  BY <1>1, <1>2, <1>6, <1>7, HeaderIsSet, Zenon
<1>9. \A c \in DOMAIN H.hdr \ {b} : Hp!End(W, c) = Hp!End(H, c)
  BY <1>5, <1>6 DEF Hp!End
<1>. QED BY <1>2, <1>5, <1>6, <1>8, <1>9 DEF HasHeader, SameBut, sz, fr

-----------------------------------------------------------------------------
(* Heap: cutting blocks, giving them out and growing them.                 *)

\* A well-formed heap: its blocks tile it, and the free ones are listed.
Sound(H) == H \in Heaps /\ Tiled(H) /\ Listed(H, Freed(H))

\* Tiling depends on where the blocks begin and end only.
LEMMA SameTiles ==
  ASSUME NEW H, Tiled(H), NEW G, DOMAIN G.hdr = DOMAIN H.hdr, G.brk = H.brk,
         \A b \in DOMAIN H.hdr : Hp!End(G, b) = Hp!End(H, b)
  PROVE  Tiled(G)
BY DEF Tiled

\* G has the blocks in use that H has, and a, which has room for need.
Gives(G, H, a, need) ==
  /\ Sound(G)
  /\ Used(G) = Used(H) \cup {a}
  /\ \A b \in Used(H) : b # a => G.hdr[b] = H.hdr[b]
  /\ G.hdr[a].size >= need

\* uheap_split_if_needed leaves need units to a, and lists the rest.
LEMMA SplitIs ==
  ASSUME NEW H, Sound(H), NEW a \in Used(H), NEW need \in Nat, need <= H.hdr[a].size,
         NEW G, G = Hp!Split(H, a, need)
  PROVE  Gives(G, H, a, need) /\ G.brk = H.brk
<1> DEFINE sz == H.hdr[a].size
           rest == sz - need
           b == a + 3 + need
           F == Hp!SetHeader(H, a, need, H.hdr[a].free)
           E == Hp!SetHeader(F, b, rest - 3, TRUE)
<1>1. /\ H \in Heaps /\ a \in DOMAIN H.hdr /\ a \in Nat /\ sz \in Nat
      /\ H.hdr[a].free = FALSE /\ Hp!End(H, a) = a + 3 + sz
  BY EndIs DEF Sound, Used
<1>2. CASE rest < 7
  <2>1. G = H
    BY <1>2 DEF Hp!Split, Hp!Rest
  <2>. QED BY <1>1, <2>1 DEF Gives
<1>3. CASE ~ (rest < 7)
  <2>1. G = Hp!InsertFree(E, b) /\ F = Hp!SetHeader(H, a, need, FALSE)
    BY <1>1, <1>3, Zenon DEF Hp!Split, Hp!Rest, Hp!Header
  <2>2. b \in Nat /\ rest - 3 \in Nat /\ b + 3 + (rest - 3) = a + 3 + sz /\ a + 3 <= b /\ b + 3 <= a + 3 + sz
    BY <1>1, <1>3
  <2>. HIDE DEF F, E, b, rest, sz
  <2>3. HasHeader(F, H, a, need, FALSE)
    BY <1>1, <2>1, HeaderIsSet
  <2>4. HasHeader(E, F, b, rest - 3, TRUE)
    <3>1. F \in Heaps
      BY <2>3 DEF HasHeader
    <3>. QED BY <2>2, <3>1, HeaderIsSet DEF E
  <2>5. b # a
    BY <1>1, <2>2
  <2>6. \A c \in DOMAIN H.hdr : c <= a \/ Hp!End(H, a) <= c
    BY <1>1 DEF Sound, Tiled
  <2>7. b \notin DOMAIN H.hdr
    BY <1>1, <2>2, <2>6 DEF Sound, Tiled
  <2>8. /\ E \in Heaps /\ E.list = H.list /\ E.brk = H.brk /\ DOMAIN E.hdr = DOMAIN H.hdr \cup {b}
        /\ E.hdr[a] = [size |-> need, free |-> FALSE] /\ Hp!End(E, a) = a + 3 + need
        /\ E.hdr[b] = [size |-> rest - 3, free |-> TRUE] /\ Hp!End(E, b) = a + 3 + sz
        /\ \A c \in DOMAIN H.hdr : c # a => E.hdr[c] = H.hdr[c] /\ Hp!End(E, c) = Hp!End(H, c)
    BY <1>1, <2>2, <2>3, <2>4, <2>5, <2>7 DEF HasHeader, SameBut
  <2>9. Listed(E, Freed(H)) /\ b \notin Freed(H) /\ b \in DOMAIN E.hdr
    BY <2>7, <2>8 DEF Sound, Listed, Freed
  <2>10. /\ G \in Heaps /\ G.brk = E.brk /\ DOMAIN G.hdr = DOMAIN E.hdr
         /\ G.hdr[b].free = TRUE /\ Hp!End(G, b) = Hp!End(E, b)
         /\ SameBut(G, E, b)
         /\ Listed(G, Freed(H) \cup {b})
    BY <2>1, <2>8, <2>9, InsertFreeIs
  <2>11. /\ DOMAIN G.hdr = DOMAIN H.hdr \cup {b} /\ G.brk = H.brk
         /\ Hp!End(G, a) = b /\ Hp!End(G, b) = Hp!End(H, a)
         /\ \A c \in DOMAIN H.hdr : c # a => G.hdr[c] = H.hdr[c] /\ Hp!End(G, c) = Hp!End(H, c)
         /\ G.hdr[a] = [size |-> need, free |-> FALSE]
    <3>1. Hp!End(G, b) = Hp!End(H, a)
      BY <1>1, <2>8, <2>10
    <3>2. G.hdr[a] = E.hdr[a] /\ Hp!End(G, a) = Hp!End(E, a)
      BY <1>1, <2>5, <2>8, <2>10 DEF SameBut
    <3>. QED BY <2>7, <2>8, <2>10, <3>1, <3>2 DEF SameBut, b
  <2>12. Tiled(G)
    <3>1. Tiled(H) /\ a + 3 <= b /\ b + 3 <= Hp!End(H, a)
      BY <1>1, <2>2 DEF Sound
    <3>. QED BY <1>1, <2>2, <2>11, <3>1, SplitTiles
  <2>13. Freed(G) = Freed(H) \cup {b}
    BY <1>1, <2>7, <2>10, <2>11 DEF Freed
  <2>14. Used(G) = Used(H) \cup {a}
    BY <1>1, <2>7, <2>10, <2>11 DEF Used
  <2>15. Sound(G)
    BY <2>10, <2>12, <2>13 DEF Sound
  <2>16. \A c \in Used(H) : c # a => G.hdr[c] = H.hdr[c]
    BY <2>11 DEF Used
  <2>17. G.hdr[a].size >= need
    BY <2>11
  <2>. QED BY <2>11, <2>14, <2>15, <2>16, <2>17 DEF Gives
<1>. QED BY <1>2, <1>3

\* What a call gives: a block that was not in use, or nothing.
Gets(G, H, a, need) ==
  a \in Nat /\ a \notin Used(H) /\ Gives(G, H, a, need)

\* A block of the list is given out.
LEMMA FromListIs ==
  ASSUME NEW H, Sound(H), NEW i \in DOMAIN H.list, NEW need \in Nat,
         need <= H.hdr[H.list[i]].size,
         NEW r, r = Hp!FromList(H, i, need)
  PROVE  /\ Gets(r.heap, H, H.list[i], need) /\ r.heap.brk = H.brk
         /\ r.ptr = H.list[i] + 3
<1> DEFINE a == H.list[i]
           T == [H EXCEPT !.list = Hp!RemoveAt(@, i)]
           sz == H.hdr[a].size
           F == Hp!SetHeader(T, a, sz, FALSE)
           G == Hp!Split(F, a, need)
<1>1. r.heap = G /\ r.ptr = a + 3
  <2>1. r = [heap |-> G, ptr |-> a + 3]
    BY Zenon DEF Hp!FromList, Hp!Header
  <2>. HIDE DEF G, a
  <2>. QED BY <2>1
<1>2. i \in 1 .. Len(H.list) /\ a \in Freed(H)
  <2>1. i \in 1 .. Len(H.list)
    BY LenProperties DEF Sound, Heaps
  <2>. QED BY <2>1 DEF Sound, Listed, Lists
<1>3. H \in Heaps /\ a \in DOMAIN H.hdr /\ H.hdr[a].free = TRUE
  BY <1>2 DEF Sound, Freed
<1>4. a \in Nat /\ sz \in Nat /\ Hp!End(H, a) = a + 3 + sz
  BY <1>3, EndIs
<1>. HIDE DEF T, F, sz, a, G
<1>5. /\ T \in Heaps /\ T.brk = H.brk /\ T.hdr = H.hdr
      /\ \A b : Hp!End(T, b) = Hp!End(H, b)
      /\ Listed(T, Freed(H) \ {a})
  BY TakenOut DEF Sound, T, a
<1>6. HasHeader(F, T, a, sz, FALSE)
  BY <1>4, <1>5, HeaderIsSet DEF F
<1>7. /\ F \in Heaps /\ F.brk = H.brk /\ DOMAIN F.hdr = DOMAIN H.hdr
      /\ F.list = T.list
      /\ F.hdr[a] = [size |-> sz, free |-> FALSE]
      /\ \A b \in DOMAIN H.hdr : b # a => F.hdr[b] = H.hdr[b]
      /\ \A b \in DOMAIN H.hdr : Hp!End(F, b) = Hp!End(H, b)
  BY <1>3, <1>4, <1>5, <1>6 DEF HasHeader, SameBut
<1>8. Tiled(F)
  BY <1>7, SameTiles DEF Sound
<1>9. Freed(F) = Freed(H) \ {a} /\ Used(F) = Used(H) \cup {a} /\ a \notin Used(H)
  BY <1>3, <1>7 DEF Freed, Used
<1>10. Sound(F)
  BY <1>5, <1>7, <1>8, <1>9 DEF Sound, Listed
<1>11. F.hdr[a].size = sz /\ a \in Used(F)
  BY <1>7, <1>9
<1>12. Gives(G, F, a, need) /\ G.brk = F.brk
  BY <1>10, <1>11, SplitIs DEF G, sz, a
<1>13. Gives(G, H, a, need)
  BY <1>7, <1>9, <1>12 DEF Gives, Used
<1>. QED BY <1>1, <1>4, <1>7, <1>9, <1>12, <1>13 DEF Gets, a

\* A new block is given out behind the old break.
LEMMA FromBreakIs ==
  ASSUME NEW H, Sound(H), NEW need \in Nat, NEW total \in Nat, need + 3 <= total,
         NEW r, r = Hp!FromBreak(H, total, need)
  PROVE  /\ Gets(r.heap, H, H.brk, need) /\ r.heap.brk = H.brk + total
         /\ r.ptr = H.brk + 3
<1> DEFINE a == H.brk
           T == [H EXCEPT !.brk = @ + total]
           sz == total - 3
           F == Hp!SetHeader(T, a, sz, FALSE)
           G == Hp!Split(F, a, need)
<1>1. r.heap = G /\ r.ptr = a + 3
  <2>1. r = [heap |-> G, ptr |-> a + 3]
    BY Zenon DEF Hp!FromBreak, Hp!Header
  <2>. HIDE DEF G, a
  <2>. QED BY <2>1
<1>2. H \in Heaps /\ a \in Nat /\ sz \in Nat /\ need <= sz /\ a + 3 + sz = a + total /\ a + total \in Nat
  BY DEF Sound, Heaps
<1>3. /\ T \in Heaps /\ T.list = H.list /\ T.hdr = H.hdr /\ T.brk = a + total
      /\ \A b : Hp!End(T, b) = Hp!End(H, b)
  <2>1. T \in Heaps /\ T.list = H.list /\ T.hdr = H.hdr /\ T.brk = a + total
    BY <1>2 DEF Heaps
  <2>. QED BY <2>1 DEF Hp!End
<1>. HIDE DEF T, F, sz, G, a
<1>4. HasHeader(F, T, a, sz, FALSE)
  BY <1>2, <1>3, HeaderIsSet DEF F
<1>5. /\ F \in Heaps /\ F.brk = a + total /\ DOMAIN F.hdr = DOMAIN H.hdr \cup {a}
      /\ F.list = H.list
      /\ F.hdr[a] = [size |-> sz, free |-> FALSE] /\ Hp!End(F, a) = a + total
      /\ \A b \in DOMAIN H.hdr : b # a => F.hdr[b] = H.hdr[b] /\ Hp!End(F, b) = Hp!End(H, b)
  BY <1>2, <1>3, <1>4 DEF HasHeader, SameBut
<1>6. \A b \in DOMAIN H.hdr : b < a
  BY DEF Sound, Tiled, a
<1>7. a \notin DOMAIN H.hdr /\ \A b \in DOMAIN H.hdr : b # a
  BY <1>2, <1>6
<1>8. Tiled(F)
  <2>1. /\ Tiled(H) /\ DOMAIN F.hdr = DOMAIN H.hdr \cup {H.brk}
        /\ F.brk \in Nat /\ H.brk + 3 <= F.brk /\ Hp!End(F, H.brk) = F.brk
        /\ \A b \in DOMAIN H.hdr : Hp!End(F, b) = Hp!End(H, b)
    BY <1>2, <1>5, <1>7 DEF Sound, a
  <2>. QED BY <2>1, ExtendTiles, Zenon
<1>9. Freed(F) = Freed(H) /\ Used(F) = Used(H) \cup {a} /\ a \notin Used(H)
  BY <1>5, <1>7 DEF Freed, Used
<1>10. Sound(F)
  BY <1>5, <1>8, <1>9 DEF Sound, Listed
<1>11. F.hdr[a].size = sz /\ a \in Used(F)
  BY <1>5, <1>9
<1>12. Gives(G, F, a, need) /\ G.brk = F.brk
  BY <1>2, <1>10, <1>11, SplitIs DEF G
<1>13. Gives(G, H, a, need)
  BY <1>5, <1>7, <1>9, <1>12 DEF Gives, Used
<1>. QED BY <1>1, <1>2, <1>5, <1>9, <1>12, <1>13 DEF Gets, a

\* A block grown over the free block behind it.
LEMMA GrownIs ==
  ASSUME NEW H, Sound(H), NEW a \in Used(H), Hp!End(H, a) \in Freed(H),
         NEW G, G = Hp!Grown(H, a)
  PROVE  /\ Gives(G, H, a, H.hdr[a].size + 3 + H.hdr[Hp!End(H, a)].size) /\ G.brk = H.brk
<1> DEFINE b == Hp!End(H, a)
           hits == {i \in DOMAIN H.list : H.list[i] = b}
           k == Hp!Min(hits)
           T == [H EXCEPT !.list = Hp!RemoveAt(@, k)]
<1>1. H \in Heaps /\ H.list \in Seq(Nat) /\ DOMAIN H.list = 1 .. Len(H.list) /\ Len(H.list) \in Nat
  BY LenProperties DEF Sound, Heaps
<1>2. k \in DOMAIN H.list /\ H.list[k] = b
  <2>1. hits \in SUBSET Nat
    BY <1>1
  <2>2. hits # {}
    BY <1>1 DEF Sound, Listed, Lists
  <2>3. \E x \in hits : \A y \in hits : x <= y
    <3>. HIDE DEF hits
    <3>. QED BY <2>1, <2>2, LeastNat
  <2>4. k \in hits
    <3>. HIDE DEF hits
    <3>. QED BY <2>3 DEF Hp!Min
  <2>. QED BY <2>4
<1>3. G = Hp!Merge(T, a, b)
  BY Zenon DEF Hp!Grown, Hp!RemoveFree
<1>. HIDE DEF T, k, b
<1>4. /\ T \in Heaps /\ T.brk = H.brk /\ T.hdr = H.hdr
      /\ \A c : Hp!End(T, c) = Hp!End(H, c)
      /\ Listed(T, Freed(H) \ {b})
  BY <1>2, TakenOut DEF Sound, T
<1>5. /\ a \in DOMAIN H.hdr /\ H.hdr[a].free = FALSE /\ a \in Nat /\ H.hdr[a].size \in Nat
      /\ b \in DOMAIN H.hdr /\ H.hdr[b].free = TRUE /\ b = Hp!End(H, a) /\ H.hdr[b].size \in Nat
  BY <1>1, EndIs DEF Used, Freed, b
<1>6. /\ G \in Heaps /\ G.list = T.list /\ G.brk = H.brk
      /\ DOMAIN G.hdr = DOMAIN H.hdr \ {b} /\ a # b
      /\ G.hdr[a] = [size |-> H.hdr[a].size + 3 + H.hdr[b].size, free |-> FALSE]
      /\ Hp!End(G, a) = Hp!End(H, b)
      /\ \A c \in DOMAIN H.hdr \ {b} : c # a => G.hdr[c] = H.hdr[c] /\ Hp!End(G, c) = Hp!End(H, c)
  <2>1. T \in Heaps /\ a \in DOMAIN T.hdr /\ b \in DOMAIN T.hdr /\ b = Hp!End(T, a)
    BY <1>4, <1>5
  <2>2. /\ G \in Heaps /\ G.list = T.list /\ G.brk = T.brk
        /\ DOMAIN G.hdr = DOMAIN T.hdr \ {b} /\ a # b
        /\ G.hdr[a] = [size |-> T.hdr[a].size + 3 + T.hdr[b].size, free |-> T.hdr[a].free]
        /\ Hp!End(G, a) = Hp!End(T, b)
        /\ \A c \in DOMAIN T.hdr \ {b} : c # a => G.hdr[c] = T.hdr[c] /\ Hp!End(G, c) = Hp!End(T, c)
    BY <1>3, <2>1, MergeIs
  <2>. QED BY <1>4, <1>5, <2>2
<1>7. Tiled(G)
  BY <1>5, <1>6, MergeTiles DEF Sound
<1>8. Freed(G) = Freed(H) \ {b} /\ Used(G) = Used(H) \cup {a}
  BY <1>5, <1>6 DEF Freed, Used
<1>9. Sound(G)
  BY <1>4, <1>6, <1>7, <1>8 DEF Sound, Listed
<1>10. \A c \in Used(H) : c # a => G.hdr[c] = H.hdr[c]
  BY <1>5, <1>6 DEF Used
<1>11. G.hdr[a].size >= H.hdr[a].size + 3 + H.hdr[b].size
  BY <1>5, <1>6
<1>. QED BY <1>6, <1>8, <1>9, <1>10, <1>11 DEF Gives, b

-----------------------------------------------------------------------------
(* uheap_coalesce: merging while the blocks of R are still to come.        *)

Merging(G, R) ==
  /\ G \in Heaps /\ Tiled(G)
  /\ R \subseteq Freed(G) /\ Listed(G, Freed(G) \ R)
  /\ \A x \in Freed(G) \ R : \A y \in R : x < y
  /\ \A x, y \in Freed(G) \ R : Hp!End(G, x) # y

SameUsed(G, H) ==
  /\ G.brk = H.brk /\ Used(G) = Used(H)
  /\ \A a \in Used(H) : G.hdr[a] = H.hdr[a]

\* The next block is merged into the last one of the list so far.
LEMMA TakeMerges ==
  ASSUME NEW G, NEW R, Merging(G, R), NEW b \in R,
         G.list # <<>>, Hp!End(G, Hp!Last(G.list)) = b,
         NEW F, F = Hp!Take(G, b)
  PROVE  Merging(F, R \ {b}) /\ SameUsed(F, G)
<1> DEFINE c == Hp!Last(G.list)
<1>1. c \in Freed(G) /\ c \notin R
  <2>1. G.list \in Seq(Nat) /\ Len(G.list) \in 1 .. Len(G.list)
    <3>1. G.list \in Seq(Nat)
      BY DEF Merging, Heaps
    <3>2. Len(G.list) \in Nat /\ Len(G.list) # 0
      BY <3>1, LenProperties, EmptySeq
    <3>. QED BY <3>1, <3>2
  <2>. QED BY <2>1 DEF Merging, Listed, Lists, Hp!Last
<1>2. F = Hp!Merge(G, c, b)
  BY Zenon DEF Hp!Take
<1>. HIDE DEF c
<1>3. /\ G \in Heaps /\ c \in DOMAIN G.hdr /\ b \in DOMAIN G.hdr /\ b = Hp!End(G, c)
      /\ G.hdr[c].free = TRUE /\ G.hdr[b].free = TRUE
  BY <1>1 DEF Merging, Freed, c
<1>4. /\ F \in Heaps /\ F.list = G.list /\ F.brk = G.brk
      /\ DOMAIN F.hdr = DOMAIN G.hdr \ {b} /\ c # b
      /\ F.hdr[c].free = TRUE
      /\ Hp!End(F, c) = Hp!End(G, b)
      /\ \A d \in DOMAIN G.hdr \ {b} : d # c => F.hdr[d] = G.hdr[d] /\ Hp!End(F, d) = Hp!End(G, d)
  <2>1. /\ F \in Heaps /\ F.list = G.list /\ F.brk = G.brk
        /\ DOMAIN F.hdr = DOMAIN G.hdr \ {b} /\ c # b
        /\ F.hdr[c] = [size |-> G.hdr[c].size + 3 + G.hdr[b].size, free |-> G.hdr[c].free]
        /\ Hp!End(F, c) = Hp!End(G, b)
        /\ \A d \in DOMAIN G.hdr \ {b} : d # c => F.hdr[d] = G.hdr[d] /\ Hp!End(F, d) = Hp!End(G, d)
    BY <1>2, <1>3, MergeIs
  <2>. QED BY <1>3, <2>1
<1>5. Tiled(F)
  BY <1>3, <1>4, MergeTiles DEF Merging
<1>6. Freed(F) = Freed(G) \ {b}
  BY <1>3, <1>4 DEF Freed
<1>7. Used(F) = Used(G) /\ \A a \in Used(G) : F.hdr[a] = G.hdr[a]
  BY <1>3, <1>4 DEF Used
<1>8. Freed(F) \ (R \ {b}) = Freed(G) \ R
  BY <1>6
<1>9. R \ {b} \subseteq Freed(F) /\ Listed(F, Freed(G) \ R)
  BY <1>4, <1>6 DEF Merging, Listed
<1>10. ASSUME NEW x \in Freed(G) \ R, NEW y \in Freed(G) \ R PROVE Hp!End(F, x) # y
  <2>1. x \in DOMAIN G.hdr \ {b} /\ y < b /\ b < Hp!End(G, b)
    BY <1>3 DEF Merging, Freed, Tiled
  <2>2. y \in Nat /\ b \in Nat /\ Hp!End(G, b) \in Nat
    BY <1>3, <2>1, EndIs DEF Merging, Freed
  <2>3. CASE x = c
    BY <1>4, <2>1, <2>2, <2>3
  <2>4. CASE x # c
    BY <1>4, <2>1, <2>4 DEF Merging
  <2>. QED BY <2>3, <2>4
<1>11. \A x \in Freed(G) \ R : \A y \in R \ {b} : x < y
  BY DEF Merging
<1>12. Merging(F, R \ {b})
  <2> DEFINE Q == R \ {b}
             S == Freed(G) \ R
  <2>1. /\ F \in Heaps /\ Tiled(F) /\ Q \subseteq Freed(F) /\ Listed(F, S)
        /\ \A x \in S : \A y \in Q : x < y
        /\ \A x, y \in S : Hp!End(F, x) # y
    BY <1>4, <1>5, <1>9, <1>10, <1>11
  <2>2. Freed(F) \ Q = S
    BY <1>8
  <2>. HIDE DEF Q, S
  <2>3. Merging(F, Q)
    BY <2>1, <2>2 DEF Merging
  <2>. QED BY <2>3 DEF Q
<1>13. SameUsed(F, G)
  BY <1>4, <1>7 DEF SameUsed
<1>. QED BY <1>12, <1>13

\* The next block is kept apart, and becomes the last one.
LEMMA TakeAppends ==
  ASSUME NEW G, NEW R, Merging(G, R), NEW b \in R, \A y \in R : b <= y,
         ~ (G.list # <<>> /\ Hp!End(G, Hp!Last(G.list)) = b),
         NEW F, F = Hp!Take(G, b)
  PROVE  Merging(F, R \ {b}) /\ SameUsed(F, G)
<1> DEFINE l == G.list
           N == Len(l)
           w == Append(l, b)
           S == Freed(G) \ R
<1>1. F = [G EXCEPT !.list = w]
  BY Zenon DEF Hp!Take
<1>2. G \in Heaps /\ b \in DOMAIN G.hdr /\ b \in Nat
  BY EndIs DEF Merging, Freed
<1>3. l \in Seq(Nat) /\ N \in Nat /\ Ascending(l, N) /\ Lists(l, N, S)
  BY LenProperties DEF Merging, Heaps, Listed
<1>4. /\ w \in Seq(Nat) /\ Len(w) = N + 1
      /\ \A i \in 1 .. N : w[i] = l[i]
      /\ w[N + 1] = b
  <2>. HIDE DEF l
  <2>. QED BY <1>2, <1>3, AppendProperties
<1>5. \A i \in 1 .. N : l[i] \in Nat /\ l[i] < b
  <2>1. \A i \in 1 .. N : l[i] \in S
    BY <1>3 DEF Lists
  <2>2. \A x \in S : x \in Nat /\ x < b
    BY <1>2, EndIs DEF Merging, Freed
  <2>. HIDE DEF S, N, l
  <2>. QED BY <2>1, <2>2
<1>6. \A x \in S : Hp!End(G, x) # b
  <2>1. ASSUME NEW x \in S PROVE Hp!End(G, x) # b
    <3>1. PICK i \in 1 .. N : l[i] = x
      BY <1>3 DEF Lists
    <3>2. N \in 1 .. N /\ l # <<>> /\ Hp!Last(l) = l[N]
      <4>1. 1 <= N
        BY <1>3
      <4>. QED BY <1>3, <4>1, EmptySeq DEF Hp!Last
    <3>3. CASE i = N
      BY <3>1, <3>2, <3>3
    <3>4. CASE i # N
      <4>1. x < l[N] /\ l[N] < b /\ l[N] \in S
        BY <1>3, <1>5, <3>1, <3>2, <3>4 DEF Ascending, Lists
      <4>2. Hp!End(G, x) <= l[N] /\ Hp!End(G, x) \in Nat /\ l[N] \in Nat
        BY <4>1 DEF Merging, Freed, Tiled
      <4>. QED BY <1>2, <4>1, <4>2
    <3>. QED BY <3>3, <3>4
  <2>. QED BY <2>1
<1>. HIDE DEF N, w
<1>7. /\ F \in Heaps /\ F.hdr = G.hdr /\ F.brk = G.brk /\ F.list = w
      /\ \A x : Hp!End(F, x) = Hp!End(G, x)
  <2>1. F \in Heaps /\ F.hdr = G.hdr /\ F.brk = G.brk /\ F.list = w
    BY <1>1, <1>2, <1>4 DEF Heaps
  <2>. QED BY <2>1 DEF Hp!End
<1>8. Ascending(w, N + 1) /\ Lists(w, N + 1, S \cup {b})
  <2>. HIDE DEF l, S
  <2>1. Put(w, l, N, N, b) /\ N \in 0 .. N
    BY <1>3, <1>4 DEF Put
  <2>2. Between(l, N, N, b)
    BY <1>3, <1>5 DEF Between
  <2>3. \A i \in 1 .. N : l[i] \in Nat
    BY <1>5
  <2>. QED BY <1>2, <1>3, <2>1, <2>2, <2>3, OrderedInsert, Zenon
<1>9. Freed(F) = Freed(G) /\ Used(F) = Used(G)
  BY <1>7 DEF Freed, Used
<1>10. Freed(F) \ (R \ {b}) = S \cup {b}
  BY <1>9 DEF Merging
<1>11. Listed(F, S \cup {b})
  BY <1>4, <1>7, <1>8, Zenon DEF Listed
<1>12. Tiled(F)
  BY <1>7, SameTiles DEF Merging
<1>13. \A x \in S \cup {b} : \A y \in R \ {b} : x < y
  <2>1. \A y \in R : y \in Nat
    BY <1>2, EndIs DEF Merging, Freed
  <2>. QED BY <1>2, <2>1 DEF Merging
<1>14. ASSUME NEW x \in S \cup {b}, NEW y \in S \cup {b} PROVE Hp!End(F, x) # y
  <2>1. x \in DOMAIN G.hdr /\ y \in DOMAIN G.hdr
    BY <1>2 DEF Freed
  <2>2. CASE x = b
    <3>1. Hp!End(G, b) \in Nat /\ b + 3 <= Hp!End(G, b)
      BY <1>2, EndIs
    <3>2. y \in Nat /\ (y = b \/ y < b)
      <4>1. CASE y = b
        BY <1>2, <4>1
      <4>2. CASE y \in S
        <5>1. y < b
          BY <4>2 DEF Merging
        <5>2. y \in Nat
          BY <1>2, <2>1, EndIs
        <5>. QED BY <5>1, <5>2
      <4>. QED BY <4>1, <4>2
    <3>. HIDE DEF S
    <3>3. Hp!End(F, x) = Hp!End(G, b)
      BY <1>7, <2>2
    <3>. QED BY <1>2, <3>1, <3>2, <3>3
  <2>3. CASE x \in S /\ y = b
    BY <1>6, <1>7, <2>3
  <2>4. CASE x \in S /\ y \in S
    BY <1>7, <2>4 DEF Merging
  <2>. QED BY <2>2, <2>3, <2>4
<1>15. R \ {b} \subseteq Freed(F)
  BY <1>9 DEF Merging
<1>. HIDE DEF S
<1>. QED BY <1>7, <1>9, <1>10, <1>11, <1>12, <1>13, <1>14, <1>15 DEF Merging, SameUsed



\* The next block of the list is taken, be it merged or kept apart.
LEMMA TakeIs ==
  ASSUME NEW G, NEW R, Merging(G, R), NEW b \in R, \A y \in R : b <= y,
         NEW F, F = Hp!Take(G, b)
  PROVE  Merging(F, R \ {b}) /\ SameUsed(F, G)
<1>1. CASE G.list # <<>> /\ Hp!End(G, Hp!Last(G.list)) = b
  BY <1>1, TakeMerges
<1>2. CASE ~ (G.list # <<>> /\ Hp!End(G, Hp!Last(G.list)) = b)
  BY <1>2, TakeAppends
<1>. QED BY <1>1, <1>2

\* merged gives the heap after each of the first m blocks of the list of H.
MergedAfter(merged, m, H) ==
  merged = [i \in 0 .. m |-> IF i = 0 THEN [H EXCEPT !.list = <<>>]
                                      ELSE Hp!Take(merged[i - 1], H.list[i])]

\* There is such a function, for any number of blocks.
LEMMA MergedExists ==
  ASSUME NEW H, NEW m \in Nat
  PROVE  \E merged : MergedAfter(merged, m, H)
<1> DEFINE Without == {k \in 0 .. m : ~ \E merged : MergedAfter(merged, k, H)}
<1>1. SUFFICES ASSUME Without # {} PROVE FALSE
  OBVIOUS
<1>2. Without \in SUBSET Nat
  OBVIOUS
<1>3. PICK k \in Without : \A j \in Without : k <= j
  <2>. HIDE DEF Without
  <2>. QED BY <1>1, <1>2, LeastNat
<1>4. k # 0
  <2>1. MergedAfter([j \in 0 .. 0 |-> [H EXCEPT !.list = <<>>]], 0, H)
    BY DEF MergedAfter
  <2>. QED BY <1>3, <2>1
<1>5. k - 1 \in 0 .. m /\ k - 1 \notin Without /\ k \in 1 .. m
  BY <1>3, <1>4
<1>6. PICK f : MergedAfter(f, k - 1, H)
  BY <1>5
<1> DEFINE g == [j \in 0 .. k |-> IF j = k THEN Hp!Take(f[k - 1], H.list[k]) ELSE f[j]]
<1>7. ASSUME NEW j \in 0 .. k
      PROVE  g[j] = IF j = 0 THEN [H EXCEPT !.list = <<>>] ELSE Hp!Take(g[j - 1], H.list[j])
  <2>1. CASE j = 0
    BY <1>5, <1>6, <2>1 DEF MergedAfter
  <2>2. CASE j = k
    <3>1. k # 0 /\ k - 1 \in 0 .. k /\ k - 1 # k
      BY <1>5
    <3>. QED BY <2>2, <3>1
  <2>3. CASE j # 0 /\ j # k
    <3>1. j \in 0 .. k - 1 /\ j - 1 \in 0 .. k - 1 /\ j - 1 \in 0 .. k /\ j - 1 # k
      BY <1>5, <2>3
    <3>2. f[j] = Hp!Take(f[j - 1], H.list[j])
      BY <1>6, <2>3, <3>1 DEF MergedAfter
    <3>. QED BY <2>3, <3>1, <3>2
  <2>. QED BY <2>1, <2>2, <2>3
<1>8. MergedAfter(g, k, H)
  BY <1>7 DEF MergedAfter
<1>. QED BY <1>3, <1>8

\* No free block ends where another begins.
Coalesced(H) == \A a, b \in Freed(H) : Hp!End(H, a) # b

\* uheap_coalesce leaves the blocks in use alone and no two free ones adjacent.
LEMMA CoalesceIs ==
  ASSUME NEW H, Sound(H), NEW G, G = Hp!Coalesce(H)
  PROVE  Sound(G) /\ Coalesced(G) /\ SameUsed(G, H)
<1> DEFINE l == H.list
           N == Len(l)
           f == CHOOSE merged : MergedAfter(merged, N, H)
           Rem(i) == {l[j] : j \in i + 1 .. N}
           Good(i) == Merging(f[i], Rem(i)) /\ SameUsed(f[i], H)
<1>1. N \in Nat /\ H \in Heaps /\ Tiled(H) /\ Ascending(l, N) /\ Lists(l, N, Freed(H))
  BY LenProperties DEF Sound, Heaps, Listed
<1>2. G = f[N]
  BY Zenon DEF Hp!Coalesce, MergedAfter
<1>3. MergedAfter(f, N, H)
  <2>. HIDE DEF N
  <2>1. \E merged : MergedAfter(merged, N, H)
    BY <1>1, MergedExists
  <2>. QED BY <2>1
<1>. HIDE DEF f
<1>4. f[0] = [H EXCEPT !.list = <<>>] /\ \A i \in 1 .. N : f[i] = Hp!Take(f[i - 1], l[i])
  <2>. HIDE DEF N
  <2>1. 0 \in 0 .. N /\ \A i \in 1 .. N : i \in 0 .. N /\ i # 0
    BY <1>1
  <2>. QED BY <1>3, <2>1 DEF MergedAfter
<1>5. \A i \in 1 .. N : l[i] \in Freed(H) /\ l[i] \in Nat
  <2>1. \A a \in Freed(H) : a \in Nat
    BY <1>1 DEF Tiled, Freed
  <2>. QED BY <1>1, <2>1 DEF Lists
<1>6. Good(0)
  <2>1. f[0] \in Heaps /\ f[0].list = <<>> /\ f[0].hdr = H.hdr /\ f[0].brk = H.brk
    <3>1. <<>> \in Seq(Nat)
      OBVIOUS
    <3>. QED BY <1>1, <1>4, <3>1 DEF Heaps
  <2>2. /\ Freed(f[0]) = Freed(H) /\ Used(f[0]) = Used(H)
        /\ \A a : Hp!End(f[0], a) = Hp!End(H, a)
    BY <2>1 DEF Freed, Used, Hp!End
  <2>3. Tiled(f[0])
    BY <1>1, <2>1, <2>2, SameTiles
  <2>4. Rem(0) = Freed(H)
    <3>. HIDE DEF N, l
    <3>1. 0 + 1 = 1
      OBVIOUS
    <3>. QED BY <1>1, <1>5, <3>1 DEF Lists
  <2>5. Len(f[0].list) = 0
    BY <2>1
  <2>6. Listed(f[0], {})
    BY <2>5 DEF Listed, Ascending, Lists
  <2>. HIDE DEF Rem
  <2>7. Freed(f[0]) \ Rem(0) = {}
    BY <2>2, <2>4
  <2>8. Merging(f[0], Rem(0))
    BY <2>1, <2>2, <2>3, <2>4, <2>6, <2>7 DEF Merging
  <2>9. SameUsed(f[0], H)
    BY <2>1, <2>2 DEF SameUsed
  <2>. QED BY <2>8, <2>9
<1>7. ASSUME NEW i \in 1 .. N, Good(i - 1) PROVE Good(i)
  <2> DEFINE R == Rem(i - 1)
             b == l[i]
  <2>. HIDE DEF N, l
  <2>1. R = {l[j] : j \in i .. N}
    <3>1. (i - 1) + 1 = i
      BY <1>1
    <3>. QED BY <3>1
  <2>2. \A j \in i .. N : j \in 1 .. N /\ (i < j \/ i = j)
    BY <1>1
  <2>3. b \in R /\ \A y \in R : b <= y
    <3>1. i \in i .. N
      BY <1>1
    <3>. QED BY <1>1, <1>5, <2>1, <2>2, <3>1 DEF Ascending
  <2>4. R \ {b} = Rem(i)
    <3>1. \A j \in i + 1 .. N : j \in i .. N /\ i < j /\ j \in 1 .. N
      BY <1>1
    <3>2. \A j \in i .. N : j = i \/ j \in i + 1 .. N
      BY <1>1
    <3>3. \A j \in i + 1 .. N : l[j] # b
      BY <1>1, <1>5, <3>1 DEF Ascending
    <3>. QED BY <2>1, <3>1, <3>2, <3>3
  <2>. HIDE DEF R, b, Rem
  <2>5. Merging(f[i - 1], R) /\ f[i] = Hp!Take(f[i - 1], b) /\ SameUsed(f[i - 1], H)
    BY <1>4, <1>7 DEF R, b
  <2>6. Merging(f[i], R \ {b}) /\ SameUsed(f[i], f[i - 1])
    BY <2>3, <2>5, TakeIs, Zenon
  <2>7. SameUsed(f[i], H)
    BY <2>5, <2>6 DEF SameUsed
  <2>. QED BY <2>4, <2>6, <2>7
<1>8. Good(N)
  <2> DEFINE Wrong == {i \in 0 .. N : ~ Good(i)}
  <2>. HIDE DEF N, Good
  <2>1. SUFFICES ASSUME Wrong # {} PROVE FALSE
    BY <1>1
  <2>2. Wrong \in SUBSET Nat
    OBVIOUS
  <2>3. PICK i \in Wrong : \A j \in Wrong : i <= j
    <3>. HIDE DEF Wrong
    <3>. QED BY <2>1, <2>2, LeastNat
  <2>4. i \in 1 .. N /\ i - 1 \in 0 .. N /\ i - 1 \notin Wrong
    <3>1. i # 0
      BY <1>6, <2>3
    <3>. QED BY <1>1, <2>3, <3>1
  <2>5. Good(i - 1)
    BY <2>4
  <2>. QED BY <1>7, <2>3, <2>4, <2>5
<1>9. Rem(N) = {}
  <2>. HIDE DEF N
  <2>1. N + 1 .. N = {}
    BY <1>1
  <2>. QED BY <2>1
<1>10. Merging(G, {}) /\ SameUsed(G, H)
  BY <1>2, <1>8, <1>9
<1>11. Freed(G) \ {} = Freed(G)
  OBVIOUS
<1>. QED BY <1>10, <1>11 DEF Merging, Sound, Coalesced

\* What free makes of a block in use.
Frees(G, H, a) ==
  /\ Sound(G) /\ Coalesced(G) /\ G.brk = H.brk
  /\ Used(G) = Used(H) \ {a}
  /\ \A b \in Used(G) : G.hdr[b] = H.hdr[b]

\* free of a block in use.
LEMMA FreeIs ==
  ASSUME NEW H, Sound(H), NEW a \in Used(H), NEW G, G = Hp!free(H, a + 3)
  PROVE  Frees(G, H, a)
<1> DEFINE F == Hp!InsertFree(H, a)
<1>1. /\ a \in DOMAIN H.hdr /\ H.hdr[a].free = FALSE /\ H \in Heaps /\ a \in Nat
      /\ a \notin Freed(H)
  BY EndIs DEF Used, Freed, Sound
<1>2. G = Hp!Coalesce(F)
  <2>1. (a + 3) - Hp!Header = a
    BY <1>1 DEF Hp!Header
  <2>. QED BY <1>1, <2>1 DEF Hp!free
<1>. HIDE DEF F
<1>3. /\ F \in Heaps /\ F.brk = H.brk /\ DOMAIN F.hdr = DOMAIN H.hdr
      /\ F.hdr[a].free = TRUE /\ Hp!End(F, a) = Hp!End(H, a)
      /\ SameBut(F, H, a)
      /\ Listed(F, Freed(H) \cup {a})
  BY <1>1, InsertFreeIs DEF Sound, F
<1>4. Tiled(F)
  BY <1>3, SameTiles DEF Sound, SameBut
<1>5. Freed(F) = Freed(H) \cup {a}
  BY <1>1, <1>3 DEF Freed, SameBut
<1>6. Used(F) = Used(H) \ {a} /\ \A b \in Used(F) : F.hdr[b] = H.hdr[b]
  BY <1>1, <1>3 DEF Used, SameBut
<1>7. Sound(F)
  BY <1>3, <1>4, <1>5 DEF Sound
<1>8. Sound(G) /\ Coalesced(G) /\ SameUsed(G, F)
  BY <1>2, <1>7, CoalesceIs
<1>. QED BY <1>3, <1>6, <1>8 DEF Frees, SameUsed



\* Rounding a size up, and what it is when it does not wrap around.
LEMMA SmallMod ==
  ASSUME NEW m \in Nat, NEW k \in Nat, k < m
  PROVE  k % m = k
OBVIOUS

\* uheap_align rounds up, and leaves alone what it has rounded.
LEMMA AlignIs ==
  ASSUME NEW m \in 0 .. SizeMod - 2, NEW sz, sz = Hp!uheap_align(m)
  PROVE  /\ sz \in m .. SizeMod - 2 /\ Hp!uheap_align(sz) = sz
         /\ m # 0 => sz # 0
<1>1. SizeMod \in Nat /\ SizeMod % 2 = 0
  BY PlatformAssumption DEF Hp!HeapAssumption
<1>2. \A k \in 0 .. SizeMod - 2 : Hp!uheap_align(k) = ((k + 1) \div 2) * 2
  <2>1. ASSUME NEW k \in 0 .. SizeMod - 2 PROVE (k + 1) % SizeMod = k + 1
    <3>1. k + 1 \in Nat /\ k + 1 < SizeMod
      BY <1>1
    <3>. HIDE DEF Hp!uheap_align
    <3>. QED BY <1>1, <3>1, SmallMod
  <2>. QED BY <2>1 DEF Hp!uheap_align
<1>3. sz = ((m + 1) \div 2) * 2
  BY <1>2
<1>4. sz \in m .. SizeMod - 2 /\ (m # 0 => sz # 0)
  BY <1>1, <1>3
<1>5. ((sz + 1) \div 2) * 2 = sz
  BY <1>1, <1>3
<1>. QED BY <1>2, <1>4, <1>5

\* A request that is not refused has room for the header and the payload.
LEMMA FromKernelIs ==
  ASSUME NEW sz \in 1 .. SizeMod - 2, Hp!FromKernel(sz) # Null
  PROVE  Hp!FromKernel(sz) \in Nat /\ sz + 3 <= Hp!FromKernel(sz)
<1> DEFINE total == Hp!uheap_align(3 + sz)
<1>1. SizeMod \in Nat /\ SizeMod % 2 = 0
  BY PlatformAssumption DEF Hp!HeapAssumption
<1>2. Hp!FromKernel(sz) = total /\ ~ (sz > SizeMod - 1 - 3) /\ ~ (total < sz)
  BY Zenon DEF Hp!FromKernel, Hp!Header
<1>3. CASE 3 + sz <= SizeMod - 2
  <2>1. 3 + sz \in 0 .. SizeMod - 2
    BY <1>1, <1>3
  <2>2. total \in 3 + sz .. SizeMod - 2
    BY <2>1, AlignIs
  <2>. HIDE DEF total
  <2>. QED BY <1>1, <1>2, <2>2
<1>4. CASE 3 + sz = SizeMod - 1
  <2>1. SizeMod % SizeMod = 0
    BY <1>1
  <2>2. 3 + sz + 1 = SizeMod
    BY <1>1, <1>4
  <2>3. total = 0
    BY <2>1, <2>2 DEF Hp!uheap_align
  <2>. HIDE DEF total
  <2>. QED BY <1>2, <2>3
<1>. HIDE DEF total
<1>. QED BY <1>1, <1>2, <1>3, <1>4

\* What malloc does: it gives a block that was not in use, or changes nothing.
Allocates(r, H, need) ==
  \/ r.ptr = Null /\ r.heap = H
  \/ \E a \in Nat : /\ Gets(r.heap, H, a, need) /\ r.ptr = a + 3
                    /\ r.heap.brk <= Limit

\* What the kernel may grant.
Grants(H, sz, granted) ==
  granted \in BOOLEAN
    /\ (granted => Hp!FromKernel(sz) # Null /\ H.brk + Hp!FromKernel(sz) <= Limit)

\* malloc, with the list or with the kernel.
LEMMA MallocIs ==
  ASSUME NEW H, Sound(H), H.brk <= Limit, NEW m \in 0 .. SizeMod - 2,
         NEW granted, Grants(H, Hp!uheap_align(m), granted),
         NEW r, r = Hp!malloc(H, m, granted)
  PROVE  Allocates(r, H, Hp!uheap_align(m))
<1> DEFINE sz == Hp!uheap_align(m)
           hits == Hp!Hits(H, sz)
           total == Hp!FromKernel(sz)
<1>1. sz \in Nat /\ sz \in 0 .. SizeMod - 2 /\ (m # 0 => sz \in 1 .. SizeMod - 2) /\ SizeMod \in Nat
  <2>1. SizeMod \in Nat
    BY PlatformAssumption DEF Hp!HeapAssumption
  <2>2. sz \in m .. SizeMod - 2 /\ (m # 0 => sz # 0)
    BY AlignIs
  <2>. HIDE DEF sz
  <2>. QED BY <2>1, <2>2
<1>. HIDE DEF sz
<1>2. CASE r = Hp!Failed(H)
  BY <1>2 DEF Allocates, Hp!Failed
<1>3. H.list \in Seq(Nat) /\ DOMAIN H.list = 1 .. Len(H.list) /\ Len(H.list) \in Nat
  BY LenProperties DEF Sound, Heaps
<1>4. \A i \in DOMAIN H.list : H.list[i] \in DOMAIN H.hdr /\ H.hdr[H.list[i]].size \in Nat
  <2>1. \A i \in DOMAIN H.list : H.list[i] \in DOMAIN H.hdr
    BY <1>3 DEF Sound, Listed, Lists, Freed
  <2>. QED BY <2>1, EndIs DEF Sound
<1>5. CASE m # 0 /\ hits # {}
  <2> DEFINE k == Hp!Min(hits)
  <2>1. \A i \in hits : i \in DOMAIN H.list /\ H.hdr[H.list[i]].size >= sz
    BY <1>4 DEF Hp!Hits
  <2>2. k \in hits
    <3>1. hits \in SUBSET Nat
      BY <1>3, <2>1
    <3>. HIDE DEF hits
    <3>2. \E x \in hits : \A y \in hits : x <= y
      BY <1>5, <3>1, LeastNat
    <3>. QED BY <3>2 DEF Hp!Min
  <2>. HIDE DEF k
  <2>3. k \in DOMAIN H.list /\ sz <= H.hdr[H.list[k]].size /\ H.list[k] \in DOMAIN H.hdr
    BY <1>1, <1>4, <2>1, <2>2
  <2>4. r = Hp!FromList(H, k, sz)
    BY <1>5, <2>3, Zenon DEF Hp!malloc, sz, k
  <2>5. Gets(r.heap, H, H.list[k], sz) /\ r.heap.brk = H.brk /\ r.ptr = H.list[k] + 3
    BY <1>1, <2>3, <2>4, FromListIs, Zenon
  <2>. QED BY <2>5 DEF Allocates, Gets, sz
<1>6. CASE m # 0 /\ hits = {} /\ total # Null /\ granted
  <2>1. r = Hp!FromBreak(H, total, sz)
    BY <1>6, Zenon DEF Hp!malloc, sz
  <2>2. total \in Nat /\ sz + 3 <= total
    BY <1>1, <1>6, FromKernelIs
  <2>3. Gets(r.heap, H, H.brk, sz) /\ r.heap.brk = H.brk + total /\ r.ptr = H.brk + 3
    <3>. HIDE DEF total
    <3>1. sz \in Nat /\ total \in Nat /\ sz + 3 <= total
      BY <1>1, <2>2
    <3>. QED BY <2>1, <3>1, FromBreakIs, SMT
  <2>4. r.heap.brk <= Limit
    BY <1>6, <2>3 DEF Grants, sz
  <2>. QED BY <2>3, <2>4 DEF Allocates, Gets, sz
<1>7. CASE m = 0 \/ (hits = {} /\ (total = Null \/ ~ granted))
  <2>1. r = Hp!Failed(H)
    BY <1>7, Zenon DEF Hp!malloc, sz
  <2>. QED BY <1>2, <2>1
<1>8. granted \in BOOLEAN
  BY DEF Grants
<1>. QED BY <1>5, <1>6, <1>7, <1>8

\* A product that does not overflow is what it is modulo SizeMod.
LEMMA ProductIs ==
  ASSUME NEW mn \in Products, ~ Hp!Overflows(mn[1], mn[2])
  PROVE  mn[1] * mn[2] \in 0 .. SizeMod - 2 /\ (mn[1] * mn[2]) % SizeMod = mn[1] * mn[2]
<1> DEFINE i == mn[1]
           j == mn[2]
           K == SizeMod - 1
           q == K \div i
<1>1. SizeMod \in Nat /\ i \in Nat /\ j \in Nat /\ i * j # SizeMod - 1 /\ SizeMod # 0
  BY PlatformAssumption DEF Hp!HeapAssumption
<1>. HIDE DEF i, j
<1>2. i * j \in Nat
  BY <1>1
<1>3. i * j <= K
  <2>1. CASE i = 0
    BY <1>1, <2>1
  <2>2. CASE i # 0
    <3>1. ~ (j > q)
      BY <1>1, <2>2 DEF Hp!Overflows, i, j
    <3>2. i \in Nat \ {0} /\ K \in Nat
      BY <1>1, <2>2
    <3>. HIDE DEF K
    <3>3. q \in Nat /\ i * q <= K
      BY <3>2
    <3>. HIDE DEF q
    <3>4. j <= q
      BY <1>1, <3>1, <3>3
    <3>5. i * j <= i * q /\ i * j \in Nat /\ i * q \in Nat
      BY <1>1, <3>3, <3>4
    <3>. QED BY <3>2, <3>3, <3>5
  <2>. QED BY <2>1, <2>2
<1> DEFINE p == i * j
<1>4. p \in Nat /\ p <= SizeMod - 1 /\ p # SizeMod - 1
  BY <1>1, <1>2, <1>3
<1>. HIDE DEF p
<1>5. p \in 0 .. SizeMod - 2 /\ p < SizeMod
  BY <1>1, <1>4
<1>6. p % SizeMod = p
  BY <1>1, <1>4, <1>5, SmallMod
<1>. QED BY <1>5, <1>6 DEF p, i, j



\* The unit x of the payload of block a is in no header and in no other block.
LEMMA InBlock ==
  ASSUME NEW H, Sound(H), NEW a \in DOMAIN H.hdr, NEW x \in Nat,
         a + 3 <= x, x < Hp!End(H, a)
  PROVE  /\ x < H.brk
         /\ \A b \in DOMAIN H.hdr : ~ (x \in b .. b + Hp!Header - 1)
         /\ \A b \in DOMAIN H.hdr : b # a => ~ (b + 3 <= x /\ x < Hp!End(H, b))
<1>1. /\ a \in Nat /\ Hp!End(H, a) \in Nat /\ H.brk \in Nat /\ Hp!End(H, a) <= H.brk
  BY DEF Sound, Tiled
<1>2. ASSUME NEW b \in DOMAIN H.hdr, b # a
      PROVE  b \in Nat /\ Hp!End(H, b) \in Nat /\ (Hp!End(H, b) <= a \/ Hp!End(H, a) <= b)
  <2>1. b \in Nat /\ Hp!End(H, b) \in Nat
    BY DEF Sound, Tiled
  <2>2. b < a \/ a < b
    BY <1>1, <1>2, <2>1
  <2>. QED BY <2>1, <2>2 DEF Sound, Tiled
<1>3. ASSUME NEW b \in DOMAIN H.hdr PROVE ~ (x \in b .. b + Hp!Header - 1)
  <2>1. CASE b = a
    BY <1>1, <2>1 DEF Hp!Header
  <2>2. CASE b # a
    <3>1. b + 3 <= Hp!End(H, b)
      BY DEF Sound, Tiled
    <3>2. b \in Nat /\ Hp!End(H, b) \in Nat /\ (Hp!End(H, b) <= a \/ Hp!End(H, a) <= b)
      BY <1>2, <2>2
    <3>. QED BY <1>1, <3>1, <3>2 DEF Hp!Header
  <2>. QED BY <2>1, <2>2
<1>4. ASSUME NEW b \in DOMAIN H.hdr, b # a PROVE ~ (b + 3 <= x /\ x < Hp!End(H, b))
  <2>1. b \in Nat /\ Hp!End(H, b) \in Nat /\ (Hp!End(H, b) <= a \/ Hp!End(H, a) <= b)
    BY <1>2, <1>4
  <2>. QED BY <1>1, <2>1
<1>. QED BY <1>1, <1>3, <1>4

-----------------------------------------------------------------------------
(* Heap: the clients, and the invariant.                                   *)

\* The clients that hold a block.
Holders(h) == {o \in Object : h[o] # Null}

\* Every client's block is in use and has the room that was asked for.
HaveBlocks(H, h) ==
  \A o \in Holders(h) : h[o].ptr - 3 \in Used(H) /\ h[o].size <= H.hdr[h[o].ptr - 3].size

\* No two clients hold the same block.
OwnBlocks(h) == \A o, q \in Holders(h) : h[o].ptr = h[q].ptr => o = q

\* Every block in use is held by a client.
AllHeld(H, h) == \A a \in Used(H) : \E o \in Holders(h) : h[o].ptr = a + 3

\* All that a client asked for holds what it wrote.
Filled(h, d) == \A o \in Holders(h) : \A x \in h[o].ptr .. h[o].ptr + h[o].size - 1 : d[x] = o

\* The types of held and data.
HeldType == [Object -> [ptr : Nat, size : Nat] \cup {Null}]

Cells == [0 .. Limit - 1 -> Object \cup {Null}]

\* The inductive invariant, of any heap, clients and memory.
HeapGood(H, h, d) ==
  /\ Sound(H) /\ H.brk <= Limit
  /\ h \in HeldType /\ d \in Cells
  /\ HaveBlocks(H, h) /\ OwnBlocks(h) /\ AllHeld(H, h)
  /\ Filled(h, d)
  /\ (\A o \in Object : h[o] = Null) => Coalesced(H)

HeapInv == HeapGood(heap, held, data)

\* What EndIs says, of a block in use.
LEMMA UsedAre ==
  ASSUME NEW H, Sound(H), NEW a \in Used(H)
  PROVE  a \in DOMAIN H.hdr /\ a \in Nat /\ H.hdr[a].size \in Nat
         /\ Hp!End(H, a) = a + 3 + H.hdr[a].size
BY EndIs DEF Used, Sound

\* The unit x is in memory and in no header.
Clear(H, x) ==
  x \in 0 .. Limit - 1 /\ \A b \in DOMAIN H.hdr : ~ (x \in b .. b + Hp!Header - 1)

\* The payload of a block in use.
LEMMA PayloadIsClear ==
  ASSUME NEW H, Sound(H), H.brk <= Limit, NEW a \in Used(H), NEW sz \in Nat, sz <= H.hdr[a].size,
         NEW x \in a + 3 .. a + 3 + sz - 1
  PROVE  Clear(H, x) /\ a + 3 <= x /\ x < Hp!End(H, a)
<1>1. a \in DOMAIN H.hdr /\ a \in Nat /\ H.hdr[a].size \in Nat /\ Hp!End(H, a) = a + 3 + H.hdr[a].size
  BY UsedAre
<1>2. x \in Nat /\ a + 3 <= x /\ x < Hp!End(H, a)
  BY <1>1
<1>3. x < H.brk /\ \A c \in DOMAIN H.hdr : ~ (x \in c .. c + Hp!Header - 1)
  BY <1>1, <1>2, InBlock
<1>4. x \in 0 .. Limit - 1
  <2>1. Limit \in Nat /\ H.brk \in Nat
    BY PlatformAssumption DEF Hp!HeapAssumption, Sound, Tiled
  <2>. QED BY <1>2, <1>3, <2>1
<1>. QED BY <1>2, <1>3, <1>4 DEF Clear

\* Memory keeps its type.
LEMMA WrittenCells ==
  ASSUME NEW old \in Cells, DOMAIN data = 0 .. Limit - 1, NEW G, NEW o \in Object,
         NEW given, NEW first
  PROVE  Hp!Written(G, old, o, given, first) \in Cells
BY DEF Cells, Hp!Written

\* The others keep their blocks, with their headers.
OthersKeep(G, H, h, o) ==
  \A q \in Holders(h) : q # o => /\ h[q].ptr - 3 \in Used(G)
                                 /\ G.hdr[h[q].ptr - 3] = H.hdr[h[q].ptr - 3]

\* Client o gets block a, or keeps it.
LEMMA HoldsBlock ==
  ASSUME NEW H, NEW h, NEW d, HeapGood(H, h, d), NEW o \in Object,
         NEW G, Sound(G), G.brk <= Limit, NEW a \in Used(G), NEW k \in Nat, k <= G.hdr[a].size,
         OthersKeep(G, H, h, o), \A q \in Holders(h) : q # o => h[q].ptr # a + 3,
         \A b \in Used(G) : b = a \/ \E q \in Holders(h) : q # o /\ h[q].ptr = b + 3,
         NEW old \in Cells, DOMAIN data = 0 .. Limit - 1,
         \A x \in 0 .. Limit - 1 : old[x] = d[x] \/ (a + 3 <= x /\ x < Hp!End(G, a)),
         NEW first, \A x \in a + 3 .. a + 3 + k - 1 : x >= first \/ old[x] = o,
         NEW g, g = [h EXCEPT ![o] = [ptr |-> a + 3, size |-> k]],
         NEW e, e = Hp!Written(G, old, o, Hp!Given(G, a + 3, k), first)
  PROVE  HeapGood(G, g, e)
<1> DEFINE rec == [ptr |-> a + 3, size |-> k]
<1>1. /\ a \in DOMAIN G.hdr /\ a \in Nat /\ G.hdr[a].size \in Nat
      /\ Hp!End(G, a) = a + 3 + G.hdr[a].size
  BY UsedAre
<1>2. rec \in [ptr : Nat, size : Nat] /\ rec # Null /\ rec.ptr = a + 3 /\ rec.size = k
  <2>1. rec \in [ptr : Nat, size : Nat] /\ rec.ptr = a + 3 /\ rec.size = k
    BY <1>1
  <2>. HIDE DEF rec
  <2>. QED BY <2>1, PlatformAssumption DEF Hp!HeapAssumption
<1>3. h \in HeldType /\ g = [h EXCEPT ![o] = rec]
  BY DEF HeapGood
<1>. HIDE DEF rec
<1>4. g \in HeldType /\ g[o] = rec /\ \A q \in Object : q # o => g[q] = h[q]
  BY <1>2, <1>3 DEF HeldType
<1>5. /\ o \in Holders(g)
      /\ \A q \in Holders(g) : q # o => q \in Holders(h) /\ g[q] = h[q] /\ h[q].ptr \in Nat /\ h[q].size \in Nat
      /\ \A q \in Holders(h) : q # o => q \in Holders(g)
  BY <1>2, <1>3, <1>4 DEF Holders, HeldType
<1>6. (a + 3) - 3 = a /\ (a + 3) - Hp!Header = a
  BY <1>1 DEF Hp!Header
<1>7. HaveBlocks(G, g)
  <2>1. ASSUME NEW q \in Holders(g), q # o
        PROVE  g[q].ptr - 3 \in Used(G) /\ g[q].size <= G.hdr[g[q].ptr - 3].size
    BY <1>5, <2>1 DEF OthersKeep, HeapGood, HaveBlocks
  <2>2. g[o].ptr - 3 \in Used(G) /\ g[o].size <= G.hdr[g[o].ptr - 3].size
    BY <1>2, <1>4, <1>6
  <2>. QED BY <2>1, <2>2 DEF HaveBlocks
<1>8. OwnBlocks(g)
  <2>0. g[o].ptr = a + 3 /\ \A q \in Holders(g) : q # o => g[q].ptr # a + 3
    <3>1. g[o].ptr = a + 3
      BY <1>2, <1>4
    <3>2. ASSUME NEW q \in Holders(g), q # o PROVE g[q].ptr # a + 3
      <4>1. q \in Holders(h) /\ g[q] = h[q]
        BY <1>5, <3>2
      <4>2. h[q].ptr # a + 3
        BY <3>2, <4>1, Zenon
      <4>. QED BY <4>1, <4>2, Zenon
    <3>. QED BY <3>1, <3>2
  <2>1. ASSUME NEW p \in Holders(g), NEW q \in Holders(g), g[p].ptr = g[q].ptr PROVE p = q
    <3>1. CASE p # o /\ q # o
      <4>1. p \in Holders(h) /\ q \in Holders(h) /\ h[p].ptr = h[q].ptr
        BY <1>5, <2>1, <3>1
      <4>2. OwnBlocks(h)
        BY DEF HeapGood
      <4>. QED BY <4>1, <4>2 DEF OwnBlocks
    <3>2. CASE p = o /\ q # o
      BY <2>0, <2>1, <3>2, Zenon
    <3>3. CASE p # o /\ q = o
      BY <2>0, <2>1, <3>3, Zenon
    <3>. QED BY <3>1, <3>2, <3>3
  <2>. QED BY <2>1 DEF OwnBlocks
<1>9. AllHeld(G, g)
  <2>1. ASSUME NEW b \in Used(G) PROVE \E q \in Holders(g) : g[q].ptr = b + 3
    <3>1. CASE b = a
      BY <1>2, <1>4, <1>5, <3>1
    <3>2. CASE b # a
      <4>1. PICK q \in Holders(h) : q # o /\ h[q].ptr = b + 3
        BY <3>2
      <4>2. q \in Holders(g)
        BY <1>5, <4>1
      <4>. QED BY <1>5, <4>1, <4>2
    <3>. QED BY <3>1, <3>2
  <2>. QED BY <2>1 DEF AllHeld
<1>10. e \in Cells
  BY WrittenCells
<1>11. ASSUME NEW x \in g[o].ptr .. g[o].ptr + g[o].size - 1 PROVE e[x] = o
  <2>1. x \in a + 3 .. a + 3 + k - 1
    BY <1>2, <1>4
  <2>2. Clear(G, x) /\ a + 3 <= x /\ x < Hp!End(G, a)
    BY <2>1, PayloadIsClear
  <2>5. x \in Hp!Given(G, a + 3, k)
    BY <1>6, <2>1, <2>2 DEF Hp!Given
  <2>6. x >= first \/ old[x] = o
    BY <2>1
  <2>7. e[x] = IF x >= first THEN o ELSE old[x]
    BY <2>2, <2>5, Zenon DEF Hp!Written, Clear
  <2>. QED BY <2>6, <2>7
<1>12. ASSUME NEW q \in Holders(g), q # o, NEW x \in g[q].ptr .. g[q].ptr + g[q].size - 1 PROVE e[x] = q
  <2> DEFINE b == h[q].ptr - 3
             sz == h[q].size
             given == Hp!Given(G, a + 3, k)
  <2>0. q \in Holders(h) /\ g[q] = h[q] /\ h[q].ptr \in Nat /\ sz \in Nat
    BY <1>5, <1>12
  <2>1. b \in Used(G) /\ b + 3 = h[q].ptr /\ b # a
    <3>1. b \in Used(G) /\ G.hdr[b] = H.hdr[b] /\ h[q].ptr # a + 3
      BY <1>12, <2>0 DEF OthersKeep
    <3>2. b + 3 = h[q].ptr
      BY <2>0
    <3>. HIDE DEF b
    <3>. QED BY <1>1, <3>1, <3>2
  <2>2. sz <= G.hdr[b].size
    BY <1>12, <2>0 DEF OthersKeep, HeapGood, HaveBlocks
  <2>3. x \in b + 3 .. b + 3 + sz - 1 /\ d[x] = q
    <3>1. x \in h[q].ptr .. h[q].ptr + sz - 1
      BY <1>12, <2>0
    <3>2. Filled(h, d)
      BY DEF HeapGood
    <3>. HIDE DEF b
    <3>. QED BY <2>0, <2>1, <3>1, <3>2 DEF Filled
  <2>. HIDE DEF b, sz, given
  <2>4. Clear(G, x) /\ b + 3 <= x /\ x < Hp!End(G, b)
    BY <2>0, <2>1, <2>2, <2>3, PayloadIsClear
  <2>5. b \in DOMAIN G.hdr /\ x \in Nat
    BY <2>1, <2>4 DEF Used, Clear
  <2>6. ~ (a + 3 <= x /\ x < Hp!End(G, a))
    BY <1>1, <2>1, <2>4, <2>5, InBlock
  <2>8. old[x] = q
    BY <2>3, <2>4, <2>6 DEF Clear
  <2>9. x \notin given
    <3>1. \A u \in given : a + 3 <= u /\ u < Hp!End(G, a)
      BY <1>1, <1>6 DEF Hp!Given, given
    <3>. QED BY <2>6, <3>1
  <2>10. e = Hp!Written(G, old, o, given, first)
    BY DEF given
  <2>. QED BY <1>12, <2>4, <2>8, <2>9, <2>10, Zenon DEF Hp!Written, Clear
<1>13. Filled(g, e)
  BY <1>11, <1>12 DEF Filled
<1>14. \E q \in Object : g[q] # Null
  BY <1>2, <1>4
<1>. QED BY <1>4, <1>7, <1>8, <1>9, <1>10, <1>13, <1>14 DEF HeapGood

\* Client o gives its block back.
LEMMA LeavesBlock ==
  ASSUME NEW H, NEW h, NEW d, HeapGood(H, h, d), NEW o \in Object,
         NEW G, Sound(G), Coalesced(G), G.brk <= Limit,
         OthersKeep(G, H, h, o),
         \A b \in Used(G) : \E q \in Holders(h) : q # o /\ h[q].ptr = b + 3,
         DOMAIN data = 0 .. Limit - 1,
         NEW g, g = [h EXCEPT ![o] = Null],
         NEW e, e = Hp!Written(G, d, o, {}, 0)
  PROVE  HeapGood(G, g, e)
<1>1. h \in HeldType /\ d \in Cells
  BY DEF HeapGood
<1>2. g \in HeldType /\ g[o] = Null /\ \A q \in Object : q # o => g[q] = h[q]
  BY <1>1 DEF HeldType
<1>3. /\ \A q \in Holders(g) : q # o /\ q \in Holders(h) /\ g[q] = h[q] /\ h[q].ptr \in Nat /\ h[q].size \in Nat
      /\ \A q \in Holders(h) : q # o => q \in Holders(g)
  BY <1>1, <1>2 DEF Holders, HeldType
<1>4. HaveBlocks(G, g)
  BY <1>3 DEF OthersKeep, HeapGood, HaveBlocks
<1>5. OwnBlocks(g)
  BY <1>3 DEF HeapGood, OwnBlocks
<1>6. AllHeld(G, g)
  <2>1. ASSUME NEW b \in Used(G) PROVE \E q \in Holders(g) : g[q].ptr = b + 3
    <3>1. PICK q \in Holders(h) : q # o /\ h[q].ptr = b + 3
      OBVIOUS
    <3>2. q \in Holders(g)
      BY <1>3, <3>1
    <3>. QED BY <1>3, <3>1, <3>2
  <2>. QED BY <2>1 DEF AllHeld
<1>7. e \in Cells
  BY <1>1, WrittenCells
<1>8. ASSUME NEW q \in Holders(g), NEW x \in g[q].ptr .. g[q].ptr + g[q].size - 1 PROVE e[x] = q
  <2> DEFINE b == h[q].ptr - 3
             sz == h[q].size
             given == {}
  <2>0. q \in Holders(h) /\ q # o /\ g[q] = h[q] /\ h[q].ptr \in Nat /\ sz \in Nat
    BY <1>3
  <2>1. b \in Used(G) /\ b + 3 = h[q].ptr
    <3>1. b \in Used(G)
      BY <2>0 DEF OthersKeep
    <3>2. b + 3 = h[q].ptr
      BY <2>0
    <3>. QED BY <3>1, <3>2
  <2>2. sz <= G.hdr[b].size
    BY <2>0 DEF OthersKeep, HeapGood, HaveBlocks
  <2>3. x \in b + 3 .. b + 3 + sz - 1 /\ d[x] = q
    <3>1. x \in h[q].ptr .. h[q].ptr + sz - 1
      BY <2>0
    <3>2. Filled(h, d)
      BY DEF HeapGood
    <3>. HIDE DEF b
    <3>. QED BY <2>0, <2>1, <3>1, <3>2 DEF Filled
  <2>4. x \notin given /\ e = Hp!Written(G, d, o, given, 0)
    OBVIOUS
  <2>. HIDE DEF b, sz, given
  <2>5. Clear(G, x)
    BY <2>0, <2>1, <2>2, <2>3, PayloadIsClear
  <2>. QED BY <2>0, <2>3, <2>4, <2>5, Zenon DEF Hp!Written, Clear
<1>9. Filled(g, e)
  BY <1>8 DEF Filled
<1>. QED BY <1>2, <1>4, <1>5, <1>6, <1>7, <1>9 DEF HeapGood



-----------------------------------------------------------------------------
(* Heap: every call of a client keeps the invariant.                       *)

LEMMA HeapInit == Hp!Init => HeapInv
<1> SUFFICES ASSUME Hp!Init PROVE HeapInv
  OBVIOUS
<1>1. heap.hdr = <<>> /\ heap.list = <<>> /\ heap.brk = 0
      /\ heap = [hdr |-> <<>>, list |-> <<>>, brk |-> 0]
  BY DEF Hp!Init
<1>2. DOMAIN heap.hdr = {} /\ Len(heap.list) = 0
  BY <1>1
<1>3. heap \in Heaps
  <2>1. <<>> \in [{} -> [size : Nat, free : BOOLEAN]] /\ {} \in SUBSET Nat
    OBVIOUS
  <2>2. <<>> \in Headers
    BY <2>1, HeadersAre
  <2>3. <<>> \in Seq(Nat)
    OBVIOUS
  <2>. QED BY <1>1, <2>2, <2>3 DEF Heaps
<1>4. Tiled(heap) /\ Freed(heap) = {} /\ Used(heap) = {}
  BY <1>1, <1>2 DEF Tiled, Freed, Used
<1>5. Sound(heap) /\ Coalesced(heap)
  BY <1>2, <1>3, <1>4 DEF Sound, Listed, Ascending, Lists, Coalesced
<1>6. held \in HeldType /\ Holders(held) = {}
  BY DEF Hp!Init, HeldType, Holders
<1>7. data \in Cells
  BY DEF Hp!Init, Cells
<1>8. heap.brk <= Limit
  BY <1>1, PlatformAssumption DEF Hp!HeapAssumption
<1>. QED BY <1>4, <1>5, <1>6, <1>7, <1>8 DEF HeapInv, HeapGood, HaveBlocks, OwnBlocks, AllHeld, Filled

\* What a client holds.
LEMMA HeldIs ==
  ASSUME HeapInv, NEW o \in Object, held[o] # Null
  PROVE  /\ o \in Holders(held) /\ held[o] \in [ptr : Nat, size : Nat]
         /\ held[o].ptr \in Nat /\ held[o].size \in Nat
         /\ held[o].ptr - 3 \in Used(heap) /\ held[o].ptr - 3 \in Nat
         /\ (held[o].ptr - 3) + 3 = held[o].ptr
         /\ held[o].size <= heap.hdr[held[o].ptr - 3].size
<1>1. o \in Holders(held)
  BY DEF Holders
<1>2. held[o] \in [ptr : Nat, size : Nat]
  BY DEF HeapInv, HeapGood, HeldType
<1>3. held[o].ptr - 3 \in Used(heap) /\ held[o].size <= heap.hdr[held[o].ptr - 3].size
  BY <1>1 DEF HeapInv, HeapGood, HaveBlocks
<1>4. held[o].ptr - 3 \in Nat
  BY <1>3, UsedAre DEF HeapInv, HeapGood
<1>5. held[o].ptr \in Nat /\ held[o].size \in Nat
  BY <1>2
<1>6. (held[o].ptr - 3) + 3 = held[o].ptr
  BY <1>5
<1>. QED BY <1>1, <1>2, <1>3, <1>4, <1>5, <1>6

\* The block of another client is another block.
LEMMA OthersBlock ==
  ASSUME HeapInv, NEW o \in Holders(held), NEW q \in Holders(held), q # o
  PROVE  held[q].ptr - 3 # held[o].ptr - 3
<1>1. held[q].ptr # held[o].ptr
  BY DEF HeapInv, HeapGood, OwnBlocks
<1>2. /\ held[o].ptr \in Nat /\ held[q].ptr \in Nat
  BY HeldIs DEF Holders
<1>. QED BY <1>1, <1>2

\* A client has what malloc returned.
LEMMA ObtainIs ==
  ASSUME HeapInv, NEW o \in Object, held[o] = Null, NEW k \in Nat, NEW need \in Nat, k <= need,
         NEW r, Allocates(r, heap, need), Hp!Obtain(o, k, r.heap, r.ptr)
  PROVE  HeapInv'
<1>1. CASE r.ptr = Null /\ r.heap = heap
  <2>1. heap' = heap /\ held' = held /\ data' = data
    BY <1>1 DEF Hp!Obtain
  <2>. QED BY <2>1 DEF HeapInv
<1>2. CASE ~ (r.ptr = Null /\ r.heap = heap)
  <2>1. PICK a \in Nat : Gets(r.heap, heap, a, need) /\ r.ptr = a + 3 /\ r.heap.brk <= Limit
    BY <1>2 DEF Allocates
  <2> DEFINE G == r.heap
  <2>2. r.ptr # Null
    <3>1. a + 3 \in Nat
      OBVIOUS
    <3>. QED BY <2>1, <3>1, PlatformAssumption DEF Hp!HeapAssumption
  <2>3. /\ heap' = G
        /\ held' = [held EXCEPT ![o] = [ptr |-> a + 3, size |-> k]]
        /\ data' = Hp!Written(G, data, o, Hp!Given(G, a + 3, k), a + 3)
    BY <2>1, <2>2, Zenon DEF Hp!Obtain
  <2>. HIDE DEF G
  <2>4. /\ Sound(G) /\ G.brk <= Limit /\ a \notin Used(heap) /\ Used(G) = Used(heap) \cup {a}
        /\ \A b \in Used(heap) : G.hdr[b] = heap.hdr[b]
        /\ G.hdr[a].size >= need /\ a \in Used(G)
    BY <2>1 DEF Gets, Gives, G
  <2>5. k <= G.hdr[a].size
    <3>1. G.hdr[a].size \in Nat
      BY <2>4, UsedAre
    <3>. QED BY <2>4, <3>1
  <2>6. \A q \in Holders(held) : held[q].ptr - 3 \in Used(heap) /\ held[q].ptr \in Nat /\ q # o
    BY HeldIs DEF Holders
  <2>7. OthersKeep(G, heap, held, o)
    BY <2>4, <2>6 DEF OthersKeep
  <2>8. \A q \in Holders(held) : q # o => held[q].ptr # a + 3
    BY <2>4, <2>6
  <2>9. \A b \in Used(G) : b = a \/ \E q \in Holders(held) : q # o /\ held[q].ptr = b + 3
    <3>1. ASSUME NEW b \in Used(heap) PROVE \E q \in Holders(held) : q # o /\ held[q].ptr = b + 3
      <4>1. PICK q \in Holders(held) : held[q].ptr = b + 3
        BY DEF HeapInv, HeapGood, AllHeld
      <4>. QED BY <2>6, <4>1
    <3>. QED BY <2>4, <3>1
  <2>10. data \in Cells /\ DOMAIN data = 0 .. Limit - 1
    BY DEF HeapInv, HeapGood, Cells
  <2>11. \A x \in a + 3 .. a + 3 + k - 1 : x >= a + 3 \/ data[x] = o
    OBVIOUS
  <2>12. HeapGood(heap, held, data)
    BY DEF HeapInv
  <2>13. HeapGood(heap', held', data')
    BY <2>3, <2>4, <2>5, <2>7, <2>8, <2>9, <2>10, <2>11, <2>12, HoldsBlock
  <2>. QED BY <2>13 DEF HeapInv
<1>. QED BY <1>1, <1>2

\* The kernel grants no more than its limit.
LEMMA GrantedIs ==
  ASSUME NEW k, NEW granted \in Hp!Granted(k)
  PROVE  Grants(heap, Hp!uheap_align(k), granted)
<1>1. (heap.brk + Hp!FromKernel(Hp!uheap_align(k)) <= Limit) \in BOOLEAN
  OBVIOUS
<1>. QED BY <1>1 DEF Hp!Granted, Grants

LEMMA MallocKeeps ==
  ASSUME HeapInv, NEW o \in Object, NEW k \in 0 .. SizeMod - 2, held[o] = Null,
         NEW granted \in Hp!Granted(k), NEW r, r = Hp!malloc(heap, k, granted),
         Hp!Obtain(o, k, r.heap, r.ptr)
  PROVE  HeapInv'
<1> DEFINE need == Hp!uheap_align(k)
<1>1. need \in Nat /\ k <= need /\ k \in Nat
  <2>1. need \in k .. SizeMod - 2
    BY AlignIs
  <2>2. SizeMod \in Nat
    BY PlatformAssumption DEF Hp!HeapAssumption
  <2>. HIDE DEF need
  <2>. QED BY <2>1, <2>2
<1>2. Allocates(r, heap, need)
  <2>1. Sound(heap) /\ heap.brk <= Limit
    BY DEF HeapInv, HeapGood
  <2>2. Grants(heap, need, granted)
    BY GrantedIs
  <2>. QED BY <2>1, <2>2, MallocIs, Zenon
<1>. HIDE DEF need
<1>. QED BY <1>1, <1>2, ObtainIs

LEMMA HeapMalloc ==
  ASSUME HeapInv, NEW o \in Object, NEW k \in Sizes, Hp!Malloc(o, k)
  PROVE  HeapInv'
<1>1. k \in 0 .. SizeMod - 2
  BY PlatformAssumption DEF Hp!HeapAssumption
<1>2. PICK granted \in Hp!Granted(k) :
        Hp!Obtain(o, k, Hp!malloc(heap, k, granted).heap, Hp!malloc(heap, k, granted).ptr)
  BY Zenon DEF Hp!Malloc
<1> DEFINE r == Hp!malloc(heap, k, granted)
<1>3. r = Hp!malloc(heap, k, granted) /\ Hp!Obtain(o, k, r.heap, r.ptr)
  BY <1>2
<1>4. held[o] = Null
  BY DEF Hp!Malloc
<1>. HIDE DEF r
<1>. QED BY <1>1, <1>3, <1>4, MallocKeeps

LEMMA HeapCalloc ==
  ASSUME HeapInv, NEW o \in Object, NEW mn \in Products, Hp!Calloc(o, mn[1], mn[2])
  PROVE  HeapInv'
<1>1. CASE Hp!Overflows(mn[1], mn[2])
  <2>1. heap' = heap /\ held' = held /\ data' = data
    BY <1>1 DEF Hp!Calloc, Hp!vars
  <2>. QED BY <2>1 DEF HeapInv
<1>2. CASE ~ Hp!Overflows(mn[1], mn[2])
  <2> DEFINE k == mn[1] * mn[2]
  <2>1. k \in 0 .. SizeMod - 2 /\ k % SizeMod = k
    BY <1>2, ProductIs
  <2>. HIDE DEF k
  <2>2. PICK granted \in Hp!Granted(k) :
          Hp!Obtain(o, k, Hp!malloc(heap, k, granted).heap, Hp!malloc(heap, k, granted).ptr)
    <3>1. \E granted \in Hp!Granted(k % SizeMod) :
            Hp!Obtain(o, k, Hp!malloc(heap, k % SizeMod, granted).heap,
                            Hp!malloc(heap, k % SizeMod, granted).ptr)
      BY <1>2, Zenon DEF Hp!Calloc, k
    <3>. QED BY <2>1, <3>1, Zenon
  <2> DEFINE r == Hp!malloc(heap, k, granted)
  <2>3. r = Hp!malloc(heap, k, granted) /\ Hp!Obtain(o, k, r.heap, r.ptr)
    BY <2>2
  <2>4. held[o] = Null
    BY DEF Hp!Calloc
  <2>. HIDE DEF r
  <2>. QED BY <2>1, <2>3, <2>4, MallocKeeps
<1>. QED BY <1>1, <1>2

LEMMA HeapFree ==
  ASSUME HeapInv, NEW o \in Object, Hp!Free(o)
  PROVE  HeapInv'
<1> DEFINE a == held[o].ptr - 3
           G == Hp!free(heap, a + 3)
<1>1. held[o] # Null
  BY DEF Hp!Free
<1>2. o \in Holders(held) /\ a \in Used(heap) /\ a \in Nat /\ a + 3 = held[o].ptr
  BY <1>1, HeldIs
<1>3. /\ heap' = G /\ held' = [held EXCEPT ![o] = Null]
      /\ data' = Hp!Written(G, data, o, {}, 0)
  BY <1>2, Zenon DEF Hp!Free
<1>4. Frees(G, heap, a)
  <2>. HIDE DEF a
  <2>1. Sound(heap)
    BY DEF HeapInv, HeapGood
  <2>. QED BY <1>2, <2>1, FreeIs
<1>. HIDE DEF G
<1>5. Sound(G) /\ Coalesced(G) /\ G.brk <= Limit
  BY <1>4 DEF Frees, HeapInv, HeapGood
<1>6. \A q \in Holders(held) : q # o => held[q].ptr - 3 \in Used(heap) /\ held[q].ptr - 3 # a
  BY <1>2, HeldIs, OthersBlock DEF Holders
<1>. HIDE DEF a
<1>7. OthersKeep(G, heap, held, o)
  BY <1>4, <1>6 DEF OthersKeep, Frees
<1>8. \A b \in Used(G) : \E q \in Holders(held) : q # o /\ held[q].ptr = b + 3
  <2>1. ASSUME NEW b \in Used(G) PROVE \E q \in Holders(held) : q # o /\ held[q].ptr = b + 3
    <3>1. b \in Used(heap) /\ b # a
      BY <1>4 DEF Frees
    <3>2. PICK q \in Holders(held) : held[q].ptr = b + 3
      BY <3>1 DEF HeapInv, HeapGood, AllHeld
    <3>3. b \in Nat
      BY <3>1, UsedAre DEF HeapInv, HeapGood
    <3>. QED BY <1>2, <3>1, <3>2, <3>3
  <2>. QED BY <2>1
<1>9. DOMAIN data = 0 .. Limit - 1 /\ HeapGood(heap, held, data)
  BY DEF HeapInv, HeapGood, Cells
<1>10. HeapGood(heap', held', data')
  BY <1>3, <1>5, <1>7, <1>8, <1>9, LeavesBlock
<1>. QED BY <1>10 DEF HeapInv

LEMMA HeapFreeAgain ==
  ASSUME HeapInv, NEW a \in DOMAIN heap.hdr, Hp!FreeAgain(a)
  PROVE  HeapInv'
<1>1. a \in Nat /\ (a + Hp!Header) - Hp!Header = a
  BY EndIs DEF HeapInv, HeapGood, Sound, Hp!Header
<1>2. heap.hdr[a].free
  <2>1. SUFFICES ASSUME a \in Used(heap) PROVE FALSE
    BY DEF Used
  <2>2. PICK o \in Holders(held) : held[o].ptr = a + 3
    BY <2>1 DEF HeapInv, HeapGood, AllHeld
  <2>3. a + Hp!Header \in Hp!Pointers
    BY <2>2 DEF Hp!Pointers, Holders, Hp!Header
  <2>. QED BY <2>3 DEF Hp!FreeAgain
<1>3. Hp!free(heap, a + Hp!Header) = heap
  BY <1>1, <1>2 DEF Hp!free
<1>4. heap' = heap /\ held' = held /\ data' = data
  BY <1>3 DEF Hp!FreeAgain
<1>. QED BY <1>4 DEF HeapInv



\* The blocks of the others, when o keeps its own.
LEMMA OthersOf ==
  ASSUME HeapInv, NEW o \in Holders(held), NEW a, a = held[o].ptr - 3
  PROVE  /\ \A q \in Holders(held) : q # o =>
              held[q].ptr - 3 \in Used(heap) /\ held[q].ptr - 3 # a /\ held[q].ptr \in Nat
         /\ \A b \in Used(heap) : b # a => \E q \in Holders(held) : q # o /\ held[q].ptr = b + 3
<1>1. \A q \in Holders(held) : q # o =>
        held[q].ptr - 3 \in Used(heap) /\ held[q].ptr - 3 # a /\ held[q].ptr \in Nat
  BY HeldIs, OthersBlock DEF Holders
<1>2. ASSUME NEW b \in Used(heap), b # a PROVE \E q \in Holders(held) : q # o /\ held[q].ptr = b + 3
  <2>1. PICK q \in Holders(held) : held[q].ptr = b + 3
    BY DEF HeapInv, HeapGood, AllHeld
  <2>2. b \in Nat
    BY UsedAre DEF HeapInv, HeapGood
  <2>. QED BY <1>2, <2>1, <2>2
<1>. QED BY <1>1, <1>2

\* realloc in place finds room, or takes it from the block behind.
LEMMA GrowsOrFits ==
  ASSUME NEW H, Sound(H), NEW a \in Used(H), NEW sz \in Nat,
         H.hdr[a].size >= sz \/ Hp!CanGrow(H, a, sz),
         NEW G, G = (IF H.hdr[a].size >= sz THEN H ELSE Hp!Grown(H, a))
  PROVE  Gives(G, H, a, sz) /\ G.brk = H.brk
<1>1. CASE H.hdr[a].size >= sz
  BY <1>1 DEF Gives
<1>2. CASE ~ (H.hdr[a].size >= sz)
  <2> DEFINE b == Hp!End(H, a)
             total == H.hdr[a].size + 3 + H.hdr[b].size
  <2>1. b \in Freed(H) /\ total >= sz
    BY <1>2 DEF Hp!CanGrow, Hp!Header, Freed
  <2>2. Gives(G, H, a, total) /\ G.brk = H.brk
    BY <1>2, <2>1, GrownIs
  <2>3. G.hdr[a].size \in Nat /\ H.hdr[a].size \in Nat /\ H.hdr[b].size \in Nat
    <3>1. G.hdr[a].size \in Nat
      BY <2>2, UsedAre DEF Gives
    <3>2. H.hdr[a].size \in Nat
      BY UsedAre
    <3>3. H.hdr[b].size \in Nat
      BY <2>1, EndIs DEF Freed, Sound
    <3>. QED BY <3>1, <3>2, <3>3
  <2>4. G.hdr[a].size >= total
    BY <2>2 DEF Gives
  <2>5. G.hdr[a].size >= sz
    BY <2>1, <2>3, <2>4
  <2>. QED BY <2>2, <2>5 DEF Gives
<1>. QED BY <1>1, <1>2

LEMMA HeapReallocInPlace ==
  ASSUME HeapInv, NEW o \in Object, NEW k \in Sizes, Hp!ReallocInPlace(o, k)
  PROVE  HeapInv'
<1> DEFINE a == held[o].ptr - 3
           sz == Hp!uheap_align(k)
           H == IF heap.hdr[a].size >= sz THEN heap ELSE Hp!Grown(heap, a)
           G == Hp!Split(H, a, sz)
           first == (a + 3) + held[o].size
<1>1. held[o] # Null
  BY DEF Hp!ReallocInPlace
<1>2. /\ o \in Holders(held) /\ a \in Used(heap) /\ a \in Nat /\ a + 3 = held[o].ptr
      /\ held[o] \in [ptr : Nat, size : Nat] /\ held[o].size \in Nat
  BY <1>1, HeldIs
<1>3. k \in Nat /\ sz \in Nat /\ k <= sz
  <2>1. SizeMod \in Nat /\ k \in 0 .. SizeMod - 2
    BY PlatformAssumption DEF Hp!HeapAssumption
  <2>2. sz \in k .. SizeMod - 2
    BY <2>1, AlignIs
  <2>. HIDE DEF sz
  <2>. QED BY <2>1, <2>2
<1>4. /\ heap' = G /\ held' = [held EXCEPT ![o].size = k]
      /\ data' = Hp!Written(G, data, o, Hp!Given(G, a + 3, k), first)
      /\ heap.hdr[a].size >= sz \/ Hp!CanGrow(heap, a, sz)
  BY <1>2, Zenon DEF Hp!ReallocInPlace, Hp!Header
<1>5. held' = [held EXCEPT ![o] = [ptr |-> a + 3, size |-> k]]
  <2>1. [held[o] EXCEPT !.size = k] = [ptr |-> a + 3, size |-> k]
    <3>. HIDE DEF a
    <3>. QED BY <1>2
  <2>2. held' = [held EXCEPT ![o] = [held[o] EXCEPT !.size = k]]
    BY <1>4
  <2>. QED BY <2>1, <2>2, Zenon
<1>. HIDE DEF sz, G
<1>6. Gives(H, heap, a, sz) /\ H.brk = heap.brk
  <2>1. Sound(heap)
    BY DEF HeapInv, HeapGood
  <2>. HIDE DEF a, H
  <2>2. H = IF heap.hdr[a].size >= sz THEN heap ELSE Hp!Grown(heap, a)
    BY DEF H
  <2>. QED BY <1>2, <1>3, <1>4, <2>1, <2>2, GrowsOrFits
<1>. HIDE DEF a, H
<1>7. Gives(G, H, a, sz) /\ G.brk = H.brk
  <2>1. Sound(H) /\ a \in Used(H) /\ H.hdr[a].size >= sz
    BY <1>6 DEF Gives
  <2>2. H.hdr[a].size \in Nat
    BY <2>1, UsedAre
  <2>3. sz <= H.hdr[a].size
    BY <1>3, <2>1, <2>2
  <2>. QED BY <1>3, <2>1, <2>3, SplitIs DEF G
<1>8. /\ Sound(G) /\ G.brk <= Limit /\ a \in Used(G) /\ Used(G) = Used(heap)
      /\ \A b \in Used(heap) : b # a => G.hdr[b] = heap.hdr[b]
      /\ G.hdr[a].size >= sz
  BY <1>2, <1>6, <1>7 DEF Gives, HeapInv, HeapGood
<1>9. k <= G.hdr[a].size
  <2>1. G.hdr[a].size \in Nat
    BY <1>8, UsedAre
  <2>. QED BY <1>3, <1>8, <2>1
<1>10. /\ \A q \in Holders(held) : q # o =>
              held[q].ptr - 3 \in Used(heap) /\ held[q].ptr - 3 # a /\ held[q].ptr \in Nat
       /\ \A b \in Used(heap) : b # a => \E q \in Holders(held) : q # o /\ held[q].ptr = b + 3
  BY <1>2, OthersOf DEF a
<1>11. OthersKeep(G, heap, held, o)
  BY <1>8, <1>10 DEF OthersKeep
<1>12. \A q \in Holders(held) : q # o => held[q].ptr # a + 3
  BY <1>2, <1>10
<1>13. \A b \in Used(G) : b = a \/ \E q \in Holders(held) : q # o /\ held[q].ptr = b + 3
  BY <1>8, <1>10
<1>14. data \in Cells /\ DOMAIN data = 0 .. Limit - 1 /\ HeapGood(heap, held, data)
  BY DEF HeapInv, HeapGood, Cells
<1>15. \A x \in a + 3 .. a + 3 + k - 1 : x >= first \/ data[x] = o
  <2>1. ASSUME NEW x \in a + 3 .. a + 3 + k - 1, ~ (x >= first) PROVE data[x] = o
    <3>1. x \in held[o].ptr .. held[o].ptr + held[o].size - 1
      BY <1>2, <1>3, <2>1
    <3>. QED BY <1>2, <3>1 DEF HeapInv, HeapGood, Filled
  <2>. QED BY <2>1
<1>. HIDE DEF first
<1>16. \A x \in 0 .. Limit - 1 : data[x] = data[x] \/ (a + 3 <= x /\ x < Hp!End(G, a))
  OBVIOUS
<1>17. HeapGood(G, held', data')
  <2>1. Sound(G) /\ G.brk <= Limit /\ a \in Used(G) /\ k \in Nat
    BY <1>3, <1>8
  <2>2. data' = Hp!Written(G, data, o, Hp!Given(G, a + 3, k), first)
    BY <1>4
  <2>. QED BY <1>5, <1>9, <1>11, <1>12, <1>13, <1>14, <1>15, <1>16, <2>1, <2>2, HoldsBlock, ZenonT(40)
<1>18. HeapGood(heap', held', data')
  BY <1>4, <1>17
<1>. QED BY <1>18 DEF HeapInv

LEMMA HeapReallocMove ==
  ASSUME HeapInv, NEW o \in Object, NEW k \in Sizes, Hp!ReallocMove(o, k)
  PROVE  HeapInv'
<1> DEFINE p == held[o].ptr
           a == held[o].ptr - 3
           sz == Hp!uheap_align(k)
<1>1. held[o] # Null
  BY DEF Hp!ReallocMove
<1>2. /\ o \in Holders(held) /\ a \in Used(heap) /\ a \in Nat /\ a + 3 = p
      /\ held[o].size \in Nat /\ held[o].size <= heap.hdr[a].size
  BY <1>1, HeldIs
<1>3. /\ k \in Nat /\ sz \in Nat /\ k <= sz /\ sz \in 0 .. SizeMod - 2 /\ Hp!uheap_align(sz) = sz
  <2>1. SizeMod \in Nat /\ k \in 0 .. SizeMod - 2
    BY PlatformAssumption DEF Hp!HeapAssumption
  <2>2. sz \in k .. SizeMod - 2 /\ Hp!uheap_align(sz) = sz
    BY <2>1, AlignIs
  <2>. HIDE DEF sz
  <2>. QED BY <2>1, <2>2
<1>4. PICK granted \in Hp!Granted(sz) :
        IF Hp!malloc(heap, sz, granted).ptr = Null THEN UNCHANGED Hp!vars
        ELSE /\ heap' = Hp!free(Hp!malloc(heap, sz, granted).heap, p)
             /\ held' = [held EXCEPT ![o] = [ptr |-> Hp!malloc(heap, sz, granted).ptr, size |-> k]]
             /\ data' = Hp!Written(heap', Hp!Copied(p, Hp!malloc(heap, sz, granted).ptr, heap.hdr[a].size), o,
                                   Hp!Given(heap', Hp!malloc(heap, sz, granted).ptr, k),
                                   Hp!malloc(heap, sz, granted).ptr + held[o].size)
  BY Zenon DEF Hp!ReallocMove, Hp!Header
<1>5. ~ (heap.hdr[a].size >= sz)
  BY Zenon DEF Hp!ReallocMove, Hp!Header
<1> DEFINE r == Hp!malloc(heap, sz, granted)
<1>6. Allocates(r, heap, sz)
  <2>1. Sound(heap) /\ heap.brk <= Limit
    BY DEF HeapInv, HeapGood
  <2>. HIDE DEF sz
  <2>2. Grants(heap, Hp!uheap_align(sz), granted)
    BY GrantedIs
  <2>3. Allocates(r, heap, Hp!uheap_align(sz))
    BY <1>3, <2>1, <2>2, MallocIs, Zenon
  <2>. QED BY <1>3, <2>3
<1>7. CASE r.ptr = Null
  <2>1. heap' = heap /\ held' = held /\ data' = data
    BY <1>4, <1>7 DEF Hp!vars
  <2>. QED BY <2>1 DEF HeapInv
<1>8. CASE r.ptr # Null
  <2> DEFINE F == r.heap
             G == Hp!free(F, a + 3)
             g == [held EXCEPT ![o] = [ptr |-> r.ptr, size |-> k]]
             old == Hp!Copied(p, r.ptr, heap.hdr[a].size)
             first == r.ptr + held[o].size
  <2>1. /\ heap' = G /\ held' = g
        /\ data' = Hp!Written(G, old, o, Hp!Given(G, r.ptr, k), first)
    BY <1>2, <1>4, <1>8, Zenon
  <2>2. PICK b \in Nat : Gets(F, heap, b, sz) /\ r.ptr = b + 3 /\ F.brk <= Limit
    BY <1>6, <1>8 DEF Allocates
  <2>. HIDE DEF F, G, old, r, sz
  <2>3. /\ Sound(F) /\ F.brk <= Limit /\ b \notin Used(heap) /\ Used(F) = Used(heap) \cup {b}
        /\ \A c \in Used(heap) : F.hdr[c] = heap.hdr[c]
        /\ F.hdr[b].size >= sz
    BY <2>2 DEF Gets, Gives
  <2>4. Frees(G, F, a)
    <3>1. a \in Used(F)
      BY <1>2, <2>3
    <3>. HIDE DEF a
    <3>. QED BY <2>3, <3>1, FreeIs DEF G
  <2>5. b # a
    BY <1>2, <2>3
  <2>. HIDE DEF a, p
  <2>6. /\ Sound(G) /\ G.brk <= Limit /\ Used(G) = (Used(heap) \ {a}) \cup {b} /\ b \in Used(G)
        /\ \A c \in Used(heap) : c # a => G.hdr[c] = heap.hdr[c]
        /\ G.hdr[b].size >= sz
    BY <2>3, <2>4, <2>5 DEF Frees
  <2>7. /\ G.hdr[b].size \in Nat /\ Hp!End(G, b) = b + 3 + G.hdr[b].size
        /\ heap.hdr[a].size \in Nat /\ Hp!End(heap, a) = a + 3 + heap.hdr[a].size
        /\ Sound(heap) /\ heap.brk <= Limit
    BY <1>2, <2>6, UsedAre DEF HeapInv, HeapGood
  <2>8. k <= G.hdr[b].size /\ heap.hdr[a].size < G.hdr[b].size
    BY <1>3, <1>5, <2>6, <2>7
  <2>9. /\ \A q \in Holders(held) : q # o =>
              held[q].ptr - 3 \in Used(heap) /\ held[q].ptr - 3 # a /\ held[q].ptr \in Nat
        /\ \A c \in Used(heap) : c # a => \E q \in Holders(held) : q # o /\ held[q].ptr = c + 3
    BY <1>2, OthersOf DEF a
  <2>10. OthersKeep(G, heap, held, o)
    BY <2>6, <2>9 DEF OthersKeep
  <2>11. \A q \in Holders(held) : q # o => held[q].ptr # b + 3
    BY <2>3, <2>9
  <2>12. \A c \in Used(G) : c = b \/ \E q \in Holders(held) : q # o /\ held[q].ptr = c + 3
    BY <2>6, <2>9
  <2>13. data \in Cells /\ DOMAIN data = 0 .. Limit - 1 /\ HeapGood(heap, held, data)
    BY DEF HeapInv, HeapGood, Cells
  <2> DEFINE room == heap.hdr[a].size
  <2>14. \A x \in 0 .. Limit - 1 :
           old[x] = IF x \in b + 3 .. b + 3 + room - 1 THEN data[p + (x - (b + 3))] ELSE data[x]
    BY <2>2, <2>13 DEF Hp!Copied, old
  <2>. HIDE DEF room
  <2>15. ASSUME NEW x \in b + 3 .. b + 3 + room - 1
         PROVE  Clear(heap, p + (x - (b + 3)))
    <3>1. p + (x - (b + 3)) \in a + 3 .. a + 3 + room - 1 /\ room \in Nat /\ room <= heap.hdr[a].size
      BY <1>2, <2>7 DEF room
    <3>. QED BY <1>2, <2>7, <3>1, PayloadIsClear
  <2>16. old \in Cells
    <3>1. \A x \in 0 .. Limit - 1 : old[x] \in Object \cup {Null}
      BY <2>13, <2>14, <2>15 DEF Clear, Cells
    <3>2. DOMAIN old = 0 .. Limit - 1 /\ old = [x \in DOMAIN old |-> old[x]]
      BY <2>13 DEF old, Hp!Copied
    <3>. QED BY <3>1, <3>2 DEF Cells
  <2>17. \A x \in 0 .. Limit - 1 : old[x] = data[x] \/ (b + 3 <= x /\ x < Hp!End(G, b))
    BY <2>7, <2>8, <2>14 DEF room
  <2>18. \A x \in b + 3 .. b + 3 + k - 1 : x >= first \/ old[x] = o
    <3>1. ASSUME NEW x \in b + 3 .. b + 3 + k - 1, ~ (x >= first) PROVE old[x] = o
      <4>1. Clear(G, x)
        BY <1>3, <2>6, <2>8, PayloadIsClear
      <4>2. x \in b + 3 .. b + 3 + room - 1
        BY <1>2, <2>2, <2>7, <3>1 DEF room
      <4>3. old[x] = data[p + (x - (b + 3))]
        BY <2>14, <4>1, <4>2 DEF Clear
      <4>4. p + (x - (b + 3)) \in held[o].ptr .. held[o].ptr + held[o].size - 1
        BY <1>2, <2>2, <3>1 DEF p
      <4>. QED BY <1>2, <4>3, <4>4 DEF HeapInv, HeapGood, Filled
    <3>. QED BY <3>1
  <2>19. g = [held EXCEPT ![o] = [ptr |-> b + 3, size |-> k]]
    BY <2>2
  <2>20. data' = Hp!Written(G, old, o, Hp!Given(G, b + 3, k), first)
    BY <2>1, <2>2
  <2>. HIDE DEF first, g
  <2>21. HeapGood(G, g, data')
    <3>1. Sound(G) /\ G.brk <= Limit /\ b \in Used(G) /\ k \in Nat /\ k <= G.hdr[b].size
      BY <1>3, <2>6, <2>8
    <3>2. DOMAIN data = 0 .. Limit - 1 /\ HeapGood(heap, held, data)
      BY <2>13
    <3>. QED BY <2>10, <2>11, <2>12, <2>16, <2>17, <2>18, <2>19, <2>20, <3>1, <3>2, HoldsBlock, ZenonT(40)
  <2>. QED BY <2>1, <2>21 DEF HeapInv
<1>. QED BY <1>7, <1>8



LEMMA HeapStays == HeapInv /\ UNCHANGED <<heap, held, data>> => HeapInv'
BY DEF HeapInv

LEMMA HeapNext == HeapInv /\ Hp!Next => HeapInv'
<1> SUFFICES ASSUME HeapInv, Hp!Next PROVE HeapInv'
  OBVIOUS
<1>1. ASSUME NEW o \in Object, NEW k \in Sizes, Hp!Malloc(o, k) PROVE HeapInv'
  BY <1>1, HeapMalloc
<1>2. ASSUME NEW o \in Object, NEW k \in Sizes, Hp!ReallocInPlace(o, k) PROVE HeapInv'
  BY <1>2, HeapReallocInPlace
<1>3. ASSUME NEW o \in Object, NEW k \in Sizes, Hp!ReallocMove(o, k) PROVE HeapInv'
  BY <1>3, HeapReallocMove
<1>4. ASSUME NEW o \in Object, NEW mn \in Products, Hp!Calloc(o, mn[1], mn[2]) PROVE HeapInv'
  BY <1>4, HeapCalloc
<1>5. ASSUME NEW o \in Object, Hp!Free(o) PROVE HeapInv'
  BY <1>5, HeapFree
<1>6. ASSUME NEW a \in DOMAIN heap.hdr, Hp!FreeAgain(a) PROVE HeapInv'
  BY <1>6, HeapFreeAgain
<1>7. ASSUME NEW o \in Object, NEW k, Hp!Lower(o, k) PROVE HeapInv'
  BY <1>7, HeapStays DEF Hp!Lower
<1>8. CASE Hp!Call
  BY <1>1, <1>2, <1>3, <1>4, <1>5, <1>6, <1>8 DEF Hp!Call
<1>. QED BY <1>7, <1>8 DEF Hp!Next

-----------------------------------------------------------------------------
(* Heap: what follows from the invariant.                                  *)

\* The invariant holds in every reachable state.
LEMMA HeapInvHolds == MCSpec => []HeapInv
<1>1. MCInit => HeapInv
  BY HeapInit DEF MCInit
<1>2. HeapInv /\ [MCNext]_<<vars, part, allocator, texts, fields, formats, lines, wire>> => HeapInv'
  BY HeapNext, HeapStays DEF MCNext, allocator
<1>. QED BY <1>1, <1>2, PTL DEF MCSpec

\* The blocks lie end to end from the start of the heap to the break, for any
\* number of clients, sizes and order of calls.
THEOREM HeapTiles == MCSpec => []BlocksTile
<1>1. HeapInv => BlocksTile
  <2>. SUFFICES ASSUME HeapInv PROVE BlocksTile
    OBVIOUS
  <2>1. Tiled(heap)
    BY DEF HeapInv, HeapGood, Sound
  <2> DEFINE heads == DOMAIN heap.hdr
             ends == {Hp!End(heap, a) : a \in heads}
  <2>2. heads \cup {heap.brk} = ends \cup {0}
    <3>1. \A a \in heads : Hp!End(heap, a) \in heads \cup {heap.brk}
      BY <2>1 DEF Tiled
    <3>2. \A b \in heads \cup {heap.brk} : b # 0 => \E a \in heads : Hp!End(heap, a) = b
      BY <2>1 DEF Tiled
    <3>3. 0 \in heads \cup {heap.brk}
      BY <2>1 DEF Tiled
    <3>. QED BY <3>1, <3>2, <3>3
  <2>3. \A a, b \in heads : a < b => Hp!End(heap, a) <= b
    BY <2>1 DEF Tiled
  <2>. QED BY <2>2, <2>3 DEF BlocksTile, Hp!BlocksTile
<1>. QED BY <1>1, HeapInvHolds, PTL

\* Every block is in the free list, once and in order, or in the hands of one
\* client: none is leaked, none is given out twice.
THEOREM HeapShared == MCSpec => []FreeOrHeld
<1>1. HeapInv => FreeOrHeld
  <2>. SUFFICES ASSUME HeapInv PROVE FreeOrHeld
    OBVIOUS
  <2> DEFINE l == heap.list
             N == Len(l)
             P == {a + 3 : a \in Used(heap)}
             hold == {o \in Object : held[o] # Null}
  <2>1. /\ l \in Seq(Nat) /\ N \in Nat /\ DOMAIN l = 1 .. N
        /\ Ascending(l, N) /\ Lists(l, N, Freed(heap))
    BY LenProperties DEF HeapInv, HeapGood, Sound, Heaps, Listed
  <2>2. Hp!ToSet(l) = Freed(heap)
    <3>. HIDE DEF N, l
    <3>. QED BY <2>1 DEF Lists, Hp!ToSet
  <2>3. \A i, j \in DOMAIN l : i < j => l[i] < l[j]
    <3>. HIDE DEF N, l
    <3>. QED BY <2>1 DEF Ascending
  <2>4. \A o \in hold : held[o].ptr \in Nat /\ held[o].ptr - 3 \in Used(heap) /\ (held[o].ptr - 3) + 3 = held[o].ptr
    BY HeldIs
  <2>5. {held[o].ptr : o \in hold} = P
    <3>1. \A o \in hold : held[o].ptr \in P
      BY <2>4
    <3>2. ASSUME NEW a \in Used(heap) PROVE \E o \in hold : held[o].ptr = a + 3
      BY DEF HeapInv, HeapGood, AllHeld, Holders
    <3>. QED BY <3>1, <3>2
  <2>6. DOMAIN heap.hdr \ Freed(heap) = Used(heap)
    BY DEF Freed, Used
  <2>7. Hp!Cardinality(P) = Hp!Cardinality(hold)
    <3> DEFINE f == [o \in hold |-> held[o].ptr]
    <3>1. IsFiniteSet(P)
      <4>1. P \in SUBSET (0 .. Limit)
        <5>1. ASSUME NEW a \in Used(heap) PROVE a + 3 \in 0 .. Limit
          <6>1. a \in DOMAIN heap.hdr /\ a \in Nat /\ heap.hdr[a].size \in Nat
                /\ Hp!End(heap, a) = a + 3 + heap.hdr[a].size
            BY UsedAre DEF HeapInv, HeapGood
          <6>2. Hp!End(heap, a) <= heap.brk /\ heap.brk <= Limit /\ heap.brk \in Nat
            BY <6>1 DEF HeapInv, HeapGood, Sound, Tiled
          <6>3. Limit \in Nat
            BY PlatformAssumption DEF Hp!HeapAssumption
          <6>. QED BY <6>1, <6>2, <6>3
        <5>. QED BY <5>1
      <4>2. IsFiniteSet(0 .. Limit)
        <5>1. Limit \in Int
          BY PlatformAssumption DEF Hp!HeapAssumption
        <5>. QED BY <5>1, FS_Interval
      <4>. QED BY <4>1, <4>2, FS_Subset
    <3>2. f \in Injection(hold, P)
      <4>1. f \in [hold -> P]
        BY <2>5
      <4>2. \A o, q \in hold : f[o] = f[q] => o = q
        BY DEF HeapInv, HeapGood, OwnBlocks, Holders
      <4>. QED BY <4>1, <4>2 DEF Injection, IsInjective
    <3>3. f \in Surjection(hold, P)
      <4>1. f \in [hold -> P] /\ \A b \in P : \E o \in hold : f[o] = b
        BY <2>5
      <4>. QED BY <4>1 DEF Surjection
    <3>. HIDE DEF f, P, hold
    <3>4. Cardinality(hold) = Cardinality(P)
      BY <3>1, <3>2, <3>3, FS_Injection
    <3>. QED BY <3>4 DEF Hp!Cardinality, Cardinality
  <2>8. Hp!Pointers = P
    BY <2>5 DEF Hp!Pointers
  <2>9. {a + Hp!Header : a \in DOMAIN heap.hdr \ Freed(heap)} = P
    BY <2>6 DEF Hp!Header
  <2>. HIDE DEF P
  <2>. QED BY <2>2, <2>3, <2>7, <2>8, <2>9, Zenon DEF FreeOrHeld, Hp!FreeOrHeld, Freed
<1>. QED BY <1>1, HeapInvHolds, PTL

\* What a client wrote stays in its block until it gives it back.
THEOREM HeapKeepsContents == MCSpec => []ContentsKept
<1>1. HeapInv => ContentsKept
  <2>. SUFFICES ASSUME HeapInv, NEW o \in Object, held[o] # Null,
                       NEW x \in held[o].ptr .. held[o].ptr + held[o].size - 1
                PROVE  x \in DOMAIN data /\ data[x] = o
    BY DEF ContentsKept, Hp!ContentsKept
  <2> DEFINE a == held[o].ptr - 3
  <2>1. /\ o \in Holders(held) /\ held[o].size \in Nat /\ a \in Used(heap)
        /\ a + 3 = held[o].ptr /\ held[o].size <= heap.hdr[a].size
    BY HeldIs
  <2>. HIDE DEF a
  <2>2. Sound(heap) /\ heap.brk <= Limit
    BY DEF HeapInv, HeapGood
  <2>3. x \in a + 3 .. a + 3 + held[o].size - 1
    BY <2>1
  <2>4. Clear(heap, x)
    BY <2>1, <2>2, <2>3, PayloadIsClear
  <2>5. DOMAIN data = 0 .. Limit - 1
    BY DEF HeapInv, HeapGood, Cells
  <2>. QED BY <2>1, <2>4, <2>5 DEF HeapInv, HeapGood, Filled, Clear
<1>. QED BY <1>1, HeapInvHolds, PTL

\* When everything has been freed the heap is one block again.
THEOREM HeapIsWhole == MCSpec => []AllFreedIsOneBlock
<1>1. HeapInv => AllFreedIsOneBlock
  <2>. SUFFICES ASSUME HeapInv, \A o \in Object : held[o] = Null, ~ (Len(heap.list) <= 1)
                PROVE  FALSE
    BY DEF AllFreedIsOneBlock, Hp!AllFreedIsOneBlock
  <2> DEFINE l == heap.list
             N == Len(l)
  <2>1. N \in Nat /\ Ascending(l, N) /\ Lists(l, N, Freed(heap))
    BY LenProperties DEF HeapInv, HeapGood, Sound, Heaps, Listed
  <2>2. 1 \in 1 .. N /\ 2 \in 1 .. N
    BY <2>1
  <2>. HIDE DEF l, N
  <2>3. l[1] \in Freed(heap) /\ l[2] \in Freed(heap) /\ l[1] < l[2]
    BY <2>1, <2>2 DEF Ascending, Lists
  <2>4. Coalesced(heap) /\ Used(heap) = {} /\ Sound(heap)
    BY DEF HeapInv, HeapGood, AllHeld, Holders
  <2> DEFINE a == l[1]
             b == l[2]
  <2>5. a \in DOMAIN heap.hdr /\ b \in DOMAIN heap.hdr
    BY <2>3 DEF Freed
  <2>. HIDE DEF a, b
  <2>6. a \in Nat /\ b \in Nat /\ Hp!End(heap, a) \in Nat /\ Hp!End(heap, b) \in Nat /\ b + 3 <= Hp!End(heap, b)
    BY <2>4, <2>5, EndIs DEF Sound
  <2>7. Hp!End(heap, a) <= b /\ Hp!End(heap, b) <= heap.brk /\ heap.brk \in Nat
    BY <2>3, <2>4, <2>5 DEF Sound, Tiled, a, b
  <2>8. Hp!End(heap, a) # heap.brk
    BY <2>6, <2>7
  <2>9. Hp!End(heap, a) \in DOMAIN heap.hdr
    BY <2>4, <2>5, <2>8 DEF Sound, Tiled
  <2>10. Hp!End(heap, a) \in Freed(heap)
    BY <2>4, <2>9 DEF Freed, Used
  <2>. QED BY <2>3, <2>4, <2>10 DEF Coalesced, a
<1>. QED BY <1>1, HeapInvHolds, PTL

\* The type invariant of the heap.
LEMMA HeapTyped == HeapInv /\ lowered \in BOOLEAN => Hp!TypeOK
<1>. SUFFICES ASSUME HeapInv, lowered \in BOOLEAN PROVE Hp!TypeOK
  OBVIOUS
<1>1. /\ heap \in Heaps /\ Tiled(heap) /\ heap.brk \in Nat /\ heap.brk <= Limit /\ Limit \in Nat
      /\ Lists(heap.list, Len(heap.list), Freed(heap))
  BY PlatformAssumption DEF HeapInv, HeapGood, Sound, Listed, Tiled, Hp!HeapAssumption
<1>2. ASSUME NEW a \in DOMAIN heap.hdr
      PROVE  a \in 0 .. Limit - 1 /\ heap.hdr[a] \in [size : 0 .. Limit, free : BOOLEAN]
             /\ Hp!End(heap, a) \in 0 .. Limit
  <2>1. /\ a \in Nat /\ heap.hdr[a] \in [size : Nat, free : BOOLEAN]
        /\ Hp!End(heap, a) = a + 3 + heap.hdr[a].size /\ Hp!End(heap, a) <= heap.brk
    BY <1>1, EndIs DEF Tiled
  <2>2. heap.hdr[a].size \in 0 .. Limit
    BY <1>1, <2>1
  <2>3. heap.hdr[a] \in [size : 0 .. Limit, free : BOOLEAN]
    BY <2>1, <2>2
  <2>. QED BY <1>1, <2>1, <2>2, <2>3
<1>3. heap.list \in Seq(DOMAIN heap.hdr)
  <2> DEFINE l == heap.list
  <2>1. l \in Seq(Nat) /\ \A i \in 1 .. Len(l) : l[i] \in DOMAIN heap.hdr
    BY <1>1 DEF Heaps, Lists, Freed
  <2>. HIDE DEF l
  <2>2. l \in Seq(DOMAIN heap.hdr)
    BY <2>1
  <2>. QED BY <2>2 DEF l
<1>4. held \in [Object -> [ptr : 0 .. Limit, size : Nat] \cup {Null}]
  <2>1. ASSUME NEW o \in Object, held[o] # Null PROVE held[o] \in [ptr : 0 .. Limit, size : Nat]
    <3> DEFINE a == held[o].ptr - 3
    <3>1. held[o] \in [ptr : Nat, size : Nat] /\ a \in Used(heap) /\ a + 3 = held[o].ptr
      BY <2>1, HeldIs
    <3>. HIDE DEF a
    <3>2. a \in DOMAIN heap.hdr /\ a \in Nat /\ heap.hdr[a].size \in Nat
          /\ Hp!End(heap, a) = a + 3 + heap.hdr[a].size
      BY <3>1, UsedAre DEF HeapInv, HeapGood
    <3>3. held[o].ptr \in 0 .. Limit
      BY <1>1, <1>2, <3>1, <3>2
    <3>. QED BY <3>1, <3>3
  <2>. QED BY <2>1 DEF HeapInv, HeapGood, HeldType
<1>5. data \in [0 .. Limit - 1 -> Object \cup {Null}]
  BY DEF HeapInv, HeapGood, Cells
<1>6. heap.brk \in 0 .. Limit /\ DOMAIN heap.hdr \subseteq 0 .. Limit - 1
  BY <1>1, <1>2
<1>. QED BY <1>2, <1>3, <1>4, <1>5, <1>6 DEF Hp!TypeOK

\* The type invariants of all parts that keep state.
THEOREM PlatformTyped == MCSpec => []Typed
<1>1. MCInit => LinkInv /\ TextInv /\ LineInv
  BY InitLink, TextInit, LineInit DEF MCInit
<1>2. LinkInv /\ [MCNext]_<<vars, part, allocator, texts, fields, formats, lines, wire>> => LinkInv'
  BY NextLink DEF MCNext
<1>3. TextInv /\ [MCNext]_<<vars, part, allocator, texts, fields, formats, lines, wire>> => TextInv'
  BY TextNext, TextStays DEF MCNext
<1>4. LineInv /\ [MCNext]_<<vars, part, allocator, texts, fields, formats, lines, wire>> => LineInv'
  BY LineNext, LineStays DEF MCNext
<1>5. MCInit => lowered \in BOOLEAN
  BY DEF MCInit, Hp!Init
<1>6. ASSUME lowered \in BOOLEAN, [MCNext]_<<vars, part, allocator, texts, fields, formats, lines, wire>>
      PROVE  (lowered \in BOOLEAN)'
  <2>1. UNCHANGED lowered \/ Hp!Next
    BY <1>6 DEF MCNext, allocator
  <2>2. Hp!Next => UNCHANGED lowered \/ lowered' = TRUE
    BY DEF Hp!Next, Hp!Lower
  <2>. QED BY <1>6, <2>1, <2>2
<1>7. LinkInv /\ TextInv /\ LineInv /\ HeapInv /\ lowered \in BOOLEAN => Typed
  BY HeapTyped DEF LinkInv, TextInv, LineInv, Typed
<1>. QED BY <1>1, <1>2, <1>3, <1>4, <1>5, <1>6, <1>7, HeapInvHolds, PTL DEF MCSpec

=============================================================================
