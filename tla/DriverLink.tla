----------------------------- MODULE DriverLink -----------------------------
(***************************************************************************)
(* The command stream between netd and the network card's device node:     *)
(* driver_transact, driver_tx and driver_rx of src/src/driver.c on the one *)
(* file descriptor g_net.fd.                                               *)
(*                                                                         *)
(* The card is outside the code.  It answers every command with one reply, *)
(* in the order of the commands, and a reply ends in a zero byte; another  *)
(* byte of it may be zero too.  The code names no contract of the device's *)
(* read, so there are three cards: a prompt one has answered when the      *)
(* writer reads, and a read takes all there is and is asked for; one in    *)
(* pieces lets a read find nothing or a part, never bytes of two replies;  *)
(* and one that is a stream of bytes lets it find those, too.              *)
(*                                                                         *)
(* A flow that found nothing gives up in driver_rx; in driver_transact it  *)
(* yields and tries again, and meanwhile another flow may use the card.    *)
(***************************************************************************)
EXTENDS Integers, FiniteSets, Sequences

CONSTANTS
  Flow,          \* the main loop and the API invocations
  MaxCommands,   \* bound on the commands written
  HeaderSize,    \* bytes of a reply before its data: 12
  Room,          \* bytes that the loops collect: sizeof(rep) - 1 = 1519
  PktRoom,       \* room for a payload in pkt: 1500
  ReplySizes,    \* the lengths of replies
  PayloadSizes,  \* the lengths of payloads
  None           \* no flow, nothing returned

Commands == 1 .. MaxCommands

Kind == {"transact", "poll"}

\* An exchange: its command, how many bytes it has read, and from which
\* replies they are.
Exchange == [kind : Kind, cmd : Commands, got : 0 .. Room, from : SUBSET Commands]

ASSUME DriverAssumption ==
  /\ MaxCommands \in Nat /\ HeaderSize \in Nat /\ Room \in Nat \ {0} /\ PktRoom \in Nat
  /\ ReplySizes \subseteq Nat \ {0} /\ PayloadSizes \subseteq Nat
  /\ None \notin Flow /\ None \notin Exchange

VARIABLES
  card,      \* what the card is like
  written,   \* commands written so far, which numbers them
  todo,      \* commands the card has not answered, oldest first
  stream,    \* replies not read to the end, and how far off their ends are
  running,   \* the flow in driver.c that holds the processor, or None
  open,      \* per flow: its exchange, or None
  answer,    \* what was returned in the latest step, or None
  beside,    \* whether a command was written while another flow waited
  outgrown,  \* whether a reply was longer than Room
  sound      \* FALSE once a payload was longer than pkt: no step comes after

vars == <<card, written, todo, stream, running, open, answer, beside, outgrown, sound>>

Init ==
  /\ card \in {"prompt", "pieces", "stream"}
  /\ written = 0 /\ todo = <<>> /\ stream = <<>>
  /\ running = None
  /\ open = [f \in Flow |-> None]
  /\ answer = None
  /\ beside = FALSE /\ outgrown = FALSE /\ sound = TRUE

\* The bytes that can be read.
Total == IF stream = <<>> THEN 0 ELSE stream[Len(stream)].end

Waiting == {f \in Flow : open[f] # None}

-----------------------------------------------------------------------------

\* The write of a command fails and both functions return at once.
WriteFails(f) ==
  /\ sound /\ running = None /\ open[f] = None /\ card # "prompt"
  /\ answer' = None
  /\ UNCHANGED <<card, written, todo, stream, running, open, beside, outgrown, sound>>

\* Faulty: driver_tx does not wait for the reply to its command.
Write_Forget(f, kind, plen) ==
  /\ sound /\ running = None /\ open[f] = None /\ written < MaxCommands
  /\ plen <= PktRoom
  /\ written' = written + 1
  /\ todo' = Append(todo, written + 1)
  /\ IF kind = "poll"
     THEN running' = f /\ open' = [open EXCEPT ![f] =
            [kind |-> kind, cmd |-> written + 1, got |-> 0, from |-> {}]]
     ELSE UNCHANGED <<running, open>>
  /\ beside' = (beside \/ Waiting # {})
  /\ answer' = None
  /\ UNCHANGED <<card, stream, outgrown, sound>>

\* driver_transact writes its command, or driver_rx writes RX_POLL.
Write(f, kind, plen) ==
  /\ sound /\ running = None /\ open[f] = None /\ written < MaxCommands
  /\ plen <= PktRoom
  /\ written' = written + 1
  /\ todo' = Append(todo, written + 1)
  /\ running' = f
  /\ open' = [open EXCEPT ![f] =
       [kind |-> kind, cmd |-> written + 1, got |-> 0, from |-> {}]]
  /\ beside' = (beside \/ Waiting # {})
  /\ answer' = None
  /\ UNCHANGED <<card, stream, outgrown, sound>>

\* A payload longer than pkt is copied all the same, over what lies behind
\* it: what netd does from then on is not described.
Overrun(f, plen) ==
  /\ sound /\ running = None /\ open[f] = None
  /\ plen > PktRoom
  /\ sound' = FALSE
  /\ UNCHANGED <<card, written, todo, stream, running, open, answer, beside, outgrown>>

\* Faulty: the whole of the buffer is asked for, whatever is in it already.
Ask_Whole(got) == Room

\* What a read asks for.
Ask(got) == Room - got

\* Faulty: the test for the terminator is the wrong way round.
Complete_Inverted(zero, got) == ~ zero \/ got >= Room

\* The loops stop after a read that ends in a zero byte, and when the buffer
\* is full.
Complete(zero, got) == zero \/ got >= Room

\* The card gives the reader n bytes, which are the ends of the first j
\* replies.
Delivers(n, j, got) ==
  /\ n <= Ask(got) /\ n <= Total
  /\ \A i \in DOMAIN stream : stream[i].end <= n <=> i <= j
  /\ card = "prompt" => todo = <<>> /\ (n = Ask(got) \/ n = Total)
  /\ card = "pieces" => n <= stream[1].end

\* A read returns bytes, the last of which is zero if a reply ends there.  Of
\* less than a header the functions return an error.
Read(f, n, j) ==
  /\ sound /\ running = f
  /\ Delivers(n, j, open[f].got)
  /\ stream' = [i \in 1 .. Len(stream) - j |->
                  [cmd |-> stream[i + j].cmd, end |-> stream[i + j].end - n]]
  /\ LET all == [open[f] EXCEPT
                   !.got = @ + n,
                   !.from = @ \cup {stream[i].cmd : i \in
                     {i \in DOMAIN stream : i = 1 \/ stream[i - 1].end < n}}]
     IN  \E zero \in BOOLEAN :
           /\ j > 0 /\ stream[j].end = n => zero
           /\ IF Complete(zero, all.got)
              THEN /\ answer' = IF all.got < HeaderSize THEN None ELSE all
                   /\ open' = [open EXCEPT ![f] = None] /\ running' = None
              ELSE answer' = None /\ open' = [open EXCEPT ![f] = all] /\ UNCHANGED running
  /\ UNCHANGED <<card, written, todo, beside, outgrown, sound>>

\* A read returns 0: driver_rx gives up, and what it had read is lost;
\* driver_transact yields.
ReadNothing(f) ==
  /\ sound /\ running = f /\ card # "prompt"
  /\ open' = IF open[f].kind = "poll" THEN [open EXCEPT ![f] = None] ELSE open
  /\ running' = None
  /\ answer' = None
  /\ UNCHANGED <<card, written, todo, stream, beside, outgrown, sound>>

\* A read fails, and both functions return an error.
ReadFails(f) ==
  /\ sound /\ running = f /\ card # "prompt"
  /\ open' = [open EXCEPT ![f] = None]
  /\ running' = None
  /\ answer' = None
  /\ UNCHANGED <<card, written, todo, stream, beside, outgrown, sound>>

\* driver_transact goes on after its yield.
Wake(f) ==
  /\ sound /\ running = None /\ open[f] # None
  /\ running' = f
  /\ answer' = None
  /\ UNCHANGED <<card, written, todo, stream, open, beside, outgrown, sound>>

\* The card answers its oldest command with a reply of this size.
Card(size) ==
  /\ sound /\ todo # <<>>
  /\ stream' = Append(stream, [cmd |-> Head(todo), end |-> Total + size])
  /\ todo' = Tail(todo)
  /\ answer' = None
  /\ outgrown' = (outgrown \/ size > Room)
  /\ UNCHANGED <<card, written, running, open, beside, sound>>

Next ==
  \/ \E f \in Flow :
       \/ \E plen \in PayloadSizes : Write(f, "transact", plen) \/ Overrun(f, plen)
       \/ Write(f, "poll", 0)
       \/ WriteFails(f) \/ ReadNothing(f) \/ ReadFails(f) \/ Wake(f)
       \/ \E n \in 1 .. Room, j \in 0 .. Len(stream) : Read(f, n, j)
  \/ \E size \in ReplySizes : Card(size)

Spec == Init /\ [][Next]_vars

-----------------------------------------------------------------------------

\* The type invariant.  An exchange that goes on has room for another read.
TypeOK ==
  /\ card \in {"prompt", "pieces", "stream"}
  /\ written \in 0 .. MaxCommands
  /\ todo \in Seq(Commands)
  /\ stream \in Seq([cmd : Commands, end : Nat \ {0}])
  /\ running \in Flow \cup {None}
  /\ open \in [Flow -> Exchange \cup {None}]
  /\ answer \in Exchange \cup {None}
  /\ beside \in BOOLEAN /\ outgrown \in BOOLEAN /\ sound \in BOOLEAN
  /\ running # None => open[running] # None
  /\ \A f \in Flow : open[f] # None => open[f].got < Room

\* As many replies are still to come, or to be read to the end, as flows wait
\* for one, whoever reads whose: flows that take each other's replies, polls
\* that give up, replies cut short by a zero byte or by the end of the buffer,
\* and errors never leave driver_transact waiting for a reply that nobody
\* sends.  That needs a card whose reads keep to one reply: where a read takes
\* bytes of two, it holds as long as no flow uses the card beside another.
ReplyIsComing ==
  card = "pieces" \/ ~ beside =>
    Len(stream) + Len(todo) >= Cardinality(Waiting)


\* With a prompt card, as long as every reply fits the buffer, both functions
\* return the replies to their own commands, and no reply is left in the
\* stream for the next one to find.
InStep == card = "prompt" /\ ~ outgrown =>
  /\ answer # None => answer.from = {answer.cmd}
  /\ running = None => stream = <<>> /\ todo = <<>>

=============================================================================
