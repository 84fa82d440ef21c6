--------------------------------- MODULE Api ---------------------------------
(***************************************************************************)
(* api_invoke of src/src/api.c: the checks of a request, the one reply     *)
(* buffer g_rep that all invocations share, and what the caller gets.      *)
(*                                                                         *)
(* What a command does to the rest of netd is in the modules of the parts  *)
(* it calls.  Here matter the lengths, and where an invocation can hand    *)
(* over control: four commands call the driver or yield before they fill   *)
(* g_rep, the others run from end to end.                                  *)
(***************************************************************************)
EXTENDS Integers, FiniteSets

CONSTANTS
  Caller,    \* invocations that may overlap
  MaxCalls,  \* bound on the invocations
  OutSizes,  \* the sizes of the callers' buffers
  CardStatus,\* what the card's replies to a frame may say
  None       \* no invocation

ApiAssumption == MaxCalls \in Nat /\ OutSizes \subseteq Nat /\ CardStatus \subseteq Int

Header == 4

\* The bytes a command needs behind the header.
RequestBytes ==
  [GET_INFO |-> 0, PING |-> 8, UDP_SEND |-> 1482, UDP_RECV |-> 4, UDP_BIND |-> 2,
   UDP_UNBIND |-> 2, DNS_RESOLVE |-> 256, ARP_LOOKUP |-> 4, ARP_FLUSH |-> 0, SET_IP |-> 16,
   UNKNOWN |-> 0]

Commands == DOMAIN RequestBytes

\* The bytes of the structure a command answers with.
ReplyBytes ==
  [c \in Commands |->
     CASE c = "GET_INFO" -> 34 [] c = "PING" -> 8 [] c = "UDP_RECV" -> 1480
       [] c = "DNS_RESOLVE" -> 4 [] c = "ARP_LOOKUP" -> 10 [] OTHER -> 0]

\* Those that may hand over control.
Yielding == {"PING", "UDP_SEND", "DNS_RESOLVE", "SET_IP"}

\* What driver_transact returns: an error of its own, or the status that the
\* card put in its reply.
TransactStatus == {-1, -2, -3} \cup CardStatus

\* What the call a command makes may say.  udp_tx hands on what ip_tx hands on
\* from the driver.
Outcomes(c) ==
  CASE c = "UDP_SEND" -> TransactStatus
    [] c \in {"GET_INFO", "UDP_UNBIND", "ARP_FLUSH", "SET_IP"} -> {0}
    [] c = "UNKNOWN" -> {-99}
    [] OTHER -> {0, -1}

VARIABLES
  serving,  \* per caller: the command it waits for, or None
  g_rep,    \* status, len, and whose data it holds
  calls,    \* invocations so far
  answer    \* history: the latest invocation that returned

vars == <<serving, g_rep, calls, answer>>

Cleared == [status |-> 0, len |-> 0, data |-> None]

NoAnswer == [call |-> None, cmd |-> "UNKNOWN", accepted |-> FALSE, undisturbed |-> TRUE,
             out |-> 0, rep |-> Cleared, bytes |-> -1]

Init ==
  /\ serving = [f \in Caller |-> None]
  /\ g_rep = Cleared /\ calls = 0 /\ answer = NoAnswer

-----------------------------------------------------------------------------

\* Faulty: the buffer is not cleared.
Entered_Dirty(rep) == rep

\* memset(&g_rep, 0, ...).
Entered(rep) == Cleared

Long(c, size) == size >= Header + RequestBytes[c]

\* What the command leaves in g_rep: a status, and a structure if it has one.
Filled(rep, c, call, status) ==
  IF ReplyBytes[c] = 0 THEN [rep EXCEPT !.status = status]
  ELSE [status |-> status, len |-> ReplyBytes[c], data |-> call]

\* Faulty: the whole of g_rep is copied to whoever has room for it.
CopiedOut_All(rep, out) == IF 8 + 1500 > out THEN out ELSE 8 + 1500

\* Header and data, as much as the caller's buffer takes.
CopiedOut(rep, out) == IF 8 + rep.len > out THEN out ELSE 8 + rep.len

\* The tail of api_invoke, with rep in g_rep.
Return(a, rep) ==
  /\ g_rep' = rep
  /\ answer' = [a EXCEPT !.rep = rep, !.bytes = CopiedOut(rep, a.out)]

\* The other invocations under way see g_rep change hands.
Disturb(s) == [f \in Caller |-> IF s[f] = None THEN None ELSE [s[f] EXCEPT !.undisturbed = FALSE]]

\* Too short for a command: g_rep is not touched.
Refuse ==
  /\ calls < MaxCalls /\ calls' = calls + 1
  /\ answer' = [NoAnswer EXCEPT !.call = calls']
  /\ UNCHANGED <<serving, g_rep>>

\* An invocation that is over at once, or that has to wait.
Invoke(f, c, size, out) ==
  LET a == [NoAnswer EXCEPT !.call = calls', !.cmd = c, !.out = out, !.accepted = Long(c, size)]
  IN  /\ serving[f] = None /\ calls < MaxCalls
      /\ calls' = calls + 1
      /\ \/ /\ ~ Long(c, size)
            /\ Return(a, [Entered(g_rep) EXCEPT !.status = -1])
            /\ serving' = Disturb(serving)
         \/ /\ Long(c, size) /\ c \notin Yielding
            /\ \E status \in Outcomes(c) : Return(a, Filled(Entered(g_rep), c, calls', status))
            /\ serving' = Disturb(serving)
         \/ /\ Long(c, size) /\ c \in Yielding
            /\ g_rep' = Entered(g_rep)
            /\ serving' = [Disturb(serving) EXCEPT ![f] = a]
            /\ UNCHANGED answer

\* The waiting is over: the reply is filled in and copied out.
Finish(f) ==
  /\ serving[f] # None
  /\ \E status \in Outcomes(serving[f].cmd) :
       Return(serving[f], Filled(g_rep, serving[f].cmd, serving[f].call, status))
  /\ serving' = Disturb([serving EXCEPT ![f] = None])
  /\ UNCHANGED calls

Next ==
  \/ Refuse
  \/ \E f \in Caller, c \in Commands, out \in OutSizes :
       \E size \in {Header + RequestBytes[c] - 1, Header + RequestBytes[c]} :
         size >= Header /\ Invoke(f, c, size, out)
  \/ \E f \in Caller : Finish(f)

-----------------------------------------------------------------------------

\* The type invariant.
TypeOK ==
  LET Reps == [status : {0, -1, -99} \cup TransactStatus, len : {ReplyBytes[c] : c \in Commands},
               data : 0 .. MaxCalls \cup {None}]
      Answers == [call : 0 .. MaxCalls \cup {None}, cmd : Commands, accepted : BOOLEAN,
                  undisturbed : BOOLEAN, out : {0} \cup OutSizes, rep : Reps, bytes : -1 .. 1508]
  IN  /\ serving \in [Caller -> Answers \cup {None}]
      /\ g_rep \in Reps /\ calls \in 0 .. MaxCalls /\ answer \in Answers

\* A caller gets its own command's reply, whole or cut to its buffer: the
\* length of that command, the data of that invocation, also when others used
\* g_rep while it waited.  Only a command without data, which relies on the
\* length it cleared at the start, can hand out another's data, and only when
\* another invocation came in or returned during its wait.
ReplyIsOwn ==
  LET own == IF answer.accepted THEN ReplyBytes[answer.cmd] ELSE 0
  IN  answer.bytes >= 0 /\ (own > 0 \/ answer.undisturbed) =>
        /\ answer.rep.len = own
        /\ answer.rep.data = IF own > 0 THEN answer.call ELSE None
        /\ answer.bytes = IF answer.out < 8 + own THEN answer.out ELSE 8 + own
        /\ ~ answer.accepted => answer.rep.status = -1

=============================================================================
