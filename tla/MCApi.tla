-------------------------------- MODULE MCApi --------------------------------
(* The ping command and the frame of api_invoke on small instances.  The    *)
(* two are checked side by side: part says which of them moves.             *)
EXTENDS Ping

CONSTANTS MaxInvocations, OutSizes, CardStatus, None

VARIABLES serving, g_rep, calls_made, answer, part

frame == <<serving, g_rep, calls_made, answer>>

A == INSTANCE Api WITH MaxCalls <- MaxInvocations, calls <- calls_made

ASSUME FrameAssumption == A!ApiAssumption

\* Caller and invocation make the identifier.
OwnIds == [f \in Caller |-> [n \in Calls |-> <<f, n>>]]

MCInit == Init /\ A!Init /\ part \in {"ping", "frame"}

MCNext ==
  /\ UNCHANGED part
  /\ \/ part = "ping" /\ Next /\ UNCHANGED frame
     \/ part = "frame" /\ A!Next /\ UNCHANGED vars

MCSpec == MCInit /\ [][MCNext]_<<vars, frame, part>> /\ Fairness

\* The type invariants of both.
Typed == TypeOK /\ A!TypeOK

\* Each caller gets its own reply; see Api.
ReplyIsOwn == A!ReplyIsOwn

=============================================================================
