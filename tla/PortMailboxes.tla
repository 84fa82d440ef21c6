--------------------------- MODULE PortMailboxes ----------------------------
(***************************************************************************)
(* What netd promises its clients about UDP ports: at most Capacity of     *)
(* them are open, each with a mailbox for one datagram.  Opening an open   *)
(* port changes nothing, opening a closed one gives an empty mailbox or    *)
(* fails when Capacity are open.  A datagram for an open port replaces the *)
(* one waiting there; receiving takes the waiting datagram out, cut to     *)
(* what the receiver asked for.  Of a datagram that claims more bytes than *)
(* came, only the first own are its own.  A receiver that asks for more    *)
(* than a reply holds, of a datagram that has more, is promised nothing,   *)
(* and neither is anybody after it: sound is FALSE then.                   *)
(***************************************************************************)
EXTENDS Integers, FiniteSets

CONSTANTS Port, Capacity, Closed, Empty, Nothing, ResolverPort, LeasePort,
          AlwaysOpen, MaxDatagrams, Lengths, BufferSizes, BoxSize,
          ReplyRoom

VARIABLES
  box,      \* Closed, Empty or the waiting datagram of each port
  arrived,  \* datagrams so far, which numbers them
  result,   \* what the latest client call returned
  sound     \* no promise was voided

vars == <<box, arrived, result, sound>>

Open == {p \in Port : box[p] # Closed}

Status(s) == [status |-> s, id |-> 0, len |-> 0, own |-> 0]

Least(m, n) == IF m < n THEN m ELSE n

Init ==
  /\ box = [p \in Port |-> IF p = AlwaysOpen THEN Empty ELSE Closed]
  /\ arrived = 0
  /\ result = Nothing
  /\ sound = TRUE

Bind(p) ==
  /\ sound
  /\ \/ p \in Open /\ box' = box /\ result' = Status(0)
     \/ /\ p \notin Open /\ Cardinality(Open) < Capacity
        /\ box' = [box EXCEPT ![p] = Empty]
        /\ result' = Status(0)
     \/ /\ p \notin Open /\ Cardinality(Open) >= Capacity
        /\ box' = box
        /\ result' = Status(-1)
  /\ UNCHANGED <<arrived, sound>>

Unbind(p) ==
  /\ sound
  /\ box' = [box EXCEPT ![p] = Closed]
  /\ result' = Status(0)
  /\ UNCHANGED <<arrived, sound>>

\* A datagram from a name server's port or to the DHCP client's port is not
\* for the mailboxes; one for a closed port is lost.
Arrive(src, dst, len, came) ==
  /\ sound /\ arrived < MaxDatagrams
  /\ arrived' = arrived + 1
  /\ LET n == Least(len, BoxSize)
     IN  box' = IF dst \in Open /\ src # ResolverPort /\ dst # LeasePort /\ len > 0
                THEN [box EXCEPT ![dst] =
                        [id |-> arrived + 1, len |-> n, own |-> Least(came, n)]]
                ELSE box
  /\ result' = Nothing
  /\ UNCHANGED sound

\* A receiver that asks for nothing in particular gets what a reply holds.
Recv(p, max) ==
  LET room == IF max = 0 THEN ReplyRoom ELSE max
  IN  /\ sound
      /\ \/ /\ box[p] \in {Closed, Empty}
            /\ box' = box /\ result' = Status(-1) /\ sound' = sound
         \/ /\ box[p] \notin {Closed, Empty} /\ Least(box[p].len, room) <= ReplyRoom
            /\ result' = [status |-> 0, id |-> box[p].id,
                          len |-> Least(box[p].len, room),
                          own |-> Least(box[p].own, room)]
            /\ box' = [box EXCEPT ![p] = Empty]
            /\ sound' = sound
         \/ /\ box[p] \notin {Closed, Empty} /\ Least(box[p].len, room) > ReplyRoom
            /\ box' = box /\ result' = result /\ sound' = FALSE
      /\ UNCHANGED arrived

Next ==
  \/ \E p \in Port : \/ Bind(p)
                     \/ Unbind(p)
                     \/ \E max \in BufferSizes : Recv(p, max)
  \/ \E src, dst \in Port, len, came \in Lengths : Arrive(src, dst, len, came)

Spec == Init /\ [][Next]_vars

=============================================================================
