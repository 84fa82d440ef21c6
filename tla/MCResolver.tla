----------------------------- MODULE MCResolver -----------------------------
(* Resolver on a small instance: two names, one of them with two addresses,*)
(* and one that is too long.                                               *)
EXTENDS Resolver

CONSTANTS n1, n2, long, a, b, d

MCAddress == [n \in Name |-> CASE n = n1 -> {a, b} [] n = n2 -> {d} [] OTHER -> {}]

OwnTxids == [n \in Calls |-> n]

=============================================================================
