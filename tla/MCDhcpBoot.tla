----------------------------- MODULE MCDhcpBoot -----------------------------
(* DhcpBoot on small instances: the constants that a configuration file    *)
(* cannot write down.                                                      *)
EXTENDS DhcpBoot, TLC

CONSTANTS s1, s2, a, b, d

\* One server with two addresses, one with a single one.
TwoPools == (s1 :> {a, b}) @@ (s2 :> {d})

OnePool == s1 :> {a, b}

\* Machine and start make the transaction number.
OwnXids == [c \in Client |-> [n \in Starts |-> <<c, n>>]]

=============================================================================
