----------------------------- MODULE MCArpCache -----------------------------
(* ArpCache on a small instance: more addresses than slots, two stations   *)
(* claiming them, and a clock that runs past the timeout twice.            *)
EXTENDS ArpCache

=============================================================================
