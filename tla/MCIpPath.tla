------------------------------ MODULE MCIpPath ------------------------------
(* IpPath on a small instance: two configurations with different links and *)
(* gateways besides the empty one, two slots for three neighbours.          *)
EXTENDS IpPath, TLC

CONSTANTS x, y, far

Everything == Ip \cup {IP_BCAST}

Unset == [ip |-> ZeroIp, link |-> Everything, gateway |-> ZeroIp]

MCConfigs ==
  {Unset,
   [ip |-> x, link |-> {x, y}, gateway |-> y],
   [ip |-> y, link |-> {far}, gateway |-> ZeroIp]}

\* No definition tells one hardware address of Mac from another.
HardwareAddresses == Permutations(Mac)

=============================================================================
