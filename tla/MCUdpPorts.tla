----------------------------- MODULE MCUdpPorts -----------------------------
(* UdpPorts on a small instance: fewer slots than ports; a buffer longer   *)
(* than a reply and shorter than the longest payload; clients that ask for *)
(* less than a reply holds, for no length in particular, and for more; and *)
(* headers that claim more, and less, than came.                           *)
EXTENDS UdpPorts

=============================================================================
