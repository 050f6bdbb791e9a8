--------------------------- MODULE MCIpv6connect ---------------------------
(* Instances of Ipv6connect for TLC. *)
EXTENDS Ipv6connect

AllTypes == <<"T", "O", "M", "T">>
=============================================================================
