------------------------------- MODULE Faults -------------------------------
(* The failing calls of the programs that talk over sockets and pipes. *)

CONSTANT MaxFaults  \* how many calls may fail
VARIABLE faults     \* how many have
=============================================================================
