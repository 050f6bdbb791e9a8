---------------------------- MODULE MCHackbench ----------------------------
(* Hackbench for TLC. *)
EXTENDS Hackbench
=============================================================================
