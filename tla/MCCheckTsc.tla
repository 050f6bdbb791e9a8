---------------------------- MODULE MCCheckTsc ----------------------------
(* CheckTsc for TLC. *)
EXTENDS CheckTsc
=============================================================================
