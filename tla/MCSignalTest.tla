---------------------------- MODULE MCSignalTest ----------------------------
(* SignalTest for TLC. *)
EXTENDS SignalTest
=============================================================================
