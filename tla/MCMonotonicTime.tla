-------------------------- MODULE MCMonotonicTime --------------------------
(* MonotonicTime for TLC. *)
EXTENDS MonotonicTime
=============================================================================
