----------------------------- MODULE MCTcUtils -----------------------------
(* Instances of TcUtils for TLC. *)
EXTENDS TcUtils
=============================================================================
