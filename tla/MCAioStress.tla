---------------------------- MODULE MCAioStress ----------------------------
(* AioStress for TLC. *)
EXTENDS AioStress
=============================================================================
