--------------------------- MODULE MCStageBarrier ---------------------------
(* StageBarrier for TLC. *)
EXTENDS StageBarrier

=============================================================================
