---------------------------- MODULE MCCyclictest ----------------------------
(* Instances of Cyclictest for TLC. *)
EXTENDS Cyclictest

TwoVars == <<"trace_all_cpus", "trace_enabled">>

\* The setup of the tracer with one way to wait; each way to wait without it.
ManyOptions ==
  {[mode |-> "sys_nanosleep", tracelimit |-> TRUE, verbose |-> FALSE,
    max_cycles |-> 1]}
    \cup [mode : {"cyclic", "sys_itimer"}, tracelimit : {FALSE},
          verbose : {TRUE}, max_cycles : {3}]
=============================================================================
