----------------------------- MODULE MCNetBench -----------------------------
(* Instances of NetBench for TLC. *)
EXTENDS NetBench

\* The same stream count twice, so that an id of a barrier is used again.
Streams == <<1, 1, 2>>

\* In units of 150 seconds, with a test_time of less than one.
Limits == [iperf |-> 1, netperf2 |-> 4]
=============================================================================
