----------------------------- MODULE StageSync -----------------------------
(***************************************************************************)
(* What the barriers around a stage of aio-stress promise: a thread begins *)
(* its next stage only when every thread has ended as many as it has.      *)
(***************************************************************************)
EXTENDS Integers

CONSTANT Threads

VARIABLES begun, ended   \* stages each thread has begun and ended

Init ==
  /\ begun = [t \in Threads |-> 0]
  /\ ended = [t \in Threads |-> 0]

Begin(t) ==
  /\ begun[t] = ended[t]
  /\ \A u \in Threads : ended[u] >= begun[t]
  /\ begun' = [begun EXCEPT ![t] = @ + 1]
  /\ UNCHANGED ended

End(t) ==
  /\ begun[t] = ended[t] + 1
  /\ ended' = [ended EXCEPT ![t] = @ + 1]
  /\ UNCHANGED begun

Next == \E t \in Threads : Begin(t) \/ End(t)

Spec == Init /\ [][Next]_<<begun, ended>>
=============================================================================
