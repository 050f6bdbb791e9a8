---------------------------- MODULE StageBarrier ----------------------------
(***************************************************************************)
(* The two barriers of worker() in aiostress/aio-stress.c on their own: one *)
(* before a stage (threads_starting) and one after it (threads_ending),    *)
(* sharing a mutex and a condition variable, each counter reset by the     *)
(* last thread through the other barrier.  What a thread does in a stage,  *)
(* and whether it comes back for another, is left open.                    *)
(***************************************************************************)
EXTENDS Integers, FiniteSets

CONSTANTS
  Threads,
  MaxRound   \* bound on the stages of a thread (aio-stress has at most four)

\* The barriers are only used `if (num_threads > 1)'.
ASSUME ThreadsAssumption == IsFiniteSet(Threads) /\ Cardinality(Threads) > 1
ASSUME RoundAssumption == MaxRound \in Nat

VARIABLES
  pc,                \* where a thread is: at or in the start barrier, in the
                     \* stage, in the end barrier, or past it
  threads_starting, threads_ending,
  waiting,           \* threads blocked in pthread_cond_wait
  round              \* stages each thread has begun

vars == <<pc, threads_starting, threads_ending, waiting, round>>

\* Mutant: one thread too few is counted.
num_threads_created == Cardinality(Threads) - 1

num_threads == Cardinality(Threads)

Init ==
  /\ pc = [t \in Threads |-> "start"]
  /\ threads_starting = 0
  /\ threads_ending = 0
  /\ waiting = {}
  /\ round = [t \in Threads |-> 0]

Goto(t, from, to) ==
  /\ pc[t] = from
  /\ pc' = [pc EXCEPT ![t] = to]

\* The thread goes on to its stage.
EnterStage(t) == round' = [round EXCEPT ![t] = @ + 1]

\* The last thread to arrive resets the other barrier and broadcasts.
LastToStart(t) ==
  /\ Goto(t, "start", "stage") /\ EnterStage(t)
  /\ threads_starting + 1 = num_threads
  /\ threads_starting' = threads_starting + 1
  /\ threads_ending' = 0
  /\ waiting' = {}

WaitToStart(t) ==
  /\ Goto(t, "start", "startwait")
  /\ threads_starting + 1 # num_threads
  /\ threads_starting' = threads_starting + 1
  /\ waiting' = waiting \cup {t}
  /\ UNCHANGED <<threads_ending, round>>

\* Back from pthread_cond_wait: through, or wait again.
WakeStart(t) ==
  /\ t \notin waiting
  /\ threads_starting = num_threads
  /\ Goto(t, "startwait", "stage") /\ EnterStage(t)
  /\ UNCHANGED <<threads_starting, threads_ending, waiting>>

WaitAgain(t) ==
  /\ t \notin waiting
  /\ \/ pc[t] = "startwait" /\ threads_starting # num_threads
     \/ pc[t] = "endwait" /\ threads_ending # num_threads
  /\ waiting' = waiting \cup {t}
  /\ UNCHANGED <<pc, threads_starting, threads_ending, round>>

\* Mutant: the last thread wakes nobody.
LastToEnd_noBroadcast(t) ==
  /\ Goto(t, "stage", "again")
  /\ threads_ending + 1 = num_threads
  /\ threads_ending' = threads_ending + 1
  /\ threads_starting' = 0
  /\ UNCHANGED <<waiting, round>>

LastToEnd(t) ==
  /\ Goto(t, "stage", "again")
  /\ threads_ending + 1 = num_threads
  /\ threads_ending' = threads_ending + 1
  /\ threads_starting' = 0
  /\ waiting' = {}
  /\ UNCHANGED round

WaitToEnd(t) ==
  /\ Goto(t, "stage", "endwait")
  /\ threads_ending + 1 # num_threads
  /\ threads_ending' = threads_ending + 1
  /\ waiting' = waiting \cup {t}
  /\ UNCHANGED <<threads_starting, round>>

WakeEnd(t) ==
  /\ t \notin waiting
  /\ threads_ending = num_threads
  /\ Goto(t, "endwait", "again")
  /\ UNCHANGED <<threads_starting, threads_ending, waiting, round>>

SpuriousWake(t) ==
  /\ t \in waiting
  /\ waiting' = waiting \ {t}
  /\ UNCHANGED <<pc, threads_starting, threads_ending, round>>

\* goto restart; MaxRound bounds the number of stages.
Restart(t) ==
  /\ round[t] < MaxRound
  /\ Goto(t, "again", "start")
  /\ UNCHANGED <<threads_starting, threads_ending, waiting, round>>

Step(t) ==
  \/ LastToStart(t) \/ WaitToStart(t) \/ WakeStart(t) \/ WaitAgain(t)
  \/ LastToEnd(t) \/ WaitToEnd(t) \/ WakeEnd(t) \/ Restart(t)

Next == \E t \in Threads : Step(t) \/ SpuriousWake(t)

Spec == Init /\ [][Next]_vars

\* Every thread runs, comes back from its stage and asks for the next one.
FairSpec == Spec /\ \A t \in Threads : WF_vars(Step(t))

-----------------------------------------------------------------------------

TypeOK ==
  /\ pc \in [Threads -> {"start", "startwait", "stage", "endwait", "again"}]
  /\ threads_starting \in 0..num_threads
  /\ threads_ending \in 0..num_threads
  /\ waiting \subseteq Threads
  /\ round \in [Threads -> Nat]

\* While one thread is in a stage no other is in an earlier or a later one,
\* and no thread is ever more than one stage ahead: the timings and the
\* stonewalling of worker() compare like with like.
StagesAligned ==
  \A t, u \in Threads :
    /\ pc[t] = "stage" /\ pc[u] = "stage" => round[t] = round[u]
    /\ round[t] <= round[u] + 1
    /\ pc[u] = "stage" => round[t] <= round[u]

\* The counters and the two resets implement StageSync.
Sync == INSTANCE StageSync WITH
          begun <- round,
          ended <- [t \in Threads |-> IF pc[t] = "stage" THEN round[t] - 1 ELSE round[t]]

ImplementsStageSync == Sync!Spec

\* If every thread comes back for each of its stages, all get through all of
\* them: no wakeup is lost, though both barriers use the one condition.
AllStagesDone == <>(\A t \in Threads : pc[t] = "again" /\ round[t] >= MaxRound)
=============================================================================
