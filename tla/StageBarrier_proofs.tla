------------------------ MODULE StageBarrier_proofs ------------------------
(* The stage barrier of aio-stress, for any number of threads. *)
EXTENDS StageBarrier, FiniteSetTheorems, TLAPS

Starters == {t \in Threads : pc[t] = "startwait"}
Enders   == {t \in Threads : pc[t] = "endwait"}

\* The start barrier is closed: threads gather, none is in a stage, all have
\* begun r stages.
Gathering(r) ==
  /\ threads_starting < num_threads
  /\ threads_starting = Cardinality(Starters)
  /\ \A t \in Threads : pc[t] # "stage" /\ round[t] = r
  /\ \A t \in Threads : pc[t] = "endwait" => threads_ending = num_threads

\* The start barrier is open: stage r + 1 is on until all have ended it.
Running(r) ==
  /\ threads_starting = num_threads
  /\ threads_ending < num_threads
  /\ threads_ending = Cardinality(Enders)
  /\ \A t \in Threads :
       \/ pc[t] = "startwait" /\ round[t] = r
       \/ pc[t] \in {"stage", "endwait"} /\ round[t] = r + 1

IInv == TypeOK /\ \E r \in Nat : Gathering(r) \/ Running(r)

\* The number of threads, and of those at a barrier.
LEMMA Counting ==
  /\ num_threads \in Nat /\ num_threads > 1
  /\ IsFiniteSet(Starters) /\ Cardinality(Starters) \in Nat
  /\ IsFiniteSet(Enders) /\ Cardinality(Enders) \in Nat
<1>1. Starters \in SUBSET Threads /\ Enders \in SUBSET Threads
  BY DEF Starters, Enders
<1>2. IsFiniteSet(Starters) /\ IsFiniteSet(Enders)
  BY <1>1, ThreadsAssumption, FS_Subset
<1> QED BY <1>2, ThreadsAssumption, FS_CardinalityType DEF num_threads

\* If all threads but one are in S, the rest of the threads is that one.
LEMMA AllButOne ==
  ASSUME NEW S \in SUBSET Threads, NEW t \in Threads, t \notin S,
         Cardinality(S) + 1 = num_threads
  PROVE  \A u \in Threads : u # t => u \in S
<1>1. IsFiniteSet(S) /\ Cardinality(S) \in Nat
  BY ThreadsAssumption, FS_Subset, FS_CardinalityType
<1>2. Cardinality(S \cup {t}) = num_threads /\ S \cup {t} \in SUBSET Threads
  BY <1>1, FS_AddElement
<1>3. S \cup {t} = Threads
  BY <1>2, ThreadsAssumption, FS_Subset DEF num_threads
<1> QED BY <1>3

LEMMA InitIInv == Init => IInv
<1> SUFFICES ASSUME Init PROVE IInv
  OBVIOUS
<1>1. TypeOK
  BY Counting DEF Init, TypeOK
<1>2. Starters = {}
  BY DEF Init, Starters
<1>3. Gathering(0)
  BY <1>2, Counting, FS_EmptySet DEF Init, Gathering
<1> QED BY <1>1, <1>3 DEF IInv

LEMMA TypeNext == IInv /\ [Next]_vars => TypeOK'
<1> SUFFICES ASSUME IInv, [Next]_vars PROVE TypeOK'
  OBVIOUS
<1>0. TypeOK
  BY DEF IInv
<1> USE <1>0 DEF TypeOK
<1>1. ASSUME NEW t \in Threads, Step(t) \/ SpuriousWake(t) PROVE TypeOK'
  <2> USE Counting DEF Goto, EnterStage
  <2>0. /\ pc[t] = "start" => threads_starting < num_threads
        /\ pc[t] = "stage" => threads_ending < num_threads
    BY DEF IInv, Gathering, Running
  <2>1. CASE LastToStart(t) \/ WaitToStart(t)
    <3>1. threads_starting + 1 \in 0..num_threads
      BY <2>0, <2>1 DEF LastToStart, WaitToStart
    <3> QED BY <2>1, <3>1 DEF LastToStart, WaitToStart, num_threads
  <2>2. CASE WakeStart(t) \/ WaitAgain(t)
    BY <2>2 DEF WakeStart, WaitAgain
  <2>3. CASE LastToEnd(t) \/ WaitToEnd(t)
    <3>1. threads_ending + 1 \in 0..num_threads
      BY <2>0, <2>3 DEF LastToEnd, WaitToEnd
    <3> QED BY <2>3, <3>1 DEF LastToEnd, WaitToEnd, num_threads
  <2>4. CASE WakeEnd(t) \/ SpuriousWake(t) \/ Restart(t)
    BY <2>4 DEF WakeEnd, SpuriousWake, Restart
  <2> QED BY <1>1, <2>1, <2>2, <2>3, <2>4 DEF Step
<1>2. CASE UNCHANGED vars
  BY <1>2 DEF vars
<1> QED BY <1>1, <1>2 DEF Next

\* Steps while the threads gather.
LEMMA GatheringNext ==
  ASSUME TypeOK, NEW r \in Nat, Gathering(r), NEW t \in Threads,
         Step(t) \/ SpuriousWake(t)
  PROVE  Gathering(r)' \/ Running(r)'
<1> USE Counting DEF TypeOK, Goto
<1>1. CASE LastToStart(t)
  <2>1. t \notin Starters /\ Starters \in SUBSET Threads
    BY <1>1 DEF LastToStart, Starters
  <2>2. Cardinality(Starters) + 1 = num_threads
    BY <1>1 DEF LastToStart, Gathering
  <2>3. \A u \in Threads : u # t => pc[u] = "startwait"
    BY <2>1, <2>2, AllButOne DEF Starters
  <2>4. /\ threads_starting' = num_threads
        /\ threads_ending' = 0
        /\ pc'[t] = "stage" /\ round'[t] = r + 1
        /\ \A u \in Threads : u # t => pc'[u] = pc[u] /\ round'[u] = r
    BY <1>1 DEF LastToStart, EnterStage, Gathering
  <2>5. Enders' = {}
    BY <2>3, <2>4 DEF Enders
  <2>6. Running(r)'
    BY <2>3, <2>4, <2>5, FS_EmptySet DEF Running, num_threads
  <2> QED BY <2>6
<1>2. CASE WaitToStart(t)
  <2>1. t \notin Starters /\ Starters' = Starters \cup {t}
    BY <1>2 DEF WaitToStart, Starters
  <2>2. Cardinality(Starters') = Cardinality(Starters) + 1
    BY <2>1, FS_AddElement
  <2>3. threads_starting' < num_threads /\ threads_starting' = Cardinality(Starters')
    BY <1>2, <2>2 DEF WaitToStart, Gathering
  <2>4. Gathering(r)'
    BY <1>2, <2>3 DEF WaitToStart, Gathering, num_threads
  <2> QED BY <2>4
<1>3. CASE WakeStart(t) \/ LastToEnd(t) \/ WaitToEnd(t)
  BY <1>3 DEF WakeStart, LastToEnd, WaitToEnd, Gathering
<1>4. CASE WakeEnd(t) \/ Restart(t)
  <2>1. Starters' = Starters
    BY <1>4 DEF WakeEnd, Restart, Starters
  <2>2. Gathering(r)'
    BY <1>4, <2>1 DEF WakeEnd, Restart, Gathering, num_threads
  <2> QED BY <2>2
<1>5. CASE WaitAgain(t) \/ SpuriousWake(t)
  <2>1. UNCHANGED <<pc, threads_starting, threads_ending, round>>
    BY <1>5 DEF WaitAgain, SpuriousWake
  <2>2. Gathering(r)'
    BY <2>1 DEF Gathering, Starters, num_threads
  <2> QED BY <2>2
<1> QED BY <1>1, <1>2, <1>3, <1>4, <1>5 DEF Step

\* Steps while the stage is on.
LEMMA RunningNext ==
  ASSUME TypeOK, NEW r \in Nat, Running(r), NEW t \in Threads,
         Step(t) \/ SpuriousWake(t)
  PROVE  Running(r)' \/ Gathering(r + 1)'
<1> USE Counting DEF TypeOK, Goto
<1>1. CASE LastToStart(t) \/ WaitToStart(t) \/ WakeEnd(t) \/ Restart(t)
  BY <1>1 DEF LastToStart, WaitToStart, WakeEnd, Restart, Running
<1>2. CASE WakeStart(t)
  <2>1. Enders' = Enders
    BY <1>2 DEF WakeStart, Enders
  <2>2. Running(r)'
    BY <1>2, <2>1 DEF WakeStart, EnterStage, Running, num_threads
  <2> QED BY <2>2
<1>3. CASE LastToEnd(t)
  <2>1. t \notin Enders /\ Enders \in SUBSET Threads
    BY <1>3 DEF LastToEnd, Enders
  <2>2. Cardinality(Enders) + 1 = num_threads
    BY <1>3 DEF LastToEnd, Running
  <2>3. \A u \in Threads : u # t => pc[u] = "endwait"
    BY <2>1, <2>2, AllButOne DEF Enders
  <2>4. /\ threads_starting' = 0
        /\ threads_ending' = num_threads
        /\ pc'[t] = "again" /\ round'[t] = r + 1
        /\ \A u \in Threads : u # t => pc'[u] = pc[u] /\ round'[u] = r + 1
    BY <1>3, <2>3 DEF LastToEnd, Running
  <2>5. Starters' = {}
    BY <2>3, <2>4 DEF Starters
  <2>6. Gathering(r + 1)'
    BY <2>3, <2>4, <2>5, FS_EmptySet DEF Gathering, num_threads
  <2> QED BY <2>6
<1>4. CASE WaitToEnd(t)
  <2>1. t \notin Enders /\ Enders' = Enders \cup {t}
    BY <1>4 DEF WaitToEnd, Enders
  <2>2. Cardinality(Enders') = Cardinality(Enders) + 1
    BY <2>1, FS_AddElement
  <2>3. threads_ending' < num_threads /\ threads_ending' = Cardinality(Enders')
    BY <1>4, <2>2 DEF WaitToEnd, Running
  <2>4. Running(r)'
    BY <1>4, <2>3 DEF WaitToEnd, Running, num_threads
  <2> QED BY <2>4
<1>5. CASE WaitAgain(t) \/ SpuriousWake(t)
  <2>1. UNCHANGED <<pc, threads_starting, threads_ending, round>>
    BY <1>5 DEF WaitAgain, SpuriousWake
  <2>2. Running(r)'
    BY <2>1 DEF Running, Enders, num_threads
  <2> QED BY <2>2
<1> QED BY <1>1, <1>2, <1>3, <1>4, <1>5 DEF Step

LEMMA IInvNext == IInv /\ [Next]_vars => IInv'
<1> SUFFICES ASSUME IInv, [Next]_vars PROVE IInv'
  OBVIOUS
<1>1. TypeOK /\ TypeOK'
  BY TypeNext DEF IInv
<1>2. PICK r \in Nat : Gathering(r) \/ Running(r)
  BY DEF IInv
<1>3. r + 1 \in Nat
  OBVIOUS
<1>4. ASSUME NEW t \in Threads, Step(t) \/ SpuriousWake(t)
      PROVE  Gathering(r)' \/ Running(r)' \/ Gathering(r + 1)'
  BY <1>1, <1>2, <1>4, GatheringNext, RunningNext
<1>5. ASSUME UNCHANGED vars PROVE Gathering(r)' \/ Running(r)'
  BY <1>2, <1>5 DEF vars, Gathering, Running, Starters, Enders, num_threads
<1> QED BY <1>1, <1>3, <1>4, <1>5 DEF Next, IInv

LEMMA Invariance == Spec => []IInv
BY InitIInv, IInvNext, PTL DEF Spec

\* While a thread is in its stage nobody is before the start barrier, and
\* whoever has ended the stage is waiting for the others.
LEMMA StageOn ==
  ASSUME IInv, NEW t \in Threads, pc[t] = "stage"
  PROVE  /\ \A u \in Threads : pc[u] # "start"
         /\ threads_ending # 0 => \E u \in Threads \ {t} : pc[u] = "endwait"
<1>1. PICK r \in Nat : Running(r)
  BY DEF IInv, Gathering
<1>2. threads_ending # 0 => Enders # {}
  BY <1>1, FS_EmptySet DEF Running
<1> QED BY <1>1, <1>2 DEF Running, Enders

\* The variables of the barrier keep their types, whatever the number of
\* threads.
THEOREM TypeCorrect == Spec => []TypeOK
BY Invariance, PTL DEF IInv

\* No two threads of worker() are in different stages at a time.
THEOREM Aligned == Spec => []StagesAligned
<1>1. IInv => StagesAligned
  <2> SUFFICES ASSUME IInv, NEW t \in Threads, NEW u \in Threads
               PROVE  /\ pc[t] = "stage" /\ pc[u] = "stage" => round[t] = round[u]
                      /\ round[t] <= round[u] + 1
                      /\ pc[u] = "stage" => round[t] <= round[u]
    BY DEF StagesAligned
  <2>1. PICK r \in Nat : Gathering(r) \/ Running(r)
    BY DEF IInv
  <2>2. CASE Gathering(r)
    BY <2>2 DEF Gathering
  <2>3. CASE Running(r)
    BY <2>3 DEF Running
  <2> QED BY <2>1, <2>2, <2>3
<1> QED BY <1>1, Invariance, PTL

\* A thread that may begin a stage: all threads have ended the one before.
LEMMA BeginStep ==
  ASSUME IInv, NEW t \in Threads, LastToStart(t) \/ WakeStart(t)
  PROVE  Sync!Begin(t)
<1> DEFINE e(u) == IF pc[u] = "stage" THEN round[u] - 1 ELSE round[u]
<1>1. PICK r \in Nat : Gathering(r) \/ Running(r)
  BY DEF IInv
<1>2. round[t] = r /\ pc[t] # "stage" /\ \A u \in Threads : e(u) >= r
  <2>1. CASE Gathering(r)
    BY <2>1 DEF Gathering, LastToStart, WakeStart, Goto
  <2>2. CASE Running(r)
    BY <2>2 DEF Running, LastToStart, WakeStart, Goto
  <2> QED BY <1>1, <2>1, <2>2
<1>3. /\ pc' = [pc EXCEPT ![t] = "stage"]
      /\ round' = [round EXCEPT ![t] = @ + 1]
  BY DEF LastToStart, WakeStart, Goto, EnterStage
<1>4. \A u \in Threads : e(u)' = e(u)
  BY <1>2, <1>3 DEF IInv, TypeOK
<1> QED BY <1>2, <1>3, <1>4 DEF Sync!Begin

LEMMA EndStep ==
  ASSUME IInv, NEW t \in Threads, LastToEnd(t) \/ WaitToEnd(t)
  PROVE  Sync!End(t)
<1> DEFINE e(u) == IF pc[u] = "stage" THEN round[u] - 1 ELSE round[u]
<1>1. /\ pc[t] = "stage" /\ UNCHANGED round
      /\ pc'[t] # "stage" /\ \A u \in Threads : u # t => pc'[u] = pc[u]
  BY DEF LastToEnd, WaitToEnd, Goto, IInv, TypeOK
<1>2. e(t)' = e(t) + 1 /\ round[t] = e(t) + 1 /\ \A u \in Threads : u # t => e(u)' = e(u)
  BY <1>1 DEF IInv, TypeOK
<1>3. [u \in Threads |-> e(u)'] = [[u \in Threads |-> e(u)] EXCEPT ![t] = @ + 1]
  BY <1>2
<1> QED BY <1>1, <1>2, <1>3 DEF Sync!End

\* The barriers of worker() implement StageSync: a thread begins a stage only
\* when every thread has ended the one before.
THEOREM Refinement == Spec => ImplementsStageSync
<1>1. Init => Sync!Init
  BY DEF Init, Sync!Init
<1>2. IInv /\ [Next]_vars => [Sync!Next]_<<round, [t \in Threads |-> IF pc[t] = "stage"
                                              THEN round[t] - 1 ELSE round[t]]>>
  <2> SUFFICES ASSUME IInv, [Next]_vars
               PROVE  Sync!Next \/ UNCHANGED <<round, [t \in Threads |->
                         IF pc[t] = "stage" THEN round[t] - 1 ELSE round[t]]>>
    OBVIOUS
  <2>1. ASSUME NEW t \in Threads, LastToStart(t) \/ WakeStart(t) PROVE Sync!Next
    BY <2>1, BeginStep DEF Sync!Next
  <2>2. ASSUME NEW t \in Threads, LastToEnd(t) \/ WaitToEnd(t) PROVE Sync!Next
    BY <2>2, EndStep DEF Sync!Next
  <2>3. ASSUME NEW t \in Threads,
               WaitToStart(t) \/ WaitAgain(t) \/ WakeEnd(t) \/ Restart(t) \/ SpuriousWake(t)
        PROVE  UNCHANGED <<round, [u \in Threads |->
                  IF pc[u] = "stage" THEN round[u] - 1 ELSE round[u]]>>
    BY <2>3 DEF WaitToStart, WaitAgain, WakeEnd, Restart, SpuriousWake, Goto, IInv, TypeOK
  <2>4. CASE UNCHANGED vars
    BY <2>4 DEF vars
  <2> QED BY <2>1, <2>2, <2>3, <2>4 DEF Next, Step
<1> QED BY <1>1, <1>2, Invariance, PTL DEF Spec, ImplementsStageSync, Sync!Spec
=============================================================================
