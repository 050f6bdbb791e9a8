------------------------ MODULE MonotonicTime_proofs ------------------------
(* Proofs about MonotonicTime, for every number of CPUs and threshold. *)
EXTENDS MonotonicTime, FiniteSetTheorems, TLAPS

\* The holder of test->lock is the one thread in a critical section.
LockInv == \A i \in Cpus : (pc[i] \in Holding) <=> (lock = i)

\* test->last was read off some clock of the machine, not after now.
LastInv == \E c \in Cpus : last <= now + skew[c]

\* A reading is behind the value it is compared with by no more than the
\* distance of two clocks of the machine.
ReadInv ==
  \A i \in Cpus :
    /\ pc[i] = "fetch" =>
         \E c, d \in Cpus : last - t1[i] <= skew[c] - skew[d]
    /\ pc[i] \in {"store", "count", "delta", "lockw", "warp"} =>
         \E c, d \in Cpus : t0[i] - t1[i] <= skew[c] - skew[d]
    /\ pc[i] \in {"lockw", "warp"} => IsWarp(i)

\* What was recorded under the lock.
WarpInv == (warps # 0) <=> (worst < -Threshold)

\* Threads that are not, or no longer, in threads[] do nothing.
JoinInv ==
  /\ main = "create" => \A i \in Cpus : i > num_threads => pc[i] = "none"
  /\ main \in {"join", "abandon"} =>
       \A i \in Cpus : i > num_threads => pc[i] \in {"none", "exit"}
  /\ main = "wait" => num_threads = NCpus
  /\ main = "returned" => \A i \in Cpus : pc[i] \in {"none", "exit"}
  /\ errs = 0 => main = "returned" /\ warps = 0

IInv ==
  /\ TypeOK /\ LockInv /\ LastInv /\ ReadInv
  /\ NoFalseWarp /\ WorstIsReal /\ WarpInv /\ JoinInv

LEMMA InitIInv == Init => IInv
<1> SUFFICES ASSUME Init PROVE IInv
  OBVIOUS
<1> USE CpuAssumption, ThresholdAssumption, BoundAssumption
<1>1. TypeOK
  BY DEF Init, TypeOK, ThreadPCs
<1>2. 1 \in Cpus /\ skew[1] \in Nat
  BY DEF Init, Cpus
<1>3. LastInv /\ WorstIsReal
  BY <1>2 DEF Init, LastInv, WorstIsReal
<1>4. LockInv /\ ReadInv /\ NoFalseWarp /\ WarpInv /\ JoinInv
  BY DEF Init, LockInv, ReadInv, NoFalseWarp, WarpInv, JoinInv, Holding, Cpus
<1> QED BY <1>1, <1>3, <1>4 DEF IInv

\* Every step keeps the variables in their types.
LEMMA TypeNext == TypeOK /\ [Next]_vars => TypeOK'
<1> SUFFICES ASSUME TypeOK, [Next]_vars PROVE TypeOK'
  OBVIOUS
<1> USE CpuAssumption, ThresholdAssumption, BoundAssumption DEF TypeOK, ThreadPCs
<1>1. CASE Tick
  BY <1>1 DEF Tick, locals, test, runner
<1>2. CASE Main
  <2> USE DEF clock, locals, test
  <2>1. CASE CreateThread
    <3>1. num_threads + 1 \in 0..NCpus
      BY <2>1 DEF CreateThread
    <3>2. pc' \in [Cpus -> ThreadPCs]
      BY <2>1 DEF CreateThread
    <3> QED BY <2>1, <3>1, <3>2 DEF CreateThread
  <2>2. CASE CreateFails
    BY <2>2 DEF CreateFails
  <2>3. CASE Created \/ StopTest
    BY <2>3 DEF Created, StopTest
  <2>4. CASE JoinThread
    BY <2>4 DEF JoinThread
  <2>5. CASE Report
    BY <2>5 DEF Report
  <2> QED BY <1>2, <2>1, <2>2, <2>3, <2>4, <2>5 DEF Main
<1>3. ASSUME NEW i \in Cpus, Thread(i) PROVE TypeOK'
  <2> USE DEF Goto, clock, locals, test, runner, DropLocals
  <2>1. \A v \in Readings(i) : v \in Int
    BY DEF Readings
  <2>2. i \in 0..NCpus /\ Delta(i) \in Int
    BY DEF Cpus, Delta
  <2>3. CASE RunThread(i) \/ LoopTest(i)
    BY <2>3 DEF RunThread, LoopTest
  <2>4. CASE LockFirst(i) \/ LockWarp(i)
    BY <2>2, <2>4 DEF LockFirst, LockWarp, SpinLock
  <2>5. CASE ReadClock(i)
    BY <2>1, <2>5 DEF ReadClock
  <2>6. CASE FetchLast(i) \/ Compare(i)
    BY <2>6 DEF FetchLast, Compare
  <2>7. CASE StoreLast(i)
    BY <2>1, <2>7 DEF StoreLast
  <2>8. CASE CountUnlock(i)
    BY <2>8 DEF CountUnlock
  <2>9. CASE CountWarp(i)
    BY <2>2, <2>9 DEF CountWarp
  <2> QED BY <1>3, <2>3, <2>4, <2>5, <2>6, <2>7, <2>8, <2>9 DEF Thread
<1>4. CASE UNCHANGED vars
  BY <1>4 DEF vars, clock, locals, test, runner
<1> QED BY <1>1, <1>2, <1>3, <1>4 DEF Next

\* The same for the rest of the inductive invariant.
LEMMA IInvNext == IInv /\ [Next]_vars => IInv'
<1> SUFFICES ASSUME IInv, [Next]_vars PROVE IInv'
  OBVIOUS
<1> USE CpuAssumption, ThresholdAssumption, BoundAssumption
<1>t. TypeOK /\ TypeOK'
  BY TypeNext DEF IInv
<1>1. CASE Tick
  <2>1. UNCHANGED <<skew, pc, t0, t1, lock, last, warps, worst, num_threads, main, errs>>
    BY <1>1 DEF Tick, locals, test, runner
  <2>2. LastInv'
    BY <1>1, <1>t, <2>1 DEF IInv, LastInv, Tick, TypeOK
  <2>3. LockInv' /\ WarpInv' /\ JoinInv' /\ NoFalseWarp' /\ WorstIsReal'
    BY <2>1 DEF IInv, LockInv, WarpInv, JoinInv, NoFalseWarp, ClocksDisagree, WorstIsReal
  <2>4. ReadInv'
    BY <2>1 DEF IInv, ReadInv, IsWarp, Delta
  <2> QED BY <1>t, <2>2, <2>3, <2>4 DEF IInv
<1>2. CASE Main
  <2>1. UNCHANGED <<now, skew, t0, t1, lock, last, warps, worst>>
    BY <1>2 DEF Main, CreateThread, CreateFails, Created, StopTest, JoinThread,
                Report, clock, locals, test
  <2>2. \/ UNCHANGED pc
        \/ \E i \in Cpus : pc[i] = "none" /\ pc' = [pc EXCEPT ![i] = "start"]
    <3>1. CASE CreateThread
      <4>1. num_threads + 1 \in Cpus /\ num_threads + 1 > num_threads
        BY <1>t, <3>1 DEF CreateThread, TypeOK, Cpus
      <4> QED BY <3>1, <4>1 DEF CreateThread, IInv, JoinInv
    <3> QED BY <1>2, <3>1 DEF Main, CreateFails, Created, StopTest,
                              JoinThread, Report, locals
  <2>3. LastInv' /\ WarpInv' /\ NoFalseWarp' /\ WorstIsReal'
    BY <2>1 DEF IInv, LastInv, WarpInv, NoFalseWarp, ClocksDisagree, WorstIsReal
  <2>4. LockInv'
    BY <1>t, <2>1, <2>2 DEF IInv, LockInv, Holding, TypeOK
  <2>5. ReadInv'
    BY <1>t, <2>1, <2>2 DEF IInv, ReadInv, IsWarp, Delta, TypeOK
  <2>6. JoinInv'
    <3> USE <1>t DEF IInv, JoinInv, TypeOK
    <3>1. CASE CreateThread
      <4>1. \A i \in Cpus : i > num_threads' => i > num_threads /\ pc'[i] = pc[i]
        BY <3>1 DEF CreateThread, Cpus
      <4> QED BY <3>1, <4>1 DEF CreateThread, test
    <3>2. CASE CreateFails
      <4>1. UNCHANGED <<pc, warps, num_threads>> /\ main = "create"
        BY <3>2 DEF CreateFails, locals
      <4>2. CASE num_threads > 0
        BY <3>2, <4>1, <4>2 DEF CreateFails
      <4>3. CASE num_threads = 0
        <5>1. main' = "returned" /\ errs' = 1
          BY <3>2, <4>3 DEF CreateFails
        <5>2. \A i \in Cpus : i > num_threads
          BY <4>3 DEF Cpus
        <5> QED BY <4>1, <5>1, <5>2
      <4> QED BY <4>2, <4>3
    <3>3. CASE Created \/ StopTest
      <4>1. \A i \in Cpus : ~(i > NCpus)
        BY DEF Cpus
      <4>2. CASE Created
        BY <4>2 DEF Created, locals, test
      <4>3. CASE StopTest
        BY <4>1, <4>3 DEF StopTest, locals
      <4> QED BY <3>3, <4>2, <4>3
    <3>4. CASE JoinThread
      <4>1. UNCHANGED <<pc, warps, main, errs>> /\ main \in {"join", "abandon"}
        BY <3>4 DEF JoinThread, locals, test
      <4>2. \A i \in Cpus : i > num_threads' => i = num_threads \/ i > num_threads
        BY <3>4 DEF JoinThread, Cpus
      <4>3. \A i \in Cpus : i > num_threads' => pc[i] \in {"none", "exit"}
        BY <3>4, <4>1, <4>2 DEF JoinThread
      <4> QED BY <4>1, <4>3
    <3>5. CASE Report
      <4>1. UNCHANGED <<pc, warps, num_threads>> /\ main' = "returned"
        BY <3>5 DEF Report, locals, test
      <4>2. \A i \in Cpus : pc[i] \in {"none", "exit"}
        BY <3>5 DEF Report, Cpus
      <4>3. errs' = 0 => warps = 0
        BY <3>5 DEF Report
      <4> QED BY <4>1, <4>2, <4>3
    <3> QED BY <1>2, <3>1, <3>2, <3>3, <3>4, <3>5 DEF Main
  <2> QED BY <1>t, <2>3, <2>4, <2>5, <2>6 DEF IInv
<1>3. ASSUME NEW i \in Cpus, Thread(i) PROVE IInv'
  <2> USE <1>t DEF TypeOK
  <2>1. /\ UNCHANGED <<now, skew, num_threads, main, errs>>
        /\ pc[i] \notin {"none", "exit"}
        /\ \E to \in ThreadPCs : to # "none" /\ pc' = [pc EXCEPT ![i] = to]
        /\ \A j \in Cpus \ {i} :
             pc'[j] = pc[j] /\ t0'[j] = t0[j] /\ t1'[j] = t1[j]
    BY <1>3 DEF Thread, RunThread, LoopTest, LockFirst, ReadClock, FetchLast,
         StoreLast, CountUnlock, Compare, LockWarp, CountWarp, SpinLock, Goto,
         DropLocals, clock, runner, ThreadPCs
  <2>2. main # "returned" /\ errs # 0
    BY <2>1 DEF IInv, JoinInv
  <2>3. JoinInv'
    BY <2>1, <2>2 DEF IInv, JoinInv
  <2>4. CASE RunThread(i) \/ LoopTest(i)
    <3>1. /\ UNCHANGED <<lock, last, warps, worst, t0, t1>>
          /\ pc[i] \in {"start", "loop"}
          /\ pc'[i] \in {"loop", "lock", "exit"}
      BY <2>4 DEF RunThread, LoopTest, Goto, test
    <3>2. LockInv'
      BY <2>1, <3>1 DEF IInv, LockInv, Holding
    <3>3. ReadInv'
      BY <2>1, <3>1 DEF IInv, ReadInv, IsWarp, Delta
    <3>4. LastInv' /\ WarpInv' /\ NoFalseWarp' /\ WorstIsReal'
      BY <2>1, <3>1 DEF IInv, LastInv, WarpInv, NoFalseWarp, ClocksDisagree, WorstIsReal
    <3> QED BY <2>3, <3>2, <3>3, <3>4 DEF IInv
  <2>5. CASE LockFirst(i) \/ LockWarp(i)
    <3>1. /\ UNCHANGED <<last, warps, worst, t0, t1>>
          /\ lock = 0 /\ lock' = i
          /\ \/ pc[i] = "lock" /\ pc'[i] = "read"
             \/ pc[i] = "lockw" /\ pc'[i] = "warp"
      BY <2>5 DEF LockFirst, LockWarp, SpinLock, Goto
    <3>2. LockInv'
      BY <2>1, <3>1 DEF IInv, LockInv, Holding, Cpus
    <3>3. ReadInv'
      BY <2>1, <3>1 DEF IInv, ReadInv, IsWarp, Delta
    <3>4. LastInv' /\ WarpInv' /\ NoFalseWarp' /\ WorstIsReal'
      BY <2>1, <3>1 DEF IInv, LastInv, WarpInv, NoFalseWarp, ClocksDisagree, WorstIsReal
    <3> QED BY <2>3, <3>2, <3>3, <3>4 DEF IInv
  <2>6. CASE ReadClock(i)
    <3>1. /\ UNCHANGED <<lock, last, warps, worst, t0>>
          /\ pc[i] = "read" /\ pc'[i] = "fetch"
          /\ \E d \in Cpus : t1'[i] = now + skew[d]
      BY <2>6 DEF ReadClock, Goto, Readings, test
    <3>2. LockInv'
      BY <2>1, <3>1 DEF IInv, LockInv, Holding
    <3>3. \E c, d \in Cpus : last' - t1'[i] <= skew'[c] - skew'[d]
      BY <2>1, <3>1 DEF IInv, LastInv
    <3>4. ReadInv'
      BY <2>1, <3>1, <3>3 DEF IInv, ReadInv, IsWarp, Delta
    <3>5. LastInv' /\ WarpInv' /\ NoFalseWarp' /\ WorstIsReal'
      BY <2>1, <3>1 DEF IInv, LastInv, WarpInv, NoFalseWarp, ClocksDisagree, WorstIsReal
    <3> QED BY <2>3, <3>2, <3>4, <3>5 DEF IInv
  <2>7. CASE FetchLast(i)
    <3>1. /\ UNCHANGED <<lock, last, warps, worst, t1>>
          /\ pc[i] = "fetch" /\ pc'[i] = "store" /\ t0'[i] = last
      BY <2>7 DEF FetchLast, Goto, test
    <3>2. LockInv'
      BY <2>1, <3>1 DEF IInv, LockInv, Holding
    <3>3. \E c, d \in Cpus : t0'[i] - t1'[i] <= skew'[c] - skew'[d]
      BY <2>1, <3>1 DEF IInv, ReadInv
    <3>4. ReadInv'
      BY <2>1, <3>1, <3>3 DEF IInv, ReadInv, IsWarp, Delta
    <3>5. LastInv' /\ WarpInv' /\ NoFalseWarp' /\ WorstIsReal'
      BY <2>1, <3>1 DEF IInv, LastInv, WarpInv, NoFalseWarp, ClocksDisagree, WorstIsReal
    <3> QED BY <2>3, <3>2, <3>4, <3>5 DEF IInv
  <2>8. CASE StoreLast(i)
    <3>1. /\ UNCHANGED <<lock, warps, worst, t0, t1>>
          /\ pc[i] = "store" /\ pc'[i] = "count"
          /\ \E c \in Cpus : last' = now + skew[c]
      BY <2>8 DEF StoreLast, Goto, Readings
    <3>2. LockInv'
      BY <2>1, <3>1 DEF IInv, LockInv, Holding
    <3>3. \A j \in Cpus \ {i} : pc[j] # "fetch"
      BY <3>1 DEF IInv, LockInv, Holding
    <3>4. ReadInv'
      BY <2>1, <3>1, <3>3 DEF IInv, ReadInv, IsWarp, Delta
    <3>5. LastInv' /\ WarpInv' /\ NoFalseWarp' /\ WorstIsReal'
      BY <2>1, <3>1 DEF IInv, LastInv, WarpInv, NoFalseWarp, ClocksDisagree, WorstIsReal
    <3> QED BY <2>3, <3>2, <3>4, <3>5 DEF IInv
  <2>9. CASE CountUnlock(i)
    <3>1. /\ UNCHANGED <<last, warps, worst, t0, t1>>
          /\ pc[i] = "count" /\ pc'[i] = "delta" /\ lock' = 0
      BY <2>9 DEF CountUnlock, Goto
    <3>2. LockInv'
      BY <2>1, <3>1 DEF IInv, LockInv, Holding, Cpus
    <3>3. ReadInv'
      BY <2>1, <3>1 DEF IInv, ReadInv, IsWarp, Delta
    <3>4. LastInv' /\ WarpInv' /\ NoFalseWarp' /\ WorstIsReal'
      BY <2>1, <3>1 DEF IInv, LastInv, WarpInv, NoFalseWarp, ClocksDisagree, WorstIsReal
    <3> QED BY <2>3, <3>2, <3>3, <3>4 DEF IInv
  <2>10. CASE Compare(i)
    <3>1. /\ UNCHANGED <<lock, last, warps, worst>>
          /\ pc[i] = "delta"
          /\ \/ pc'[i] = "lockw" /\ IsWarp(i) /\ UNCHANGED <<t0, t1>>
             \/ pc'[i] = "loop"
      BY <2>10 DEF Compare, Goto, test
    <3>2. LockInv'
      BY <2>1, <3>1 DEF IInv, LockInv, Holding
    <3>3. ReadInv'
      BY <2>1, <3>1 DEF IInv, ReadInv, IsWarp, Delta
    <3>4. LastInv' /\ WarpInv' /\ NoFalseWarp' /\ WorstIsReal'
      BY <2>1, <3>1 DEF IInv, LastInv, WarpInv, NoFalseWarp, ClocksDisagree, WorstIsReal
    <3> QED BY <2>3, <3>2, <3>3, <3>4 DEF IInv
  <2>11. CASE CountWarp(i)
    <3>0. pc[i] = "warp" /\ pc'[i] = "loop" /\ lock' = 0
      BY <2>11 DEF CountWarp, Goto
    <3>1. /\ UNCHANGED last
          /\ pc[i] = "warp" /\ pc'[i] = "loop"
          /\ warps' = warps + 1
          /\ worst' = IF Delta(i) < worst THEN Delta(i) ELSE worst
      BY <2>11 DEF CountWarp, Goto
    <3>2. LockInv'
      <4>1. \A j \in Cpus : j # 0
        BY DEF Cpus
      <4>2. \A j \in Cpus : pc'[j] \notin Holding
        BY <2>1, <3>0 DEF IInv, LockInv, Holding
      <4> QED BY <3>0, <4>1, <4>2 DEF LockInv
    <3>3. ReadInv'
      BY <2>1, <3>1 DEF IInv, ReadInv, IsWarp, Delta
    <3>4. /\ \E c, d \in Cpus : t0[i] - t1[i] <= skew[c] - skew[d]
          /\ Delta(i) < -Threshold
      BY <3>1 DEF IInv, ReadInv, IsWarp
    <3>5. NoFalseWarp'
      BY <2>1, <3>4 DEF NoFalseWarp, ClocksDisagree, Delta
    <3>6. WorstIsReal'
      BY <2>1, <3>1, <3>4 DEF IInv, WorstIsReal, Delta
    <3>7. WarpInv'
      BY <3>1, <3>4 DEF IInv, WarpInv, Delta
    <3>8. LastInv'
      BY <2>1, <3>1 DEF IInv, LastInv
    <3> QED BY <2>3, <3>2, <3>3, <3>5, <3>6, <3>7, <3>8 DEF IInv
  <2> QED BY <1>3, <2>4, <2>5, <2>6, <2>7, <2>8, <2>9, <2>10, <2>11 DEF Thread
<1>4. CASE UNCHANGED vars
  BY <1>4 DEF vars, clock, locals, test, runner, IInv, TypeOK, LockInv, LastInv,
     ReadInv, IsWarp, Delta, NoFalseWarp, ClocksDisagree, WorstIsReal, WarpInv, JoinInv
<1> QED BY <1>1, <1>2, <1>3, <1>4 DEF Next

LEMMA Invariance == Spec => []IInv
BY InitIInv, IInvNext, PTL DEF Spec

\* The variables of the warp test keep their types.
THEOREM TypeCorrect == Spec => []TypeOK
BY Invariance, PTL DEF IInv

\* On a machine whose clocks agree to within the threshold DEFINE_TEST never
\* counts a warp, whatever the number of CPUs and the interleaving.
THEOREM WarpsAreReal == Spec => []NoFalseWarp
BY Invariance, PTL DEF IInv

\* The jump run_test prints is never larger than the clocks' distance.
THEOREM WorstJumpIsReal == Spec => []WorstIsReal
BY Invariance, PTL DEF IInv

\* When run_test returns no thread is left in the test, and it returned 0
\* only if no jump beyond the threshold was recorded.
THEOREM VerdictCorrect == Spec => []VerdictMatchesWorst
<1>1. IInv => VerdictMatchesWorst
  BY DEF IInv, WarpInv, JoinInv, VerdictMatchesWorst
<1> QED BY <1>1, Invariance, PTL

-----------------------------------------------------------------------------
(* The count of the warps, which relates two counters and all the threads. *)

\* Threads between the two critical sections or in the second: the iteration
\* is counted and it may still turn out to be a warp.
Open == {i \in Cpus : pc[i] \in {"delta", "lockw", "warp"}}

CountInv == warps + Cardinality(Open) <= loops

\* Any set of threads is finite.
LEMMA FiniteThreads ==
  ASSUME NEW S \in SUBSET Cpus
  PROVE  IsFiniteSet(S) /\ Cardinality(S) \in Nat
<1>1. IsFiniteSet(Cpus)
  BY FS_Interval, CpuAssumption DEF Cpus
<1>2. IsFiniteSet(S)
  BY <1>1, FS_Subset
<1> QED BY <1>2, FS_CardinalityType

\* Only these three steps change the set, and only by the thread they are of.
LEMMA OpenNext ==
  ASSUME TypeOK, TypeOK', CountInv, NEW i \in Cpus, Thread(i)
  PROVE  CountInv'
<1> DEFINE n == Cardinality(Open)
<1>n. /\ IsFiniteSet(Open) /\ n \in Nat
      /\ loops \in Nat /\ warps \in Nat /\ pc \in [Cpus -> ThreadPCs]
  BY FiniteThreads DEF Open, TypeOK
<1>inv. warps + n <= loops
  BY DEF CountInv
<1> HIDE DEF n
<1>1. CASE CountUnlock(i)
  <2>1. Open' = Open \cup {i} /\ i \notin Open
    BY <1>1, <1>n DEF CountUnlock, Goto, Open
  <2>2. Cardinality(Open') = n + 1
    BY <1>n, <2>1, FS_AddElement DEF n
  <2>3. loops' = loops + 1 /\ warps' = warps
    BY <1>1 DEF CountUnlock
  <2> QED BY <1>n, <1>inv, <2>2, <2>3 DEF CountInv
<1>2. CASE CountWarp(i)
  <2>1. Open' = Open \ {i} /\ i \in Open
    BY <1>2, <1>n DEF CountWarp, Goto, Open
  <2>2. Cardinality(Open') = n - 1
    BY <1>n, <2>1, FS_RemoveElement DEF n
  <2>3. loops' = loops /\ warps' = warps + 1
    BY <1>2 DEF CountWarp
  <2> QED BY <1>n, <1>inv, <2>2, <2>3 DEF CountInv
<1>3. CASE Compare(i)
  <2>1. Open' \in SUBSET Open
    BY <1>3, <1>n DEF Compare, Goto, Open
  <2>2. Cardinality(Open') <= n /\ Cardinality(Open') \in Nat
    BY <1>n, <2>1, FS_Subset, FiniteThreads DEF n, Open
  <2>3. loops' = loops /\ warps' = warps
    BY <1>3 DEF Compare, test
  <2> QED BY <1>n, <1>inv, <2>2, <2>3 DEF CountInv
<1>4. CASE RunThread(i) \/ LoopTest(i) \/ LockFirst(i) \/ ReadClock(i)
           \/ FetchLast(i) \/ StoreLast(i) \/ LockWarp(i)
  <2>1. Open' = Open
    BY <1>4, <1>n DEF RunThread, LoopTest, LockFirst, ReadClock, FetchLast,
         StoreLast, LockWarp, SpinLock, Goto, Open
  <2>2. loops' = loops /\ warps' = warps
    BY <1>4 DEF RunThread, LoopTest, LockFirst, ReadClock, FetchLast,
         StoreLast, LockWarp, SpinLock, test
  <2> QED BY <1>inv, <2>1, <2>2 DEF CountInv, n
<1> QED BY <1>1, <1>2, <1>3, <1>4 DEF Thread

LEMMA CountNext ==
  ASSUME IInv, IInv', CountInv, [Next]_vars
  PROVE  CountInv'
<1>t. TypeOK /\ TypeOK' /\ pc \in [Cpus -> ThreadPCs]
  BY DEF IInv, TypeOK
<1>1. CASE Tick \/ CreateFails \/ Created \/ StopTest \/ JoinThread \/ Report
           \/ UNCHANGED vars
  <2>1. UNCHANGED <<pc, loops, warps>>
    BY <1>1 DEF Tick, CreateFails, Created, StopTest, JoinThread, Report,
         locals, test, vars
  <2> QED BY <2>1 DEF CountInv, Open
<1>2. CASE CreateThread
  <2>1. num_threads + 1 \in Cpus /\ num_threads + 1 > num_threads
    BY <1>2, <1>t, CpuAssumption DEF CreateThread, TypeOK, Cpus
  <2>2. pc[num_threads + 1] = "none"
    BY <1>2, <2>1 DEF CreateThread, IInv, JoinInv
  <2>3. Open' = Open
    BY <1>2, <1>t, <2>1, <2>2 DEF CreateThread, Open
  <2> QED BY <1>2, <2>3 DEF CreateThread, CountInv, test
<1>3. ASSUME NEW i \in Cpus, Thread(i) PROVE CountInv'
  BY <1>3, <1>t, OpenNext
<1> QED BY <1>1, <1>2, <1>3 DEF Next, Main

\* Every warp that was counted, or is about to be, has its own iteration in
\* test->loops, although the two counters are updated in two different
\* critical sections with other threads in between.
THEOREM WarpsWithinLoops == Spec => []EveryWarpCounted
<1>1. Init => CountInv
  <2> SUFFICES ASSUME Init PROVE CountInv
    OBVIOUS
  <2>1. Open = {} /\ warps = 0 /\ loops = 0
    BY DEF Init, Open
  <2> QED BY <2>1, FS_EmptySet DEF CountInv
<1>2. IInv /\ CountInv => EveryWarpCounted
  <2> SUFFICES ASSUME IInv, CountInv PROVE EveryWarpCounted
    OBVIOUS
  <2> DEFINE S == {i \in Cpus : pc[i] \in {"lockw", "warp"}}
  <2>1. S \in SUBSET Open /\ Open \in SUBSET Cpus
    BY DEF Open
  <2>2. IsFiniteSet(Open) /\ Cardinality(Open) \in Nat /\ Cardinality(S) \in Nat
    BY <2>1, FiniteThreads
  <2>3. Cardinality(S) <= Cardinality(Open)
    BY <2>1, <2>2, FS_Subset
  <2>4. warps \in Nat /\ loops \in Nat
    BY DEF IInv, TypeOK
  <2> HIDE DEF S
  <2>5. warps + Cardinality(S) <= loops
    BY <2>2, <2>3, <2>4 DEF CountInv
  <2> QED BY <2>5 DEF EveryWarpCounted, S
<1>3. IInv /\ IInv' /\ CountInv /\ [Next]_vars => CountInv'
  BY CountNext
<1> QED BY <1>1, <1>2, <1>3, Invariance, PTL DEF Spec
=============================================================================
