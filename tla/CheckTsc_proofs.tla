--------------------------- MODULE CheckTsc_proofs ---------------------------
(* Proofs about CheckTsc, for every set of CPUs, threshold and NUM_ITERS. *)
EXTENDS CheckTsc, TLAPS

\* The master inside the loop of tsc_delta.
Loop == {"ready", "waitready", "t0", "done", "waitdone", "t1", "keep"}

\* The pair being measured, and what the slave was told of it.
PairInv ==
  /\ m \in Loop \cup {"bind", "cpu", "judge"} => <<cpu_a, cpu_b>> \in Pairs
  /\ m \in Loop => slave_cpu = cpu_b /\ i < NumIters
  /\ m = "stop" => slave_cpu = -1

\* The handshake: where the slave can be, by where the master is.
HandInv ==
  /\ m = "create" => s = "none" /\ master = UNSET /\ slave = UNSET
  /\ m \in {"next", "bind", "cpu", "ready", "t1", "keep", "judge", "stop"} =>
       s = "waitready" /\ master # READY /\ slave \in {UNSET, DONE}
  /\ m = "waitready" =>
       /\ master = READY
       /\ \/ s \in {"waitready", "check", "ready"} /\ slave \in {UNSET, DONE}
          \/ s = "waitdone" /\ slave = READY
          \/ s = "exit" /\ slave = ERROR
  /\ m \in {"t0", "done"} => master = READY /\ s = "waitdone" /\ slave = READY
  /\ m = "waitdone" =>
       /\ master = DONE
       /\ \/ s \in {"waitdone", "sample", "done"} /\ slave = READY
          \/ s = "waitready" /\ slave = DONE
  /\ m = "join" => s \in {"waitready", "check", "exit"} /\ slave_cpu = -1
  /\ m = "returned" => s \in {"none", "exit"}
  /\ s \in {"ready", "waitdone", "sample", "done"} => current_cpu = slave_cpu

\* The slave has taken its sample of this iteration.
Sampled ==
  s = "done" \/ (m = "waitdone" /\ slave = DONE) \/ m \in {"t1", "keep"}

\* The sample lies between the two readings, in true time.
SampleInv ==
  /\ m \in {"done", "waitdone", "t1", "keep"} =>
       0 <= t0 - skew[cpu_a] /\ t0 - skew[cpu_a] <= now
  /\ Sampled => /\ t0 - skew[cpu_a] <= slave_tsc - skew[cpu_b]
                /\ slave_tsc - skew[cpu_b] <= now
  /\ m = "keep" => /\ slave_tsc - skew[cpu_b] <= t1 - skew[cpu_a]
                   /\ t1 - skew[cpu_a] <= now

\* So do the readings that are kept.
BestInOrder ==
  /\ 0 <= best_t0 - skew[cpu_a]
  /\ best_t0 - skew[cpu_a] <= best_tm - skew[cpu_b]
  /\ best_tm - skew[cpu_b] <= best_t1 - skew[cpu_a]
  /\ best_t1 - skew[cpu_a] <= now

BestInv ==
  /\ m = "cpu" => best_t0 = 0 /\ best_t1 = MaxWord
  /\ m \in Loop => IF i = 0 THEN best_t0 = 0 /\ best_t1 = MaxWord
                            ELSE BestInOrder
  /\ m = "judge" /\ <<cpu_a, cpu_b>> \notin skipped =>
       BestInOrder /\ delta = Midpoint(best_t0, best_t1) - best_tm

\* The pairs whose difference has been compared with the threshold.
Judged(p) ==
  \/ Before(p[1], p[2], cpu_a, cpu_b)
  \/ p = <<cpu_a, cpu_b>> /\ m \in {"next", "stop", "join", "returned"}

VerdictInv ==
  /\ m = "create" => err = 0 /\ cpu_a = -1 /\ cpu_b = -1
  /\ err = -1 => m = "returned"
  /\ err = 0 => \A p \in Pairs \ skipped : Judged(p) => Within(p[1], p[2])
  /\ m \in {"stop", "join"} \/ (m = "returned" /\ err # -1) =>
       \A p \in Pairs : Judged(p)

IInv ==
  TypeOK /\ PairInv /\ HandInv /\ SampleInv /\ BestInv /\ VerdictInv

-----------------------------------------------------------------------------

\* Midpoint is the mean, rounded down.
LEMMA MidpointIsMean ==
  ASSUME NEW x \in Nat, NEW y \in Nat
  PROVE  /\ Midpoint(x, y) \in Nat
         /\ 2 * Midpoint(x, y) <= x + y
         /\ 2 * Midpoint(x, y) >= x + y - 1
BY DEF Midpoint

\* What a pair is made of.
LEMMA PairIsCpus ==
  ASSUME NEW a, NEW b, <<a, b>> \in Pairs
  PROVE  a \in Cpus /\ b \in Cpus /\ a \in Nat /\ b \in Nat /\ a # b
BY CpusAssumption DEF Pairs

\* The order of the loops is total.
LEMMA BeforeIsTotal ==
  ASSUME NEW p \in Pairs, NEW a \in Int, NEW b \in Int
  PROVE  /\ p = <<p[1], p[2]>>
         /\ p[1] \in Nat /\ p[2] \in Nat
         /\ \/ Before(p[1], p[2], a, b)
            \/ p = <<a, b>>
            \/ Before(a, b, p[1], p[2])
         /\ ~(Before(p[1], p[2], a, b) /\ Before(a, b, p[1], p[2]))
<1>1. p = <<p[1], p[2]>> /\ p[1] \in Nat /\ p[2] \in Nat
  <2>1. PICK c \in Cpus, d \in Cpus : p = <<c, d>>
    BY DEF Pairs
  <2> QED BY <2>1, CpusAssumption
<1>2. Before(p[1], p[2], a, b) \/ (p[1] = a /\ p[2] = b)
      \/ Before(a, b, p[1], p[2])
  BY <1>1 DEF Before
<1>3. ~(Before(p[1], p[2], a, b) /\ Before(a, b, p[1], p[2]))
  BY <1>1 DEF Before
<1> QED BY <1>1, <1>2, <1>3

\* A counter never reaches MaxWord.
LEMMA ReadingFits ==
  ASSUME TypeOK, NEW c \in Cpus
  PROVE  rdtsc(c) \in 0..(MaxWord - 1) /\ skew[c] \in Nat
BY NumbersAssumption, WordAssumption DEF TypeOK, rdtsc

LEMMA InitIInv == Init => IInv
<1> SUFFICES ASSUME Init PROVE IInv
  OBVIOUS
<1> USE CpusAssumption, NumItersAssumption, NumbersAssumption, WordAssumption DEF Init
<1>1. TypeOK
  BY DEF TypeOK, UNSET, READY, DONE, ERROR, MasterPCs, SlavePCs
<1>2. PairInv /\ HandInv /\ SampleInv /\ BestInv
  BY DEF PairInv, HandInv, SampleInv, Sampled, BestInv, Loop
<1>3. VerdictInv
  <2>1. ASSUME NEW p \in Pairs PROVE ~Judged(p)
    BY <2>1, BeforeIsTotal DEF Judged, Before, Pairs
  <2> QED BY <2>1 DEF VerdictInv
<1> QED BY <1>1, <1>2, <1>3 DEF IInv

-----------------------------------------------------------------------------

LEMMA TypeNext == IInv /\ [Next]_vars => TypeOK'
<1> SUFFICES ASSUME IInv, [Next]_vars PROVE TypeOK'
  OBVIOUS
<1> USE CpusAssumption, NumItersAssumption, NumbersAssumption, WordAssumption
        DEF IInv, hardware, pair, sample, best, slaveVars, slaveElse,
            UNSET, READY, DONE, ERROR, MasterPCs, SlavePCs
<1>1. CASE UNCHANGED vars
  BY <1>1 DEF TypeOK, vars, Pairs
<1>2. CASE Tick
  BY <1>2 DEF TypeOK, Tick, Pairs
<1>3. CASE Create \/ CreateFails \/ StopSlave \/ Join \/ MasterReady
           \/ SeeSlaveReady \/ MasterDone \/ SeeSlaveDone
  BY <1>3 DEF TypeOK, Create, CreateFails, StopSlave, Join, MasterReady,
              SeeSlaveReady, MasterDone, SeeSlaveDone, Pairs
<1>4. CASE NextPair
  BY <1>4 DEF TypeOK, NextPair, Remaining, Pairs
<1>5. CASE Judge
  BY <1>5 DEF TypeOK, Judge, Pairs
<1>6. CASE NoMorePairs \/ BindMaster
  BY <1>6 DEF TypeOK, NoMorePairs, BindMaster, Pairs
<1>7. CASE BindMasterFails
  BY <1>7 DEF TypeOK, BindMasterFails, PairInv, Pairs
<1>8. CASE SetSlaveCpu
  BY <1>8, PairIsCpus DEF TypeOK, SetSlaveCpu, PairInv, Pairs
<1>9. CASE ReadT0 \/ ReadT1
  <2>1. cpu_a \in Cpus
    BY <1>9, PairIsCpus DEF ReadT0, ReadT1, PairInv, Loop
  <2> QED BY <1>9, <2>1, ReadingFits DEF TypeOK, ReadT0, ReadT1, Pairs
<1>10. CASE Keep
  <2>1. i' \in 0..NumIters
    BY <1>10 DEF Keep, PairInv, Loop, TypeOK
  <2>2. best_t0' \in 0..(MaxWord - 1) /\ best_t1' \in 0..MaxWord
        /\ best_tm' \in 0..(MaxWord - 1)
    BY <1>10 DEF Keep, TypeOK
  <2>3. delta' \in Int
    <3>1. best_t0' \in Nat /\ best_t1' \in Nat /\ best_tm' \in Int
      BY <2>2
    <3>2. Midpoint(best_t0', best_t1') \in Nat
      BY <3>1, MidpointIsMean
    <3> QED BY <1>10, <3>1, <3>2 DEF Keep, TypeOK
  <2> QED BY <1>10, <2>1, <2>2, <2>3 DEF TypeOK, Keep, Pairs
<1>11. CASE SeeMasterReady \/ SlaveExit \/ BindSlaveFails \/ SlaveReady
            \/ SeeMasterDone \/ SlaveDone
  BY <1>11 DEF TypeOK, SeeMasterReady, SlaveExit, BindSlaveFails, SlaveReady,
               SeeMasterDone, SlaveDone, Pairs
<1>12. CASE BindSlave
  <2>1. m = "waitready"
    BY <1>12 DEF BindSlave, HandInv, TypeOK
  <2>2. slave_cpu \in Cpus
    BY <2>1, PairIsCpus DEF PairInv, Loop
  <2> QED BY <1>12, <2>2 DEF TypeOK, BindSlave, Pairs
<1>13. CASE Sample
  <2>1. m = "waitdone"
    BY <1>13 DEF Sample, HandInv, TypeOK
  <2>2. current_cpu \in Cpus
    BY <1>13, <2>1, PairIsCpus DEF Sample, HandInv, PairInv, Loop
  <2> QED BY <1>13, <2>2, ReadingFits DEF TypeOK, Sample, Pairs
<1> QED
  BY <1>1, <1>2, <1>3, <1>4, <1>5, <1>6, <1>7, <1>8, <1>9, <1>10, <1>11, <1>12,
     <1>13 DEF Next, Master, Slave
-----------------------------------------------------------------------------

LEMMA PairNext == IInv /\ [Next]_vars => PairInv'
<1> SUFFICES ASSUME IInv, [Next]_vars PROVE PairInv'
  OBVIOUS
<1> USE NumItersAssumption DEF IInv, PairInv, Loop, hardware, pair, sample, best,
        slaveVars, slaveElse, Pairs
<1>1. CASE UNCHANGED vars \/ Tick \/ Slave
  BY <1>1 DEF vars, Tick, Slave, SeeMasterReady, SlaveExit, BindSlave,
              BindSlaveFails, SlaveReady, SeeMasterDone, Sample, SlaveDone
<1>2. CASE Create \/ CreateFails \/ Judge \/ NoMorePairs \/ StopSlave \/ Join
           \/ BindMaster \/ BindMasterFails
  BY <1>2 DEF Create, CreateFails, Judge, NoMorePairs, StopSlave, Join,
              BindMaster, BindMasterFails
<1>3. CASE NextPair
  BY <1>3 DEF NextPair, Remaining
<1>4. CASE SetSlaveCpu \/ MasterReady \/ SeeSlaveReady \/ ReadT0 \/ MasterDone
           \/ SeeSlaveDone \/ ReadT1
  BY <1>4 DEF SetSlaveCpu, MasterReady, SeeSlaveReady, ReadT0, MasterDone,
              SeeSlaveDone, ReadT1
<1>5. CASE Keep
  BY <1>5 DEF Keep
<1> QED
  BY <1>1, <1>2, <1>3, <1>4, <1>5 DEF Next, Master

LEMMA HandNext == IInv /\ [Next]_vars => HandInv'
<1> SUFFICES ASSUME IInv, [Next]_vars PROVE HandInv'
  OBVIOUS
<1>0. TypeOK /\ HandInv
  BY DEF IInv
<1> USE <1>0 DEF HandInv, hardware, pair, sample, best, slaveVars, slaveElse,
        UNSET, READY, DONE, ERROR
<1>1. CASE UNCHANGED vars \/ Tick
  BY <1>1 DEF vars, Tick
<1>2. CASE Create \/ CreateFails \/ NextPair \/ Judge
  BY <1>2 DEF Create, CreateFails, NextPair, Judge
<1>3. CASE NoMorePairs \/ StopSlave \/ Join
  <2>1. m = "stop" => slave_cpu = -1
    BY DEF IInv, PairInv
  <2> QED BY <1>3, <2>1 DEF NoMorePairs, StopSlave, Join
<1>4. CASE BindMaster \/ BindMasterFails \/ SetSlaveCpu \/ MasterReady
  BY <1>4 DEF BindMaster, BindMasterFails, SetSlaveCpu, MasterReady
<1>5. CASE SeeSlaveReady \/ ReadT0 \/ MasterDone \/ SeeSlaveDone
  BY <1>5 DEF SeeSlaveReady, ReadT0, MasterDone, SeeSlaveDone
<1>6. CASE ReadT1 \/ Keep
  BY <1>6 DEF ReadT1, Keep
<1>7. CASE Slave
  <2>1. m \in MasterPCs
    BY DEF TypeOK
  <2> USE <2>1 DEF MasterPCs
  <2>2. CASE SeeMasterReady \/ SlaveExit
    <3>1. m = "waitready" => slave_cpu \in Nat
      BY PairIsCpus DEF IInv, PairInv, Loop
    <3> QED BY <2>2, <3>1 DEF SeeMasterReady, SlaveExit
  <2>3. CASE BindSlave \/ BindSlaveFails
    BY <2>3 DEF BindSlave, BindSlaveFails
  <2>4. CASE SlaveReady \/ SeeMasterDone
    BY <2>4 DEF SlaveReady, SeeMasterDone
  <2>5. CASE Sample \/ SlaveDone
    BY <2>5 DEF Sample, SlaveDone
  <2> QED BY <1>7, <2>2, <2>3, <2>4, <2>5 DEF Slave
<1> QED
  BY <1>1, <1>2, <1>3, <1>4, <1>5, <1>6, <1>7 DEF Next, Master
-----------------------------------------------------------------------------

LEMMA SampleNext == IInv /\ [Next]_vars => SampleInv'
<1> SUFFICES ASSUME IInv, [Next]_vars PROVE SampleInv'
  OBVIOUS
<1> USE DEF hardware, pair, sample, best, slaveVars, slaveElse,
        UNSET, READY, DONE, ERROR
<1>1. /\ now \in Nat /\ t0 \in Nat /\ t1 \in Nat /\ slave_tsc \in Nat
      /\ m \in Loop => /\ cpu_a \in Cpus /\ cpu_b \in Cpus
                       /\ skew[cpu_a] \in Nat /\ skew[cpu_b] \in Nat
  BY PairIsCpus, ReadingFits DEF IInv, TypeOK, PairInv
<1>2. CASE UNCHANGED vars
  BY <1>2 DEF IInv, SampleInv, Sampled, vars
<1>3. CASE Tick
  BY <1>1, <1>3 DEF IInv, SampleInv, Sampled, Tick, Loop, HandInv, TypeOK, MasterPCs
<1>4. CASE Create \/ CreateFails \/ NextPair \/ Judge \/ NoMorePairs \/ StopSlave
           \/ Join \/ BindMaster \/ BindMasterFails \/ SetSlaveCpu \/ MasterReady
           \/ SeeSlaveReady
  <2>1. s # "done"
    BY <1>4 DEF IInv, HandInv, Create, CreateFails, NextPair, Judge, NoMorePairs,
                StopSlave, Join, BindMaster, BindMasterFails, SetSlaveCpu,
                MasterReady, SeeSlaveReady
  <2> QED
    BY <1>4, <2>1 DEF SampleInv, Sampled, Create, CreateFails, NextPair, Judge,
                NoMorePairs, StopSlave, Join, BindMaster, BindMasterFails,
                SetSlaveCpu, MasterReady, SeeSlaveReady
<1>5. CASE ReadT0
  BY <1>1, <1>5 DEF ReadT0, IInv, SampleInv, Sampled, HandInv, Loop, rdtsc
<1>6. CASE MasterDone
  BY <1>6 DEF MasterDone, IInv, SampleInv, Sampled, HandInv
<1>7. CASE SeeSlaveDone
  BY <1>7 DEF SeeSlaveDone, IInv, SampleInv, Sampled, HandInv
<1>8. CASE ReadT1
  BY <1>1, <1>8 DEF ReadT1, IInv, SampleInv, Sampled, HandInv, Loop, rdtsc
<1>9. CASE Keep
  BY <1>9 DEF Keep, IInv, SampleInv, Sampled, HandInv
<1>10. CASE SeeMasterReady \/ SlaveExit \/ BindSlave \/ BindSlaveFails
            \/ SlaveReady \/ SeeMasterDone
  BY <1>10 DEF SeeMasterReady, SlaveExit, BindSlave, BindSlaveFails, SlaveReady,
               SeeMasterDone, IInv, SampleInv, Sampled, HandInv
<1>11. CASE Sample
  <2>1. m = "waitdone" /\ current_cpu = cpu_b
    BY <1>11 DEF Sample, IInv, HandInv, PairInv, Loop, TypeOK, MasterPCs
  <2> QED
    BY <1>1, <1>11, <2>1 DEF Sample, IInv, SampleInv, Sampled, Loop, rdtsc
<1>12. CASE SlaveDone
  BY <1>12 DEF SlaveDone, IInv, SampleInv, Sampled, HandInv
<1> QED
  BY <1>2, <1>3, <1>4, <1>5, <1>6, <1>7, <1>8, <1>9, <1>10, <1>11, <1>12
     DEF Next, Master, Slave

LEMMA BestNext == IInv /\ [Next]_vars => BestInv'
<1> SUFFICES ASSUME IInv, [Next]_vars PROVE BestInv'
  OBVIOUS
<1> USE DEF hardware, pair, sample, best, slaveVars, slaveElse
<1>1. /\ now \in Nat /\ best_t0 \in Nat /\ best_t1 \in Nat /\ best_tm \in Nat
      /\ m \in Loop \cup {"judge"} =>
           /\ cpu_a \in Cpus /\ cpu_b \in Cpus
           /\ skew[cpu_a] \in Nat /\ skew[cpu_b] \in Nat
  BY PairIsCpus, ReadingFits, WordAssumption DEF IInv, TypeOK, PairInv
<1>2. CASE UNCHANGED vars
  BY <1>2 DEF IInv, BestInv, BestInOrder, vars
<1>3. CASE Tick
  BY <1>1, <1>3 DEF IInv, BestInv, BestInOrder, Tick
<1>4. CASE Slave
  BY <1>4 DEF IInv, BestInv, BestInOrder, Slave, SeeMasterReady, SlaveExit,
      BindSlave, BindSlaveFails, SlaveReady, SeeMasterDone, Sample, SlaveDone
<1>5. CASE Create \/ CreateFails \/ NextPair \/ Judge \/ NoMorePairs \/ StopSlave
           \/ Join \/ BindMaster
  BY <1>5 DEF BestInv, Loop, Create, CreateFails, NextPair, Judge, NoMorePairs,
              StopSlave, Join, BindMaster
<1>6. CASE BindMasterFails
  BY <1>6 DEF BestInv, Loop, BindMasterFails
<1>7. CASE SetSlaveCpu \/ MasterReady \/ SeeSlaveReady \/ ReadT0 \/ MasterDone
           \/ SeeSlaveDone \/ ReadT1
  BY <1>7 DEF IInv, BestInv, BestInOrder, Loop, SetSlaveCpu, MasterReady,
              SeeSlaveReady, ReadT0, MasterDone, SeeSlaveDone, ReadT1
<1>8. CASE Keep
  <2>1. BestInOrder'
    <3>1. CASE t1 - t0 < best_t1 - best_t0
      BY <1>1, <1>8, <3>1 DEF Keep, IInv, SampleInv, Sampled, BestInOrder, Loop
    <3>2. CASE ~(t1 - t0 < best_t1 - best_t0)
      <4>1. i # 0
        BY <1>8, <3>2, WordAssumption DEF Keep, IInv, TypeOK, BestInv, Loop
      <4> QED BY <1>8, <3>2, <4>1 DEF Keep, IInv, BestInv, BestInOrder, Loop
    <3> QED BY <3>1, <3>2
  <2>2. i' # 0
    BY <1>8 DEF Keep, IInv, TypeOK
  <2> QED BY <1>8, <2>1, <2>2 DEF Keep, BestInv
<1> QED
  BY <1>2, <1>3, <1>4, <1>5, <1>6, <1>7, <1>8 DEF Next, Master
-----------------------------------------------------------------------------

\* The kept readings bound the error of the difference.
LEMMA BestIsAccurate == IInv => DeltaAccurate
<1> SUFFICES ASSUME IInv, m = "judge", <<cpu_a, cpu_b>> \notin skipped
             PROVE  DeltaAccurate
  BY DEF DeltaAccurate
<1>1. /\ now \in Nat /\ best_t0 \in Nat /\ best_t1 \in Nat /\ best_tm \in Nat
      /\ skew[cpu_a] \in Nat /\ skew[cpu_b] \in Nat
  BY PairIsCpus, ReadingFits, WordAssumption DEF IInv, TypeOK, PairInv
<1>2. BestInOrder /\ delta = Midpoint(best_t0, best_t1) - best_tm
  BY DEF IInv, BestInv
<1>3. /\ Midpoint(best_t0, best_t1) \in Nat
      /\ 2 * Midpoint(best_t0, best_t1) <= best_t0 + best_t1
      /\ 2 * Midpoint(best_t0, best_t1) >= best_t0 + best_t1 - 1
  BY <1>1, MidpointIsMean
<1>4. best_t1 - best_t0 \in 0..now
  BY <1>1, <1>2 DEF BestInOrder
<1>5. /\ 2 * delta - 2 * (skew[cpu_a] - skew[cpu_b]) <= best_t1 - best_t0
      /\ -(2 * delta - 2 * (skew[cpu_a] - skew[cpu_b])) <= best_t1 - best_t0 + 1
  BY <1>1, <1>2, <1>3 DEF BestInOrder
<1> QED BY <1>4, <1>5 DEF DeltaAccurate

\* A pair that passes the comparison has counters close to each other.
LEMMA PassedIsWithin ==
  ASSUME IInv, m = "judge", <<cpu_a, cpu_b>> \notin skipped, ~Beyond(delta)
  PROVE  Within(cpu_a, cpu_b)
<1>1. /\ now \in Nat /\ best_t0 \in Nat /\ best_t1 \in Nat /\ delta \in Int
      /\ skew[cpu_a] \in Nat /\ skew[cpu_b] \in Nat /\ Threshold \in Nat
  BY PairIsCpus, ReadingFits, WordAssumption, NumbersAssumption
     DEF IInv, TypeOK, PairInv
<1>2. DeltaAccurate
  BY BestIsAccurate
<1> QED BY <1>1, <1>2 DEF DeltaAccurate, Beyond, Within, Abs

LEMMA VerdictNext == IInv /\ [Next]_vars => VerdictInv'
<1> SUFFICES ASSUME IInv, [Next]_vars PROVE VerdictInv'
  OBVIOUS
<1> USE DEF hardware, pair, sample, best, slaveVars, slaveElse
<1>1. /\ cpu_a \in Int /\ cpu_b \in Int /\ err \in Int /\ now \in Nat
      /\ Threshold \in Nat /\ \A c \in Cpus : skew[c] \in Nat
      /\ \A p \in Pairs : p[1] \in Cpus /\ p[2] \in Cpus
      /\ m \in MasterPCs
  BY CpusAssumption, NumbersAssumption DEF IInv, TypeOK, Pairs
<1>2. VerdictInv
  BY DEF IInv
<1>3. Pairs' = Pairs
  BY DEF Pairs
<1>4. CASE UNCHANGED vars \/ Slave
  BY <1>2, <1>3, <1>4 DEF VerdictInv, Judged, Within, vars, Slave,
      SeeMasterReady, SlaveExit, BindSlave, BindSlaveFails, SlaveReady,
      SeeMasterDone, Sample, SlaveDone
<1>5. CASE Tick
  <2>1. ASSUME NEW p \in Pairs, Within(p[1], p[2]) PROVE Within(p[1], p[2])'
    BY <1>1, <1>5, <2>1 DEF Tick, Within, Abs
  <2> QED BY <1>2, <1>3, <1>5, <2>1 DEF VerdictInv, Judged, Tick
<1>6. CASE Create
  <2>1. ASSUME NEW p \in Pairs PROVE ~Judged(p)'
    BY <1>2, <1>6, <2>1, BeforeIsTotal DEF Create, VerdictInv, Judged, Before
  <2> QED BY <1>2, <1>3, <1>6, <2>1 DEF VerdictInv, Create
<1>7. CASE CreateFails
  BY <1>2, <1>7 DEF VerdictInv, CreateFails
<1>8. CASE NextPair
  <2>1. ASSUME NEW q \in Pairs, Judged(q)' PROVE Judged(q)
    <3>1. PICK p \in Remaining :
            /\ \A r \in Remaining : r = p \/ Before(p[1], p[2], r[1], r[2])
            /\ cpu_a' = p[1] /\ cpu_b' = p[2]
      BY <1>8 DEF NextPair
    <3>2. Before(q[1], q[2], p[1], p[2])
      BY <1>8, <2>1, <3>1 DEF NextPair, Judged
    <3>3. p[1] \in Int /\ p[2] \in Int
      BY <3>1, BeforeIsTotal DEF Remaining
    <3>4. q \notin Remaining
      BY <3>1, <3>2, <3>3, BeforeIsTotal DEF Before
    <3> QED BY <1>1, <1>8, <3>4, BeforeIsTotal DEF Remaining, NextPair, Judged
  <2> QED BY <1>2, <1>3, <1>8, <2>1 DEF VerdictInv, NextPair, Within
<1>9. CASE Judge
  <2>1. err # -1
    BY <1>2, <1>9 DEF VerdictInv, Judge
  <2>2. ASSUME err' = 0, NEW p \in Pairs \ skipped, Judged(p)'
        PROVE  Within(p[1], p[2])
    <3>1. err = 0 /\ ~Beyond(delta)
      <4>1. CASE Beyond(delta)
        BY <1>1, <1>9, <2>1, <2>2, <4>1 DEF Judge
      <4>2. CASE ~Beyond(delta)
        BY <1>9, <2>2, <4>2 DEF Judge
      <4> QED BY <4>1, <4>2
    <3>2. CASE p = <<cpu_a, cpu_b>>
      BY <1>9, <2>2, <3>1, <3>2, PassedIsWithin DEF Judge
    <3>3. CASE p # <<cpu_a, cpu_b>>
      BY <1>2, <1>9, <2>2, <3>1, <3>3 DEF Judge, Judged, VerdictInv
    <3> QED BY <3>2, <3>3
  <2>3. err' # -1 /\ err' \in Int
    BY <1>1, <1>2, <1>9, <2>1 DEF Judge, IInv, TypeOK
  <2> QED BY <1>3, <1>9, <2>2, <2>3 DEF VerdictInv, Judge, Within
<1>10. CASE NoMorePairs
  <2>1. ASSUME NEW p \in Pairs PROVE Judged(p)'
    BY <1>1, <1>10, <2>1, BeforeIsTotal DEF NoMorePairs, Remaining, Judged
  <2> QED BY <1>2, <1>3, <1>10, <2>1 DEF VerdictInv, NoMorePairs, Judged, Within
<1>11. CASE StopSlave \/ Join
  BY <1>2, <1>3, <1>11 DEF VerdictInv, StopSlave, Join, Judged, Within
<1>12. CASE BindMasterFails
  BY <1>2, <1>3, <1>12 DEF VerdictInv, BindMasterFails, Judged, Within
<1>13. CASE BindMaster \/ SetSlaveCpu \/ MasterReady \/ SeeSlaveReady \/ ReadT0
            \/ MasterDone \/ SeeSlaveDone \/ ReadT1
  BY <1>2, <1>3, <1>13 DEF VerdictInv, BindMaster, SetSlaveCpu, MasterReady,
     SeeSlaveReady, ReadT0, MasterDone, SeeSlaveDone, ReadT1, Judged, Within
<1>14. CASE Keep
  BY <1>2, <1>3, <1>14 DEF VerdictInv, Keep, Judged, Within
<1> QED
  BY <1>4, <1>5, <1>6, <1>7, <1>8, <1>9, <1>10, <1>11, <1>12, <1>13, <1>14
     DEF Next, Master

LEMMA Invariance == Spec => []IInv
<1>1. IInv /\ [Next]_vars => IInv'
  BY TypeNext, PairNext, HandNext, SampleNext, BestNext, VerdictNext DEF IInv
<1> QED BY InitIInv, <1>1, PTL DEF Spec

-----------------------------------------------------------------------------

\* Every variable of the test keeps to its type; in particular the slave is
\* only ever sent to a CPU of the set and no counter reading is lost.
THEOREM TypeCorrect == Spec => []TypeOK
<1>1. IInv => TypeOK
  BY DEF IInv
<1> QED BY <1>1, Invariance, PTL

\* What tsc_delta returns is the offset of the two counters to within half
\* the round trip of the iteration it kept.
THEOREM DeltaCorrect == Spec => []DeltaAccurate
BY BestIsAccurate, Invariance, PTL

\* PASS means that every pair that was measured is within the threshold and
\* the error of its measurement, for any number of CPUs.
THEOREM PassCorrect == Spec => []PassHonest
<1>1. IInv => PassHonest
  BY DEF IInv, VerdictInv, PassHonest
<1> QED BY <1>1, Invariance, PTL
=============================================================================
