------------------------------ MODULE CheckTsc ------------------------------
(***************************************************************************)
(* tsc/src/checktsc.c: the distance of the time stamp counters of every    *)
(* ordered pair of CPUs, measured by a master and a slave thread that      *)
(* synchronise by busy-waiting on each other's state word.                 *)
(*                                                                         *)
(* The hardware is a true time `now' and a per-CPU offset `skew': rdtsc    *)
(* on CPU c returns now + skew[c].  Stores become visible in program order *)
(* and rdtsc is not executed ahead of the load that ends a busy-wait: what *)
(* the x86 and s390x builds give in practice, powerpc64 does not promise.  *)
(***************************************************************************)
EXTENDS Integers

CONSTANTS
  Cpus,       \* the CPUs sched_getaffinity reports
  MaxCpus,    \* MAX_CPUS: check_tsc looks at CPUs below it only
  Threshold,  \* -t
  NumIters,   \* NUM_ITERS
  MaxWord,    \* ~0ULL: no reading of a counter reaches it
  MaxSkew, MaxTime, \* bounds on the offsets and on `now'
  MaxFaults   \* bound on the calls of sched_setaffinity that fail

ASSUME CpusAssumption == Cpus \subseteq Nat
ASSUME NumItersAssumption == NumIters \in Nat \ {0}
ASSUME NumbersAssumption ==
  /\ MaxCpus \in Nat /\ Threshold \in Nat
  /\ MaxSkew \in Nat /\ MaxTime \in Nat /\ MaxFaults \in Nat
ASSUME WordAssumption == MaxWord \in Nat /\ MaxTime + MaxSkew < MaxWord

VARIABLES
  now, skew, faults,
  master, slave,          \* the two state words
  slave_cpu, slave_tsc,   \* the shared data they protect
  m, cpu_a, cpu_b, i,     \* the master: check_tsc and tsc_delta
  t0, t1, best_t0, best_t1, best_tm, delta, err,
  s, current_cpu,         \* the slave: slave_thread
  skipped                 \* history: pairs for which tsc_delta gave up

hardware == <<now, skew, faults>>
pair     == <<cpu_a, cpu_b>>
sample   == <<t0, t1>>
best     == <<best_t0, best_t1, best_tm>>
slaveVars == <<slave, slave_tsc, s, current_cpu>>
vars == <<hardware, pair, sample, best, slaveVars, master, slave_cpu, m, i,
          delta, err, skipped>>

UNSET == 0
READY == 1
DONE  == 2
ERROR == 3

MasterPCs == {"create", "next", "bind", "cpu", "ready", "waitready", "t0",
              "done", "waitdone", "t1", "keep", "judge", "stop", "join",
              "returned"}
SlavePCs == {"none", "waitready", "check", "ready", "waitdone", "sample",
             "done", "exit"}

Init ==
  /\ now = 0 /\ skew \in [Cpus -> 0..MaxSkew] /\ faults = 0
  /\ master = UNSET /\ slave = UNSET
  /\ slave_cpu = 0 /\ slave_tsc = 0
  /\ m = "create" /\ cpu_a = -1 /\ cpu_b = -1 /\ i = 0
  /\ t0 = 0 /\ t1 = 0 /\ best_t0 = 0 /\ best_t1 = MaxWord /\ best_tm = 0
  /\ delta = 0 /\ err = 0
  /\ s = "none" /\ current_cpu = -1
  /\ skipped = {}

\* Time passes.
Tick ==
  /\ now < MaxTime
  /\ now' = now + 1
  /\ UNCHANGED <<skew, faults, pair, sample, best, slaveVars, master,
                 slave_cpu, m, i, delta, err, skipped>>

rdtsc(c) == now + skew[c]

-----------------------------------------------------------------------------
(* check_tsc *)

Create ==
  /\ m = "create"
  /\ m' = "next" /\ s' = "waitready"
  /\ UNCHANGED <<hardware, pair, sample, best, slave, slave_tsc, current_cpu,
                 master, slave_cpu, i, delta, err, skipped>>

\* pthread_create fails: check_tsc returns -1.
CreateFails ==
  /\ m = "create"
  /\ m' = "returned" /\ err' = -1
  /\ UNCHANGED <<hardware, pair, sample, best, slaveVars, master, slave_cpu,
                 i, delta, skipped>>

\* The order of the two nested loops over the CPUs.
Before(a, b, c, d) == a < c \/ (a = c /\ b < d)

Pairs == {p \in Cpus \X Cpus :
            p[1] < MaxCpus /\ p[2] < MaxCpus /\ p[1] # p[2]}

\* Mutant: the inner loop stops after the first CPU it finds.
Remaining_oneEach == {p \in Pairs : cpu_a < p[1]}

Remaining == {p \in Pairs : Before(cpu_a, cpu_b, p[1], p[2])}

NextPair ==
  /\ m = "next"
  /\ \E p \in Remaining :
       /\ \A q \in Remaining : q = p \/ Before(p[1], p[2], q[1], q[2])
       /\ cpu_a' = p[1] /\ cpu_b' = p[2]
  /\ m' = "bind"
  /\ UNCHANGED <<hardware, sample, best, slaveVars, master, slave_cpu,
                 i, delta, err, skipped>>

Abs(x) == IF x < 0 THEN -x ELSE x

Beyond(d) == Abs(d) > Threshold

Judge ==
  /\ m = "judge"
  /\ m' = "next"
  /\ err' = IF Beyond(delta) THEN err + 1 ELSE err
  /\ UNCHANGED <<hardware, pair, sample, best, slaveVars, master, slave_cpu,
                 i, delta, skipped>>

\* All pairs done: tell the slave to exit.
NoMorePairs ==
  /\ m = "next" /\ Remaining = {}
  /\ m' = "stop" /\ slave_cpu' = -1
  /\ UNCHANGED <<hardware, pair, sample, best, slaveVars, master,
                 i, delta, err, skipped>>

StopSlave ==
  /\ m = "stop"
  /\ m' = "join" /\ master' = READY
  /\ UNCHANGED <<hardware, pair, sample, best, slaveVars, slave_cpu,
                 i, delta, err, skipped>>

Join ==
  /\ m = "join" /\ s = "exit"
  /\ m' = "returned"
  /\ UNCHANGED <<hardware, pair, sample, best, slaveVars, master, slave_cpu,
                 i, delta, err, skipped>>

-----------------------------------------------------------------------------
(* tsc_delta *)

BindMaster ==
  /\ m = "bind"
  /\ m' = "cpu"
  /\ best_t0' = 0 /\ best_t1' = MaxWord /\ best_tm' = 0
  /\ UNCHANGED <<hardware, pair, sample, slaveVars, master, slave_cpu,
                 i, delta, err, skipped>>

\* sched_setaffinity fails: -1 is returned like any other difference.
BindMasterFails ==
  /\ m = "bind" /\ faults < MaxFaults
  /\ faults' = faults + 1
  /\ m' = "judge" /\ delta' = -1
  /\ skipped' = skipped \cup {<<cpu_a, cpu_b>>}
  /\ UNCHANGED <<now, skew, pair, sample, best, slaveVars, master, slave_cpu,
                 i, err>>

SetSlaveCpu ==
  /\ m = "cpu"
  /\ m' = "ready" /\ slave_cpu' = cpu_b /\ i' = 0
  /\ UNCHANGED <<hardware, pair, sample, best, slaveVars, master,
                 delta, err, skipped>>

MasterReady ==
  /\ m = "ready"
  /\ m' = "waitready" /\ master' = READY
  /\ UNCHANGED <<hardware, pair, sample, best, slaveVars, slave_cpu,
                 i, delta, err, skipped>>

SeeSlaveReady ==
  /\ m = "waitready" /\ slave = READY
  /\ m' = "t0"
  /\ UNCHANGED <<hardware, pair, sample, best, slaveVars, master, slave_cpu,
                 i, delta, err, skipped>>

ReadT0 ==
  /\ m = "t0"
  /\ m' = "done" /\ t0' = rdtsc(cpu_a)
  /\ UNCHANGED <<hardware, pair, t1, best, slaveVars, master, slave_cpu,
                 i, delta, err, skipped>>

MasterDone ==
  /\ m = "done"
  /\ m' = "waitdone" /\ master' = DONE
  /\ UNCHANGED <<hardware, pair, sample, best, slaveVars, slave_cpu,
                 i, delta, err, skipped>>

SeeSlaveDone ==
  /\ m = "waitdone" /\ slave = DONE
  /\ m' = "t1"
  /\ UNCHANGED <<hardware, pair, sample, best, slaveVars, master, slave_cpu,
                 i, delta, err, skipped>>

ReadT1 ==
  /\ m = "t1"
  /\ m' = "keep" /\ t1' = rdtsc(cpu_a)
  /\ UNCHANGED <<hardware, pair, t0, best, slaveVars, master, slave_cpu,
                 i, delta, err, skipped>>

\* The midpoint of two readings, computed without overflow.
Midpoint(x, y) ==
  x \div 2 + y \div 2 + (IF x % 2 = 1 /\ y % 2 = 1 THEN 1 ELSE 0)

\* Keep the iteration with the shortest round trip; after the last one,
\* compute the difference.
Keep ==
  /\ m = "keep"
  /\ IF t1 - t0 < best_t1 - best_t0
     THEN best_t0' = t0 /\ best_t1' = t1 /\ best_tm' = slave_tsc
     ELSE UNCHANGED best
  /\ i' = i + 1
  /\ IF i + 1 < NumIters
     THEN m' = "ready" /\ delta' = delta
     ELSE m' = "judge" /\ delta' = Midpoint(best_t0', best_t1') - best_tm'
  /\ UNCHANGED <<hardware, pair, sample, slaveVars, master, slave_cpu,
                 err, skipped>>

-----------------------------------------------------------------------------
(* slave_thread *)

slaveElse == <<now, skew, pair, sample, best, master, slave_cpu, m, i, delta,
               err, skipped>>

SeeMasterReady ==
  /\ s = "waitready" /\ master = READY
  /\ s' = "check"
  /\ UNCHANGED <<slaveElse, faults, slave, slave_tsc, current_cpu>>

SlaveExit ==
  /\ s = "check" /\ slave_cpu < 0
  /\ s' = "exit"
  /\ UNCHANGED <<slaveElse, faults, slave, slave_tsc, current_cpu>>

\* Mutant: the slave stays on the CPU of its first pair.
BindSlave_once ==
  /\ s = "check" /\ slave_cpu >= 0
  /\ s' = "ready"
  /\ current_cpu' = IF current_cpu = -1 THEN slave_cpu ELSE current_cpu
  /\ UNCHANGED <<slaveElse, faults, slave, slave_tsc>>

BindSlave ==
  /\ s = "check" /\ slave_cpu >= 0
  /\ s' = "ready" /\ current_cpu' = slave_cpu
  /\ UNCHANGED <<slaveElse, faults, slave, slave_tsc>>

BindSlaveFails ==
  /\ s = "check" /\ slave_cpu >= 0 /\ slave_cpu # current_cpu
  /\ faults < MaxFaults
  /\ faults' = faults + 1
  /\ s' = "exit" /\ slave' = ERROR
  /\ UNCHANGED <<slaveElse, slave_tsc, current_cpu>>

SlaveReady ==
  /\ s = "ready"
  /\ s' = "waitdone" /\ slave' = READY
  /\ UNCHANGED <<slaveElse, faults, slave_tsc, current_cpu>>

SeeMasterDone ==
  /\ s = "waitdone" /\ master = DONE
  /\ s' = "sample"
  /\ UNCHANGED <<slaveElse, faults, slave, slave_tsc, current_cpu>>

Sample ==
  /\ s = "sample"
  /\ s' = "done" /\ slave_tsc' = rdtsc(current_cpu)
  /\ UNCHANGED <<slaveElse, faults, slave, current_cpu>>

\* Mutant: the slave leaves its own state word at READY.
SlaveDone_noSet ==
  /\ s = "done"
  /\ s' = "waitready"
  /\ UNCHANGED <<slaveElse, faults, slave, slave_tsc, current_cpu>>

SlaveDone ==
  /\ s = "done"
  /\ s' = "waitready" /\ slave' = DONE
  /\ UNCHANGED <<slaveElse, faults, slave_tsc, current_cpu>>

-----------------------------------------------------------------------------

Master ==
  \/ Create \/ CreateFails \/ NextPair \/ Judge \/ NoMorePairs \/ StopSlave
  \/ Join \/ BindMaster \/ BindMasterFails \/ SetSlaveCpu \/ MasterReady
  \/ SeeSlaveReady \/ ReadT0 \/ MasterDone \/ SeeSlaveDone \/ ReadT1 \/ Keep

Slave ==
  \/ SeeMasterReady \/ SlaveExit \/ BindSlave \/ BindSlaveFails \/ SlaveReady
  \/ SeeMasterDone \/ Sample \/ SlaveDone

Next == Tick \/ Master \/ Slave

Spec == Init /\ [][Next]_vars

\* Both threads keep running: each is alone on its CPU, or the scheduler
\* time-slices them.
FairSpec == Spec /\ WF_vars(Master) /\ WF_vars(Slave)

-----------------------------------------------------------------------------

TypeOK ==
  /\ now \in 0..MaxTime /\ skew \in [Cpus -> 0..MaxSkew]
  /\ faults \in 0..MaxFaults
  /\ master \in {UNSET, READY, DONE} /\ slave \in UNSET..ERROR
  /\ slave_cpu \in Cpus \cup {-1, 0} /\ slave_tsc \in 0..(MaxWord - 1)
  /\ m \in MasterPCs /\ s \in SlavePCs
  /\ cpu_a \in Cpus \cup {-1} /\ cpu_b \in Cpus \cup {-1}
  /\ i \in 0..NumIters
  /\ t0 \in 0..(MaxWord - 1) /\ t1 \in 0..(MaxWord - 1)
  /\ best_t0 \in 0..(MaxWord - 1) /\ best_t1 \in 0..MaxWord
  /\ best_tm \in 0..(MaxWord - 1)
  /\ delta \in Int /\ err \in Nat \cup {-1}
  /\ current_cpu \in Cpus \cup {-1}
  /\ skipped \subseteq Pairs

\* The difference tsc_delta computes is the true offset of the two counters
\* to within half the round trip it was measured in: the slave's sample was
\* taken on cpu_b, inside the window of the master's two readings on cpu_a
\* that is kept with it.
DeltaAccurate ==
  m = "judge" /\ <<cpu_a, cpu_b>> \notin skipped =>
    LET error == 2 * delta - 2 * (skew[cpu_a] - skew[cpu_b])
        roundtrip == best_t1 - best_t0
    IN  /\ roundtrip \in 0..now
        /\ error <= roundtrip /\ -error <= roundtrip + 1

\* The counters of two CPUs are no further apart than the threshold and the
\* time a measurement can have taken allow.
Within(a, b) == 2 * Abs(skew[a] - skew[b]) <= 2 * Threshold + now + 1

\* PASS is earned: every pair of tested CPUs whose measurement was not given
\* up has counters within the threshold and the error of the measurement.
PassHonest ==
  m = "returned" /\ err = 0 =>
    \A p \in Pairs \ skipped : Within(p[1], p[2])

\* The two busy-waits never wait for each other: unless the slave could not
\* be bound to its CPU, check_tsc comes to its end.
ReturnsUnlessSlaveError == <>(m = "returned" \/ slave = ERROR)

=============================================================================
