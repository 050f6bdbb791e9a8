--------------------------- MODULE MonotonicTime ---------------------------
(***************************************************************************)
(* The warp test of monotonic_time/src: one thread per CPU compares the    *)
(* clock it reads with the value the previous reader, on whatever CPU,     *)
(* stored in test->last (time_test.c, DEFINE_TEST), until run_test sets    *)
(* test->done and joins the threads it managed to create (threads.c).      *)
(*                                                                         *)
(* Thread i is the i-th thread create_per_cpu_threads creates and is bound *)
(* to CPU i.  The hardware is a true time `now' and a per-CPU offset       *)
(* `skew': CPU c reads now + skew[c].  A CPU set whose offsets differ is   *)
(* one on which time goes backwards from a reader to the next.             *)
(***************************************************************************)
EXTENDS Integers, FiniteSets

CONSTANTS
  NCpus,      \* count_cpus(cpus): the CPUs of the affinity mask
  Threshold,  \* -t: warps up to this size are tolerated
  MaxSkew,    \* offsets of the CPUs' clocks range over 0..MaxSkew
  MaxTime,    \* bound on `now'
  MaxLoops    \* bound on test->loops plus the iterations under way

ASSUME CpuAssumption == NCpus \in Nat \ {0}
ASSUME ThresholdAssumption == Threshold \in Nat
ASSUME BoundAssumption == MaxSkew \in Nat /\ MaxTime \in Nat /\ MaxLoops \in Nat

VARIABLES
  now,         \* true time
  skew,        \* skew[c]: offset of the clock of CPU c
  unbound,     \* threads whose sched_setaffinity failed in run_thread
  pc,          \* pc[i]: where thread i is
  t0, t1,      \* locals of DEFINE_TEST
  lock,        \* test->lock: its holder, 0 when free
  last, loops, warps, worst, done,  \* the other fields of test_info
  num_threads, \* threads.c: num_threads
  main,        \* where run_test is
  errs         \* run_test's return value, -1 before it returns

clock  == <<now, skew, unbound>>
locals == <<pc, t0, t1>>
test   == <<lock, last, loops, warps, worst, done>>
runner == <<num_threads, main, errs>>
vars   == <<clock, locals, test, runner>>

Cpus == 1..NCpus

\* The steps of a thread: not created, run_thread before the loop, the loop
\* test, the four steps of the first critical section, the comparison, the
\* second critical section, returned.
ThreadPCs == {"none", "start", "loop", "lock", "read", "fetch", "store",
              "count", "delta", "lockw", "warp", "exit"}

\* Threads that hold test->lock.
Holding == {"read", "fetch", "store", "count", "warp"}

\* Threads that have begun an iteration that is not yet counted in loops.
Begun == {"lock", "read", "fetch", "store", "count"}

Init ==
  /\ now = 0
  /\ skew \in [Cpus -> 0..MaxSkew]
  /\ unbound = {}
  /\ pc = [i \in Cpus |-> "none"]
  /\ t0 = [i \in Cpus |-> 0]
  /\ t1 = [i \in Cpus |-> 0]
  /\ lock = 0 /\ last = 0 /\ loops = 0 /\ warps = 0 /\ worst = 0
  /\ done = 0
  /\ num_threads = 0 /\ main = "create" /\ errs = -1

-----------------------------------------------------------------------------
(* The clocks. *)

Tick ==
  /\ now < MaxTime
  /\ now' = now + 1
  /\ UNCHANGED <<skew, unbound, locals, test, runner>>

\* What rd##_name() can return to thread i: the clock of its CPU, or of any
\* CPU when the thread could not be bound to one.
Readings(i) ==
  {now + skew[c] : c \in IF i \in unbound THEN Cpus ELSE {i}}

-----------------------------------------------------------------------------
(* run_test: create, wait, stop, join, report. *)

\* create_per_cpu_threads: one more thread.
CreateThread ==
  /\ main = "create" /\ num_threads < NCpus
  /\ num_threads' = num_threads + 1
  /\ pc' = [pc EXCEPT ![num_threads + 1] = "start"]
  /\ UNCHANGED <<clock, t0, t1, test, main, errs>>

\* Mutant: the threads already running are joined without being told to stop.
CreateFails_notDone ==
  /\ main = "create" /\ num_threads < NCpus
  /\ IF num_threads > 0
     THEN main' = "abandon" /\ errs' = errs
     ELSE main' = "returned" /\ errs' = 1
  /\ UNCHANGED <<clock, locals, test, num_threads>>

\* pthread_create fails: fewer threads than CPUs, the test is given up;
\* threads already running are stopped and joined.
CreateFails ==
  /\ main = "create" /\ num_threads < NCpus
  /\ IF num_threads > 0
     THEN done' = 1 /\ main' = "abandon" /\ errs' = errs
     ELSE done' = done /\ main' = "returned" /\ errs' = 1
  /\ UNCHANGED <<clock, locals, lock, last, loops, warps, worst, num_threads>>

Created ==
  /\ main = "create" /\ num_threads = NCpus
  /\ main' = "wait"
  /\ UNCHANGED <<clock, locals, test, num_threads, errs>>

\* SIGINT arrives or the duration is over.
StopTest ==
  /\ main = "wait"
  /\ main' = "join"
  /\ done' = 1
  /\ UNCHANGED <<clock, locals, lock, last, loops, warps, worst, num_threads, errs>>

\* join_threads: pthread_join(threads[--num_threads].thread).
JoinThread ==
  /\ main \in {"join", "abandon"} /\ num_threads > 0
  /\ pc[num_threads] = "exit"
  /\ num_threads' = num_threads - 1
  /\ UNCHANGED <<clock, locals, test, main, errs>>

Report ==
  /\ main \in {"join", "abandon"} /\ num_threads = 0
  /\ main' = "returned"
  /\ errs' = IF main = "abandon" \/ warps # 0 THEN 1 ELSE 0
  /\ UNCHANGED <<clock, locals, test, num_threads>>

-----------------------------------------------------------------------------
(* A thread: run_thread, test_loop and the body of DEFINE_TEST. *)

Goto(i, from, to) ==
  /\ pc[i] = from
  /\ pc' = [pc EXCEPT ![i] = to]

\* sched_setaffinity may fail: the thread warns and runs unbound.
RunThread(i) ==
  /\ Goto(i, "start", "loop")
  /\ unbound' = unbound \/ unbound' = unbound \cup {i}
  /\ UNCHANGED <<now, skew, t0, t1, test, runner>>

LoopTest(i) ==
  /\ \/ done = 1 /\ Goto(i, "loop", "exit")
     \/ /\ done = 0
        /\ loops + Cardinality({j \in Cpus : pc[j] \in Begun}) < MaxLoops
        /\ Goto(i, "loop", "lock")
  /\ UNCHANGED <<clock, t0, t1, test, runner>>

\* Mutant: spin_lock does not wait for the holder.
SpinLock_noWait(i, from, to) ==
  /\ Goto(i, from, to)
  /\ lock' = i
  /\ UNCHANGED <<clock, t0, t1, last, loops, warps, worst, done, runner>>

SpinLock(i, from, to) ==
  /\ Goto(i, from, to)
  /\ lock = 0
  /\ lock' = i
  /\ UNCHANGED <<clock, t0, t1, last, loops, warps, worst, done, runner>>

LockFirst(i) == SpinLock(i, "lock", "read")

ReadClock(i) ==
  /\ Goto(i, "read", "fetch")
  /\ \E v \in Readings(i) : t1' = [t1 EXCEPT ![i] = v]
  /\ UNCHANGED <<clock, t0, test, runner>>

FetchLast(i) ==
  /\ Goto(i, "fetch", "store")
  /\ t0' = [t0 EXCEPT ![i] = last]
  /\ UNCHANGED <<clock, t1, test, runner>>

StoreLast(i) ==
  /\ Goto(i, "store", "count")
  /\ \E v \in Readings(i) : last' = v
  /\ UNCHANGED <<clock, t0, t1, lock, loops, warps, worst, done, runner>>

\* Mutant: the iteration is not counted.
CountUnlock_noCount(i) ==
  /\ Goto(i, "count", "delta")
  /\ lock' = 0
  /\ UNCHANGED <<clock, t0, t1, last, loops, warps, worst, done, runner>>

CountUnlock(i) ==
  /\ Goto(i, "count", "delta")
  /\ loops' = loops + 1
  /\ lock' = 0
  /\ UNCHANGED <<clock, t0, t1, last, warps, worst, done, runner>>

Delta(i) == t1[i] - t0[i]

\* Mutant: the threshold is not applied.
IsWarp_noThreshold(i) == Delta(i) < 0

IsWarp(i) == Delta(i) < 0 /\ Delta(i) < -Threshold

\* The call returns: its locals are gone.
DropLocals(i) ==
  /\ t0' = [t0 EXCEPT ![i] = 0]
  /\ t1' = [t1 EXCEPT ![i] = 0]

Compare(i) ==
  /\ \/ IsWarp(i) /\ Goto(i, "delta", "lockw") /\ UNCHANGED <<t0, t1>>
     \/ ~IsWarp(i) /\ Goto(i, "delta", "loop") /\ DropLocals(i)
  /\ UNCHANGED <<clock, test, runner>>

LockWarp(i) == SpinLock(i, "lockw", "warp")

CountWarp(i) ==
  /\ Goto(i, "warp", "loop")
  /\ warps' = warps + 1
  /\ worst' = IF Delta(i) < worst THEN Delta(i) ELSE worst
  /\ lock' = 0
  /\ DropLocals(i)
  /\ UNCHANGED <<clock, last, loops, done, runner>>

Thread(i) ==
  \/ RunThread(i) \/ LoopTest(i)
  \/ LockFirst(i) \/ ReadClock(i) \/ FetchLast(i) \/ StoreLast(i)
  \/ CountUnlock(i) \/ Compare(i) \/ LockWarp(i) \/ CountWarp(i)

Main ==
  \/ CreateThread \/ CreateFails \/ Created \/ StopTest
  \/ JoinThread \/ Report

Next == Tick \/ Main \/ \E i \in Cpus : Thread(i)

Spec == Init /\ [][Next]_vars

\* Every runnable thread keeps running, and the signal or the end of the
\* duration that run_test waits for comes.  Weak fairness is enough for the
\* spinlock: once done is set a thread takes it at most twice more.
FairSpec ==
  /\ Spec
  /\ WF_vars(Main)
  /\ \A i \in Cpus : WF_vars(Thread(i))

-----------------------------------------------------------------------------

TypeOK ==
  /\ now \in Nat
  /\ skew \in [Cpus -> Nat]
  /\ unbound \in SUBSET Cpus
  /\ pc \in [Cpus -> ThreadPCs]
  /\ t0 \in [Cpus -> Int]
  /\ t1 \in [Cpus -> Int]
  /\ lock \in 0..NCpus
  /\ last \in Int
  /\ loops \in Nat
  /\ warps \in Nat
  /\ worst \in Int
  /\ done \in {0, 1}
  /\ num_threads \in 0..NCpus
  /\ main \in {"create", "wait", "join", "abandon", "returned"}
  /\ errs \in {-1, 0, 1}

\* Two clocks of the machine are further apart than the threshold.
ClocksDisagree == \E c, d \in Cpus : skew[c] - skew[d] > Threshold

\* A warp is reported only on a machine that has one: however the readers
\* interleave (DEFINE_TEST's two critical sections), and whether or not they
\* could be bound to their CPUs, warps stays 0 while all clocks agree to
\* within the threshold.
NoFalseWarp == warps # 0 => ClocksDisagree

\* The worst jump run_test prints is one that two clocks of the machine can
\* really show.
WorstIsReal == \E c, d \in Cpus : worst >= skew[d] - skew[c]

\* What run_test prints once it has joined its threads: FAIL exactly when a
\* jump beyond the threshold was recorded, and then with that jump.
VerdictMatchesWorst ==
  main = "returned" =>
     /\ \A i \in Cpus : pc[i] \in {"none", "exit"}
     /\ (warps # 0) <=> (worst < -Threshold)
     /\ errs = 0 => warps = 0

\* Every warp belongs to an iteration of its own that was counted.
EveryWarpCounted ==
  warps + Cardinality({i \in Cpus : pc[i] \in {"lockw", "warp"}}) <= loops

\* run_test ends: setting done stops every thread that was created, in the
\* normal course and when only some of them could be created.
RunTestReturns == <>(main = "returned")
=============================================================================
