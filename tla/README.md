# Verification of the autotest client tests

The repository is a collection of client-side tests for the Linux kernel. Most
of it is thin: a Python class that unpacks an archive, builds it and runs it, or
a shell script that calls the tests of a package. The programs with logic of
their own are a handful of concurrent C programs kept as source in the tree, the
shell library that carries all `linux-tools` test cases, and two network
benchmarks that run on two hosts. They measure something (a clock, a timer, a
signal round trip, a pipe, an aio queue, a network) with several threads,
processes or hosts, and their verdict is only worth something if the machinery
is right under every interleaving and when a call fails.
This project models those programs in TLA+, checks them with TLC on small
instances, and proves the most important safety properties with TLAPS for every
value of the constants.

## 1. Inventory

| component | source | state it keeps | operations | hard behaviour |
|---|---|---|---|---|
| monotonic_time | `monotonic_time/src/time_test.c`, `threads.c`, `spinlock.h` | `struct test_info` (lock, last, loops, warps, worst, done), table of threads | `run_test`, `create_per_cpu_threads`, `join_threads`, one reader loop per CPU | lock-free comparison between two critical sections, partial thread creation, failing affinity |
| aio-stress, engine | `aiostress/aio-stress.c` | per thread: active / finished lists, io unit pool, iocb array, pending counters; per operation: started, pending, rw, last_err, stonewalled | `worker`, `run_active_list`, `build_oper`, `run_built`, `read_some_events`, `io_oper_wait`, `restart_oper` | partial submission, EAGAIN, completions in any order, stonewalling, read errors |
| aio-stress, stage barrier | same, `worker` | threads_starting, threads_ending, one mutex, one condition | start barrier, end barrier | two barriers over one condition, each resetting the other; spurious wakeups; a thread that does not come back |
| checktsc | `tsc/src/checktsc.c` | two state words, slave_cpu, slave_tsc | `check_tsc`, `tsc_delta`, `slave_thread` | busy-wait handshake between two threads without locks, failing affinity |
| signaltest | `signaltest/src/signaltest.c` | `struct thread_stat` per thread, `shutdown` | create, link, kick, poll, stop, join; `signalthread`, `sighand` | SIGUSR1 passed round a ring (not queued), a plain flag read by everybody, stop at any time |
| hackbench | `hackbench/src/hackbench.c` | pipes, ready / wake pipes, children | `group`, `sender`, `receiver`, `ready`, `reap_worker` | bounded pipes, short reads and writes, a start gate, failing workers in process and thread mode |
| cyclictest | `cyclictest/src/cyclictest.c` | backup table `kv[]`, thread statistics and value rings, `shutdown` | `timerthread`, `setkernvar`, `restorekernvars`, `print_stat`, poll / stop / join | unlocked table shared by all threads, one process-wide interval timer, a ring printed while it is written |
| ipv6connect | `ipv6connect/src/ipv6connect.c` | listening flag, mutex, condition, descriptors | `RunWithOneServer`, `RunWithOneShotServers`, `RunMultiThreaded`, `ThreadedStartServer` | handshake over a condition variable, descriptor read after the unlock, flag reset without the mutex |
| synctest | `synctest/src/synctest.c` | semaphore, flag in shared memory | parent, child | kill racing fsync |
| tc_utils | `linux-tools/shared/tc_utils.source` | counts and verdicts, watchdog and its pid file, temporary users, groups, sleepers, log capture, saved network files | `tc_setup`, `tc_register`, verdicts, `tc_add_user_or_break` ..., `tc_internal_cleanup` (exit trap), `tc_watchdog` | exit trap racing the watchdog, cleanup in which each step may fail |
| netperf2, iperf | `netperf2/netperf2.py`, `iperf/iperf.py` | role, round, daemon, results, interface | `run_once`, `server_start`, `server_stop`, `client` | two hosts that meet at barriers with timeouts, commands with timeouts of their own, exceptions between two barriers |
| cgroup | `cgroup/*.py` | lists of controllers, created groups, client process | phases of each test | cleanup after a failing phase |
| the rest | see section 8 | | | |

The programs do not interact with each other; each has its own modules. Inside a
program the parts interact through shared memory (monotonic_time, checktsc,
signaltest, cyclictest), a mutex and condition (aio-stress, ipv6connect), signals
(signaltest, cyclictest, tc_utils), pipes (hackbench), the kernel's aio interface
(aio-stress), and barriers between hosts (netperf2, iperf).

What makes each component correct:

* monotonic_time: a warp reported is one the machine has; the verdict agrees
  with what was recorded; `run_test` returns with no thread left.
* aio-stress: io units, counters and lists stay consistent through every kind
  of submission and completion; a stage is over only when its io is; threads
  stay in the same stage and the run ends.
* checktsc: the computed difference is the true one to within the measurement
  error; PASS is earned; the handshake does not block.
* signaltest: exactly one signal in the ring, never lost while the test runs;
  all threads measure the same rounds; memory is freed after the last user;
  the run ends.
* hackbench: nobody starts before everybody is ready; a printed time stands for
  a complete transfer; no mutual blocking; a killed worker is noticed.
* cyclictest: the kernel variables have their old values at the end; nothing is
  freed that a thread still uses; a printed value is that of the cycle printed
  with it; the test ends when it is told to.
* tc_utils: exit status 0 is earned; whatever a test case created is taken back,
  also after a failure; a timeout is reported when there was one and only then;
  a hanging test case is ended.
* ipv6connect: the test fails only when the kernel does; descriptors are not
  lost; the program ends.
* netperf2, iperf: the commands of the client run against the daemon of their
  own round; no daemon is left; no role waits for ever for a missing peer.

The hazards, each at its line and with the properties that would catch it, are
in `PROJECT.json`. Where the code does go wrong, the property has to name the case as
an exception, and the hazard carries a note instead of a property: it is in the model, and
section 6 says what comes of it. A few more were met and are covered by no property:
in signaltest the index into the `-v` value buffer (line 188); in aio-stress the
missing `break` after `-C` (line 1330: the next case also sets `max_io_submit`,
which the model accounts for by leaving `OptSubmit` free), the random offset
near the end of a file (line 589), the thread records that come from `malloc`
(line 1420), a failing write that `check_finished_io` does not look at (line 348)
and `-I` with several threads (line 1192, see section 6); in checktsc the memory
order of powerpc64 (line 286); in hackbench the children left over when `fork` fails
part-way (line 222) and the reader that spins at end of file (line 201).

## 2. Modules

| module | models | proofs |
|---|---|---|
| `MonotonicTime` | the warp test: per-CPU readers, spinlock, `run_test` | `MonotonicTime_proofs` |
| `AioConfig` | what `main` of aio-stress makes of its options | |
| `AioStress` | workers, lists, io units, the kernel's aio contexts, the barriers | `AioStress_proofs` |
| `StageBarrier` | the two barriers of `worker` alone, any number of stages | `StageBarrier_proofs` |
| `StageSync` | abstract specification: a stage begins when all ended the previous one | |
| `CheckTsc` | master, slave and the verdict | `CheckTsc_proofs` |
| `SignalTest` | the ring, main and the signal handler | `SignalTest_proofs` |
| `Hackbench` | main, senders, receivers, pipes | `Network_proofs` |
| `Cyclictest` | main, the timer threads, the backup table, the kernel variables | `Cyclictest_proofs` |
| `TcUtils` | a shell test case, its exit trap and its watchdog | `TcUtils_proofs` |
| `Ipv6connect` | main, the server threads, descriptors and ports | `Network_proofs` |
| `NetBench` | the two roles of netperf2 and iperf, with time | `Network_proofs` |
| `Faults` | the number of failing calls, for the three that `Network_proofs` is about | |
| `MC*` | instances for TLC, one per specification | |

`AioStress` implements `StageBarrier` (property `BarrierRefinement`, theorem
`BarrierImplemented` for two or more threads; with one thread `worker` passes both
barriers by), and `StageBarrier` implements `StageSync` (property
`ImplementsStageSync`, theorem `Refinement`). Both are checked by TLC and proved: the
stages of the workers are synchronised as `StageSync` says, for any number of threads.

The constants are declared with named ASSUMEs in the module that uses them.
Operators named `X_something` stand just before a definition `X`: each is `X` with
a plausible bug, and `PROJECT.json` names the property that detects it.

### 2.1 MonotonicTime

Thread `i` is the i-th thread of `create_per_cpu_threads`. The hardware is a true
time `now` and an offset `skew[c]` per CPU; a bound thread reads
`now + skew[its cpu]`, an unbound one (`unbound`, after a failing
`sched_setaffinity`) the clock of any CPU. `DEFINE_TEST` is cut at every access to shared memory:
`LoopTest` (read `done`), `LockFirst`, `ReadClock`, `FetchLast`, `StoreLast`,
`CountUnlock`, `Compare` (no lock), `LockWarp`, `CountWarp`. `CreateThread`, `CreateFails`, `Created`,
`StopTest`, `JoinThread`, `Report` are `run_test` with the two helpers of
`threads.c`. `DropLocals` forgets `t0` and `t1` when they are dead.

### 2.2 AioConfig, AioStress

`AioConfig` computes the clamped number of threads, `io_iter`, `max_io_submit`, the
range of each operation, its thread and the order on that thread's list (`OperList`),
as `main` does. In `AioStress` the
intrusive circular lists are sequences that start at the list head, an io is
`<<operation, record number>>`, and free io units are counted. The actions follow
`worker`: `ArriveStart`, `WakeStart`, `BeginStage`; `RunActiveList`, `PickOper`, `BuildIocb`,
`FindIouWaits`, `OperBuilt`, `NothingBuilt`, `Submit`, `SubmitAgain`, `SubmitFails`,
`ReapAndResubmit`, `SortBuilt` and `Sorted` for `run_active_list` and `run_built` (the
loop that puts the built operations back takes one operation per step); `Cutoff` and
`LeaveLoop` for stonewalling; `WaitOneEvent`, `WaitNextOper` for `io_oper_wait`;
`RestartOper` for the loop over the finished list; `ArriveEnd`, `WakeEnd`,
`Again`, `FreeOper`. `Complete` is the kernel: it finishes any io in flight,
successfully or with an error. The sections under
`stage_mutex` are single steps; `threads_ending` is read outside it in `Cutoff`, as in the
source. `SpuriousWake` lets any waiter return.

### 2.3 StageBarrier, StageSync

`StageBarrier` keeps the counters, the set of threads blocked on the condition and
the stage each is in; what a stage does is left out. `StageSync` keeps two
counters per thread, stages begun and ended.

### 2.4 CheckTsc

One action per access to the shared words. `NextPair` is the double loop of
`check_tsc` over the CPUs (`Remaining`: the pairs still to come), `BindMaster` ...
`Keep` the body of `tsc_delta`, `Judge` the comparison with the threshold,
`NoMorePairs`, `StopSlave`, `Join` the end. `SeeMasterReady` ... `SlaveDone` are
`slave_thread`. `skipped` is a history variable: the pairs for which `tsc_delta`
gave up. `Midpoint` is the mean without overflow of line 250, `MaxWord` is `~0ULL`.

### 2.5 SignalTest

`pending` is the set of threads with a SIGUSR1 they have not taken (a set:
signals of this kind are not queued). Main is `CreateThread`, `CreateFails`,
`AllocFails`, `EnterLinkLoop`, `LinkRing`, `LeaveLinkLoop`, `Kick`, `Poll`, `OutAll`,
`JoinThread`, `FreeStat`; a thread is `StartThread`, `LoopTest`, `SigWait`, `Forward`,
`Count`, `Return`; `Interrupt` is `sighand`. `shutdown` is a plain `int` and nothing in the
loop of lines 368 to 382 can change it as far as the compiler knows; the Makefile builds
with `-O2`, and gcc then reads it once before the loop. So `LeaveLinkLoop`
(main sees `shutdown` inside the loop) may happen but has no fairness.

### 2.6 Hackbench

A worker is a process or a thread, chosen in `HackInit`. `moved[w]` counts the bytes a
sender has written or a receiver has read, from which the current message and
the current receiver follow; `pipe[r]` is what is under way to a receiver.
`Write` and `Read` move any number of bytes up to the rest of the message. `WorkerBarfs` and
`MainBarfs` are failing system calls; a worker that calls `barf` ends itself in
process mode, the whole program in thread mode. `WriteBroken` is the SIGPIPE of
a sender whose receiver is gone.

### 2.7 Cyclictest

`setkernvar` is cut at every access to `kv[]`: `ReadOld` (the old value), `Match` (the
`strcmp` with the name in a slot), `TestEmpty`, `StoreFirst` and `StoreSecond` (the
`strncpy`, in two halves, so that others may see half a name and two names may mix),
`StoreValue`, `WriteNew`; `NoSlot` is a full table. Every access to a file under `/proc` may
fail: after `ReadFails` no backup is made and the variable is written all the same, a
failed write in `WriteNew` or `RestoreFails` leaves the variable as it is. The rest of a thread is `Start`
(with the race for `threadstarted`), `TestShutdown`, `Measure`, `StoreMeasure`,
`Disarm`, `End`. Main is `Alloc`, `Create`, `NoValues`, `Mark`, `Poll`, `PrintValue`,
`Printed`, `Polled`, `Join`, `Joined`, `Restore`, `RestoreFails`, `Exit`; `Interrupt` is `sighand` and
`Tick` the process's `ITIMER_REAL`, whose SIGALRM one of the waiting threads takes.
A measured latency is represented by the number of its cycle. `lost` is a
history variable: the names whose old value could not be read, whose backup was refused or
overwritten, or whose restoring failed.

### 2.8 TcUtils

The script's place `pc` runs from `tc_setup` over the open body of a test case
(`Testcase`: any call, any order, may hang, may exit anywhere) into the exit trap, one
action per part of `tc_internal_cleanup`. `status` is the status the trap was entered with
while it runs, and that of the script afterwards; `cut` says how a trap was left before
its end: with the account of tests not run (`"account"`), by an `exit` without a number in
a helper, which repeats the status the trap was entered with (`LeaveTrap`, `"exit"`), or by
a signal (`"killed"`). `tc_local_cleanup` is the test case's own and may
do anything the helpers allow, that `exit` included. `SetupFails` and `WatchdogMissing` are the
ways `tc_setup` breaks. The watchdog is a process of its own:
`ReportPid`, `Expire`, `KillChildren`, `KillTestcase`, `WatchdogEnds`; the kills are in a
subshell (`assassin`) that survives the watchdog. `WatchdogStruck` is its end by
anybody else. On the system side the model has
the sets of users, groups and sleepers that exist, next to the lists the script keeps
of them. `DeleteUsers` goes through the whole list and any of the deletions may fail, each
counted; `DeleteGroups` stops at the first failure, in whatever order the list has, so the
groups behind it stay untried. `refused` (accounts whose own deletion was tried and failed),
`stopped` (the loop over the groups gave up), `cpfailed` (a copy of a network file failed) and
`counted` (tests when the trap looked) are history variables. External: the shell's
treatment of SIGTERM and of `exit` in a trap, `useradd`, `groupadd`, `userdel`, `groupdel`,
`cp` (each does its work or fails).

### 2.9 Ipv6connect

`CreateServer`, `ConnectAndAccept`, `CreateServerConnectAndAccept` are the two
sequential types; their sockets are opened and closed one by one, on the failing
paths too. The threaded type is cut at every step two threads can see:
`StartThread`, `Lock`, `Wakeup`, `GetServerFD` (unlock, then the read of the descriptor),
`GetSockName`, `Connect`, `CloseClient`, `Join` for main; `Listen`, `Tell`, `Accept`,
`CloseServer`, `EndServer` for the thread. The kernel gives the lowest free descriptor, so
the number read late may belong to another socket. `SpuriousWakeup` and `Fault` are
the environment.

### 2.10 NetBench

One module for both tests, which differ in their timeouts and in what a failing
command does (`Fails`). `Begin`, `ServerStart`, `Started`, `Stopped`, `BarrierTimeout`,
`Error` are `run_once`, where `Started` and `Stopped` are rendezvous both roles take
together, so the rounds are in step by the nature of the barrier and not by anything the tests
do; `ClientOutput`, `ClientFails`, `ClientTimeout` are the commands. Time passes
in `Tick`, for all that wait at once, and never beyond a deadline. External: the
barrier of the autotest client.

## 3. Runs

Passing runs:

| run | instance | shows |
|---|---|---|
| `monotonic_time` | 2 CPUs, skew 0..2, 3 iterations | no false warp (`NoFalseWarp`), verdict and recorded jumps agree (`VerdictMatchesWorst`), every warp has an iteration counted (`EveryWarpCounted`), `run_test` returns (`RunTestReturns`) |
| `aio_engine` | 1 thread, 2 files x 2 contexts, 5 blocks, chunks of 2, room for 3 ios | io units conserved, counters equal the kernel's, iocb array never overrun (`Bookkeeping`); a stage ends with its io (`StageComplete`); the rotation over files is fair (`RotationFair`); the run ends (`AllReturn`) |
| `aio_threads` | 2 threads, 4 operations with unequal work, two units a thread, one failing io or submit | never out of units with nothing pending (`NeverStarved`); operations with io never lost (`OpersAccounted`); stonewalled only after a winner, stage totals exact, nothing in flight at exit (`StageEnd`); all return unless an operation failed (`ReturnUnlessError`); workers refine `StageBarrier` (`BarrierRefinement`) |
| `stage_barrier` | 4 threads, 3 stages | `StageSync` implemented (`ImplementsStageSync`), no lost wakeup (`AllStagesDone`) |
| `checktsc` | 3 CPUs (0, 1, 3), 2 iterations, one failing call | difference right to within half a round trip (`DeltaAccurate`), PASS earned (`PassHonest`), returns unless the slave failed (`ReturnsUnlessSlaveError`) |
| `signaltest` | 4 threads, 2 loops, one interrupt, one failing call | signal not lost (`TokenAlive`), rounds in order (`RoundsInOrder`), no use after free (`NoUseAfterFree`), the test ends or is stuck in one of the ways named in section 6 (`EndsOrStuck`) |
| `hackbench` | 2 senders, 2 receivers, 2 loops, messages of 2 bytes over pipes of 3, ready pipe of 2, one fault | common start (`StartTogether`), time means delivered (`TimeMeansDelivered`), ends unless a call fails (`EndsUnlessFault`), killed worker noticed (`KilledIsNoticed`) |
| `cyclictest` | 2 threads; 2 kernel variables and 3 slots with the tracer; up to 3 cycles over a value ring of 2 without it; one fault | variables restored unless their backup was lost or a file of theirs failed (`RestoredUnlessLost`), no use after free (`NoUseAfterFree`), a printed value is of its cycle (`PrintsItsCycle`), the test ends unless the interval timer is shared (`EndsUnlessItimer`) |
| `tc_utils` | 1 test announced and up to 2 run, 2 users, 2 groups, 1 sleeper, 1 failing verdict besides those of deletions, statuses modulo 2 | status 0 is earned (`ZeroMeansClean`), after a failure only what could not be deleted is left (`CleansUpAfterFailure`), no false timeout (`NoFalseTimeout`), a hang is ended (`HangIsEnded`) |
| `ipv6connect` | the types T, O, M, T, each with 2 x 2 passes of 3 connects, one fault | failure is real (`FailureIsReal`), descriptors conserved (`FdsConserved`), the program ends unless the thread could not be created (`EndsUnlessNoThread`) |
| `netbench` | both tests, streams 1, 1, 2, time in units of 150 s, one error | the daemon of the round is up during the commands (`ServerServesRun`), no daemon left and a whole test served (`ServerEndsClean`), every role ends (`RoleEnds`) |

Why the bounds are enough to be interesting. *monotonic_time*: with two CPUs
and three iterations a reader can be overtaken between its two critical
sections, and skew up to 2 with threshold 1 gives tolerated and untolerated
warps. *aio_engine*: the operations have five and three records,
so that their last chunk is a short one; the iocb array is full after two of
four operations; three places in the context force partial submissions and EAGAIN; a
file that is empty or complete before the run decides whether its second
context may be picked at once (`oper_runnable`). *aio_threads*: one thread
has two operations of three records and the other two of one, which is what makes one
thread finish first; two units against one place in the context make `find_iou` wait. *checktsc*: CPU
numbers with a gap; an odd and an even window, so that the rounding of the mean
occurs; the pairs include both orders. *signaltest*: four threads are the least
for which a thread has neighbours on both sides that are neither main's first
nor last; two loops let threads be one round apart. *hackbench*: the ready pipe holds
fewer reports than there are workers, and a pipe cannot hold two messages, so
senders block on the gate and in the middle of a message. *cyclictest*: two threads and
two variables are enough for a slot to be taken twice, for names to mix and for a
thread to read a value another has already changed; one slot more than variables lets a
name be backed up twice; three cycles wrap the ring of two. The tracer is combined with one
way to wait only, since `setkernvar` is over before the first wait. *tc_utils*: with two
accounts of a kind one can fail and the other be deleted, or both fail; `MaxTests` lets a test case
register more tests than it announced; `MaxFails` bounds the verdicts of the test case's
own, those of failing deletions are not bounded. A modulus of two stands for 256, so
that a count of two failures wraps. *ipv6connect*: a threaded pass comes first
and last, so that descriptors and the flag left by other passes are met. *netbench*: the
same number of streams twice gives two barriers with the same id; with 150 s as
unit the start barrier waits 4, the later ones 2, iperf's commands 1 and netperf2's
4, which keeps the order of the real timeouts.

Deadlock checking is off in all of them because the programs end: the final
state has no successor. That nothing else stops early is the liveness property
of each run.

Violation run: `tc_timeout`, section 6.

## 4. Fairness

Weak fairness on every thread and on main: they are runnable threads of a
time-sliced scheduler, and the blocking calls they make (mutex, condition,
pipe, join) are expressed by the guards. In `MonotonicTime` weak fairness suffices for the
unfair spinlock because a thread takes it at most twice after `done` is set. In
`AioStress` the kernel completes every io it was given. In `Cyclictest` an armed interval
timer expires. In `TcUtils` `tc_setup`, the trap and the watchdog are scheduled; the test
case itself, in its body and in its own cleanup, may do nothing for ever, which is what
the watchdog is for. Nobody need end the watchdog (`WatchdogStruck`). In `NetBench` time passes and what is due happens; that a role is ever
started, or that a command ends by itself, is not assumed. No fairness is assumed of
failing calls, of interrupts, of spurious wakeups, of the passing of time elsewhere, nor of
`LeaveLinkLoop` in `SignalTest`.

## 5. Proofs

All theorems are of the form Spec => []Property (or refinement) and hold for
every value of the constants that satisfies the named ASSUMEs.

* `MonotonicTime_proofs` (any number of CPUs, any threshold, any skew):
  `TypeCorrect`, `WarpsAreReal`, `WorstJumpIsReal`, `VerdictCorrect`. Inductive
  invariant `IInv`: mutual exclusion of the spinlock (`LockInv`); `last` came from some
  clock of the machine and not from the future (`LastInv`); hence what a reader
  compares is behind by no more than the distance of two clocks (`ReadInv`), also
  after it has left the lock; recorded worst and warp count agree (`WarpInv`);
  threads outside the table do nothing (`JoinInv`). `LockInv` is what keeps
  `last` from being replaced between the reading of the clock and that of `last`, without which
  `NoFalseWarp` is false. `WarpsWithinLoops` (property `EveryWarpCounted`) needs
  `CountInv`: the readers that have counted their iteration and not yet decided on a
  warp (`Open`) count with the warps, since the two counters are raised in different
  critical sections.
* `StageBarrier_proofs` (any finite set of at least two threads): `TypeCorrect`,
  `Aligned`, `Refinement`. The invariant says that the system is, for some stage number
  `r`, either `Gathering(r)` (start barrier closed, nobody in a stage) or
  `Running(r)` (start barrier open), and in each which counter counts whom. The
  cardinality facts are from the library of finite sets.
* `CheckTsc_proofs` (any set of CPUs, threshold, `NUM_ITERS`): `TypeCorrect`,
  `DeltaCorrect`, `PassCorrect`. `HandInv` lists where the slave can be for each
  place of the master; from it `SampleInv` (the sample lies in the window, in
  true time), `BestInv` (so do the kept readings) and `VerdictInv` (every pair
  gone by and not skipped is within the threshold).
* `SignalTest_proofs` (any number of threads >= 2, any number of loops, any
  number of interrupts and failures): `TypeCorrect`, `FreeIsSafe`, `OneSignal`,
  `SignalNotLost`, `RoundsCorrect`. `BaseInv` ties the flags main reads to where
  the threads are (`Lifecycle`, `Creating`, `Joined`) and the ring to its order
  (`Ring`, `Linked`). `TokenInv` adds what holds before the first signal (`Gate`)
  and `RoundsExact`: the threads before the one that has the signal are exactly one
  round ahead of it, those after it are level. `RoundsInOrder` alone is not
  inductive, for it does not say where the signal is.
* `Cyclictest_proofs` (any number of threads, kernel variables, slots, any size of the
  value ring, any number of faults, failing reads and writes of the variables among them):
  `TypeCorrect`, `FreeIsSafe`, `Restored`, `PrintsRight`. `BaseInv` adds
  to the types where the threads can be for each place of main (`MainInv`) and what
  `threadstarted` can be in spite of its race (`StartInv`). `TableInv` is the argument
  about the unlocked table, for the names that are not lost: the table fills from
  its beginning (`FilledInv`), so a thread that has read a value already changed still
  has the complete backup of it ahead and never comes to store (`AheadInv`); a slot
  that holds the changed value is one whose thread has yet to store the value (`ValueInv`);
  nothing is changed without a backup (`SavedInv`); while main restores, the
  backup of what is still changed lies ahead of it (`RestoreInv`).
  `RestoredUnlessLost` speaks of the end only and is far from inductive. `PrintsItsCycle`
  speaks of the entry main is about to print; `RingInv` says it of every cycle whose
  value is still in the ring (`Kept`), which is what a step that stores a new value preserves:
  two cycles less than the size of the ring apart have different places
  (`PlacesDiffer`).
* `Network_proofs` holds the theorems of the three programs that talk over sockets and pipes.
  It extends all three, which is why their specifications have different names (`Spec`,
  `ConnectSpec`, `HackSpec`) and why they have the fault counter in common (`Faults`). No theorem
  speaks of two of them.

  NetBench (any stream list, any timeouts for which iperf's commands end before
  the server stops waiting): `TypeCorrect`, `ServesRun`, `EndsClean`. The
  roles are always in the same round (`InStep`), the daemon is up exactly between its start
  and the finally clause (`DaemonInv`), the results count the rounds (`ResultsInv`), and from
  the start barrier on both have waited for the same time (`RunInv`), which is
  why the timeouts alone decide who leaves first.

  Ipv6connect (any list of types, any number of passes through the loops, any number of
  faults): `V6TypeCorrect`, `V6Failures` (`FailureIsReal`), `V6Descriptors` (`FdsConserved`).
  `HandInv` lists where the thread can be for each place of main: once main has seen
  `threaded_listening` the thread stays at its accept until main has connected. So the
  descriptor main reads after the unlock is still that of the listening socket and the
  port it asks for is the one bound (`MainInv`), and neither getsockname nor connect fails of
  itself. `SocketInv` says that the open descriptors are exactly those main and the thread
  hold, that just the server sockets have a port, and that a connection is queued only
  between the connect and the accept. `FdsConserved` speaks of the top of the
  loops only, where nobody holds a connection. `PortsInv` counts the connects that are over
  through the three nested loops, which bounds the ports (part of `ConnectTypeOK`).

  Hackbench (any number of groups and descriptors, any number of loops, message size,
  capacity of the pipes, number of faults): `HBTypeCorrect`, `HBGate` (`StartTogether`),
  `HBDelivered` (`TimeMeansDelivered`). `GateInv` counts: the reports main has
  read and those still in the pipe are no more than the workers that have come past their
  report, and nobody reports twice; so when main has read as many as there are workers, all have
  come past it. `StartTogether` alone says nothing of the reports. For the bytes, `FlowInv`
  takes those written to a receiver as a set (`Sent`: a sender and the number of its byte,
  which decides the receiver) and says that there are as many as it has read and as lie in its pipe;
  a write stays in one message, so its bytes are all for one receiver. `HBPayload`
  bounds all the bytes there can ever be for a receiver (`Payload`) by what it waits for: a byte
  is told by its sender's place in the group, the loop and the offset in the message. Hence a
  sender with a byte left to write has left it to a receiver that still waits
  (`HBFallsShort`), which is the first part of `TimeMeansDelivered` and the reason why
  no SIGPIPE comes without a fault. `ReapInv` (main counts the workers it has reaped)
  and `CleanInv` (without a fault nobody ends before its work is done) give the
  second part.
* `TcUtils_proofs` (any number of tests, accounts and sleepers, any modulus of the exit
  status up to 256, the one the kernel uses): `TypeCorrect`, `ZeroIsClean`,
  `FailureIsClean`, `TimeoutIsReal`. The trap takes things back in a
  fixed order, so `CleanInv` says for each of its places what is gone by then; `KnownInv`
  that everything on the system is on one of the script's lists, or that a failure or BROK was
  reported; `DogInv` ties the watchdog and its killer to the script through the pid file, and
  `DogDone` says what the trap knows once it has looked; `StatusInv` gives the status in the trap
  and of each way to end, one for each value of `cut`.
* `AioStress_proofs` (any number of files, contexts, threads and stages, any depth, chunk,
  `-I` limit, room in the context, number of faults; `SizeAssumption` of section 7). Two layers.

  The first, `IInv`, is a conjunction over the threads. `DataInv` relates the lists
  (`ListInv`: each operation at most once, on one list of its own thread), the ios (`IoInv`: in the
  iocbs array, with the kernel or completed, one of these), the counters (`CountInv`) and the
  records (`SentInv`: each one built is somewhere). `PlaceInv` adds what holds at each
  place of `worker` and `run_active_list`: where `oper` points (`CurInv`), the room in the
  iocbs array (`FitInv`), what is in it (`BuildInv`) and what the waits have established
  (`WaitInv`). A thread touches only its own operations and its own slice of the kernel's ios, so
  each action is proved for its own thread, and `Frame` carries the others over. It gives
  `BookkeepingRight`, `UnitsSuffice` (`NeverStarved`), `ListsRight` (`OpersAccounted`)
  and `StagesComplete` (`StageComplete`). None of the four is inductive: that the array is
  not overrun, for instance, needs the chunk still wanted (`want`) and the room that
  `run_active_list` tests before it picks.

  The second layer compares the operations with the stages the thread has begun (`round`).
  `RankInv`: an operation without error that is on a list is in the stage of its thread, those
  `restart_oper` has moved are in the next one. So a thread that comes back to the start
  barrier has a stage to go, and there are no more rounds than stages, as `StageBarrier`
  assumes; with the inductive invariant of `StageBarrier_proofs`, taken over by INSTANCE, every step
  of the engine is a step of the barrier or a stutter: `BarrierImplemented`.
  `WallInv`: whoever is cut off is on the finished list, and somebody has ended the stage.
  With `DrainInv` (a thread through with a stage has nothing with the kernel) and `TransInv` (the
  requests submitted are the requests issued; while the finished list is added up, the total so
  far and those still to add make up the rest) it gives `StageEndsRight`.
  `TurnInv` is the rotation: an operation ahead of another on the list has issued no more
  than it and at most one chunk less, and every operation still on the list stands so to
  every one just built. The last chunk of a file may be a short one, but then the operation
  leaves the list; any other is one whole chunk, built by the operation that has issued
  least and put back behind the others. It gives `RotatesFairly`.

What the exceptions in `StageEnd` mean: an operation after a read error stays marked as
stonewalled and its requests are added again each time the list is walked from its head, so the two
parts that speak of marks and totals are about operations without error; `-I` stops the loop with
operations active and io in flight, so totals and drained exits are stated for `RUN_FOREVER`.

Every invariant and both refinements the runs check are proved. Only model-checked are
the liveness properties and every use of fairness, which are out of the reach of the prover,
and the property of the run that finds a violation. The type invariant of
every module is proved but for that of `AioStress`, whose proofs use the wider
`TypeInv`.

## 6. Findings

One run states what the source says of itself and is refuted by TLC:

* `tc_timeout`: the trap of `tc_utils.source` says (line 161) that "any watchdog timeout is
  correctly attributed to the currently running test". It takes the watchdog to have fired
  when its process is gone, but the watchdog kills first and ends afterwards: a trap that
  looks in between finds it alive, kills it, and reports no timeout (`TimeoutAttributed`).

Other limits of the programs are exceptions named in the passing properties:

* aio-stress: if every operation that `run_active_list` picks up has no io to do
  nothing is built, and the operations are on no list any more (`OpersAccounted`
  speaks of operations with io). With `-I` and several threads, a thread that has used
  up its iterations does not return to the start barrier, where the others wait for all
  of them; the runs use `RUN_FOREVER`, the default.
* checktsc: -1 from `tsc_delta` (master could not be bound) is taken for a difference of
  one cycle and the pair counts as passed (`skipped` in `PassHonest`). A slave that
  cannot be bound reports ERROR, the master waits for READY only
  (`ReturnsUnlessSlaveError`).
* signaltest (`EndsOrStuck`): a thread that sees `shutdown` leaves with the signal pending and
  the next one stays in `sigwait` (`StuckInJoin`, also with `-l 1` and nothing
  going wrong); an interrupt while the threads start, with the flag read once
  (`StuckInLinkLoop`); a thread that passes the signal on to a ring that was never
  linked (`proc = "crashed"`).
* cyclictest: two threads may take the same slot for different variables, and one backup is
  gone (`lost`). A variable that could not be read is written without a backup (lines 134, 135,
  150), and a restore that fails (line 160) only prints a message. The first thread that leaves disarms the `ITIMER_REAL` of all
  (`EndsUnlessItimer`). A `pthread_create` that fails leaves an id that is not set,
  to which main sends a signal (`main = "crashed"`). With `-v` the value printed for count 0
  is the initial one, as counts begin at 1.
* tc_utils: when registered tests were not run the trap exits early (lines 181 to 185), with
  sleepers, accounts and network files left as they are; a watchdog killed while its
  subshell runs may still end the script in the middle of the trap (`cut`). A hang in
  `tc_local_cleanup` is ended by nobody (`HangIsEnded`). 256 failures are status 0
  (`ZeroMeansClean`). A helper that ends in `exit` without a number, called in the trap (line
  321; lines 645 and 740 from the cleanup of `nscd.sh` and `locate.sh`), ends the script with the
  status it had before, which may be 0 although a failure was just reported, with everything behind
  it left as it is (the first exception in `ZeroMeansClean`; the comment of lines 150 to 153
  expects the status of the results). Lines 1679 to 1681 say that without an argument all
  temporary groups are deleted, but the loop stops at the first failure, and the list is then
  kept with the groups already deleted, at which the next call stops
  (`stopped` in `CleansUpAfterFailure`). The copies of the network files (lines 194, 196, 1996 to
  1998) are not checked: status 0 with a changed file is possible (`cpfailed`). A watchdog
  that something else ended is reported as a timeout (`NoFalseTimeout`). `tc_break_if_bad_rc` is defined twice; the second definition reports FAIL where the
  first reports BROK.
* ipv6connect: if the thread cannot be created main waits for ever (`NoThread`).
* netperf2: the client's commands may take test_time + 500 seconds, the server waits test_time
  + 300 and then stops its daemon under them (`ServerServesRun`). In both tests an
  exception leaves the interface configured.

## 7. Assumptions and abstractions

* Shared plain variables: each access is one step, in program order; for
  checktsc this is what x86 and s390x give, powerpc64 does not promise it.
* aio-stress starts from zeroed thread records. The source uses `malloc` for
  them (line 1420), which returns zeroed pages at first use only.
* `SizeAssumption` in `AioConfig`: the file is at least as long as the offsets
  of its contexts together, so that no operation begins past the end of a
  file. Operations with no or fewer records are included.
* Random stages differ from sequential ones only in the offset; an io is
  identified by its number in the stage, so the offsets themselves are left out.
* Latency statistics, histograms, scheduling policies, sizes of buffers,
  shared-memory segments, output and option syntax are left out.
* signaltest: `sigwait` and `pthread_kill` are those of glibc (sigwait is not
  interrupted by another signal; killing a thread that has ended has no effect).
* hackbench: a `read` that returns 0 at end of file is repeated by the source for
  ever; a repetition changes nothing and is no step. Pipes are modelled; for
  sockets a broken connection is a failing write, which is also a step of the model.
* cyclictest: a plain variable is read and written in one step; a mixture of two names is
  the name of no kernel variable; the checks of kernel and timer, latencies and
  priorities are left out.
* tc_utils: bash, where SIGTERM runs the EXIT trap, a second one ends the script with
  status 143 and `exit` in the trap ends it, without a number with the status
  from before the trap. A helper that adds or deletes an account
  does it or fails.
* ipv6connect: the kernel does not reuse a port within a run; a connect to a listening
  socket succeeds before it is accepted.
* netperf2, iperf: the barrier lets both through or raises in the one whose timeout is
  over; a message between the hosts takes no time. The two hosts' clocks run alike.
* Clocks: `now` and the offsets are small naturals that do not wrap; counters
  of 64 bits do not overflow within a run.

## 8. Not modelled

* synctest: parent and child with a kill after one second; which of `fsync` and the kill comes
  first is a matter of time and decides everything, no order of steps is at stake.
* cgroup, cgroup_tests: sequential tests whose state is kept by the `Cgroup` and
  `CgroupModules` classes of the autotest client, not in the repository, and by the kernel.
* tc_utils: `tc_lock`, which no test case calls; the service, mail, package and network
  helpers, each around a single command; netperf2 and iperf: build, the second run under profilers and the
  parsing of output in `postprocess`.
* The other Python wrappers: subclasses of the autotest client's `test` class, which is not
  in the repository; they unpack, build, run a command and parse its output.
* `linux-tools` and `archives`: tests of packages, mostly vendored; shell scripts
  around the package's own tests. Source archives with patches.
* rtc, rmaptest, memory_api, iosched_bugs, linus_stress, bash_shared_mapping,
  aio_dio_bugs: straight-line system calls, or reproducers of kernel bugs, whose
  property is one of the kernel. `ltp/scan.c` is generated by flex.
* `cpuset.c` of monotonic_time and the CPU-list parser of checktsc only choose the set of
  CPUs; the models take the set as a constant.

By lines most of the tree is vendored or generated: headers and test programs of perl, openhpi,
openssl, lsof, gnupg and php under `linux-tools`, the flex output of ltp. They are
test inputs of this repository, not its logic, and are the reason why the modelled
programs, most of which are covered nearly whole, are a small share of all lines.

## 9. Plan

1. The pure algorithms, against reference definitions: `parse_cpu_set` and `show_cpu_set`
   (inverse of each other), `random_byte_offset` (stays in the file), `parse_size`.
2. The lock file of `tc_utils` (`tc_lock`), should a test case that uses it be added.
