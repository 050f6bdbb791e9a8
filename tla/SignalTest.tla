----------------------------- MODULE SignalTest -----------------------------
(***************************************************************************)
(* signaltest/src/signaltest.c: a ring of threads that pass one SIGUSR1    *)
(* round and round; main starts the ring, polls the first thread's cycle   *)
(* counter, sets `shutdown' and joins everybody.                           *)
(*                                                                         *)
(* sigwait is that of glibc: it is not interrupted by the SIGTERM main     *)
(* sends.  The flags the threads share without a lock are read anew each   *)
(* time they are looked at.                                                *)
(***************************************************************************)
EXTENDS Integers

CONSTANTS
  NumThreads,   \* -t
  Loops,        \* -l, not 0: the run is to end
  MaxEvents,    \* bound on SIGINT, SIGTERM and latencies above -b
  MaxFaults     \* bound on failing calloc and pthread_create calls

ASSUME ThreadsAssumption == NumThreads \in Nat /\ NumThreads >= 2
ASSUME LoopsAssumption == Loops \in Nat \ {0}
ASSUME BoundAssumption == MaxEvents \in Nat /\ MaxFaults \in Nat

VARIABLES
  main,           \* where main is
  k,              \* its loop counter i
  shutdown,
  threadstarted, tothread, cycles,  \* fields of struct thread_stat
  pc, first,      \* a thread, and its local `first'
  pending,        \* threads with a SIGUSR1 they have not taken yet
  proc,           \* "running", or "crashed" after pthread_kill of no thread
  events, faults

threadVars == <<threadstarted, tothread, cycles, pc, first, pending>>
vars == <<main, k, shutdown, threadVars, proc, events, faults>>

Threads == 0..(NumThreads - 1)
NoThread == -1

\* Mutant: the ring is linked the other way round.
Successor_reverse(i) == IF i = 0 THEN NumThreads - 1 ELSE i - 1

\* The thread stat[i].tothread is set to.
Successor(i) == IF i = NumThreads - 1 THEN 0 ELSE i + 1

Init ==
  /\ main = "create" /\ k = 0 /\ shutdown = 0
  /\ threadstarted = [i \in Threads |-> 0]
  /\ tothread = [i \in Threads |-> NoThread]
  /\ cycles = [i \in Threads |-> 0]
  /\ pc = [i \in Threads |-> "none"]
  /\ first = [i \in Threads |-> 1]
  /\ pending = {}
  /\ proc = "running" /\ events = 0 /\ faults = 0

-----------------------------------------------------------------------------
(* main *)

Running == proc = "running"

CreateThread ==
  /\ Running /\ main = "create" /\ k < NumThreads
  /\ threadstarted' = [threadstarted EXCEPT ![k] = 1]
  /\ pc' = [pc EXCEPT ![k] = "start"]
  /\ k' = k + 1
  /\ UNCHANGED <<main, shutdown, tothread, cycles, first, pending, proc, events, faults>>

\* The result of pthread_create is not looked at.
CreateFails ==
  /\ Running /\ main = "create" /\ k < NumThreads /\ faults < MaxFaults
  /\ threadstarted' = [threadstarted EXCEPT ![k] = 1]
  /\ k' = k + 1
  /\ faults' = faults + 1
  /\ UNCHANGED <<main, shutdown, tothread, cycles, pc, first, pending, proc, events>>

\* No memory for the values of thread k: goto outall.
AllocFails ==
  /\ Running /\ main = "create" /\ k < NumThreads /\ faults < MaxFaults
  /\ main' = "outall"
  /\ faults' = faults + 1
  /\ UNCHANGED <<k, shutdown, threadVars, proc, events>>

\* while (!shutdown), seen for the first time.
EnterLinkLoop ==
  /\ Running /\ main = "create" /\ k = NumThreads
  /\ main' = IF shutdown = 0 THEN "link" ELSE "kick"
  /\ UNCHANGED <<k, shutdown, threadVars, proc, events, faults>>

\* All threads have blocked the signal: link them to a ring.
LinkRing ==
  /\ Running /\ main = "link"
  /\ \A i \in Threads : threadstarted[i] = 2
  /\ tothread' = [i \in Threads |-> Successor(i)]
  /\ main' = "kick"
  /\ UNCHANGED <<k, shutdown, threadstarted, cycles, pc, first, pending, proc, events, faults>>

\* while (!shutdown), seen again.  Nothing in the loop tells the compiler that
\* shutdown may change: at -O2, the flags of the Makefile, it may read it once
\* only, before the loop.  So main may leave here, but need not.
LeaveLinkLoop ==
  /\ Running /\ main = "link" /\ shutdown # 0
  /\ main' = "kick"
  /\ UNCHANGED <<k, shutdown, threadVars, proc, events, faults>>

\* pthread_kill: no effect on a thread that has returned (ESRCH, also when it
\* has been joined and glibc still holds its descriptor).  With the zero that
\* calloc left for a thread the process crashes.
Kill(i, P) == IF i \in Threads /\ pc[i] \notin {"none", "exit"} THEN P \cup {i} ELSE P

Kick ==
  /\ Running /\ main = "kick"
  /\ IF pc[0] = "none"
     THEN proc' = "crashed" /\ UNCHANGED pending
     ELSE pending' = Kill(0, pending) /\ UNCHANGED proc
  /\ main' = "poll"
  /\ UNCHANGED <<k, shutdown, threadstarted, tothread, cycles, pc, first, events, faults>>

\* Mutant: main waits for the cycles only.
PollDone_noShutdown == cycles[0] >= Loops

PollDone == shutdown # 0 \/ cycles[0] >= Loops

Poll ==
  /\ Running /\ main = "poll" /\ PollDone
  /\ main' = "outall"
  /\ UNCHANGED <<k, shutdown, threadVars, proc, events, faults>>

OutAll ==
  /\ Running /\ main = "outall"
  /\ shutdown' = 1
  /\ main' = "join" /\ k' = 0
  /\ UNCHANGED <<threadVars, proc, events, faults>>

\* Mutant: joins only the threads that have not said good-bye.
Joinable_running(i) == threadstarted[i] = 1

\* if (stat[i].threadstarted) pthread_join.
Joinable(i) == threadstarted[i] # 0

JoinThread ==
  /\ Running /\ main = "join" /\ k < NumThreads
  /\ \/ Joinable(k) /\ pc[k] = "exit" /\ UNCHANGED proc
     \/ Joinable(k) /\ pc[k] = "none" /\ proc' = "crashed"
     \/ ~Joinable(k) /\ UNCHANGED proc
  /\ k' = k + 1
  /\ UNCHANGED <<main, shutdown, threadVars, events, faults>>

FreeStat ==
  /\ Running /\ main = "join" /\ k = NumThreads
  /\ main' = "freed"
  /\ UNCHANGED <<k, shutdown, threadVars, proc, events, faults>>

\* sighand.
Interrupt ==
  /\ Running /\ main # "freed" /\ events < MaxEvents
  /\ shutdown' = 1
  /\ events' = events + 1
  /\ UNCHANGED <<main, k, threadVars, proc, faults>>

-----------------------------------------------------------------------------
(* signalthread *)

Goto(i, from, to) ==
  /\ Running
  /\ pc[i] = from
  /\ pc' = [pc EXCEPT ![i] = to]

StartThread(i) ==
  /\ Goto(i, "start", "loop")
  /\ threadstarted' = [threadstarted EXCEPT ![i] = @ + 1]
  /\ UNCHANGED <<main, k, shutdown, tothread, cycles, first, pending, proc, events, faults>>

LoopTest(i) ==
  /\ IF shutdown = 0 THEN Goto(i, "loop", "sigwait") ELSE Goto(i, "loop", "out")
  /\ UNCHANGED <<main, k, shutdown, threadstarted, tothread, cycles, first, pending,
                 proc, events, faults>>

SigWait(i) ==
  /\ Goto(i, "sigwait", "got")
  /\ i \in pending
  /\ pending' = pending \ {i}
  /\ UNCHANGED <<main, k, shutdown, threadstarted, tothread, cycles, first, proc,
                 events, faults>>

\* Mutant: the first cycle is skipped before the signal is passed on.
Forwarded_skip(i) == IF first[i] = 1 THEN pending ELSE Kill(tothread[i], pending)

Forwarded(i) == Kill(tothread[i], pending)

\* pthread_kill(stat->tothread, SIGUSR1), and skip the first cycle.
Forward(i) ==
  /\ IF tothread[i] = NoThread
     THEN /\ proc' = "crashed"
          /\ Running /\ pc[i] = "got"
          /\ UNCHANGED <<pc, first, pending>>
     ELSE /\ pending' = Forwarded(i)
          /\ Goto(i, "got", IF first[i] = 1 THEN "loop" ELSE "count")
          /\ first' = [first EXCEPT ![i] = 0]
          /\ UNCHANGED proc
  /\ UNCHANGED <<main, k, shutdown, threadstarted, tothread, cycles, events, faults>>

\* max_cycles == stat->cycles, after the increment.
LastCycle(i) == cycles[i] + 1 = Loops

\* The statistics of a round trip; a latency above -b stops the test.
Count(i) ==
  /\ \/ UNCHANGED <<shutdown, events>>
     \/ events < MaxEvents /\ events' = events + 1 /\ shutdown' = 1
  /\ cycles' = [cycles EXCEPT ![i] = @ + 1]
  /\ IF LastCycle(i) THEN Goto(i, "count", "out") ELSE Goto(i, "count", "loop")
  /\ UNCHANGED <<main, k, threadstarted, tothread, first, pending, proc, faults>>

Return(i) ==
  /\ Goto(i, "out", "exit")
  /\ threadstarted' = [threadstarted EXCEPT ![i] = -1]
  /\ pending' = pending \ {i}     \* pending for a thread: gone with it
  /\ UNCHANGED <<main, k, shutdown, tothread, cycles, first, proc, events, faults>>

Thread(i) ==
  \/ StartThread(i) \/ LoopTest(i) \/ SigWait(i) \/ Forward(i) \/ Count(i) \/ Return(i)

Main ==
  \/ CreateThread \/ CreateFails \/ AllocFails \/ EnterLinkLoop \/ LinkRing \/ Kick \/ Poll
  \/ OutAll \/ JoinThread \/ FreeStat

Next == Main \/ LeaveLinkLoop \/ Interrupt \/ \E i \in Threads : Thread(i)

Spec == Init /\ [][Next]_vars

\* Every thread runs; nothing says that main sees shutdown in the link loop.
FairSpec == Spec /\ WF_vars(Main) /\ \A i \in Threads : WF_vars(Thread(i))

-----------------------------------------------------------------------------

TypeOK ==
  /\ main \in {"create", "link", "kick", "poll", "outall", "join", "freed"}
  /\ k \in 0..NumThreads /\ shutdown \in {0, 1}
  /\ threadstarted \in [Threads -> {-1, 0, 1, 2}]
  /\ tothread \in [Threads -> Threads \cup {NoThread}]
  /\ cycles \in [Threads -> 0..Loops]
  /\ pc \in [Threads -> {"none", "start", "loop", "sigwait", "got", "count",
                         "out", "exit"}]
  /\ first \in [Threads -> {0, 1}]
  /\ pending \subseteq Threads
  /\ proc \in {"running", "crashed"}
  /\ events \in 0..MaxEvents /\ faults \in 0..MaxFaults

\* Who has the signal: pending for a thread, or taken and not yet passed on.
Holding == {i \in Threads : pc[i] = "got"}

\* Signals are not queued (two pthread_kill of SIGUSR1 may be one sigwait):
\* the round trips mean something only because there is never more than one.
OneToken ==
  /\ \A i, j \in pending \cup Holding : i = j
  /\ pending \cap Holding = {}

\* Until somebody stops, the signal is not lost.
TokenAlive ==
  main = "poll" /\ proc = "running" /\ shutdown = 0
  /\ (\A i \in Threads : pc[i] \notin {"out", "exit"})
    => pending \cup Holding # {}

\* How often a thread has passed the signal on.
Hops(i) == cycles[i] + (IF pc[i] = "count" THEN 1 ELSE 0)
                     + (IF first[i] = 0 THEN 1 ELSE 0)

\* The threads measure the same round trips: none is more than one ahead of
\* another, and those behind in the ring are not ahead of those before them.
RoundsInOrder ==
  \A i, j \in Threads : i < j => Hops(i) - Hops(j) \in {0, 1}

\* When main frees the statistics no thread is left that writes to them.
NoUseAfterFree == main = "freed" => \A i \in Threads : pc[i] \in {"none", "exit"}

\* The two ways for the test not to end.  A thread went away with the signal
\* pending for it, or the signal was sent to one that had gone, and main waits
\* for a thread in sigwait.  Or the test was stopped while main waited for all
\* to have started, some thread has already left, and main never looks.
StuckInJoin ==
  /\ main = "join" /\ k < NumThreads /\ pc[k] = "sigwait"
  /\ pending = {} /\ Holding = {}

StuckInLinkLoop ==
  main = "link" /\ shutdown # 0 /\ \E i \in Threads : threadstarted[i] = -1

\* If every thread could be created, the test ends, crashes in a pthread_kill
\* of a thread it has not been given yet (stopped before the ring was linked),
\* or is stuck in one of these two ways: signalthread and main, lines 140 to 417.
EndsOrStuck ==
  [](faults = 0) =>
    <>(main = "freed" \/ proc = "crashed" \/ StuckInJoin \/ StuckInLinkLoop)

=============================================================================
