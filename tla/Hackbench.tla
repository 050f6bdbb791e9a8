----------------------------- MODULE Hackbench -----------------------------
(***************************************************************************)
(* hackbench/src/hackbench.c: groups of senders that each spray `loops'    *)
(* messages down the pipe of every receiver of their group.  The workers   *)
(* are processes or threads; all report to main over one pipe and wait     *)
(* until it writes a byte to another.                                      *)
(*                                                                         *)
(* A message is DataSize bytes; a write or a read may move fewer.  A read  *)
(* at the end of file returns 0 and is repeated for ever, which is no step *)
(* of the model.                                                           *)
(***************************************************************************)
EXTENDS Integers, FiniteSets, FiniteSetsExt, Faults

CONSTANTS
  NumGroups, NumFds,  \* num_groups, num_fds (20)
  Loops,              \* loops
  DataSize,           \* DATASIZE
  Capacity,           \* bytes a pipe or socket holds
  ReadyCapacity       \* bytes the pipe of the ready messages holds

ASSUME SizeAssumption ==
  /\ NumGroups \in Nat \ {0} /\ NumFds \in Nat \ {0} /\ Loops \in Nat
  /\ DataSize \in Nat \ {0} /\ Capacity \in Nat \ {0}
  /\ ReadyCapacity \in Nat \ {0} /\ MaxFaults \in Nat

\* The children in the order group() creates them: in each group the
\* receivers, then the senders.
total_children == NumGroups * NumFds * 2
Workers == 0..(total_children - 1)
Group(w) == w \div (2 * NumFds)
Place(w) == w % (2 * NumFds)
Receivers == {w \in Workers : Place(w) < NumFds}
Senders == Workers \ Receivers

\* The receiver at the other end of out_fds[j] of sender s.
ReceiverOf(s, j) == Group(s) * 2 * NumFds + j
SendersOf(r) == {s \in Senders : Group(s) = Group(r)}

\* Mutants: forgets the other senders of the group; one packet too many.
num_packets_loops == Loops
num_packets_more == NumFds * Loops + 1

\* ctx->num_packets of a receiver.
num_packets == NumFds * Loops

VARIABLES
  process_mode,
  mainpc,     \* where main is
  k,          \* children created, reports read, children reaped
  readypipe,  \* bytes in readyfds
  wakefds,    \* the byte in wakefds
  state,      \* where a worker is
  moved,      \* bytes a sender has written, a receiver has read
  pipe        \* pipe[r]: bytes on their way to receiver r

hackVars == <<process_mode, mainpc, k, readypipe, wakefds, state, moved, pipe, faults>>

HackInit ==
  /\ process_mode \in BOOLEAN
  /\ mainpc = "create" /\ k = 0
  /\ readypipe = 0 /\ wakefds = FALSE
  /\ state = [w \in Workers |-> "none"]
  /\ moved = [w \in Workers |-> 0]
  /\ pipe = [r \in Receivers |-> 0]
  /\ faults = 0

-----------------------------------------------------------------------------
(* main, group, create_worker and reap_worker. *)

CreateWorker ==
  /\ mainpc = "create" /\ k < total_children
  /\ state' = [state EXCEPT ![k] = "ready"]
  /\ k' = k + 1
  /\ UNCHANGED <<process_mode, mainpc, readypipe, wakefds, moved, pipe, faults>>

AllCreated ==
  /\ mainpc = "create" /\ k = total_children
  /\ mainpc' = "collect" /\ k' = 0
  /\ UNCHANGED <<process_mode, readypipe, wakefds, state, moved, pipe, faults>>

ReadReady ==
  /\ mainpc = "collect" /\ k < total_children /\ readypipe > 0
  /\ readypipe' = readypipe - 1
  /\ k' = k + 1
  /\ UNCHANGED <<process_mode, mainpc, wakefds, state, moved, pipe, faults>>

\* Mutant: one report too few.
AllReady_early == k >= total_children - 1

AllReady == k = total_children

\* "Kick them off": the byte is never read, so that everyone sees it.
Wake ==
  /\ mainpc = "collect" /\ AllReady
  /\ wakefds' = TRUE
  /\ mainpc' = "reap" /\ k' = 0
  /\ UNCHANGED <<process_mode, readypipe, state, moved, pipe, faults>>

\* Mutant: the status is not looked at.
Bad_never(w) == FALSE

\* !WIFEXITED(status): an exit(1) is none of this.
Bad(w) == state[w] = "killed"

Ended(w) == state[w] \in {"returned", "failed", "killed"}

\* wait() takes any child that has ended, pthread_join the k-th.
ReapWorker ==
  /\ mainpc = "reap" /\ k < total_children
  /\ \E w \in Workers :
       /\ Ended(w)
       /\ process_mode \/ w = k
       /\ state' = [state EXCEPT ![w] = "reaped"]
       /\ mainpc' = IF process_mode /\ Bad(w) THEN "exit" ELSE mainpc
  /\ k' = k + 1
  /\ UNCHANGED <<process_mode, readypipe, wakefds, moved, pipe, faults>>

\* "Time: ...", and exit(0).
PrintTime ==
  /\ mainpc = "reap" /\ k = total_children
  /\ mainpc' = "done"
  /\ UNCHANGED <<process_mode, k, readypipe, wakefds, state, moved, pipe, faults>>

\* fdpair, fork or pthread_create, read, write: barf.
MainBarfs ==
  /\ mainpc \in {"create", "collect"} /\ faults < MaxFaults
  /\ mainpc' = "exit"
  /\ faults' = faults + 1
  /\ UNCHANGED <<process_mode, k, readypipe, wakefds, state, moved, pipe>>

-----------------------------------------------------------------------------
(* The workers. *)

\* Threads go with main, processes do not.
MayRun == process_mode \/ mainpc \notin {"exit", "done"}

WorkerGoto(w, from, to) ==
  /\ MayRun
  /\ state[w] = from
  /\ state' = [state EXCEPT ![w] = to]

\* ready(): the report, then poll.
SayReady(w) ==
  /\ WorkerGoto(w, "ready", "poll")
  /\ readypipe < ReadyCapacity
  /\ readypipe' = readypipe + 1
  /\ UNCHANGED <<process_mode, mainpc, k, wakefds, moved, pipe, faults>>

SeeWake(w) ==
  /\ WorkerGoto(w, "poll", "run")
  /\ wakefds
  /\ UNCHANGED <<process_mode, mainpc, k, readypipe, wakefds, moved, pipe, faults>>

\* The bytes a worker has to move in its two nested loops.
Task(w) == DataSize * (IF w \in Receivers THEN num_packets ELSE Loops * NumFds)

\* DATASIZE - done.
Left(w) == DataSize - (moved[w] % DataSize)

\* out_fds[j] in the loop over j, and whether anybody can still read it.
Target(s) == ReceiverOf(s, (moved[s] \div DataSize) % NumFds)
Gone(r) == process_mode /\ state[r] \in {"returned", "failed", "killed", "reaped"}

Write(s) ==
  /\ WorkerGoto(s, "run", "run")
  /\ moved[s] < Task(s) /\ ~Gone(Target(s))
  /\ \E ret \in 1..Left(s) :
       /\ pipe[Target(s)] + ret <= Capacity
       /\ moved' = [moved EXCEPT ![s] = @ + ret]
       /\ pipe' = [pipe EXCEPT ![Target(s)] = @ + ret]
  /\ UNCHANGED <<process_mode, mainpc, k, readypipe, wakefds, faults>>

\* The only reader has gone: SIGPIPE, or an error if the sender was blocked.
WriteBroken(s) ==
  /\ \/ WorkerGoto(s, "run", "killed")
     \/ WorkerGoto(s, "run", "failed")
  /\ moved[s] < Task(s) /\ Gone(Target(s))
  /\ UNCHANGED <<process_mode, mainpc, k, readypipe, wakefds, moved, pipe, faults>>

Read(r) ==
  /\ WorkerGoto(r, "run", "run")
  /\ moved[r] < Task(r)
  /\ \E ret \in 1..Left(r) :
       /\ ret <= pipe[r]
       /\ moved' = [moved EXCEPT ![r] = @ + ret]
       /\ pipe' = [pipe EXCEPT ![r] = @ - ret]
  /\ UNCHANGED <<process_mode, mainpc, k, readypipe, wakefds, faults>>

Return(w) ==
  /\ WorkerGoto(w, "run", "returned")
  /\ moved[w] = Task(w)
  /\ UNCHANGED <<process_mode, mainpc, k, readypipe, wakefds, moved, pipe, faults>>

\* barf in a worker: exit(1) of the process, or of the whole program.
WorkerBarfs(w) ==
  /\ faults < MaxFaults
  /\ \/ state[w] \in {"ready", "poll"}
     \/ state[w] = "run" /\ moved[w] < Task(w)
  /\ WorkerGoto(w, state[w], "failed")
  /\ mainpc' = IF process_mode THEN mainpc ELSE "exit"
  /\ faults' = faults + 1
  /\ UNCHANGED <<process_mode, k, readypipe, wakefds, moved, pipe>>

MainStep == CreateWorker \/ AllCreated \/ ReadReady \/ Wake \/ ReapWorker \/ PrintTime

Worker(w) ==
  \/ SayReady(w) \/ SeeWake(w) \/ Return(w)
  \/ w \in Senders /\ (Write(w) \/ WriteBroken(w))
  \/ w \in Receivers /\ Read(w)

HackNext ==
  \/ MainStep \/ MainBarfs
  \/ \E w \in Workers : Worker(w) \/ WorkerBarfs(w)

HackSpec == HackInit /\ [][HackNext]_hackVars

\* The scheduler runs everyone.
HackFairSpec == HackSpec /\ WF_hackVars(MainStep) /\ \A w \in Workers : WF_hackVars(Worker(w))

-----------------------------------------------------------------------------

HackTypeOK ==
  /\ process_mode \in BOOLEAN
  /\ mainpc \in {"create", "collect", "reap", "done", "exit"}
  /\ k \in 0..total_children
  /\ readypipe \in 0..ReadyCapacity /\ wakefds \in BOOLEAN
  /\ state \in [Workers -> {"none", "ready", "poll", "run", "returned", "failed",
                         "killed", "reaped"}]
  /\ \A w \in Workers : moved[w] \in 0..Task(w)
  /\ pipe \in [Receivers -> 0..Capacity]
  /\ faults \in 0..MaxFaults

\* "Wait for everyone to be ready": the clock starts, and a byte moves, only
\* when every worker of every group has come to the poll of ready().
StartTogether ==
  (wakefds \/ \E w \in Workers : moved[w] > 0) =>
    \A w \in Workers : state[w] \notin {"none", "ready"}

\* A time is printed for the whole job.  reap_worker takes no notice of an
\* exit(1), so with a failing call it may be for less, but only if a receiver
\* gave up: a sender that fell short stopped at a receiver that fell short too.
TimeMeansDelivered ==
  mainpc = "done" =>
    /\ \A s \in Senders : moved[s] < DataSize * Loops * NumFds =>
         moved[Target(s)] < DataSize * Loops * NumFds
    /\ faults = 0 =>
         /\ \A s \in Senders : moved[s] = DataSize * Loops * NumFds
         /\ \A r \in Receivers : pipe[r] = 0

\* The bounded pipes, the order in which the senders visit them and the gate
\* never block everybody: without a failing call the job is done.
EndsUnlessFault == <>(mainpc = "done" \/ faults > 0)

\* A worker killed by SIGPIPE is found by reap_worker, whoever ends before
\* it: no time is printed and main ends.
KilledIsNoticed == (\E w \in Workers : state[w] = "killed") ~> mainpc = "exit"
=============================================================================
