----------------------------- MODULE AioStress -----------------------------
(***************************************************************************)
(* aiostress/aio-stress.c: worker threads push their io operations through *)
(* the kernel's aio interface, stage by stage (write, read, random write,  *)
(* random read), with a barrier before and after every stage.              *)
(*                                                                         *)
(* A thread owns a list of active and a list of finished operations (the   *)
(* circular lists of the source, here sequences that start at the list     *)
(* head), a pool of io units, and an aio context: `inflight' are the ios   *)
(* the kernel works on, `events' the completions it has not handed out     *)
(* yet.  An io is <<o, k>>: the k-th record of operation o in the current  *)
(* stage.  The critical sections under stage_mutex are single steps.       *)
(***************************************************************************)
EXTENDS AioConfig, SequencesExt

CONSTANTS
  CtxEvents,  \* ios an aio context takes at a time (512 in aio_setup)
  InitSizes,  \* sizes the files may have before the run
  MaxFaults   \* bound on the failing ios and io_submit calls

ASSUME KernelAssumption ==
  CtxEvents \in Nat \ {0} /\ InitSizes \subseteq Nat /\ MaxFaults \in Nat

VARIABLES
  \* worker
  pc,           \* where thread t is
  cur,          \* its local `oper': an index into the list being walked, 0 for NULL
  cnt,          \* its local cnt (only kept when -I limits it)
  status,       \* its return value
  stage_trans,  \* stage_mb_trans, in records
  submitted,    \* ios it has submitted in this stage
  active, finished, built,   \* the lists, built is local to run_active_list
  want,         \* ios build_oper still has to build
  iocbs,        \* built and not yet submitted ios
  free,         \* number of io units on free_ious
  num_global_pending,
  \* struct io_oper
  num_pending, started_ios, rw, last_err, stonewalled,
  issued,       \* records built in this stage (last_offset when sequential)
  \* kernel
  inflight, events,
  moved,        \* moved[o]: records of o the kernel has transferred in this stage
  failed,       \* failed[o]: ios of o that failed, in the whole run
  size,         \* st_size of each file
  faults,
  \* stage barrier
  threads_starting, threads_ending,
  waiting,      \* threads blocked in pthread_cond_wait(&stage_cond)
  round,        \* round[t]: stages t has begun
  proc          \* "running", or "exit" after exit(1)

control == <<pc, cur, cnt, status, stage_trans, submitted>>
lists   == <<active, finished, built>>
units   == <<want, iocbs, free, num_global_pending>>
opers   == <<num_pending, started_ios, rw, last_err, stonewalled, issued>>
kernel  == <<inflight, events, moved, failed, size, faults>>
barrier == <<threads_starting, threads_ending, waiting, round>>
vars    == <<control, lists, units, opers, kernel, barrier, proc>>

Init ==
  /\ pc = [t \in Threads |-> "start"]
  /\ cur = [t \in Threads |-> 0]
  /\ cnt = [t \in Threads |-> 0]
  /\ status = [t \in Threads |-> 0]
  /\ stage_trans = [t \in Threads |-> 0]
  /\ submitted = [t \in Threads |-> 0]
  /\ active = [t \in Threads |-> OperList(t)]
  /\ finished = [t \in Threads |-> <<>>]
  /\ built = [t \in Threads |-> <<>>]
  /\ want = [t \in Threads |-> 0]
  /\ iocbs = [t \in Threads |-> <<>>]
  /\ free = [t \in Threads |-> num_global_ios(t)]
  /\ num_global_pending = [t \in Threads |-> 0]
  /\ num_pending = [o \in Opers |-> 0]
  /\ started_ios = [o \in Opers |-> 0]
  /\ rw = [o \in Opers |-> first_stage]
  /\ last_err = [o \in Opers |-> 0]
  /\ stonewalled = [o \in Opers |-> 0]
  /\ issued = [o \in Opers |-> 0]
  /\ inflight = {} /\ events = {}
  /\ moved = [o \in Opers |-> {}]
  /\ failed = [o \in Opers |-> 0]
  /\ size \in [0..(NumFiles - 1) -> InitSizes]
  /\ faults = 0
  /\ threads_starting = 0 /\ threads_ending = 0 /\ waiting = {}
  /\ round = [t \in Threads |-> 0]
  /\ proc = "running"

-----------------------------------------------------------------------------
(* The kernel.  A completion may come at any time and in any order. *)

EventsOf(t)   == {e \in events : ThreadOf(e[1]) = t}
InflightOf(t) == {x \in inflight : ThreadOf(x[1]) = t}
Outstanding(t) == Cardinality(InflightOf(t)) + Cardinality(EventsOf(t))

Complete(x) ==
  /\ proc = "running"
  /\ inflight' = inflight \ {x}
  /\ \/ /\ events' = events \cup {<<x[1], x[2], "ok">>}
        /\ moved' = [moved EXCEPT ![x[1]] = @ \cup {x[2]}]
        /\ size' = IF rw[x[1]] = WRITE
                   THEN [size EXCEPT ![FileOf(x[1])] =
                            Max({@, start(x[1]) + x[2] * RecLen})]
                   ELSE size
        /\ UNCHANGED <<failed, faults>>
     \/ /\ faults < MaxFaults
        /\ faults' = faults + 1
        /\ failed' = [failed EXCEPT ![x[1]] = @ + 1]
        /\ events' = events \cup {<<x[1], x[2], "err">>}
        /\ UNCHANGED <<moved, size>>
  /\ UNCHANGED <<control, lists, units, opers, barrier, proc>>

\* check_finished_io: an error is recorded for a read of a place the file has
\* (random reads are taken to be of such places).
Offset(e) == start(e[1]) + (e[2] - 1) * RecLen

RecordsError(e) ==
  /\ e[3] = "err"
  /\ \/ rw[e[1]] = RREAD
     \/ rw[e[1]] = READ /\ size[FileOf(e[1])] >= Offset(e)

\* finish_io, for each of the completions E of thread t: the unit is free
\* again, and an error is noted in its operation.

FinishIo(t, E) ==
  /\ events' = events \ E
  /\ free' = [free EXCEPT ![t] = @ + Cardinality(E)]
  /\ num_global_pending' = [num_global_pending EXCEPT ![t] = @ - Cardinality(E)]
  /\ num_pending' = [o \in Opers |->
                       num_pending[o] - Cardinality({e \in E : e[1] = o})]
  /\ last_err' = [o \in Opers |->
                    IF \E e \in E : e[1] = o /\ RecordsError(e) THEN 1 ELSE last_err[o]]
  /\ UNCHANGED <<inflight, moved, failed, size, faults>>

\* Mutant: waits for more completions than there are ios.
MinNr_iter(t) == io_iter

\* read_some_events: io_getevents waits for min_nr completions and hands out
\* all there are.
MinNr(t) == MinOf(io_iter, num_global_pending[t])

ReadSomeEvents(t) ==
  /\ Cardinality(EventsOf(t)) >= MinNr(t)
  /\ FinishIo(t, EventsOf(t))

-----------------------------------------------------------------------------
(* The stage barrier of worker(). *)

Goto(t, from, to) ==
  /\ proc = "running"
  /\ pc[t] = from
  /\ pc' = [pc EXCEPT ![t] = to]

\* The last thread at a barrier resets the other one and broadcasts.
\* Mutants: the counter keeps its old value; nobody is woken.
OpenStart_noReset == UNCHANGED threads_ending /\ waiting' = {}
OpenStart == threads_ending' = 0 /\ waiting' = {}

OpenEnd_noReset == UNCHANGED threads_starting /\ waiting' = {}
OpenEnd_noBroadcast == threads_starting' = 0 /\ UNCHANGED waiting
OpenEnd == threads_starting' = 0 /\ waiting' = {}

\* if (num_threads > 1) ... threads_starting++.
ArriveStart(t) ==
  /\ IF num_threads = 1
     THEN /\ Goto(t, "start", "begin")
          /\ round' = [round EXCEPT ![t] = @ + 1]
          /\ UNCHANGED <<threads_starting, threads_ending, waiting>>
     ELSE /\ threads_starting' = threads_starting + 1
          /\ IF threads_starting' = num_threads
             THEN /\ Goto(t, "start", "begin")
                  /\ OpenStart
                  /\ round' = [round EXCEPT ![t] = @ + 1]
             ELSE /\ Goto(t, "start", "startwait")
                  /\ waiting' = waiting \cup {t}
                  /\ UNCHANGED <<threads_ending, round>>
  /\ UNCHANGED <<cur, cnt, status, stage_trans, submitted, lists, units, opers, kernel, proc>>

\* Back from pthread_cond_wait: the while looks again.
WakeStart(t) ==
  /\ t \notin waiting
  /\ IF threads_starting = num_threads
     THEN /\ Goto(t, "startwait", "begin")
          /\ round' = [round EXCEPT ![t] = @ + 1]
          /\ UNCHANGED waiting
     ELSE /\ Goto(t, "startwait", "startwait")
          /\ waiting' = waiting \cup {t}
          /\ UNCHANGED round
  /\ UNCHANGED <<cur, cnt, status, stage_trans, submitted, lists, units, opers, kernel,
                 threads_starting, threads_ending, proc>>

BeginStage(t) ==
  /\ Goto(t, "begin", "loop")
  /\ stage_trans' = [stage_trans EXCEPT ![t] = IF active[t] # <<>> THEN 0 ELSE @]
  /\ cnt' = [cnt EXCEPT ![t] = 0]
  /\ submitted' = [submitted EXCEPT ![t] = 0]
  /\ UNCHANGED <<cur, status, lists, units, opers, kernel, barrier, proc>>

ArriveEnd(t) ==
  /\ IF num_threads = 1
     THEN /\ Goto(t, "end", "again")
          /\ UNCHANGED <<threads_starting, threads_ending, waiting>>
     ELSE /\ threads_ending' = threads_ending + 1
          /\ IF threads_ending' = num_threads
             THEN /\ Goto(t, "end", "again")
                  /\ OpenEnd
             ELSE /\ Goto(t, "end", "endwait")
                  /\ waiting' = waiting \cup {t}
                  /\ UNCHANGED threads_starting
  /\ UNCHANGED <<cur, cnt, status, stage_trans, submitted, lists, units, opers, kernel, round, proc>>

WakeEnd(t) ==
  /\ t \notin waiting
  /\ IF threads_ending = num_threads
     THEN Goto(t, "endwait", "again") /\ UNCHANGED waiting
     ELSE Goto(t, "endwait", "endwait") /\ waiting' = waiting \cup {t}
  /\ UNCHANGED <<cur, cnt, status, stage_trans, submitted, lists, units, opers, kernel,
                 threads_starting, threads_ending, round, proc>>

\* POSIX lets a thread return from pthread_cond_wait unasked.
SpuriousWake(t) ==
  /\ proc = "running" /\ t \in waiting
  /\ waiting' = waiting \ {t}
  /\ UNCHANGED <<control, lists, units, opers, kernel,
                 threads_starting, threads_ending, round, proc>>

-----------------------------------------------------------------------------
(* The stage loop of worker() and run_active_list(). *)

MoreIterations(t) == Iterations = RUN_FOREVER \/ cnt[t] < Iterations

CountIteration(t) ==
  cnt' = IF Iterations = RUN_FOREVER THEN cnt ELSE [cnt EXCEPT ![t] = @ + 1]

\* Someone has ended the stage: cut off the first active operation.
Cutoff(t) ==
  /\ Goto(t, "loop", "loop")
  /\ active[t] # <<>> /\ MoreIterations(t)
  /\ Stonewall = 1 /\ threads_ending # 0
  /\ stonewalled' = [stonewalled EXCEPT ![Head(active[t])] = 1]
  /\ finished' = [finished EXCEPT ![t] = Append(@, Head(active[t]))]
  /\ active' = [active EXCEPT ![t] = Tail(@)]
  /\ CountIteration(t)
  /\ UNCHANGED <<cur, status, stage_trans, submitted, built, units, num_pending, started_ios,
                 rw, last_err, issued, kernel, barrier, proc>>

RunActiveList(t) ==
  /\ Goto(t, "loop", "pick")
  /\ active[t] # <<>> /\ MoreIterations(t)
  /\ ~(Stonewall = 1 /\ threads_ending # 0)
  /\ cur' = [cur EXCEPT ![t] = 1]
  /\ CountIteration(t)
  /\ UNCHANGED <<status, stage_trans, submitted, lists, units, opers, kernel, barrier, proc>>

LeaveLoop(t) ==
  /\ Goto(t, "loop", "wait")
  /\ active[t] = <<>> \/ ~MoreIterations(t)
  /\ cur' = [cur EXCEPT ![t] = IF finished[t] = <<>> THEN 0 ELSE 1]
  /\ UNCHANGED <<cnt, status, stage_trans, submitted, lists, units, opers, kernel, barrier, proc>>

oper_runnable(o) ==
  \/ started_ios[o] # 0 \/ start(o) = 0
  \/ rw[o] >= RWRITE
  \/ size[FileOf(o)] >= start(o)

\* build_oper: the number of ios it will build for o.
num_ios(o) == IF started_ios[o] + io_iter > total_ios(o)
              THEN total_ios(o) - started_ios[o] ELSE io_iter

\* while(oper): walk to the first runnable operation.
PickOper(t) ==
  /\ pc[t] = "pick"
  /\ \/ /\ cur[t] = 0                          \* the list is exhausted
        /\ Goto(t, "pick", "built")
        /\ UNCHANGED <<cur, want>>
     \/ /\ cur[t] # 0
        /\ LET o == active[t][cur[t]] IN
           IF ~oper_runnable(o)
           THEN IF cur[t] = Len(active[t])
                THEN Goto(t, "pick", "built") /\ UNCHANGED <<cur, want>>
                ELSE /\ Goto(t, "pick", "pick")
                     /\ cur' = [cur EXCEPT ![t] = @ + 1]
                     /\ UNCHANGED want
           ELSE IF num_ios(o) < 0              \* taken for an error
                THEN Goto(t, "pick", "built") /\ UNCHANGED <<cur, want>>
                ELSE /\ Goto(t, "pick", "build")
                     /\ want' = [want EXCEPT ![t] = num_ios(o)]
                     /\ UNCHANGED cur
  /\ UNCHANGED <<cnt, status, stage_trans, submitted, lists, iocbs, free, num_global_pending,
                 opers, kernel, barrier, proc>>

\* find_iou and grab_iou with a free unit at hand.
TakeUnit(t) == free' = [free EXCEPT ![t] = @ - 1]

\* build_iocb.
BuildIocb(t) ==
  /\ Goto(t, "build", "build")
  /\ want[t] > 0 /\ free[t] > 0
  /\ LET o == active[t][cur[t]] IN
     /\ iocbs' = [iocbs EXCEPT ![t] = Append(@, <<o, issued[o] + 1>>)]
     /\ issued' = [issued EXCEPT ![o] = @ + 1]
  /\ TakeUnit(t)
  /\ want' = [want EXCEPT ![t] = @ - 1]
  /\ UNCHANGED <<cur, cnt, status, stage_trans, submitted, lists, num_global_pending, num_pending,
                 started_ios, rw, last_err, stonewalled, kernel, barrier, proc>>

\* find_iou with no free unit: wait for completions.
FindIouWaits(t) ==
  /\ Goto(t, "build", "build")
  /\ want[t] > 0 /\ free[t] = 0 /\ num_global_pending[t] > 0
  /\ ReadSomeEvents(t)
  /\ UNCHANGED <<cur, cnt, status, stage_trans, submitted, lists, want, iocbs, started_ios, rw,
                 stonewalled, issued, barrier, proc>>

\* num_built + io_iter > max_io_submit.
ArrayFull(t) == Len(iocbs[t]) + io_iter > max_io_submit

\* build_oper has returned: on to the next operation, or submit.
OperBuilt(t) ==
  /\ pc[t] = "build" /\ want[t] = 0
  /\ built' = [built EXCEPT ![t] = Append(@, active[t][cur[t]])]
  /\ active' = [active EXCEPT ![t] = RemoveAt(@, cur[t])]
  /\ IF ArrayFull(t)
     THEN Goto(t, "build", "built") /\ UNCHANGED cur
     ELSE /\ Goto(t, "build", "pick")
          /\ cur' = [cur EXCEPT ![t] = IF active'[t] = <<>> THEN 0 ELSE 1]
  /\ UNCHANGED <<cnt, status, stage_trans, submitted, finished, units, opers, kernel, barrier, proc>>

\* if (num_built): otherwise run_active_list returns, and what it had moved
\* to its local list is gone.
NothingBuilt(t) ==
  /\ Goto(t, "built", "loop")
  /\ iocbs[t] = <<>>
  /\ built' = [built EXCEPT ![t] = <<>>]
  /\ cur' = [cur EXCEPT ![t] = 0]
  /\ UNCHANGED <<cnt, status, stage_trans, submitted, active, finished, units, opers, kernel,
                 barrier, proc>>

\* Mutant: counts an operation once, not once per io.
update_iou_counters_once(f, sent) ==
  [o \in Opers |-> f[o] + (IF \E x \in sent : x[1] = o THEN 1 ELSE 0)]

update_iou_counters(f, sent) ==
  [o \in Opers |-> f[o] + Cardinality({x \in sent : x[1] = o})]

\* run_built: io_submit takes the first ret ios.
Room(t) == CtxEvents - Outstanding(t)

Submit(t) ==
  /\ pc[t] \in {"built", "submit"} /\ iocbs[t] # <<>>
  /\ \E ret \in 1..MinOf(Len(iocbs[t]), Room(t)) :
       LET sent == {iocbs[t][i] : i \in 1..ret} IN
       /\ inflight' = inflight \cup sent
       /\ iocbs' = [iocbs EXCEPT ![t] = SubSeq(@, ret + 1, Len(@))]
       /\ num_global_pending' = [num_global_pending EXCEPT ![t] = @ + ret]
       /\ submitted' = [submitted EXCEPT ![t] = @ + ret]
       /\ num_pending' = update_iou_counters(num_pending, sent)
       /\ started_ios' = update_iou_counters(started_ios, sent)
       /\ IF ret = Len(iocbs[t]) THEN Goto(t, pc[t], "sort") ELSE Goto(t, pc[t], "reap")
  /\ UNCHANGED <<cur, cnt, status, stage_trans, lists, want, free, rw, last_err,
                 stonewalled, issued, events, moved, failed, size, faults, barrier, proc>>

\* -EAGAIN: the context is full.
SubmitAgain(t) ==
  /\ pc[t] \in {"built", "submit"} /\ iocbs[t] # <<>>
  /\ Room(t) <= 0
  /\ Goto(t, pc[t], "reap")
  /\ UNCHANGED <<cur, cnt, status, stage_trans, submitted, lists, units, opers, kernel, barrier, proc>>

\* Any other error: run_active_list exits the process.
SubmitFails(t) ==
  /\ proc = "running" /\ faults < MaxFaults
  /\ pc[t] \in {"built", "submit"} /\ iocbs[t] # <<>>
  /\ faults' = faults + 1
  /\ proc' = "exit"
  /\ UNCHANGED <<control, lists, units, opers, inflight, events, moved, failed, size,
                 barrier>>

\* read_some_events in run_built, and resubmit.
ReapAndResubmit(t) ==
  /\ Goto(t, "reap", "submit")
  /\ num_global_pending[t] > 0
  /\ ReadSomeEvents(t)
  /\ UNCHANGED <<cur, cnt, status, stage_trans, submitted, lists, want, iocbs, started_ios, rw,
                 stonewalled, issued, barrier, proc>>

\* Where run_active_list puts an operation it has sent io for.
\* Mutants: a finished one stays on the active list; it goes to its front.
AllSent(o) == started_ios[o] = total_ios(o)
Requeue_noDel(list, o) == Append(list, o)
Requeue_front(list, o) == IF AllSent(o) THEN list ELSE <<o>> \o list
Requeue(list, o) == IF AllSent(o) THEN list ELSE Append(list, o)

\* while(built_opers): back to the active list, or on to the finished one.
SortBuilt(t) ==
  /\ built[t] # <<>>
  /\ Goto(t, "sort", "sort")
  /\ LET o == Head(built[t]) IN
     /\ active' = [active EXCEPT ![t] = Requeue(@, o)]
     /\ finished' = [finished EXCEPT ![t] = IF AllSent(o) THEN Append(@, o) ELSE @]
  /\ built' = [built EXCEPT ![t] = Tail(@)]
  /\ UNCHANGED <<cur, cnt, status, stage_trans, submitted, units, opers, kernel, barrier, proc>>

Sorted(t) ==
  /\ built[t] = <<>>
  /\ Goto(t, "sort", "loop")
  /\ cur' = [cur EXCEPT ![t] = 0]
  /\ UNCHANGED <<cnt, status, stage_trans, submitted, lists, units, opers, kernel, barrier, proc>>

-----------------------------------------------------------------------------
(* The end of a stage in worker(). *)

\* The do ... while over the finished list: io_oper_wait, one completion at
\* a time, whichever operation it belongs to.
WaitOneEvent(t) ==
  /\ Goto(t, "wait", "wait")
  /\ cur[t] # 0 /\ num_pending[finished[t][cur[t]]] # 0
  /\ \E e \in EventsOf(t) : FinishIo(t, {e})
  /\ UNCHANGED <<cur, cnt, status, stage_trans, submitted, lists, want, iocbs, started_ios, rw,
                 stonewalled, issued, barrier, proc>>

\* Mutant: only the first finished operation is waited for.
LastFinished_first(t) == TRUE

\* oper->next == t->finished_opers.
LastFinished(t) == cur[t] = Len(finished[t])

WaitNextOper(t) ==
  /\ pc[t] = "wait"
  /\ \/ /\ cur[t] = 0
        /\ Goto(t, "wait", "end")
        /\ UNCHANGED cur
     \/ /\ cur[t] # 0 /\ num_pending[finished[t][cur[t]]] = 0
        /\ IF LastFinished(t)
           THEN Goto(t, "wait", "restart") /\ cur' = [cur EXCEPT ![t] = 1]
           ELSE Goto(t, "wait", "wait") /\ cur' = [cur EXCEPT ![t] = @ + 1]
  /\ UNCHANGED <<cnt, status, stage_trans, submitted, lists, units, opers, kernel, barrier, proc>>

\* One turn of the loop that offers each finished operation a restart.
\* restart_oper refuses after an error and after the last stage.
CanRestart(o) == last_err[o] = 0 /\ LaterStages(rw[o]) # {}

oper_mb_trans(o) == started_ios[o]

RestartOrSkip(t, o) ==
  /\ stage_trans' = [stage_trans EXCEPT ![t] = @ + oper_mb_trans(o)]
  /\ \/ /\ CanRestart(o)
        /\ started_ios' = [started_ios EXCEPT ![o] = 0]
        /\ issued' = [issued EXCEPT ![o] = 0]
        /\ moved' = [moved EXCEPT ![o] = {}]
        /\ stonewalled' = [stonewalled EXCEPT ![o] = 0]
        /\ rw' = [rw EXCEPT ![o] = NextStage(rw[o])]
        /\ finished' = [finished EXCEPT ![t] = RemoveAt(@, cur[t])]
        /\ active' = [active EXCEPT ![t] = Append(@, o)]
        /\ cur' = [cur EXCEPT ![t] = IF finished'[t] = <<>> THEN 0 ELSE 1]
        /\ Goto(t, "restart", IF finished'[t] = <<>> THEN "end" ELSE "restart")
     \/ /\ ~CanRestart(o)
        /\ IF LastFinished(t)
           THEN Goto(t, "restart", "end") /\ cur' = [cur EXCEPT ![t] = 0]
           ELSE Goto(t, "restart", "restart") /\ cur' = [cur EXCEPT ![t] = @ + 1]
        /\ UNCHANGED <<started_ios, issued, moved, stonewalled, rw, active, finished>>

RestartOper(t) ==
  /\ pc[t] = "restart"
  /\ RestartOrSkip(t, finished[t][cur[t]])
  /\ UNCHANGED <<cnt, status, submitted, built, units, num_pending, last_err,
                 inflight, events, failed, size, faults, barrier, proc>>

\* "someone got restarted, go back to the beginning".
Again(t) ==
  /\ IF active[t] # <<>> /\ MoreIterations(t)
     THEN Goto(t, "again", "start") ELSE Goto(t, "again", "free")
  /\ UNCHANGED <<cur, cnt, status, stage_trans, submitted, lists, units, opers, kernel, barrier, proc>>

\* finish_oper, for the head of the finished list, then the return.  Its
\* io_oper_wait has nothing to wait for (StageComplete).
FreeOper(t) ==
  /\ IF finished[t] = <<>>
     THEN Goto(t, "free", "exit") /\ UNCHANGED <<status, finished>>
     ELSE /\ Goto(t, "free", "free")
          /\ status' = [status EXCEPT ![t] = last_err[Head(finished[t])]]
          /\ finished' = [finished EXCEPT ![t] = Tail(@)]
  /\ UNCHANGED <<cur, cnt, stage_trans, submitted, active, built, units, opers, kernel, barrier, proc>>

Barrier(t) == ArriveStart(t) \/ WakeStart(t) \/ BeginStage(t) \/ ArriveEnd(t) \/ WakeEnd(t)

Stage(t) ==
  \/ Cutoff(t) \/ RunActiveList(t) \/ LeaveLoop(t)
  \/ PickOper(t) \/ BuildIocb(t) \/ FindIouWaits(t) \/ OperBuilt(t) \/ NothingBuilt(t)
  \/ Submit(t) \/ SubmitAgain(t) \/ ReapAndResubmit(t) \/ SortBuilt(t) \/ Sorted(t)
  \/ WaitOneEvent(t) \/ WaitNextOper(t) \/ RestartOper(t)

Worker(t) == Barrier(t) \/ Stage(t) \/ Again(t) \/ FreeOper(t)

Next ==
  \/ \E x \in inflight : Complete(x)
  \/ \E t \in Threads : Worker(t) \/ SubmitFails(t) \/ SpuriousWake(t)

Spec == Init /\ [][Next]_vars

\* The threads run and the kernel completes what it was given.
FairSpec ==
  /\ Spec
  /\ \A t \in Threads : WF_vars(Worker(t))
  /\ \A o \in Opers : \A k \in 1..FileSize :
       WF_vars(<<o, k>> \in inflight /\ Complete(<<o, k>>))

-----------------------------------------------------------------------------
(* Properties. *)

Ranges(t) == ToSet(active[t]) \cup ToSet(finished[t]) \cup ToSet(built[t])
OutstandingOf(o) == Cardinality({x \in inflight : x[1] = o})
                    + Cardinality({e \in events : e[1] = o})

TypeOK ==
  /\ pc \in [Threads -> {"start", "startwait", "begin", "loop", "pick", "build",
                         "built", "submit", "reap", "sort", "wait", "restart",
                         "end", "endwait", "again", "free", "exit"}]
  /\ \A t \in Threads :
       /\ active[t] \in Seq(OpersOf(t)) /\ finished[t] \in Seq(OpersOf(t))
       /\ built[t] \in Seq(OpersOf(t))
       /\ cur[t] \in 0..NumOpers
       /\ free[t] \in 0..num_global_ios(t) /\ want[t] \in 0..io_iter
  /\ num_pending \in [Opers -> Nat] /\ num_global_pending \in [Threads -> Nat]
  /\ started_ios \in [Opers -> Nat] /\ issued \in [Opers -> Nat]
  /\ rw \in [Opers -> stages] /\ last_err \in [Opers -> {0, 1}]
  /\ threads_starting \in 0..num_threads /\ threads_ending \in 0..num_threads
  /\ waiting \subseteq Threads
  /\ proc \in {"running", "exit"}

\* Every io unit of setup_ious is on the free list, in the iocbs array, or
\* with the kernel: none leaks, none is handed out twice (the abort() of
\* find_iou, "io unit on free list but not free").
UnitsConserved ==
  \A t \in Threads :
    free[t] + Len(iocbs[t]) + Outstanding(t) = num_global_ios(t)

\* The counters the waits rely on are those of the kernel, through partial
\* submissions, EAGAIN and completions reaped for another operation.
CountersMatchKernel ==
  /\ \A o \in Opers : num_pending[o] = OutstandingOf(o)
  /\ \A t \in Threads : num_global_pending[t] = Outstanding(t)

\* run_active_list never writes past the max_io_submit entries of t->iocbs.
IocbsFit == \A t \in Threads : Len(iocbs[t]) + want[t] <= max_io_submit

\* The io units, the pending counters and the iocbs array agree with each
\* other and with the kernel at every step of building, submitting and reaping.
Bookkeeping == UnitsConserved /\ CountersMatchKernel /\ IocbsFit

\* find_iou always finds a unit ("no free ious after read_some_events" is
\* never printed), and run_built never aborts for want of an event.
NeverStarved ==
  \A t \in Threads :
    /\ pc[t] = "build" /\ want[t] > 0 /\ free[t] = 0 => num_global_pending[t] > 0
    /\ pc[t] = "reap" => num_global_pending[t] > 0

\* No operation is listed twice, and none is lost (oper_list_add,
\* oper_list_del) but those that have no io at all: run_active_list takes them
\* off the active list and, when it has built nothing, puts them on no other.
OpersAccounted ==
  \A t \in Threads : pc[t] \notin {"free", "exit"} =>
    /\ {o \in OpersOf(t) : total_ios(o) > 0} \subseteq Ranges(t)
    /\ Len(active[t]) + Len(finished[t]) + Len(built[t]) = Cardinality(Ranges(t))

\* When a stage is over its io is: every operation that was not cut off had
\* each of its records transferred, and nothing is left in flight.
StageComplete ==
  \A t \in Threads : pc[t] = "restart" =>
    \A o \in ToSet(finished[t]) :
      /\ num_pending[o] = 0
      /\ stonewalled[o] = 0 => started_ios[o] = total_ios(o)
      /\ failed[o] = 0 => moved[o] = 1..started_ios[o]

\* An operation is cut off only when some thread has got through the stage
\* (one that is refused a restart after a read error stays marked for good).
CutoffHasWinner ==
  \A o \in Opers :
    stonewalled[o] = 1 /\ last_err[o] = 0 /\ pc[ThreadOf(o)] \in {"loop", "wait"} =>
      \E u \in Threads \ {ThreadOf(o)} : pc[u] = "endwait"

\* "aio is done in a rotating loop": of two files a thread writes, neither
\* gets ahead by more than one chunk of io_iter requests.
RotationFair ==
  \A t \in Threads : pc[t] = "loop" =>
    \A o, p \in ToSet(active[t]) :
      rw[o] = rw[p] /\ ContextOf(o) = 0 /\ ContextOf(p) = 0
        => started_ios[o] - started_ios[p] <= io_iter

\* A worker returns with nothing in flight ("global num pending is %d" is
\* never printed) and with all its io units.
ExitDrained ==
  Iterations = RUN_FOREVER =>
    \A t \in Threads : pc[t] = "exit" =>
       num_global_pending[t] = 0 /\ free[t] = num_global_ios(t)

\* "how much io this thread did in the last stage" is what it submitted in
\* that stage, however many operations it had, as long as none was refused a
\* restart after a read error (the loop of worker() adds those again each time
\* it goes back to the head of the list) and -I has not stopped the loop with
\* operations still active (those are not added).
StageTransExact ==
  Iterations = RUN_FOREVER => \A t \in Threads :
    pc[t] = "end" /\ (\A o \in OpersOf(t) : last_err[o] = 0) =>
      stage_trans[t] = submitted[t]

\* Who ends a stage, and with what: stonewalling needs a winner, the figures
\* of a stage are those of its own submissions, and nobody returns with io in
\* flight.
StageEnd == CutoffHasWinner /\ StageTransExact /\ ExitDrained

StagePCs == {"begin", "loop", "pick", "build", "built", "submit", "reap", "sort",
             "wait", "restart", "end"}

\* The stages of the workers are synchronised by the protocol StageBarrier.
BarrierPC(t) ==
  CASE pc[t] \in StagePCs -> "stage"
    [] pc[t] \in {"again", "free", "exit"} -> "again"
    [] OTHER -> pc[t]

SB == INSTANCE StageBarrier WITH
        pc <- [t \in Threads |-> BarrierPC(t)],
        MaxRound <- Cardinality(stages)

BarrierRefinement == SB!Spec

\* Without faults, and with operations that all have something to do, the
\* run comes to its end: no thread is left at a barrier.
AllReturn == <>(\A t \in Threads : pc[t] = "exit")

\* With faults it does too, unless io_submit failed (the process exits) or
\* an operation is out of the game after a read error.
ReturnUnlessError ==
  \/ AllReturn
  \/ <>(proc = "exit")
  \/ <>(\E o \in Opers : last_err[o] # 0)
=============================================================================
