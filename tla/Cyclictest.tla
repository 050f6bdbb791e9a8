----------------------------- MODULE Cyclictest -----------------------------
(***************************************************************************)
(* cyclictest/src/cyclictest.c: main starts one timer thread per task,     *)
(* polls their statistics and, when a thread has done its cycles, a        *)
(* latency was too large or a signal came, joins them and restores the     *)
(* kernel variables they have changed.                                     *)
(*                                                                         *)
(* The threads share the backup table kv[] without a lock.  strncpy writes *)
(* a name in two halves, so that a name may be seen half written or end as *)
(* a mixture; a mixture names no kernel variable.  A variable the kernel   *)
(* does not have is left alone by every function and is none of KernVars.  *)
(* A measured latency is represented by the number of its cycle.           *)
(***************************************************************************)
EXTENDS Integers, Sequences

CONSTANTS
  NumThreads,   \* num_threads
  KernVars,     \* the variables timerthread sets, in its order
  KVARS,        \* slots of the backup table (32)
  ValbufSize,   \* VALBUF_SIZE
  Options,      \* settings of the command line: [mode, tracelimit, verbose,
                \* max_cycles]
  MaxFaults     \* bound on failing allocations, thread creations and
                \* accesses to kernel variables

Modes == {"cyclic", "clock_nanosleep", "sys_itimer", "sys_nanosleep"}

ASSUME CyclictestAssumption ==
  /\ NumThreads \in Nat \ {0} /\ KVARS \in Nat
  /\ ValbufSize \in Nat \ {0} /\ MaxFaults \in Nat
  /\ KernVars \in Seq(STRING)
  /\ \A m, n \in 1..Len(KernVars) : KernVars[m] = KernVars[n] => m = n
  /\ "" \notin {KernVars[n] : n \in 1..Len(KernVars)}
  /\ Options \subseteq [mode : Modes, tracelimit : BOOLEAN, verbose : BOOLEAN,
                        max_cycles : Nat \ {0}]

Threads == 0..(NumThreads - 1)
Names == {KernVars[n] : n \in 1..Len(KernVars)}

\* The value a variable has before the test, and the one setkernvar gives it.
Before == 0
Wanted == 1

VARIABLES
  opt,
  main, i,      \* where main is, and its loop variable
  allstopped,
  shutdown,
  kernel,       \* the values of the kernel variables
  kv,           \* the backup table: two halves of a name, a value
  pc,           \* where a timer thread is
  var, slot, oldvalue,   \* setkernvar: which variable, i, oldvalue
  itimer, pending,       \* ITIMER_REAL is armed; a SIGALRM waits
  threadstarted, cycles, cyclesread, values,
  lost,         \* history: names that could not be retrieved, backed up or
                \* restored, or whose backup was overwritten
  faults

mainVars == <<main, i, allstopped>>
tableVars == <<kernel, kv, lost>>
setVars == <<var, slot, oldvalue>>
statVars == <<cycles, cyclesread, values>>
vars == <<opt, mainVars, shutdown, tableVars, pc, setVars, itimer, pending,
          threadstarted, statVars, faults>>

Empty == [first |-> "", second |-> "", value |-> Before]

Init ==
  /\ opt \in Options
  /\ main = "alloc" /\ i = 0 /\ allstopped = FALSE
  /\ shutdown = FALSE
  /\ kernel = [v \in Names |-> Before]
  /\ kv = [k \in 0..(KVARS - 1) |-> Empty]
  /\ pc = [t \in Threads |-> "none"]
  /\ var = [t \in Threads |-> 1] /\ slot = [t \in Threads |-> 0]
  /\ oldvalue = [t \in Threads |-> Before]
  /\ itimer = FALSE /\ pending = FALSE
  /\ threadstarted = [t \in Threads |-> 0]
  /\ cycles = [t \in Threads |-> 0] /\ cyclesread = [t \in Threads |-> 0]
  /\ values = [t \in Threads |-> [k \in 0..(ValbufSize - 1) |-> 0]]
  /\ lost = {} /\ faults = 0

\* Bound: so many calls fail.
Fault == faults < MaxFaults /\ faults' = faults + 1

Goto(t, from, to) == pc[t] = from /\ pc' = [pc EXCEPT ![t] = to]

-----------------------------------------------------------------------------
(* setkernvar, called by every thread for every variable. *)

Name(t) == KernVars[var[t]]
Matches(t) == kv[slot[t]].first = Name(t) /\ kv[slot[t]].second = Name(t)

inSetkernvar == <<opt, mainVars, shutdown, itimer, pending, threadstarted,
                  statVars>>

\* kernvar(O_RDONLY, name, &oldvalue)
ReadOld(t) ==
  /\ Goto(t, "read", "match")
  /\ oldvalue' = [oldvalue EXCEPT ![t] = kernel[Name(t)]]
  /\ UNCHANGED <<inSetkernvar, faults, tableVars, var, slot>>

\* "could not retrieve": no backup is made, and the variable is set all the
\* same.
ReadFails(t) ==
  /\ Goto(t, "read", "write")
  /\ Fault
  /\ lost' = lost \cup {Name(t)}
  /\ UNCHANGED <<inSetkernvar, kernel, kv, setVars>>

\* Mutant: a variable that is already backed up is backed up again.
FoundSlot_never(t) == FALSE

FoundSlot(t) == Matches(t)

Match(t) ==
  /\ slot[t] < KVARS
  /\ Goto(t, "match", IF FoundSlot(t) THEN "write" ELSE "empty")
  /\ UNCHANGED <<inSetkernvar, faults, tableVars, setVars>>

\* "could not backup"
NoSlot(t) ==
  /\ slot[t] = KVARS
  /\ Goto(t, "match", "write")
  /\ lost' = lost \cup {Name(t)}
  /\ UNCHANGED <<inSetkernvar, faults, kernel, kv, setVars>>

TestEmpty(t) ==
  /\ pc[t] = "empty"
  /\ IF kv[slot[t]].first = ""
       THEN Goto(t, "empty", "first") /\ UNCHANGED slot
       ELSE /\ Goto(t, "empty", "match")
            /\ slot' = [slot EXCEPT ![t] = @ + 1]
  /\ UNCHANGED <<inSetkernvar, faults, tableVars, var, oldvalue>>

\* A store into a slot that meanwhile holds another name loses its backup.
Store(t, from, to, entry) ==
  /\ Goto(t, from, to)
  /\ kv' = [kv EXCEPT ![slot[t]] = entry]
  /\ lost' = lost \cup
       ({kv[slot[t]].first, kv[slot[t]].second} \ {"", Name(t)})
  /\ UNCHANGED <<inSetkernvar, faults, kernel, setVars>>

StoreFirst(t) ==
  Store(t, "first", "second", [kv[slot[t]] EXCEPT !.first = Name(t)])
StoreSecond(t) ==
  Store(t, "second", "value", [kv[slot[t]] EXCEPT !.second = Name(t)])
StoreValue(t) ==
  Store(t, "value", "write", [kv[slot[t]] EXCEPT !.value = oldvalue[t]])

\* kernvar(O_WRONLY, name, &value), or "could not set"; the locals are gone
\* with the call.
WriteNew(t) ==
  /\ Goto(t, "write", IF var[t] = Len(KernVars) THEN "start" ELSE "read")
  /\ \/ kernel' = [kernel EXCEPT ![Name(t)] = Wanted] /\ UNCHANGED faults
     \/ Fault /\ UNCHANGED kernel
  /\ var' = [var EXCEPT ![t] = @ + 1]
  /\ slot' = [slot EXCEPT ![t] = 0]
  /\ oldvalue' = [oldvalue EXCEPT ![t] = Before]
  /\ UNCHANGED <<inSetkernvar, kv, lost>>

-----------------------------------------------------------------------------
(* The rest of timerthread. *)

\* The timers are set up; threadstarted++ races with the store of main.
Start(t) ==
  /\ Goto(t, "start", "loop")
  /\ itimer' = (itimer \/ opt.mode = "sys_itimer")
  /\ \E n \in {1, threadstarted[t] + 1} :
       threadstarted' = [threadstarted EXCEPT ![t] = n]
  /\ UNCHANGED <<opt, mainVars, shutdown, tableVars, setVars, pending,
                 statVars, faults>>

TestShutdown(t) ==
  /\ Goto(t, "loop", IF shutdown THEN "out" ELSE "wait")
  /\ UNCHANGED <<opt, mainVars, shutdown, tableVars, setVars, itimer, pending,
                 threadstarted, statVars, faults>>

\* The period of this thread is over.  Of a process's SIGALRM one of the
\* waiting threads gets it; sigwait is not interrupted by a SIGTERM.
Woken(t) ==
  IF opt.mode = "sys_itimer" THEN pending /\ pending' = FALSE
                             ELSE UNCHANGED pending

\* A latency above tracelimit shuts the test down; the cycle is counted.
Measure(t) ==
  /\ Goto(t, "wait", "store")
  /\ Woken(t)
  /\ \E above \in BOOLEAN :
       shutdown' = (shutdown \/ (opt.tracelimit /\ above))
  /\ cycles' = [cycles EXCEPT ![t] = @ + 1]
  /\ UNCHANGED <<opt, mainVars, tableVars, setVars, itimer, threadstarted,
                 cyclesread, values, faults>>

\* Mutant: the mask keeps one slot less.
Slot_small(n) == IF ValbufSize > 1 THEN n % (ValbufSize - 1) ELSE 0

\* n & par->bufmsk
Slot(n) == n % ValbufSize

StoreMeasure(t) ==
  /\ Goto(t, "store", IF cycles[t] = opt.max_cycles THEN "out" ELSE "loop")
  /\ values' = IF opt.verbose
                 THEN [values EXCEPT ![t][Slot(cycles[t])] = cycles[t]]
                 ELSE values
  /\ UNCHANGED <<opt, mainVars, shutdown, tableVars, setVars, itimer, pending,
                 threadstarted, cycles, cyclesread, faults>>

\* timer_delete, or setitimer of the one timer of the process to zero.
Disarm(t) ==
  /\ Goto(t, "out", "end")
  /\ itimer' = (itimer /\ opt.mode # "sys_itimer")
  /\ UNCHANGED <<opt, mainVars, shutdown, tableVars, setVars, pending,
                 threadstarted, statVars, faults>>

End(t) ==
  /\ Goto(t, "end", "ended")
  /\ threadstarted' = [threadstarted EXCEPT ![t] = -1]
  /\ UNCHANGED <<opt, mainVars, shutdown, tableVars, setVars, itimer, pending,
                 statVars, faults>>

TimerThread(t) ==
  \/ ReadOld(t) \/ ReadFails(t) \/ Match(t) \/ NoSlot(t)
  \/ TestEmpty(t) \/ StoreFirst(t) \/ StoreSecond(t) \/ StoreValue(t) \/ WriteNew(t)
  \/ Start(t) \/ TestShutdown(t) \/ Measure(t) \/ StoreMeasure(t)
  \/ Disarm(t) \/ End(t)

-----------------------------------------------------------------------------
(* main, print_stat and restorekernvars. *)

inMain == <<opt, setVars, itimer, pending, cycles, values>>

MainTo(place, index) == main' = place /\ i' = index

\* par and stat; nothing has been started when one of them fails.
Alloc ==
  /\ main = "alloc"
  /\ \/ MainTo("create", 0) /\ UNCHANGED faults
     \/ Fault /\ MainTo("restore", 0)
  /\ UNCHANGED <<inMain, allstopped, shutdown, tableVars, pc, threadstarted,
                 cyclesread>>

\* pthread_create, whose result nobody looks at.
Create ==
  /\ main = "create" /\ i < NumThreads
  /\ MainTo("mark", i)
  /\ \/ /\ pc' = [pc EXCEPT ![i] = IF opt.tracelimit /\ Len(KernVars) > 0
                                    THEN "read" ELSE "start"]
        /\ UNCHANGED faults
     \/ /\ Fault
        /\ pc' = [pc EXCEPT ![i] = "failed"]
  /\ UNCHANGED <<inMain, allstopped, shutdown, tableVars, threadstarted,
                 cyclesread>>

\* stat[i].values cannot be allocated: goto outall.
NoValues ==
  /\ main = "create" /\ i < NumThreads /\ opt.verbose
  /\ Fault
  /\ MainTo("join", 0) /\ shutdown' = TRUE
  /\ UNCHANGED <<inMain, allstopped, tableVars, pc, threadstarted, cyclesread>>

\* Mutant: the thread alone says that it has been started.
Marked_no(t) == UNCHANGED threadstarted

Marked(t) == threadstarted' = [threadstarted EXCEPT ![t] = 1]

Mark ==
  /\ main = "mark"
  /\ Marked(i)
  /\ MainTo("create", i + 1)
  /\ UNCHANGED <<inMain, allstopped, shutdown, tableVars, pc, cyclesread, faults>>

\* The head of the polling loop; outall sets shutdown.
Poll ==
  /\ \/ main = "create" /\ i = NumThreads
     \/ main = "poll"
  /\ MainTo(IF shutdown THEN "join" ELSE "print", 0)
  /\ allstopped' = FALSE
  /\ UNCHANGED <<inMain, shutdown, tableVars, pc, threadstarted, cyclesread,
                 faults>>

\* print_stat, one value at a time.
PrintValue ==
  /\ main = "print" /\ i < NumThreads
  /\ opt.verbose /\ cycles[i] # cyclesread[i]
  /\ cyclesread' = [cyclesread EXCEPT ![i] = @ + 1]
  /\ UNCHANGED <<inMain, mainVars, shutdown, tableVars, pc, threadstarted, faults>>

Printed ==
  /\ main = "print" /\ i < NumThreads
  /\ opt.verbose => cycles[i] = cyclesread[i]
  /\ allstopped' = (allstopped \/ cycles[i] >= opt.max_cycles)
  /\ MainTo("print", i + 1)
  /\ UNCHANGED <<inMain, shutdown, tableVars, pc, threadstarted, cyclesread,
                 faults>>

\* One thread that has done its cycles is enough.
Polled ==
  /\ main = "print" /\ i = NumThreads
  /\ IF shutdown \/ allstopped
       THEN MainTo("join", 0) /\ shutdown' = TRUE
       ELSE MainTo("poll", 0) /\ UNCHANGED shutdown
  /\ UNCHANGED <<inMain, allstopped, tableVars, pc, threadstarted, cyclesread,
                 faults>>

\* Mutant: a thread that was never created is waited for too.
Joinable_all(t) == TRUE

\* pthread_join is called.
Joinable(t) == threadstarted[t] # 0

\* The SIGTERM has no effect but shutdown; a thread that was never created
\* has no id to send it to.
Join ==
  /\ main = "join" /\ i < NumThreads
  /\ IF pc[i] = "failed" THEN MainTo("crashed", i)
     ELSE /\ Joinable(i) => pc[i] = "ended"
          /\ MainTo("join", i + 1)
  /\ UNCHANGED <<inMain, allstopped, shutdown, tableVars, pc, threadstarted,
                 cyclesread, faults>>

Joined ==
  /\ main = "join" /\ i = NumThreads
  /\ MainTo("restore", 0)
  /\ UNCHANGED <<inMain, allstopped, shutdown, tableVars, pc, threadstarted,
                 cyclesread, faults>>

\* One entry of the table; a name that is a mixture cannot be opened.
Restore ==
  /\ main = "restore" /\ i < KVARS
  /\ kernel' = IF kv[i].first \in Names /\ kv[i].second = kv[i].first
                 THEN [kernel EXCEPT ![kv[i].first] = kv[i].value] ELSE kernel
  /\ MainTo("restore", i + 1)
  /\ UNCHANGED <<inMain, allstopped, shutdown, kv, lost, pc, threadstarted,
                 cyclesread, faults>>

\* "could not restore", and on to the next entry.
RestoreFails ==
  /\ main = "restore" /\ i < KVARS
  /\ kv[i].first \in Names /\ kv[i].second = kv[i].first
  /\ Fault
  /\ lost' = lost \cup {kv[i].first}
  /\ MainTo("restore", i + 1)
  /\ UNCHANGED <<inMain, allstopped, shutdown, kernel, kv, pc, threadstarted,
                 cyclesread>>

Exit ==
  /\ main = "restore" /\ i = KVARS
  /\ MainTo("exited", 0)
  /\ UNCHANGED <<inMain, allstopped, shutdown, tableVars, pc, threadstarted,
                 cyclesread, faults>>

Main ==
  \/ Alloc \/ Create \/ NoValues \/ Mark \/ Poll \/ PrintValue \/ Printed
  \/ Polled \/ Join \/ Joined \/ Restore \/ RestoreFails \/ Exit

\* SIGINT or SIGTERM from outside: sighand.
Interrupt ==
  /\ main \notin {"exited", "crashed"} /\ ~shutdown
  /\ shutdown' = TRUE
  /\ UNCHANGED <<inMain, mainVars, tableVars, pc, threadstarted, cyclesread,
                 faults>>

\* The interval of ITIMER_REAL is over.
Tick ==
  /\ itimer /\ ~pending /\ main \notin {"exited", "crashed"}
  /\ pending' = TRUE
  /\ UNCHANGED <<opt, mainVars, shutdown, tableVars, pc, setVars, itimer,
                 threadstarted, statVars, faults>>

Threading == \E t \in Threads : main # "crashed" /\ TimerThread(t)

Next == Main \/ Threading \/ Interrupt \/ Tick

Spec == Init /\ [][Next]_vars

\* Every thread is scheduled, and an armed timer expires.  The signals of a
\* user are not promised.
Fairness ==
  /\ WF_vars(Main) /\ WF_vars(Tick)
  /\ \A t \in Threads : WF_vars(TimerThread(t))

FairSpec == Spec /\ Fairness

-----------------------------------------------------------------------------
(* Properties. *)

TypeOK ==
  /\ opt \in Options
  /\ main \in {"alloc", "create", "mark", "poll", "print", "join", "restore",
               "exited", "crashed"}
  /\ i \in 0..(NumThreads + KVARS) /\ allstopped \in BOOLEAN
  /\ shutdown \in BOOLEAN
  /\ kernel \in [Names -> {Before, Wanted}]
  /\ kv \in [0..(KVARS - 1) -> [first : Names \cup {""},
                second : Names \cup {""}, value : {Before, Wanted}]]
  /\ pc \in [Threads -> {"none", "failed", "read", "match", "empty", "first",
                "second", "value", "write", "start", "loop", "wait", "store",
                "out", "end", "ended"}]
  /\ var \in [Threads -> 1..(Len(KernVars) + 1)]
  /\ slot \in [Threads -> 0..KVARS]
  /\ oldvalue \in [Threads -> {Before, Wanted}]
  /\ itimer \in BOOLEAN /\ pending \in BOOLEAN
  /\ threadstarted \in [Threads -> {-1, 0, 1, 2}]
  /\ cycles \in [Threads -> 0..opt.max_cycles]
  /\ cyclesread \in [Threads -> 0..opt.max_cycles]
  /\ values \in [Threads -> [0..(ValbufSize - 1) -> 0..opt.max_cycles]]
  /\ lost \subseteq Names
  /\ faults \in 0..MaxFaults

\* "Be a nice program, cleanup": when cyclictest exits every kernel variable
\* has the value it had before, unless it was said that this variable could
\* not be retrieved, backed up or restored, or two threads took the same slot
\* of the table for different names.
RestoredUnlessLost ==
  main = "exited" => \A v \in Names \ lost : kernel[v] = Before

\* main frees the statistics and the value buffers, and restores the kernel
\* variables, only when no timer thread is left that could touch them.
NoUseAfterFree ==
  main \in {"restore", "exited"} =>
    \A t \in Threads : pc[t] \in {"none", "failed", "ended"}

\* The value print_stat takes next is the one of the cycle it is printed
\* with, although the thread goes on writing the buffer, as long as main is
\* less than the size of the buffer behind.  (For count 0, which no cycle has,
\* it is the initial 0.)
PrintsItsCycle ==
  opt.verbose => \A t \in Threads :
    cyclesread[t] < cycles[t] /\ cycles[t] - cyclesread[t] < ValbufSize =>
      values[t][cyclesread[t] % ValbufSize] = cyclesread[t]

\* A test that was told to stop, or that has bounded cycles, ends, unless the
\* threads share the interval timer of the process: the first one that leaves
\* disarms it, and the others wait for a signal that no longer comes.
EndsUnlessItimer ==
  opt.mode # "sys_itimer" \/ NumThreads = 1 ~> main \in {"exited", "crashed"}

=============================================================================
