------------------------- MODULE Cyclictest_proofs -------------------------
(***************************************************************************)
(* Safety of Cyclictest for any number of threads, kernel variables and    *)
(* slots of the backup table.                                              *)
(*                                                                         *)
(* The table fills from its beginning, so that a thread that has read a    *)
(* value already changed finds the slot that holds the old one before it   *)
(* comes to an empty one.  What breaks this is a slot taken for two names; *)
(* the history variable lost names the variables this happens to.          *)
(***************************************************************************)
EXTENDS Cyclictest, TLAPS

Saving == {"read", "match", "empty", "first", "second", "value", "write"}
Places == Saving \cup {"none", "failed", "start", "loop", "wait", "store",
                       "out", "end", "ended"}

Slots == 0..(KVARS - 1)
Entries == [first : Names \cup {""}, second : Names \cup {""}, value : {Before, Wanted}]

ThreadInv ==
  \A t \in Threads :
    /\ pc[t] \in Saving => var[t] <= Len(KernVars)
    /\ pc[t] \in {"empty", "first", "second", "value"} => slot[t] < KVARS
    /\ pc[t] \in {"none", "failed", "loop", "wait"} \cup Saving => cycles[t] < opt.max_cycles
    /\ pc[t] = "start" => cycles[t] < opt.max_cycles
    /\ cyclesread[t] <= cycles[t]
    /\ pc[t] = "none" => var[t] = 1
    /\ pc[t] \in {"none", "read"} => slot[t] = 0 /\ oldvalue[t] = Before

StartInv ==
  \A t \in Threads :
    /\ threadstarted[t] = -1 => pc[t] = "ended"
    /\ pc[t] \in Saving \cup {"none", "failed", "start"} => threadstarted[t] \in {0, 1}
    /\ pc[t] \notin {"none", "failed"} => threadstarted[t] # 0 \/ (main = "mark" /\ i = t)

MainInv ==
  /\ main \in {"create", "print", "join"} => i <= NumThreads
  /\ main = "mark" => i < NumThreads
  /\ main = "restore" => i <= KVARS
  /\ main = "alloc" => \A t \in Threads : pc[t] = "none"
  /\ main = "create" => \A t \in Threads : t >= i => pc[t] = "none"
  /\ main = "mark" => \A t \in Threads : t > i => pc[t] = "none"
  /\ main = "join" => \A t \in Threads : t < i => pc[t] \in {"none", "ended"}
  /\ main \in {"restore", "exited"} => \A t \in Threads : pc[t] \in {"none", "ended"}

BaseInv == TypeOK /\ ThreadInv /\ StartInv /\ MainInv

Full(k, v) == kv[k].first = v /\ kv[k].second = v

\* No empty slot before a used one, nor before the one a thread looks at.
FilledInv ==
  /\ \A k, l \in Slots : k < l /\ kv[l].first # "" => kv[k].first # ""
  /\ \A t \in Threads : \A k \in Slots :
       pc[t] \in Saving /\ k < slot[t] => kv[k].first # ""

\* A thread that stores a name has it in the slot, or the name is lost.
OwnInv ==
  \A t \in Threads : pc[t] \in Saving /\ Name(t) \notin lost =>
    /\ pc[t] = "second" => kv[slot[t]].first = Name(t)
    /\ pc[t] = "value" => Full(slot[t], Name(t))

\* A thread that has read the new value has the backup still before it.
AheadInv ==
  \A t \in Threads : pc[t] \in Saving /\ oldvalue[t] = Wanted /\ Name(t) \notin lost =>
    /\ pc[t] = "match" => \E k \in Slots : k >= slot[t] /\ Full(k, Name(t))
    /\ pc[t] = "empty" => \E k \in Slots : k > slot[t] /\ Full(k, Name(t))
    /\ pc[t] \notin {"first", "second", "value"}

\* A backup of the new value is one a thread is about to complete.
ValueInv ==
  \A v \in Names \ lost : \A k \in Slots :
    Full(k, v) /\ kv[k].value # Before =>
      \E t \in Threads : pc[t] \in {"second", "value"} /\ slot[t] = k /\ Name(t) = v

\* Nothing is changed without a backup.
SavedInv ==
  \A v \in Names \ lost :
    main \notin {"restore", "exited"} /\
    (kernel[v] # Before \/ \E t \in Threads : pc[t] = "write" /\ Name(t) = v)
      => \E k \in Slots : Full(k, v)

RestoreInv ==
  \A v \in Names \ lost : kernel[v] # Before =>
    /\ main # "exited"
    /\ main = "restore" => \E k \in Slots : k >= i /\ Full(k, v)

TableInv == FilledInv /\ OwnInv /\ AheadInv /\ ValueInv /\ SavedInv /\ RestoreInv

-----------------------------------------------------------------------------
(* Constants. *)

LEMMA Sizes ==
  /\ NumThreads \in Nat \ {0} /\ KVARS \in Nat
  /\ ValbufSize \in Nat \ {0} /\ MaxFaults \in Nat
BY CyclictestAssumption

LEMMA NumVars == Len(KernVars) \in Nat
<1>1. KernVars \in Seq(STRING)
  BY CyclictestAssumption
<1>. QED  BY <1>1

LEMMA MaxCycles == \A o \in Options : o.max_cycles \in Nat \ {0}
BY CyclictestAssumption

LEMMA NoEmptyName == "" \notin Names
BY CyclictestAssumption DEF Names

USE Sizes, NumVars

-----------------------------------------------------------------------------
(* Types, bounds, and where the threads are for each place of main. *)

\* The bound on the calls that fail.
LEMMA FaultBound ==
  ASSUME TypeOK, Fault \/ UNCHANGED faults
  PROVE  faults' \in 0..MaxFaults
<1>1. faults \in 0..MaxFaults
  BY DEF TypeOK
<1>. QED  BY <1>1 DEF Fault

LEMMA Facts ==
  ASSUME BaseInv
  PROVE  /\ opt.max_cycles \in Nat \ {0}
         /\ \A t \in Threads : pc[t] \in Saving => Name(t) \in Names
<1>1. opt.max_cycles \in Nat \ {0}
  BY MaxCycles DEF BaseInv, TypeOK
<1>2. ASSUME NEW t \in Threads, pc[t] \in Saving PROVE Name(t) \in Names
  <2>1. var[t] \in 1..(Len(KernVars) + 1)
    BY DEF BaseInv, TypeOK
  <2>2. var[t] <= Len(KernVars)
    BY <1>2 DEF BaseInv, ThreadInv
  <2>3. var[t] \in 1..Len(KernVars)
    BY <2>1, <2>2
  <2>. QED  BY <2>3 DEF Name, Names
<1>. QED  BY <1>1, <1>2

LEMMA BaseInit == Init => BaseInv
<1> SUFFICES ASSUME Init PROVE BaseInv
  OBVIOUS
<1> USE DEF Init
<1>1. opt.max_cycles \in Nat \ {0}
  BY MaxCycles
<1>2. TypeOK
  <2>1. kv \in [0..(KVARS - 1) -> [first : Names \cup {""}, second : Names \cup {""}, value : {Before, Wanted}]]
    BY DEF Empty
  <2>2. values \in [Threads -> [0..(ValbufSize - 1) -> 0..opt.max_cycles]]
    BY <1>1
  <2>3. pc \in [Threads -> Places] /\ kernel \in [Names -> {Before, Wanted}]
    BY DEF Places
  <2>4. var \in [Threads -> 1..(Len(KernVars) + 1)]
    OBVIOUS
  <2>5. slot \in [Threads -> 0..KVARS] /\ oldvalue \in [Threads -> {Before, Wanted}]
    OBVIOUS
  <2>6. /\ cycles \in [Threads -> 0..opt.max_cycles]
        /\ cyclesread \in [Threads -> 0..opt.max_cycles]
        /\ threadstarted \in [Threads -> {-1, 0, 1, 2}]
    BY <1>1
  <2>7. /\ opt \in Options /\ allstopped \in BOOLEAN /\ shutdown \in BOOLEAN
        /\ itimer \in BOOLEAN /\ pending \in BOOLEAN /\ lost \subseteq Names
    BY Zenon
  <2>8. i \in 0..(NumThreads + KVARS) /\ faults \in 0..MaxFaults
    OBVIOUS
  <2>9. main \in {"alloc", "create", "mark", "poll", "print", "join", "restore", "exited", "crashed"}
    OBVIOUS
  <2> HIDE DEF Init
  <2>. QED  BY <2>1, <2>2, <2>3, <2>4, <2>5, <2>6, <2>7, <2>8, <2>9 DEF TypeOK, Places, Saving
<1>3. ThreadInv
  BY <1>1 DEF ThreadInv, Saving
<1>4. StartInv /\ MainInv
  BY DEF StartInv, MainInv, Saving
<1>. QED  BY <1>2, <1>3, <1>4 DEF BaseInv

\* setkernvar and the rest of timerthread.
LEMMA ThreadBase ==
  ASSUME BaseInv, NEW t \in Threads, TimerThread(t)
  PROVE  BaseInv'
<1>type. TypeOK
  BY DEF BaseInv
<1>thr. ThreadInv
  BY DEF BaseInv
<1>sta. StartInv
  BY DEF BaseInv
<1>main. MainInv
  BY DEF BaseInv
<1>max. opt.max_cycles \in Nat \ {0}
  BY Facts
<1>name. pc[t] \in Saving => Name(t) \in Names
  BY Facts
<1>table. /\ kernel \in [Names -> {Before, Wanted}] /\ lost \subseteq Names
          /\ kv \in [0..(KVARS - 1) -> [first : Names \cup {""}, second : Names \cup {""}, value : {Before, Wanted}]]
  BY <1>type DEF TypeOK
<1>set. /\ var \in [Threads -> 1..(Len(KernVars) + 1)] /\ slot \in [Threads -> 0..KVARS]
        /\ oldvalue \in [Threads -> {Before, Wanted}]
  BY <1>type DEF TypeOK
<1>stat. /\ cycles \in [Threads -> 0..opt.max_cycles] /\ cyclesread \in [Threads -> 0..opt.max_cycles]
         /\ values \in [Threads -> [0..(ValbufSize - 1) -> 0..opt.max_cycles]]
         /\ threadstarted \in [Threads -> {-1, 0, 1, 2}]
  BY <1>type DEF TypeOK
<1>low. pc[t] \in {"empty", "first", "second", "value"} => slot[t] < KVARS
  BY <1>thr DEF ThreadInv
<1>pc. pc \in [Threads -> Places]
  BY <1>type DEF TypeOK, Places, Saving
<1> USE DEF Goto, Saving, mainVars, tableVars, statVars, setVars, inSetkernvar
<1>1. CASE ReadOld(t)
  <2>0. oldvalue' \in [Threads -> {Before, Wanted}]
    BY <1>1, <1>set, <1>table, <1>name DEF ReadOld
  <2>1. TypeOK'
    BY <1>1, <1>type, <2>0 DEF ReadOld, TypeOK
  <2>2. ThreadInv'
    BY <1>1, <1>thr, <1>set, <1>stat, <1>max, <1>pc DEF ReadOld, ThreadInv
  <2>3. StartInv'
    BY <1>1, <1>sta, <1>stat, <1>pc DEF ReadOld, StartInv
  <2>4. MainInv'
    BY <1>1, <1>main, <1>pc DEF ReadOld, MainInv
  <2>. QED  BY <2>1, <2>2, <2>3, <2>4 DEF BaseInv
<1>1f. CASE ReadFails(t)
  <2>1. lost' \subseteq Names
    BY <1>1f, <1>name, <1>table DEF ReadFails
  <2>2. TypeOK'
    <3>1. faults' \in 0..MaxFaults
      BY <1>1f, <1>type, FaultBound DEF ReadFails
    <3>. QED  BY <1>1f, <1>type, <2>1, <3>1 DEF ReadFails, TypeOK
  <2>3. ThreadInv'
    BY <1>1f, <1>thr, <1>set, <1>stat, <1>max, <1>pc DEF ReadFails, ThreadInv
  <2>4. StartInv'
    BY <1>1f, <1>sta, <1>stat, <1>pc DEF ReadFails, StartInv
  <2>5. MainInv'
    BY <1>1f, <1>main, <1>pc DEF ReadFails, MainInv
  <2>. QED  BY <2>2, <2>3, <2>4, <2>5 DEF BaseInv
<1>2. CASE Match(t)
  <2>1. TypeOK'
    BY <1>2, <1>type DEF Match, TypeOK
  <2>2. ThreadInv'
    BY <1>2, <1>thr, <1>set, <1>stat, <1>max, <1>pc DEF Match, ThreadInv
  <2>3. StartInv'
    BY <1>2, <1>sta, <1>stat, <1>pc DEF Match, StartInv
  <2>4. MainInv'
    BY <1>2, <1>main, <1>pc DEF Match, MainInv
  <2>. QED  BY <2>1, <2>2, <2>3, <2>4 DEF BaseInv
<1>3. CASE NoSlot(t)
  <2>1. lost' \subseteq Names
    BY <1>3, <1>name, <1>table DEF NoSlot
  <2>2. TypeOK'
    BY <1>3, <1>type, <2>1 DEF NoSlot, TypeOK
  <2>3. ThreadInv'
    BY <1>3, <1>thr, <1>set, <1>stat, <1>max, <1>pc DEF NoSlot, ThreadInv
  <2>4. StartInv'
    BY <1>3, <1>sta, <1>stat, <1>pc DEF NoSlot, StartInv
  <2>5. MainInv'
    BY <1>3, <1>main, <1>pc DEF NoSlot, MainInv
  <2>. QED  BY <2>2, <2>3, <2>4, <2>5 DEF BaseInv
<1>4. CASE TestEmpty(t)
  <2>1. slot' \in [Threads -> 0..KVARS]
    <3>1. pc[t] = "empty" /\ (slot' = slot \/ slot' = [slot EXCEPT ![t] = @ + 1])
      BY <1>4 DEF TestEmpty
    <3>2. slot[t] \in 0..KVARS /\ slot[t] < KVARS
      BY <3>1, <1>set, <1>low
    <3>3. slot[t] + 1 \in 0..KVARS
      BY <3>2
    <3>. QED  BY <3>1, <3>3, <1>set
  <2>2. TypeOK'
    BY <1>4, <1>type, <2>1 DEF TestEmpty, TypeOK
  <2>3. ThreadInv'
    BY <1>4, <1>thr, <1>set, <1>stat, <1>max, <1>pc DEF TestEmpty, ThreadInv
  <2>4. StartInv'
    BY <1>4, <1>sta, <1>stat, <1>pc DEF TestEmpty, StartInv
  <2>5. MainInv'
    BY <1>4, <1>main, <1>pc DEF TestEmpty, MainInv
  <2>. QED  BY <2>2, <2>3, <2>4, <2>5 DEF BaseInv
<1>5. CASE StoreFirst(t) \/ StoreSecond(t) \/ StoreValue(t)
  <2>1. slot[t] \in Slots /\ Name(t) \in Names
    <3>1. pc[t] \in {"first", "second", "value"}
      BY <1>5 DEF StoreFirst, StoreSecond, StoreValue, Store
    <3>2. slot[t] \in 0..KVARS /\ slot[t] < KVARS
      BY <3>1, <1>set, <1>low
    <3>. QED  BY <3>1, <3>2, <1>name DEF Slots
  <2>2. kv' \in [Slots -> Entries]
    <3>1. kv[slot[t]] \in Entries /\ kv \in [Slots -> Entries] /\ oldvalue[t] \in {Before, Wanted}
      BY <2>1, <1>set, <1>table DEF Slots, Entries
    <3>2. ASSUME NEW e \in Entries, kv' = [kv EXCEPT ![slot[t]] = e] PROVE kv' \in [Slots -> Entries]
      BY <3>1, <3>2
    <3>3. /\ [kv[slot[t]] EXCEPT !.first = Name(t)] \in Entries
          /\ [kv[slot[t]] EXCEPT !.second = Name(t)] \in Entries
          /\ [kv[slot[t]] EXCEPT !.value = oldvalue[t]] \in Entries
      BY <2>1, <3>1 DEF Entries
    <3>. QED  BY <1>5, <3>2, <3>3 DEF StoreFirst, StoreSecond, StoreValue, Store
  <2>3. lost' \subseteq Names
    <3>1. kv[slot[t]].first \in Names \cup {""} /\ kv[slot[t]].second \in Names \cup {""}
      BY <2>1, <1>table DEF Slots
    <3>2. lost' = lost \cup ({kv[slot[t]].first, kv[slot[t]].second} \ {"", Name(t)})
      BY <1>5 DEF StoreFirst, StoreSecond, StoreValue, Store
    <3>. QED  BY <3>1, <3>2, <1>table
  <2>4. TypeOK'
    BY <1>5, <1>type, <2>1, <2>2, <2>3 DEF StoreFirst, StoreSecond, StoreValue, Store, TypeOK, Slots, Entries
  <2>5. ThreadInv'
    BY <1>5, <1>thr, <1>set, <1>stat, <1>max, <1>pc DEF StoreFirst, StoreSecond, StoreValue, Store, ThreadInv
  <2>6. StartInv'
    BY <1>5, <1>sta, <1>stat, <1>pc DEF StoreFirst, StoreSecond, StoreValue, Store, StartInv
  <2>7. MainInv'
    BY <1>5, <1>main, <1>pc DEF StoreFirst, StoreSecond, StoreValue, Store, MainInv
  <2>. QED  BY <2>4, <2>5, <2>6, <2>7 DEF BaseInv
<1>6. CASE WriteNew(t)
  <2>1. kernel' \in [Names -> {Before, Wanted}]
    BY <1>6, <1>name, <1>table DEF WriteNew
  <2>2. var' \in [Threads -> 1..(Len(KernVars) + 1)]
    BY <1>6, <1>set, <1>thr DEF WriteNew, ThreadInv
  <2>3. slot' \in [Threads -> 0..KVARS] /\ oldvalue' \in [Threads -> {Before, Wanted}]
    BY <1>6, <1>set DEF WriteNew
  <2>4. TypeOK'
    <3>1. faults' \in 0..MaxFaults
      BY <1>6, <1>type, FaultBound DEF WriteNew
    <3>. QED  BY <1>6, <1>type, <2>1, <2>2, <2>3, <3>1 DEF WriteNew, TypeOK
  <2>5. ThreadInv'
    <3>1. /\ var' = [var EXCEPT ![t] = @ + 1] /\ slot' = [slot EXCEPT ![t] = 0]
          /\ oldvalue' = [oldvalue EXCEPT ![t] = Before] /\ UNCHANGED <<cycles, cyclesread, opt>>
          /\ \/ pc' = [pc EXCEPT ![t] = "start"]
             \/ pc' = [pc EXCEPT ![t] = "read"] /\ var[t] # Len(KernVars)
          /\ pc[t] = "write"
      BY <1>6 DEF WriteNew
    <3>2. var[t] \in 1..(Len(KernVars) + 1) /\ var[t] <= Len(KernVars) /\ cycles[t] < opt.max_cycles
      BY <3>1, <1>thr, <1>set DEF ThreadInv
    <3>. QED  BY <3>1, <3>2, <1>thr, <1>set, <1>pc DEF ThreadInv
  <2>6. StartInv'
    BY <1>6, <1>sta, <1>stat, <1>pc DEF WriteNew, StartInv
  <2>7. MainInv'
    BY <1>6, <1>main, <1>pc DEF WriteNew, MainInv
  <2>. QED  BY <2>4, <2>5, <2>6, <2>7 DEF BaseInv
<1>7. CASE Start(t)
  <2>1. threadstarted[t] \in {0, 1}
    BY <1>7, <1>sta DEF Start, StartInv
  <2>2. threadstarted' \in [Threads -> {-1, 0, 1, 2}]
    BY <1>7, <2>1, <1>stat DEF Start
  <2>3. itimer' \in BOOLEAN
    BY <1>7 DEF Start
  <2>4. TypeOK'
    BY <1>7, <1>type, <2>1, <2>2, <2>3 DEF Start, TypeOK
  <2>5. ThreadInv'
    BY <1>7, <1>thr, <1>set, <1>stat, <1>max, <1>pc DEF Start, ThreadInv
  <2>6. StartInv'
    BY <1>7, <1>sta, <1>stat, <1>pc DEF Start, StartInv
  <2>7. MainInv'
    BY <1>7, <1>main, <1>pc DEF Start, MainInv
  <2>. QED  BY <2>4, <2>5, <2>6, <2>7 DEF BaseInv
<1>8. CASE TestShutdown(t)
  <2>1. TypeOK'
    BY <1>8, <1>type DEF TestShutdown, TypeOK
  <2>2. ThreadInv'
    BY <1>8, <1>thr, <1>set, <1>stat, <1>max, <1>pc DEF TestShutdown, ThreadInv
  <2>3. StartInv'
    BY <1>8, <1>sta, <1>stat, <1>pc DEF TestShutdown, StartInv
  <2>4. MainInv'
    BY <1>8, <1>main, <1>pc DEF TestShutdown, MainInv
  <2>. QED  BY <2>1, <2>2, <2>3, <2>4 DEF BaseInv
<1>9. CASE Measure(t)
  <2>1. cycles[t] < opt.max_cycles
    BY <1>9, <1>thr DEF Measure, ThreadInv
  <2>2. cycles' \in [Threads -> 0..opt.max_cycles]
    BY <1>9, <2>1, <1>max, <1>stat DEF Measure
  <2>3. shutdown' \in BOOLEAN
    BY <1>9 DEF Measure
  <2>4. pending' \in BOOLEAN
    BY <1>9, <1>type DEF Measure, Woken, TypeOK
  <2>5. TypeOK'
    BY <1>9, <1>type, <2>1, <2>2, <2>3, <2>4 DEF Measure, Woken, TypeOK
  <2>6. ThreadInv'
    <3>1. pc' = [pc EXCEPT ![t] = "store"] /\ cycles' = [cycles EXCEPT ![t] = @ + 1]
      BY <1>9 DEF Measure
    <3>2. UNCHANGED <<var, slot, oldvalue, cyclesread, opt>>
      BY <1>9 DEF Measure
    <3>. QED  BY <3>1, <3>2, <1>thr, <1>stat, <1>pc DEF ThreadInv
  <2>7. StartInv'
    BY <1>9, <1>sta, <1>stat, <1>pc DEF Measure, Woken, StartInv
  <2>8. MainInv'
    BY <1>9, <1>main, <1>pc DEF Measure, Woken, MainInv
  <2>. QED  BY <2>5, <2>6, <2>7, <2>8 DEF BaseInv
<1>10. CASE StoreMeasure(t)
  <2>1. values' \in [Threads -> [0..(ValbufSize - 1) -> 0..opt.max_cycles]]
    BY <1>10, <1>stat, <1>max DEF StoreMeasure, Slot
  <2>2. TypeOK'
    BY <1>10, <1>type, <2>1 DEF StoreMeasure, TypeOK
  <2>3. ThreadInv'
    <3>1. \/ pc' = [pc EXCEPT ![t] = "out"]
          \/ pc' = [pc EXCEPT ![t] = "loop"] /\ cycles[t] # opt.max_cycles
      BY <1>10 DEF StoreMeasure
    <3>2. UNCHANGED <<var, slot, oldvalue, cycles, cyclesread, opt>>
      BY <1>10 DEF StoreMeasure
    <3>3. cycles[t] \in 0..opt.max_cycles
      BY <1>stat
    <3>. QED  BY <3>1, <3>2, <3>3, <1>thr, <1>max, <1>pc DEF ThreadInv
  <2>4. StartInv'
    BY <1>10, <1>sta, <1>stat, <1>pc DEF StoreMeasure, StartInv
  <2>5. MainInv'
    BY <1>10, <1>main, <1>pc DEF StoreMeasure, MainInv
  <2>. QED  BY <2>2, <2>3, <2>4, <2>5 DEF BaseInv
<1>11. CASE Disarm(t)
  <2>1. itimer' \in BOOLEAN
    BY <1>11 DEF Disarm
  <2>2. TypeOK'
    BY <1>11, <1>type, <2>1 DEF Disarm, TypeOK
  <2>3. ThreadInv'
    BY <1>11, <1>thr, <1>set, <1>stat, <1>max, <1>pc DEF Disarm, ThreadInv
  <2>4. StartInv'
    BY <1>11, <1>sta, <1>stat, <1>pc DEF Disarm, StartInv
  <2>5. MainInv'
    BY <1>11, <1>main, <1>pc DEF Disarm, MainInv
  <2>. QED  BY <2>2, <2>3, <2>4, <2>5 DEF BaseInv
<1>12. CASE End(t)
  <2>1. threadstarted' \in [Threads -> {-1, 0, 1, 2}]
    BY <1>12, <1>stat DEF End
  <2>2. TypeOK'
    BY <1>12, <1>type, <2>1 DEF End, TypeOK
  <2>3. ThreadInv'
    BY <1>12, <1>thr, <1>set, <1>stat, <1>max, <1>pc DEF End, ThreadInv
  <2>4. StartInv'
    BY <1>12, <1>sta, <1>stat, <1>pc DEF End, StartInv
  <2>5. MainInv'
    BY <1>12, <1>main, <1>pc DEF End, MainInv
  <2>. QED  BY <2>2, <2>3, <2>4, <2>5 DEF BaseInv
<1>. QED  BY <1>1, <1>2, <1>3, <1>4, <1>5, <1>6, <1>7, <1>8, <1>9, <1>10, <1>11, <1>12, <1>1f DEF TimerThread

\* main, the signals and the timer.
LEMMA MainBase ==
  ASSUME BaseInv, Main \/ Interrupt \/ Tick \/ UNCHANGED vars
  PROVE  BaseInv'
<1>type. TypeOK
  BY DEF BaseInv
<1>thr. ThreadInv
  BY DEF BaseInv
<1>sta. StartInv
  BY DEF BaseInv
<1>main. MainInv
  BY DEF BaseInv
<1>max. opt.max_cycles \in Nat \ {0}
  BY Facts
<1>i. i \in 0..(NumThreads + KVARS) /\ faults \in 0..MaxFaults
  BY <1>type DEF TypeOK
<1>table. /\ kernel \in [Names -> {Before, Wanted}]
          /\ kv \in [Slots -> Entries]
  BY <1>type DEF TypeOK, Slots, Entries
<1>stat. /\ cycles \in [Threads -> 0..opt.max_cycles] /\ cyclesread \in [Threads -> 0..opt.max_cycles]
         /\ threadstarted \in [Threads -> {-1, 0, 1, 2}]
  BY <1>type DEF TypeOK
<1>pc. pc \in [Threads -> Places]
  BY <1>type DEF TypeOK, Places, Saving
<1> USE DEF MainTo, Saving, mainVars, tableVars, statVars, setVars, inMain
<1>1. CASE Alloc
  <2>1. TypeOK'
    <3>1. i' \in 0..(NumThreads + KVARS) /\ faults' \in 0..MaxFaults
      BY <1>1, <1>i DEF Alloc, Fault
    <3>. QED  BY <1>1, <1>type, <1>i, <3>1 DEF Alloc, TypeOK
  <2>2. ThreadInv'
    BY <1>1, <1>thr DEF Alloc, ThreadInv
  <2>3. StartInv'
    BY <1>1, <1>sta DEF Alloc, StartInv
  <2>4. MainInv'
    BY <1>1, <1>main DEF Alloc, MainInv
  <2>. QED  BY <2>1, <2>2, <2>3, <2>4 DEF BaseInv
<1>2. CASE Create
  <2>0. i \in Threads /\ pc[i] = "none"
    BY <1>2, <1>i, <1>main DEF Create, Threads, MainInv
  <2>1. pc' \in [Threads -> Places] /\ faults' \in 0..MaxFaults
    BY <1>2, <2>0, <1>pc, <1>i DEF Create, Places, Fault
  <2>2. TypeOK'
    BY <1>2, <1>type, <2>1 DEF Create, TypeOK, Places
  <2>3. ThreadInv'
    <3>1. \E p \in {"read", "start", "failed"} : pc' = [pc EXCEPT ![i] = p] /\ (p = "read" => Len(KernVars) > 0)
      BY <1>2 DEF Create
    <3>2. UNCHANGED <<var, slot, oldvalue, cycles, cyclesread, opt>>
      BY <1>2 DEF Create
    <3>3. var[i] = 1
      BY <2>0, <1>thr DEF ThreadInv
    <3>. QED  BY <3>1, <3>2, <3>3, <2>0, <1>thr, <1>stat, <1>max, <1>pc DEF ThreadInv
  <2>4. StartInv'
    BY <1>2, <2>0, <1>sta, <1>stat, <1>pc, <1>i DEF Create, StartInv, Threads
  <2>5. MainInv'
    BY <1>2, <2>0, <1>main, <1>pc, <1>i DEF Create, MainInv, Threads
  <2>. QED  BY <2>2, <2>3, <2>4, <2>5 DEF BaseInv
<1>3. CASE NoValues
  <2>1. TypeOK'
    <3>1. i' \in 0..(NumThreads + KVARS) /\ faults' \in 0..MaxFaults
      BY <1>3, <1>i DEF NoValues, Fault
    <3>2. shutdown' \in BOOLEAN
      BY <1>3, <1>type, Zenon DEF NoValues, TypeOK
    <3>. QED  BY <1>3, <3>2, <1>type, <1>i, <3>1 DEF NoValues, TypeOK
  <2>2. ThreadInv'
    BY <1>3, <1>thr DEF NoValues, ThreadInv
  <2>3. StartInv'
    BY <1>3, <1>sta DEF NoValues, StartInv
  <2>4. MainInv'
    BY <1>3, <1>main DEF NoValues, MainInv, Threads
  <2>. QED  BY <2>1, <2>2, <2>3, <2>4 DEF BaseInv
<1>4. CASE Mark
  <2>0. i \in Threads
    BY <1>4, <1>i, <1>main DEF Mark, Threads, MainInv
  <2>1. threadstarted' \in [Threads -> {-1, 0, 1, 2}] /\ i' \in 0..(NumThreads + KVARS)
    BY <1>4, <2>0, <1>stat DEF Mark, Marked, Threads
  <2>2. TypeOK'
    BY <1>4, <1>type, <2>1 DEF Mark, Marked, TypeOK
  <2>3. ThreadInv'
    BY <1>4, <1>thr DEF Mark, ThreadInv
  <2>4. StartInv'
    BY <1>4, <2>0, <1>sta, <1>stat, <1>pc DEF Mark, Marked, StartInv
  <2>5. MainInv'
    BY <1>4, <2>0, <1>main, <1>i DEF Mark, MainInv, Threads
  <2>. QED  BY <2>2, <2>3, <2>4, <2>5 DEF BaseInv
<1>5. CASE Poll
  <2>0. i' \in 0..(NumThreads + KVARS)
    BY <1>5 DEF Poll
  <2>1. TypeOK'
    <3>1. allstopped' \in BOOLEAN
      BY <1>5, Zenon DEF Poll
    <3>. QED  BY <1>5, <1>type, <2>0, <3>1 DEF Poll, TypeOK
  <2>2. ThreadInv'
    BY <1>5, <1>thr DEF Poll, ThreadInv
  <2>3. StartInv'
    BY <1>5, <1>sta DEF Poll, StartInv
  <2>4. MainInv'
    BY <1>5, <1>main DEF Poll, MainInv, Threads
  <2>. QED  BY <2>1, <2>2, <2>3, <2>4 DEF BaseInv
<1>6. CASE PrintValue
  <2>0. i \in Threads /\ cycles[i] # cyclesread[i] /\ cyclesread[i] <= cycles[i]
    BY <1>6, <1>i, <1>thr DEF PrintValue, Threads, ThreadInv
  <2>1. cyclesread' = [cyclesread EXCEPT ![i] = @ + 1]
    BY <1>6 DEF PrintValue
  <2>2. cyclesread' \in [Threads -> 0..opt.max_cycles]
    BY <2>0, <2>1, <1>stat, <1>max
  <2>3. TypeOK'
    BY <1>6, <1>type, <2>2 DEF PrintValue, TypeOK
  <2>4. ThreadInv'
    BY <1>6, <2>0, <2>1, <1>thr, <1>stat, <1>max DEF PrintValue, ThreadInv
  <2>5. StartInv'
    BY <1>6, <1>sta DEF PrintValue, StartInv
  <2>6. MainInv'
    BY <1>6, <1>main DEF PrintValue, MainInv
  <2>. QED  BY <2>3, <2>4, <2>5, <2>6 DEF BaseInv
<1>7. CASE Printed
  <2>0. allstopped' \in BOOLEAN
    BY <1>7 DEF Printed
  <2>1. TypeOK'
    <3>1. i' \in 0..(NumThreads + KVARS)
      BY <1>7, <1>i DEF Printed
    <3>. QED  BY <1>7, <1>type, <1>i, <2>0, <3>1 DEF Printed, TypeOK
  <2>2. ThreadInv'
    BY <1>7, <1>thr DEF Printed, ThreadInv
  <2>3. StartInv'
    BY <1>7, <1>sta DEF Printed, StartInv
  <2>4. MainInv'
    BY <1>7, <1>i DEF Printed, MainInv
  <2>. QED  BY <2>1, <2>2, <2>3, <2>4 DEF BaseInv
<1>8. CASE Polled
  <2>1. TypeOK'
    <3>1. i' \in 0..(NumThreads + KVARS)
      BY <1>8, <1>i DEF Polled
    <3>2. shutdown' \in BOOLEAN
      BY <1>8, <1>type, Zenon DEF Polled, TypeOK
    <3>. QED  BY <1>8, <3>2, <1>type, <3>1 DEF Polled, TypeOK
  <2>2. ThreadInv'
    BY <1>8, <1>thr DEF Polled, ThreadInv
  <2>3. StartInv'
    BY <1>8, <1>sta DEF Polled, StartInv
  <2>4. MainInv'
    BY <1>8 DEF Polled, MainInv, Threads
  <2>. QED  BY <2>1, <2>2, <2>3, <2>4 DEF BaseInv
<1>9. CASE Join
  <2>0. i \in Threads
    BY <1>9, <1>i DEF Join, Threads
  <2>1. TypeOK'
    <3>1. i' \in 0..(NumThreads + KVARS)
      BY <1>9, <1>i DEF Join
    <3>. QED  BY <1>9, <1>type, <1>i, <3>1 DEF Join, TypeOK
  <2>2. ThreadInv'
    BY <1>9, <1>thr DEF Join, ThreadInv
  <2>3. StartInv'
    BY <1>9, <1>sta DEF Join, StartInv
  <2>4. MainInv'
    <3>1. CASE pc[i] = "failed"
      BY <1>9, <3>1 DEF Join, MainInv
    <3>2. CASE pc[i] # "failed"
      <4>1. pc[i] \in {"none", "ended"}
        BY <1>9, <2>0, <3>2, <1>sta DEF Join, Joinable, StartInv
      <4>2. main' = "join" /\ i' = i + 1 /\ pc' = pc /\ main = "join" /\ i < NumThreads
        BY <1>9, <3>2 DEF Join
      <4>. QED  BY <4>1, <4>2, <1>main, <1>i DEF MainInv, Threads
    <3>. QED  BY <3>1, <3>2
  <2>. QED  BY <2>1, <2>2, <2>3, <2>4 DEF BaseInv
<1>10. CASE Joined
  <2>1. TypeOK'
    <3>1. i' \in 0..(NumThreads + KVARS)
      BY <1>10, <1>i DEF Joined
    <3>. QED  BY <1>10, <1>type, <3>1 DEF Joined, TypeOK
  <2>2. ThreadInv'
    BY <1>10, <1>thr DEF Joined, ThreadInv
  <2>3. StartInv'
    BY <1>10, <1>sta DEF Joined, StartInv
  <2>4. MainInv'
    BY <1>10, <1>main DEF Joined, MainInv, Threads
  <2>. QED  BY <2>1, <2>2, <2>3, <2>4 DEF BaseInv
<1>11. CASE Restore
  <2>0. i \in Slots /\ kv[i] \in Entries
    BY <1>11, <1>i, <1>table DEF Restore, Slots
  <2>1. kernel' \in [Names -> {Before, Wanted}]
    BY <1>11, <1>table, <2>0 DEF Restore, Entries
  <2>2. TypeOK'
    <3>1. i' \in 0..(NumThreads + KVARS)
      BY <1>11, <1>i DEF Restore
    <3>. QED  BY <1>11, <1>type, <1>i, <2>1, <3>1 DEF Restore, TypeOK
  <2>3. ThreadInv'
    BY <1>11, <1>thr DEF Restore, ThreadInv
  <2>4. StartInv'
    BY <1>11, <1>sta DEF Restore, StartInv
  <2>5. MainInv'
    BY <1>11, <1>main, <1>i DEF Restore, MainInv
  <2>. QED  BY <2>2, <2>3, <2>4, <2>5 DEF BaseInv
<1>11f. CASE RestoreFails
  <2>0. lost' \subseteq Names
    <3>1. lost \subseteq Names
      BY <1>type DEF TypeOK
    <3>. QED  BY <1>11f, <3>1 DEF RestoreFails
  <2>1. i' \in 0..(NumThreads + KVARS) /\ faults' \in 0..MaxFaults
    <3>1. i \in Int /\ i < KVARS /\ i' = i + 1 /\ i >= 0
      BY <1>11f, <1>i DEF RestoreFails
    <3>2. faults' \in 0..MaxFaults
      BY <1>11f, <1>type, FaultBound DEF RestoreFails
    <3>. QED  BY <3>1, <3>2
  <2>2. TypeOK'
    BY <1>11f, <1>type, <2>0, <2>1 DEF RestoreFails, TypeOK
  <2>3. ThreadInv'
    BY <1>11f, <1>thr DEF RestoreFails, ThreadInv
  <2>4. StartInv'
    BY <1>11f, <1>sta DEF RestoreFails, StartInv
  <2>5. MainInv'
    BY <1>11f, <1>main, <1>i DEF RestoreFails, MainInv
  <2>. QED  BY <2>2, <2>3, <2>4, <2>5 DEF BaseInv
<1>12. CASE Exit
  <2>1. TypeOK'
    <3>1. i' \in 0..(NumThreads + KVARS)
      BY <1>12, <1>i DEF Exit
    <3>. QED  BY <1>12, <1>type, <3>1 DEF Exit, TypeOK
  <2>2. ThreadInv'
    BY <1>12, <1>thr DEF Exit, ThreadInv
  <2>3. StartInv'
    BY <1>12, <1>sta DEF Exit, StartInv
  <2>4. MainInv'
    BY <1>12, <1>main DEF Exit, MainInv
  <2>. QED  BY <2>1, <2>2, <2>3, <2>4 DEF BaseInv
<1>13. CASE Interrupt \/ Tick \/ UNCHANGED vars
  <2>1. TypeOK'
    <3>1. shutdown' \in BOOLEAN /\ pending' \in BOOLEAN
      BY <1>13, <1>type, Zenon DEF Interrupt, Tick, TypeOK, vars
    <3>. QED  BY <1>13, <1>type, <3>1 DEF Interrupt, Tick, TypeOK, vars
  <2>2. ThreadInv'
    BY <1>13, <1>thr DEF Interrupt, Tick, ThreadInv, vars
  <2>3. StartInv'
    BY <1>13, <1>sta DEF Interrupt, Tick, StartInv, vars
  <2>4. MainInv'
    BY <1>13, <1>main DEF Interrupt, Tick, MainInv, vars
  <2>. QED  BY <2>1, <2>2, <2>3, <2>4 DEF BaseInv
<1>. QED  BY <1>1, <1>2, <1>3, <1>4, <1>5, <1>6, <1>7, <1>8, <1>9, <1>10, <1>11, <1>11f, <1>12, <1>13
             DEF Main

LEMMA BaseNext ==
  ASSUME BaseInv, [Next]_vars
  PROVE  BaseInv'
<1>1. CASE Threading
  BY <1>1, ThreadBase DEF Threading
<1>2. CASE Main \/ Interrupt \/ Tick \/ UNCHANGED vars
  BY <1>2, MainBase
<1>. QED  BY <1>1, <1>2 DEF Next

-----------------------------------------------------------------------------
(* The backup table. *)

LEMMA TableInit == Init => TableInv
<1> SUFFICES ASSUME Init PROVE TableInv
  OBVIOUS
<1>1. /\ \A k \in Slots : kv[k].first = "" /\ kv[k].second = ""
      /\ \A t \in Threads : pc[t] = "none"
      /\ \A v \in Names : kernel[v] = Before
      /\ main = "alloc"
  BY DEF Init, Empty, Slots
<1>2. \A v \in Names : v # ""
  BY NoEmptyName
<1>3. FilledInv /\ OwnInv /\ AheadInv
  BY <1>1 DEF FilledInv, OwnInv, AheadInv, Saving
<1>4. ValueInv
  BY <1>1, <1>2 DEF ValueInv, Full
<1>5. SavedInv /\ RestoreInv
  BY <1>1 DEF SavedInv, RestoreInv
<1>. QED  BY <1>3, <1>4, <1>5 DEF TableInv

\* Steps that leave the table alone and every thread that is saving where it is.
LEMMA TableFrame ==
  ASSUME TableInv, UNCHANGED <<tableVars, setVars>>,
         \A t \in Threads : pc'[t] \in Saving =>
           \/ pc'[t] = pc[t]
           \/ pc'[t] = "read" /\ slot[t] = 0 /\ oldvalue[t] = Before,
         \A t \in Threads : pc[t] \in Saving => pc'[t] = pc[t],
         \/ UNCHANGED <<main, i>>
         \/ main \notin {"restore", "exited"} /\ main' \notin {"restore", "exited"},
         slot \in [Threads -> 0..KVARS]
  PROVE  TableInv'
<1> USE DEF tableVars, setVars, Name, Full, Saving
<1>1. FilledInv'
  <2>1. \A k \in Slots : ~(k < 0)
    BY DEF Slots
  <2>. QED  BY <2>1 DEF TableInv, FilledInv
<1>2. OwnInv'
  BY DEF TableInv, OwnInv
<1>3. AheadInv'
  <2>1. Before # Wanted
    BY DEF Before, Wanted
  <2>. QED  BY <2>1 DEF TableInv, AheadInv
<1>4. ValueInv'
  BY DEF TableInv, ValueInv
<1>5. SavedInv'
  BY DEF TableInv, SavedInv
<1>6. RestoreInv'
  BY DEF TableInv, RestoreInv
<1>. QED  BY <1>1, <1>2, <1>3, <1>4, <1>5, <1>6 DEF TableInv

\* Steps that write neither the table nor a kernel variable.
LEMMA ValueKept ==
  ASSUME ValueInv, kv' = kv, lost \subseteq lost', var' = var,
         \A u \in Threads : pc[u] \in {"second", "value"} => pc'[u] = pc[u] /\ slot'[u] = slot[u]
  PROVE  ValueInv'
<1> SUFFICES ASSUME NEW v \in Names \ lost', NEW k \in Slots, Full(k, v), kv[k].value # Before
             PROVE  \E u \in Threads : pc'[u] \in {"second", "value"} /\ slot'[u] = k /\ Name(u)' = v
  BY DEF ValueInv, Full
<1>1. PICK u \in Threads : pc[u] \in {"second", "value"} /\ slot[u] = k /\ Name(u) = v
  BY DEF ValueInv
<1>. QED  BY <1>1 DEF Name

LEMMA SavedKept ==
  ASSUME SavedInv, kv' = kv, lost \subseteq lost', UNCHANGED <<var, kernel>>,
         main \notin {"restore", "exited"},
         \A u \in Threads : pc'[u] = "write" =>
           pc[u] = "write" \/ Name(u) \in lost' \/ \E k \in Slots : Full(k, Name(u))
  PROVE  SavedInv'
<1> SUFFICES ASSUME NEW v \in Names \ lost',
                    kernel[v] # Before \/ \E u \in Threads : pc'[u] = "write" /\ Name(u) = v
             PROVE  \E k \in Slots : Full(k, v)
  BY DEF SavedInv, Full, Name
<1>. QED  BY DEF SavedInv

\* What every step of setkernvar may use.
LEMMA SavingFacts ==
  ASSUME BaseInv, NEW t \in Threads, pc[t] \in Saving
  PROVE  /\ Name(t) \in Names /\ Name(t) # ""
         /\ main \notin {"restore", "exited"}
         /\ slot \in [Threads -> 0..KVARS] /\ var \in [Threads -> 1..(Len(KernVars) + 1)]
         /\ oldvalue \in [Threads -> {Before, Wanted}]
         /\ pc \in [Threads -> Places]
         /\ kv \in [Slots -> Entries] /\ kernel \in [Names -> {Before, Wanted}]
         /\ pc[t] \in {"empty", "first", "second", "value"} => slot[t] \in Slots
<1>1. Name(t) \in Names /\ Name(t) # ""
  BY Facts, NoEmptyName
<1>2. main \notin {"restore", "exited"}
  BY DEF BaseInv, MainInv, Saving
<1>3. /\ slot \in [Threads -> 0..KVARS] /\ var \in [Threads -> 1..(Len(KernVars) + 1)]
      /\ oldvalue \in [Threads -> {Before, Wanted}]
      /\ pc \in [Threads -> Places]
      /\ kv \in [Slots -> Entries] /\ kernel \in [Names -> {Before, Wanted}]
  BY DEF BaseInv, TypeOK, Places, Saving, Slots, Entries
<1>4. pc[t] \in {"empty", "first", "second", "value"} => slot[t] \in Slots
  <2>1. pc[t] \in {"empty", "first", "second", "value"} => slot[t] < KVARS
    BY DEF BaseInv, ThreadInv
  <2>. QED  BY <2>1, <1>3 DEF Slots
<1>. QED  BY <1>1, <1>2, <1>3, <1>4

\* The steps of setkernvar that only look at the table.
LEMMA LookTable ==
  ASSUME BaseInv, TableInv, NEW t \in Threads,
         ReadOld(t) \/ ReadFails(t) \/ Match(t) \/ NoSlot(t) \/ TestEmpty(t)
  PROVE  TableInv'
<1>0. pc[t] \in Saving
  BY DEF ReadOld, ReadFails, Match, NoSlot, TestEmpty, Goto, Saving
<1>facts. /\ Name(t) \in Names /\ Name(t) # ""
          /\ main \notin {"restore", "exited"}
          /\ slot \in [Threads -> 0..KVARS] /\ oldvalue \in [Threads -> {Before, Wanted}]
          /\ pc \in [Threads -> Places] /\ kernel \in [Names -> {Before, Wanted}]
          /\ pc[t] \in {"empty", "first", "second", "value"} => slot[t] \in Slots
  BY <1>0, SavingFacts
<1>inv. FilledInv /\ OwnInv /\ AheadInv /\ ValueInv /\ SavedInv
  BY DEF TableInv
<1> USE DEF Goto, Full, Saving, inSetkernvar, mainVars, tableVars, setVars
<1>same. UNCHANGED <<kernel, kv, main, i, var>>
  BY DEF ReadOld, ReadFails, Match, NoSlot, TestEmpty
<1>names. \A u \in Threads : Name(u)' = Name(u)
  BY <1>same DEF Name
<1>restore. RestoreInv'
  BY <1>same, <1>facts DEF RestoreInv
<1>1. CASE ReadOld(t)
  <2>1. /\ pc[t] = "read" /\ pc' = [pc EXCEPT ![t] = "match"] /\ UNCHANGED <<lost, slot>>
        /\ oldvalue' = [oldvalue EXCEPT ![t] = kernel[Name(t)]]
    BY <1>1 DEF ReadOld
  <2>2. slot[t] = 0
    BY <2>1 DEF BaseInv, ThreadInv
  <2>3. FilledInv'
    BY <1>inv, <1>same, <2>1, <1>facts DEF FilledInv
  <2>4. OwnInv'
    BY <1>inv, <1>same, <1>names, <2>1, <1>facts DEF OwnInv
  <2>5. AheadInv'
    <3>1. kernel[Name(t)] = Wanted /\ Name(t) \notin lost => \E k \in Slots : k >= slot[t] /\ Full(k, Name(t))
      <4>1. kernel[Name(t)] = Wanted /\ Name(t) \notin lost => \E k \in Slots : Full(k, Name(t))
        <5>1. Wanted # Before
          BY DEF Before, Wanted
        <5>. QED  BY <5>1, <1>inv, <1>facts, Zenon DEF SavedInv
      <4>2. \A k \in Slots : k >= slot[t]
        BY <2>2 DEF Slots
      <4>. QED  BY <4>1, <4>2
    <3>. QED  BY <3>1, <1>inv, <1>same, <1>names, <2>1, <1>facts DEF AheadInv
  <2>6. ValueInv'
    BY <1>inv, <1>same, <2>1, <1>facts, ValueKept
  <2>7. SavedInv'
    BY <1>inv, <1>same, <2>1, <1>facts, SavedKept
  <2>. QED  BY <1>restore, <2>3, <2>4, <2>5, <2>6, <2>7 DEF TableInv
<1>2. CASE Match(t)
  <2>1. /\ pc[t] = "match" /\ UNCHANGED <<lost, slot, oldvalue>> /\ slot[t] < KVARS
        /\ \/ Full(slot[t], Name(t)) /\ pc' = [pc EXCEPT ![t] = "write"]
           \/ ~Full(slot[t], Name(t)) /\ pc' = [pc EXCEPT ![t] = "empty"]
    BY <1>2 DEF Match, FoundSlot, Matches
  <2>2. slot[t] \in Slots
    <3>1. slot[t] \in 0..KVARS /\ slot[t] < KVARS
      BY <2>1, <1>facts
    <3>. QED  BY <3>1 DEF Slots
  <2>3. FilledInv'
    BY <1>inv, <1>same, <2>1, <1>facts DEF FilledInv
  <2>4. OwnInv'
    BY <1>inv, <1>same, <1>names, <2>1, <1>facts DEF OwnInv
  <2>5. AheadInv'
    <3>1. \A k \in Slots : k >= slot[t] => k > slot[t] \/ k = slot[t]
      BY <2>2 DEF Slots
    <3> SUFFICES ASSUME NEW u \in Threads, pc'[u] \in Saving, oldvalue[u] = Wanted, Name(u) \notin lost
                 PROVE  /\ pc'[u] = "match" => \E k \in Slots : k >= slot[u] /\ Full(k, Name(u))
                        /\ pc'[u] = "empty" => \E k \in Slots : k > slot[u] /\ Full(k, Name(u))
                        /\ pc'[u] \notin {"first", "second", "value"}
      BY <1>same, <1>names, <2>1 DEF AheadInv
    <3>2. CASE u = t
      <4>1. PICK k \in Slots : k >= slot[t] /\ Full(k, Name(t))
        BY <3>2, <1>inv, <2>1 DEF AheadInv
      <4>2. CASE Full(slot[t], Name(t))
        <5>1. pc'[t] = "write"
          BY <2>1, <4>2, <1>facts
        <5>. QED  BY <5>1, <3>2
      <4>3. CASE ~Full(slot[t], Name(t))
        <5>1. pc'[t] = "empty"
          BY <2>1, <4>3, <1>facts
        <5>2. k > slot[t]
          BY <4>1, <4>3, <3>1
        <5>. QED  BY <5>1, <5>2, <4>1, <3>2
      <4>. QED  BY <4>2, <4>3
    <3>3. CASE u # t
      <4>1. pc'[u] = pc[u]
        BY <3>3, <2>1, <1>facts
      <4>. QED  BY <4>1, <1>inv DEF AheadInv
    <3>. QED  BY <3>2, <3>3
  <2>6. ValueInv'
    BY <1>inv, <1>same, <2>1, <1>facts, ValueKept
  <2>7. SavedInv'
    BY <1>inv, <1>same, <2>1, <2>2, <1>facts, SavedKept
  <2>. QED  BY <1>restore, <2>3, <2>4, <2>5, <2>6, <2>7 DEF TableInv
<1>3. CASE NoSlot(t) \/ ReadFails(t)
  <2>1. /\ pc[t] \in {"match", "read"} /\ UNCHANGED <<slot, oldvalue>>
        /\ lost' = lost \cup {Name(t)}
        /\ pc' = [pc EXCEPT ![t] = "write"]
    BY <1>3 DEF NoSlot, ReadFails
  <2>3. FilledInv'
    BY <1>inv, <1>same, <2>1, <1>facts DEF FilledInv
  <2>4. OwnInv'
    BY <1>inv, <1>same, <1>names, <2>1, <1>facts DEF OwnInv
  <2>5. AheadInv'
    BY <1>inv, <1>same, <1>names, <2>1, <1>facts DEF AheadInv
  <2>6. ValueInv'
    BY <1>inv, <1>same, <2>1, <1>facts, ValueKept
  <2>7. SavedInv'
    BY <1>inv, <1>same, <2>1, <1>facts, SavedKept
  <2>. QED  BY <1>restore, <2>3, <2>4, <2>5, <2>6, <2>7 DEF TableInv
<1>4. CASE TestEmpty(t)
  <2>1. /\ pc[t] = "empty" /\ UNCHANGED <<lost, oldvalue>> /\ slot[t] \in Slots
        /\ \/ kv[slot[t]].first = "" /\ pc' = [pc EXCEPT ![t] = "first"] /\ slot' = slot
           \/ /\ kv[slot[t]].first # "" /\ pc' = [pc EXCEPT ![t] = "match"]
              /\ slot' = [slot EXCEPT ![t] = @ + 1]
    BY <1>4, <1>facts DEF TestEmpty
  <2>3. FilledInv'
    <3>0. slot[t] \in Slots
      BY <2>1
    <3>1. \A k \in Slots : k < slot[t] + 1 => k < slot[t] \/ k = slot[t]
      BY <3>0 DEF Slots
    <3>. QED  BY <3>1, <1>inv, <1>same, <2>1, <1>facts DEF FilledInv
  <2>4. OwnInv'
    BY <1>inv, <1>same, <1>names, <2>1, <1>facts DEF OwnInv
  <2>5. AheadInv'
    <3>1. oldvalue[t] = Wanted /\ Name(t) \notin lost =>
            /\ \E k \in Slots : k > slot[t] /\ Full(k, Name(t))
            /\ kv[slot[t]].first # ""
      <4>1. oldvalue[t] = Wanted /\ Name(t) \notin lost => \E k \in Slots : k > slot[t] /\ Full(k, Name(t))
        BY <1>inv, <2>1 DEF AheadInv
      <4>. QED  BY <4>1, <1>inv, <1>facts, <2>1 DEF FilledInv, Slots
    <3>0. slot[t] \in Slots
      BY <2>1
    <3>2. \A k \in Slots : k > slot[t] => k >= slot[t] + 1
      BY <3>0 DEF Slots
    <3> SUFFICES ASSUME NEW u \in Threads, pc'[u] \in Saving, oldvalue[u] = Wanted, Name(u) \notin lost
                 PROVE  /\ pc'[u] = "match" => \E k \in Slots : k >= slot'[u] /\ Full(k, Name(u))
                        /\ pc'[u] = "empty" => \E k \in Slots : k > slot'[u] /\ Full(k, Name(u))
                        /\ pc'[u] \notin {"first", "second", "value"}
      BY <1>same, <1>names, <2>1 DEF AheadInv
    <3>3. CASE u = t
      <4>1. PICK k \in Slots : k > slot[t] /\ Full(k, Name(t))
        BY <3>1, <3>3
      <4>2. pc'[t] = "match" /\ slot'[t] = slot[t] + 1
        BY <2>1, <3>1, <3>3, <1>facts
      <4>3. k >= slot'[t]
        BY <4>1, <4>2, <3>2
      <4>. QED  BY <4>1, <4>2, <4>3, <3>3
    <3>4. CASE u # t
      <4>1. pc'[u] = pc[u] /\ slot'[u] = slot[u]
        BY <3>4, <2>1, <1>facts
      <4>. QED  BY <4>1, <1>inv DEF AheadInv
    <3>. QED  BY <3>3, <3>4
  <2>6. ValueInv'
    BY <1>inv, <1>same, <2>1, <1>facts, ValueKept
  <2>7. SavedInv'
    BY <1>inv, <1>same, <2>1, <1>facts, SavedKept
  <2>. QED  BY <1>restore, <2>3, <2>4, <2>5, <2>6, <2>7 DEF TableInv
<1>. QED  BY <1>1, <1>2, <1>3, <1>4

\* A name that is not lost keeps the slots that hold it when a thread stores.
LEMMA StoreKeeps ==
  ASSUME BaseInv, NEW t \in Threads, StoreFirst(t) \/ StoreSecond(t) \/ StoreValue(t)
  PROVE  /\ pc[t] \in Saving /\ slot[t] \in Slots
         /\ \A k \in Slots : k # slot[t] => kv'[k] = kv[k]
         /\ lost \subseteq lost' /\ UNCHANGED <<var, slot, oldvalue, kernel, main, i>>
         /\ \A v \in Names \ lost' : v \in {kv[slot[t]].first, kv[slot[t]].second} => v = Name(t)
         /\ \A v \in Names \ lost' : \A k \in Slots : Full(k, v) => Full(k, v)'
<1>1. pc[t] \in {"first", "second", "value"}
  BY DEF StoreFirst, StoreSecond, StoreValue, Store, Goto
<1>2. pc[t] \in Saving
  BY <1>1 DEF Saving
<1>3. Name(t) # "" /\ kv \in [Slots -> Entries] /\ slot[t] \in Slots
  BY <1>1, <1>2, SavingFacts
<1>4. /\ \/ kv' = [kv EXCEPT ![slot[t]] = [kv[slot[t]] EXCEPT !.first = Name(t)]]
         \/ kv' = [kv EXCEPT ![slot[t]] = [kv[slot[t]] EXCEPT !.second = Name(t)]]
         \/ kv' = [kv EXCEPT ![slot[t]] = [kv[slot[t]] EXCEPT !.value = oldvalue[t]]]
      /\ lost' = lost \cup ({kv[slot[t]].first, kv[slot[t]].second} \ {"", Name(t)})
      /\ UNCHANGED <<var, slot, oldvalue, kernel, main, i>>
  BY DEF StoreFirst, StoreSecond, StoreValue, Store, inSetkernvar, setVars, mainVars
<1>5. \A k \in Slots : k # slot[t] => kv'[k] = kv[k]
  BY <1>3, <1>4
<1>6. \A v \in Names \ lost' : v \in {kv[slot[t]].first, kv[slot[t]].second} => v = Name(t)
  BY <1>4, NoEmptyName
<1>7. ASSUME NEW v \in Names \ lost', NEW k \in Slots, Full(k, v)
      PROVE  Full(k, v)'
  <2>1. CASE k # slot[t]
    BY <1>5, <1>7, <2>1 DEF Full
  <2>2. CASE k = slot[t]
    <3>1. v = Name(t) /\ kv[k].first = Name(t) /\ kv[k].second = Name(t)
      BY <1>6, <1>7, <2>2 DEF Full
    <3>2. kv[k] \in Entries
      BY <1>3
    <3>3. \/ kv'[k] = [kv[k] EXCEPT !.first = Name(t)]
          \/ kv'[k] = [kv[k] EXCEPT !.second = Name(t)]
          \/ kv'[k] = [kv[k] EXCEPT !.value = oldvalue[t]]
      BY <1>3, <1>4, <2>2
    <3>4. kv'[k].first = Name(t) /\ kv'[k].second = Name(t)
      BY <3>1, <3>2, <3>3 DEF Entries
    <3>. QED  BY <3>1, <3>4 DEF Full
  <2>. QED  BY <2>1, <2>2
<1>. QED  BY <1>2, <1>3, <1>4, <1>5, <1>6, <1>7

\* The steps of setkernvar that write the table.
LEMMA StoreTable ==
  ASSUME BaseInv, TableInv, NEW t \in Threads,
         StoreFirst(t) \/ StoreSecond(t) \/ StoreValue(t)
  PROVE  TableInv'
<1>keep. /\ pc[t] \in Saving /\ slot[t] \in Slots
         /\ \A k \in Slots : k # slot[t] => kv'[k] = kv[k]
         /\ lost \subseteq lost' /\ UNCHANGED <<var, slot, oldvalue, kernel, main, i>>
         /\ \A v \in Names \ lost' : v \in {kv[slot[t]].first, kv[slot[t]].second} => v = Name(t)
         /\ \A v \in Names \ lost' : \A k \in Slots : Full(k, v) => Full(k, v)'
  BY StoreKeeps
<1>facts. /\ Name(t) \in Names /\ Name(t) # ""
          /\ main \notin {"restore", "exited"}
          /\ slot \in [Threads -> 0..KVARS] /\ oldvalue \in [Threads -> {Before, Wanted}]
          /\ pc \in [Threads -> Places] /\ kv \in [Slots -> Entries]
  BY <1>keep, SavingFacts
<1>entry. kv[slot[t]] \in Entries
  BY <1>keep, <1>facts
<1>inv. FilledInv /\ OwnInv /\ AheadInv /\ ValueInv /\ SavedInv
  BY DEF TableInv
<1>names. \A u \in Threads : Name(u)' = Name(u)
  BY <1>keep DEF Name
<1>some. \A u \in Threads : pc[u] \in Saving => Name(u) \in Names
  BY Facts
<1>slots. \A u \in Threads : pc[u] \in {"second", "value"} => slot[u] \in Slots
  BY SavingFacts DEF Saving
<1>old. oldvalue[t] = Wanted => Name(t) \in lost'
  <2>1. pc[t] \in {"first", "second", "value"}
    BY DEF StoreFirst, StoreSecond, StoreValue, Store, Goto
  <2>. QED  BY <2>1, <1>inv, <1>keep DEF AheadInv
<1>pcs. /\ \A u \in Threads : u # t => pc'[u] = pc[u]
        /\ pc'[t] \in {"second", "value", "write"}
        /\ pc'[t] = "write" => pc[t] = "value"
  BY <1>facts DEF StoreFirst, StoreSecond, StoreValue, Store, Goto
<1>1. RestoreInv'
  BY <1>keep, <1>facts DEF RestoreInv
<1>2. AheadInv'
  <2> SUFFICES ASSUME NEW u \in Threads, pc'[u] \in Saving, oldvalue[u] = Wanted, Name(u) \notin lost'
               PROVE  /\ pc'[u] = "match" => \E k \in Slots : k >= slot[u] /\ Full(k, Name(u))'
                      /\ pc'[u] = "empty" => \E k \in Slots : k > slot[u] /\ Full(k, Name(u))'
                      /\ pc'[u] \notin {"first", "second", "value"}
    BY <1>keep, <1>names DEF AheadInv, Full
  <2>1. u # t /\ pc'[u] = pc[u] /\ Name(u) \in Names \ lost'
    BY <1>old, <1>pcs, <1>some
  <2>2. /\ pc[u] = "match" => \E k \in Slots : k >= slot[u] /\ Full(k, Name(u))
        /\ pc[u] = "empty" => \E k \in Slots : k > slot[u] /\ Full(k, Name(u))
        /\ pc[u] \notin {"first", "second", "value"}
    BY <2>1, <1>inv, <1>keep DEF AheadInv
  <2>3. \A k \in Slots : Full(k, Name(u)) => Full(k, Name(u))'
    BY <2>1, <1>keep, <1>names DEF Full
  <2>. QED  BY <2>1, <2>2, <2>3
<1>3. SavedInv'
  <2> SUFFICES ASSUME NEW v \in Names \ lost',
                      kernel[v] # Before \/ \E u \in Threads : pc'[u] = "write" /\ Name(u) = v
               PROVE  \E k \in Slots : Full(k, v)'
    BY <1>keep, <1>names DEF SavedInv, Full
  <2>1. CASE kernel[v] # Before \/ \E u \in Threads : pc[u] = "write" /\ Name(u) = v
    <3>1. \E k \in Slots : Full(k, v)
      BY <2>1, <1>inv, <1>facts, <1>keep DEF SavedInv
    <3>. QED  BY <3>1, <1>keep
  <2>2. CASE pc'[t] = "write" /\ Name(t) = v
    <3>1. Full(slot[t], v)
      BY <2>2, <1>pcs, <1>inv, <1>keep DEF OwnInv
    <3>. QED  BY <3>1, <1>keep
  <2>. QED  BY <2>1, <2>2, <1>pcs
<1>4. CASE StoreFirst(t)
  <2>1. /\ pc[t] = "first" /\ pc'[t] = "second"
        /\ kv' = [kv EXCEPT ![slot[t]] = [kv[slot[t]] EXCEPT !.first = Name(t)]]
    BY <1>4, <1>facts DEF StoreFirst, Store, Goto
  <2>2. kv'[slot[t]].first = Name(t) /\ kv'[slot[t]].second = kv[slot[t]].second
    BY <2>1, <1>keep, <1>facts, <1>entry DEF Entries
  <2>3. FilledInv'
    <3>1. \A k \in Slots : kv[k].first # "" => kv'[k].first # ""
      BY <2>2, <1>keep, <1>facts
    <3>2. \A k \in Slots : k < slot[t] => kv[k].first # ""
      BY <1>inv, <1>keep DEF FilledInv
    <3>3. ASSUME NEW k \in Slots, NEW l \in Slots, k < l, kv'[l].first # "" PROVE kv'[k].first # ""
      <4>1. CASE l = slot[t]
        BY <3>1, <3>2, <3>3, <4>1
      <4>2. CASE l # slot[t]
        BY <3>1, <3>3, <4>2, <1>keep, <1>inv DEF FilledInv
      <4>. QED  BY <4>1, <4>2
    <3>4. ASSUME NEW u \in Threads, NEW k \in Slots, pc'[u] \in Saving, k < slot[u] PROVE kv'[k].first # ""
      <4>1. pc[u] \in Saving
        BY <3>4, <1>pcs, <1>keep
      <4>. QED  BY <4>1, <3>1, <3>4, <1>inv DEF FilledInv
    <3>. QED  BY <3>3, <3>4, <1>keep DEF FilledInv
  <2>4. OwnInv'
    <3> SUFFICES ASSUME NEW u \in Threads, pc'[u] \in Saving, Name(u) \notin lost'
                 PROVE  /\ pc'[u] = "second" => kv'[slot[u]].first = Name(u)
                        /\ pc'[u] = "value" => Full(slot[u], Name(u))'
      BY <1>keep, <1>names DEF OwnInv, Full
    <3>1. CASE u = t
      BY <3>1, <2>1, <2>2
    <3>2. CASE u # t
      <4>1. pc'[u] = pc[u] /\ Name(u) \in Names \ lost' /\ Name(u) \notin lost
        BY <3>2, <1>pcs, <1>some, <1>keep
      <4>2. pc[u] = "second" => kv[slot[u]].first = Name(u)
        BY <4>1, <1>inv DEF OwnInv
      <4>3. pc[u] = "value" => Full(slot[u], Name(u))
        BY <4>1, <1>inv DEF OwnInv
      <4>4. pc[u] = "second" => kv'[slot[u]].first = Name(u)
        <5>1. CASE slot[u] = slot[t]
          BY <5>1, <4>1, <4>2, <2>2, <1>keep
        <5>2. CASE slot[u] # slot[t]
          BY <5>2, <4>2, <1>keep, <1>slots
        <5>. QED  BY <5>1, <5>2
      <4>. QED  BY <4>1, <4>3, <4>4, <1>keep, <1>slots, <1>names DEF Full
    <3>. QED  BY <3>1, <3>2
  <2>5. ValueInv'
    <3> SUFFICES ASSUME NEW v \in Names \ lost', NEW k \in Slots, Full(k, v)', kv'[k].value # Before
                 PROVE  \E u \in Threads : pc'[u] \in {"second", "value"} /\ slot[u] = k /\ Name(u) = v
      BY <1>keep, <1>names DEF ValueInv
    <3>1. CASE k = slot[t]
      <4>1. v = Name(t)
        BY <3>1, <2>2 DEF Full
      <4>. QED  BY <4>1, <3>1, <2>1
    <3>2. CASE k # slot[t]
      <4>1. Full(k, v) /\ kv[k].value # Before
        BY <3>2, <1>keep DEF Full
      <4>2. PICK u \in Threads : pc[u] \in {"second", "value"} /\ slot[u] = k /\ Name(u) = v
        BY <4>1, <1>inv, <1>keep DEF ValueInv
      <4>. QED  BY <4>2, <3>2, <1>pcs
    <3>. QED  BY <3>1, <3>2
  <2>. QED  BY <1>1, <1>2, <1>3, <2>3, <2>4, <2>5 DEF TableInv
<1>5. CASE StoreSecond(t)
  <2>1. /\ pc[t] = "second" /\ pc'[t] = "value"
        /\ kv' = [kv EXCEPT ![slot[t]] = [kv[slot[t]] EXCEPT !.second = Name(t)]]
    BY <1>5, <1>facts DEF StoreSecond, Store, Goto
  <2>2. kv'[slot[t]].second = Name(t) /\ kv'[slot[t]].first = kv[slot[t]].first
    BY <2>1, <1>keep, <1>facts, <1>entry DEF Entries
  <2>3. FilledInv'
    <3>1. \A k \in Slots : kv'[k].first = kv[k].first
      BY <2>2, <1>keep
    <3>2. \A u \in Threads : pc'[u] \in Saving => pc[u] \in Saving
      BY <1>pcs, <1>keep
    <3>. QED  BY <3>1, <3>2, <1>inv, <1>keep DEF FilledInv
  <2>4. OwnInv'
    <3> SUFFICES ASSUME NEW u \in Threads, pc'[u] \in Saving, Name(u) \notin lost'
                 PROVE  /\ pc'[u] = "second" => kv'[slot[u]].first = Name(u)
                        /\ pc'[u] = "value" => Full(slot[u], Name(u))'
      BY <1>keep, <1>names DEF OwnInv, Full
    <3>1. CASE u = t
      <4>1. kv[slot[t]].first = Name(t)
        BY <3>1, <2>1, <1>inv, <1>keep DEF OwnInv
      <4>. QED  BY <4>1, <3>1, <2>1, <2>2, <1>keep, <1>names DEF Full
    <3>2. CASE u # t
      <4>1. pc'[u] = pc[u] /\ Name(u) \in Names \ lost' /\ Name(u) \notin lost
        BY <3>2, <1>pcs, <1>some, <1>keep
      <4>2. pc[u] = "second" => kv[slot[u]].first = Name(u)
        BY <4>1, <1>inv DEF OwnInv
      <4>3. pc[u] = "value" => Full(slot[u], Name(u))
        BY <4>1, <1>inv DEF OwnInv
      <4>4. pc[u] = "second" => kv'[slot[u]].first = Name(u)
        BY <4>2, <2>2, <1>keep, <1>slots
      <4>. QED  BY <4>1, <4>3, <4>4, <1>keep, <1>slots, <1>names DEF Full
    <3>. QED  BY <3>1, <3>2
  <2>5. ValueInv'
    <3> SUFFICES ASSUME NEW v \in Names \ lost', NEW k \in Slots, Full(k, v)', kv'[k].value # Before
                 PROVE  \E u \in Threads : pc'[u] \in {"second", "value"} /\ slot[u] = k /\ Name(u) = v
      BY <1>keep, <1>names DEF ValueInv
    <3>1. CASE k = slot[t]
      <4>1. v = Name(t)
        BY <3>1, <2>2 DEF Full
      <4>. QED  BY <4>1, <3>1, <2>1
    <3>2. CASE k # slot[t]
      <4>1. Full(k, v) /\ kv[k].value # Before
        BY <3>2, <1>keep DEF Full
      <4>2. PICK u \in Threads : pc[u] \in {"second", "value"} /\ slot[u] = k /\ Name(u) = v
        BY <4>1, <1>inv, <1>keep DEF ValueInv
      <4>. QED  BY <4>2, <3>2, <1>pcs
    <3>. QED  BY <3>1, <3>2
  <2>. QED  BY <1>1, <1>2, <1>3, <2>3, <2>4, <2>5 DEF TableInv
<1>6. CASE StoreValue(t)
  <2>1. /\ pc[t] = "value" /\ pc'[t] = "write"
        /\ kv' = [kv EXCEPT ![slot[t]] = [kv[slot[t]] EXCEPT !.value = oldvalue[t]]]
    BY <1>6, <1>facts DEF StoreValue, Store, Goto
  <2>2. /\ kv'[slot[t]].second = kv[slot[t]].second /\ kv'[slot[t]].first = kv[slot[t]].first
        /\ kv'[slot[t]].value = oldvalue[t]
    BY <2>1, <1>keep, <1>facts, <1>entry DEF Entries
  <2>3. FilledInv'
    <3>1. \A k \in Slots : kv'[k].first = kv[k].first
      BY <2>2, <1>keep
    <3>2. \A u \in Threads : pc'[u] \in Saving => pc[u] \in Saving
      BY <1>pcs, <1>keep
    <3>. QED  BY <3>1, <3>2, <1>inv, <1>keep DEF FilledInv
  <2>4. OwnInv'
    <3> SUFFICES ASSUME NEW u \in Threads, pc'[u] \in Saving, Name(u) \notin lost'
                 PROVE  /\ pc'[u] = "second" => kv'[slot[u]].first = Name(u)
                        /\ pc'[u] = "value" => Full(slot[u], Name(u))'
      BY <1>keep, <1>names DEF OwnInv, Full
    <3>1. CASE u = t
      BY <3>1, <2>1
    <3>2. CASE u # t
      <4>1. pc'[u] = pc[u] /\ Name(u) \in Names \ lost' /\ Name(u) \notin lost
        BY <3>2, <1>pcs, <1>some, <1>keep
      <4>2. pc[u] = "second" => kv[slot[u]].first = Name(u)
        BY <4>1, <1>inv DEF OwnInv
      <4>3. pc[u] = "value" => Full(slot[u], Name(u))
        BY <4>1, <1>inv DEF OwnInv
      <4>4. pc[u] = "second" => kv'[slot[u]].first = Name(u)
        BY <4>2, <2>2, <1>keep, <1>slots
      <4>. QED  BY <4>1, <4>3, <4>4, <1>keep, <1>slots, <1>names DEF Full
    <3>. QED  BY <3>1, <3>2
  <2>5. ValueInv'
    <3> SUFFICES ASSUME NEW v \in Names \ lost', NEW k \in Slots, Full(k, v)', kv'[k].value # Before
                 PROVE  \E u \in Threads : pc'[u] \in {"second", "value"} /\ slot[u] = k /\ Name(u) = v
      BY <1>keep, <1>names DEF ValueInv
    <3>1. CASE k = slot[t]
      <4>1. v = Name(t)
        BY <3>1, <2>2, <1>keep DEF Full
      <4>2. oldvalue[t] = Before
        BY <4>1, <1>old, <1>facts
      <4>. QED  BY <4>2, <3>1, <2>2
    <3>2. CASE k # slot[t]
      <4>1. Full(k, v) /\ kv[k].value # Before
        BY <3>2, <1>keep DEF Full
      <4>2. PICK u \in Threads : pc[u] \in {"second", "value"} /\ slot[u] = k /\ Name(u) = v
        BY <4>1, <1>inv, <1>keep DEF ValueInv
      <4>. QED  BY <4>2, <3>2, <1>pcs
    <3>. QED  BY <3>1, <3>2
  <2>. QED  BY <1>1, <1>2, <1>3, <2>3, <2>4, <2>5 DEF TableInv
<1>. QED  BY <1>4, <1>5, <1>6

\* setkernvar writes the new value.
LEMMA WriteTable ==
  ASSUME BaseInv, TableInv, NEW t \in Threads, WriteNew(t)
  PROVE  TableInv'
<1>0. pc[t] = "write" /\ pc[t] \in Saving
  BY DEF WriteNew, Goto, Saving
<1>facts. /\ Name(t) \in Names
          /\ main \notin {"restore", "exited"}
          /\ slot \in [Threads -> 0..KVARS] /\ oldvalue \in [Threads -> {Before, Wanted}]
          /\ var \in [Threads -> 1..(Len(KernVars) + 1)]
          /\ pc \in [Threads -> Places] /\ kernel \in [Names -> {Before, Wanted}]
  BY <1>0, SavingFacts
<1>inv. FilledInv /\ OwnInv /\ AheadInv /\ ValueInv /\ SavedInv
  BY DEF TableInv
<1>step. /\ UNCHANGED <<kv, lost, main, i>>
         /\ kernel' = [kernel EXCEPT ![Name(t)] = Wanted] \/ kernel' = kernel
  BY DEF WriteNew, inSetkernvar, mainVars
<1>t. /\ pc'[t] \in {"read", "start"} /\ slot'[t] = 0 /\ oldvalue'[t] = Before
  BY <1>facts DEF WriteNew, Goto
<1>u. \A u \in Threads : u # t =>
        /\ pc'[u] = pc[u] /\ slot'[u] = slot[u] /\ oldvalue'[u] = oldvalue[u]
        /\ Name(u)' = Name(u)
  BY <1>facts DEF WriteNew, Goto, Name
<1>1. FilledInv'
  <2>1. \A k \in Slots : ~(k < 0)
    BY DEF Slots
  <2>. QED  BY <2>1, <1>inv, <1>step, <1>t, <1>u DEF FilledInv
<1>2. OwnInv'
  BY <1>inv, <1>step, <1>t, <1>u DEF OwnInv, Full
<1>3. AheadInv'
  <2>1. Before # Wanted
    BY DEF Before, Wanted
  <2>. QED  BY <2>1, <1>inv, <1>step, <1>t, <1>u DEF AheadInv, Full
<1>4. ValueInv'
  <2> SUFFICES ASSUME NEW v \in Names \ lost, NEW k \in Slots, Full(k, v), kv[k].value # Before
               PROVE  \E u \in Threads : pc'[u] \in {"second", "value"} /\ slot'[u] = k /\ Name(u)' = v
    BY <1>step DEF ValueInv, Full
  <2>1. PICK u \in Threads : pc[u] \in {"second", "value"} /\ slot[u] = k /\ Name(u) = v
    BY <1>inv DEF ValueInv
  <2>2. u # t
    BY <2>1, <1>0
  <2>. QED  BY <2>1, <2>2, <1>u
<1>5. SavedInv'
  <2> SUFFICES ASSUME NEW v \in Names \ lost,
                      kernel'[v] # Before \/ \E u \in Threads : pc'[u] = "write" /\ Name(u)' = v
               PROVE  \E k \in Slots : Full(k, v)
    BY <1>step DEF SavedInv, Full
  <2>1. kernel[v] # Before \/ \E u \in Threads : pc[u] = "write" /\ Name(u) = v
    BY <1>0, <1>facts, <1>step, <1>t, <1>u
  <2>. QED  BY <2>1, <1>inv, <1>facts DEF SavedInv
<1>6. RestoreInv'
  BY <1>step, <1>facts DEF RestoreInv
<1>. QED  BY <1>1, <1>2, <1>3, <1>4, <1>5, <1>6 DEF TableInv

\* The rest of timerthread.
LEMMA LoopTable ==
  ASSUME BaseInv, TableInv, NEW t \in Threads,
         Start(t) \/ TestShutdown(t) \/ Measure(t) \/ StoreMeasure(t) \/ Disarm(t) \/ End(t)
  PROVE  TableInv'
<1>1. slot \in [Threads -> 0..KVARS] /\ pc \in [Threads -> Places]
  BY DEF BaseInv, TypeOK, Places, Saving
<1>2. /\ UNCHANGED <<tableVars, setVars, main, i>>
      /\ pc[t] \notin Saving
      /\ \E p \in Places \ Saving : pc' = [pc EXCEPT ![t] = p]
  BY DEF Start, TestShutdown, Measure, StoreMeasure, Disarm, End, Goto, mainVars, Places, Saving
<1>3. /\ pc'[t] \notin Saving
      /\ \A u \in Threads : u # t => pc'[u] = pc[u]
  BY <1>1, <1>2
<1>. QED  BY <1>1, <1>2, <1>3, TableFrame

\* restorekernvars, which runs when no thread is left.
LEMMA RestoreTable ==
  ASSUME BaseInv, TableInv, Restore \/ RestoreFails
  PROVE  TableInv'
<1>inv. FilledInv /\ OwnInv /\ AheadInv /\ ValueInv /\ RestoreInv
  BY DEF TableInv
<1>step. /\ main = "restore" /\ main' = "restore" /\ i' = i + 1
         /\ UNCHANGED <<kv, pc, var, slot, oldvalue>> /\ lost \subseteq lost'
         /\ \/ kernel' = IF kv[i].first \in Names /\ kv[i].second = kv[i].first
                           THEN [kernel EXCEPT ![kv[i].first] = kv[i].value] ELSE kernel
            \/ kernel' = kernel /\ kv[i].first \in lost'
  BY DEF Restore, RestoreFails, MainTo, inMain, setVars
<1>i. i \in Slots
  <2>1. i \in 0..(NumThreads + KVARS)
    BY DEF BaseInv, TypeOK
  <2>. QED  BY <2>1 DEF Restore, RestoreFails, Slots
<1>kernel. kernel \in [Names -> {Before, Wanted}]
  BY DEF BaseInv, TypeOK
<1>gone. \A t \in Threads : pc[t] \in {"none", "ended"}
  BY <1>step DEF BaseInv, MainInv
<1>1. FilledInv' /\ OwnInv' /\ AheadInv'
  BY <1>inv, <1>step DEF FilledInv, OwnInv, AheadInv, Full, Name
<1>2. ValueInv'
  BY <1>inv, <1>step DEF ValueInv, Full, Name
<1>3. SavedInv'
  BY <1>step DEF SavedInv
<1>4. RestoreInv'
  <2> SUFFICES ASSUME NEW v \in Names \ lost', kernel'[v] # Before
               PROVE  \E k \in Slots : k >= i + 1 /\ Full(k, v)
    BY <1>step DEF RestoreInv, Full
  <2>1. ~Full(i, v)
    <3> SUFFICES ASSUME Full(i, v) PROVE FALSE
      OBVIOUS
    <3>0. kv[i].first = v /\ v \notin lost /\ v \notin lost'
      BY <1>step DEF Full
    <3>1. kernel'[v] = kv[i].value
      BY <3>0, <1>step, <1>kernel DEF Full
    <3>2. \E t \in Threads : pc[t] \in {"second", "value"}
      BY <3>0, <3>1, <1>inv, <1>i DEF ValueInv
    <3>. QED  BY <3>2, <1>gone
  <2>2. kernel[v] # Before
    BY <2>1, <1>step, <1>kernel DEF Full
  <2>3. PICK k \in Slots : k >= i /\ Full(k, v)
    BY <2>2, <1>inv, <1>step DEF RestoreInv
  <2>4. k # i
    BY <2>1, <2>3
  <2>5. k >= i + 1
    BY <2>3, <2>4, <1>i DEF Slots
  <2>. QED  BY <2>3, <2>5
<1>. QED  BY <1>1, <1>2, <1>3, <1>4 DEF TableInv

\* The other steps: of main up to the restoring, and of the environment.
LEMMA MainTable ==
  ASSUME BaseInv, TableInv, Main \/ Interrupt \/ Tick \/ UNCHANGED vars
  PROVE  TableInv'
<1>slot. slot \in [Threads -> 0..KVARS] /\ pc \in [Threads -> Places]
  BY DEF BaseInv, TypeOK, Places, Saving
<1> USE DEF MainTo, inMain, mainVars
<1>1. CASE Create
  <2>1. i \in Threads /\ pc[i] = "none"
    <3>1. i \in 0..(NumThreads + KVARS)
      BY DEF BaseInv, TypeOK
    <3>2. i \in Threads
      BY <1>1, <3>1 DEF Create, Threads
    <3>. QED  BY <1>1, <3>1, <3>2 DEF Create, BaseInv, MainInv
  <2>2. slot[i] = 0 /\ oldvalue[i] = Before
    BY <2>1 DEF BaseInv, ThreadInv
  <2>3. /\ UNCHANGED <<tableVars, setVars>> /\ main = "create" /\ main' = "mark"
        /\ \E p \in {"read", "start", "failed"} : pc' = [pc EXCEPT ![i] = p]
    BY <1>1 DEF Create
  <2>4. /\ \A t \in Threads : t # i => pc'[t] = pc[t]
        /\ pc'[i] \in {"read", "start", "failed"}
    BY <2>1, <2>3, <1>slot
  <2>5. /\ \A t \in Threads : pc'[t] \in Saving =>
             pc'[t] = pc[t] \/ (pc'[t] = "read" /\ slot[t] = 0 /\ oldvalue[t] = Before)
        /\ \A t \in Threads : pc[t] \in Saving => pc'[t] = pc[t]
    BY <2>1, <2>2, <2>4 DEF Saving
  <2>. QED  BY <2>3, <2>5, <1>slot, TableFrame
<1>2. CASE \/ NoValues \/ Mark \/ Poll \/ PrintValue \/ Printed \/ Polled
           \/ Join \/ Interrupt \/ Tick \/ UNCHANGED vars
  <2>1. UNCHANGED <<tableVars, setVars, pc>>
    BY <1>2 DEF NoValues, Mark, Poll, PrintValue, Printed, Polled, Join, Interrupt, Tick, vars
  <2>2. \/ UNCHANGED <<main, i>>
        \/ main \notin {"restore", "exited"} /\ main' \notin {"restore", "exited"}
    BY <1>2 DEF NoValues, Mark, Poll, PrintValue, Printed, Polled, Join, Interrupt, Tick, vars
  <2>. QED  BY <2>1, <2>2, <1>slot, TableFrame
<1>3. CASE Alloc \/ Joined
  <2>1. UNCHANGED <<tableVars, setVars, pc>> /\ main \notin {"restore", "exited"} /\ main' # "exited"
    BY <1>3 DEF Alloc, Joined
  <2>2. CASE main' # "restore"
    BY <2>1, <2>2, <1>slot, TableFrame
  <2>3. CASE main' = "restore"
    <3>1. i' = 0
      BY <1>3, <2>3 DEF Alloc, Joined
    <3> USE DEF tableVars, setVars
    <3>2. FilledInv' /\ OwnInv' /\ AheadInv'
      BY <2>1 DEF TableInv, FilledInv, OwnInv, AheadInv, Full, Name
    <3>3. ValueInv'
      BY <2>1 DEF TableInv, ValueInv, Full, Name
    <3>4. SavedInv'
      BY <2>3 DEF SavedInv
    <3>5. RestoreInv'
      <4>1. \A k \in Slots : k >= 0
        BY DEF Slots
      <4>2. \A v \in Names \ lost : kernel[v] # Before => \E k \in Slots : Full(k, v)
        BY <2>1 DEF TableInv, SavedInv
      <4>. QED  BY <4>1, <4>2, <2>1, <2>3, <3>1 DEF RestoreInv, Full
    <3>. QED  BY <3>2, <3>3, <3>4, <3>5 DEF TableInv
  <2>. QED  BY <2>2, <2>3
<1>4. CASE Exit
  <2>1. /\ UNCHANGED <<kernel, kv, lost, pc, var, slot, oldvalue>>
        /\ main = "restore" /\ i = KVARS /\ main' = "exited"
    BY <1>4 DEF Exit, tableVars, setVars
  <2>2. FilledInv' /\ OwnInv' /\ AheadInv'
    BY <2>1 DEF TableInv, FilledInv, OwnInv, AheadInv, Full, Name
  <2>3. ValueInv'
    BY <2>1 DEF TableInv, ValueInv, Full, Name
  <2>4. SavedInv'
    BY <2>1 DEF SavedInv
  <2>5. RestoreInv'
    <3>1. \A k \in Slots : ~(k >= KVARS)
      BY DEF Slots
    <3>2. \A v \in Names \ lost : kernel[v] = Before
      BY <3>1, <2>1 DEF TableInv, RestoreInv
    <3>. QED  BY <3>2, <2>1 DEF RestoreInv
  <2>. QED  BY <2>2, <2>3, <2>4, <2>5 DEF TableInv
<1>5. CASE Restore \/ RestoreFails
  BY <1>5, RestoreTable
<1>. QED  BY <1>1, <1>2, <1>3, <1>4, <1>5 DEF Main

LEMMA TableNext ==
  ASSUME BaseInv, TableInv, [Next]_vars
  PROVE  TableInv'
<1>1. ASSUME NEW t \in Threads, TimerThread(t) PROVE TableInv'
  <2>1. CASE ReadOld(t) \/ ReadFails(t) \/ Match(t) \/ NoSlot(t) \/ TestEmpty(t)
    BY <2>1, LookTable
  <2>2. CASE StoreFirst(t) \/ StoreSecond(t) \/ StoreValue(t)
    BY <2>2, StoreTable
  <2>3. CASE WriteNew(t)
    BY <2>3, WriteTable
  <2>4. CASE Start(t) \/ TestShutdown(t) \/ Measure(t) \/ StoreMeasure(t) \/ Disarm(t) \/ End(t)
    BY <2>4, LoopTable
  <2>. QED  BY <1>1, <2>1, <2>2, <2>3, <2>4 DEF TimerThread
<1>2. CASE Main \/ Interrupt \/ Tick \/ UNCHANGED vars
  BY <1>2, MainTable
<1>. QED  BY <1>1, <1>2 DEF Next, Threading

-----------------------------------------------------------------------------
(* The buffer of the measured values. *)

\* The value of cycle n is in its place of the buffer: for the last
\* ValbufSize cycles, but the one whose value is about to be stored.
Kept(t, n) ==
  n <= cycles[t] /\ cycles[t] - n < ValbufSize /\ (pc[t] = "store" => n < cycles[t])

RingInv ==
  opt.verbose => \A t \in Threads : \A n \in Nat :
    Kept(t, n) => values[t][n % ValbufSize] = n

\* Two cycles less than ValbufSize apart have different places.
LEMMA PlacesDiffer ==
  ASSUME NEW size \in Nat \ {0}, NEW m \in Nat, NEW n \in Nat,
         m < n, n - m < size
  PROVE  m % size # n % size
<1> SUFFICES ASSUME m % size = n % size PROVE FALSE
  OBVIOUS
<1> DEFINE q == m \div size  p == n \div size
<1>1. m = size * q + (m % size) /\ n = size * p + (n % size) /\ p \in Int /\ q \in Int
  OBVIOUS
<1> HIDE DEF p, q
<1>2. m % size \in Int
  OBVIOUS
<1>3. n - m = size * (p - q)
  BY <1>1, <1>2
<1>4. p - q <= 0 \/ p - q >= 1
  BY <1>1
<1>5. CASE p - q <= 0
  <2>1. size * (p - q) <= 0
    BY <1>1, <1>5
  <2>. QED  BY <1>3, <2>1
<1>6. CASE p - q >= 1
  <2>1. size * (p - q) >= size
    BY <1>1, <1>6
  <2>. QED  BY <1>3, <2>1
<1>. QED  BY <1>4, <1>5, <1>6

LEMMA RingInit == Init => RingInv
<1> SUFFICES ASSUME Init, NEW t \in Threads, NEW n \in Nat, Kept(t, n)
             PROVE  values[t][n % ValbufSize] = n
  BY DEF RingInv
<1>1. cycles[t] = 0 /\ \A k \in 0..(ValbufSize - 1) : values[t][k] = 0
  BY DEF Init
<1>2. n = 0
  BY <1>1 DEF Kept
<1>3. n % ValbufSize = 0 /\ 0 \in 0..(ValbufSize - 1)
  BY <1>2
<1>. QED  BY <1>1, <1>2, <1>3

\* Every step but Measure and StoreMeasure leaves what Kept speaks of alone.
LEMMA RingFrame ==
  ASSUME RingInv, UNCHANGED <<opt, cycles, values>>,
         \A t \in Threads : pc[t] = "store" => pc'[t] = "store"
  PROVE  RingInv'
<1> SUFFICES ASSUME opt.verbose, NEW t \in Threads, NEW n \in Nat, Kept(t, n)'
             PROVE  values[t][n % ValbufSize] = n
  BY DEF RingInv
<1>1. Kept(t, n)
  BY DEF Kept
<1>. QED  BY <1>1 DEF RingInv

LEMMA RingNext ==
  ASSUME BaseInv, RingInv, [Next]_vars
  PROVE  RingInv'
<1>type. /\ pc \in [Threads -> Places] /\ cycles \in [Threads -> Nat]
         /\ values \in [Threads -> [0..(ValbufSize - 1) -> Nat]]
  <2>1. opt.max_cycles \in Nat
    BY Facts
  <2>2. /\ cycles \in [Threads -> 0..opt.max_cycles]
        /\ values \in [Threads -> [0..(ValbufSize - 1) -> 0..opt.max_cycles]]
    BY DEF BaseInv, TypeOK
  <2>3. pc \in [Threads -> Places]
    BY DEF BaseInv, TypeOK, Places, Saving
  <2>4. 0..opt.max_cycles \subseteq Nat
    BY <2>1
  <2>. QED  BY <2>2, <2>3, <2>4
<1>1. ASSUME NEW t \in Threads, Measure(t) PROVE RingInv'
  <2>1. /\ pc[t] = "wait" /\ pc' = [pc EXCEPT ![t] = "store"]
        /\ cycles' = [cycles EXCEPT ![t] = @ + 1]
        /\ values' = values /\ opt' = opt
    BY <1>1 DEF Measure, Goto
  <2> SUFFICES ASSUME opt.verbose, NEW u \in Threads, NEW n \in Nat, Kept(u, n)'
               PROVE  values[u][n % ValbufSize] = n
    BY <2>1 DEF RingInv
  <2>2. Kept(u, n)
    <3>1. CASE u = t
      <4>1. cycles'[t] = cycles[t] + 1 /\ pc'[t] = "store" /\ cycles[t] \in Nat
        BY <2>1, <1>type
      <4>2. n < cycles[t] + 1 /\ cycles[t] + 1 - n < ValbufSize
        BY <3>1, <4>1 DEF Kept
      <4>3. n <= cycles[t] /\ cycles[t] - n < ValbufSize
        BY <4>1, <4>2
      <4>. QED  BY <2>1, <3>1, <4>3 DEF Kept
    <3>2. CASE u # t
      <4>1. cycles'[u] = cycles[u] /\ pc'[u] = pc[u]
        BY <2>1, <1>type, <3>2
      <4>. QED  BY <4>1 DEF Kept
    <3>. QED  BY <3>1, <3>2
  <2>. QED  BY <2>2 DEF RingInv
<1>2. ASSUME NEW t \in Threads, StoreMeasure(t) PROVE RingInv'
  <2>1. /\ pc[t] = "store" /\ cycles' = cycles /\ opt' = opt
        /\ \A u \in Threads \ {t} : pc'[u] = pc[u]
    BY <1>2, <1>type DEF StoreMeasure, Goto
  <2> SUFFICES ASSUME opt.verbose, NEW u \in Threads, NEW n \in Nat, Kept(u, n)'
               PROVE  values'[u][n % ValbufSize] = n
    BY <2>1 DEF RingInv
  <2>2. values' = [values EXCEPT ![t][Slot(cycles[t])] = cycles[t]]
    BY <1>2 DEF StoreMeasure
  <2>3. n % ValbufSize \in 0..(ValbufSize - 1) /\ Slot(cycles[t]) \in 0..(ValbufSize - 1)
    BY <1>type DEF Slot
  <2>4. n <= cycles[u] /\ cycles[u] - n < ValbufSize
    BY <2>1 DEF Kept
  <2>5. CASE u # t
    <3>1. Kept(u, n)
      BY <2>1, <2>4, <2>5 DEF Kept
    <3>2. values'[u] = values[u]
      BY <2>2, <2>5, <1>type
    <3>. QED  BY <3>1, <3>2 DEF RingInv
  <2>6. CASE u = t /\ n = cycles[t]
    BY <2>2, <2>3, <2>6, <1>type DEF Slot
  <2>7. CASE u = t /\ n # cycles[t]
    <3>1. n < cycles[t] /\ cycles[t] \in Nat /\ cycles[t] - n < ValbufSize
      BY <1>type, <2>4, <2>7
    <3>2. n % ValbufSize # Slot(cycles[t])
      BY <3>1, PlacesDiffer DEF Slot
    <3>3. Kept(t, n)
      BY <3>1 DEF Kept
    <3>4. values'[t][n % ValbufSize] = values[t][n % ValbufSize]
      BY <2>2, <2>3, <3>2, <1>type
    <3>. QED  BY <2>7, <3>3, <3>4 DEF RingInv
  <2>. QED  BY <2>5, <2>6, <2>7
<1>3. ASSUME NEW t \in Threads, TimerThread(t), ~Measure(t), ~StoreMeasure(t)
      PROVE  RingInv'
  <2>1. /\ UNCHANGED <<opt, cycles, values>>
        /\ pc[t] # "store"
        /\ \A u \in Threads \ {t} : pc'[u] = pc[u]
    BY <1>3, <1>type DEF TimerThread, ReadOld, ReadFails, Match, NoSlot, TestEmpty, StoreFirst,
         StoreSecond, StoreValue, Store, WriteNew, Start, TestShutdown, Disarm, End,
         Goto, inSetkernvar, statVars
  <2>. QED  BY <2>1, RingFrame
<1>4. CASE Main \/ Interrupt \/ Tick \/ UNCHANGED vars
  <2>1. UNCHANGED <<opt, cycles, values>>
    BY <1>4 DEF Main, Alloc, Create, NoValues, Mark, Poll, PrintValue, Printed, Polled,
         Join, Joined, Restore, RestoreFails, Exit, Interrupt, Tick, inMain, statVars, vars
  <2>2. \A t \in Threads : pc[t] = "store" => pc'[t] = "store"
    <3>1. CASE Create
      <4>1. main = "create" /\ i < NumThreads
        BY <3>1 DEF Create
      <4>2. i \in 0..(NumThreads + KVARS)
        BY DEF BaseInv, TypeOK
      <4>3. i \in Threads /\ i >= i
        BY <4>1, <4>2 DEF Threads
      <4>4. pc[i] = "none"
        BY <4>1, <4>3 DEF BaseInv, MainInv
      <4>. QED  BY <3>1, <4>3, <4>4, <1>type DEF Create
    <3>2. CASE ~Create
      BY <1>4, <3>2 DEF Main, Alloc, NoValues, Mark, Poll, PrintValue, Printed, Polled,
           Join, Joined, Restore, RestoreFails, Exit, Interrupt, Tick, vars
    <3>. QED  BY <3>1, <3>2
  <2>. QED  BY <2>1, <2>2, RingFrame
<1>. QED  BY <1>1, <1>2, <1>3, <1>4 DEF Next, Threading

-----------------------------------------------------------------------------
(* The theorems. *)

\* The types of cyclictest.c's state: the loop variable of main stays within
\* the threads and the slots, and no thread passes its number of cycles.
THEOREM TypeCorrect == Spec => []TypeOK
<1>1. BaseInv /\ [Next]_vars => BaseInv'
  BY BaseNext
<1>2. BaseInv => TypeOK
  BY DEF BaseInv
<1>. QED  BY <1>1, <1>2, BaseInit, PTL DEF Spec

\* main joins every thread that runs before it restores the kernel variables
\* and frees what the threads use, whatever the race for threadstarted gives.
THEOREM FreeIsSafe == Spec => []NoUseAfterFree
<1>1. BaseInv /\ [Next]_vars => BaseInv'
  BY BaseNext
<1>2. BaseInv => NoUseAfterFree
  BY DEF BaseInv, MainInv, NoUseAfterFree
<1>. QED  BY <1>1, <1>2, BaseInit, PTL DEF Spec

\* When main has run restorekernvars, every kernel variable has its old value
\* unless it could not be retrieved, backed up or restored, or its backup was
\* overwritten, for any number of threads that save and set the variables at
\* the same time and any number of accesses that fail.
THEOREM Restored == Spec => []RestoredUnlessLost
<1>1. Init => BaseInv /\ TableInv
  BY BaseInit, TableInit
<1>2. BaseInv /\ TableInv /\ [Next]_vars => (BaseInv /\ TableInv)'
  BY BaseNext, TableNext
<1>3. TableInv => RestoredUnlessLost
  BY DEF TableInv, RestoreInv, RestoredUnlessLost
<1>. QED  BY <1>1, <1>2, <1>3, PTL DEF Spec

\* What print_stat prints next is the value of the cycle it prints it with,
\* for every size of the buffer and however far the thread has gone on, as
\* long as it is less than the buffer ahead.
THEOREM PrintsRight == Spec => []PrintsItsCycle
<1>1. Init => BaseInv /\ RingInv
  BY BaseInit, RingInit
<1>2. BaseInv /\ RingInv /\ [Next]_vars => (BaseInv /\ RingInv)'
  BY BaseNext, RingNext
<1>3. BaseInv /\ RingInv => PrintsItsCycle
  <2> SUFFICES ASSUME BaseInv, RingInv, opt.verbose, NEW t \in Threads,
                      cyclesread[t] < cycles[t], cycles[t] - cyclesread[t] < ValbufSize
               PROVE  values[t][cyclesread[t] % ValbufSize] = cyclesread[t]
    BY DEF PrintsItsCycle
  <2>1. opt.max_cycles \in Nat
    BY Facts
  <2>2. cyclesread[t] \in Nat /\ cycles[t] \in Nat
    <3>1. cyclesread[t] \in 0..opt.max_cycles /\ cycles[t] \in 0..opt.max_cycles
      BY DEF BaseInv, TypeOK
    <3>. QED  BY <2>1, <3>1
  <2>3. Kept(t, cyclesread[t])
    BY <2>2 DEF Kept
  <2>. QED  BY <2>2, <2>3 DEF RingInv
<1>. QED  BY <1>1, <1>2, <1>3, PTL DEF Spec

=============================================================================
