------------------------- MODULE SignalTest_proofs -------------------------
(***************************************************************************)
(* Safety of SignalTest for any number of threads and loops.               *)
(*                                                                         *)
(* Lifecycle ties the flags main reads to where the threads are; Gate says *)
(* what holds before the first signal; Linked why a signal passed on       *)
(* arrives.  RoundsExact is RoundsInOrder made inductive: whoever has the  *)
(* signal separates the threads that are one round ahead from the others.  *)
(***************************************************************************)
EXTENDS SignalTest, TLAPS

Lifecycle ==
  \A i \in Threads :
    /\ pc[i] = "none" => threadstarted[i] \in {0, 1}
    /\ pc[i] = "start" => threadstarted[i] = 1
    /\ pc[i] \in {"loop", "sigwait", "got", "count", "out"} => threadstarted[i] = 2
    /\ pc[i] = "exit" => threadstarted[i] = -1
    /\ pc[i] \notin {"out", "exit"} => cycles[i] < Loops

Creating == main = "create" => \A i \in Threads : i >= k => pc[i] = "none"

Joined ==
  /\ main = "join" => \A i \in Threads : i < k => pc[i] \in {"none", "exit"}
  /\ main = "freed" => \A i \in Threads : pc[i] \in {"none", "exit"}

Ring == \A i \in Threads : tothread[i] \in {NoThread, Successor(i)}

Linked ==
  main \in {"kick", "poll"} /\ shutdown = 0 =>
    \A i \in Threads : tothread[i] = Successor(i) /\ pc[i] # "none"

Gate ==
  main \in {"create", "link", "kick"} =>
    pending = {} /\ Holding = {} /\ \A i \in Threads : Hops(i) = 0

RoundsExact ==
  \A i \in pending \cup Holding : \A l \in Threads :
    Hops(l) = Hops(i) + (IF l < i THEN 1 ELSE 0)

BaseInv == TypeOK /\ Lifecycle /\ Creating /\ Joined /\ Ring /\ Linked
TokenInv == OneToken /\ TokenAlive /\ Gate /\ RoundsExact /\ RoundsInOrder

USE ThreadsAssumption, LoopsAssumption, BoundAssumption

-----------------------------------------------------------------------------

LEMMA SuccessorType == \A i \in Threads : Successor(i) \in Threads /\ NoThread \notin Threads
BY DEF Threads, Successor, NoThread

LEMMA KillType ==
  ASSUME NEW j, NEW P, P \subseteq Threads
  PROVE  Kill(j, P) \subseteq Threads /\ Kill(j, P) \subseteq P \cup {j}
BY DEF Kill

LEMMA BaseInit == Init => BaseInv
BY DEF Init, BaseInv, TypeOK, Lifecycle, Creating, Joined, Ring, Linked, Threads, NoThread

\* The steps of main and of sighand.
LEMMA MainBase ==
  BaseInv /\ (Main \/ LeaveLinkLoop \/ Interrupt) => BaseInv'
<1> SUFFICES ASSUME BaseInv, Main \/ LeaveLinkLoop \/ Interrupt PROVE BaseInv'
  OBVIOUS
<1> USE DEF BaseInv, Lifecycle, Creating, Joined, Ring, Linked, TypeOK, Threads, Running, threadVars
<1>1. CASE CreateThread
  BY <1>1 DEF CreateThread
<1>2. CASE CreateFails
  <2>1. TypeOK'
    BY <1>2 DEF CreateFails
  <2>2. Lifecycle'
    BY <1>2 DEF CreateFails
  <2>3. Creating' /\ Joined'
    BY <1>2 DEF CreateFails
  <2>4. Ring' /\ Linked'
    BY <1>2 DEF CreateFails
  <2> QED
    BY <2>1, <2>2, <2>3, <2>4
<1>3. CASE AllocFails
  BY <1>3 DEF AllocFails
<1>4. CASE EnterLinkLoop
  BY <1>4 DEF EnterLinkLoop
<1>5. CASE LinkRing
  <2>1. TypeOK'
    BY <1>5, SuccessorType DEF LinkRing
  <2>2. Lifecycle'
    BY <1>5, SuccessorType DEF LinkRing
  <2>3. Creating' /\ Joined'
    BY <1>5, SuccessorType DEF LinkRing
  <2>4. \A i \in Threads : tothread'[i] = Successor(i) /\ pc'[i] # "none"
    BY <1>5 DEF LinkRing
  <2>5. Ring' /\ Linked'
    BY <2>4
  <2> QED
    BY <2>1, <2>2, <2>3, <2>5
<1>6. CASE Kick
  <2>0. pending' \subseteq Threads
    <3>1. Kill(0, pending) \subseteq Threads
      BY KillType
    <3> QED
      BY <1>6, <3>1 DEF Kick
  <2>1. TypeOK'
    BY <1>6, <2>0 DEF Kick
  <2>2. Lifecycle'
    BY <1>6 DEF Kick
  <2>3. Creating' /\ Joined'
    BY <1>6 DEF Kick
  <2>4. Ring' /\ Linked'
    BY <1>6 DEF Kick
  <2> QED
    BY <2>1, <2>2, <2>3, <2>4
<1>7. CASE Poll
  BY <1>7 DEF Poll
<1>8. CASE OutAll
  BY <1>8 DEF OutAll
<1>9. CASE JoinThread
  BY <1>9 DEF JoinThread, Joinable
<1>10. CASE FreeStat
  BY <1>10 DEF FreeStat
<1>11. CASE LeaveLinkLoop
  BY <1>11 DEF LeaveLinkLoop
<1>12. CASE Interrupt
  BY <1>12 DEF Interrupt
<1> QED
  BY <1>1, <1>2, <1>3, <1>4, <1>5, <1>6, <1>7, <1>8, <1>9, <1>10, <1>11, <1>12 DEF Main

\* The steps of a thread.
LEMMA ThreadBase ==
  ASSUME BaseInv, NEW i \in Threads, Thread(i)
  PROVE  BaseInv'
<1> USE DEF BaseInv, Lifecycle, Creating, Joined, Ring, Linked, TypeOK, Threads, Running, Goto
<1>1. CASE StartThread(i)
  BY <1>1 DEF StartThread
<1>2. CASE LoopTest(i)
  <2>1. TypeOK'
    BY <1>2 DEF LoopTest
  <2>2. Lifecycle'
    BY <1>2 DEF LoopTest
  <2>3. Creating' /\ Joined'
    BY <1>2 DEF LoopTest
  <2>4. Ring' /\ Linked'
    BY <1>2 DEF LoopTest
  <2> QED
    BY <2>1, <2>2, <2>3, <2>4
<1>3. CASE SigWait(i)
  BY <1>3 DEF SigWait
<1>4. CASE Forward(i)
  <2>1. CASE tothread[i] = NoThread
    BY <1>4, <2>1 DEF Forward
  <2>2. CASE tothread[i] # NoThread
    <3>0. pending' \subseteq Threads
      <4>1. Forwarded(i) \subseteq Threads
        BY KillType DEF Forwarded
      <4> QED
        BY <1>4, <2>2, <4>1 DEF Forward
    <3>1. pc' = [pc EXCEPT ![i] = IF first[i] = 1 THEN "loop" ELSE "count"] /\ pc[i] = "got"
      BY <1>4, <2>2 DEF Forward
    <3>2. TypeOK'
      BY <1>4, <2>2, <3>0 DEF Forward
    <3>3. Lifecycle'
      BY <1>4, <2>2, <3>1 DEF Forward
    <3>4. Creating' /\ Joined'
      BY <1>4, <2>2, <3>1 DEF Forward
    <3>5. Ring' /\ Linked'
      BY <1>4, <2>2, <3>1 DEF Forward
    <3> QED
      BY <3>2, <3>3, <3>4, <3>5
  <2> QED
    BY <2>1, <2>2
<1>5. CASE Count(i)
  <2>0. shutdown' \in {0, 1} /\ events' \in 0..MaxEvents
    BY <1>5 DEF Count
  <2>a. cycles' = [cycles EXCEPT ![i] = @ + 1] /\ pc[i] = "count"
    BY <1>5 DEF Count
  <2>b. cycles[i] + 1 \in 0..Loops
    <3>1. cycles[i] < Loops /\ cycles[i] \in 0..Loops
      BY <2>a
    <3> QED
      BY <3>1
  <2>c. cycles' \in [Threads -> 0..Loops]
    BY <2>a, <2>b
  <2>p. pc' \in [Threads -> {"none", "start", "loop", "sigwait", "got", "count", "out", "exit"}]
    BY <1>5 DEF Count
  <2>1. TypeOK'
    BY <1>5, <2>0, <2>c, <2>p DEF Count
  <2>2. Lifecycle'
    BY <1>5 DEF Count, LastCycle
  <2>3. Creating' /\ Joined'
    BY <1>5 DEF Count, LastCycle
  <2>4. Ring' /\ Linked'
    BY <1>5 DEF Count, LastCycle
  <2> QED
    BY <2>1, <2>2, <2>3, <2>4
<1>6. CASE Return(i)
  BY <1>6 DEF Return
<1> QED
  BY <1>1, <1>2, <1>3, <1>4, <1>5, <1>6 DEF Thread

LEMMA BaseStep == BaseInv /\ [Next]_vars => BaseInv'
<1> SUFFICES ASSUME BaseInv, [Next]_vars PROVE BaseInv'
  OBVIOUS
<1>1. CASE UNCHANGED vars
  BY <1>1 DEF vars, threadVars, BaseInv, TypeOK, Lifecycle, Creating, Joined, Ring, Linked
<1> QED
  BY <1>1, MainBase, ThreadBase DEF Next

\* Every variable stays in its range: in particular no thread counts more
\* than `max_cycles' cycles, whatever stops the test.
THEOREM TypeCorrect == Spec => []TypeOK
<1>1. BaseInv => TypeOK
  BY DEF BaseInv
<1> QED
  BY <1>1, BaseInit, BaseStep, PTL DEF Spec

\* main frees the statistics only when no thread is left that uses them,
\* also after failing allocations and thread creations.
THEOREM FreeIsSafe == Spec => []NoUseAfterFree
<1>1. BaseInv => NoUseAfterFree
  BY DEF BaseInv, Joined, NoUseAfterFree
<1> QED
  BY <1>1, BaseInit, BaseStep, PTL DEF Spec

-----------------------------------------------------------------------------
(* The signal. *)

LEMMA HopsType == TypeOK => \A i \in Threads : Hops(i) \in Nat
BY DEF TypeOK, Hops

LEMMA TokenInit == Init => TokenInv
BY DEF Init, TokenInv, OneToken, TokenAlive, Gate, RoundsExact, RoundsInOrder, Hops, Holding, Threads

\* A step that counts no round and brings no new signal.
LEMMA NoNewToken ==
  ASSUME TokenInv, BaseInv,
         pending' \cup Holding' \subseteq pending \cup Holding,
         pending' \cap Holding' = {},
         \A i \in Threads : Hops(i)' = Hops(i)
  PROVE  OneToken' /\ RoundsExact' /\ RoundsInOrder'
<1>1. OneToken'
  BY DEF TokenInv, OneToken
<1>2. RoundsExact'
  <2>1. pending \subseteq Threads /\ Holding \subseteq Threads
    BY DEF BaseInv, TypeOK, Holding
  <2> QED
    BY <2>1 DEF TokenInv, RoundsExact
<1>3. RoundsInOrder'
  BY DEF TokenInv, RoundsInOrder
<1> QED
  BY <1>1, <1>2, <1>3

\* Most steps of main leave the threads alone.
LEMMA QuietStep ==
  ASSUME TokenInv, BaseInv, UNCHANGED <<pc, cycles, first, pending>>,
         main' # "poll" \/ shutdown' # 0 \/ UNCHANGED <<main, shutdown, proc>>,
         main' \in {"create", "link", "kick"} => main \in {"create", "link", "kick"}
  PROVE  TokenInv'
<1>1. Holding' = Holding /\ \A i \in Threads : Hops(i)' = Hops(i)
  BY DEF Holding, Hops
<1>2. OneToken' /\ RoundsExact' /\ RoundsInOrder'
  BY <1>1, NoNewToken DEF TokenInv, OneToken
<1>3. TokenAlive'
  BY <1>1 DEF TokenInv, TokenAlive
<1>4. Gate'
  BY <1>1 DEF TokenInv, Gate
<1> QED
  BY <1>2, <1>3, <1>4 DEF TokenInv

LEMMA MainToken ==
  ASSUME TokenInv, BaseInv, Main \/ LeaveLinkLoop \/ Interrupt
  PROVE  TokenInv'
<1>1. CASE CreateThread
  <2>1. k \in Threads /\ pc[k] = "none" /\ main = "create" /\ main' = "create"
    BY <1>1 DEF CreateThread, BaseInv, Creating, TypeOK, Threads
  <2>2. Holding' = Holding /\ \A i \in Threads : Hops(i)' = Hops(i)
    BY <1>1, <2>1 DEF CreateThread, Holding, Hops, BaseInv, TypeOK
  <2>3. pending' = pending
    BY <1>1 DEF CreateThread
  <2>4. OneToken' /\ RoundsExact' /\ RoundsInOrder'
    BY <2>2, <2>3, NoNewToken DEF TokenInv, OneToken
  <2>5. TokenAlive' /\ Gate'
    BY <2>1, <2>2, <2>3 DEF TokenInv, TokenAlive, Gate
  <2> QED
    BY <2>4, <2>5 DEF TokenInv
<1>2. CASE CreateFails \/ AllocFails
  BY <1>2, QuietStep DEF CreateFails, AllocFails, threadVars
<1>3. CASE EnterLinkLoop \/ LinkRing \/ LeaveLinkLoop
  BY <1>3, QuietStep DEF EnterLinkLoop, LinkRing, LeaveLinkLoop, threadVars
<1>4. CASE Kick
  <2>1. pending = {} /\ Holding = {} /\ \A i \in Threads : Hops(i) = 0
    BY <1>4 DEF Kick, TokenInv, Gate
  <2>2. Holding' = {} /\ (\A i \in Threads : Hops(i)' = 0) /\ main' = "poll"
    BY <1>4, <2>1 DEF Kick, Holding, Hops
  <2>3. pending' \subseteq {0}
    <3>1. Kill(0, pending) \subseteq {0}
      BY <2>1, KillType
    <3> QED
      BY <1>4, <2>1, <3>1 DEF Kick
  <2>4. OneToken' /\ RoundsInOrder'
    BY <2>2, <2>3 DEF OneToken, RoundsInOrder
  <2>5. RoundsExact'
    BY <2>2, <2>3 DEF RoundsExact, Threads
  <2>6. TokenAlive'
    BY <1>4, <2>1 DEF Kick, Kill, TokenAlive, Threads
  <2>7. Gate'
    BY <2>2 DEF Gate
  <2> QED
    BY <2>4, <2>5, <2>6, <2>7 DEF TokenInv
<1>5. CASE Poll \/ OutAll \/ JoinThread \/ FreeStat
  BY <1>5, QuietStep DEF Poll, OutAll, JoinThread, FreeStat, threadVars
<1>6. CASE Interrupt
  BY <1>6, QuietStep DEF Interrupt, threadVars
<1> QED
  BY <1>1, <1>2, <1>3, <1>4, <1>5, <1>6 DEF Main

\* A thread goes from one place to another, and the signal stays where it is.
LEMMA IdleStep ==
  ASSUME TokenInv, BaseInv, NEW i \in Threads, pc[i] # "got", pc'[i] # "got",
         pc[i] \notin {"out", "exit"} \/ pc'[i] \in {"out", "exit"},
         \A j \in Threads \ {i} : pc'[j] = pc[j],
         pending' = pending, main' = main, proc' = proc,
         shutdown' = 0 => shutdown = 0,
         \A j \in Threads : Hops(j)' = Hops(j)
  PROVE  TokenInv'
<1>1. Holding' = Holding
  BY DEF Holding
<1>2. OneToken' /\ RoundsExact' /\ RoundsInOrder'
  BY <1>1, NoNewToken DEF TokenInv, OneToken
<1>3. TokenAlive'
  BY <1>1 DEF TokenInv, TokenAlive
<1>4. Gate'
  BY <1>1 DEF TokenInv, Gate
<1> QED
  BY <1>2, <1>3, <1>4 DEF TokenInv

\* The step that matters: the signal goes on to the next thread.
LEMMA ForwardToken ==
  ASSUME TokenInv, BaseInv, NEW i \in Threads, Forward(i)
  PROVE  TokenInv'
<1>1. CASE tothread[i] = NoThread
  <2>1. UNCHANGED <<pc, cycles, first, pending, main, shutdown>> /\ proc' = "crashed"
    BY <1>1 DEF Forward
  <2>2. Holding' = Holding /\ \A j \in Threads : Hops(j)' = Hops(j)
    BY <2>1 DEF Holding, Hops
  <2>3. OneToken' /\ RoundsExact' /\ RoundsInOrder'
    BY <2>1, <2>2, NoNewToken DEF TokenInv, OneToken
  <2>4. TokenAlive' /\ Gate'
    BY <2>1, <2>2 DEF TokenInv, TokenAlive, Gate
  <2> QED
    BY <2>3, <2>4 DEF TokenInv
<1>2. CASE tothread[i] # NoThread
  <2> DEFINE s == Successor(i)
             h == Hops(i)
  <2>1. tothread[i] = s /\ s \in Threads
    BY <1>2, SuccessorType DEF BaseInv, Ring
  <2>2. /\ pc[i] = "got"
        /\ pc' = [pc EXCEPT ![i] = IF first[i] = 1 THEN "loop" ELSE "count"]
        /\ first' = [first EXCEPT ![i] = 0]
        /\ pending' = Kill(s, pending)
        /\ UNCHANGED <<main, shutdown, cycles, proc>>
    BY <1>2, <2>1 DEF Forward, Forwarded, Goto
  <2>3. pending = {} /\ Holding = {i}
    BY <2>2 DEF TokenInv, OneToken, Holding, BaseInv, TypeOK
  <2>4. Holding' = {}
    BY <2>2, <2>3 DEF Holding, BaseInv, TypeOK
  <2>5. pending' \subseteq {s}
    BY <2>2, <2>3, KillType
  <2>6. h \in Nat /\ \A l \in Threads : Hops(l) = h + (IF l < i THEN 1 ELSE 0)
    BY <2>3, HopsType DEF TokenInv, RoundsExact, BaseInv
  <2>7. \A l \in Threads : l # i => Hops(l)' = Hops(l)
    BY <2>2 DEF Hops, BaseInv, TypeOK
  <2>8. Hops(i)' = h + 1
    BY <2>2 DEF Hops, BaseInv, TypeOK
  <2>9. \A l \in Threads : Hops(l)' = h + (IF l <= i THEN 1 ELSE 0)
    BY <2>6, <2>7, <2>8 DEF Threads
  <2> HIDE DEF h
  <2>10. OneToken'
    BY <2>4, <2>5 DEF OneToken
  <2>11. RoundsInOrder'
    BY <2>6, <2>9 DEF RoundsInOrder, Threads
  <2>12. RoundsExact'
    <3>1. \A l \in Threads : (l < s) <=> (l <= i /\ s # 0)
      BY DEF Successor, Threads
    <3>2. \A l \in Threads : Hops(l)' = Hops(s)' + (IF l < s THEN 1 ELSE 0)
      BY <2>1, <2>6, <2>9, <3>1 DEF Successor, Threads
    <3> HIDE DEF s
    <3> QED
      BY <2>4, <2>5, <3>2 DEF RoundsExact
  <2>13. TokenAlive'
    <3> SUFFICES ASSUME main' = "poll", shutdown' = 0,
                        \A j \in Threads : pc'[j] \notin {"out", "exit"}
                 PROVE  pending' # {}
      BY DEF TokenAlive
    <3>1. pc[s] # "none"
      BY <2>1, <2>2 DEF BaseInv, Linked
    <3>2. pc[s] # "exit"
      BY <2>1, <2>2 DEF BaseInv, TypeOK
    <3> QED
      BY <2>1, <2>2, <3>1, <3>2 DEF Kill
  <2>14. Gate'
    BY <2>2, <2>3 DEF TokenInv, Gate
  <2> QED
    BY <2>10, <2>11, <2>12, <2>13, <2>14 DEF TokenInv
<1> QED
  BY <1>1, <1>2

LEMMA ThreadToken ==
  ASSUME TokenInv, BaseInv, NEW i \in Threads, Thread(i)
  PROVE  TokenInv'
<1> USE DEF Goto
<1>1. CASE StartThread(i) \/ LoopTest(i)
  <2>1. /\ pc[i] \in {"start", "loop"} /\ pc'[i] \in {"loop", "sigwait", "out"}
        /\ \A j \in Threads \ {i} : pc'[j] = pc[j]
        /\ UNCHANGED <<main, shutdown, cycles, first, pending, proc>>
    BY <1>1 DEF StartThread, LoopTest, BaseInv, TypeOK
  <2>2. \A j \in Threads : Hops(j)' = Hops(j)
    BY <2>1 DEF Hops
  <2> QED
    BY <2>1, <2>2, IdleStep
<1>2. CASE SigWait(i)
  <2>1. /\ pc[i] = "sigwait" /\ pc'[i] = "got" /\ i \in pending
        /\ \A j \in Threads \ {i} : pc'[j] = pc[j]
        /\ pending' = pending \ {i}
        /\ UNCHANGED <<main, shutdown, cycles, first, proc>>
    BY <1>2 DEF SigWait, BaseInv, TypeOK
  <2>2. Holding' = Holding \cup {i}
    BY <2>1 DEF Holding
  <2>3. \A j \in Threads : Hops(j)' = Hops(j)
    BY <2>1 DEF Hops
  <2>4. OneToken' /\ RoundsExact' /\ RoundsInOrder'
    BY <2>1, <2>2, <2>3, NoNewToken DEF TokenInv, OneToken
  <2>5. TokenAlive' /\ Gate'
    BY <2>1, <2>2 DEF TokenInv, TokenAlive, Gate
  <2> QED
    BY <2>4, <2>5 DEF TokenInv
<1>3. CASE Forward(i)
  BY <1>3, ForwardToken
<1>4. CASE Count(i)
  <2>1. /\ pc[i] = "count" /\ pc'[i] \in {"loop", "out"}
        /\ \A j \in Threads \ {i} : pc'[j] = pc[j]
        /\ cycles' = [cycles EXCEPT ![i] = @ + 1]
        /\ UNCHANGED <<main, first, pending, proc>>
    BY <1>4 DEF Count, BaseInv, TypeOK
  <2>2. shutdown' = 0 => shutdown = 0
    BY <1>4 DEF Count
  <2>3. \A j \in Threads : Hops(j)' = Hops(j)
    BY <2>1 DEF Hops, BaseInv, TypeOK
  <2> QED
    BY <2>1, <2>2, <2>3, IdleStep
<1>5. CASE Return(i)
  <2>1. /\ pc[i] = "out" /\ pc'[i] = "exit"
        /\ \A j \in Threads \ {i} : pc'[j] = pc[j]
        /\ pending' = pending \ {i}
        /\ UNCHANGED <<main, shutdown, cycles, first, proc>>
    BY <1>5 DEF Return, BaseInv, TypeOK
  <2>2. Holding' = Holding
    BY <2>1 DEF Holding
  <2>3. \A j \in Threads : Hops(j)' = Hops(j)
    BY <2>1 DEF Hops
  <2>4. OneToken' /\ RoundsExact' /\ RoundsInOrder'
    BY <2>1, <2>2, <2>3, NoNewToken DEF TokenInv, OneToken
  <2>5. TokenAlive' /\ Gate'
    BY <2>1, <2>2, <2>3 DEF TokenInv, TokenAlive, Gate
  <2> QED
    BY <2>4, <2>5 DEF TokenInv
<1> QED
  BY <1>1, <1>2, <1>3, <1>4, <1>5 DEF Thread

LEMMA TokenStep == BaseInv /\ TokenInv /\ [Next]_vars => TokenInv'
<1> SUFFICES ASSUME BaseInv, TokenInv, [Next]_vars PROVE TokenInv'
  OBVIOUS
<1>1. CASE UNCHANGED vars
  BY <1>1, QuietStep DEF vars, threadVars
<1> QED
  BY <1>1, MainToken, ThreadToken DEF Next

LEMMA TokenAlways == Spec => [](BaseInv /\ TokenInv)
BY BaseInit, TokenInit, BaseStep, TokenStep, PTL DEF Spec

\* SIGUSR1 is never pending twice, nor pending while a thread has one to pass
\* on: no pthread_kill of the ring is swallowed by another.
THEOREM OneSignal == Spec => []OneToken
<1>1. TokenInv => OneToken
  BY DEF TokenInv
<1> QED
  BY <1>1, TokenAlways, PTL

\* While the test runs and no thread has stopped the signal is in the ring,
\* whatever the order in which the threads started.
THEOREM SignalNotLost == Spec => []TokenAlive
<1>1. TokenInv => TokenAlive
  BY DEF TokenInv
<1> QED
  BY <1>1, TokenAlways, PTL

\* The cycle counters of any two threads belong to the same or to consecutive
\* round trips, in the order of the ring.
THEOREM RoundsCorrect == Spec => []RoundsInOrder
<1>1. TokenInv => RoundsInOrder
  BY DEF TokenInv
<1> QED
  BY <1>1, TokenAlways, PTL
=============================================================================
