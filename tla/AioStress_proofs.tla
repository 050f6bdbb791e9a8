------------------------- MODULE AioStress_proofs -------------------------
(***************************************************************************)
(* Safety of the engine of aio-stress (AioStress) for any number of files, *)
(* contexts, threads and stages, any depth, chunk size, context size and   *)
(* -I limit.                                                               *)
(*                                                                         *)
(* Everything a thread does is about its own operations and its own slice  *)
(* of the kernel's ios, so the invariant is a conjunction over threads:    *)
(* DataInv relates the lists, the io units, the counters and the kernel,   *)
(* PlaceInv says what holds at each place of worker() and run_active_list. *)
(* A step of one thread leaves both alone for the others (Frame).          *)
(*                                                                         *)
(* On top of it a second layer says how far each operation has come        *)
(* through the stages: RoundInv shows that the threads use the barrier as  *)
(* StageBarrier says, FiguresInv that the figures of a stage are right,    *)
(* RotationInv that the operations take their turns.                       *)
(***************************************************************************)
EXTENDS AioStress, FiniteSetTheorems, SequenceTheorems, TLAPS

PCs == {"start", "startwait", "begin", "loop", "pick", "build", "built", "submit",
        "reap", "sort", "wait", "restart", "end", "endwait", "again", "free", "exit"}

\* Places of run_active_list with ios in the iocbs array, and with operations
\* on its local list.
Building == {"pick", "build", "built", "submit", "reap"}
Holding  == Building \cup {"sort"}

Ios == Opers \X (Nat \ {0})
Evs == Opers \X (Nat \ {0}) \X {"ok", "err"}

TypeInv ==
  /\ pc \in [Threads -> PCs]
  /\ cur \in [Threads -> Nat]
  /\ active \in [Threads -> Seq(Opers)] /\ finished \in [Threads -> Seq(Opers)]
  /\ built \in [Threads -> Seq(Opers)]
  /\ want \in [Threads -> Nat] /\ iocbs \in [Threads -> Seq(Ios)]
  /\ free \in [Threads -> Nat] /\ num_global_pending \in [Threads -> Int]
  /\ num_pending \in [Opers -> Int] /\ started_ios \in [Opers -> Nat]
  /\ issued \in [Opers -> Nat] /\ stonewalled \in [Opers -> {0, 1}]
  /\ inflight \subseteq Ios /\ IsFiniteSet(inflight)
  /\ events \subseteq Evs /\ IsFiniteSet(events)
  /\ moved \in [Opers -> SUBSET Nat] /\ failed \in [Opers -> Nat]

\* No element occurs twice.
Once(s) == \A i, j \in 1..Len(s) : s[i] = s[j] => i = j

\* The lists of a thread: each of its operations at most once, on one list.
ListInv(t) ==
  /\ Ranges(t) \subseteq OpersOf(t)
  /\ Once(active[t]) /\ Once(finished[t]) /\ Once(built[t])
  /\ ToSet(active[t]) \cap ToSet(finished[t]) = {}
  /\ ToSet(active[t]) \cap ToSet(built[t]) = {}
  /\ ToSet(finished[t]) \cap ToSet(built[t]) = {}

Queued(t) == ToSet(iocbs[t])
QueuedOf(t, o) == {x \in Queued(t) : x[1] = o}
NoEvent(t, x) == \A e \in EventsOf(t) : ~(e[1] = x[1] /\ e[2] = x[2])

\* An io is in the iocbs array, with the kernel, or completed: one of these.
IoInv(t) ==
  /\ Once(iocbs[t])
  /\ \A x \in Queued(t) :
       /\ x[1] \in OpersOf(t) /\ x[2] <= issued[x[1]]
       /\ x \notin InflightOf(t) /\ NoEvent(t, x)
  /\ \A x \in InflightOf(t) :
       x[1] \in OpersOf(t) /\ x[2] <= issued[x[1]] /\ NoEvent(t, x)
  /\ \A e \in EventsOf(t) : e[1] \in OpersOf(t) /\ e[2] <= issued[e[1]]

CountInv(t) ==
  /\ num_global_pending[t] = Outstanding(t)
  /\ free[t] + Len(iocbs[t]) + Outstanding(t) = num_global_ios(t)
  /\ \A o \in OpersOf(t) : num_pending[o] = OutstandingOf(o)

\* The records of an operation: where each one is, how many were started.
Somewhere(t, o, k) ==
  <<o, k>> \in Queued(t) \/ <<o, k>> \in InflightOf(t) \/ k \in moved[o] \/ failed[o] > 0

SentInv(t) ==
  \A o \in OpersOf(t) :
    /\ issued[o] = started_ios[o] + Cardinality(QueuedOf(t, o))
    /\ \A k \in 1..issued[o] : Somewhere(t, o, k)
    /\ moved[o] \subseteq 1..issued[o]
    /\ total_ios(o) > 0 => issued[o] <= total_ios(o)
    /\ o \in ToSet(active[t]) /\ total_ios(o) > 0 => started_ios[o] < total_ios(o)
    /\ o \in ToSet(finished[t]) => stonewalled[o] = 1 \/ started_ios[o] = total_ios(o)

DataInv(t) == ListInv(t) /\ IoInv(t) /\ CountInv(t) /\ SentInv(t)

\* Where `oper' may point.
CurInv(t) ==
  /\ pc[t] = "pick" => cur[t] <= Len(active[t])
  /\ pc[t] = "build" => cur[t] \in 1..Len(active[t])
  /\ pc[t] = "wait" => cur[t] <= Len(finished[t])
  /\ pc[t] = "restart" => cur[t] \in 1..Len(finished[t])

\* The iocbs array and its room; the chunks in it are those of the
\* operations on the local list and of the one being built.
FitInv(t) ==
  /\ pc[t] \notin Building => iocbs[t] = <<>>
  /\ pc[t] \notin Holding => built[t] = <<>>
  /\ pc[t] # "build" => want[t] = 0
  /\ pc[t] \in {"submit", "reap"} => iocbs[t] # <<>>
  /\ pc[t] = "reap" => num_global_pending[t] > 0
  /\ Len(iocbs[t]) + want[t] <= max_io_submit
  /\ pc[t] = "pick" => Len(iocbs[t]) + io_iter <= max_io_submit
  /\ pc[t] = "pick" => Len(iocbs[t]) <= Len(built[t]) * io_iter
  /\ pc[t] = "build" => Len(iocbs[t]) + want[t] <= (Len(built[t]) + 1) * io_iter

Current(t) == active[t][cur[t]]

\* What has been built belongs to the local list, and an operation on it that
\* has io to do has built some.
BuildInv(t) ==
  /\ \A x \in Queued(t) : \/ x[1] \in ToSet(built[t])
                          \/ pc[t] = "build" /\ x[1] = Current(t)
  /\ pc[t] \in {"pick", "build", "built"} =>
       \A o \in ToSet(built[t]) : total_ios(o) > 0 => QueuedOf(t, o) # {}
  /\ pc[t] = "build" /\ total_ios(Current(t)) > 0 =>
       /\ issued[Current(t)] + want[t] <= total_ios(Current(t))
       /\ want[t] > 0 \/ QueuedOf(t, Current(t)) # {}

\* What the waits at the end of a stage have established, and that no
\* operation with io to do is on no list.
WaitInv(t) ==
  /\ pc[t] = "wait" => \A i \in 1..(cur[t] - 1) : num_pending[finished[t][i]] = 0
  /\ pc[t] = "restart" => \A o \in ToSet(finished[t]) : num_pending[o] = 0
  /\ pc[t] \notin {"free", "exit"} =>
       {o \in OpersOf(t) : total_ios(o) > 0} \subseteq Ranges(t)

PlaceInv(t) == CurInv(t) /\ FitInv(t) /\ BuildInv(t) /\ WaitInv(t)

IInv == TypeInv /\ \A t \in Threads : DataInv(t) /\ PlaceInv(t)

-----------------------------------------------------------------------------
(* Lists without repetition. *)

LEMMA OnceEmpty ==
  ASSUME NEW S
  PROVE  <<>> \in Seq(S) /\ Len(<<>>) = 0 /\ Once(<<>>) /\ ToSet(<<>>) = {}
  BY DEF Once, ToSet

LEMMA Listed ==
  ASSUME NEW S, NEW s \in Seq(S), NEW i \in 1..Len(s)
  PROVE  s[i] \in ToSet(s) /\ s[i] \in S
  BY DEF ToSet

\* Appending a new element.
LEMMA OnceAppend ==
  ASSUME NEW S, NEW s \in Seq(S), NEW e \in S, Once(s), e \notin ToSet(s)
  PROVE  /\ Append(s, e) \in Seq(S)
         /\ Len(Append(s, e)) = Len(s) + 1
         /\ ToSet(Append(s, e)) = ToSet(s) \cup {e}
         /\ Once(Append(s, e))
<1> DEFINE r == Append(s, e)
<1>1. /\ r \in Seq(S) /\ Len(r) = Len(s) + 1 /\ Len(s) \in Nat
      /\ DOMAIN r = 1..(Len(s) + 1) /\ DOMAIN s = 1..Len(s)
      /\ \A i \in 1..Len(s) : r[i] = s[i]
      /\ r[Len(s) + 1] = e
  OBVIOUS
<1> HIDE DEF r
<1>2. ToSet(r) = ToSet(s) \cup {e}
  <2>1. ASSUME NEW x \in ToSet(r) PROVE x \in ToSet(s) \cup {e}
    <3>1. PICK i \in 1..(Len(s) + 1) : x = r[i]
      BY <1>1, <2>1 DEF ToSet
    <3>2. i \in 1..Len(s) \/ i = Len(s) + 1
      BY <1>1
    <3>. QED  BY <1>1, <3>1, <3>2 DEF ToSet
  <2>2. ASSUME NEW x \in ToSet(s) PROVE x \in ToSet(r)
    <3>1. PICK i \in 1..Len(s) : x = s[i]
      BY <1>1, <2>2 DEF ToSet
    <3>2. i \in 1..(Len(s) + 1)
      BY <1>1
    <3>. QED  BY <1>1, <3>1, <3>2 DEF ToSet
  <2>3. e \in ToSet(r)
    <3>1. Len(s) + 1 \in 1..(Len(s) + 1)
      BY <1>1
    <3>. QED  BY <1>1, <3>1 DEF ToSet
  <2>. QED  BY <2>1, <2>2, <2>3
<1>3. \A i \in 1..Len(s) : s[i] # e
  BY <1>1 DEF ToSet
<1>4. Once(r)
  <2> SUFFICES ASSUME NEW i \in 1..(Len(s) + 1), NEW j \in 1..(Len(s) + 1), r[i] = r[j]
               PROVE  i = j
    BY <1>1 DEF Once
  <2>1. (i \in 1..Len(s) \/ i = Len(s) + 1) /\ (j \in 1..Len(s) \/ j = Len(s) + 1)
    BY <1>1
  <2>. QED  BY <1>1, <1>3, <2>1 DEF Once
<1>. QED  BY <1>1, <1>2, <1>4 DEF r

\* What is left when elements are taken off the front.
LEMMA SuffixOf ==
  ASSUME NEW S, NEW s \in Seq(S), NEW n \in 0..Len(s)
  PROVE  /\ SubSeq(s, n + 1, Len(s)) \in Seq(S)
         /\ Len(SubSeq(s, n + 1, Len(s))) = Len(s) - n
         /\ \A i \in 1..(Len(s) - n) : SubSeq(s, n + 1, Len(s))[i] = s[n + i]
<1> DEFINE r == SubSeq(s, n + 1, Len(s))
<1>0. Len(s) \in Nat /\ \A i \in 1..Len(s) : s[i] \in S
  OBVIOUS
<1>1. n + 1 \in Int /\ Len(s) \in Int /\ \A i \in (n + 1)..Len(s) : s[i] \in S
  BY <1>0
<1>2. /\ r \in Seq(S)
      /\ Len(r) = IF n + 1 <= Len(s) THEN Len(s) - (n + 1) + 1 ELSE 0
      /\ \A i \in 1..(Len(s) - (n + 1) + 1) : r[i] = s[(n + 1) + i - 1]
  BY <1>1, SubSeqProperties
<1> HIDE DEF r
<1>3. Len(r) = Len(s) - n /\ Len(s) - (n + 1) + 1 = Len(s) - n
  BY <1>0, <1>2
<1>4. \A i \in 1..(Len(s) - n) : (n + 1) + i - 1 = n + i
  BY <1>0
<1>. QED  BY <1>2, <1>3, <1>4 DEF r


LEMMA OnceSplit ==
  ASSUME NEW S, NEW s \in Seq(S), NEW n \in 0..Len(s), Once(s)
  PROVE  /\ SubSeq(s, n + 1, Len(s)) \in Seq(S)
         /\ Len(SubSeq(s, n + 1, Len(s))) = Len(s) - n
         /\ ToSet(SubSeq(s, n + 1, Len(s))) = ToSet(s) \ {s[i] : i \in 1..n}
         /\ {s[i] : i \in 1..n} \subseteq ToSet(s)
         /\ Once(SubSeq(s, n + 1, Len(s)))
<1> DEFINE r == SubSeq(s, n + 1, Len(s))
<1>0. Len(s) \in Nat /\ DOMAIN s = 1..Len(s) /\ \A i \in 1..Len(s) : s[i] \in S
  OBVIOUS
<1>1. /\ r \in Seq(S) /\ Len(r) = Len(s) - n /\ DOMAIN r = 1..(Len(s) - n)
      /\ \A i \in 1..(Len(s) - n) : r[i] = s[n + i]
  BY SuffixOf
<1> HIDE DEF r
<1>2. \A i \in 1..(Len(s) - n) : n + i \in 1..Len(s) /\ n + i > n
  BY <1>0
<1>3. \A i \in 1..n : i \in 1..Len(s)
  BY <1>0
<1>4. ToSet(r) = ToSet(s) \ {s[i] : i \in 1..n}
  <2>1. ASSUME NEW x \in ToSet(r) PROVE x \in ToSet(s) /\ x \notin {s[i] : i \in 1..n}
    <3>1. PICK i \in 1..(Len(s) - n) : x = r[i]
      BY <1>1, <2>1 DEF ToSet
    <3>2. x = s[n + i] /\ n + i \in 1..Len(s)
      BY <1>1, <1>2, <3>1
    <3>3. ASSUME NEW j \in 1..n, x = s[j] PROVE FALSE
      <4>1. j = n + i
        BY <3>2, <3>3, <1>3 DEF Once
      <4>. QED  BY <4>1, <1>0
    <3>. QED  BY <3>2, <3>3, <1>0 DEF ToSet
  <2>2. ASSUME NEW x \in ToSet(s), x \notin {s[i] : i \in 1..n} PROVE x \in ToSet(r)
    <3>1. PICK i \in 1..Len(s) : x = s[i]
      BY <1>0, <2>2 DEF ToSet
    <3>2. i \notin 1..n
      BY <2>2, <3>1
    <3>3. i - n \in 1..(Len(s) - n) /\ n + (i - n) = i
      BY <1>0, <3>2
    <3>4. r[i - n] = s[i]
      BY <1>1, <3>3
    <3>. QED  BY <1>1, <3>1, <3>3, <3>4 DEF ToSet
  <2>. QED  BY <2>1, <2>2
<1>5. {s[i] : i \in 1..n} \subseteq ToSet(s)
  BY <1>0, <1>3 DEF ToSet
<1>6. Once(r)
  <2> SUFFICES ASSUME NEW i \in 1..(Len(s) - n), NEW j \in 1..(Len(s) - n), r[i] = r[j]
               PROVE  i = j
    BY <1>1 DEF Once
  <2>1. n + i = n + j
    BY <1>1, <1>2 DEF Once
  <2>. QED  BY <2>1
<1>. QED  BY <1>1, <1>4, <1>5, <1>6 DEF r

LEMMA OnceTail ==
  ASSUME NEW S, NEW s \in Seq(S), s # <<>>, Once(s)
  PROVE  /\ Tail(s) \in Seq(S) /\ Len(Tail(s)) = Len(s) - 1
         /\ ToSet(Tail(s)) = ToSet(s) \ {Head(s)}
         /\ Head(s) \in ToSet(s) /\ Head(s) \in S
         /\ Once(Tail(s))
<1>0. Len(s) \in Nat /\ Len(s) # 0 /\ 1 \in 0..Len(s) /\ 1 \in 1..Len(s)
      /\ DOMAIN s = 1..Len(s)
  OBVIOUS
<1>1. Tail(s) = SubSeq(s, 1 + 1, Len(s))
  <2>1. 1 + 1 = 2
    OBVIOUS
  <2>. QED  BY <2>1, TailIsSubSeq
<1>2. Head(s) = s[1] /\ {s[i] : i \in 1..1} = {Head(s)}
  <2>1. 1..1 = {1}
    OBVIOUS
  <2>. QED  BY <2>1
<1>3. Head(s) \in ToSet(s) /\ Head(s) \in S
  BY <1>0, <1>2 DEF ToSet
<1>4. /\ SubSeq(s, 1 + 1, Len(s)) \in Seq(S)
      /\ Len(SubSeq(s, 1 + 1, Len(s))) = Len(s) - 1
      /\ ToSet(SubSeq(s, 1 + 1, Len(s))) = ToSet(s) \ {s[i] : i \in 1..1}
      /\ Once(SubSeq(s, 1 + 1, Len(s)))
  BY <1>0, OnceSplit
<1>. QED  BY ONLY <1>1, <1>2, <1>3, <1>4

\* Taking one element out: those after it move up.
LEMMA Removed ==
  ASSUME NEW S, NEW s \in Seq(S), NEW n \in 1..Len(s)
  PROVE  /\ RemoveAt(s, n) \in Seq(S)
         /\ Len(RemoveAt(s, n)) = Len(s) - 1
         /\ DOMAIN RemoveAt(s, n) = 1..(Len(s) - 1)
         /\ \A i \in 1..(Len(s) - 1) : RemoveAt(s, n)[i] = s[IF i < n THEN i ELSE i + 1]
<1> DEFINE r == RemoveAt(s, n)
           at(i) == IF i < n THEN i ELSE i + 1
<1>0. Len(s) \in Nat /\ DOMAIN s = 1..Len(s) /\ \A i \in 1..Len(s) : s[i] \in S
  OBVIOUS
<1> DEFINE a == SubSeq(s, 1, n - 1)  b == SubSeq(s, n + 1, Len(s))
<1>1. a \in Seq(S) /\ Len(a) = n - 1 /\ \A i \in 1..(n - 1) : a[i] = s[i]
  BY <1>0
<1>2. b \in Seq(S) /\ Len(b) = Len(s) - n /\ \A i \in 1..(Len(s) - n) : b[i] = s[n + i]
  <2>1. n \in 0..Len(s)
    BY <1>0
  <2>. QED  BY <2>1, SuffixOf
<1>3. r = a \o b
  BY DEF RemoveAt
<1> HIDE DEF a, b, r
<1>4. r \in Seq(S) /\ Len(r) = Len(s) - 1 /\ DOMAIN r = 1..(Len(s) - 1)
  <2>1. r \in Seq(S) /\ Len(r) = Len(a) + Len(b)
    BY <1>1, <1>2, <1>3, ConcatProperties
  <2>2. Len(r) = Len(s) - 1
    BY <1>0, <1>1, <1>2, <2>1
  <2>. QED  BY <2>1, <2>2, LenProperties
<1>5. ASSUME NEW i \in 1..(Len(s) - 1) PROVE r[i] = s[at(i)]
  <2>1. CASE i < n
    <3>1. i \in 1..Len(a) /\ i \in 1..(n - 1)
      BY <1>0, <1>1, <2>1
    <3>. QED  BY <1>1, <1>2, <1>3, <2>1, <3>1
  <2>2. CASE ~(i < n)
    <3>1. i - (n - 1) \in 1..(Len(s) - n) /\ n + (i - (n - 1)) = i + 1
      BY <1>0, <2>2
    <3>2. r[i] = b[i - (n - 1)]
      BY <1>0, <1>1, <1>2, <1>3, <2>2
    <3>. QED  BY <1>2, <2>2, <3>1, <3>2
  <2>. QED  BY <2>1, <2>2
<1>. QED  BY <1>4, <1>5 DEF r

LEMMA OnceRemove ==
  ASSUME NEW S, NEW s \in Seq(S), NEW n \in 1..Len(s), Once(s)
  PROVE  /\ RemoveAt(s, n) \in Seq(S)
         /\ Len(RemoveAt(s, n)) = Len(s) - 1
         /\ ToSet(RemoveAt(s, n)) = ToSet(s) \ {s[n]}
         /\ s[n] \in ToSet(s) /\ s[n] \in S
         /\ Once(RemoveAt(s, n))
<1> DEFINE r == RemoveAt(s, n)
           at(i) == IF i < n THEN i ELSE i + 1
<1>0. Len(s) \in Nat /\ DOMAIN s = 1..Len(s) /\ \A i \in 1..Len(s) : s[i] \in S
  OBVIOUS
<1>1. /\ r \in Seq(S) /\ Len(r) = Len(s) - 1 /\ DOMAIN r = 1..(Len(s) - 1)
      /\ \A i \in 1..(Len(s) - 1) : r[i] = s[at(i)]
  BY Removed
<1> HIDE DEF r
<1>2. \A i \in 1..(Len(s) - 1) : at(i) \in 1..Len(s) /\ at(i) # n
  BY <1>0
<1>3. \A j \in 1..Len(s) : j # n => \E i \in 1..(Len(s) - 1) : at(i) = j
  <2> SUFFICES ASSUME NEW j \in 1..Len(s), j # n
               PROVE  \E i \in 1..(Len(s) - 1) : at(i) = j
    OBVIOUS
  <2>1. CASE j < n
    <3>1. j \in 1..(Len(s) - 1) /\ at(j) = j
      BY <2>1, <1>0
    <3>. QED  BY <3>1
  <2>2. CASE j > n
    <3>1. j - 1 \in 1..(Len(s) - 1) /\ at(j - 1) = j
      BY <2>2, <1>0
    <3>. QED  BY <3>1
  <2>. QED  BY <2>1, <2>2, <1>0
<1>4. \A i, j \in 1..(Len(s) - 1) : at(i) = at(j) => i = j
  BY <1>0
<1> HIDE DEF at
<1>5. ToSet(r) = ToSet(s) \ {s[n]}
  <2>1. ASSUME NEW x \in ToSet(r) PROVE x \in ToSet(s) /\ x # s[n]
    <3>1. PICK i \in 1..(Len(s) - 1) : x = r[i]
      BY <1>1, <2>1 DEF ToSet
    <3>2. x = s[at(i)] /\ at(i) \in 1..Len(s) /\ at(i) # n
      BY <1>1, <1>2, <3>1
    <3>. QED  BY <1>0, <3>2 DEF ToSet, Once
  <2>2. ASSUME NEW x \in ToSet(s), x # s[n] PROVE x \in ToSet(r)
    <3>1. PICK j \in 1..Len(s) : x = s[j]
      BY <1>0, <2>2 DEF ToSet
    <3>2. PICK i \in 1..(Len(s) - 1) : at(i) = j
      BY <1>3, <2>2, <3>1
    <3>. QED  BY <1>1, <3>1, <3>2 DEF ToSet
  <2>. QED  BY <2>1, <2>2
<1>6. s[n] \in ToSet(s) /\ s[n] \in S
  BY <1>0 DEF ToSet
<1>7. Once(r)
  BY <1>1, <1>2, <1>4 DEF Once
<1>. QED  BY <1>1, <1>5, <1>6, <1>7 DEF r

\* A list without repetition has as many elements as its set.
LEMMA OnceCount ==
  ASSUME NEW S, NEW s \in Seq(S), NEW n \in 0..Len(s), Once(s)
  PROVE  /\ IsFiniteSet({s[i] : i \in 1..n})
         /\ Cardinality({s[i] : i \in 1..n}) = n
<1> DEFINE T == {s[i] : i \in 1..n}
           f == [i \in 1..n |-> s[i]]
<1>1. 0 \in Int /\ n \in Int /\ n \in Nat /\ 1..n \subseteq 1..Len(s)
  OBVIOUS
<1>2. IsFiniteSet(1..n) /\ Cardinality(1..n) = n
  BY <1>1, FS_Interval
<1>3. f \in Bijection(1..n, T)
  <2>1. f \in [1..n -> T]
    OBVIOUS
  <2>2. \A i, j \in 1..n : f[i] = f[j] => i = j
    BY <1>1 DEF Once
  <2>3. \A x \in T : \E i \in 1..n : f[i] = x
    OBVIOUS
  <2>. QED  BY <2>1, <2>2, <2>3 DEF Bijection, Injection, Surjection, IsInjective
<1>4. ExistsBijection(1..n, T)
  BY <1>3 DEF ExistsBijection
<1>. QED  BY <1>2, <1>4, FS_Bijection

LEMMA OnceLen ==
  ASSUME NEW S, NEW s \in Seq(S), Once(s)
  PROVE  IsFiniteSet(ToSet(s)) /\ Cardinality(ToSet(s)) = Len(s)
<1>1. ToSet(s) = {s[i] : i \in 1..Len(s)} /\ Len(s) \in 0..Len(s)
  BY DEF ToSet
<1>. QED  BY <1>1, OnceCount

-----------------------------------------------------------------------------
(* What main makes of the options. *)

\* Products of naturals.
LEMMA Product ==
  ASSUME NEW a \in Nat, NEW b \in Nat, NEW c \in Nat, NEW d \in Nat, a <= c, b <= d
  PROVE  a * b \in Nat /\ a * b <= c * d
<1>1. a * b \in Nat /\ c * d \in Nat /\ a * d \in Nat
  OBVIOUS
<1>2. a * b <= a * d
  OBVIOUS
<1>3. a * d <= c * d
  OBVIOUS
<1>. QED  BY <1>1, <1>2, <1>3

LEMMA Config ==
  /\ NumOpers \in Nat \ {0} /\ num_threads \in Nat \ {0} /\ num_threads <= NumOpers
  /\ max_io_submit \in Nat \ {0} /\ io_iter \in Nat \ {0}
  /\ io_iter <= max_io_submit /\ io_iter <= OptDepth
<1>1. /\ NumFiles \in Nat /\ NumFiles >= 1 /\ NumContexts \in Nat /\ NumContexts >= 1
      /\ OptThreads \in Nat /\ OptThreads >= 1 /\ OptDepth \in Nat /\ OptDepth >= 1
      /\ OptIoIter \in Nat /\ OptIoIter >= 1 /\ OptSubmit \in Nat
  BY OptionAssumption
<1>2. NumOpers \in Nat /\ NumOpers >= 1
  BY <1>1, Product DEF NumOpers
<1>3. iter_for_depth \in Nat /\ iter_for_depth >= 1 /\ iter_for_depth <= OptDepth
  BY <1>1 DEF iter_for_depth, MinOf
<1>4. NumFiles * iter_for_depth \in Nat /\ NumFiles * iter_for_depth >= 1
  BY <1>1, <1>3, Product
<1>5. NumFiles * iter_for_depth * NumContexts \in Nat
      /\ NumFiles * iter_for_depth * NumContexts >= 1
  <2> DEFINE p == NumFiles * iter_for_depth
  <2>1. p \in Nat /\ p >= 1
    BY <1>4
  <2> HIDE DEF p
  <2>2. p * NumContexts \in Nat /\ p * NumContexts >= 1
    BY <1>1, <2>1, Product
  <2>. QED  BY <2>2 DEF p
<1>6. max_io_submit \in Nat /\ max_io_submit >= 1
  BY <1>1, <1>5 DEF max_io_submit
<1>7. num_threads \in Nat /\ num_threads >= 1 /\ num_threads <= NumOpers
  BY <1>1, <1>2 DEF num_threads, MinOf
<1>8. /\ io_iter \in Nat /\ io_iter >= 1
      /\ io_iter <= max_io_submit /\ io_iter <= OptDepth
  BY <1>1, <1>3, <1>6 DEF io_iter, MinOf
<1>. QED  BY <1>2, <1>6, <1>7, <1>8

LEMMA OpersFacts ==
  /\ \A o \in Opers : o \in Nat /\ ThreadOf(o) \in Threads /\ o \in OpersOf(ThreadOf(o))
  /\ \A t \in Threads : /\ OpersOf(t) \subseteq Opers /\ IsFiniteSet(OpersOf(t))
                        /\ Cardinality(OpersOf(t)) \in Nat
                        /\ num_global_ios(t) \in Nat
                        /\ \A o \in OpersOf(t) : ThreadOf(o) = t
<1>1. ASSUME NEW o \in Opers PROVE o \in Nat /\ ThreadOf(o) \in Threads
  <2>1. o \in 1..NumOpers /\ o \in Nat /\ o - 1 \in Int
    BY Config DEF Opers
  <2>2. (o - 1) % num_threads \in 0..(num_threads - 1)
    BY <2>1, Config
  <2>. QED  BY <2>1, <2>2 DEF ThreadOf, Threads
<1>2. IsFiniteSet(Opers)
  BY Config, FS_Interval DEF Opers
<1>3. ASSUME NEW t \in Threads
      PROVE  /\ OpersOf(t) \subseteq Opers /\ IsFiniteSet(OpersOf(t))
             /\ Cardinality(OpersOf(t)) \in Nat
             /\ num_global_ios(t) \in Nat
  <2>1. OpersOf(t) \subseteq Opers
    BY DEF OpersOf
  <2>2. IsFiniteSet(OpersOf(t))
    BY <1>2, <2>1, FS_Subset
  <2>3. Cardinality(OpersOf(t)) \in Nat
    BY <2>2, FS_CardinalityType
  <2>4. OptDepth \in Nat
    BY OptionAssumption
  <2>. QED  BY <2>1, <2>2, <2>3, <2>4, Product DEF num_global_ios
<1>. QED  BY <1>1, <1>3 DEF OpersOf

LEMMA TotalType == \A o \in Opers : total_ios(o) \in Int
<1> SUFFICES ASSUME NEW o \in Opers PROVE total_ios(o) \in Int
  OBVIOUS
<1> DEFINE len == end(o) - start(o)
<1>1. /\ FileSize \in Nat /\ ContextOffset \in Nat /\ RecLen \in Nat \ {0}
      /\ NumContexts \in Nat \ {0}
  BY OptionAssumption
<1>2. o - 1 \in Int
  BY OpersFacts
<1>3. ContextOf(o) \in Int
  BY <1>1, <1>2 DEF ContextOf
<1>4. ContextOf(o) * ContextOffset \in Int
  BY <1>1, <1>3
<1>5. len \in Int
  BY <1>1, <1>4 DEF start, end
<1> HIDE DEF len
<1>6. len \div RecLen \in Int /\ -len \in Int
  BY <1>1, <1>5
<1>7. (-len) \div RecLen \in Int
  BY <1>1, <1>6
<1>8. Quotient(len, RecLen) \in Int
  BY <1>6, <1>7 DEF Quotient
<1>. QED  BY <1>8 DEF total_ios, len

\* Quotient and remainder are unique.
LEMMA DivMod ==
  ASSUME NEW n \in Nat \ {0}, NEW q \in Nat, NEW r \in 0..(n - 1)
  PROVE  (q * n + r) % n = r /\ (q * n + r) \div n = q
<1> DEFINE a == q * n + r
           p == a \div n
           m == a % n
<1>1. a \in Nat /\ q * n \in Nat
  OBVIOUS
<1> HIDE DEF a
<1>2. a = n * p + m /\ p \in Int /\ m \in 0..(n - 1)
  BY <1>1
<1> HIDE DEF p, m
<1>3. a = n * q + r
  BY DEF a
<1>4. n * q \in Int /\ n * p \in Int /\ n * (p - q) = n * p - n * q
  BY <1>2
<1>5. n * (p - q) = r - m
  BY <1>1, <1>2, <1>3, <1>4
<1>6. r - m < n /\ r - m > -n
  BY <1>2
<1>7. CASE p - q >= 1
  <2>1. n * (p - q) >= n
    BY <1>2, <1>7
  <2>. QED  BY <1>5, <1>6, <2>1
<1>8. CASE p - q <= -1
  <2>1. n * (p - q) <= -n
    BY <1>2, <1>8
  <2>. QED  BY <1>5, <1>6, <2>1
<1>9. CASE p = q
  <2>1. n * (p - q) = 0
    BY <1>2, <1>9
  <2>2. m = r
    BY <1>2, <1>5, <2>1
  <2>. QED  BY <1>9, <2>2 DEF p, m, a
<1>. QED  BY <1>2, <1>7, <1>8, <1>9

\* main deals each operation of a thread to its list once.
LEMMA OperListFacts ==
  ASSUME NEW t \in Threads
  PROVE  /\ OperList(t) \in Seq(Opers)
         /\ Once(OperList(t))
         /\ ToSet(OperList(t)) = OpersOf(t)
<1> DEFINE n == num_threads
           len == (NumOpers - 1 - t) \div n + 1
           at(k) == t + 1 + (k - 1) * n
<1>1. n \in Nat \ {0} /\ NumOpers \in Nat \ {0} /\ n <= NumOpers /\ t \in 0..(n - 1)
  BY Config DEF Threads
<1>l. OperList(t) = [k \in 1..len |-> at(k)]
  BY DEF OperList
<1>o. Opers = 1..NumOpers /\ OpersOf(t) = {o \in Opers : (o - 1) % n = t}
  BY DEF Opers, OpersOf, ThreadOf
<1> HIDE DEF n
<1>2. NumOpers - 1 - t \in Nat
  BY <1>1
<1> DEFINE top == NumOpers - 1 - t
           q == top \div n
<1>3. q \in Nat /\ q * n <= top /\ top < (q + 1) * n
  <2>1. top = n * q + (top % n) /\ top % n \in 0..(n - 1) /\ q \in Int
    BY <1>1, <1>2
  <2>2. top \in Nat
    BY <1>2
  <2> HIDE DEF top, q
  <2>3. q * n = n * q /\ (q + 1) * n = n * q + n /\ n * q \in Int
    BY <1>1, <2>1
  <2>4. n * q <= top /\ top < n * q + n
    BY <1>1, <2>1, <2>2, <2>3
  <2>5. q >= 0
    <3>1. CASE q <= -1
      <4>1. n * q <= -n
        BY <1>1, <2>1, <3>1
      <4>. QED  BY <1>1, <2>2, <2>3, <2>4, <4>1
    <3>. QED  BY <2>1, <3>1
  <2>. QED  BY <2>1, <2>3, <2>4, <2>5
<1>4. len = q + 1 /\ len \in Nat
  BY <1>3
<1> HIDE DEF q, len
<1>5. ASSUME NEW k \in 1..len
      PROVE  /\ at(k) \in Opers /\ at(k) - 1 = (k - 1) * n + t
             /\ (at(k) - 1) % n = t /\ (at(k) - 1) \div n = k - 1
  <2>1. k - 1 \in Nat /\ k - 1 <= q
    BY <1>3, <1>4
  <2>2. (k - 1) * n \in Nat /\ (k - 1) * n <= q * n
    BY <1>1, <1>3, <2>1, Product
  <2> DEFINE m == (k - 1) * n
  <2>3. m \in Nat /\ m <= top
    <3>1. m \in Nat /\ m <= q * n /\ q * n \in Nat
      BY <1>1, <1>3, <2>2
    <3> HIDE DEF m
    <3>2. \A x \in Nat : m <= x /\ x <= top => m <= top
      BY <1>2, <3>1
    <3>. QED  BY <1>3, <3>1, <3>2
  <2>4. ((k - 1) * n + t) % n = t /\ ((k - 1) * n + t) \div n = k - 1
    BY <1>1, <2>1, DivMod
  <2> HIDE DEF m
  <2>5. t + 1 + m \in 1..NumOpers /\ (t + 1 + m) - 1 = m + t
    BY <1>1, <2>3
  <2>6. (m + t) % n = t /\ (m + t) \div n = k - 1
    BY <2>4 DEF m
  <2>7. at(k) = t + 1 + m
    BY DEF m
  <2>. QED  BY <1>o, <2>5, <2>6, <2>7 DEF m
<1>a. ASSUME NEW p \in Int PROVE at(p + 1) = t + 1 + p * n
  <2>1. p + 1 - 1 = p
    OBVIOUS
  <2>. QED  BY <2>1
<1> HIDE DEF at
<1>6. OperList(t) \in Seq(Opers) /\ Len(OperList(t)) = len /\ DOMAIN OperList(t) = 1..len
      /\ \A k \in 1..len : OperList(t)[k] = at(k)
  <2>1. OperList(t) \in [1..len -> Opers]
    BY <1>l, <1>5
  <2>. QED  BY <2>1, <1>l, <1>4
<1>7. Once(OperList(t))
  <2> SUFFICES ASSUME NEW i \in 1..len, NEW j \in 1..len, at(i) = at(j) PROVE i = j
    BY <1>6 DEF Once
  <2>1. i - 1 = j - 1
    BY <1>5
  <2>. QED  BY <2>1, <1>4
<1>8. ASSUME NEW o \in ToSet(OperList(t)) PROVE o \in OpersOf(t)
  <2>1. PICK k \in 1..len : o = at(k)
    BY <1>6, <1>8 DEF ToSet
  <2>. QED  BY <2>1, <1>5, <1>o
<1>9. ASSUME NEW o \in OpersOf(t) PROVE o \in ToSet(OperList(t))
  <2>1. o \in 1..NumOpers /\ (o - 1) % n = t /\ o - 1 \in Nat
    BY <1>1, <1>9, <1>o
  <2> DEFINE a == o - 1
             p == a \div n
  <2>2. a = n * p + t /\ p \in Int /\ a \in Nat /\ a <= NumOpers - 1
    BY <1>1, <2>1
  <2>9. at(p + 1) = a + 1 /\ a + 1 = o
    <3>1. p + 1 - 1 = p /\ a + 1 = o
      BY <2>1, <2>2
    <3>2. p * n = n * p /\ n * p \in Int
      BY <1>1, <2>2
    <3> HIDE DEF p, a
    <3>3. t + 1 + n * p = a + 1
      BY <1>1, <2>2, <3>2
    <3>4. at(p + 1) = t + 1 + p * n
      BY <1>a, <2>2
    <3>. QED  BY <3>1, <3>2, <3>3, <3>4
  <2> HIDE DEF a, p
  <2>3. n * p \in Int /\ n * p <= top /\ top < n * q + n /\ n * q \in Int
    <3>1. n * p \in Int /\ n * q \in Int /\ (q + 1) * n = n * q + n
      BY <1>1, <1>3, <2>2
    <3>. QED  BY <1>1, <1>2, <1>3, <2>2, <3>1
  <2>4. p >= 0
    <3>1. CASE p <= -1
      <4>1. n * p <= -n
        BY <1>1, <2>2, <3>1
      <4>. QED  BY <1>1, <2>2, <2>3, <4>1
    <3>. QED  BY <2>2, <3>1
  <2>5. p <= q
    <3>1. CASE p >= q + 1
      <4>1. n * (p - q) >= n /\ n * (p - q) = n * p - n * q
        BY <1>1, <1>3, <2>2, <3>1
      <4>. QED  BY <1>1, <1>2, <2>3, <4>1
    <3>. QED  BY <1>3, <2>2, <3>1
  <2>6. p + 1 \in 1..len
    BY <1>3, <1>4, <2>2, <2>4, <2>5
  <2>. QED  BY <1>6, <2>6, <2>9 DEF ToSet
<1>. QED  BY <1>6, <1>7, <1>8, <1>9

-----------------------------------------------------------------------------
(* What a step leaves alone. *)

SameLists(t) ==
  /\ active'[t] = active[t] /\ finished'[t] = finished[t] /\ built'[t] = built[t]

SameOpers(t) ==
  \A o \in OpersOf(t) :
    /\ num_pending'[o] = num_pending[o] /\ started_ios'[o] = started_ios[o]
    /\ issued'[o] = issued[o] /\ stonewalled'[o] = stonewalled[o]

SameKernel(t) ==
  /\ InflightOf(t)' = InflightOf(t) /\ EventsOf(t)' = EventsOf(t)
  /\ \A o \in OpersOf(t) : moved'[o] = moved[o] /\ failed'[o] = failed[o]

SameUnits(t) ==
  /\ iocbs'[t] = iocbs[t] /\ free'[t] = free[t]
  /\ num_global_pending'[t] = num_global_pending[t]

SameData(t) == SameLists(t) /\ SameOpers(t) /\ SameKernel(t) /\ SameUnits(t)

SamePlace(t) == pc'[t] = pc[t] /\ cur'[t] = cur[t] /\ want'[t] = want[t]

\* The ios of an operation are in the slice of its thread.
InflightAt(o) == {x \in inflight : x[1] = o}
EventsAt(o)   == {e \in events : e[1] = o}

LEMMA Slices ==
  ASSUME NEW t \in Threads, NEW o \in OpersOf(t)
  PROVE  /\ InflightAt(o) = {x \in InflightOf(t) : x[1] = o}
         /\ EventsAt(o) = {e \in EventsOf(t) : e[1] = o}
         /\ OutstandingOf(o) = Cardinality(InflightAt(o)) + Cardinality(EventsAt(o))
<1>1. ThreadOf(o) = t
  BY OpersFacts
<1>. QED  BY <1>1 DEF InflightAt, EventsAt, InflightOf, EventsOf, OutstandingOf

LEMMA SlicesNext ==
  ASSUME NEW t \in Threads, NEW o \in OpersOf(t)
  PROVE  /\ InflightAt(o)' = {x \in InflightOf(t)' : x[1] = o}
         /\ EventsAt(o)' = {e \in EventsOf(t)' : e[1] = o}
         /\ OutstandingOf(o)' = Cardinality(InflightAt(o)') + Cardinality(EventsAt(o)')
<1>1. ThreadOf(o) = t
  BY OpersFacts
<1>. QED  BY <1>1 DEF InflightAt, EventsAt, InflightOf, EventsOf, OutstandingOf

LEMMA DataFrame ==
  ASSUME NEW t \in Threads, DataInv(t), SameData(t)
  PROVE  DataInv(t)'
<1>1. ListInv(t)'
  BY DEF DataInv, ListInv, SameData, SameLists, Ranges
<1>i. InflightOf(t)' = InflightOf(t) /\ EventsOf(t)' = EventsOf(t) /\ iocbs'[t] = iocbs[t]
      /\ Queued(t)' = Queued(t)
  BY DEF SameData, SameKernel, SameUnits, Queued
<1>o. ASSUME NEW o \in OpersOf(t) PROVE OutstandingOf(o)' = OutstandingOf(o)
  <2>1. InflightAt(o)' = InflightAt(o) /\ EventsAt(o)' = EventsAt(o)
    <3>1. /\ InflightAt(o) = {x \in InflightOf(t) : x[1] = o}
          /\ EventsAt(o) = {e \in EventsOf(t) : e[1] = o}
      BY Slices
    <3>2. /\ InflightAt(o)' = {x \in InflightOf(t)' : x[1] = o}
          /\ EventsAt(o)' = {e \in EventsOf(t)' : e[1] = o}
      BY SlicesNext
    <3>. QED  BY <1>i, <3>1, <3>2, Zenon
  <2>. QED  BY <2>1, Slices, SlicesNext
<1>2. IoInv(t)'
  <2>1. \A x : NoEvent(t, x)' <=> NoEvent(t, x)
    BY <1>i DEF NoEvent
  <2>2. \A x \in Queued(t) \cup InflightOf(t) \cup EventsOf(t) : issued'[x[1]] = issued[x[1]]
    BY DEF SameData, SameOpers, DataInv, IoInv
  <2>. QED  BY <1>i, <2>1, <2>2 DEF DataInv, IoInv
<1>3. CountInv(t)'
  <2>1. Outstanding(t)' = Outstanding(t)
    BY <1>i DEF Outstanding
  <2>. QED  BY <1>i, <1>o, <2>1 DEF DataInv, CountInv, SameData, SameUnits, SameOpers
<1>4. SentInv(t)'
  <2>1. \A o \in OpersOf(t) : QueuedOf(t, o)' = QueuedOf(t, o)
    BY <1>i DEF QueuedOf
  <2>2. \A o \in OpersOf(t) : \A k : Somewhere(t, o, k)' <=> Somewhere(t, o, k)
    BY <1>i DEF Somewhere, SameData, SameKernel
  <2>. QED  BY <2>1, <2>2 DEF DataInv, SentInv, SameData, SameOpers, SameKernel, SameLists
<1>. QED  BY <1>1, <1>2, <1>3, <1>4 DEF DataInv

\* While an operation is being built it is on the active list.
LEMMA CurrentFacts ==
  ASSUME NEW t \in Threads, TypeInv, ListInv(t), CurInv(t), pc[t] = "build"
  PROVE  /\ Current(t) \in ToSet(active[t]) /\ Current(t) \in OpersOf(t)
         /\ Current(t) \notin ToSet(built[t]) /\ Current(t) \in Opers
         /\ active[t] \in Seq(Opers) /\ cur[t] \in 1..Len(active[t])
<1>1. active[t] \in Seq(Opers) /\ cur[t] \in 1..Len(active[t])
  BY DEF TypeInv, CurInv
<1>2. Current(t) \in ToSet(active[t]) /\ Current(t) \in Opers
  BY <1>1, Listed DEF Current
<1>. QED  BY <1>1, <1>2 DEF ListInv, Ranges

LEMMA PlaceFrame ==
  ASSUME NEW t \in Threads, PlaceInv(t), SameLists(t), SameOpers(t), SameUnits(t),
         SamePlace(t), ListInv(t), IoInv(t), TypeInv
  PROVE  PlaceInv(t)'
<1>1. CurInv(t)'
  BY DEF PlaceInv, CurInv, SamePlace, SameLists
<1>2. FitInv(t)'
  BY DEF PlaceInv, FitInv, SamePlace, SameLists, SameUnits
<1>q. Queued(t)' = Queued(t) /\ Current(t)' = Current(t)
      /\ \A o : QueuedOf(t, o)' = QueuedOf(t, o)
  BY DEF Queued, QueuedOf, Current, SamePlace, SameLists, SameUnits
<1>3. BuildInv(t)'
  <2>1. pc[t] = "build" => Current(t) \in OpersOf(t)
    BY CurrentFacts DEF PlaceInv
  <2>. QED  BY <1>q, <2>1 DEF PlaceInv, BuildInv, SamePlace, SameLists, SameOpers
<1>4. WaitInv(t)'
  <2>1. \A o \in ToSet(finished[t]) : o \in OpersOf(t)
    BY DEF ListInv, Ranges
  <2>2. pc[t] = "wait" => \A i \in 1..(cur[t] - 1) : finished[t][i] \in OpersOf(t)
    <3>1. finished[t] \in Seq(Opers) /\ cur[t] \in Nat /\ Len(finished[t]) \in Nat
      BY DEF TypeInv
    <3> SUFFICES ASSUME pc[t] = "wait", NEW i \in 1..(cur[t] - 1)
                 PROVE  finished[t][i] \in ToSet(finished[t])
      BY <2>1
    <3>2. cur[t] <= Len(finished[t])
      BY DEF PlaceInv, CurInv
    <3>3. i \in 1..Len(finished[t])
      BY <3>1, <3>2
    <3>. QED  BY <3>1, <3>3, Listed
  <2>. QED  BY <2>1, <2>2 DEF PlaceInv, WaitInv, SamePlace, SameLists, SameOpers, Ranges
<1>. QED  BY <1>1, <1>2, <1>3, <1>4 DEF PlaceInv

-----------------------------------------------------------------------------
(* The initial states. *)

LEMMA InitHolds == Init => IInv
<1> SUFFICES ASSUME Init PROVE IInv
  OBVIOUS
<1>1. TypeInv
  <2>1. \A t \in Threads : OperList(t) \in Seq(Opers)
    BY OperListFacts
  <2>2. \A t \in Threads : num_global_ios(t) \in Nat
    BY OpersFacts
  <2>3. IsFiniteSet({})
    BY FS_EmptySet
  <2>4. active \in [Threads -> Seq(Opers)] /\ free \in [Threads -> Nat]
    BY <2>1, <2>2 DEF Init
  <2>5. /\ pc \in [Threads -> PCs] /\ cur \in [Threads -> Nat]
        /\ finished \in [Threads -> Seq(Opers)] /\ built \in [Threads -> Seq(Opers)]
        /\ want \in [Threads -> Nat] /\ iocbs \in [Threads -> Seq(Ios)]
        /\ num_global_pending \in [Threads -> Int]
    BY DEF Init, PCs
  <2>6. /\ num_pending \in [Opers -> Int] /\ started_ios \in [Opers -> Nat]
        /\ issued \in [Opers -> Nat] /\ stonewalled \in [Opers -> {0, 1}]
        /\ moved \in [Opers -> SUBSET Nat] /\ failed \in [Opers -> Nat]
    BY DEF Init
  <2>7. inflight = {} /\ events = {}
    BY DEF Init
  <2>. QED  BY <2>3, <2>4, <2>5, <2>6, <2>7 DEF TypeInv
<1>2. ASSUME NEW t \in Threads PROVE DataInv(t) /\ PlaceInv(t)
  <2>1. /\ pc[t] = "start" /\ active[t] = OperList(t) /\ finished[t] = <<>> /\ built[t] = <<>>
        /\ want[t] = 0 /\ iocbs[t] = <<>> /\ free[t] = num_global_ios(t)
        /\ num_global_pending[t] = 0
    BY DEF Init
  <2>2. inflight = {} /\ events = {}
    BY DEF Init
  <2>3. \A o \in OpersOf(t) : /\ num_pending[o] = 0 /\ started_ios[o] = 0 /\ issued[o] = 0
                              /\ moved[o] = {}
    BY OpersFacts DEF Init
  <2>4. OperList(t) \in Seq(Opers) /\ Once(OperList(t)) /\ ToSet(OperList(t)) = OpersOf(t)
    BY OperListFacts
  <2>5. Once(<<>>) /\ ToSet(<<>>) = {} /\ Len(<<>>) = 0
    BY OnceEmpty
  <2>6. Cardinality({}) = 0
    BY FS_EmptySet
  <2>7. Queued(t) = {} /\ InflightOf(t) = {} /\ EventsOf(t) = {}
    BY <2>1, <2>2, <2>5 DEF Queued, InflightOf, EventsOf
  <2>8. ListInv(t)
    BY <2>1, <2>4, <2>5 DEF ListInv, Ranges
  <2>9. IoInv(t)
    BY <2>1, <2>5, <2>7 DEF IoInv
  <2>10. CountInv(t)
    <3>1. Outstanding(t) = 0
      BY <2>6, <2>7 DEF Outstanding
    <3>2. \A o \in OpersOf(t) : OutstandingOf(o) = 0
      <4> SUFFICES ASSUME NEW o \in OpersOf(t) PROVE OutstandingOf(o) = 0
        OBVIOUS
      <4>1. {x \in inflight : x[1] = o} = {} /\ {e \in events : e[1] = o} = {}
        BY <2>2
      <4>. QED  BY <4>1, <2>6 DEF OutstandingOf
    <3>3. num_global_ios(t) \in Nat
      BY OpersFacts
    <3>. QED  BY <2>1, <2>3, <2>5, <3>1, <3>2, <3>3 DEF CountInv
  <2>11. SentInv(t)
    <3> SUFFICES ASSUME NEW o \in OpersOf(t)
                 PROVE  /\ issued[o] = started_ios[o] + Cardinality(QueuedOf(t, o))
                        /\ \A k \in 1..issued[o] : Somewhere(t, o, k)
                        /\ moved[o] \subseteq 1..issued[o]
                        /\ total_ios(o) > 0 => issued[o] <= total_ios(o)
                        /\ o \in ToSet(active[t]) /\ total_ios(o) > 0
                             => started_ios[o] < total_ios(o)
                        /\ o \in ToSet(finished[t])
                             => stonewalled[o] = 1 \/ started_ios[o] = total_ios(o)
      BY DEF SentInv
    <3>1. QueuedOf(t, o) = {}
      BY <2>7 DEF QueuedOf
    <3>2. total_ios(o) \in Int
      BY TotalType, OpersFacts
    <3>3. o \notin ToSet(finished[t])
      BY <2>1, <2>5
    <3>. QED  BY <2>3, <2>6, <3>1, <3>2, <3>3
  <2>12. CurInv(t)
    BY <2>1 DEF CurInv
  <2>13. FitInv(t)
    BY <2>1, <2>5, Config DEF FitInv, Building, Holding
  <2>14. BuildInv(t)
    BY <2>1, <2>7 DEF BuildInv
  <2>15. WaitInv(t)
    BY <2>1, <2>4 DEF WaitInv, Ranges
  <2>. QED  BY <2>8, <2>9, <2>10, <2>11, <2>12, <2>13, <2>14, <2>15 DEF DataInv, PlaceInv
<1>. QED  BY <1>1, <1>2 DEF IInv

-----------------------------------------------------------------------------
(* A step is judged by what it does to its own thread. *)

Others(t) == \A u \in Threads \ {t} : SameData(u) /\ SamePlace(u)

LEMMA OwnStep ==
  ASSUME IInv, NEW t \in Threads, Others(t), TypeInv', DataInv(t)', PlaceInv(t)'
  PROVE  IInv'
<1>1. ASSUME NEW u \in Threads \ {t} PROVE DataInv(u)' /\ PlaceInv(u)'
  <2>1. SameData(u) /\ SamePlace(u) /\ DataInv(u) /\ PlaceInv(u) /\ u \in Threads /\ TypeInv
    BY DEF Others, IInv
  <2>2. DataInv(u)'
    BY <2>1, DataFrame
  <2>3. PlaceInv(u)'
    BY <2>1, PlaceFrame DEF SameData, DataInv
  <2>. QED  BY <2>2, <2>3
<1>. QED  BY <1>1 DEF IInv

\* Steps that only move a thread from one place to another.
dataVars == <<active, finished, built, iocbs, free, num_global_pending, num_pending,
              started_ios, issued, stonewalled, inflight, events, moved, failed>>

Moves(t) ==
  /\ UNCHANGED dataVars
  /\ pc' \in [Threads -> PCs] /\ cur' \in [Threads -> Nat] /\ want' \in [Threads -> Nat]
  /\ \A u \in Threads \ {t} : SamePlace(u)

LEMMA MoveStep ==
  ASSUME IInv, NEW t \in Threads, Moves(t), PlaceInv(t)'
  PROVE  IInv'
<1>1. TypeInv'
  BY DEF IInv, TypeInv, Moves, dataVars
<1>2. \A u \in Threads : SameData(u)
  BY DEF Moves, dataVars, SameData, SameLists, SameOpers, SameKernel, SameUnits,
         InflightOf, EventsOf
<1>3. Others(t)
  BY <1>2 DEF Others, Moves
<1>4. DataInv(t)'
  BY <1>2, DataFrame DEF IInv
<1>. QED  BY <1>1, <1>3, <1>4, OwnStep

\* Outside run_active_list and the loops over the finished list a thread
\* holds nothing.
LEMMA IdlePlace ==
  ASSUME NEW t \in Threads, TypeInv, PlaceInv(t), Moves(t),
         iocbs[t] = <<>>, built[t] = <<>>, want'[t] = 0,
         pc'[t] \notin Holding \cup {"wait", "restart"},
         pc[t] \in {"free", "exit"} => pc'[t] \in {"free", "exit"}
  PROVE  PlaceInv(t)'
<1>1. /\ UNCHANGED <<active, finished, num_global_pending, num_pending, issued, iocbs>>
      /\ iocbs'[t] = <<>> /\ built'[t] = <<>>
  BY DEF Moves, dataVars
<1>2. Queued(t)' = {} /\ Len(iocbs'[t]) = 0
  BY <1>1, OnceEmpty DEF Queued
<1>3. CurInv(t)' /\ FitInv(t)'
  BY <1>1, <1>2, Config DEF CurInv, FitInv, Holding, Building
<1>4. BuildInv(t)'
  BY <1>2 DEF BuildInv, Holding, Building
<1>5. Ranges(t)' = Ranges(t)
  BY <1>1 DEF Ranges, Moves, dataVars
<1>6. WaitInv(t)'
  BY <1>5 DEF WaitInv, PlaceInv
<1>. QED  BY <1>3, <1>4, <1>6 DEF PlaceInv

-----------------------------------------------------------------------------
(* Steps that move a thread and nothing else. *)

LEMMA BarrierStep ==
  ASSUME IInv, NEW t \in Threads,
         Barrier(t) \/ Again(t) \/ Sorted(t) \/ (pc[t] = "wait" /\ cur[t] = 0 /\ WaitNextOper(t))
  PROVE  IInv'
<1>type. pc \in [Threads -> PCs] /\ cur \in [Threads -> Nat] /\ want \in [Threads -> Nat]
  BY DEF IInv, TypeInv
<1>1. \E q \in {"begin", "startwait", "loop", "again", "endwait", "start", "free", "end"} :
        /\ UNCHANGED dataVars /\ UNCHANGED want
        /\ pc' = [pc EXCEPT ![t] = q]
        /\ cur' = cur \/ cur' = [cur EXCEPT ![t] = 0]
        /\ pc[t] \in {"start", "startwait", "begin", "end", "endwait", "again", "sort", "wait"}
        /\ pc[t] = "sort" => built[t] = <<>>
  <2>1. CASE ArriveStart(t)
    BY <2>1, <1>type DEF ArriveStart, Goto, dataVars, lists, units, opers, kernel, OpenStart
  <2>2. CASE WakeStart(t)
    BY <2>2, <1>type DEF WakeStart, Goto, dataVars, lists, units, opers, kernel
  <2>3. CASE BeginStage(t)
    BY <2>3, <1>type DEF BeginStage, Goto, dataVars, lists, units, opers, kernel
  <2>4. CASE ArriveEnd(t)
    BY <2>4, <1>type DEF ArriveEnd, Goto, dataVars, lists, units, opers, kernel, OpenEnd
  <2>5. CASE WakeEnd(t)
    BY <2>5, <1>type DEF WakeEnd, Goto, dataVars, lists, units, opers, kernel
  <2>6. CASE Again(t)
    BY <2>6, <1>type DEF Again, Goto, dataVars, lists, units, opers, kernel
  <2>7. CASE Sorted(t)
    BY <2>7, <1>type DEF Sorted, Goto, dataVars, lists, units, opers, kernel
  <2>8. CASE pc[t] = "wait" /\ cur[t] = 0 /\ WaitNextOper(t)
    BY <2>8, <1>type DEF WaitNextOper, Goto, dataVars, lists, units, opers, kernel
  <2>. QED  BY <2>1, <2>2, <2>3, <2>4, <2>5, <2>6, <2>7, <2>8 DEF Barrier
<1>2. Moves(t)
  BY <1>1, <1>type DEF Moves, PCs, SamePlace
<1>3. iocbs[t] = <<>> /\ built[t] = <<>> /\ want[t] = 0
  BY <1>1 DEF IInv, PlaceInv, FitInv, Building, Holding
<1>4. want'[t] = 0 /\ pc'[t] \notin Holding \cup {"wait", "restart"}
      /\ pc[t] \notin {"free", "exit"}
  BY <1>1, <1>3, <1>type DEF Holding, Building
<1>5. PlaceInv(t)'
  BY <1>2, <1>3, <1>4, IdlePlace DEF IInv
<1>. QED  BY <1>2, <1>5, MoveStep

LEMMA StutterStep ==
  ASSUME IInv,
         UNCHANGED vars \/ \E t \in Threads : SubmitFails(t) \/ SpuriousWake(t)
  PROVE  IInv'
<1>1. UNCHANGED dataVars /\ UNCHANGED <<pc, cur, want>>
  BY DEF SubmitFails, SpuriousWake, vars, control, lists, units, opers, kernel, dataVars
<1>2. 0 \in Threads
  BY Config DEF Threads
<1>3. Moves(0) /\ \A u \in Threads : SamePlace(u)
  BY <1>1, <1>2 DEF IInv, TypeInv, Moves, SamePlace
<1>4. SameLists(0) /\ SameOpers(0) /\ SameUnits(0)
  BY <1>1 DEF SameLists, SameOpers, SameUnits, dataVars
<1>5. PlaceInv(0)'
  BY <1>2, <1>3, <1>4, PlaceFrame DEF IInv, DataInv
<1>. QED  BY <1>2, <1>3, <1>5, MoveStep

LEMMA LoopStep ==
  ASSUME IInv, NEW t \in Threads, RunActiveList(t) \/ LeaveLoop(t)
  PROVE  IInv'
<1>type. /\ pc \in [Threads -> PCs] /\ cur \in [Threads -> Nat] /\ want \in [Threads -> Nat]
         /\ active[t] \in Seq(Opers) /\ finished[t] \in Seq(Opers)
  BY DEF IInv, TypeInv
<1>inv. iocbs[t] = <<>> /\ built[t] = <<>> /\ want[t] = 0
        /\ {o \in OpersOf(t) : total_ios(o) > 0} \subseteq Ranges(t)
  BY DEF RunActiveList, LeaveLoop, Goto, IInv, PlaceInv, FitInv, WaitInv, Building, Holding
<1>1. UNCHANGED dataVars /\ UNCHANGED want
  BY DEF RunActiveList, LeaveLoop, dataVars, lists, units, opers, kernel
<1>2. \/ pc' = [pc EXCEPT ![t] = "pick"] /\ cur' = [cur EXCEPT ![t] = 1] /\ active[t] # <<>>
      \/ /\ pc' = [pc EXCEPT ![t] = "wait"]
         /\ cur' = [cur EXCEPT ![t] = IF finished[t] = <<>> THEN 0 ELSE 1]
  BY DEF RunActiveList, LeaveLoop, Goto
<1>3. Moves(t)
  <2>1. \E q \in {"pick", "wait"}, n \in {0, 1} :
          pc' = [pc EXCEPT ![t] = q] /\ cur' = [cur EXCEPT ![t] = n]
    BY <1>2
  <2>. QED  BY <1>1, <1>type, <2>1 DEF Moves, PCs, SamePlace
<1>4. /\ Len(iocbs[t]) = 0 /\ Len(built[t]) = 0 /\ Queued(t)' = {} /\ ToSet(built[t]) = {}
      /\ iocbs'[t] = <<>> /\ built'[t] = <<>> /\ want'[t] = 0
      /\ active'[t] = active[t] /\ finished'[t] = finished[t]
      /\ Len(iocbs'[t]) = 0 /\ Len(built'[t]) = 0 /\ ToSet(built'[t]) = {}
  BY <1>inv, <1>1, OnceEmpty DEF Queued, dataVars
<1>5. CurInv(t)'
  <2>1. active[t] # <<>> => 1 <= Len(active[t])
    BY <1>type
  <2>2. (IF finished[t] = <<>> THEN 0 ELSE 1) <= Len(finished[t])
    BY <1>type
  <2>. QED  BY <1>2, <1>4, <1>type, <2>1, <2>2 DEF CurInv
<1>6. FitInv(t)'
  <2>1. pc'[t] = "pick" \/ pc'[t] = "wait"
    BY <1>2, <1>type
  <2>. QED  BY <1>4, <2>1, Config DEF FitInv, Building, Holding
<1>7. BuildInv(t)'
  <2>1. pc'[t] = "pick" \/ pc'[t] = "wait"
    BY <1>2, <1>type
  <2>. QED  BY <1>4, <2>1 DEF BuildInv
<1>8. WaitInv(t)'
  <2>1. pc'[t] = "pick" \/ (pc'[t] = "wait" /\ cur'[t] \in {0, 1})
    BY <1>2, <1>type
  <2>2. Ranges(t)' = Ranges(t)
    BY <1>1 DEF Ranges, dataVars
  <2>. QED  BY <1>inv, <2>1, <2>2 DEF WaitInv
<1>9. PlaceInv(t)'
  BY <1>5, <1>6, <1>7, <1>8 DEF PlaceInv
<1>. QED  BY <1>3, <1>9, MoveStep

\* A wait over, or a context that is full.
LEMMA WaitedStep ==
  ASSUME IInv, NEW t \in Threads, WaitNextOper(t), cur[t] # 0
  PROVE  IInv'
<1>type. /\ pc \in [Threads -> PCs] /\ cur \in [Threads -> Nat] /\ want \in [Threads -> Nat]
         /\ finished[t] \in Seq(Opers) /\ Len(finished[t]) \in Nat
  BY DEF IInv, TypeInv
<1>1. /\ UNCHANGED dataVars /\ UNCHANGED want
      /\ pc[t] = "wait" /\ num_pending[finished[t][cur[t]]] = 0
      /\ \/ /\ cur[t] = Len(finished[t]) /\ pc' = [pc EXCEPT ![t] = "restart"]
            /\ cur' = [cur EXCEPT ![t] = 1]
         \/ /\ cur[t] # Len(finished[t]) /\ pc' = [pc EXCEPT ![t] = "wait"]
            /\ cur' = [cur EXCEPT ![t] = @ + 1]
  BY DEF WaitNextOper, Goto, LastFinished, dataVars, lists, units, opers, kernel
<1>inv. /\ iocbs[t] = <<>> /\ built[t] = <<>> /\ want[t] = 0
        /\ {o \in OpersOf(t) : total_ios(o) > 0} \subseteq Ranges(t)
        /\ cur[t] <= Len(finished[t])
        /\ \A i \in 1..(cur[t] - 1) : num_pending[finished[t][i]] = 0
  BY <1>1 DEF IInv, PlaceInv, FitInv, WaitInv, CurInv, Building, Holding
<1>2. \A i \in 1..cur[t] : num_pending[finished[t][i]] = 0
  <2> SUFFICES ASSUME NEW i \in 1..cur[t] PROVE num_pending[finished[t][i]] = 0
    OBVIOUS
  <2>1. i \in 1..(cur[t] - 1) \/ i = cur[t]
    BY <1>type
  <2>. QED  BY <2>1, <1>1, <1>inv
<1>3. Moves(t)
  BY <1>1, <1>type DEF Moves, PCs, SamePlace
<1>4. /\ Queued(t)' = {} /\ iocbs'[t] = <<>> /\ built'[t] = <<>> /\ want'[t] = 0
      /\ finished' = finished /\ num_pending' = num_pending /\ Len(iocbs'[t]) = 0
      /\ Ranges(t)' = Ranges(t)
  BY <1>inv, <1>1, OnceEmpty DEF Queued, dataVars, Ranges
<1>5. FitInv(t)' /\ BuildInv(t)'
  <2>1. pc'[t] = "wait" \/ pc'[t] = "restart"
    BY <1>1, <1>type
  <2>. QED  BY <1>4, <2>1, Config DEF FitInv, BuildInv, Building, Holding
<1>6. CurInv(t)' /\ WaitInv(t)'
  <2>1. CASE cur[t] = Len(finished[t])
    <3>1. pc'[t] = "restart" /\ cur'[t] = 1 /\ 1 \in 1..Len(finished[t])
      BY <1>1, <1>type, <2>1
    <3>2. \A o \in ToSet(finished[t]) : num_pending[o] = 0
      BY <1>2, <1>type, <2>1 DEF ToSet
    <3>. QED  BY <1>4, <1>inv, <3>1, <3>2 DEF CurInv, WaitInv
  <2>2. CASE cur[t] # Len(finished[t])
    <3>1. pc'[t] = "wait" /\ cur'[t] = cur[t] + 1 /\ cur[t] + 1 <= Len(finished[t])
          /\ cur'[t] - 1 = cur[t]
      BY <1>1, <1>type, <1>inv, <2>2
    <3>. QED  BY <1>4, <1>inv, <1>2, <3>1 DEF CurInv, WaitInv
  <2>. QED  BY <2>1, <2>2
<1>7. PlaceInv(t)'
  BY <1>5, <1>6 DEF PlaceInv
<1>. QED  BY <1>3, <1>7, MoveStep

LEMMA PickStep ==
  ASSUME IInv, NEW t \in Threads, PickOper(t)
  PROVE  IInv'
<1>type. /\ pc \in [Threads -> PCs] /\ cur \in [Threads -> Nat] /\ want \in [Threads -> Nat]
         /\ active[t] \in Seq(Opers) /\ Len(active[t]) \in Nat
         /\ iocbs[t] \in Seq(Ios) /\ Len(iocbs[t]) \in Nat
         /\ built[t] \in Seq(Opers) /\ Len(built[t]) \in Nat
  BY DEF IInv, TypeInv
<1> DEFINE o == active[t][cur[t]]
<1>0. UNCHANGED dataVars /\ pc[t] = "pick"
  BY DEF PickOper, dataVars, lists, opers, kernel
<1>1. \/ pc' = [pc EXCEPT ![t] = "built"] /\ UNCHANGED <<cur, want>>
      \/ /\ cur[t] # 0 /\ cur[t] # Len(active[t]) /\ UNCHANGED <<pc, want>>
         /\ cur' = [cur EXCEPT ![t] = @ + 1]
      \/ /\ cur[t] # 0 /\ pc' = [pc EXCEPT ![t] = "build"]
         /\ num_ios(o) >= 0 /\ want' = [want EXCEPT ![t] = num_ios(o)] /\ UNCHANGED cur
  <2>1. CASE cur[t] = 0
    BY <2>1 DEF PickOper, Goto
  <2>2. CASE cur[t] # 0 /\ ~oper_runnable(o)
    <3>1. pc' = [pc EXCEPT ![t] = "pick"] => pc' = pc
      BY <1>0, <1>type
    <3>. QED  BY <2>2, <3>1 DEF PickOper, Goto
  <2>3. CASE cur[t] # 0 /\ oper_runnable(o)
    <3>1. num_ios(o) < 0 \/ (~(num_ios(o) < 0) /\ pc' = [pc EXCEPT ![t] = "build"]
                             /\ want' = [want EXCEPT ![t] = num_ios(o)] /\ UNCHANGED cur)
      BY <2>3 DEF PickOper, Goto
    <3>2. cur[t] \in 1..Len(active[t])
      BY <1>0, <1>type, <2>3 DEF IInv, PlaceInv, CurInv
    <3>3. o \in Opers
      BY <1>type, <3>2, Listed
    <3>4. started_ios[o] \in Nat /\ total_ios(o) \in Int
      BY <3>3, TotalType DEF IInv, TypeInv
    <3>5. num_ios(o) \in Int
      BY <3>4, Config DEF num_ios
    <3>6. CASE num_ios(o) < 0
      BY <2>3, <3>6 DEF PickOper, Goto
    <3>. QED  BY <2>3, <3>1, <3>5, <3>6
  <2>. QED  BY <2>1, <2>2, <2>3
<1>inv. /\ want[t] = 0 /\ cur[t] <= Len(active[t])
        /\ Len(iocbs[t]) + io_iter <= max_io_submit
        /\ Len(iocbs[t]) <= Len(built[t]) * io_iter
        /\ \A x \in Queued(t) : x[1] \in ToSet(built[t])
        /\ \A p \in ToSet(built[t]) : total_ios(p) > 0 => QueuedOf(t, p) # {}
        /\ {p \in OpersOf(t) : total_ios(p) > 0} \subseteq Ranges(t)
  BY <1>0 DEF IInv, PlaceInv, CurInv, FitInv, BuildInv, WaitInv
<1>same. /\ Queued(t)' = Queued(t) /\ Ranges(t)' = Ranges(t)
         /\ \A p : QueuedOf(t, p)' = QueuedOf(t, p)
         /\ iocbs'[t] = iocbs[t] /\ built'[t] = built[t] /\ active'[t] = active[t]
         /\ UNCHANGED <<issued, num_global_pending>>
  BY <1>0 DEF Queued, QueuedOf, Ranges, dataVars
<1>2. CASE pc' = [pc EXCEPT ![t] = "built"] /\ UNCHANGED <<cur, want>>
  <2>1. pc'[t] = "built" /\ want'[t] = 0
    BY <1>2, <1>type, <1>inv
  <2>2. Moves(t)
    BY <1>0, <1>2, <1>type DEF Moves, PCs, SamePlace
  <2>3. CurInv(t)' /\ FitInv(t)'
    BY <1>inv, <1>same, <1>type, <2>1, Config DEF CurInv, FitInv, Building, Holding
  <2>4. BuildInv(t)' /\ WaitInv(t)'
    BY <1>inv, <1>same, <2>1 DEF BuildInv, WaitInv
  <2>. QED  BY <2>2, <2>3, <2>4, MoveStep DEF PlaceInv
<1>3. CASE /\ cur[t] # 0 /\ cur[t] # Len(active[t]) /\ UNCHANGED <<pc, want>>
           /\ cur' = [cur EXCEPT ![t] = @ + 1]
  <2>1. pc'[t] = "pick" /\ want'[t] = 0 /\ cur'[t] <= Len(active[t])
    BY <1>0, <1>3, <1>type, <1>inv
  <2>2. Moves(t)
    BY <1>0, <1>3, <1>type DEF Moves, PCs, SamePlace
  <2>3. CurInv(t)' /\ FitInv(t)'
    BY <1>inv, <1>same, <1>type, <2>1, Config DEF CurInv, FitInv, Building, Holding
  <2>4. BuildInv(t)' /\ WaitInv(t)'
    BY <1>inv, <1>same, <2>1 DEF BuildInv, WaitInv
  <2>. QED  BY <2>2, <2>3, <2>4, MoveStep DEF PlaceInv
<1>4. CASE /\ cur[t] # 0 /\ pc' = [pc EXCEPT ![t] = "build"]
           /\ num_ios(o) >= 0 /\ want' = [want EXCEPT ![t] = num_ios(o)] /\ UNCHANGED cur
  <2>1. cur[t] \in 1..Len(active[t]) /\ pc'[t] = "build" /\ want'[t] = num_ios(o)
        /\ cur'[t] = cur[t]
    BY <1>4, <1>type, <1>inv
  <2>2. o \in ToSet(active[t]) /\ o \in Opers
    BY <1>type, <2>1, Listed
  <2>3. started_ios[o] \in Nat /\ issued[o] \in Nat /\ total_ios(o) \in Int
    BY <2>2, TotalType DEF IInv, TypeInv
  <2>4. o \notin ToSet(built[t]) /\ o \in OpersOf(t)
    BY <2>2 DEF IInv, DataInv, ListInv, Ranges
  <2>5. QueuedOf(t, o) = {}
    BY <1>inv, <2>4 DEF QueuedOf
  <2>6. issued[o] = started_ios[o]
    <3>1. issued[o] = started_ios[o] + Cardinality(QueuedOf(t, o))
      BY <2>4 DEF IInv, DataInv, SentInv
    <3>. QED  BY <2>3, <2>5, <3>1, FS_EmptySet
  <2>7. total_ios(o) > 0 => started_ios[o] < total_ios(o)
    BY <2>2, <2>4 DEF IInv, DataInv, SentInv
  <2>8. num_ios(o) \in Nat /\ num_ios(o) <= io_iter
    BY <1>4, <2>3, Config DEF num_ios
  <2>9. total_ios(o) > 0 => issued[o] + num_ios(o) <= total_ios(o) /\ num_ios(o) > 0
    BY <2>3, <2>6, <2>7, Config DEF num_ios
  <2> HIDE DEF o
  <2>10. Moves(t)
    BY <1>0, <1>4, <1>type, <2>8 DEF Moves, PCs, SamePlace
  <2>11. FitInv(t)'
    <3>1. (Len(built[t]) + 1) * io_iter = Len(built[t]) * io_iter + io_iter
          /\ Len(built[t]) * io_iter \in Nat
      BY <1>type, Config
    <3>2. Len(iocbs[t]) + num_ios(o) <= (Len(built[t]) + 1) * io_iter
      BY <1>inv, <1>type, <2>8, <3>1, Config
    <3>3. Len(iocbs[t]) + num_ios(o) <= max_io_submit
      BY <1>inv, <1>type, <2>8, Config
    <3>. QED  BY <1>same, <2>1, <3>2, <3>3 DEF FitInv, Building, Holding
  <2>12. Current(t)' = o
    BY <1>same, <2>1 DEF Current, o
  <2>13. CurInv(t)' /\ WaitInv(t)'
    BY <1>inv, <1>same, <2>1 DEF CurInv, WaitInv
  <2>14. BuildInv(t)'
    BY <1>inv, <1>same, <2>1, <2>8, <2>9, <2>12 DEF BuildInv
  <2>. QED  BY <2>10, <2>11, <2>13, <2>14, MoveStep DEF PlaceInv
<1>. QED  BY <1>1, <1>2, <1>3, <1>4

LEMMA AgainStep ==
  ASSUME IInv, NEW t \in Threads, SubmitAgain(t)
  PROVE  IInv'
<1>type. /\ pc \in [Threads -> PCs] /\ cur \in [Threads -> Nat] /\ want \in [Threads -> Nat]
         /\ num_global_pending[t] \in Int
  BY DEF IInv, TypeInv
<1>1. /\ UNCHANGED dataVars /\ UNCHANGED <<cur, want>> /\ pc' = [pc EXCEPT ![t] = "reap"]
      /\ pc[t] \in {"built", "submit"} /\ iocbs[t] # <<>> /\ Room(t) <= 0
  BY DEF SubmitAgain, Goto, dataVars, lists, units, opers, kernel
<1>2. num_global_pending[t] > 0
  <2>1. num_global_pending[t] = Outstanding(t)
    BY DEF IInv, DataInv, CountInv
  <2>. QED  BY <1>1, <1>type, <2>1, KernelAssumption DEF Room
<1>3. Moves(t)
  BY <1>1, <1>type DEF Moves, PCs, SamePlace
<1>inv. /\ want[t] = 0
        /\ Len(iocbs[t]) + want[t] <= max_io_submit
        /\ \A x \in Queued(t) : x[1] \in ToSet(built[t])
        /\ {p \in OpersOf(t) : total_ios(p) > 0} \subseteq Ranges(t)
  BY <1>1 DEF IInv, PlaceInv, CurInv, FitInv, BuildInv, WaitInv
<1>same. /\ Queued(t)' = Queued(t) /\ Ranges(t)' = Ranges(t) /\ pc'[t] = "reap"
         /\ UNCHANGED <<iocbs, built, want, num_global_pending>>
  BY <1>1, <1>type DEF Queued, Ranges, dataVars
<1>4. CurInv(t)' /\ FitInv(t)' /\ BuildInv(t)' /\ WaitInv(t)'
  BY <1>1, <1>2, <1>inv, <1>same DEF CurInv, FitInv, BuildInv, WaitInv, Building, Holding
<1>. QED  BY <1>3, <1>4, MoveStep DEF PlaceInv

-----------------------------------------------------------------------------
(* Steps that change the lists. *)

\* What SentInv asks of an operation because of the list it is on.
OnLists(t) ==
  \A o \in OpersOf(t) :
    /\ o \in ToSet(active[t]) /\ total_ios(o) > 0 => started_ios[o] < total_ios(o)
    /\ o \in ToSet(finished[t]) => stonewalled[o] = 1 \/ started_ios[o] = total_ios(o)

ListStep(t) ==
  /\ UNCHANGED <<iocbs, free, num_global_pending, num_pending, started_ios, issued,
                 inflight, events, moved, failed>>
  /\ \A u \in Threads \ {t} :
       /\ SameLists(u) /\ SamePlace(u)
       /\ \A o \in OpersOf(u) : stonewalled'[o] = stonewalled[o]

LEMMA ListStepHolds ==
  ASSUME IInv, NEW t \in Threads, ListStep(t), TypeInv', ListInv(t)', OnLists(t)', PlaceInv(t)'
  PROVE  IInv'
<1>1. ASSUME NEW u \in Threads PROVE SameKernel(u) /\ SameUnits(u)
  BY DEF ListStep, SameKernel, SameUnits, InflightOf, EventsOf
<1>2. Others(t)
  BY <1>1 DEF ListStep, Others, SameData, SameOpers
<1>same. /\ InflightOf(t)' = InflightOf(t) /\ EventsOf(t)' = EventsOf(t)
         /\ Queued(t)' = Queued(t)
         /\ \A o : QueuedOf(t, o)' = QueuedOf(t, o) /\ OutstandingOf(o)' = OutstandingOf(o)
         /\ Outstanding(t)' = Outstanding(t)
         /\ UNCHANGED <<iocbs, free, num_global_pending, num_pending, started_ios, issued,
                        inflight, events, moved, failed>>
  BY DEF ListStep, InflightOf, EventsOf, Queued, QueuedOf, OutstandingOf, Outstanding
<1>3. IoInv(t)'
  <2>1. \A x : NoEvent(t, x)' <=> NoEvent(t, x)
    BY <1>same DEF NoEvent
  <2>. QED  BY <1>same, <2>1 DEF IInv, DataInv, IoInv
<1>4. CountInv(t)'
  BY <1>same DEF IInv, DataInv, CountInv
<1>5. SentInv(t)'
  <2>1. \A o \in OpersOf(t) : \A k : Somewhere(t, o, k)' <=> Somewhere(t, o, k)
    BY <1>same DEF Somewhere
  <2>. QED  BY <1>same, <2>1 DEF IInv, DataInv, SentInv, OnLists
<1>6. DataInv(t)'
  BY <1>3, <1>4, <1>5 DEF DataInv
<1>. QED  BY <1>2, <1>6, OwnStep

LEMMA FreeStep ==
  ASSUME IInv, NEW t \in Threads, FreeOper(t)
  PROVE  IInv'
<1>type. /\ pc \in [Threads -> PCs] /\ finished \in [Threads -> Seq(Opers)]
         /\ finished[t] \in Seq(Opers)
  BY DEF IInv, TypeInv
<1>1. /\ pc[t] = "free" /\ pc'[t] \in {"free", "exit"}
      /\ pc' \in [Threads -> PCs] /\ \A u \in Threads \ {t} : pc'[u] = pc[u]
      /\ UNCHANGED <<cur, want, active, built, iocbs, free, num_global_pending, num_pending,
                     started_ios, issued, stonewalled, inflight, events, moved, failed>>
      /\ \/ finished[t] # <<>> /\ finished' = [finished EXCEPT ![t] = Tail(@)]
         \/ finished' = finished
  BY <1>type DEF FreeOper, Goto, units, opers, kernel, PCs
<1>inv. /\ iocbs[t] = <<>> /\ built[t] = <<>> /\ want[t] = 0
        /\ ListInv(t) /\ OnLists(t)
  BY <1>1 DEF IInv, DataInv, PlaceInv, FitInv, Building, Holding, SentInv, OnLists
<1>2. /\ finished'[t] \in Seq(Opers) /\ Once(finished'[t])
      /\ ToSet(finished'[t]) \subseteq ToSet(finished[t])
      /\ finished' \in [Threads -> Seq(Opers)]
      /\ \A u \in Threads \ {t} : finished'[u] = finished[u]
  <2>1. finished[t] # <<>> => /\ Tail(finished[t]) \in Seq(Opers) /\ Once(Tail(finished[t]))
                              /\ ToSet(Tail(finished[t])) \subseteq ToSet(finished[t])
    BY <1>type, <1>inv, OnceTail DEF ListInv
  <2>. QED  BY <1>1, <1>type, <1>inv, <2>1 DEF ListInv
<1>3. TypeInv'
  BY <1>1, <1>2 DEF IInv, TypeInv
<1>4. ListStep(t)
  BY <1>1, <1>2 DEF ListStep, SameLists, SamePlace
<1>5. ListInv(t)' /\ OnLists(t)'
  BY <1>1, <1>2, <1>inv DEF ListInv, OnLists, Ranges
<1>6. Queued(t)' = {} /\ Len(iocbs'[t]) = 0 /\ iocbs'[t] = <<>> /\ built'[t] = <<>> /\ want'[t] = 0
  BY <1>1, <1>inv, OnceEmpty DEF Queued
<1>7. CurInv(t)' /\ FitInv(t)' /\ BuildInv(t)' /\ WaitInv(t)'
  BY <1>1, <1>6, Config DEF CurInv, FitInv, BuildInv, WaitInv, Building, Holding
<1>. QED  BY <1>3, <1>4, <1>5, <1>7, ListStepHolds DEF PlaceInv

LEMMA CutoffStep ==
  ASSUME IInv, NEW t \in Threads, Cutoff(t)
  PROVE  IInv'
<1> DEFINE h == Head(active[t])
<1>type. /\ pc \in [Threads -> PCs] /\ finished \in [Threads -> Seq(Opers)]
         /\ active \in [Threads -> Seq(Opers)]
         /\ finished[t] \in Seq(Opers) /\ active[t] \in Seq(Opers)
         /\ stonewalled \in [Opers -> {0, 1}]
  BY DEF IInv, TypeInv
<1>1. /\ pc[t] = "loop" /\ pc' = [pc EXCEPT ![t] = "loop"]
      /\ active[t] # <<>>
      /\ stonewalled' = [stonewalled EXCEPT ![h] = 1]
      /\ finished' = [finished EXCEPT ![t] = Append(@, h)]
      /\ active' = [active EXCEPT ![t] = Tail(@)]
      /\ UNCHANGED <<cur, want, built, iocbs, free, num_global_pending, num_pending,
                     started_ios, issued, inflight, events, moved, failed>>
  BY DEF Cutoff, Goto, units, kernel
<1>inv. /\ iocbs[t] = <<>> /\ built[t] = <<>> /\ want[t] = 0
        /\ ListInv(t) /\ OnLists(t)
        /\ {p \in OpersOf(t) : total_ios(p) > 0} \subseteq Ranges(t)
  BY <1>1 DEF IInv, DataInv, PlaceInv, FitInv, WaitInv, Building, Holding, SentInv, OnLists
<1>2. /\ Tail(active[t]) \in Seq(Opers) /\ Once(Tail(active[t]))
      /\ ToSet(Tail(active[t])) = ToSet(active[t]) \ {h}
      /\ h \in ToSet(active[t]) /\ h \in Opers
  BY <1>1, <1>type, <1>inv, OnceTail DEF ListInv
<1>3. h \in OpersOf(t) /\ h \notin ToSet(finished[t]) /\ h \notin ToSet(built[t])
  BY <1>2, <1>inv DEF ListInv, Ranges
<1> HIDE DEF h
<1>4. /\ Append(finished[t], h) \in Seq(Opers) /\ Once(Append(finished[t], h))
      /\ ToSet(Append(finished[t], h)) = ToSet(finished[t]) \cup {h}
  BY <1>type, <1>inv, <1>2, <1>3, OnceAppend DEF ListInv
<1>5. /\ active'[t] = Tail(active[t]) /\ finished'[t] = Append(finished[t], h)
      /\ pc' = pc /\ built'[t] = built[t]
      /\ stonewalled' \in [Opers -> {0, 1}] /\ stonewalled'[h] = 1
      /\ \A o \in Opers \ {h} : stonewalled'[o] = stonewalled[o]
      /\ finished' \in [Threads -> Seq(Opers)] /\ active' \in [Threads -> Seq(Opers)]
      /\ \A u \in Threads \ {t} : finished'[u] = finished[u] /\ active'[u] = active[u]
  BY <1>1, <1>2, <1>4, <1>type
<1>6. TypeInv'
  BY <1>1, <1>5 DEF IInv, TypeInv
<1>7. ListStep(t)
  <2>1. \A u \in Threads \ {t} : h \notin OpersOf(u) /\ OpersOf(u) \subseteq Opers
    BY <1>3, OpersFacts
  <2>. QED  BY <1>1, <1>5, <2>1 DEF ListStep, SameLists, SamePlace
<1>8. ListInv(t)'
  BY <1>5, <1>2, <1>3, <1>4, <1>inv DEF ListInv, Ranges
<1>9. OnLists(t)'
  <2>1. OpersOf(t) \subseteq Opers
    BY OpersFacts
  <2>2. started_ios' = started_ios
    BY <1>1
  <2>. QED  BY <1>5, <1>2, <1>3, <1>4, <1>inv, <2>1, <2>2 DEF OnLists
<1>10. Queued(t)' = {} /\ Len(iocbs'[t]) = 0 /\ iocbs'[t] = <<>> /\ built'[t] = <<>> /\ want'[t] = 0
  BY <1>1, <1>inv, OnceEmpty DEF Queued
<1>11. Ranges(t)' = Ranges(t)
  BY <1>2, <1>4, <1>5 DEF Ranges
<1>12. CurInv(t)' /\ FitInv(t)' /\ BuildInv(t)' /\ WaitInv(t)'
  BY <1>1, <1>5, <1>10, <1>11, <1>inv, Config
     DEF CurInv, FitInv, BuildInv, WaitInv, Building, Holding
<1>. QED  BY <1>6, <1>7, <1>8, <1>9, <1>12, ListStepHolds DEF PlaceInv

LEMMA OperBuiltStep ==
  ASSUME IInv, NEW t \in Threads, OperBuilt(t)
  PROVE  IInv'
<1> DEFINE o == Current(t)
<1>type. /\ pc \in [Threads -> PCs] /\ cur \in [Threads -> Nat]
         /\ active \in [Threads -> Seq(Opers)] /\ built \in [Threads -> Seq(Opers)]
         /\ active[t] \in Seq(Opers) /\ built[t] \in Seq(Opers) /\ Len(built[t]) \in Nat
         /\ iocbs[t] \in Seq(Ios) /\ Len(iocbs[t]) \in Nat
  BY DEF IInv, TypeInv
<1>1. /\ pc[t] = "build" /\ want[t] = 0
      /\ built' = [built EXCEPT ![t] = Append(@, o)]
      /\ active' = [active EXCEPT ![t] = RemoveAt(@, cur[t])]
      /\ UNCHANGED <<want, finished, iocbs, free, num_global_pending, num_pending, started_ios,
                     issued, stonewalled, inflight, events, moved, failed>>
      /\ \/ pc' = [pc EXCEPT ![t] = "built"] /\ UNCHANGED cur
         \/ /\ ~ArrayFull(t) /\ pc' = [pc EXCEPT ![t] = "pick"]
            /\ cur' = [cur EXCEPT ![t] = IF active'[t] = <<>> THEN 0 ELSE 1]
  BY DEF OperBuilt, Current, Goto, units, opers, kernel
<1>inv. /\ ListInv(t) /\ OnLists(t)
        /\ Len(iocbs[t]) + want[t] <= max_io_submit
        /\ Len(iocbs[t]) + want[t] <= (Len(built[t]) + 1) * io_iter
        /\ {p \in OpersOf(t) : total_ios(p) > 0} \subseteq Ranges(t)
        /\ \A x \in Queued(t) : x[1] \in ToSet(built[t]) \/ x[1] = o
        /\ \A p \in ToSet(built[t]) : total_ios(p) > 0 => QueuedOf(t, p) # {}
        /\ total_ios(o) > 0 => want[t] > 0 \/ QueuedOf(t, o) # {}
  BY <1>1 DEF IInv, DataInv, PlaceInv, FitInv, BuildInv, WaitInv, SentInv, OnLists
<1>2. /\ o \in ToSet(active[t]) /\ o \in OpersOf(t) /\ o \notin ToSet(built[t]) /\ o \in Opers
      /\ cur[t] \in 1..Len(active[t])
  BY <1>1, CurrentFacts DEF IInv, DataInv, PlaceInv
<1>3. /\ RemoveAt(active[t], cur[t]) \in Seq(Opers) /\ Once(RemoveAt(active[t], cur[t]))
      /\ ToSet(RemoveAt(active[t], cur[t])) = ToSet(active[t]) \ {o}
  BY <1>type, <1>inv, <1>2, OnceRemove DEF ListInv, Current
<1> HIDE DEF o
<1>4. /\ Append(built[t], o) \in Seq(Opers) /\ Once(Append(built[t], o))
      /\ ToSet(Append(built[t], o)) = ToSet(built[t]) \cup {o}
      /\ Len(Append(built[t], o)) = Len(built[t]) + 1
  BY <1>type, <1>inv, <1>2, OnceAppend DEF ListInv
<1>5. /\ active'[t] = RemoveAt(active[t], cur[t]) /\ built'[t] = Append(built[t], o)
      /\ built' \in [Threads -> Seq(Opers)] /\ active' \in [Threads -> Seq(Opers)]
      /\ \A u \in Threads \ {t} : built'[u] = built[u] /\ active'[u] = active[u]
  BY <1>1, <1>3, <1>4, <1>type
<1>6. /\ pc' \in [Threads -> PCs] /\ cur' \in [Threads -> Nat]
      /\ \A u \in Threads \ {t} : pc'[u] = pc[u] /\ cur'[u] = cur[u]
      /\ \/ pc'[t] = "built"
         \/ /\ pc'[t] = "pick" /\ ~ArrayFull(t)
            /\ cur'[t] = 0 \/ (cur'[t] = 1 /\ active'[t] # <<>>)
  <2>1. \E n \in {0, 1} : cur' = [cur EXCEPT ![t] = n] \/ cur' = cur
    BY <1>1
  <2>2. \E q \in {"built", "pick"} : pc' = [pc EXCEPT ![t] = q]
    BY <1>1
  <2>3. pc' \in [Threads -> PCs] /\ \A u \in Threads \ {t} : pc'[u] = pc[u]
    BY <2>2, <1>type DEF PCs
  <2>4. cur' \in [Threads -> Nat] /\ \A u \in Threads \ {t} : cur'[u] = cur[u]
    <3>1. PICK n \in {0, 1} : cur' = [cur EXCEPT ![t] = n] \/ cur' = cur
      BY <2>1
    <3>2. n \in Nat
      OBVIOUS
    <3>3. CASE cur' = [cur EXCEPT ![t] = n]
      BY <1>type, <3>2, <3>3
    <3>4. CASE cur' = cur
      BY <1>type, <3>4
    <3>. QED  BY <3>1, <3>3, <3>4
  <2>5. pc'[t] = "built" \/ (pc'[t] = "pick" /\ ~ArrayFull(t)
                             /\ cur'[t] = IF active'[t] = <<>> THEN 0 ELSE 1)
    BY <1>1, <1>type
  <2>. QED  BY <2>3, <2>4, <2>5
<1>7. TypeInv'
  BY <1>1, <1>5, <1>6 DEF IInv, TypeInv
<1>8. ListStep(t)
  BY <1>1, <1>5, <1>6 DEF ListStep, SameLists, SamePlace
<1>9. ListInv(t)'
  <2>1. finished'[t] = finished[t]
    BY <1>1
  <2>. QED  BY <1>5, <1>2, <1>3, <1>4, <1>inv, <2>1 DEF ListInv, Ranges
<1>10. OnLists(t)'
  BY <1>1, <1>5, <1>3, <1>inv DEF OnLists
<1>11. CurInv(t)'
  <2>1. active'[t] # <<>> => 1 <= Len(active'[t])
    BY <1>3, <1>5
  <2>2. 0 <= Len(active'[t])
    BY <1>3, <1>5
  <2>. QED  BY <1>6, <2>1, <2>2 DEF CurInv
<1>12. FitInv(t)'
  <2>1. iocbs'[t] = iocbs[t] /\ want'[t] = 0 /\ num_global_pending'[t] = num_global_pending[t]
    BY <1>1
  <2>2. Len(iocbs[t]) <= Len(built'[t]) * io_iter
    BY <1>1, <1>inv, <1>4, <1>5, <1>type
  <2>3. ~ArrayFull(t) => Len(iocbs[t]) + io_iter <= max_io_submit
    BY <1>type, Config DEF ArrayFull
  <2>4. Len(iocbs[t]) + 0 <= max_io_submit
    BY <1>1, <1>inv
  <2>. QED  BY <1>6, <2>1, <2>2, <2>3, <2>4 DEF FitInv, Building, Holding
<1>13. BuildInv(t)'
  <2>1. Queued(t)' = Queued(t) /\ \A p : QueuedOf(t, p)' = QueuedOf(t, p)
    BY <1>1 DEF Queued, QueuedOf
  <2>2. total_ios(o) > 0 => QueuedOf(t, o) # {}
    BY <1>1, <1>inv
  <2>. QED  BY <1>5, <1>4, <1>6, <1>inv, <2>1, <2>2 DEF BuildInv
<1>14. WaitInv(t)'
  <2>1. Ranges(t)' = Ranges(t)
    BY <1>1, <1>2, <1>3, <1>4, <1>5 DEF Ranges
  <2>. QED  BY <1>6, <1>inv, <2>1 DEF WaitInv
<1>. QED  BY <1>7, <1>8, <1>9, <1>10, <1>11, <1>12, <1>13, <1>14, ListStepHolds DEF PlaceInv

LEMMA NothingBuiltStep ==
  ASSUME IInv, NEW t \in Threads, NothingBuilt(t)
  PROVE  IInv'
<1>type. /\ pc \in [Threads -> PCs] /\ cur \in [Threads -> Nat]
         /\ built \in [Threads -> Seq(Opers)]
  BY DEF IInv, TypeInv
<1>1. /\ pc[t] = "built" /\ pc' = [pc EXCEPT ![t] = "loop"] /\ iocbs[t] = <<>>
      /\ built' = [built EXCEPT ![t] = <<>>] /\ cur' = [cur EXCEPT ![t] = 0]
      /\ UNCHANGED <<want, active, finished, iocbs, free, num_global_pending, num_pending,
                     started_ios, issued, stonewalled, inflight, events, moved, failed>>
  BY DEF NothingBuilt, Goto, units, opers, kernel
<1>inv. /\ ListInv(t) /\ OnLists(t) /\ want[t] = 0
        /\ {p \in OpersOf(t) : total_ios(p) > 0} \subseteq Ranges(t)
        /\ \A p \in ToSet(built[t]) : total_ios(p) > 0 => QueuedOf(t, p) # {}
  BY <1>1 DEF IInv, DataInv, PlaceInv, FitInv, BuildInv, WaitInv, SentInv, OnLists
<1>2. /\ pc' \in [Threads -> PCs] /\ cur' \in [Threads -> Nat] /\ pc'[t] = "loop"
      /\ built' \in [Threads -> Seq(Opers)] /\ built'[t] = <<>>
      /\ \A u \in Threads \ {t} : pc'[u] = pc[u] /\ cur'[u] = cur[u] /\ built'[u] = built[u]
  BY <1>1, <1>type DEF PCs
<1>3. TypeInv'
  BY <1>1, <1>2 DEF IInv, TypeInv
<1>4. ListStep(t)
  BY <1>1, <1>2 DEF ListStep, SameLists, SamePlace
<1>5. /\ Once(<<>>) /\ ToSet(<<>>) = {} /\ Len(<<>>) = 0 /\ Queued(t) = {} /\ Queued(t)' = {}
      /\ \A p : QueuedOf(t, p) = {}
  BY <1>1, OnceEmpty DEF Queued, QueuedOf
<1>6. ListInv(t)' /\ OnLists(t)'
  BY <1>1, <1>2, <1>5, <1>inv DEF ListInv, OnLists, Ranges
<1>7. CurInv(t)' /\ FitInv(t)' /\ BuildInv(t)'
  BY <1>1, <1>2, <1>5, <1>inv, Config DEF CurInv, FitInv, BuildInv, Building, Holding
<1>8. WaitInv(t)'
  <2>1. \A p \in ToSet(built[t]) : ~(total_ios(p) > 0)
    BY <1>inv, <1>5
  <2>2. {p \in OpersOf(t) : total_ios(p) > 0} \subseteq Ranges(t)'
    BY <1>1, <1>2, <1>5, <1>inv, <2>1 DEF Ranges
  <2>. QED  BY <1>2, <2>2 DEF WaitInv
<1>. QED  BY <1>3, <1>4, <1>6, <1>7, <1>8, ListStepHolds DEF PlaceInv

LEMMA SortStep ==
  ASSUME IInv, NEW t \in Threads, SortBuilt(t)
  PROVE  IInv'
<1> DEFINE o == Head(built[t])
<1>type. /\ pc \in [Threads -> PCs] /\ built \in [Threads -> Seq(Opers)]
         /\ active \in [Threads -> Seq(Opers)] /\ finished \in [Threads -> Seq(Opers)]
         /\ active[t] \in Seq(Opers) /\ built[t] \in Seq(Opers) /\ finished[t] \in Seq(Opers)
         /\ started_ios \in [Opers -> Nat] /\ issued \in [Opers -> Nat]
  BY DEF IInv, TypeInv
<1>1. /\ pc[t] = "sort" /\ pc' = [pc EXCEPT ![t] = "sort"] /\ built[t] # <<>>
      /\ built' = [built EXCEPT ![t] = Tail(@)]
      /\ UNCHANGED <<cur, want, iocbs, free, num_global_pending, num_pending,
                     started_ios, issued, stonewalled, inflight, events, moved, failed>>
      /\ \/ /\ AllSent(o) /\ finished' = [finished EXCEPT ![t] = Append(@, o)]
            /\ active' = [active EXCEPT ![t] = active[t]]
         \/ /\ ~AllSent(o) /\ finished' = [finished EXCEPT ![t] = finished[t]]
            /\ active' = [active EXCEPT ![t] = Append(@, o)]
  BY <1>type DEF SortBuilt, Requeue, Goto, units, opers, kernel
<1>inv. /\ ListInv(t) /\ OnLists(t) /\ want[t] = 0 /\ iocbs[t] = <<>>
        /\ {p \in OpersOf(t) : total_ios(p) > 0} \subseteq Ranges(t)
  BY <1>1 DEF IInv, DataInv, PlaceInv, FitInv, WaitInv, SentInv, OnLists, Building
<1>2. /\ Tail(built[t]) \in Seq(Opers) /\ Once(Tail(built[t]))
      /\ ToSet(Tail(built[t])) = ToSet(built[t]) \ {o}
      /\ o \in ToSet(built[t]) /\ o \in Opers
  BY <1>1, <1>type, <1>inv, OnceTail DEF ListInv
<1>3. o \in OpersOf(t) /\ o \notin ToSet(finished[t]) /\ o \notin ToSet(active[t])
  BY <1>2, <1>inv DEF ListInv, Ranges
<1> HIDE DEF o
<1>4. /\ Append(finished[t], o) \in Seq(Opers) /\ Once(Append(finished[t], o))
      /\ ToSet(Append(finished[t], o)) = ToSet(finished[t]) \cup {o}
  BY <1>type, <1>inv, <1>2, <1>3, OnceAppend DEF ListInv
<1>5. /\ Append(active[t], o) \in Seq(Opers) /\ Once(Append(active[t], o))
      /\ ToSet(Append(active[t], o)) = ToSet(active[t]) \cup {o}
  BY <1>type, <1>inv, <1>2, <1>3, OnceAppend DEF ListInv
<1>6. /\ pc' = pc /\ pc'[t] = "sort"
      /\ built' \in [Threads -> Seq(Opers)] /\ built'[t] = Tail(built[t])
      /\ finished' \in [Threads -> Seq(Opers)] /\ active' \in [Threads -> Seq(Opers)]
      /\ \A u \in Threads \ {t} : /\ built'[u] = built[u] /\ active'[u] = active[u]
                                  /\ finished'[u] = finished[u]
  BY <1>1, <1>2, <1>4, <1>5, <1>type
<1>7. \/ AllSent(o) /\ finished'[t] = Append(finished[t], o) /\ active'[t] = active[t]
      \/ ~AllSent(o) /\ finished'[t] = finished[t] /\ active'[t] = Append(active[t], o)
  BY <1>1, <1>type
<1>8. TypeInv'
  BY <1>1, <1>6 DEF IInv, TypeInv
<1>9. ListStep(t)
  BY <1>1, <1>6 DEF ListStep, SameLists, SamePlace
<1>10. ListInv(t)'
  BY <1>6, <1>7, <1>2, <1>3, <1>4, <1>5, <1>inv DEF ListInv, Ranges
<1>11. OnLists(t)'
  <2>1. total_ios(o) > 0 => started_ios[o] <= total_ios(o)
    <3>1. issued[o] = started_ios[o] + Cardinality(QueuedOf(t, o))
          /\ (total_ios(o) > 0 => issued[o] <= total_ios(o))
      BY <1>3 DEF IInv, DataInv, SentInv
    <3>2. QueuedOf(t, o) = {}
      BY <1>inv, OnceEmpty DEF QueuedOf, Queued
    <3>3. started_ios[o] \in Nat /\ issued[o] \in Nat /\ total_ios(o) \in Int
      BY <1>type, <1>2, TotalType
    <3>. QED  BY <3>1, <3>2, <3>3, FS_EmptySet
  <2>2. started_ios[o] \in Nat /\ total_ios(o) \in Int
    BY <1>type, <1>2, TotalType
  <2>3. ~AllSent(o) /\ total_ios(o) > 0 => started_ios[o] < total_ios(o)
    BY <2>1, <2>2 DEF AllSent
  <2>4. AllSent(o) => started_ios[o] = total_ios(o)
    BY DEF AllSent
  <2>5. started_ios' = started_ios /\ stonewalled' = stonewalled
    BY <1>1
  <2>. QED  BY <1>7, <1>4, <1>5, <1>inv, <2>3, <2>4, <2>5 DEF OnLists
<1>12. Ranges(t)' = Ranges(t)
  BY <1>2, <1>4, <1>5, <1>6, <1>7 DEF Ranges
<1>13. Queued(t)' = {} /\ iocbs'[t] = <<>> /\ Len(iocbs'[t]) = 0 /\ want'[t] = 0
  BY <1>1, <1>inv, OnceEmpty DEF Queued
<1>14. CurInv(t)' /\ FitInv(t)' /\ BuildInv(t)' /\ WaitInv(t)'
  BY <1>6, <1>12, <1>13, <1>inv, Config
     DEF CurInv, FitInv, BuildInv, WaitInv, Building, Holding
<1>. QED  BY <1>8, <1>9, <1>10, <1>11, <1>14, ListStepHolds DEF PlaceInv

-----------------------------------------------------------------------------
(* Building an io. *)

LEMMA BuildStep ==
  ASSUME IInv, NEW t \in Threads, BuildIocb(t)
  PROVE  IInv'
<1>type. /\ pc \in [Threads -> PCs] /\ want \in [Threads -> Nat] /\ free \in [Threads -> Nat]
         /\ iocbs \in [Threads -> Seq(Ios)] /\ iocbs[t] \in Seq(Ios) /\ Len(iocbs[t]) \in Nat
         /\ issued \in [Opers -> Nat] /\ started_ios \in [Opers -> Nat]
         /\ want[t] \in Nat /\ free[t] \in Nat
  BY DEF IInv, TypeInv
<1>o. PICK o : o = Current(t)
  OBVIOUS
<1>x. PICK x : x = <<o, issued[o] + 1>>
  OBVIOUS
<1>1. /\ pc[t] = "build" /\ pc' = [pc EXCEPT ![t] = "build"]
      /\ want[t] > 0 /\ free[t] > 0
      /\ iocbs' = [iocbs EXCEPT ![t] = Append(@, x)]
      /\ issued' = [issued EXCEPT ![o] = @ + 1]
      /\ free' = [free EXCEPT ![t] = @ - 1]
      /\ want' = [want EXCEPT ![t] = @ - 1]
      /\ UNCHANGED <<cur, active, finished, built, num_global_pending, num_pending,
                     started_ios, stonewalled, inflight, events, moved, failed>>
  BY <1>o, <1>x DEF BuildIocb, TakeUnit, Current, Goto, lists, kernel
<1>2. /\ o \in ToSet(active[t]) /\ o \in OpersOf(t) /\ o \notin ToSet(built[t]) /\ o \in Opers
  BY <1>1, <1>o, CurrentFacts DEF IInv, DataInv, PlaceInv
<1>inv. ListInv(t) /\ IoInv(t) /\ CountInv(t) /\ SentInv(t)
        /\ CurInv(t) /\ FitInv(t) /\ BuildInv(t) /\ WaitInv(t)
  BY DEF IInv, DataInv, PlaceInv
<1>io. /\ x \in Ios /\ x[1] = o /\ x[2] = issued[o] + 1 /\ issued[o] \in Nat
  BY <1>2, <1>x, <1>type DEF Ios
<1>new. x \notin Queued(t) /\ x \notin InflightOf(t) /\ NoEvent(t, x)
  BY <1>io, <1>inv DEF IoInv, NoEvent
<1>3. /\ Append(iocbs[t], x) \in Seq(Ios) /\ Once(Append(iocbs[t], x))
      /\ ToSet(Append(iocbs[t], x)) = ToSet(iocbs[t]) \cup {x}
      /\ Len(Append(iocbs[t], x)) = Len(iocbs[t]) + 1
  BY <1>type, <1>inv, <1>io, <1>new, OnceAppend DEF IoInv, Queued
<1>4. /\ iocbs' \in [Threads -> Seq(Ios)] /\ iocbs'[t] = Append(iocbs[t], x)
      /\ issued' \in [Opers -> Nat] /\ issued'[o] = issued[o] + 1
      /\ \A p \in Opers \ {o} : issued'[p] = issued[p]
      /\ free' \in [Threads -> Nat] /\ free'[t] = free[t] - 1
      /\ want' \in [Threads -> Nat] /\ want'[t] = want[t] - 1
      /\ pc' = pc
      /\ \A u \in Threads \ {t} : /\ iocbs'[u] = iocbs[u] /\ free'[u] = free[u]
                                  /\ want'[u] = want[u]
  BY <1>1, <1>2, <1>3, <1>type, <1>io
<1>5. TypeInv'
  BY <1>1, <1>4 DEF IInv, TypeInv
<1>6. Others(t)
  <2>1. \A u \in Threads \ {t} : o \notin OpersOf(u) /\ OpersOf(u) \subseteq Opers
    BY <1>2, OpersFacts
  <2>. QED  BY <1>1, <1>4, <2>1 DEF Others, SameData, SameLists, SameOpers, SameKernel,
              SameUnits, SamePlace, InflightOf, EventsOf
<1>same. /\ InflightOf(t)' = InflightOf(t) /\ EventsOf(t)' = EventsOf(t)
         /\ Queued(t)' = Queued(t) \cup {x} /\ Outstanding(t)' = Outstanding(t)
         /\ \A p : OutstandingOf(p)' = OutstandingOf(p)
         /\ \A y : NoEvent(t, y)' <=> NoEvent(t, y)
         /\ Ranges(t)' = Ranges(t) /\ Current(t)' = Current(t)
  BY <1>1, <1>3, <1>4 DEF InflightOf, EventsOf, Queued, Outstanding, OutstandingOf, NoEvent,
       Ranges, Current
<1>7. ListInv(t)'
  BY <1>1, <1>inv, <1>same DEF ListInv
<1>8. IoInv(t)'
  <2>1. \A p \in OpersOf(t) : p \in Opers /\ issued[p] \in Nat /\ issued[p] <= issued'[p]
    <3> SUFFICES ASSUME NEW p \in OpersOf(t)
                 PROVE  p \in Opers /\ issued[p] \in Nat /\ issued[p] <= issued'[p]
      OBVIOUS
    <3>1. p \in Opers /\ issued[p] \in Nat
      BY <1>type, OpersFacts
    <3>2. issued'[p] = issued[p] \/ issued'[p] = issued[p] + 1
      BY <3>1, <1>4
    <3>. QED  BY <3>1, <3>2
  <2>2. \A y \in Queued(t) \cup InflightOf(t) \cup EventsOf(t) :
          y[1] \in OpersOf(t) /\ y[2] <= issued[y[1]] /\ y[2] \in Nat
    <3>1. Queued(t) \subseteq Ios
      BY <1>type DEF Queued, ToSet
    <3>2. inflight \subseteq Ios /\ events \subseteq Evs
      BY DEF IInv, TypeInv
    <3>. QED  BY <1>inv, <3>1, <3>2 DEF IoInv, InflightOf, EventsOf, Ios, Evs
  <2>3. \A y \in Queued(t) \cup InflightOf(t) \cup EventsOf(t) :
          y[1] \in OpersOf(t) /\ y[2] <= issued'[y[1]]
    BY <2>1, <2>2, <1>4
  <2>4. x[1] \in OpersOf(t) /\ x[2] <= issued'[x[1]]
    BY <1>io, <1>2, <1>4
  <2>5. Once(iocbs'[t])
    BY <1>3, <1>4
  <2>6. \A y \in Queued(t)' : /\ y[1] \in OpersOf(t) /\ y[2] <= issued'[y[1]]
                              /\ y \notin InflightOf(t)' /\ NoEvent(t, y)'
    BY <1>same, <1>new, <1>inv, <2>3, <2>4 DEF IoInv
  <2>7. \A y \in InflightOf(t)' : /\ y[1] \in OpersOf(t) /\ y[2] <= issued'[y[1]]
                                  /\ NoEvent(t, y)'
    BY <1>same, <1>inv, <2>3 DEF IoInv
  <2>8. \A e \in EventsOf(t)' : e[1] \in OpersOf(t) /\ e[2] <= issued'[e[1]]
    BY <1>same, <2>3
  <2>. QED  BY <2>5, <2>6, <2>7, <2>8 DEF IoInv
<1>9. CountInv(t)'
  <2>1. num_global_pending[t] \in Int /\ num_global_pending[t] = Outstanding(t)
    BY <1>inv DEF CountInv, IInv, TypeInv
  <2>2. free'[t] + Len(iocbs'[t]) + Outstanding(t) = free[t] + Len(iocbs[t]) + Outstanding(t)
    BY <1>3, <1>4, <1>type, <2>1
  <2>. QED  BY <1>1, <1>same, <1>inv, <2>2 DEF CountInv
<1>10. QueuedOf(t, o)' = QueuedOf(t, o) \cup {x}
       /\ \A p : p # o => QueuedOf(t, p)' = QueuedOf(t, p)
  BY <1>same, <1>io DEF QueuedOf
<1>11. SentInv(t)'
  <2> SUFFICES ASSUME NEW p \in OpersOf(t)
               PROVE  /\ issued'[p] = started_ios[p] + Cardinality(QueuedOf(t, p)')
                      /\ \A k \in 1..issued'[p] : Somewhere(t, p, k)'
                      /\ moved[p] \subseteq 1..issued'[p]
                      /\ total_ios(p) > 0 => issued'[p] <= total_ios(p)
    BY <1>1, <1>inv DEF SentInv
  <2>0. /\ issued[p] = started_ios[p] + Cardinality(QueuedOf(t, p))
        /\ \A k \in 1..issued[p] : Somewhere(t, p, k)
        /\ moved[p] \subseteq 1..issued[p]
        /\ total_ios(p) > 0 => issued[p] <= total_ios(p)
    BY <1>inv DEF SentInv
  <2>p. p \in Opers /\ issued[p] \in Nat /\ started_ios[p] \in Nat /\ total_ios(p) \in Int
    BY <1>type, OpersFacts, TotalType
  <2>1. CASE p # o
    <3>1. issued'[p] = issued[p] /\ QueuedOf(t, p)' = QueuedOf(t, p)
      BY <1>4, <1>10, <2>p, <2>1
    <3>2. \A k : Somewhere(t, p, k) => Somewhere(t, p, k)'
      BY <1>same, <1>1 DEF Somewhere
    <3>. QED  BY <2>0, <3>1, <3>2
  <2>2. CASE p = o
    <3>1. IsFiniteSet(QueuedOf(t, o)) /\ x \notin QueuedOf(t, o)
      <4>1. IsFiniteSet(ToSet(iocbs[t]))
        BY <1>type, <1>inv, OnceLen DEF IoInv
      <4>. QED  BY <4>1, <1>new, FS_Subset DEF QueuedOf, Queued
    <3>2. Cardinality(QueuedOf(t, o) \cup {x}) = Cardinality(QueuedOf(t, o)) + 1
          /\ Cardinality(QueuedOf(t, o)) \in Nat
      BY <3>1, FS_AddElement, FS_CardinalityType
    <3>3. issued'[p] = issued[p] + 1
      BY <1>4, <2>2
    <3>4. issued'[p] = started_ios[p] + Cardinality(QueuedOf(t, p)')
      <4>1. QueuedOf(t, p)' = QueuedOf(t, o) \cup {x} /\ QueuedOf(t, p) = QueuedOf(t, o)
        BY <1>10, <2>2
      <4>. QED  BY <3>2, <3>3, <4>1, <2>0, <2>p
    <3>5. \A k \in 1..issued'[p] : Somewhere(t, p, k)'
      <4> SUFFICES ASSUME NEW k \in 1..issued'[p] PROVE Somewhere(t, p, k)'
        OBVIOUS
      <4>1. k \in 1..issued[p] \/ k = issued[p] + 1
        BY <3>3, <2>p
      <4>2. Somewhere(t, p, k) => Somewhere(t, p, k)'
        BY <1>same, <1>1 DEF Somewhere
      <4>3. k = issued[p] + 1 => <<p, k>> = x
        BY <2>2, <1>x
      <4>. QED  BY <4>1, <4>2, <4>3, <2>0, <1>same DEF Somewhere
    <3>6. moved[p] \subseteq 1..issued'[p]
      BY <2>0, <2>p, <3>3
    <3>7. total_ios(p) > 0 => issued'[p] <= total_ios(p)
      <4>1. total_ios(o) > 0 => issued[o] + want[t] <= total_ios(o)
        BY <1>1, <1>o, <1>inv DEF BuildInv
      <4>. QED  BY <4>1, <1>1, <1>type, <2>2, <2>p, <3>3
    <3>. QED  BY <3>4, <3>5, <3>6, <3>7
  <2>. QED  BY <2>1, <2>2
<1>12. CurInv(t)' /\ WaitInv(t)'
  BY <1>1, <1>4, <1>inv, <1>same DEF CurInv, WaitInv
<1>13. FitInv(t)'
  <2>1. Len(iocbs'[t]) + want'[t] = Len(iocbs[t]) + want[t]
    BY <1>3, <1>4, <1>type
  <2>2. built' = built /\ pc'[t] = "build"
    BY <1>1, <1>4
  <2>. QED  BY <1>1, <1>inv, <2>1, <2>2 DEF FitInv, Building, Holding
<1>14. BuildInv(t)'
  <2>1. \A p : QueuedOf(t, p) \subseteq QueuedOf(t, p)'
    BY <1>10
  <2>2. QueuedOf(t, o)' # {}
    BY <1>10
  <2>3. total_ios(o) > 0 => issued'[o] + want'[t] <= total_ios(o)
    <3>1. total_ios(o) > 0 => issued[o] + want[t] <= total_ios(o)
      BY <1>1, <1>o, <1>inv DEF BuildInv
    <3>. QED  BY <3>1, <1>4, <1>io, <1>type
  <2>4. \A y \in Queued(t)' : y[1] \in ToSet(built[t]) \/ y[1] = o
    BY <1>inv, <1>o, <1>same, <1>io DEF BuildInv
  <2>5. Current(t)' = o /\ pc'[t] = "build" /\ built' = built
    BY <1>1, <1>o, <1>4, <1>same
  <2>6. \A p \in ToSet(built[t]) : total_ios(p) > 0 => QueuedOf(t, p)' # {}
    BY <1>1, <1>inv, <2>1 DEF BuildInv
  <2>. QED  BY <2>2, <2>3, <2>4, <2>5, <2>6 DEF BuildInv
<1>. QED  BY <1>5, <1>6, <1>7, <1>8, <1>9, <1>11, <1>12, <1>13, <1>14, OwnStep DEF DataInv, PlaceInv

-----------------------------------------------------------------------------
(* Reaping completions. *)

LEMMA CountLess ==
  ASSUME NEW S, IsFiniteSet(S), NEW T, T \subseteq S
  PROVE  /\ IsFiniteSet(T) /\ IsFiniteSet(S \ T)
         /\ Cardinality(S) \in Nat /\ Cardinality(T) \in Nat /\ Cardinality(S \ T) \in Nat
         /\ Cardinality(T) <= Cardinality(S)
         /\ Cardinality(S \ T) = Cardinality(S) - Cardinality(T)
<1>1. IsFiniteSet(T) /\ Cardinality(T) <= Cardinality(S)
  BY FS_Subset
<1>2. S \cap T = T
  OBVIOUS
<1>3. IsFiniteSet(S \ T) /\ Cardinality(S \ T) = Cardinality(S) - Cardinality(T)
  BY <1>2, FS_Difference
<1>. QED  BY <1>1, <1>3, FS_CardinalityType

LEMMA CountBoth ==
  ASSUME NEW S, IsFiniteSet(S), NEW T, IsFiniteSet(T), S \cap T = {}
  PROVE  /\ IsFiniteSet(S \cup T)
         /\ Cardinality(S) \in Nat /\ Cardinality(T) \in Nat
         /\ Cardinality(S \cup T) = Cardinality(S) + Cardinality(T)
<1>1. IsFiniteSet(S \cup T)
      /\ Cardinality(S \cup T) = Cardinality(S) + Cardinality(T) - Cardinality(S \cap T)
  BY FS_Union
<1>2. Cardinality(S \cap T) = 0
  BY FS_EmptySet
<1>. QED  BY <1>1, <1>2, FS_CardinalityType

LEMMA SlicesFinite ==
  ASSUME TypeInv, NEW t \in Threads
  PROVE  /\ IsFiniteSet(InflightOf(t)) /\ IsFiniteSet(EventsOf(t))
         /\ Cardinality(InflightOf(t)) \in Nat /\ Cardinality(EventsOf(t)) \in Nat
         /\ \A o : /\ IsFiniteSet(InflightAt(o)) /\ IsFiniteSet(EventsAt(o))
                   /\ Cardinality(InflightAt(o)) \in Nat /\ Cardinality(EventsAt(o)) \in Nat
<1>1. IsFiniteSet(inflight) /\ IsFiniteSet(events)
  BY DEF TypeInv
<1>2. /\ InflightOf(t) \subseteq inflight /\ EventsOf(t) \subseteq events
      /\ \A o : InflightAt(o) \subseteq inflight /\ EventsAt(o) \subseteq events
  BY DEF InflightOf, EventsOf, InflightAt, EventsAt
<1>. QED  BY <1>1, <1>2, CountLess

LEMMA ReapStep ==
  ASSUME IInv, NEW t \in Threads, NEW E, E \subseteq EventsOf(t), FinishIo(t, E),
         UNCHANGED <<cur, want, active, finished, built, iocbs, started_ios, issued, stonewalled>>,
         NEW q, pc' = [pc EXCEPT ![t] = q],
         \/ pc[t] = "build" /\ q = "build"
         \/ pc[t] = "reap" /\ q = "submit"
         \/ pc[t] = "wait" /\ q = "wait"
  PROVE  IInv'
<1>type. /\ pc \in [Threads -> PCs] /\ free \in [Threads -> Nat]
         /\ num_global_pending \in [Threads -> Int] /\ num_pending \in [Opers -> Int]
         /\ events \subseteq Evs /\ IsFiniteSet(events)
         /\ cur[t] \in Nat /\ finished[t] \in Seq(Opers) /\ Len(finished[t]) \in Nat
         /\ Len(iocbs[t]) \in Nat
  BY DEF IInv, TypeInv
<1>inv. ListInv(t) /\ IoInv(t) /\ CountInv(t) /\ SentInv(t)
        /\ CurInv(t) /\ FitInv(t) /\ BuildInv(t) /\ WaitInv(t) /\ TypeInv
  BY DEF IInv, DataInv, PlaceInv
<1>0. PICK n : n = Cardinality(E)
  OBVIOUS
<1>1. /\ events' = events \ E
      /\ free' = [free EXCEPT ![t] = @ + n]
      /\ num_global_pending' = [num_global_pending EXCEPT ![t] = @ - n]
      /\ num_pending' = [o \in Opers |-> num_pending[o] - Cardinality({e \in E : e[1] = o})]
      /\ UNCHANGED <<inflight, moved, failed>>
  BY <1>0 DEF FinishIo
<1>2. E \subseteq events /\ \A e \in E : ThreadOf(e[1]) = t
  BY DEF EventsOf
<1>fin. /\ IsFiniteSet(EventsOf(t)) /\ IsFiniteSet(E) /\ n \in Nat /\ IsFiniteSet(events')
        /\ Cardinality(EventsOf(t)) \in Nat /\ Cardinality(InflightOf(t)) \in Nat
        /\ Cardinality(EventsOf(t) \ E) = Cardinality(EventsOf(t)) - n
  BY <1>0, <1>1, <1>2, <1>inv, <1>type, SlicesFinite, CountLess
<1>3. /\ EventsOf(t)' = EventsOf(t) \ E /\ InflightOf(t)' = InflightOf(t)
      /\ \A u \in Threads \ {t} : EventsOf(u)' = EventsOf(u) /\ InflightOf(u)' = InflightOf(u)
  BY <1>1, <1>2 DEF EventsOf, InflightOf
<1>4. ASSUME NEW o \in OpersOf(t)
      PROVE  /\ num_pending'[o] = OutstandingOf(o)'
             /\ num_pending'[o] \in Nat /\ num_pending'[o] <= num_pending[o]
  <2> DEFINE D == {e \in E : e[1] = o}
  <2>1. o \in Opers
    BY OpersFacts
  <2>2. num_pending'[o] = num_pending[o] - Cardinality(D)
    BY <1>1, <2>1
  <2>3. D \subseteq EventsAt(o) /\ EventsAt(o)' = EventsAt(o) \ D
    BY <1>1, <1>2 DEF EventsAt
  <2>4. InflightAt(o)' = InflightAt(o)
    BY <1>1 DEF InflightAt
  <2>5. /\ IsFiniteSet(EventsAt(o)) /\ Cardinality(EventsAt(o)) \in Nat
        /\ Cardinality(InflightAt(o)) \in Nat
    BY <1>inv, SlicesFinite
  <2>6. num_pending[o] = Cardinality(InflightAt(o)) + Cardinality(EventsAt(o))
    BY <1>inv, Slices DEF CountInv
  <2>7. OutstandingOf(o)' = Cardinality(InflightAt(o)') + Cardinality(EventsAt(o)')
    BY SlicesNext
  <2> HIDE DEF D
  <2>8. /\ Cardinality(D) \in Nat /\ Cardinality(D) <= Cardinality(EventsAt(o))
        /\ Cardinality(EventsAt(o) \ D) = Cardinality(EventsAt(o)) - Cardinality(D)
    BY <2>3, <2>5, CountLess
  <2>. QED  BY <2>2, <2>3, <2>4, <2>5, <2>6, <2>7, <2>8
<1>5. /\ free' \in [Threads -> Nat] /\ free'[t] = free[t] + n
      /\ num_global_pending' \in [Threads -> Int]
      /\ num_global_pending'[t] = num_global_pending[t] - n
      /\ pc' \in [Threads -> PCs] /\ pc'[t] = q
      /\ \A u \in Threads \ {t} : /\ free'[u] = free[u] /\ pc'[u] = pc[u]
                                  /\ num_global_pending'[u] = num_global_pending[u]
  BY <1>1, <1>fin, <1>type DEF PCs
<1>6. num_pending' \in [Opers -> Int]
      /\ \A u \in Threads \ {t} : \A o \in OpersOf(u) : num_pending'[o] = num_pending[o]
  <2>1. ASSUME NEW o \in Opers, NEW u \in Threads \ {t}, o \in OpersOf(u)
        PROVE  num_pending'[o] = num_pending[o]
    <3>1. {e \in E : e[1] = o} = {}
      BY <1>2, <2>1, OpersFacts
    <3>2. num_pending[o] \in Int /\ num_pending'[o] = num_pending[o] - 0
      BY <1>1, <1>type, <3>1, FS_EmptySet
    <3>. QED  BY <3>2
  <2>2. ASSUME NEW o \in Opers PROVE num_pending[o] - Cardinality({e \in E : e[1] = o}) \in Int
    <3>1. Cardinality({e \in E : e[1] = o}) \in Nat
      BY <1>fin, CountLess
    <3>. QED  BY <1>type, <3>1
  <2>3. num_pending' \in [Opers -> Int]
    BY <1>1, <2>2
  <2>. QED  BY <2>1, <2>3, OpersFacts
<1>7. TypeInv'
  <2>1. events' \subseteq Evs
    BY <1>1, <1>type
  <2>. QED  BY <1>1, <1>5, <1>6, <1>fin, <1>inv, <2>1 DEF TypeInv
<1>8. Others(t)
  BY <1>1, <1>3, <1>5, <1>6 DEF Others, SameData, SameLists, SameOpers, SameKernel, SameUnits,
       SamePlace
<1>same. Queued(t)' = Queued(t) /\ Ranges(t)' = Ranges(t) /\ Current(t)' = Current(t)
         /\ \A o : QueuedOf(t, o)' = QueuedOf(t, o)
  BY DEF Queued, QueuedOf, Ranges, Current
<1>9. ListInv(t)'
  BY <1>inv, <1>same DEF ListInv
<1>10. IoInv(t)'
  BY <1>inv, <1>same, <1>3 DEF IoInv, NoEvent
<1>11. CountInv(t)'
  <2>1. Outstanding(t) = Cardinality(InflightOf(t)) + Cardinality(EventsOf(t))
        /\ Outstanding(t)' = Cardinality(InflightOf(t)') + Cardinality(EventsOf(t)')
    BY DEF Outstanding
  <2>2. Outstanding(t)' = Outstanding(t) - n /\ Outstanding(t) \in Nat /\ Outstanding(t)' \in Int
    BY <1>3, <1>fin, <2>1
  <2>3. num_global_pending[t] = Outstanding(t) /\ num_global_ios(t) \in Nat
        /\ free[t] + Len(iocbs[t]) + Outstanding(t) = num_global_ios(t)
        /\ free[t] \in Nat
    BY <1>inv, <1>type, OpersFacts DEF CountInv
  <2>4. num_global_pending'[t] = Outstanding(t)'
    BY <1>5, <1>fin, <2>2, <2>3
  <2>5. free'[t] + Len(iocbs'[t]) + Outstanding(t)' = num_global_ios(t)
    BY <1>5, <1>type, <1>fin, <2>2, <2>3
  <2>. QED  BY <1>4, <2>4, <2>5 DEF CountInv
<1>12. SentInv(t)'
  <2>1. \A o \in OpersOf(t) : \A k : Somewhere(t, o, k)' <=> Somewhere(t, o, k)
    BY <1>1, <1>3, <1>same DEF Somewhere
  <2>. QED  BY <1>1, <1>inv, <1>same, <2>1 DEF SentInv
<1>13. CurInv(t)' /\ FitInv(t)' /\ BuildInv(t)'
  <2>1. CurInv(t)'
    BY <1>5, <1>inv DEF CurInv
  <2>2. FitInv(t)'
    BY <1>5, <1>inv DEF FitInv, Building, Holding
  <2>3. BuildInv(t)'
    BY <1>5, <1>inv, <1>same DEF BuildInv
  <2>. QED  BY <2>1, <2>2, <2>3
<1>14. WaitInv(t)'
  <2>1. ASSUME q = "wait", NEW i \in 1..(cur[t] - 1) PROVE num_pending'[finished[t][i]] = 0
    <3>1. cur[t] <= Len(finished[t]) /\ num_pending[finished[t][i]] = 0
      BY <1>inv, <2>1 DEF CurInv, WaitInv
    <3>2. i \in 1..Len(finished[t])
      BY <3>1, <1>type
    <3>3. finished[t][i] \in OpersOf(t)
      BY <1>inv, <1>type, <3>2, Listed DEF ListInv, Ranges
    <3>. QED  BY <1>4, <3>1, <3>3
  <2>2. pc[t] \notin {"free", "exit"}
    OBVIOUS
  <2>. QED  BY <1>5, <1>inv, <1>same, <2>1, <2>2 DEF WaitInv
<1>. QED  BY <1>7, <1>8, <1>9, <1>10, <1>11, <1>12, <1>13, <1>14, OwnStep DEF DataInv, PlaceInv

LEMMA ReapSteps ==
  ASSUME IInv, NEW t \in Threads, FindIouWaits(t) \/ ReapAndResubmit(t) \/ WaitOneEvent(t)
  PROVE  IInv'
<1>1. UNCHANGED <<cur, want, active, finished, built, iocbs, started_ios, issued, stonewalled>>
  BY DEF FindIouWaits, ReapAndResubmit, WaitOneEvent, lists
<1>2. CASE FindIouWaits(t)
  <2>1. PICK E : E = EventsOf(t)
    OBVIOUS
  <2>2. FinishIo(t, E) /\ pc[t] = "build" /\ pc' = [pc EXCEPT ![t] = "build"]
    BY <1>2, <2>1 DEF FindIouWaits, ReadSomeEvents, Goto
  <2>. QED  BY <1>1, <2>1, <2>2, ReapStep
<1>3. CASE ReapAndResubmit(t)
  <2>1. PICK E : E = EventsOf(t)
    OBVIOUS
  <2>2. FinishIo(t, E) /\ pc[t] = "reap" /\ pc' = [pc EXCEPT ![t] = "submit"]
    BY <1>3, <2>1 DEF ReapAndResubmit, ReadSomeEvents, Goto
  <2>. QED  BY <1>1, <2>1, <2>2, ReapStep
<1>4. CASE WaitOneEvent(t)
  <2>1. PICK e \in EventsOf(t) : FinishIo(t, {e})
    BY <1>4 DEF WaitOneEvent
  <2>2. {e} \subseteq EventsOf(t) /\ pc[t] = "wait" /\ pc' = [pc EXCEPT ![t] = "wait"]
    BY <1>4, <2>1 DEF WaitOneEvent, Goto
  <2>. QED  BY <1>1, <2>1, <2>2, ReapStep
<1>. QED  BY <1>2, <1>3, <1>4

-----------------------------------------------------------------------------
(* Submitting. *)

LEMMA SubmitStep ==
  ASSUME IInv, NEW t \in Threads, Submit(t)
  PROVE  IInv'
<1>type. /\ pc \in [Threads -> PCs] /\ iocbs \in [Threads -> Seq(Ios)]
         /\ num_global_pending \in [Threads -> Int] /\ num_pending \in [Opers -> Int]
         /\ started_ios \in [Opers -> Nat] /\ issued \in [Opers -> Nat]
         /\ inflight \subseteq Ios /\ IsFiniteSet(inflight)
         /\ iocbs[t] \in Seq(Ios) /\ Len(iocbs[t]) \in Nat /\ free[t] \in Nat
         /\ num_global_pending[t] \in Int /\ Len(built[t]) \in Nat
  BY DEF IInv, TypeInv
<1>inv. ListInv(t) /\ IoInv(t) /\ CountInv(t) /\ SentInv(t)
        /\ CurInv(t) /\ FitInv(t) /\ BuildInv(t) /\ WaitInv(t) /\ TypeInv
  BY DEF IInv, DataInv, PlaceInv
<1>ret. PICK ret \in 1..MinOf(Len(iocbs[t]), Room(t)) :
      LET sent == {iocbs[t][i] : i \in 1..ret} IN
      /\ inflight' = inflight \cup sent
      /\ iocbs' = [iocbs EXCEPT ![t] = SubSeq(@, ret + 1, Len(@))]
      /\ num_global_pending' = [num_global_pending EXCEPT ![t] = @ + ret]
      /\ num_pending' = update_iou_counters(num_pending, sent)
      /\ started_ios' = update_iou_counters(started_ios, sent)
      /\ \/ ret = Len(iocbs[t]) /\ pc' = [pc EXCEPT ![t] = "sort"]
         \/ ret # Len(iocbs[t]) /\ pc' = [pc EXCEPT ![t] = "reap"]
  BY DEF Submit, Goto
<1>0. PICK sent :
      /\ ret \in 1..MinOf(Len(iocbs[t]), Room(t))
      /\ sent = {iocbs[t][i] : i \in 1..ret}
      /\ inflight' = inflight \cup sent
      /\ iocbs' = [iocbs EXCEPT ![t] = SubSeq(@, ret + 1, Len(@))]
      /\ num_global_pending' = [num_global_pending EXCEPT ![t] = @ + ret]
      /\ num_pending' = update_iou_counters(num_pending, sent)
      /\ started_ios' = update_iou_counters(started_ios, sent)
      /\ \/ ret = Len(iocbs[t]) /\ pc' = [pc EXCEPT ![t] = "sort"]
         \/ ret # Len(iocbs[t]) /\ pc' = [pc EXCEPT ![t] = "reap"]
  BY <1>ret
<1>1. /\ pc[t] \in {"built", "submit"}
      /\ UNCHANGED <<cur, want, active, finished, built, free, issued, stonewalled, events,
                     moved, failed>>
  BY DEF Submit, lists
<1>2. ret \in 1..Len(iocbs[t]) /\ ret \in 0..Len(iocbs[t]) /\ ret \in Nat
  <2>1. CtxEvents \in Nat /\ num_global_pending[t] = Outstanding(t)
    BY <1>inv, KernelAssumption DEF CountInv
  <2>2. Room(t) \in Int
    BY <1>type, <2>1 DEF Room
  <2>. QED  BY <1>type, <2>2 DEF MinOf
<1> DEFINE rest == SubSeq(iocbs[t], ret + 1, Len(iocbs[t]))
<1>3. /\ rest \in Seq(Ios) /\ Len(rest) = Len(iocbs[t]) - ret /\ Once(rest)
      /\ ToSet(rest) = Queued(t) \ sent /\ sent \subseteq Queued(t)
  BY <1>0, <1>2, <1>type, <1>inv, OnceSplit DEF IoInv, Queued
<1>4. IsFiniteSet(sent) /\ Cardinality(sent) = ret
  <2>1. Once(iocbs[t]) /\ ret \in 0..Len(iocbs[t]) /\ iocbs[t] \in Seq(Ios)
    BY <1>2, <1>type, <1>inv DEF IoInv
  <2>2. IsFiniteSet({iocbs[t][i] : i \in 1..ret}) /\ Cardinality({iocbs[t][i] : i \in 1..ret}) = ret
    BY <2>1, OnceCount
  <2>. QED  BY <1>0, <2>2
<1>5. iocbs'[t] = rest /\ Queued(t)' = Queued(t) \ sent
  BY <1>0, <1>3, <1>type DEF Queued
<1>6. /\ iocbs' \in [Threads -> Seq(Ios)]
      /\ num_global_pending' \in [Threads -> Int]
      /\ num_global_pending'[t] = num_global_pending[t] + ret
      /\ pc' \in [Threads -> PCs]
      /\ \A u \in Threads \ {t} : /\ iocbs'[u] = iocbs[u] /\ pc'[u] = pc[u]
                                  /\ num_global_pending'[u] = num_global_pending[u]
      /\ \/ ret = Len(iocbs[t]) /\ pc'[t] = "sort"
         \/ ret # Len(iocbs[t]) /\ pc'[t] = "reap"
  <2>1. iocbs' = [iocbs EXCEPT ![t] = rest] /\ rest \in Seq(Ios)
    BY <1>0, <1>3, <1>type
  <2> HIDE DEF rest
  <2>2. iocbs' \in [Threads -> Seq(Ios)] /\ \A u \in Threads \ {t} : iocbs'[u] = iocbs[u]
    BY <2>1, <1>type
  <2>3. /\ num_global_pending' \in [Threads -> Int]
        /\ num_global_pending'[t] = num_global_pending[t] + ret
        /\ \A u \in Threads \ {t} : num_global_pending'[u] = num_global_pending[u]
    BY <1>0, <1>2, <1>type
  <2>4. /\ pc' \in [Threads -> PCs] /\ \A u \in Threads \ {t} : pc'[u] = pc[u]
        /\ \/ ret = Len(iocbs[t]) /\ pc'[t] = "sort"
           \/ ret # Len(iocbs[t]) /\ pc'[t] = "reap"
    BY <1>0, <1>type DEF PCs
  <2>. QED  BY <2>2, <2>3, <2>4
<1> HIDE DEF rest
<1>sent. /\ \A x \in sent : /\ x \in Ios /\ x[1] \in OpersOf(t) /\ x[2] <= issued[x[1]]
                            /\ x \notin InflightOf(t) /\ NoEvent(t, x)
         /\ \A x \in sent : ThreadOf(x[1]) = t /\ x \notin inflight
         /\ sent \subseteq Ios
  <2>1. \A x \in Queued(t) : x \in Ios
    BY <1>type DEF Queued, ToSet
  <2>2. \A x \in sent : /\ x \in Ios /\ x[1] \in OpersOf(t) /\ x[2] <= issued[x[1]]
                        /\ x \notin InflightOf(t) /\ NoEvent(t, x)
    BY <1>3, <1>inv, <2>1 DEF IoInv
  <2>3. \A x \in sent : ThreadOf(x[1]) = t
    BY <2>2, OpersFacts
  <2>. QED  BY <2>2, <2>3 DEF InflightOf
<1>7. /\ InflightOf(t)' = InflightOf(t) \cup sent /\ EventsOf(t)' = EventsOf(t)
      /\ \A u \in Threads \ {t} : InflightOf(u)' = InflightOf(u) /\ EventsOf(u)' = EventsOf(u)
  BY <1>0, <1>1, <1>sent DEF InflightOf, EventsOf
<1> DEFINE SentOf(o) == {x \in sent : x[1] = o}
<1>8. \A o : IsFiniteSet(SentOf(o)) /\ Cardinality(SentOf(o)) \in Nat
  BY <1>4, CountLess
<1>9. \A o \in Opers : /\ num_pending'[o] = num_pending[o] + Cardinality(SentOf(o))
                       /\ started_ios'[o] = started_ios[o] + Cardinality(SentOf(o))
  BY <1>0 DEF update_iou_counters
<1>10. num_pending' \in [Opers -> Int] /\ started_ios' \in [Opers -> Nat]
  <2>1. \A o \in Opers : /\ num_pending[o] + Cardinality(SentOf(o)) \in Int
                         /\ started_ios[o] + Cardinality(SentOf(o)) \in Nat
    <3> SUFFICES ASSUME NEW o \in Opers
                 PROVE  /\ num_pending[o] + Cardinality(SentOf(o)) \in Int
                        /\ started_ios[o] + Cardinality(SentOf(o)) \in Nat
      OBVIOUS
    <3>1. Cardinality(SentOf(o)) \in Nat
      BY <1>8
    <3> HIDE DEF SentOf
    <3>. QED  BY <3>1, <1>type
  <2>. QED  BY <1>0, <2>1 DEF update_iou_counters
<1>11. \A u \in Threads \ {t} : \A o \in OpersOf(u) :
         num_pending'[o] = num_pending[o] /\ started_ios'[o] = started_ios[o]
  <2> SUFFICES ASSUME NEW u \in Threads \ {t}, NEW o \in OpersOf(u)
               PROVE  num_pending'[o] = num_pending[o] /\ started_ios'[o] = started_ios[o]
    OBVIOUS
  <2>1. o \in Opers /\ ThreadOf(o) = u
    BY OpersFacts
  <2>2. SentOf(o) = {}
    BY <1>sent, <2>1
  <2>3. Cardinality(SentOf(o)) = 0
    BY <2>2, FS_EmptySet
  <2> HIDE DEF SentOf
  <2>. QED  BY <1>9, <1>type, <2>1, <2>3
<1>12. TypeInv'
  <2>1. inflight' \subseteq Ios /\ IsFiniteSet(inflight')
    BY <1>0, <1>4, <1>sent, <1>type, FS_Union
  <2>. QED  BY <1>1, <1>6, <1>10, <1>inv, <2>1 DEF TypeInv
<1>13. Others(t)
  BY <1>1, <1>6, <1>7, <1>11 DEF Others, SameData, SameLists, SameOpers, SameKernel, SameUnits,
       SamePlace
<1>14. ListInv(t)' /\ Ranges(t)' = Ranges(t)
  BY <1>1, <1>inv DEF ListInv, Ranges
<1>15. IoInv(t)'
  <2>1. Once(iocbs'[t])
    BY <1>3, <1>5
  <2>2. \A x : NoEvent(t, x)' <=> NoEvent(t, x)
    BY <1>7 DEF NoEvent
  <2>. QED  BY <1>1, <1>5, <1>7, <1>inv, <1>sent, <2>1, <2>2 DEF IoInv
<1>16. CountInv(t)'
  <2>1. /\ IsFiniteSet(InflightOf(t)) /\ Cardinality(InflightOf(t)) \in Nat
        /\ Cardinality(EventsOf(t)) \in Nat
    BY <1>inv, SlicesFinite
  <2>2. InflightOf(t) \cap sent = {}
    BY <1>sent
  <2>3. Cardinality(InflightOf(t)') = Cardinality(InflightOf(t)) + ret
    BY <1>4, <1>7, <2>1, <2>2, CountBoth
  <2>4. Outstanding(t)' = Outstanding(t) + ret /\ Outstanding(t) \in Nat
    BY <1>2, <1>7, <2>1, <2>3 DEF Outstanding
  <2>5. num_global_pending'[t] = Outstanding(t)'
    BY <1>6, <1>inv, <2>4 DEF CountInv
  <2>6. free'[t] + Len(iocbs'[t]) + Outstanding(t)' = num_global_ios(t)
    <3>1. free[t] + Len(iocbs[t]) + Outstanding(t) = num_global_ios(t)
      BY <1>inv DEF CountInv
    <3>. QED  BY <1>1, <1>2, <1>3, <1>5, <1>type, <2>4, <3>1
  <2>7. ASSUME NEW o \in OpersOf(t) PROVE num_pending'[o] = OutstandingOf(o)'
    <3>1. InflightAt(o)' = InflightAt(o) \cup SentOf(o) /\ EventsAt(o)' = EventsAt(o)
      BY <1>0, <1>1 DEF InflightAt, EventsAt
    <3>2. InflightAt(o) \cap SentOf(o) = {}
      BY <1>sent DEF InflightAt
    <3>3. /\ IsFiniteSet(InflightAt(o)) /\ Cardinality(InflightAt(o)) \in Nat
          /\ Cardinality(EventsAt(o)) \in Nat
      BY <1>inv, SlicesFinite
    <3>4. num_pending[o] = Cardinality(InflightAt(o)) + Cardinality(EventsAt(o))
      BY <1>inv, Slices DEF CountInv
    <3>5. OutstandingOf(o)' = Cardinality(InflightAt(o)') + Cardinality(EventsAt(o)')
      BY SlicesNext
    <3>6. num_pending'[o] = num_pending[o] + Cardinality(SentOf(o)) /\ IsFiniteSet(SentOf(o))
          /\ Cardinality(SentOf(o)) \in Nat
      BY <1>8, <1>9, OpersFacts
    <3> HIDE DEF SentOf
    <3>7. Cardinality(InflightAt(o) \cup SentOf(o))
            = Cardinality(InflightAt(o)) + Cardinality(SentOf(o))
      BY <3>2, <3>3, <3>6, CountBoth
    <3>. QED  BY <3>1, <3>3, <3>4, <3>5, <3>6, <3>7
  <2>. QED  BY <2>5, <2>6, <2>7 DEF CountInv
<1>17. \A o : QueuedOf(t, o)' = QueuedOf(t, o) \ SentOf(o) /\ SentOf(o) \subseteq QueuedOf(t, o)
  BY <1>3, <1>5 DEF QueuedOf
<1>18. ASSUME NEW o \in OpersOf(t)
       PROVE  /\ issued[o] = started_ios'[o] + Cardinality(QueuedOf(t, o)')
              /\ started_ios'[o] \in Nat /\ issued[o] \in Nat
  <2>1. IsFiniteSet(QueuedOf(t, o)) /\ Cardinality(QueuedOf(t, o)) \in Nat
    <3>1. IsFiniteSet(ToSet(iocbs[t]))
      BY <1>type, <1>inv, OnceLen DEF IoInv
    <3>. QED  BY <3>1, CountLess DEF QueuedOf, Queued
  <2>2. QueuedOf(t, o)' = QueuedOf(t, o) \ SentOf(o) /\ SentOf(o) \subseteq QueuedOf(t, o)
    BY <1>17
  <2>3. issued[o] = started_ios[o] + Cardinality(QueuedOf(t, o))
    BY <1>inv DEF SentInv
  <2>4. started_ios'[o] = started_ios[o] + Cardinality(SentOf(o))
        /\ Cardinality(SentOf(o)) \in Nat /\ started_ios[o] \in Nat /\ issued[o] \in Nat
    BY <1>8, <1>9, <1>type, OpersFacts
  <2> HIDE DEF SentOf
  <2>5. Cardinality(QueuedOf(t, o) \ SentOf(o))
          = Cardinality(QueuedOf(t, o)) - Cardinality(SentOf(o))
    BY <2>1, <2>2, CountLess
  <2>. QED  BY <2>1, <2>2, <2>3, <2>4, <2>5
<1>built. \A x \in Queued(t) : x[1] \in ToSet(built[t])
  BY <1>1, <1>inv DEF BuildInv
<1>19. SentInv(t)'
  <2> SUFFICES ASSUME NEW o \in OpersOf(t)
               PROVE  /\ \A k \in 1..issued[o] : Somewhere(t, o, k)'
                      /\ o \in ToSet(active[t]) /\ total_ios(o) > 0
                           => started_ios'[o] < total_ios(o)
                      /\ o \in ToSet(finished[t])
                           => stonewalled[o] = 1 \/ started_ios'[o] = total_ios(o)
    BY <1>1, <1>18, <1>inv DEF SentInv
  <2>1. \A k \in 1..issued[o] : Somewhere(t, o, k)'
    <3>1. \A k : Somewhere(t, o, k) => Somewhere(t, o, k)'
      BY <1>1, <1>5, <1>7 DEF Somewhere
    <3>. QED  BY <3>1, <1>inv DEF SentInv
  <2>2. o \in ToSet(active[t]) \cup ToSet(finished[t]) => started_ios'[o] = started_ios[o]
    <3>1. o \in ToSet(active[t]) \cup ToSet(finished[t]) => SentOf(o) = {}
      BY <1>3, <1>built, <1>inv DEF ListInv
    <3>2. started_ios[o] \in Nat /\ started_ios'[o] = started_ios[o] + Cardinality(SentOf(o))
      BY <1>9, <1>type, OpersFacts
    <3>3. Cardinality({}) = 0
      BY FS_EmptySet
    <3> HIDE DEF SentOf
    <3>4. CASE SentOf(o) = {}
      <4>1. Cardinality(SentOf(o)) = 0
        BY <3>3, <3>4
      <4>. QED  BY <3>2, <4>1
    <3>. QED  BY <3>1, <3>4
  <2>. QED  BY <2>1, <2>2, <1>inv DEF SentInv
<1>20. CurInv(t)' /\ WaitInv(t)'
  BY <1>1, <1>6, <1>14, <1>inv DEF CurInv, WaitInv
<1>21. FitInv(t)'
  <2>1. want'[t] = 0 /\ Len(iocbs[t]) + 0 <= max_io_submit
    BY <1>1, <1>inv DEF FitInv
  <2>2. Len(iocbs'[t]) + 0 <= max_io_submit /\ Len(iocbs'[t]) \in Nat
    BY <1>2, <1>3, <1>5, <1>type, <2>1, Config
  <2>3. pc'[t] = "sort" => iocbs'[t] = <<>>
    <3>1. pc'[t] = "sort" => Len(rest) = 0
      BY <1>3, <1>6, <1>2, <1>type
    <3>. QED  BY <3>1, <1>3, <1>5, EmptySeq
  <2>4. pc'[t] = "reap" => iocbs'[t] # <<>>
    <3>1. pc'[t] = "reap" => Len(rest) # 0
      BY <1>3, <1>6, <1>2, <1>type
    <3>. QED  BY <3>1, <1>5, OnceEmpty
  <2>5. num_global_pending'[t] > 0
    <3>1. num_global_pending[t] = Outstanding(t)
      BY <1>inv DEF CountInv
    <3>2. Outstanding(t) >= 0
      BY <1>inv, SlicesFinite DEF Outstanding
    <3>. QED  BY <1>2, <1>6, <1>type, <3>1, <3>2
  <2>. QED  BY <1>6, <2>1, <2>2, <2>3, <2>4, <2>5 DEF FitInv, Building, Holding
<1>22. BuildInv(t)'
  BY <1>1, <1>5, <1>6, <1>built DEF BuildInv
<1>. QED  BY <1>12, <1>13, <1>14, <1>15, <1>16, <1>19, <1>20, <1>21, <1>22, OwnStep
          DEF DataInv, PlaceInv

-----------------------------------------------------------------------------
(* A completion in the kernel. *)

LEMMA CompleteStep ==
  ASSUME IInv, NEW x \in inflight, Complete(x)
  PROVE  IInv'
<1>type. /\ inflight \subseteq Ios /\ IsFiniteSet(inflight)
         /\ events \subseteq Evs /\ IsFiniteSet(events)
         /\ moved \in [Opers -> SUBSET Nat] /\ failed \in [Opers -> Nat]
         /\ issued \in [Opers -> Nat]
  BY DEF IInv, TypeInv
<1>x. x \in Ios /\ x[1] \in Opers /\ x[2] \in Nat \ {0} /\ x = <<x[1], x[2]>>
  BY <1>type DEF Ios
<1>t. PICK t \in Threads : t = ThreadOf(x[1])
  BY <1>x, OpersFacts
<1>in. x[1] \in OpersOf(t) /\ x \in InflightOf(t)
  BY <1>t, <1>x DEF OpersOf, InflightOf
<1>inv. ListInv(t) /\ IoInv(t) /\ CountInv(t) /\ SentInv(t) /\ PlaceInv(t) /\ TypeInv
  BY DEF IInv, DataInv
<1>1. PICK e \in Evs :
      /\ e[1] = x[1] /\ e[2] = x[2]
      /\ events' = events \cup {e}
      /\ \/ /\ moved' = [moved EXCEPT ![x[1]] = @ \cup {x[2]}]
            /\ failed' = failed
         \/ /\ moved' = moved
            /\ failed' = [failed EXCEPT ![x[1]] = @ + 1]
  <2>1. \A r \in {"ok", "err"} : /\ <<x[1], x[2], r>> \in Evs
                                 /\ <<x[1], x[2], r>>[1] = x[1] /\ <<x[1], x[2], r>>[2] = x[2]
    BY <1>x DEF Evs
  <2>2. CASE /\ events' = events \cup {<<x[1], x[2], "ok">>}
             /\ moved' = [moved EXCEPT ![x[1]] = @ \cup {x[2]}]
             /\ failed' = failed
    BY <2>1, <2>2
  <2>3. CASE /\ events' = events \cup {<<x[1], x[2], "err">>}
             /\ moved' = moved
             /\ failed' = [failed EXCEPT ![x[1]] = @ + 1]
    BY <2>1, <2>3
  <2>. QED  BY <2>2, <2>3 DEF Complete
<1>2. /\ inflight' = inflight \ {x}
      /\ UNCHANGED <<pc, cur, want, active, finished, built, iocbs, free, num_global_pending,
                     num_pending, started_ios, issued, stonewalled>>
  BY DEF Complete, control, lists, units, opers
<1>3. /\ moved' \in [Opers -> SUBSET Nat] /\ failed' \in [Opers -> Nat]
      /\ \A o \in Opers \ {x[1]} : moved'[o] = moved[o] /\ failed'[o] = failed[o]
      /\ \A o \in Opers : moved[o] \subseteq moved'[o] /\ failed[o] <= failed'[o]
      /\ x[2] \in moved'[x[1]] \/ failed'[x[1]] > 0
      /\ moved'[x[1]] \subseteq moved[x[1]] \cup {x[2]}
  <2>1. CASE /\ moved' = [moved EXCEPT ![x[1]] = @ \cup {x[2]}]
             /\ failed' = failed
    BY <1>x, <1>type, <2>1
  <2>2. CASE /\ moved' = moved
             /\ failed' = [failed EXCEPT ![x[1]] = @ + 1]
    BY <1>x, <1>type, <2>2
  <2>. QED  BY <1>1, <2>1, <2>2
<1>4. TypeInv'
  <2>1. inflight' \subseteq Ios /\ IsFiniteSet(inflight')
    BY <1>2, <1>type, FS_RemoveElement
  <2>2. events' \subseteq Evs /\ IsFiniteSet(events')
    BY <1>1, <1>type, FS_AddElement
  <2>. QED  BY <1>2, <1>3, <1>inv, <2>1, <2>2 DEF TypeInv
<1>5. /\ InflightOf(t)' = InflightOf(t) \ {x} /\ EventsOf(t)' = EventsOf(t) \cup {e}
      /\ \A u \in Threads \ {t} : InflightOf(u)' = InflightOf(u) /\ EventsOf(u)' = EventsOf(u)
  BY <1>1, <1>2, <1>t DEF InflightOf, EventsOf
<1>6. Others(t)
  <2>1. \A u \in Threads \ {t} : \A o \in OpersOf(u) : o \in Opers \ {x[1]}
    BY <1>in, OpersFacts
  <2>. QED  BY <1>2, <1>3, <1>5, <2>1 DEF Others, SameData, SameLists, SameOpers, SameKernel,
              SameUnits, SamePlace
<1>new. e \notin events /\ NoEvent(t, x)
  <2>1. NoEvent(t, x)
    BY <1>in, <1>inv DEF IoInv
  <2>. QED  BY <1>1, <1>t, <2>1 DEF NoEvent, EventsOf
<1>same. Queued(t)' = Queued(t) /\ Ranges(t)' = Ranges(t)
         /\ \A o : QueuedOf(t, o)' = QueuedOf(t, o)
  BY <1>2 DEF Queued, QueuedOf, Ranges
<1>7. ListInv(t)'
  BY <1>2, <1>inv, <1>same DEF ListInv
<1>8. IoInv(t)'
  <2>1. ASSUME NEW y \in Queued(t) PROVE NoEvent(t, y)'
    <3>1. y \in Ios /\ y \notin InflightOf(t) /\ NoEvent(t, y)
      BY <1>inv DEF IoInv, Queued, ToSet, TypeInv
    <3>2. ~(e[1] = y[1] /\ e[2] = y[2])
      BY <1>1, <1>x, <1>in, <3>1 DEF Ios
    <3>. QED  BY <1>5, <3>1, <3>2 DEF NoEvent
  <2>2. ASSUME NEW y \in InflightOf(t), y # x PROVE NoEvent(t, y)'
    <3>1. y \in Ios /\ NoEvent(t, y)
      BY <1>inv, <1>type DEF IoInv, InflightOf
    <3>2. ~(e[1] = y[1] /\ e[2] = y[2])
      BY <1>1, <1>x, <2>2, <3>1 DEF Ios
    <3>. QED  BY <1>5, <3>1, <3>2 DEF NoEvent
  <2>3. e[1] \in OpersOf(t) /\ e[2] <= issued[e[1]]
    BY <1>1, <1>in, <1>inv DEF IoInv
  <2>. QED  BY <1>2, <1>5, <1>same, <1>inv, <2>1, <2>2, <2>3 DEF IoInv
<1>9. CountInv(t)'
  <2>1. /\ IsFiniteSet(InflightOf(t)) /\ IsFiniteSet(EventsOf(t))
        /\ Cardinality(InflightOf(t)) \in Nat /\ Cardinality(EventsOf(t)) \in Nat
    BY <1>inv, SlicesFinite
  <2>2. Cardinality(InflightOf(t)') = Cardinality(InflightOf(t)) - 1
    BY <1>5, <1>in, <2>1, FS_RemoveElement
  <2>3. Cardinality(EventsOf(t)') = Cardinality(EventsOf(t)) + 1
    <3>1. e \notin EventsOf(t)
      BY <1>new DEF EventsOf
    <3>. QED  BY <1>5, <2>1, <3>1, FS_AddElement
  <2>4. Outstanding(t)' = Outstanding(t)
    BY <2>1, <2>2, <2>3 DEF Outstanding
  <2>5. ASSUME NEW o \in OpersOf(t) PROVE num_pending[o] = OutstandingOf(o)'
    <3>0. /\ IsFiniteSet(InflightAt(o)) /\ IsFiniteSet(EventsAt(o))
          /\ Cardinality(InflightAt(o)) \in Nat /\ Cardinality(EventsAt(o)) \in Nat
      BY <1>inv, SlicesFinite
    <3>1. num_pending[o] = Cardinality(InflightAt(o)) + Cardinality(EventsAt(o))
      BY <1>inv, Slices DEF CountInv
    <3>2. OutstandingOf(o)' = Cardinality(InflightAt(o)') + Cardinality(EventsAt(o)')
      BY SlicesNext
    <3>3. CASE o = x[1]
      <4>1. InflightAt(o)' = InflightAt(o) \ {x} /\ EventsAt(o)' = EventsAt(o) \cup {e}
            /\ x \in InflightAt(o) /\ e \notin EventsAt(o)
        BY <1>1, <1>2, <1>new, <3>3 DEF InflightAt, EventsAt
      <4>2. Cardinality(InflightAt(o) \ {x}) = Cardinality(InflightAt(o)) - 1
        BY <3>0, <4>1, FS_RemoveElement
      <4>3. Cardinality(EventsAt(o) \cup {e}) = Cardinality(EventsAt(o)) + 1
        BY <3>0, <4>1, FS_AddElement
      <4>. QED  BY <3>0, <3>1, <3>2, <4>1, <4>2, <4>3
    <3>4. CASE o # x[1]
      <4>1. InflightAt(o)' = InflightAt(o) /\ EventsAt(o)' = EventsAt(o)
        BY <1>1, <1>2, <3>4 DEF InflightAt, EventsAt
      <4>. QED  BY <3>1, <3>2, <4>1
    <3>. QED  BY <3>3, <3>4
  <2>. QED  BY <1>2, <1>inv, <2>4, <2>5 DEF CountInv
<1>10. SentInv(t)'
  <2> SUFFICES ASSUME NEW o \in OpersOf(t)
               PROVE  /\ \A k \in 1..issued[o] : Somewhere(t, o, k)'
                      /\ moved'[o] \subseteq 1..issued[o]
    BY <1>2, <1>inv, <1>same DEF SentInv
  <2>o. o \in Opers /\ issued[o] \in Nat /\ failed[o] \in Nat /\ failed'[o] \in Nat
    BY <1>type, <1>3, OpersFacts
  <2>0. /\ \A k \in 1..issued[o] : Somewhere(t, o, k)
        /\ moved[o] \subseteq 1..issued[o]
    BY <1>inv DEF SentInv
  <2>1. ASSUME NEW k \in 1..issued[o] PROVE Somewhere(t, o, k)'
    <3>1. Somewhere(t, o, k)
      BY <2>0
    <3>2. CASE <<o, k>> = x
      BY <1>3, <3>2 DEF Somewhere
    <3>3. CASE <<o, k>> # x
      <4>1. failed[o] > 0 => failed'[o] > 0
        BY <1>3, <2>o
      <4>. QED  BY <1>3, <1>5, <1>same, <2>o, <3>1, <3>3, <4>1 DEF Somewhere
    <3>. QED  BY <3>2, <3>3
  <2>2. moved'[o] \subseteq 1..issued[o]
    <3>1. CASE o = x[1]
      <4>1. x[2] \in 1..issued[o]
        BY <1>in, <1>inv, <1>x, <2>o, <3>1 DEF IoInv
      <4>. QED  BY <1>3, <2>0, <3>1, <4>1
    <3>2. CASE o # x[1]
      BY <1>3, <2>0, <2>o, <3>2
    <3>. QED  BY <3>1, <3>2
  <2>. QED  BY <2>1, <2>2
<1>11. PlaceInv(t)'
  <2>1. SameLists(t) /\ SameOpers(t) /\ SameUnits(t) /\ SamePlace(t)
    BY <1>2 DEF SameLists, SameOpers, SameUnits, SamePlace
  <2>. QED  BY <1>inv, <2>1, PlaceFrame
<1>. QED  BY <1>4, <1>6, <1>7, <1>8, <1>9, <1>10, <1>11, OwnStep DEF DataInv

-----------------------------------------------------------------------------
(* Restarting an operation in the next stage. *)

LEMMA RestartStep ==
  ASSUME IInv, NEW t \in Threads, RestartOper(t)
  PROVE  IInv'
<1>type. /\ pc \in [Threads -> PCs] /\ cur \in [Threads -> Nat] /\ want \in [Threads -> Nat]
         /\ active \in [Threads -> Seq(Opers)] /\ finished \in [Threads -> Seq(Opers)]
         /\ active[t] \in Seq(Opers) /\ finished[t] \in Seq(Opers)
         /\ Len(finished[t]) \in Nat /\ cur[t] \in Nat
         /\ started_ios \in [Opers -> Nat] /\ issued \in [Opers -> Nat]
         /\ stonewalled \in [Opers -> {0, 1}] /\ moved \in [Opers -> SUBSET Nat]
  <2>1. TypeInv
    BY DEF IInv
  <2>. QED  BY <2>1 DEF TypeInv
<1>inv. ListInv(t) /\ IoInv(t) /\ CountInv(t) /\ SentInv(t)
        /\ CurInv(t) /\ FitInv(t) /\ BuildInv(t) /\ WaitInv(t) /\ TypeInv
  BY DEF IInv, DataInv, PlaceInv
<1>o. PICK o : o = finished[t][cur[t]]
  OBVIOUS
<1>0. pc[t] = "restart" /\ RestartOrSkip(t, o)
      /\ UNCHANGED <<built, want, iocbs, free, num_global_pending, num_pending,
                     inflight, events, failed>>
  BY <1>o DEF RestartOper, units
<1>1. /\ cur[t] \in 1..Len(finished[t])
      /\ \A p \in ToSet(finished[t]) : num_pending[p] = 0
      /\ iocbs[t] = <<>> /\ built[t] = <<>> /\ want[t] = 0
      /\ {p \in OpersOf(t) : total_ios(p) > 0} \subseteq Ranges(t)
  BY <1>0, <1>inv DEF CurInv, WaitInv, FitInv, Building, Holding
<1>2. o \in ToSet(finished[t]) /\ o \in Opers /\ o \in OpersOf(t) /\ o \notin ToSet(active[t])
  BY <1>o, <1>1, <1>type, <1>inv, Listed DEF ListInv, Ranges
<1>3. ASSUME \E q \in {"end", "restart"} : pc' = [pc EXCEPT ![t] = q],
             UNCHANGED <<started_ios, issued, moved, stonewalled, active, finished>>,
             \/ pc'[t] = "end" /\ cur' = [cur EXCEPT ![t] = 0]
             \/ cur[t] # Len(finished[t]) /\ cur' = [cur EXCEPT ![t] = @ + 1]
      PROVE  IInv'
  <2>0. UNCHANGED dataVars /\ pc'[t] \in {"end", "restart"}
    BY <1>0, <1>3, <1>type DEF dataVars
  <2>1. Moves(t)
    <3>1. pc' \in [Threads -> PCs] /\ \A u \in Threads \ {t} : pc'[u] = pc[u]
      BY <1>3, <1>type DEF PCs
    <3>2. cur' \in [Threads -> Nat] /\ \A u \in Threads \ {t} : cur'[u] = cur[u]
      <4>1. CASE cur' = [cur EXCEPT ![t] = 0]
        BY <1>type, <4>1
      <4>2. CASE cur' = [cur EXCEPT ![t] = @ + 1]
        BY <1>type, <4>2
      <4>. QED  BY <1>3, <4>1, <4>2
    <3>. QED  BY <1>0, <2>0, <3>1, <3>2, <1>type DEF Moves, SamePlace
  <2>2. pc'[t] = "restart" => cur'[t] \in 1..Len(finished[t])
    BY <1>1, <1>3, <1>type
  <2>3. /\ Queued(t)' = {} /\ Len(iocbs'[t]) = 0 /\ iocbs'[t] = <<>> /\ built'[t] = <<>>
        /\ want'[t] = 0 /\ Ranges(t)' = Ranges(t) /\ finished' = finished
        /\ num_pending' = num_pending
    BY <1>0, <1>1, <1>3, OnceEmpty DEF Queued, Ranges
  <2>4. CurInv(t)' /\ FitInv(t)' /\ BuildInv(t)' /\ WaitInv(t)'
    BY <1>1, <2>0, <2>2, <2>3, Config DEF CurInv, FitInv, BuildInv, WaitInv, Building, Holding
  <2>. QED  BY <2>1, <2>4, MoveStep DEF PlaceInv
<1>4. ASSUME started_ios' = [started_ios EXCEPT ![o] = 0],
             issued' = [issued EXCEPT ![o] = 0],
             moved' = [moved EXCEPT ![o] = {}],
             stonewalled' = [stonewalled EXCEPT ![o] = 0],
             finished' = [finished EXCEPT ![t] = RemoveAt(@, cur[t])],
             active' = [active EXCEPT ![t] = Append(@, o)],
             cur' = [cur EXCEPT ![t] = IF finished'[t] = <<>> THEN 0 ELSE 1],
             pc' = [pc EXCEPT ![t] = IF finished'[t] = <<>> THEN "end" ELSE "restart"]
      PROVE  IInv'
  <2>1. /\ RemoveAt(finished[t], cur[t]) \in Seq(Opers) /\ Once(RemoveAt(finished[t], cur[t]))
        /\ ToSet(RemoveAt(finished[t], cur[t])) = ToSet(finished[t]) \ {o}
    BY <1>o, <1>1, <1>type, <1>inv, OnceRemove DEF ListInv
  <2>2. /\ Append(active[t], o) \in Seq(Opers) /\ Once(Append(active[t], o))
        /\ ToSet(Append(active[t], o)) = ToSet(active[t]) \cup {o}
    BY <1>2, <1>type, <1>inv, OnceAppend DEF ListInv
  <2>3. /\ finished'[t] = RemoveAt(finished[t], cur[t]) /\ active'[t] = Append(active[t], o)
        /\ finished' \in [Threads -> Seq(Opers)] /\ active' \in [Threads -> Seq(Opers)]
        /\ \A u \in Threads \ {t} : finished'[u] = finished[u] /\ active'[u] = active[u]
    BY <1>4, <2>1, <2>2, <1>type
  <2>4. /\ started_ios' \in [Opers -> Nat] /\ issued' \in [Opers -> Nat]
        /\ stonewalled' \in [Opers -> {0, 1}] /\ moved' \in [Opers -> SUBSET Nat]
        /\ started_ios'[o] = 0 /\ issued'[o] = 0 /\ moved'[o] = {}
        /\ \A p \in Opers \ {o} : /\ started_ios'[p] = started_ios[p] /\ issued'[p] = issued[p]
                                  /\ moved'[p] = moved[p] /\ stonewalled'[p] = stonewalled[p]
    BY <1>4, <1>2, <1>type
  <2>5. /\ cur' \in [Threads -> Nat] /\ pc' \in [Threads -> PCs]
        /\ \A u \in Threads \ {t} : cur'[u] = cur[u] /\ pc'[u] = pc[u]
        /\ \/ finished'[t] = <<>> /\ cur'[t] = 0 /\ pc'[t] = "end"
           \/ finished'[t] # <<>> /\ cur'[t] = 1 /\ pc'[t] = "restart"
    <3>1. CASE finished'[t] = <<>>
      <4>1. cur' = [cur EXCEPT ![t] = 0] /\ pc' = [pc EXCEPT ![t] = "end"]
        BY <1>4, <3>1
      <4>. QED  BY <3>1, <4>1, <1>type DEF PCs
    <3>2. CASE finished'[t] # <<>>
      <4>1. cur' = [cur EXCEPT ![t] = 1] /\ pc' = [pc EXCEPT ![t] = "restart"]
        BY <1>4, <3>2
      <4>. QED  BY <3>2, <4>1, <1>type DEF PCs
    <3>. QED  BY <3>1, <3>2
  <2>6. TypeInv'
    BY <1>0, <1>inv, <2>3, <2>4, <2>5 DEF TypeInv
  <2>k. /\ InflightOf(t)' = InflightOf(t) /\ EventsOf(t)' = EventsOf(t)
        /\ \A u : InflightOf(u)' = InflightOf(u) /\ EventsOf(u)' = EventsOf(u)
        /\ Queued(t)' = Queued(t) /\ Queued(t) = {} /\ Len(iocbs'[t]) = 0
        /\ iocbs'[t] = <<>> /\ built'[t] = <<>> /\ want'[t] = 0 /\ ToSet(built'[t]) = {}
        /\ Outstanding(t)' = Outstanding(t)
        /\ \A p : OutstandingOf(p)' = OutstandingOf(p)
        /\ \A y : NoEvent(t, y)' <=> NoEvent(t, y)
    BY <1>0, <1>1, OnceEmpty DEF InflightOf, EventsOf, Queued, Outstanding, OutstandingOf, NoEvent
  <2>7. Others(t)
    <3>1. \A u \in Threads \ {t} : \A p \in OpersOf(u) : p \in Opers \ {o}
      BY <1>2, OpersFacts
    <3>. QED  BY <1>0, <2>3, <2>4, <2>5, <2>k, <3>1 DEF Others, SameData, SameLists, SameOpers,
                SameKernel, SameUnits, SamePlace
  <2>8. ListInv(t)' /\ Ranges(t)' = Ranges(t)
    <3>1. ToSet(built[t]) = {}
      BY <1>1, OnceEmpty
    <3>. QED  BY <1>0, <1>1, <1>2, <1>inv, <2>1, <2>2, <2>3, <2>k, <3>1 DEF ListInv, Ranges
  <2>none. \A x \in InflightOf(t) \cup EventsOf(t) : x[1] # o
    <3>1. /\ IsFiniteSet(InflightAt(o)) /\ IsFiniteSet(EventsAt(o))
          /\ Cardinality(InflightAt(o)) \in Nat /\ Cardinality(EventsAt(o)) \in Nat
      BY <1>inv, SlicesFinite
    <3>2. Cardinality(InflightAt(o)) + Cardinality(EventsAt(o)) = 0
      BY <1>1, <1>2, <1>inv, Slices DEF CountInv
    <3>3. Cardinality(InflightAt(o)) = 0 /\ Cardinality(EventsAt(o)) = 0
      BY <3>1, <3>2
    <3>4. InflightAt(o) = {} /\ EventsAt(o) = {}
      BY <3>1, <3>3, FS_EmptySet
    <3>. QED  BY <3>4 DEF InflightAt, EventsAt, InflightOf, EventsOf
  <2>9. IoInv(t)'
    <3>1. Once(iocbs'[t])
      BY <2>k, OnceEmpty
    <3>2. \A x \in InflightOf(t) \cup EventsOf(t) : issued'[x[1]] = issued[x[1]]
      <4> SUFFICES ASSUME NEW x \in InflightOf(t) \cup EventsOf(t)
                   PROVE  issued'[x[1]] = issued[x[1]]
        OBVIOUS
      <4>1. x[1] \in OpersOf(t)
        BY <1>inv DEF IoInv
      <4>2. x[1] \in Opers \ {o}
        BY <4>1, <2>none, OpersFacts
      <4>. QED  BY <4>2, <2>4
    <3>. QED  BY <1>inv, <2>k, <3>1, <3>2 DEF IoInv
  <2>10. CountInv(t)'
    BY <1>0, <1>inv, <2>k DEF CountInv
  <2>11. SentInv(t)'
    <3> SUFFICES ASSUME NEW p \in OpersOf(t)
                 PROVE  /\ issued'[p] = started_ios'[p] + Cardinality(QueuedOf(t, p)')
                        /\ \A k \in 1..issued'[p] : Somewhere(t, p, k)'
                        /\ moved'[p] \subseteq 1..issued'[p]
                        /\ total_ios(p) > 0 => issued'[p] <= total_ios(p)
                        /\ p \in ToSet(active'[t]) /\ total_ios(p) > 0
                             => started_ios'[p] < total_ios(p)
                        /\ p \in ToSet(finished'[t])
                             => stonewalled'[p] = 1 \/ started_ios'[p] = total_ios(p)
      BY DEF SentInv
    <3>0. QueuedOf(t, p)' = QueuedOf(t, p) /\ QueuedOf(t, p) = {} /\ Cardinality({}) = 0
      BY <2>k, FS_EmptySet DEF QueuedOf
    <3>p. p \in Opers /\ total_ios(p) \in Int
      BY OpersFacts, TotalType
    <3>1. CASE p = o
      <4>1. p \notin ToSet(finished'[t])
        BY <2>1, <2>3, <3>1
      <4>2. issued'[p] = 0 /\ started_ios'[p] = 0 /\ moved'[p] = {}
        BY <2>4, <3>1
      <4>. QED  BY <3>0, <3>p, <4>1, <4>2
    <3>2. CASE p # o
      <4>1. /\ started_ios'[p] = started_ios[p] /\ issued'[p] = issued[p]
            /\ moved'[p] = moved[p] /\ stonewalled'[p] = stonewalled[p]
        BY <2>4, <3>p, <3>2
      <4>2. \A k : Somewhere(t, p, k)' <=> Somewhere(t, p, k)
        BY <1>0, <2>k, <4>1 DEF Somewhere
      <4>3. /\ p \in ToSet(active'[t]) => p \in ToSet(active[t])
            /\ p \in ToSet(finished'[t]) => p \in ToSet(finished[t])
        BY <2>1, <2>2, <2>3, <3>2
      <4>. QED  BY <1>inv, <3>0, <4>1, <4>2, <4>3 DEF SentInv
    <3>. QED  BY <3>1, <3>2
  <2>12. CurInv(t)'
    <3>1. finished'[t] # <<>> => 1 \in 1..Len(finished'[t])
      BY <2>1, <2>3
    <3>. QED  BY <2>5, <3>1 DEF CurInv
  <2>13. FitInv(t)' /\ BuildInv(t)'
    BY <2>5, <2>k, Config DEF FitInv, BuildInv, Building, Holding
  <2>14. WaitInv(t)'
    BY <1>0, <1>1, <2>1, <2>3, <2>5, <2>8 DEF WaitInv
  <2>. QED  BY <2>6, <2>7, <2>8, <2>9, <2>10, <2>11, <2>12, <2>13, <2>14, OwnStep
            DEF DataInv, PlaceInv
<1>5. CASE ~CanRestart(o)
  <2>1. LastFinished(t) \/ cur[t] # Len(finished[t])
    BY DEF LastFinished
  <2>2. /\ \E q \in {"end", "restart"} : pc' = [pc EXCEPT ![t] = q]
        /\ UNCHANGED <<started_ios, issued, moved, stonewalled, active, finished>>
        /\ \/ pc'[t] = "end" /\ cur' = [cur EXCEPT ![t] = 0]
           \/ cur[t] # Len(finished[t]) /\ cur' = [cur EXCEPT ![t] = @ + 1]
    BY <1>0, <1>5, <1>type, <2>1 DEF RestartOrSkip, Goto, LastFinished
  <2>. QED  BY <1>3, <2>2
<1>6. CASE CanRestart(o)
  BY <1>0, <1>4, <1>6 DEF RestartOrSkip, Goto
<1>. QED  BY <1>5, <1>6

-----------------------------------------------------------------------------
(* The invariant. *)

LEMMA NextHolds == IInv /\ [Next]_vars => IInv'
<1> SUFFICES ASSUME IInv, [Next]_vars PROVE IInv'
  OBVIOUS
<1>1. CASE UNCHANGED vars
  BY <1>1, StutterStep
<1>2. ASSUME NEW x \in inflight, Complete(x) PROVE IInv'
  BY <1>2, CompleteStep
<1>3. ASSUME NEW t \in Threads, SubmitFails(t) \/ SpuriousWake(t) PROVE IInv'
  BY <1>3, StutterStep
<1>4. ASSUME NEW t \in Threads, Barrier(t) \/ Again(t) \/ FreeOper(t) PROVE IInv'
  BY <1>4, BarrierStep, FreeStep
<1>5. ASSUME NEW t \in Threads, Stage(t) PROVE IInv'
  <2>1. CASE Cutoff(t) \/ RunActiveList(t) \/ LeaveLoop(t)
    BY <2>1, CutoffStep, LoopStep
  <2>2. CASE PickOper(t) \/ BuildIocb(t) \/ FindIouWaits(t)
    BY <2>2, PickStep, BuildStep, ReapSteps
  <2>3. CASE OperBuilt(t) \/ NothingBuilt(t)
    BY <2>3, OperBuiltStep, NothingBuiltStep
  <2>4. CASE Submit(t) \/ SubmitAgain(t) \/ ReapAndResubmit(t)
    BY <2>4, SubmitStep, AgainStep, ReapSteps
  <2>5. CASE SortBuilt(t) \/ Sorted(t)
    BY <2>5, SortStep, BarrierStep
  <2>6. CASE WaitOneEvent(t) \/ RestartOper(t)
    BY <2>6, ReapSteps, RestartStep
  <2>7. CASE WaitNextOper(t)
    <3>1. pc[t] = "wait"
      BY <2>7 DEF WaitNextOper
    <3>. QED  BY <2>7, <3>1, BarrierStep, WaitedStep
  <2>. QED  BY <1>5, <2>1, <2>2, <2>3, <2>4, <2>5, <2>6, <2>7 DEF Stage
<1>. QED  BY <1>1, <1>2, <1>3, <1>4, <1>5 DEF Next, Worker

LEMMA Inductive == Spec => []IInv
<1>1. Init => IInv
  BY InitHolds
<1>2. IInv /\ [Next]_vars => IInv'
  BY NextHolds
<1>. QED  BY <1>1, <1>2, PTL DEF Spec

-----------------------------------------------------------------------------
(* The theorems. *)

\* Every io unit is free, built or with the kernel, the pending counters are
\* those of the kernel, and the iocbs array is never overrun: through partial
\* submissions, EAGAIN and completions in any order.
THEOREM BookkeepingRight == Spec => []Bookkeeping
<1>1. IInv => Bookkeeping
  <2> SUFFICES ASSUME IInv PROVE Bookkeeping
    OBVIOUS
  <2>1. UnitsConserved
    BY DEF IInv, DataInv, CountInv, UnitsConserved
  <2>2. CountersMatchKernel
    <3>1. ASSUME NEW o \in Opers PROVE num_pending[o] = OutstandingOf(o)
      <4>1. ThreadOf(o) \in Threads /\ o \in OpersOf(ThreadOf(o))
        BY OpersFacts
      <4>. QED  BY <4>1 DEF IInv, DataInv, CountInv
    <3>. QED  BY <3>1 DEF IInv, DataInv, CountInv, CountersMatchKernel
  <2>3. IocbsFit
    BY DEF IInv, PlaceInv, FitInv, IocbsFit
  <2>. QED  BY <2>1, <2>2, <2>3 DEF Bookkeeping
<1>. QED  BY <1>1, Inductive, PTL

\* find_iou always gets a unit, and run_built never reaps with nothing pending:
\* the units a thread lacks are not all in ios it has built and not submitted.
THEOREM UnitsSuffice == Spec => []NeverStarved
<1>1. IInv => NeverStarved
  <2> SUFFICES ASSUME IInv, NEW t \in Threads
               PROVE  /\ pc[t] = "build" /\ want[t] > 0 /\ free[t] = 0
                           => num_global_pending[t] > 0
                      /\ pc[t] = "reap" => num_global_pending[t] > 0
    BY DEF NeverStarved
  <2>inv. TypeInv /\ ListInv(t) /\ CountInv(t) /\ CurInv(t) /\ FitInv(t)
    BY DEF IInv, DataInv, PlaceInv
  <2>1. pc[t] = "reap" => num_global_pending[t] > 0
    BY <2>inv DEF FitInv
  <2>2. ASSUME pc[t] = "build", want[t] > 0, free[t] = 0 PROVE num_global_pending[t] > 0
    <3> DEFINE c == Cardinality(OpersOf(t))
    <3>1. /\ Len(iocbs[t]) + want[t] <= (Len(built[t]) + 1) * io_iter
          /\ free[t] + Len(iocbs[t]) + Outstanding(t) = c * OptDepth
          /\ num_global_pending[t] = Outstanding(t)
      BY <2>inv, <2>2 DEF FitInv, CountInv, num_global_ios
    <3>2. /\ built[t] \in Seq(Opers) /\ Len(built[t]) \in Nat /\ Len(iocbs[t]) \in Nat
          /\ want[t] \in Nat /\ Outstanding(t) \in Nat /\ OptDepth \in Nat
      <4>1. /\ built[t] \in Seq(Opers) /\ Len(built[t]) \in Nat /\ Len(iocbs[t]) \in Nat
            /\ want[t] \in Nat
        BY <2>inv DEF TypeInv
      <4>2. Outstanding(t) \in Nat
        BY <2>inv, SlicesFinite DEF Outstanding
      <4>. QED  BY <4>1, <4>2, OptionAssumption
    <3>3. Len(built[t]) + 1 <= c /\ c \in Nat
      <4>1. IsFiniteSet(ToSet(built[t])) /\ Cardinality(ToSet(built[t])) = Len(built[t])
        BY <2>inv, <3>2, OnceLen DEF ListInv
      <4>2. Current(t) \in OpersOf(t) /\ Current(t) \notin ToSet(built[t])
        BY <2>inv, <2>2, CurrentFacts
      <4>3. ToSet(built[t]) \cup {Current(t)} \subseteq OpersOf(t)
        BY <2>inv, <4>2 DEF ListInv, Ranges
      <4>4. Cardinality(ToSet(built[t]) \cup {Current(t)}) = Len(built[t]) + 1
        BY <4>1, <4>2, FS_AddElement
      <4>5. IsFiniteSet(OpersOf(t)) /\ c \in Nat
        BY OpersFacts
      <4>. QED  BY <4>3, <4>4, <4>5, FS_Subset
    <3> HIDE DEF c
    <3>4. /\ (Len(built[t]) + 1) * io_iter \in Nat
          /\ (Len(built[t]) + 1) * io_iter <= c * OptDepth /\ c * OptDepth \in Nat
      <4>1. Len(built[t]) + 1 \in Nat /\ io_iter \in Nat /\ io_iter <= OptDepth
        BY <3>2, Config
      <4> DEFINE m == Len(built[t]) + 1
      <4>2. m \in Nat /\ m <= c
        BY <3>3, <4>1
      <4> HIDE DEF m
      <4>3. m * io_iter \in Nat /\ m * io_iter <= c * OptDepth
        BY <3>2, <3>3, <4>1, <4>2, Product
      <4>4. c * OptDepth \in Nat
        BY <3>2, <3>3
      <4>. QED  BY <4>3, <4>4 DEF m
    <3>. QED  BY <2>2, <3>1, <3>2, <3>4
  <2>. QED  BY <2>1, <2>2
<1>. QED  BY <1>1, Inductive, PTL

\* No operation with io to do is ever on no list of its thread, and none is on
\* two lists or twice on one, until the thread frees them.
THEOREM ListsRight == Spec => []OpersAccounted
<1>1. IInv => OpersAccounted
  <2> SUFFICES ASSUME IInv, NEW t \in Threads, pc[t] \notin {"free", "exit"}
               PROVE  /\ {o \in OpersOf(t) : total_ios(o) > 0} \subseteq Ranges(t)
                      /\ Len(active[t]) + Len(finished[t]) + Len(built[t])
                           = Cardinality(Ranges(t))
    BY DEF OpersAccounted
  <2>inv. TypeInv /\ ListInv(t) /\ WaitInv(t)
    BY DEF IInv, DataInv, PlaceInv
  <2>1. {o \in OpersOf(t) : total_ios(o) > 0} \subseteq Ranges(t)
    BY <2>inv DEF WaitInv
  <2> DEFINE A == ToSet(active[t])  F == ToSet(finished[t])  B == ToSet(built[t])
  <2>2. /\ IsFiniteSet(A) /\ Cardinality(A) = Len(active[t])
        /\ IsFiniteSet(F) /\ Cardinality(F) = Len(finished[t])
        /\ IsFiniteSet(B) /\ Cardinality(B) = Len(built[t])
    BY <2>inv, OnceLen DEF TypeInv, ListInv
  <2>3. A \cap F = {} /\ (A \cup F) \cap B = {}
    BY <2>inv DEF ListInv
  <2>4. Ranges(t) = (A \cup F) \cup B
    BY DEF Ranges
  <2> HIDE DEF A, F, B
  <2>5. IsFiniteSet(A \cup F) /\ Cardinality(A \cup F) = Cardinality(A) + Cardinality(F)
    BY <2>2, <2>3, CountBoth
  <2>6. Cardinality((A \cup F) \cup B) = Cardinality(A \cup F) + Cardinality(B)
    BY <2>2, <2>3, <2>5, CountBoth
  <2>. QED  BY <2>1, <2>2, <2>4, <2>5, <2>6
<1>. QED  BY <1>1, Inductive, PTL

\* When worker() offers its operations a restart nothing of them is in flight,
\* an operation that was not cut off has started all its ios, and one without
\* a failed io had every record it started transferred.
THEOREM StagesComplete == Spec => []StageComplete
<1>1. IInv => StageComplete
  <2> SUFFICES ASSUME IInv, NEW t \in Threads, pc[t] = "restart", NEW o \in ToSet(finished[t])
               PROVE  /\ num_pending[o] = 0
                      /\ stonewalled[o] = 0 => started_ios[o] = total_ios(o)
                      /\ failed[o] = 0 => moved[o] = 1..started_ios[o]
    BY DEF StageComplete
  <2>inv. TypeInv /\ ListInv(t) /\ CountInv(t) /\ SentInv(t) /\ FitInv(t) /\ WaitInv(t)
    BY DEF IInv, DataInv, PlaceInv
  <2>1. o \in OpersOf(t) /\ num_pending[o] = 0
    BY <2>inv DEF ListInv, Ranges, WaitInv
  <2>2. stonewalled[o] = 0 => started_ios[o] = total_ios(o)
    BY <2>inv, <2>1 DEF SentInv
  <2>3. Queued(t) = {} /\ QueuedOf(t, o) = {}
    BY <2>inv, OnceEmpty DEF FitInv, Building, Queued, QueuedOf
  <2>4. started_ios[o] \in Nat /\ issued[o] = started_ios[o]
    <3>1. started_ios[o] \in Nat
      BY <2>inv, <2>1, OpersFacts DEF TypeInv
    <3>2. issued[o] = started_ios[o] + Cardinality(QueuedOf(t, o))
      BY <2>inv, <2>1 DEF SentInv
    <3>3. Cardinality(QueuedOf(t, o)) = 0
      BY <2>3, FS_EmptySet
    <3>. QED  BY <3>1, <3>2, <3>3
  <2>5. \A x \in InflightOf(t) : x[1] # o
    <3>1. /\ IsFiniteSet(InflightAt(o))
          /\ Cardinality(InflightAt(o)) \in Nat /\ Cardinality(EventsAt(o)) \in Nat
      BY <2>inv, SlicesFinite
    <3>2. Cardinality(InflightAt(o)) + Cardinality(EventsAt(o)) = 0
      BY <2>1, <2>inv, Slices DEF CountInv
    <3>3. Cardinality(InflightAt(o)) = 0
      BY <3>1, <3>2
    <3>4. InflightAt(o) = {}
      BY <3>1, <3>3, FS_EmptySet
    <3>. QED  BY <3>4 DEF InflightAt, InflightOf
  <2>6. ASSUME failed[o] = 0 PROVE moved[o] = 1..started_ios[o]
    <3>1. ASSUME NEW k \in 1..started_ios[o] PROVE k \in moved[o]
      <4>1. Somewhere(t, o, k)
        BY <2>inv, <2>1, <2>4 DEF SentInv
      <4>2. <<o, k>>[1] = o
        OBVIOUS
      <4>3. <<o, k>> \notin InflightOf(t) /\ <<o, k>> \notin Queued(t)
        BY <2>3, <2>5, <4>2
      <4>. QED  BY <2>6, <4>1, <4>3 DEF Somewhere
    <3>2. moved[o] \subseteq 1..started_ios[o]
      BY <2>inv, <2>1, <2>4 DEF SentInv
    <3>. QED  BY <3>1, <3>2
  <2>. QED  BY <2>1, <2>2, <2>6
<1>. QED  BY <1>1, Inductive, PTL
-----------------------------------------------------------------------------
(* The stages.  A second layer of the invariant, on top of IInv, says how far *)
(* each operation of a thread has come through the stages, compared with the *)
(* number of stages the thread has begun (`round').                        *)

\* Places inside run_active_list and its loop; past the waits of a stage; at
\* the barrier before the next one.
Inner    == {"loop"} \cup Holding
InStage  == {"begin", "wait"} \cup Inner
Leaving  == {"end", "endwait", "again"}
Entering == {"start", "startwait"}

Earlier(s) == {r \in stages : r < s}
Rank(s) == Cardinality(Earlier(s))

StageType ==
  /\ rw \in [Opers -> stages] /\ last_err \in [Opers -> {0, 1}]
  /\ round \in [Threads -> Nat] /\ cnt \in [Threads -> Nat]
  /\ submitted \in [Threads -> Nat] /\ stage_trans \in [Threads -> Nat]

\* An operation without error that is on a list is in the stage the thread is in.
Level(t, o) == last_err[o] = 0 => Rank(rw[o]) + 1 = round[t]

\* An operation that was restarted for the next stage.
Fresh(t, o) ==
  last_err[o] = 0 /\ Rank(rw[o]) = round[t] /\ issued[o] = 0

\* What is on the lists at each place.  With -I a thread that has used up its
\* iterations does not come back for the operations it leaves on its active list.
RankInv(t) ==
  /\ pc[t] \in InStage => \A o \in Ranges(t) : Level(t, o)
  /\ pc[t] \in {"restart"} \cup Leaving => \A o \in ToSet(finished[t]) : Level(t, o)
  /\ pc[t] = "wait" /\ MoreIterations(t) => active[t] = <<>>
  /\ pc[t] = "wait" /\ cur[t] = 0 => finished[t] = <<>>
  /\ pc[t] \in {"restart"} \cup Leaving /\ MoreIterations(t) =>
       \A o \in ToSet(active[t]) : Fresh(t, o)
  /\ pc[t] = "restart" => \A i \in 1..(cur[t] - 1) : ~CanRestart(finished[t][i])
  /\ pc[t] \in Leaving => \A o \in ToSet(finished[t]) : ~CanRestart(o)
  /\ pc[t] \in Entering => \A o \in ToSet(active[t]) : Fresh(t, o)
  /\ pc[t] = "begin" => \A o \in ToSet(active[t]) : issued[o] = 0
  /\ pc[t] \in Entering \cup {"begin"} =>
       active[t] # <<>> /\ \A o \in ToSet(finished[t]) : last_err[o] = 1

\* Only a finished operation can have been cut off, in the stage it is in when
\* somebody had ended that stage.
WallInv(t) ==
  /\ pc[t] \notin {"free", "exit"} =>
       \A o \in OpersOf(t) : stonewalled[o] = 1 => o \in ToSet(finished[t])
  /\ pc[t] \in InStage =>
       \A o \in ToSet(finished[t]) : stonewalled[o] = 1 /\ last_err[o] = 0 => threads_ending # 0

\* An operation without records has no io, and a thread that is through with a
\* stage has none with the kernel.
DrainInv(t) ==
  /\ \A o \in OpersOf(t) : total_ios(o) <= 0 => issued[o] = 0
  /\ pc[t] = "build" /\ total_ios(Current(t)) <= 0 => want[t] = 0
  /\ Iterations = RUN_FOREVER /\ pc[t] \notin Inner \cup {"wait"} =>
       InflightOf(t) = {} /\ EventsOf(t) = {}

\* The ios of the stage, and those of the operations still to be added up.
IssuedOf(S) == {x \in S \X (Nat \ {0}) : x[2] <= issued[x[1]]}
ToAdd(t) == {finished[t][i] : i \in cur[t]..Len(finished[t])}
Flawless(t) == \A o \in OpersOf(t) : last_err[o] = 0

TransInv(t) ==
  Flawless(t) =>
    /\ pc[t] \in Inner \cup {"wait"} =>
         /\ IsFiniteSet(IssuedOf(OpersOf(t)))
         /\ submitted[t] + Len(iocbs[t]) = Cardinality(IssuedOf(OpersOf(t)))
         /\ stage_trans[t] = 0
    /\ Iterations = RUN_FOREVER /\ pc[t] = "restart" =>
         /\ IsFiniteSet(IssuedOf(ToAdd(t)))
         /\ submitted[t] = stage_trans[t] + Cardinality(IssuedOf(ToAdd(t)))
    /\ Iterations = RUN_FOREVER /\ pc[t] = "end" => submitted[t] = stage_trans[t]

\* The rotation.  Of the operations that begin at the start of their file, the
\* ones before another in the rotation have issued no more than it, and at
\* most one chunk less.  The one being built counts with what it will have
\* built, and as the last.
Leads(o) == ContextOf(o) = 0
Issuing(t, o) == IF pc[t] = "build" /\ o = Current(t) THEN issued[o] + want[t] ELSE issued[o]
InTurn(t, o, p) ==
  Leads(o) /\ Leads(p) =>
    Issuing(t, o) <= Issuing(t, p) /\ Issuing(t, p) <= Issuing(t, o) + io_iter
Built(t, o) == pc[t] = "build" /\ o = Current(t)

Before(s, p, q) == \E i, j \in 1..Len(s) : i < j /\ s[i] = p /\ s[j] = q

TurnInv(t) ==
  pc[t] \in Inner =>
    /\ \A p, q \in OpersOf(t) :
         Before(active[t], p, q) /\ ~Built(t, p) /\ ~Built(t, q) => InTurn(t, p, q)
    /\ \A p, q \in OpersOf(t) : Before(built[t], p, q) => InTurn(t, p, q)
    /\ \A p \in ToSet(active[t]), q \in ToSet(built[t]) : ~Built(t, p) => InTurn(t, p, q)
    /\ pc[t] = "build" =>
         \A p \in ToSet(active[t]) \cup ToSet(built[t]) :
           p # Current(t) => InTurn(t, p, Current(t))
    /\ pc[t] \in {"pick", "build"} =>
         \A i \in 1..Len(active[t]) : i < cur[t] => ~Leads(active[t][i])


-----------------------------------------------------------------------------
(* The stages in their order. *)

LEMMA StageFacts ==
  /\ stages \subseteq 0..3 /\ stages \subseteq Int /\ stages # {} /\ IsFiniteSet(stages) /\ Cardinality(stages) \in Nat
  /\ first_stage \in stages /\ \A s \in stages : first_stage <= s
<1>1. stages \subseteq 0..3 /\ stages \subseteq Int /\ stages # {}
  BY OptionAssumption DEF stages, AllStages, WRITE, READ, RWRITE, RREAD
<1>2. IsFiniteSet(stages) /\ Cardinality(stages) \in Nat
  <2>1. IsFiniteSet(0..3)
    <3>1. 0 \in Int /\ 3 \in Int
      OBVIOUS
    <3>. QED  BY ONLY <3>1, FS_Interval
  <2>. QED  BY <1>1, <2>1, FS_Subset, FS_CardinalityType
<1>3. \E s \in stages : \A r \in stages : s <= r
  <2>1. CASE 0 \in stages
    BY <1>1, <2>1
  <2>2. CASE 0 \notin stages /\ 1 \in stages
    BY <1>1, <2>2
  <2>3. CASE 0 \notin stages /\ 1 \notin stages /\ 2 \in stages
    BY <1>1, <2>3
  <2>4. CASE 0 \notin stages /\ 1 \notin stages /\ 2 \notin stages
    <3>1. \A s \in stages : s = 3
      BY <1>1, <2>4
    <3>2. 3 \in stages
      BY <1>1, <3>1
    <3>. QED  BY <3>1, <3>2
  <2>. QED  BY <2>1, <2>2, <2>3, <2>4
<1>4. first_stage \in stages /\ \A s \in stages : first_stage <= s
  BY <1>3 DEF first_stage
<1>. QED  BY <1>1, <1>2, <1>4

LEMMA RankFacts ==
  ASSUME NEW s \in stages
  PROVE  /\ Rank(s) \in Nat /\ Rank(s) < Cardinality(stages)
         /\ \A r \in stages : Rank(r) < Rank(s) => r < s
         /\ s = first_stage => Rank(s) = 0
<1>1. \A r \in stages : /\ Earlier(r) \subseteq stages /\ IsFiniteSet(Earlier(r))
                        /\ Rank(r) \in Nat
  <2> SUFFICES ASSUME NEW r \in stages
               PROVE  /\ Earlier(r) \subseteq stages /\ IsFiniteSet(Earlier(r))
                      /\ Rank(r) \in Nat
    OBVIOUS
  <2>1. Earlier(r) \subseteq stages
    BY DEF Earlier
  <2>. QED  BY <2>1, StageFacts, FS_Subset, FS_CardinalityType DEF Rank
<1>2. Rank(s) < Cardinality(stages)
  <2>1. s \notin Earlier(s)
    BY StageFacts DEF Earlier
  <2>2. Earlier(s) # stages
    BY <2>1
  <2>. QED  BY <1>1, <2>2, StageFacts, FS_Subset DEF Rank
<1>3. ASSUME NEW r \in stages, Rank(r) < Rank(s) PROVE r < s
  <2>1. CASE r >= s
    <3>1. Earlier(s) \subseteq Earlier(r)
      <4>1. \A q \in stages : q \in Int
        BY StageFacts
      <4>. QED  BY <2>1, <4>1 DEF Earlier
    <3>2. Rank(s) <= Rank(r)
      BY <1>1, <3>1, FS_Subset DEF Rank
    <3>. QED  BY <1>1, <1>3, <3>2
  <2>. QED  BY <2>1, StageFacts
<1>4. s = first_stage => Rank(s) = 0
  <2>1. s = first_stage => Earlier(s) = {}
    <3>1. \A q \in stages : q \in Int /\ first_stage <= q
      BY StageFacts
    <3>. QED  BY <3>1 DEF Earlier
  <2>. QED  BY <2>1, FS_EmptySet DEF Rank
<1>. QED  BY <1>1, <1>2, <1>3, <1>4

\* The next stage is one rank higher.
LEMMA NextStageFacts ==
  ASSUME NEW s \in stages, LaterStages(s) # {}
  PROVE  NextStage(s) \in stages /\ Rank(NextStage(s)) = Rank(s) + 1
<1>1. LaterStages(s) \subseteq 0..3
  BY StageFacts DEF LaterStages
<1>2. \E q \in LaterStages(s) : \A r \in LaterStages(s) : q <= r
  <2>1. CASE 0 \in LaterStages(s)
    BY <1>1, <2>1
  <2>2. CASE 0 \notin LaterStages(s) /\ 1 \in LaterStages(s)
    BY <1>1, <2>2
  <2>3. CASE 0 \notin LaterStages(s) /\ 1 \notin LaterStages(s) /\ 2 \in LaterStages(s)
    BY <1>1, <2>3
  <2>4. CASE 0 \notin LaterStages(s) /\ 1 \notin LaterStages(s) /\ 2 \notin LaterStages(s)
    BY <1>1, <2>4
  <2>. QED  BY <2>1, <2>2, <2>3, <2>4
<1>3. NextStage(s) \in LaterStages(s) /\ \A r \in LaterStages(s) : NextStage(s) <= r
  BY <1>2 DEF NextStage
<1>4. NextStage(s) \in stages /\ NextStage(s) > s
  BY <1>3 DEF LaterStages
<1>5. Earlier(NextStage(s)) = Earlier(s) \cup {s}
  <2>1. \A q \in stages : q \in Int
    BY StageFacts
  <2>2. ASSUME NEW q \in stages PROVE q < NextStage(s) <=> q < s \/ q = s
    <3>1. q > s => NextStage(s) <= q
      BY <1>3 DEF LaterStages
    <3>. QED  BY <1>4, <2>1, <3>1
  <2>. QED  BY <2>2 DEF Earlier
<1>6. s \notin Earlier(s) /\ IsFiniteSet(Earlier(s))
  <2>1. Earlier(s) \subseteq stages /\ s \notin Earlier(s)
    BY StageFacts DEF Earlier
  <2>. QED  BY <2>1, StageFacts, FS_Subset
<1>7. Cardinality(Earlier(s) \cup {s}) = Cardinality(Earlier(s)) + 1
  BY <1>6, FS_AddElement
<1>. QED  BY <1>4, <1>5, <1>7 DEF Rank

-----------------------------------------------------------------------------
(* What the steps of the other threads leave alone. *)

SameStage(t) ==
  /\ SameLists(t) /\ SamePlace(t) /\ iocbs'[t] = iocbs[t]
  /\ cnt'[t] = cnt[t] /\ round'[t] = round[t]
  /\ submitted'[t] = submitted[t] /\ stage_trans'[t] = stage_trans[t]
  /\ InflightOf(t)' = InflightOf(t) /\ EventsOf(t)' = EventsOf(t)
  /\ \A o \in OpersOf(t) : /\ issued'[o] = issued[o] /\ stonewalled'[o] = stonewalled[o]
                           /\ rw'[o] = rw[o] /\ last_err'[o] = last_err[o]

\* Everything on the lists of a thread is its own.
LEMMA OwnOpers ==
  ASSUME NEW t \in Threads, TypeInv, ListInv(t)
  PROVE  /\ \A o \in Ranges(t) : o \in OpersOf(t) /\ o \in Opers
         /\ \A o \in ToSet(active[t]) : o \in Ranges(t)
         /\ \A o \in ToSet(finished[t]) : o \in Ranges(t)
         /\ \A o \in ToSet(built[t]) : o \in Ranges(t)
         /\ \A i \in 1..Len(active[t]) : active[t][i] \in ToSet(active[t])
         /\ \A i \in 1..Len(finished[t]) : finished[t][i] \in ToSet(finished[t])
         /\ \A i \in 1..Len(built[t]) : built[t][i] \in ToSet(built[t])
         /\ active[t] \in Seq(Opers) /\ finished[t] \in Seq(Opers) /\ built[t] \in Seq(Opers)
<1>1. active[t] \in Seq(Opers) /\ finished[t] \in Seq(Opers) /\ built[t] \in Seq(Opers)
  BY DEF TypeInv
<1>2. \A o \in Ranges(t) : o \in OpersOf(t) /\ o \in Opers
  BY OpersFacts DEF ListInv
<1>. QED  BY <1>1, <1>2, Listed DEF Ranges

LEMMA StageFrame ==
  ASSUME NEW t \in Threads, IInv, SameStage(t)
  PROVE  /\ RankInv(t) => RankInv(t)'
         /\ WallInv(t) /\ (pc[t] \in InStage /\ threads_ending # 0 => threads_ending' # 0)
              => WallInv(t)'
         /\ DrainInv(t) => DrainInv(t)'
         /\ TransInv(t) => TransInv(t)'
         /\ TurnInv(t) => TurnInv(t)'
<1>own. /\ \A o \in Ranges(t) : o \in OpersOf(t) /\ o \in Opers
        /\ \A o \in ToSet(active[t]) : o \in Ranges(t)
        /\ \A o \in ToSet(finished[t]) : o \in Ranges(t)
        /\ \A o \in ToSet(built[t]) : o \in Ranges(t)
        /\ \A i \in 1..Len(active[t]) : active[t][i] \in ToSet(active[t])
        /\ \A i \in 1..Len(finished[t]) : finished[t][i] \in ToSet(finished[t])
        /\ \A i \in 1..Len(built[t]) : built[t][i] \in ToSet(built[t])
  BY OwnOpers DEF IInv, DataInv
<1>1. /\ active'[t] = active[t] /\ finished'[t] = finished[t] /\ built'[t] = built[t]
      /\ pc'[t] = pc[t] /\ cur'[t] = cur[t] /\ want'[t] = want[t] /\ iocbs'[t] = iocbs[t]
      /\ cnt'[t] = cnt[t] /\ round'[t] = round[t]
      /\ submitted'[t] = submitted[t] /\ stage_trans'[t] = stage_trans[t]
      /\ InflightOf(t)' = InflightOf(t) /\ EventsOf(t)' = EventsOf(t)
      /\ \A o \in OpersOf(t) : /\ issued'[o] = issued[o] /\ stonewalled'[o] = stonewalled[o]
                               /\ rw'[o] = rw[o] /\ last_err'[o] = last_err[o]
  BY DEF SameStage, SameLists, SamePlace
<1>2. /\ Ranges(t)' = Ranges(t) /\ Current(t)' = Current(t)
      /\ MoreIterations(t)' = MoreIterations(t)
      /\ \A o \in OpersOf(t) : /\ Level(t, o)' = Level(t, o) /\ Fresh(t, o)' = Fresh(t, o)
                               /\ CanRestart(o)' = CanRestart(o)
      /\ Flawless(t)' = Flawless(t)
  BY <1>1 DEF Ranges, Current, MoreIterations, Level, Fresh, CanRestart, Flawless
<1>cur. pc[t] = "restart" => \A i \in 1..(cur[t] - 1) : finished[t][i] \in OpersOf(t)
  <2>1. cur[t] \in Nat /\ Len(finished[t]) \in Nat
    BY DEF IInv, TypeInv
  <2>2. pc[t] = "restart" => cur[t] \in 1..Len(finished[t])
    BY DEF IInv, PlaceInv, CurInv
  <2>3. pc[t] = "restart" => \A i \in 1..(cur[t] - 1) : i \in 1..Len(finished[t])
    BY <2>1, <2>2
  <2>. QED  BY <1>own, <2>3
<1>3. RankInv(t) => RankInv(t)'
  BY <1>1, <1>2, <1>own, <1>cur DEF RankInv
<1>4. WallInv(t) /\ (pc[t] \in InStage /\ threads_ending # 0 => threads_ending' # 0)
              => WallInv(t)'
  BY <1>1, <1>own DEF WallInv
<1>5. DrainInv(t) => DrainInv(t)'
  BY <1>1, <1>2 DEF DrainInv
<1>6. TransInv(t) => TransInv(t)'
  <2>1. ToAdd(t)' = ToAdd(t)
    BY <1>1 DEF ToAdd
  <2>2. IssuedOf(OpersOf(t))' = IssuedOf(OpersOf(t))
    BY <1>1 DEF IssuedOf
  <2>3. pc[t] = "restart" => IssuedOf(ToAdd(t))' = IssuedOf(ToAdd(t))
    <3> SUFFICES ASSUME pc[t] = "restart" PROVE IssuedOf(ToAdd(t))' = IssuedOf(ToAdd(t))
      OBVIOUS
    <3>1. cur[t] \in 1..Len(finished[t]) /\ Len(finished[t]) \in Nat
      BY DEF IInv, PlaceInv, CurInv, TypeInv
    <3>2. \A o \in ToAdd(t) : o \in OpersOf(t)
      BY <1>own, <3>1 DEF ToAdd
    <3>. QED  BY <1>1, <2>1, <3>2 DEF IssuedOf
  <2>. QED  BY <1>1, <1>2, <2>1, <2>2, <2>3 DEF TransInv
<1>7. TurnInv(t) => TurnInv(t)'
  <2>1. \A o : Built(t, o)' = Built(t, o)
    BY <1>1, <1>2 DEF Built
  <2>2. \A o \in OpersOf(t) : Issuing(t, o)' = Issuing(t, o)
    BY <1>1, <1>2 DEF Issuing
  <2>3. \A o, p \in OpersOf(t) : InTurn(t, o, p)' = InTurn(t, o, p)
    BY <2>2 DEF InTurn
  <2>4. pc[t] = "build" => Current(t) \in OpersOf(t)
    BY CurrentFacts DEF IInv, DataInv, PlaceInv
  <2>. QED  BY <1>1, <1>2, <1>own, <2>1, <2>3, <2>4 DEF TurnInv
<1>. QED  BY <1>3, <1>4, <1>5, <1>6, <1>7

\* A step of thread u as the other threads see it.
LEMMA OtherThreads ==
  ASSUME IInv, StageType, NEW u \in Threads, Worker(u) \/ SubmitFails(u) \/ SpuriousWake(u),
         NEW t \in Threads \ {u}
  PROVE  SameStage(t)
<1>type. /\ pc \in [Threads -> PCs] /\ cur \in [Threads -> Nat] /\ want \in [Threads -> Nat]
         /\ active \in [Threads -> Seq(Opers)] /\ finished \in [Threads -> Seq(Opers)]
         /\ built \in [Threads -> Seq(Opers)] /\ iocbs \in [Threads -> Seq(Ios)]
         /\ cnt \in [Threads -> Nat] /\ round \in [Threads -> Nat]
         /\ submitted \in [Threads -> Nat] /\ stage_trans \in [Threads -> Nat]
         /\ issued \in [Opers -> Nat] /\ stonewalled \in [Opers -> {0, 1}]
         /\ rw \in [Opers -> stages] /\ last_err \in [Opers -> {0, 1}]
  BY DEF IInv, TypeInv, StageType
<1>own. \A o \in OpersOf(t) : o \in Opers /\ o \notin OpersOf(u)
  BY OpersFacts
<1>u. TypeInv /\ ListInv(u) /\ CurInv(u) /\ IoInv(u)
  BY DEF IInv, DataInv, PlaceInv
<1>o. /\ \A o \in Ranges(u) : o \in OpersOf(u) /\ o \in Opers
      /\ \A i \in 1..Len(active[u]) : active[u][i] \in OpersOf(u)
      /\ \A i \in 1..Len(finished[u]) : finished[u][i] \in OpersOf(u)
  BY <1>u, OwnOpers
<1> DEFINE Stays ==
             /\ UNCHANGED <<inflight, events>>
             /\ \A o \in OpersOf(t) : /\ issued'[o] = issued[o] /\ stonewalled'[o] = stonewalled[o]
                                      /\ rw'[o] = rw[o] /\ last_err'[o] = last_err[o]
           Own ==
             /\ SameLists(t) /\ SamePlace(t) /\ iocbs'[t] = iocbs[t]
             /\ cnt'[t] = cnt[t] /\ round'[t] = round[t]
             /\ submitted'[t] = submitted[t] /\ stage_trans'[t] = stage_trans[t]
<1>q. Own /\ Stays => SameStage(t)
  BY DEF SameStage, InflightOf, EventsOf
<1> USE DEF SameLists, SamePlace, Goto, lists, units, opers, kernel, barrier
<1>1. CASE Barrier(u) \/ Again(u) \/ FreeOper(u)
  <2>1. CASE ArriveStart(u)
    BY <2>1, <1>type, <1>q DEF ArriveStart, OpenStart
  <2>2. CASE WakeStart(u)
    BY <2>2, <1>type, <1>q DEF WakeStart
  <2>3. CASE BeginStage(u)
    BY <2>3, <1>type, <1>q DEF BeginStage
  <2>4. CASE ArriveEnd(u)
    BY <2>4, <1>type, <1>q DEF ArriveEnd, OpenEnd
  <2>5. CASE WakeEnd(u)
    BY <2>5, <1>type, <1>q DEF WakeEnd
  <2>6. CASE Again(u)
    BY <2>6, <1>type, <1>q DEF Again
  <2>7. CASE FreeOper(u)
    BY <2>7, <1>type, <1>q DEF FreeOper
  <2>. QED  BY <1>1, <2>1, <2>2, <2>3, <2>4, <2>5, <2>6, <2>7 DEF Barrier
<1>2. CASE SubmitFails(u) \/ SpuriousWake(u)
  BY <1>2, <1>q DEF SubmitFails, SpuriousWake, control
<1>3. CASE Cutoff(u)
  <2>1. active[u] # <<>> /\ stonewalled' = [stonewalled EXCEPT ![Head(active[u])] = 1]
    BY <1>3 DEF Cutoff
  <2>2. Head(active[u]) \in OpersOf(u)
    <3>1. 1 \in 1..Len(active[u]) /\ Head(active[u]) = active[u][1]
      BY <1>type, <2>1
    <3>. QED  BY <1>o, <3>1
  <2>3. \A o \in OpersOf(t) : stonewalled'[o] = stonewalled[o]
    BY <1>type, <1>own, <2>1, <2>2
  <2>. QED  BY <1>3, <1>type, <1>q, <2>3 DEF Cutoff, CountIteration
<1>4. CASE RunActiveList(u) \/ LeaveLoop(u)
  BY <1>4, <1>type, <1>q DEF RunActiveList, LeaveLoop, CountIteration
<1>5. CASE PickOper(u)
  BY <1>5, <1>type, <1>q DEF PickOper
<1>6. CASE BuildIocb(u)
  <2>0. PICK o : o = active[u][cur[u]]
    OBVIOUS
  <2>1. pc[u] = "build" /\ issued' = [issued EXCEPT ![o] = @ + 1]
        /\ iocbs' = [iocbs EXCEPT ![u] = Append(@, <<o, issued[o] + 1>>)]
    BY <1>6, <2>0 DEF BuildIocb
  <2>2. o \in OpersOf(u)
    BY <1>o, <1>u, <2>0, <2>1 DEF CurInv
  <2>3. \A p \in OpersOf(t) : issued'[p] = issued[p]
    BY <1>type, <1>own, <2>1, <2>2
  <2>. QED  BY <1>6, <1>type, <1>q, <2>1, <2>3 DEF BuildIocb
<1>7. CASE FindIouWaits(u) \/ ReapAndResubmit(u) \/ WaitOneEvent(u)
  <2>1. PICK E : E \subseteq EventsOf(u) /\ FinishIo(u, E)
    <3>1. CASE WaitOneEvent(u)
      <4>1. PICK e \in EventsOf(u) : FinishIo(u, {e})
        BY <3>1 DEF WaitOneEvent
      <4>. QED  BY <4>1
    <3>2. CASE FindIouWaits(u) \/ ReapAndResubmit(u)
      BY <3>2 DEF FindIouWaits, ReapAndResubmit, ReadSomeEvents
    <3>. QED  BY <1>7, <3>1, <3>2
  <2>2. \A e \in E : ThreadOf(e[1]) = u
    BY <2>1 DEF EventsOf
  <2>3. EventsOf(t)' = EventsOf(t) /\ InflightOf(t)' = InflightOf(t)
    BY <2>1, <2>2 DEF FinishIo, EventsOf, InflightOf
  <2>4. \A o \in OpersOf(t) : last_err'[o] = last_err[o]
    <3> SUFFICES ASSUME NEW o \in OpersOf(t) PROVE last_err'[o] = last_err[o]
      OBVIOUS
    <3>1. ~\E e \in E : e[1] = o
      BY <2>2, OpersFacts
    <3>. QED  BY <1>own, <2>1, <3>1 DEF FinishIo
  <2>. QED  BY <1>7, <1>type, <2>3, <2>4 DEF FindIouWaits, ReapAndResubmit, WaitOneEvent, SameStage
<1>8. CASE OperBuilt(u) \/ NothingBuilt(u)
  <2>1. CASE OperBuilt(u)
    BY <2>1, <1>type, <1>q DEF OperBuilt
  <2>2. CASE NothingBuilt(u)
    BY <2>2, <1>type, <1>q DEF NothingBuilt
  <2>. QED  BY <1>8, <2>1, <2>2
<1>9. CASE Submit(u)
  <2>1. PICK ret \in 1..MinOf(Len(iocbs[u]), Room(u)) :
          /\ inflight' = inflight \cup {iocbs[u][i] : i \in 1..ret}
          /\ iocbs' = [iocbs EXCEPT ![u] = SubSeq(@, ret + 1, Len(@))]
          /\ submitted' = [submitted EXCEPT ![u] = @ + ret]
          /\ pc' = [pc EXCEPT ![u] = IF ret = Len(iocbs[u]) THEN "sort" ELSE "reap"]
    BY <1>9 DEF Submit
  <2>2. \A i \in 1..ret : ThreadOf(iocbs[u][i][1]) = u
    <3> SUFFICES ASSUME NEW i \in 1..ret PROVE ThreadOf(iocbs[u][i][1]) = u
      OBVIOUS
    <3>1. iocbs[u] \in Seq(Ios) /\ Len(iocbs[u]) \in Nat
      BY <1>type
    <3>2. ret <= Len(iocbs[u])
      <4>1. MinOf(Len(iocbs[u]), Room(u)) <= Len(iocbs[u])
        <5>1. Outstanding(u) \in Nat
          BY <1>u, SlicesFinite DEF Outstanding
        <5>. QED  BY <3>1, <5>1, KernelAssumption DEF MinOf, Room
      <4>2. MinOf(Len(iocbs[u]), Room(u)) \in Int
        <5>1. Outstanding(u) \in Nat
          BY <1>u, SlicesFinite DEF Outstanding
        <5>. QED  BY <3>1, <5>1, KernelAssumption DEF MinOf, Room
      <4>. QED  BY <3>1, <4>1, <4>2
    <3>3. iocbs[u][i] \in Queued(u)
      BY <3>1, <3>2, Listed DEF Queued
    <3>. QED  BY <1>u, <3>3, OpersFacts DEF IoInv
  <2>3. InflightOf(t)' = InflightOf(t)
    BY <2>1, <2>2 DEF InflightOf
  <2>4. EventsOf(t)' = EventsOf(t)
    BY <1>9 DEF Submit, EventsOf
  <2>. QED  BY <1>9, <1>type, <2>1, <2>3, <2>4 DEF Submit, SameStage
<1>10. CASE SubmitAgain(u) \/ Sorted(u) \/ WaitNextOper(u)
  BY <1>10, <1>type, <1>q DEF SubmitAgain, Sorted, WaitNextOper
<1>11. CASE SortBuilt(u)
  BY <1>11, <1>type, <1>q DEF SortBuilt
<1>12. CASE RestartOper(u)
  <2>0. PICK o : o = finished[u][cur[u]]
    OBVIOUS
  <2>1. pc[u] = "restart" /\ RestartOrSkip(u, o)
    BY <1>12, <2>0 DEF RestartOper
  <2>2. o \in OpersOf(u)
    BY <1>o, <1>u, <2>0, <2>1 DEF CurInv
  <2>3. \A p \in OpersOf(t) : /\ issued'[p] = issued[p] /\ stonewalled'[p] = stonewalled[p]
                              /\ rw'[p] = rw[p]
    BY <1>type, <1>own, <2>1, <2>2 DEF RestartOrSkip
  <2>4. SameLists(t) /\ pc'[t] = pc[t] /\ cur'[t] = cur[t] /\ stage_trans'[t] = stage_trans[t]
    <3>1. stage_trans'[t] = stage_trans[t]
      BY <1>type, <2>1 DEF RestartOrSkip
    <3>2. CASE CanRestart(o)
      <4>1. built'[t] = built[t]
        BY <1>12 DEF RestartOper
      <4>2. active'[t] = active[t] /\ finished'[t] = finished[t]
        BY <1>type, <2>1, <3>2 DEF RestartOrSkip
      <4>3. pc'[t] = pc[t] /\ cur'[t] = cur[t]
        BY <1>type, <2>1, <3>2 DEF RestartOrSkip
      <4>. QED  BY <3>1, <4>1, <4>2, <4>3
    <3>3. CASE ~CanRestart(o)
      <4>1. built'[t] = built[t]
        BY <1>12 DEF RestartOper
      <4>2. UNCHANGED <<active, finished>>
        BY <2>1, <3>3 DEF RestartOrSkip
      <4>3. pc'[t] = pc[t] /\ cur'[t] = cur[t]
        BY <1>type, <2>1, <3>3 DEF RestartOrSkip
      <4>. QED  BY <3>1, <4>1, <4>2, <4>3
    <3>. QED  BY <3>2, <3>3
  <2>. QED  BY <1>12, <1>q, <2>3, <2>4 DEF RestartOper
<1>. QED  BY <1>1, <1>2, <1>3, <1>4, <1>5, <1>6, <1>7, <1>8, <1>9, <1>10, <1>11, <1>12
          DEF Worker, Stage

LEMMA StageTypeNext ==
  ASSUME IInv, StageType, [Next]_vars
  PROVE  StageType'
<1>type. /\ pc \in [Threads -> PCs] /\ cur \in [Threads -> Nat]
         /\ cnt \in [Threads -> Nat] /\ round \in [Threads -> Nat]
         /\ submitted \in [Threads -> Nat] /\ stage_trans \in [Threads -> Nat]
         /\ rw \in [Opers -> stages] /\ last_err \in [Opers -> {0, 1}]
         /\ started_ios \in [Opers -> Nat]
  BY DEF IInv, TypeInv, StageType
<1>0. UNCHANGED <<rw, last_err, round, cnt, submitted, stage_trans>> => StageType'
  BY <1>type DEF StageType
<1> USE DEF lists, units, opers, kernel, barrier, control
<1>1. CASE UNCHANGED vars
  BY <1>1, <1>0 DEF vars
<1>2. ASSUME NEW x \in inflight, Complete(x) PROVE StageType'
  BY <1>2, <1>0 DEF Complete
<1>3. ASSUME NEW t \in Threads, SubmitFails(t) \/ SpuriousWake(t) PROVE StageType'
  BY <1>3, <1>0 DEF SubmitFails, SpuriousWake
<1>4. ASSUME NEW t \in Threads, Worker(t) PROVE StageType'
  <2>1. CASE ArriveStart(t) \/ WakeStart(t)
    BY <2>1, <1>type DEF ArriveStart, WakeStart, StageType
  <2>2. CASE BeginStage(t)
    BY <2>2, <1>type DEF BeginStage, StageType
  <2>3. CASE ArriveEnd(t) \/ WakeEnd(t) \/ Again(t) \/ FreeOper(t)
    BY <2>3, <1>0 DEF ArriveEnd, WakeEnd, Again, FreeOper
  <2>4. CASE Cutoff(t) \/ RunActiveList(t)
    <3>1. CountIteration(t) /\ UNCHANGED <<rw, last_err, round, submitted, stage_trans>>
      BY <2>4 DEF Cutoff, RunActiveList
    <3>. QED  BY <1>type, <3>1 DEF CountIteration, StageType
  <2>5. CASE \/ LeaveLoop(t) \/ PickOper(t) \/ BuildIocb(t) \/ OperBuilt(t) \/ NothingBuilt(t)
             \/ SubmitAgain(t) \/ SortBuilt(t) \/ Sorted(t) \/ WaitNextOper(t)
    BY <2>5, <1>0 DEF LeaveLoop, PickOper, BuildIocb, OperBuilt, NothingBuilt, SubmitAgain,
         SortBuilt, Sorted, WaitNextOper
  <2>6. CASE FindIouWaits(t) \/ ReapAndResubmit(t) \/ WaitOneEvent(t)
    <3>1. \E E : FinishIo(t, E)
      BY <2>6 DEF FindIouWaits, ReapAndResubmit, ReadSomeEvents, WaitOneEvent
    <3>2. last_err' \in [Opers -> {0, 1}]
      BY <1>type, <3>1 DEF FinishIo
    <3>3. UNCHANGED <<rw, round, cnt, submitted, stage_trans>>
      BY <2>6 DEF FindIouWaits, ReapAndResubmit, WaitOneEvent
    <3>. QED  BY <1>type, <3>2, <3>3 DEF StageType
  <2>7. CASE Submit(t)
    <3>1. PICK ret \in 1..MinOf(Len(iocbs[t]), Room(t)) :
            submitted' = [submitted EXCEPT ![t] = @ + ret]
      BY <2>7 DEF Submit
    <3>2. ret \in Nat
      OBVIOUS
    <3>3. UNCHANGED <<rw, last_err, round, cnt, stage_trans>>
      BY <2>7 DEF Submit
    <3>. QED  BY <1>type, <3>1, <3>2, <3>3 DEF StageType
  <2>8. CASE RestartOper(t)
    <3>0. PICK o : o = finished[t][cur[t]]
      OBVIOUS
    <3>1. pc[t] = "restart" /\ RestartOrSkip(t, o)
          /\ UNCHANGED <<last_err, round, cnt, submitted>>
      BY <2>8, <3>0 DEF RestartOper
    <3>2. o \in Opers
      BY <3>0, <3>1, OwnOpers DEF IInv, DataInv, PlaceInv, CurInv
    <3>3. stage_trans' \in [Threads -> Nat]
      BY <1>type, <3>1, <3>2 DEF RestartOrSkip, oper_mb_trans
    <3>4. rw' \in [Opers -> stages]
      <4>1. CASE CanRestart(o)
        <5>1. NextStage(rw[o]) \in stages
          BY <1>type, <3>2, <4>1, NextStageFacts DEF CanRestart
        <5>. QED  BY <1>type, <3>1, <4>1, <5>1 DEF RestartOrSkip
      <4>2. CASE ~CanRestart(o)
        BY <1>type, <3>1, <4>2 DEF RestartOrSkip
      <4>. QED  BY <4>1, <4>2
    <3>. QED  BY <1>type, <3>1, <3>3, <3>4 DEF StageType
  <2>. QED  BY <1>4, <2>1, <2>2, <2>3, <2>4, <2>5, <2>6, <2>7, <2>8 DEF Worker, Barrier, Stage
<1>. QED  BY <1>1, <1>2, <1>3, <1>4 DEF Next

-----------------------------------------------------------------------------
(* The steps of run_active_list and its loop, as far as the stages go. *)

InnerStep(t) ==
  \/ Cutoff(t) \/ RunActiveList(t) \/ PickOper(t) \/ BuildIocb(t) \/ FindIouWaits(t)
  \/ OperBuilt(t) \/ NothingBuilt(t) \/ Submit(t) \/ SubmitAgain(t) \/ ReapAndResubmit(t)
  \/ SortBuilt(t) \/ Sorted(t)

\* Completions can only add errors.
LEMMA ErrorsStay ==
  ASSUME NEW t \in Threads, FindIouWaits(t) \/ ReapAndResubmit(t) \/ WaitOneEvent(t)
  PROVE  \A o \in Opers : last_err'[o] = 0 => last_err[o] = 0
<1>1. \E E : FinishIo(t, E)
  BY DEF FindIouWaits, ReapAndResubmit, ReadSomeEvents, WaitOneEvent
<1>. QED  BY <1>1 DEF FinishIo

LEMMA InnerEffect ==
  ASSUME IInv, StageType, NEW t \in Threads, InnerStep(t)
  PROVE  /\ pc[t] \in Inner /\ pc'[t] \in Inner
         /\ UNCHANGED <<rw, round, threads_ending, stage_trans>>
         /\ \A o \in Opers : last_err'[o] = 0 => last_err[o] = 0
         /\ Ranges(t)' \subseteq Ranges(t) /\ ToSet(finished[t]) \subseteq ToSet(finished'[t])
         /\ \A o \in Opers : stonewalled'[o] = 1 =>
              stonewalled[o] = 1 \/ (o \in ToSet(finished'[t]) /\ threads_ending # 0)
<1>type. /\ pc \in [Threads -> PCs] /\ stonewalled \in [Opers -> {0, 1}]
         /\ active \in [Threads -> Seq(Opers)] /\ finished \in [Threads -> Seq(Opers)]
         /\ built \in [Threads -> Seq(Opers)]
         /\ active[t] \in Seq(Opers) /\ built[t] \in Seq(Opers) /\ finished[t] \in Seq(Opers)
         /\ ListInv(t) /\ CurInv(t)
  BY DEF IInv, TypeInv, DataInv, PlaceInv
<1> DEFINE Plain == UNCHANGED <<rw, round, threads_ending, stage_trans, last_err, stonewalled>>
<1> USE DEF lists, units, opers, kernel, barrier, Goto
<1>1. CASE Cutoff(t)
  <2>0. PICK h : h = Head(active[t])
    OBVIOUS
  <2>1. /\ pc[t] = "loop" /\ pc'[t] = "loop" /\ active[t] # <<>> /\ threads_ending # 0
        /\ stonewalled' = [stonewalled EXCEPT ![h] = 1]
        /\ finished'[t] = Append(finished[t], h) /\ active'[t] = Tail(active[t])
        /\ UNCHANGED <<rw, round, threads_ending, stage_trans, last_err, built>>
    BY <1>1, <1>type, <2>0 DEF Cutoff
  <2>2. /\ ToSet(Tail(active[t])) = ToSet(active[t]) \ {h} /\ h \in ToSet(active[t]) /\ h \in Opers
    BY <1>type, <2>0, <2>1, OnceTail DEF ListInv
  <2>3. h \notin ToSet(finished[t])
    BY <1>type, <2>2 DEF ListInv
  <2>4. ToSet(Append(finished[t], h)) = ToSet(finished[t]) \cup {h}
    BY <1>type, <2>2, <2>3, OnceAppend DEF ListInv
  <2>5. Ranges(t)' \subseteq Ranges(t) /\ ToSet(finished[t]) \subseteq ToSet(finished'[t])
        /\ h \in ToSet(finished'[t])
    BY <2>1, <2>2, <2>4 DEF Ranges
  <2>6. \A o \in Opers : stonewalled'[o] = 1 => stonewalled[o] = 1 \/ o = h
    BY <1>type, <2>1
  <2>. QED  BY <2>1, <2>5, <2>6 DEF Inner
<1>2. CASE \/ RunActiveList(t) \/ PickOper(t) \/ BuildIocb(t) \/ SubmitAgain(t) \/ Sorted(t)
           \/ Submit(t)
  <2>1. Plain /\ UNCHANGED <<active, finished, built>>
    BY <1>2 DEF RunActiveList, PickOper, BuildIocb, SubmitAgain, Sorted, Submit
  <2>2. pc[t] \in Inner /\ pc'[t] \in Inner
    <3> USE DEF Inner, Holding, Building
    <3>1. CASE RunActiveList(t) \/ BuildIocb(t) \/ Sorted(t)
      BY <3>1, <1>type DEF RunActiveList, BuildIocb, Sorted
    <3>2. CASE PickOper(t)
      BY <3>2, <1>type DEF PickOper
    <3>3. CASE SubmitAgain(t) \/ Submit(t)
      BY <3>3, <1>type DEF SubmitAgain, Submit
    <3>. QED  BY <1>2, <3>1, <3>2, <3>3
  <2>3. Ranges(t)' = Ranges(t) /\ finished'[t] = finished[t]
    BY <2>1 DEF Ranges
  <2>. QED  BY <2>1, <2>2, <2>3
<1>3. CASE FindIouWaits(t) \/ ReapAndResubmit(t)
  <2>1. UNCHANGED <<rw, round, threads_ending, stage_trans, stonewalled, active, finished, built>>
    BY <1>3 DEF FindIouWaits, ReapAndResubmit
  <2>2. pc[t] \in Inner /\ pc'[t] \in Inner
    BY <1>3, <1>type DEF FindIouWaits, ReapAndResubmit, Inner, Holding, Building
  <2>3. Ranges(t)' = Ranges(t) /\ finished'[t] = finished[t]
    BY <2>1 DEF Ranges
  <2>4. \A o \in Opers : last_err'[o] = 0 => last_err[o] = 0
    BY <1>3, ErrorsStay
  <2>. QED  BY <2>1, <2>2, <2>3, <2>4
<1>4. CASE OperBuilt(t)
  <2>0. PICK o : o = Current(t)
    OBVIOUS
  <2>1. /\ Plain /\ UNCHANGED finished /\ pc[t] = "build"
        /\ built'[t] = Append(built[t], o) /\ active'[t] = RemoveAt(active[t], cur[t])
    BY <1>4, <1>type, <2>0 DEF OperBuilt, Current
  <2>2. pc[t] \in Inner /\ pc'[t] \in Inner
    BY <1>4, <1>type DEF OperBuilt, Inner, Holding, Building
  <2>3. /\ o \in ToSet(active[t]) /\ o \in Opers /\ o \notin ToSet(built[t])
        /\ cur[t] \in 1..Len(active[t])
    BY <1>type, <2>0, <2>1, CurrentFacts DEF IInv
  <2>4. ToSet(RemoveAt(active[t], cur[t])) = ToSet(active[t]) \ {o}
    BY <1>type, <2>0, <2>3, OnceRemove DEF ListInv, Current
  <2>5. ToSet(Append(built[t], o)) = ToSet(built[t]) \cup {o}
    BY <1>type, <2>3, OnceAppend DEF ListInv
  <2>6. Ranges(t)' \subseteq Ranges(t)
    BY <2>1, <2>3, <2>4, <2>5 DEF Ranges
  <2>. QED  BY <2>1, <2>2, <2>6
<1>5. CASE NothingBuilt(t)
  <2>1. Plain /\ UNCHANGED <<active, finished>> /\ built'[t] = <<>>
    BY <1>5, <1>type DEF NothingBuilt
  <2>2. pc[t] \in Inner /\ pc'[t] \in Inner
    BY <1>5, <1>type DEF NothingBuilt, Inner, Holding, Building
  <2>3. Ranges(t)' \subseteq Ranges(t)
    BY <2>1, OnceEmpty DEF Ranges
  <2>. QED  BY <2>1, <2>2, <2>3
<1>6. CASE SortBuilt(t)
  <2>0. PICK o : o = Head(built[t])
    OBVIOUS
  <2>1. /\ Plain /\ pc[t] = "sort" /\ pc'[t] = "sort" /\ built[t] # <<>>
        /\ built'[t] = Tail(built[t])
        /\ \/ finished'[t] = Append(finished[t], o) /\ active'[t] = active[t]
           \/ finished'[t] = finished[t] /\ active'[t] = Append(active[t], o)
    BY <1>6, <1>type, <2>0 DEF SortBuilt, Requeue
  <2>2. ToSet(Tail(built[t])) = ToSet(built[t]) \ {o} /\ o \in ToSet(built[t]) /\ o \in Opers
    BY <1>type, <2>0, <2>1, OnceTail DEF ListInv
  <2>3. o \notin ToSet(finished[t]) /\ o \notin ToSet(active[t])
    BY <1>type, <2>2 DEF ListInv
  <2>4. /\ ToSet(Append(finished[t], o)) = ToSet(finished[t]) \cup {o}
        /\ ToSet(Append(active[t], o)) = ToSet(active[t]) \cup {o}
    BY <1>type, <2>2, <2>3, OnceAppend DEF ListInv
  <2>5. Ranges(t)' \subseteq Ranges(t) /\ ToSet(finished[t]) \subseteq ToSet(finished'[t])
    BY <2>1, <2>2, <2>4 DEF Ranges
  <2>. QED  BY <2>1, <2>5 DEF Inner, Holding
<1>. QED  BY <1>1, <1>2, <1>3, <1>4, <1>5, <1>6 DEF InnerStep

LEMMA InnerRank ==
  ASSUME IInv, StageType, NEW t \in Threads, InnerStep(t), RankInv(t), WallInv(t)
  PROVE  RankInv(t)' /\ WallInv(t)'
<1>1. /\ pc[t] \in Inner /\ pc'[t] \in Inner
      /\ UNCHANGED <<rw, round, threads_ending, stage_trans>>
      /\ \A o \in Opers : last_err'[o] = 0 => last_err[o] = 0
      /\ Ranges(t)' \subseteq Ranges(t) /\ ToSet(finished[t]) \subseteq ToSet(finished'[t])
      /\ \A o \in Opers : stonewalled'[o] = 1 =>
           stonewalled[o] = 1 \/ (o \in ToSet(finished'[t]) /\ threads_ending # 0)
  BY InnerEffect
<1>own. \A o \in Ranges(t) : o \in Opers /\ o \in OpersOf(t)
  BY OwnOpers DEF IInv, DataInv
<1>2. /\ pc[t] \in InStage /\ pc'[t] \in InStage /\ pc[t] \notin {"free", "exit"}
      /\ pc'[t] \notin {"wait", "restart", "begin"} \cup Leaving \cup Entering
  BY <1>1 DEF Inner, InStage, Leaving, Entering, Holding, Building
<1>3. \A o \in Ranges(t)' : Level(t, o)'
  BY <1>1, <1>2, <1>own DEF RankInv, Level
<1>4. RankInv(t)'
  BY <1>2, <1>3 DEF RankInv
<1>5. ToSet(finished'[t]) \subseteq Ranges(t)'
  BY DEF Ranges
<1>6. WallInv(t)'
  <2>1. ASSUME NEW o \in OpersOf(t), stonewalled'[o] = 1 PROVE o \in ToSet(finished'[t])
    BY <1>1, <1>2, <2>1, OpersFacts DEF WallInv
  <2>2. ASSUME NEW o \in ToSet(finished'[t]), stonewalled'[o] = 1, last_err'[o] = 0
        PROVE  threads_ending' # 0
    <3>1. o \in Opers /\ o \in OpersOf(t) /\ last_err[o] = 0
      BY <1>1, <1>5, <1>own, <2>2
    <3>2. CASE stonewalled[o] = 1
      BY <1>1, <1>2, <3>1, <3>2 DEF WallInv
    <3>. QED  BY <1>1, <2>2, <3>1, <3>2
  <2>. QED  BY <2>1, <2>2 DEF WallInv
<1>. QED  BY <1>4, <1>6

-----------------------------------------------------------------------------
(* From one stage to the next. *)

\* Steps that leave the lists and the operations as they are.
stageVars == <<active, finished, built, rw, last_err, issued, stonewalled>>

LEMMA EnterRank ==
  ASSUME IInv, StageType, NEW t \in Threads, ArriveStart(t) \/ WakeStart(t),
         RankInv(t), WallInv(t)
  PROVE  RankInv(t)' /\ WallInv(t)'
<1>1. /\ UNCHANGED stageVars /\ pc[t] \in Entering
      /\ \/ pc'[t] = "begin" /\ round'[t] = round[t] + 1
         \/ pc'[t] \in Entering /\ round'[t] = round[t]
  BY DEF ArriveStart, WakeStart, Goto, stageVars, lists, opers, IInv, TypeInv, StageType,
       Entering
<1>2. built[t] = <<>> /\ ToSet(built[t]) = {}
  <2>1. built[t] = <<>>
    BY <1>1 DEF IInv, PlaceInv, FitInv, Holding, Building, Entering
  <2>. QED  BY <2>1, OnceEmpty
<1>own. \A o \in Ranges(t) : o \in Opers
  BY OwnOpers DEF IInv, DataInv
<1>3. /\ \A o \in ToSet(active[t]) : Fresh(t, o)
      /\ active[t] # <<>> /\ \A o \in ToSet(finished[t]) : last_err[o] = 1
  BY <1>1 DEF RankInv
<1>s. pc'[t] \notin {"restart", "wait"} \cup Leaving /\ pc[t] \notin {"free", "exit"}
  BY <1>1 DEF Leaving, Entering
<1>4. RankInv(t)'
  <2>1. CASE pc'[t] = "begin" /\ round'[t] = round[t] + 1
    <3>1. \A o \in Ranges(t)' : Level(t, o)'
      <4> SUFFICES ASSUME NEW o \in Ranges(t)' PROVE Level(t, o)'
        OBVIOUS
      <4>1. o \in ToSet(active[t]) \/ o \in ToSet(finished[t])
        BY <1>1, <1>2 DEF Ranges, stageVars
      <4>2. UNCHANGED <<rw, last_err>>
        BY <1>1 DEF stageVars
      <4>. QED  BY <1>3, <2>1, <4>1, <4>2 DEF Fresh, Level
    <3>2. \A o \in ToSet(active'[t]) : issued'[o] = 0
      BY <1>1, <1>3 DEF stageVars, Fresh
    <3>. QED  BY <1>1, <1>3, <1>s, <2>1, <3>1, <3>2 DEF RankInv, stageVars, Entering
  <2>2. CASE pc'[t] \in Entering /\ round'[t] = round[t]
    <3>1. \A o \in ToSet(active'[t]) : Fresh(t, o)'
      BY <1>1, <1>3, <2>2 DEF stageVars, Fresh
    <3>2. pc'[t] \notin InStage
      BY <2>2 DEF Entering, InStage, Inner, Holding, Building
    <3>. QED  BY <1>1, <1>3, <1>s, <2>2, <3>1, <3>2 DEF RankInv, stageVars, InStage
  <2>. QED  BY <1>1, <2>1, <2>2
<1>5. WallInv(t)'
  BY <1>1, <1>3, <1>s DEF WallInv, stageVars
<1>. QED  BY <1>4, <1>5

LEMMA LoopRank ==
  ASSUME IInv, StageType, NEW t \in Threads, BeginStage(t) \/ LeaveLoop(t),
         RankInv(t), WallInv(t)
  PROVE  RankInv(t)' /\ WallInv(t)'
<1>1. /\ UNCHANGED stageVars /\ UNCHANGED <<round, threads_ending>>
      /\ \/ pc[t] = "begin" /\ pc'[t] = "loop"
         \/ /\ pc[t] = "loop" /\ pc'[t] = "wait" /\ UNCHANGED cnt
            /\ active[t] = <<>> \/ ~MoreIterations(t)
            /\ cur'[t] = IF finished[t] = <<>> THEN 0 ELSE 1
  BY DEF BeginStage, LeaveLoop, Goto, stageVars, lists, opers, barrier, IInv, TypeInv
<1>2. pc[t] \in InStage /\ pc'[t] \in InStage /\ pc[t] \notin {"free", "exit"}
      /\ pc'[t] \notin {"begin", "restart"} \cup Leaving \cup Entering
  BY <1>1 DEF InStage, Inner, Leaving, Entering
<1>3. \A o \in Ranges(t)' : Level(t, o)'
  BY <1>1, <1>2 DEF RankInv, Level, Ranges, stageVars
<1>4. RankInv(t)'
  BY <1>1, <1>2, <1>3 DEF RankInv, stageVars, MoreIterations
<1>5. WallInv(t)'
  BY <1>1, <1>2 DEF WallInv, stageVars
<1>. QED  BY <1>4, <1>5

LEMMA WaitRank ==
  ASSUME IInv, StageType, NEW t \in Threads, WaitOneEvent(t) \/ WaitNextOper(t),
         RankInv(t), WallInv(t)
  PROVE  RankInv(t)' /\ WallInv(t)'
<1>0. pc[t] = "wait" /\ pc[t] \in InStage /\ pc[t] \notin {"free", "exit"}
  BY DEF WaitOneEvent, WaitNextOper, Goto, InStage
<1>1. /\ UNCHANGED <<active, finished, built, rw, issued, stonewalled, round, cnt, threads_ending>>
      /\ \A o \in Opers : last_err'[o] = 0 => last_err[o] = 0
      /\ \/ pc'[t] = "wait" /\ cur'[t] = cur[t]
         \/ pc'[t] = "end" /\ cur[t] = 0
         \/ pc'[t] = "restart" /\ cur'[t] = 1
         \/ pc'[t] = "wait" /\ cur'[t] = cur[t] + 1
  <2>1. CASE WaitOneEvent(t)
    <3>1. \A o \in Opers : last_err'[o] = 0 => last_err[o] = 0
      BY <2>1, ErrorsStay
    <3>. QED  BY <2>1, <3>1 DEF WaitOneEvent, Goto, lists, barrier, IInv, TypeInv
  <2>2. CASE WaitNextOper(t)
    BY <2>2 DEF WaitNextOper, Goto, lists, opers, barrier, IInv, TypeInv
  <2>. QED  BY <2>1, <2>2
<1>own. \A o \in Ranges(t) : o \in Opers
  BY OwnOpers DEF IInv, DataInv
<1>2. \A o \in Ranges(t) : Level(t, o)'
  BY <1>0, <1>1, <1>own DEF RankInv, Level
<1>3. Ranges(t)' = Ranges(t) /\ ToSet(finished[t]) \subseteq Ranges(t)
  BY <1>1 DEF Ranges
<1>4. MoreIterations(t)' => active'[t] = <<>>
  BY <1>0, <1>1 DEF RankInv, MoreIterations
<1>5. ToSet(<<>>) = {}
  BY OnceEmpty
<1>6. RankInv(t)'
  <2>1. CASE pc'[t] = "wait"
    <3>1. cur'[t] = 0 => finished'[t] = <<>>
      <4>1. cur[t] \in Nat
        BY DEF IInv, TypeInv
      <4>. QED  BY <1>0, <1>1, <2>1, <4>1 DEF RankInv
    <3>. QED  BY <1>2, <1>3, <1>4, <2>1, <3>1 DEF RankInv, InStage, Leaving, Entering
  <2>2. CASE pc'[t] = "end"
    <3>1. finished'[t] = <<>>
      BY <1>0, <1>1, <2>2 DEF RankInv
    <3>. QED  BY <1>4, <1>5, <2>2, <3>1 DEF RankInv, InStage, Leaving, Entering, Inner, Holding,
                Building
  <2>3. CASE pc'[t] = "restart"
    <3>1. \A i \in 1..(cur'[t] - 1) : FALSE
      BY <1>1, <2>3
    <3>. QED  BY <1>1, <1>2, <1>3, <1>4, <1>5, <2>3, <3>1
              DEF RankInv, InStage, Leaving, Entering, Inner, Holding, Building
  <2>. QED  BY <1>1, <2>1, <2>2, <2>3
<1>7. WallInv(t)'
  BY <1>0, <1>1, <1>3, <1>own DEF WallInv
<1>. QED  BY <1>6, <1>7

LEMMA LeaveRank ==
  ASSUME IInv, StageType, NEW t \in Threads, ArriveEnd(t) \/ WakeEnd(t) \/ Again(t) \/ FreeOper(t),
         RankInv(t), WallInv(t)
  PROVE  RankInv(t)' /\ WallInv(t)'
<1>own. \A o \in Ranges(t) : o \in Opers
  BY OwnOpers DEF IInv, DataInv
<1>s. /\ Leaving \cap (InStage \cup Entering \cup {"begin", "restart", "wait", "free", "exit"}) = {}
      /\ Entering \cap (InStage \cup Leaving \cup {"begin", "restart", "wait", "free", "exit"}) = {}
      /\ {"free", "exit"} \cap InStage = {}
  BY DEF Leaving, InStage, Entering, Inner, Holding, Building
<1>1. CASE ArriveEnd(t) \/ WakeEnd(t)
  <2>1. UNCHANGED stageVars /\ UNCHANGED <<round, cnt>> /\ pc[t] \in Leaving /\ pc'[t] \in Leaving
    BY <1>1 DEF ArriveEnd, WakeEnd, Goto, stageVars, lists, opers, Leaving, IInv, TypeInv
  <2>2. RankInv(t)'
    BY <1>s, <2>1 DEF RankInv, stageVars, Level, Fresh, MoreIterations, CanRestart
  <2>3. WallInv(t)'
    BY <1>s, <2>1 DEF WallInv, stageVars
  <2>. QED  BY <2>2, <2>3
<1>2. CASE Again(t)
  <2>1. /\ UNCHANGED stageVars /\ UNCHANGED <<round, cnt>> /\ pc[t] = "again" /\ pc[t] \in Leaving
        /\ \/ pc'[t] = "start" /\ active[t] # <<>> /\ MoreIterations(t)
           \/ pc'[t] = "free"
    BY <1>2 DEF Again, Goto, stageVars, lists, opers, barrier, Leaving, IInv, TypeInv
  <2>2. CASE pc'[t] = "free"
    BY <1>s, <2>2 DEF RankInv, WallInv
  <2>3. CASE pc'[t] = "start" /\ active[t] # <<>> /\ MoreIterations(t)
    <3>1. \A o \in ToSet(active[t]) : Fresh(t, o)
      BY <2>1, <2>3 DEF RankInv
    <3>2. PICK p \in ToSet(active[t]) : Fresh(t, p)
      <4>1. active[t] \in Seq(Opers)
        BY DEF IInv, TypeInv
      <4>2. active[t][1] \in ToSet(active[t])
        BY <2>3, <4>1, Listed
      <4>. QED  BY <3>1, <4>2
    <3>3. \A o \in ToSet(finished[t]) : last_err[o] = 1
      <4> SUFFICES ASSUME NEW o \in ToSet(finished[t]), last_err[o] # 1 PROVE FALSE
        OBVIOUS
      <4>1. o \in Opers /\ p \in Opers
        BY <1>own DEF Ranges
      <4>2. last_err[o] = 0 /\ rw[o] \in stages /\ rw[p] \in stages /\ round[t] \in Nat
        BY <4>1 DEF StageType
      <4>3. Rank(rw[o]) + 1 = round[t] /\ ~CanRestart(o)
        BY <2>1, <4>2 DEF RankInv, Level
      <4>4. Rank(rw[p]) = round[t] /\ Rank(rw[o]) \in Nat
        BY <3>2, <4>2, RankFacts DEF Fresh
      <4>5. rw[o] < rw[p]
        BY <4>2, <4>3, <4>4, RankFacts
      <4>6. rw[o] \in Int /\ rw[p] \in Int
        BY <4>2, StageFacts
      <4>7. rw[p] \in LaterStages(rw[o])
        BY <4>2, <4>5, <4>6 DEF LaterStages
      <4>. QED  BY <4>2, <4>3, <4>7 DEF CanRestart
    <3>4. pc'[t] \in Entering
      BY <2>3 DEF Entering
    <3>5. RankInv(t)'
      BY <1>s, <2>1, <2>3, <3>1, <3>3, <3>4 DEF RankInv, stageVars, Fresh
    <3>6. WallInv(t)'
      BY <1>s, <2>1, <3>4 DEF WallInv, stageVars
    <3>. QED  BY <3>5, <3>6
  <2>. QED  BY <2>1, <2>2, <2>3
<1>3. CASE FreeOper(t)
  <2>1. pc'[t] \in {"free", "exit"}
    BY <1>3 DEF FreeOper, Goto, IInv, TypeInv
  <2>. QED  BY <1>s, <2>1 DEF RankInv, WallInv
<1>. QED  BY <1>1, <1>2, <1>3

\* The loop that offers each finished operation a restart, in terms of the
\* operation it is at.
LEMMA RestartEffect ==
  ASSUME IInv, StageType, NEW t \in Threads, RestartOper(t), NEW o, o = finished[t][cur[t]]
  PROVE  /\ pc[t] = "restart" /\ cur[t] \in 1..Len(finished[t])
         /\ o \in ToSet(finished[t]) /\ o \in Opers /\ o \in OpersOf(t) /\ o \notin ToSet(active[t])
         /\ iocbs[t] = <<>> /\ built[t] = <<>>
         /\ UNCHANGED <<last_err, round, cnt, submitted, built, iocbs, threads_ending, inflight,
                        events, want>>
         /\ stage_trans'[t] = stage_trans[t] + started_ios[o]
         /\ \/ /\ CanRestart(o)
               /\ issued'[o] = 0 /\ stonewalled'[o] = 0 /\ rw'[o] = NextStage(rw[o])
               /\ \A p \in Opers \ {o} : /\ issued'[p] = issued[p] /\ rw'[p] = rw[p]
                                         /\ stonewalled'[p] = stonewalled[p]
               /\ finished'[t] = RemoveAt(finished[t], cur[t])
               /\ ToSet(finished'[t]) = ToSet(finished[t]) \ {o}
               /\ ToSet(active'[t]) = ToSet(active[t]) \cup {o}
               /\ \/ finished'[t] = <<>> /\ cur'[t] = 0 /\ pc'[t] = "end"
                  \/ finished'[t] # <<>> /\ cur'[t] = 1 /\ pc'[t] = "restart"
            \/ /\ ~CanRestart(o)
               /\ UNCHANGED <<issued, stonewalled, rw, active, finished>>
               /\ \/ cur[t] = Len(finished[t]) /\ pc'[t] = "end"
                  \/ /\ cur[t] # Len(finished[t])
                     /\ pc'[t] = "restart" /\ cur'[t] = cur[t] + 1
<1>type. /\ pc \in [Threads -> PCs] /\ cur \in [Threads -> Nat]
         /\ active \in [Threads -> Seq(Opers)] /\ finished \in [Threads -> Seq(Opers)]
         /\ active[t] \in Seq(Opers) /\ finished[t] \in Seq(Opers)
         /\ issued \in [Opers -> Nat] /\ stonewalled \in [Opers -> {0, 1}]
         /\ rw \in [Opers -> stages] /\ stage_trans \in [Threads -> Nat]
         /\ ListInv(t) /\ CurInv(t) /\ FitInv(t)
  BY DEF IInv, TypeInv, StageType, DataInv, PlaceInv
<1>1. /\ pc[t] = "restart" /\ RestartOrSkip(t, o)
      /\ UNCHANGED <<last_err, round, cnt, submitted, built, iocbs, threads_ending, inflight,
                     events, want>>
  BY DEF RestartOper, units, barrier
<1>2. /\ cur[t] \in 1..Len(finished[t]) /\ iocbs[t] = <<>> /\ built[t] = <<>>
  BY <1>1, <1>type DEF CurInv, FitInv, Building, Holding
<1>3. o \in ToSet(finished[t]) /\ o \in Opers /\ o \in OpersOf(t) /\ o \notin ToSet(active[t])
  <2>1. o \in ToSet(finished[t]) /\ o \in Opers
    BY <1>2, <1>type, Listed
  <2>. QED  BY <1>type, <2>1 DEF ListInv, Ranges
<1>4. stage_trans'[t] = stage_trans[t] + started_ios[o]
  BY <1>1, <1>type DEF RestartOrSkip, oper_mb_trans
<1>5. CASE CanRestart(o)
  <2>1. /\ issued' = [issued EXCEPT ![o] = 0] /\ stonewalled' = [stonewalled EXCEPT ![o] = 0]
        /\ rw' = [rw EXCEPT ![o] = NextStage(rw[o])]
        /\ finished' = [finished EXCEPT ![t] = RemoveAt(@, cur[t])]
        /\ active' = [active EXCEPT ![t] = Append(@, o)]
        /\ cur' = [cur EXCEPT ![t] = IF finished'[t] = <<>> THEN 0 ELSE 1]
        /\ pc' = [pc EXCEPT ![t] = IF finished'[t] = <<>> THEN "end" ELSE "restart"]
    BY <1>1, <1>5 DEF RestartOrSkip, Goto
  <2>2. finished'[t] = RemoveAt(finished[t], cur[t]) /\ active'[t] = Append(active[t], o)
    BY <1>type, <2>1
  <2>3. /\ ToSet(finished'[t]) = ToSet(finished[t]) \ {o}
        /\ ToSet(active'[t]) = ToSet(active[t]) \cup {o}
    BY <1>2, <1>3, <1>type, <2>2, OnceRemove, OnceAppend DEF ListInv
  <2>4. /\ issued'[o] = 0 /\ stonewalled'[o] = 0 /\ rw'[o] = NextStage(rw[o])
        /\ \A p \in Opers \ {o} : /\ issued'[p] = issued[p] /\ rw'[p] = rw[p]
                                  /\ stonewalled'[p] = stonewalled[p]
    BY <1>3, <1>type, <2>1
  <2>5. \/ finished'[t] = <<>> /\ cur'[t] = 0 /\ pc'[t] = "end"
        \/ finished'[t] # <<>> /\ cur'[t] = 1 /\ pc'[t] = "restart"
    BY <1>type, <2>1
  <2>. QED  BY <1>1, <1>2, <1>3, <1>4, <1>5, <2>2, <2>3, <2>4, <2>5
<1>6. CASE ~CanRestart(o)
  <2>1. /\ UNCHANGED <<issued, stonewalled, rw, active, finished>>
        /\ \/ cur[t] = Len(finished[t]) /\ pc'[t] = "end"
           \/ cur[t] # Len(finished[t]) /\ pc'[t] = "restart" /\ cur'[t] = cur[t] + 1
    BY <1>1, <1>6, <1>type DEF RestartOrSkip, Goto, LastFinished
  <2>. QED  BY <1>1, <1>2, <1>3, <1>4, <1>6, <2>1
<1>. QED  BY <1>5, <1>6

LEMMA RestartRank ==
  ASSUME IInv, StageType, NEW t \in Threads, RestartOper(t), RankInv(t), WallInv(t)
  PROVE  RankInv(t)' /\ WallInv(t)'
<1>0. PICK o : o = finished[t][cur[t]]
  OBVIOUS
<1>1. /\ pc[t] = "restart" /\ cur[t] \in 1..Len(finished[t])
      /\ o \in ToSet(finished[t]) /\ o \in Opers /\ o \in OpersOf(t) /\ o \notin ToSet(active[t])
      /\ UNCHANGED <<last_err, round, cnt>>
  BY <1>0, RestartEffect
<1>own. \A p \in Ranges(t) : p \in OpersOf(t) /\ p \in Opers
  BY OwnOpers DEF IInv, DataInv
<1>2. /\ \A p \in ToSet(finished[t]) : Level(t, p) /\ p \in Opers
      /\ MoreIterations(t) => \A p \in ToSet(active[t]) : Fresh(t, p)
      /\ \A i \in 1..(cur[t] - 1) : ~CanRestart(finished[t][i])
      /\ \A p \in ToSet(active[t]) : p \in Opers
      /\ \A p \in OpersOf(t) : stonewalled[p] = 1 => p \in ToSet(finished[t])
  BY <1>1, <1>own DEF RankInv, WallInv, Ranges
<1>s. /\ {"restart", "end"} \cap (InStage \cup Entering \cup {"begin", "wait", "free", "exit"}) = {}
      /\ "end" \in Leaving /\ "restart" \notin Leaving
  BY DEF Leaving, InStage, Entering, Inner, Holding, Building
<1>3. MoreIterations(t)' = MoreIterations(t)
  BY <1>1 DEF MoreIterations
<1>4. CASE CanRestart(o)
  <2>1. /\ issued'[o] = 0 /\ stonewalled'[o] = 0 /\ rw'[o] = NextStage(rw[o])
        /\ \A p \in Opers \ {o} : /\ issued'[p] = issued[p] /\ rw'[p] = rw[p]
                                  /\ stonewalled'[p] = stonewalled[p]
        /\ ToSet(finished'[t]) = ToSet(finished[t]) \ {o}
        /\ ToSet(active'[t]) = ToSet(active[t]) \cup {o}
        /\ \/ finished'[t] = <<>> /\ cur'[t] = 0 /\ pc'[t] = "end"
           \/ finished'[t] # <<>> /\ cur'[t] = 1 /\ pc'[t] = "restart"
    BY <1>0, <1>4, RestartEffect
  <2>2. \A p \in ToSet(finished'[t]) : Level(t, p)'
    BY <1>1, <1>2, <2>1 DEF Level
  <2>3. ASSUME MoreIterations(t), NEW p \in ToSet(active'[t]) PROVE Fresh(t, p)'
    <3>1. CASE p = o
      <4>1. last_err[o] = 0 /\ LaterStages(rw[o]) # {} /\ rw[o] \in stages
        BY <1>1, <1>4 DEF CanRestart, StageType
      <4>2. Rank(NextStage(rw[o])) = Rank(rw[o]) + 1
        BY <4>1, NextStageFacts
      <4>3. Rank(rw[o]) + 1 = round[t]
        BY <1>1, <1>2, <4>1 DEF Level
      <4>. QED  BY <1>1, <2>1, <3>1, <4>1, <4>2, <4>3 DEF Fresh
    <3>2. CASE p # o
      BY <1>1, <1>2, <2>1, <2>3, <3>2 DEF Fresh
    <3>. QED  BY <3>1, <3>2
  <2>4. /\ pc'[t] \in {"end", "restart"} /\ (pc'[t] = "restart" => cur'[t] = 1)
        /\ pc'[t] = "end" => ToSet(finished'[t]) = {}
    BY <2>1, OnceEmpty
  <2>5. pc'[t] = "restart" => \A i \in 1..(cur'[t] - 1) : FALSE
    BY <2>4
  <2>6. RankInv(t)'
    <3>1. pc'[t] \notin InStage \cup Entering \cup {"begin", "wait"}
          /\ (pc'[t] \in Leaving => pc'[t] = "end")
      BY <1>s, <2>4
    <3>. QED  BY <1>3, <2>2, <2>3, <2>4, <2>5, <3>1 DEF RankInv
  <2>7. WallInv(t)'
    <3>1. \A p \in OpersOf(t) : stonewalled'[p] = 1 => p \in ToSet(finished'[t])
      BY <1>2, <2>1, OpersFacts
    <3>2. pc'[t] \notin InStage
      BY <1>s, <2>4
    <3>. QED  BY <3>1, <3>2 DEF WallInv
  <2>. QED  BY <2>6, <2>7
<1>5. CASE ~CanRestart(o)
  <2>1. /\ UNCHANGED <<issued, stonewalled, rw, active, finished>>
        /\ \/ cur[t] = Len(finished[t]) /\ pc'[t] = "end"
           \/ /\ cur[t] # Len(finished[t])
              /\ pc'[t] = "restart" /\ cur'[t] = cur[t] + 1
    BY <1>0, <1>5, RestartEffect
  <2>2. \A i \in 1..cur[t] : ~CanRestart(finished[t][i])
    <3> SUFFICES ASSUME NEW i \in 1..cur[t] PROVE ~CanRestart(finished[t][i])
      OBVIOUS
    <3>1. i \in 1..(cur[t] - 1) \/ i = cur[t]
      BY <1>1
    <3>. QED  BY <1>0, <1>2, <1>5, <3>1
  <2>3. /\ \A p : CanRestart(p)' = CanRestart(p)
        /\ \A p : Level(t, p)' = Level(t, p) /\ Fresh(t, p)' = Fresh(t, p)
    BY <1>1, <2>1 DEF CanRestart, Level, Fresh
  <2>4. pc'[t] = "end" => \A p \in ToSet(finished[t]) : ~CanRestart(p)
    <3> SUFFICES ASSUME pc'[t] = "end", NEW p \in ToSet(finished[t]) PROVE ~CanRestart(p)
      OBVIOUS
    <3>1. cur[t] = Len(finished[t])
      BY <2>1
    <3>. QED  BY <2>2, <3>1 DEF ToSet
  <2>5. pc'[t] = "restart" => \A i \in 1..(cur'[t] - 1) : ~CanRestart(finished[t][i])
    <3>1. pc'[t] = "restart" => cur'[t] - 1 = cur[t]
      BY <1>1, <2>1
    <3>. QED  BY <2>2, <3>1
  <2>6. pc'[t] \notin InStage \cup Entering \cup {"begin", "wait"} /\ pc'[t] \in {"end", "restart"}
        /\ (pc'[t] \in Leaving => pc'[t] = "end")
    BY <1>s, <2>1
  <2>7. RankInv(t)'
    BY <1>2, <1>3, <2>1, <2>3, <2>4, <2>5, <2>6 DEF RankInv
  <2>8. WallInv(t)'
    BY <1>2, <2>1, <2>6 DEF WallInv
  <2>. QED  BY <2>7, <2>8
<1>. QED  BY <1>4, <1>5

-----------------------------------------------------------------------------
(* The barrier.  With more than one thread every step of the engine is one *)
(* of StageBarrier or leaves its state alone, so what was proved of        *)
(* StageBarrier holds of the engine.                                       *)

Bar == INSTANCE StageBarrier_proofs WITH
         pc <- [t \in Threads |-> BarrierPC(t)],
         MaxRound <- Cardinality(stages)

LEMMA BarConfig ==
  /\ SB!num_threads = num_threads
  /\ num_threads > 1 => Bar!ThreadsAssumption /\ Bar!RoundAssumption
<1>1. IsFiniteSet(Threads) /\ Cardinality(Threads) = num_threads
  <2>1. num_threads \in Nat \ {0} /\ 0 \in Int /\ num_threads - 1 \in Int
    BY Config
  <2>2. IsFiniteSet(0..(num_threads - 1))
        /\ Cardinality(0..(num_threads - 1)) =
             IF 0 > num_threads - 1 THEN 0 ELSE (num_threads - 1) - 0 + 1
    BY ONLY <2>1, FS_Interval
  <2>. QED  BY <2>1, <2>2 DEF Threads
<1>2. SB!num_threads = num_threads
  BY <1>1 DEF SB!num_threads, SB!Cardinality, Cardinality
<1>3. num_threads > 1 => Bar!ThreadsAssumption
  BY <1>1 DEF Bar!ThreadsAssumption, Bar!IsFiniteSet, Bar!Cardinality, IsFiniteSet, Cardinality
<1>4. Bar!RoundAssumption
  BY StageFacts DEF Bar!RoundAssumption
<1>. QED  BY <1>2, <1>3, <1>4

\* The state of the barrier, as far as the places of the threads go.
LEMMA BarrierPlaces ==
  ASSUME NEW t \in Threads, TypeInv
  PROVE  /\ BarrierPC(t) = "start" <=> pc[t] = "start"
         /\ BarrierPC(t) = "startwait" <=> pc[t] = "startwait"
         /\ BarrierPC(t) = "stage" <=> pc[t] \in InStage \cup {"restart", "end"}
         /\ BarrierPC(t) = "endwait" <=> pc[t] = "endwait"
         /\ BarrierPC(t) = "again" <=> pc[t] \in {"again", "free", "exit"}
<1>1. pc[t] \in PCs
  BY DEF TypeInv
<1>. QED  BY <1>1 DEF PCs, BarrierPC, StagePCs, InStage, Inner, Holding, Building

\* Steps that are none of the barrier's.
LEMMA BarrierStutter ==
  ASSUME IInv, UNCHANGED <<threads_starting, threads_ending, waiting, round>>,
         \A u \in Threads : BarrierPC(u)' = BarrierPC(u)
  PROVE  UNCHANGED SB!vars
  BY DEF SB!vars

\* A move of thread t, in the places of the barrier.
LEMMA BarrierMoves ==
  ASSUME NEW t \in Threads, TypeInv, NEW q, pc' = [pc EXCEPT ![t] = q]
  PROVE  /\ \A u \in Threads \ {t} : BarrierPC(u)' = BarrierPC(u)
         /\ pc'[t] = q
         /\ \A to : BarrierPC(t)' = to =>
              [u \in Threads |-> BarrierPC(u)]' =
                 [[u \in Threads |-> BarrierPC(u)] EXCEPT ![t] = to]
<1>1. pc'[t] = q /\ \A u \in Threads \ {t} : pc'[u] = pc[u]
  BY DEF TypeInv
<1>2. \A u \in Threads \ {t} : BarrierPC(u)' = BarrierPC(u)
  BY <1>1 DEF BarrierPC
<1>. QED  BY <1>1, <1>2

LEMMA StepMaps ==
  ASSUME IInv, StageType, \A t \in Threads : RankInv(t), [Next]_vars, num_threads > 1
  PROVE  [SB!Next]_(SB!vars)
<1>type. TypeInv /\ pc \in [Threads -> PCs]
  BY DEF IInv, TypeInv
<1>n. SB!num_threads = num_threads
  BY BarConfig
<1> USE DEF lists, units, opers, kernel, barrier, control
<1>1. CASE UNCHANGED vars
  <2>1. UNCHANGED <<threads_starting, threads_ending, waiting, round>> /\ UNCHANGED pc
    BY <1>1 DEF vars
  <2>2. \A u \in Threads : BarrierPC(u)' = BarrierPC(u)
    BY <2>1 DEF BarrierPC
  <2>. QED  BY <2>1, <2>2, BarrierStutter
<1>2. ASSUME NEW x \in inflight, Complete(x) PROVE [SB!Next]_(SB!vars)
  <2>1. UNCHANGED <<threads_starting, threads_ending, waiting, round>> /\ UNCHANGED pc
    BY <1>2 DEF Complete
  <2>2. \A u \in Threads : BarrierPC(u)' = BarrierPC(u)
    BY <2>1 DEF BarrierPC
  <2>. QED  BY <2>1, <2>2, BarrierStutter
<1>3. ASSUME NEW t \in Threads, SubmitFails(t) PROVE [SB!Next]_(SB!vars)
  <2>1. UNCHANGED <<threads_starting, threads_ending, waiting, round>> /\ UNCHANGED pc
    BY <1>3 DEF SubmitFails
  <2>2. \A u \in Threads : BarrierPC(u)' = BarrierPC(u)
    BY <2>1 DEF BarrierPC
  <2>. QED  BY <2>1, <2>2, BarrierStutter
<1>4. ASSUME NEW t \in Threads, SpuriousWake(t) PROVE [SB!Next]_(SB!vars)
  <2>1. UNCHANGED pc
    BY <1>4 DEF SpuriousWake
  <2>2. \A u \in Threads : BarrierPC(u)' = BarrierPC(u)
    BY <2>1 DEF BarrierPC
  <2>3. SB!SpuriousWake(t)
    BY <1>4, <2>2 DEF SpuriousWake, SB!SpuriousWake
  <2>. QED  BY <2>3 DEF SB!Next
<1>5. ASSUME NEW t \in Threads, Worker(t) PROVE [SB!Next]_(SB!vars)
  <2>b. /\ BarrierPC(t) = "start" <=> pc[t] = "start"
        /\ BarrierPC(t) = "startwait" <=> pc[t] = "startwait"
        /\ BarrierPC(t) = "stage" <=> pc[t] \in InStage \cup {"restart", "end"}
        /\ BarrierPC(t) = "endwait" <=> pc[t] = "endwait"
        /\ BarrierPC(t) = "again" <=> pc[t] \in {"again", "free", "exit"}
    BY <1>type, BarrierPlaces
  <2>s. SB!Step(t) => SB!Next
    BY DEF SB!Next
  <2>1. CASE ArriveStart(t)
    <3>1. CASE threads_starting + 1 = num_threads
      <4>1. /\ pc[t] = "start" /\ pc' = [pc EXCEPT ![t] = "begin"]
            /\ round' = [round EXCEPT ![t] = @ + 1] /\ threads_starting' = threads_starting + 1
            /\ threads_ending' = 0 /\ waiting' = {}
        BY <2>1, <3>1 DEF ArriveStart, Goto, OpenStart
      <4>2. BarrierPC(t)' = "stage" /\ BarrierPC(t) = "start"
        BY <1>type, <2>b, <4>1, BarrierMoves DEF BarrierPC, StagePCs
      <4>3. SB!LastToStart(t)
        BY <1>n, <1>type, <3>1, <4>1, <4>2, BarrierMoves DEF SB!LastToStart, SB!Goto, SB!EnterStage
      <4>. QED  BY <2>s, <4>3 DEF SB!Step
    <3>2. CASE threads_starting + 1 # num_threads
      <4>1. /\ pc[t] = "start" /\ pc' = [pc EXCEPT ![t] = "startwait"]
            /\ threads_starting' = threads_starting + 1 /\ waiting' = waiting \cup {t}
            /\ UNCHANGED <<threads_ending, round>>
        BY <2>1, <3>2 DEF ArriveStart, Goto
      <4>2. BarrierPC(t)' = "startwait" /\ BarrierPC(t) = "start"
        BY <1>type, <2>b, <4>1, BarrierMoves DEF BarrierPC, StagePCs
      <4>3. SB!WaitToStart(t)
        BY <1>n, <1>type, <3>2, <4>1, <4>2, BarrierMoves DEF SB!WaitToStart, SB!Goto
      <4>. QED  BY <2>s, <4>3 DEF SB!Step
    <3>. QED  BY <3>1, <3>2
  <2>2. CASE WakeStart(t)
    <3>1. CASE threads_starting = num_threads
      <4>1. /\ pc[t] = "startwait" /\ pc' = [pc EXCEPT ![t] = "begin"] /\ t \notin waiting
            /\ round' = [round EXCEPT ![t] = @ + 1]
            /\ UNCHANGED <<waiting, threads_starting, threads_ending>>
        BY <2>2, <3>1 DEF WakeStart, Goto
      <4>2. BarrierPC(t)' = "stage" /\ BarrierPC(t) = "startwait"
        BY <1>type, <2>b, <4>1, BarrierMoves DEF BarrierPC, StagePCs
      <4>3. SB!WakeStart(t)
        BY <1>n, <1>type, <3>1, <4>1, <4>2, BarrierMoves DEF SB!WakeStart, SB!Goto, SB!EnterStage
      <4>. QED  BY <2>s, <4>3 DEF SB!Step
    <3>2. CASE threads_starting # num_threads
      <4>1. /\ pc[t] = "startwait" /\ pc' = [pc EXCEPT ![t] = "startwait"] /\ t \notin waiting
            /\ waiting' = waiting \cup {t} /\ UNCHANGED <<round, threads_starting, threads_ending>>
        BY <2>2, <3>2 DEF WakeStart, Goto
      <4>2. pc' = pc
        BY <1>type, <4>1
      <4>3. SB!WaitAgain(t)
        BY <1>n, <2>b, <3>2, <4>1, <4>2 DEF SB!WaitAgain, BarrierPC
      <4>. QED  BY <2>s, <4>3 DEF SB!Step
    <3>. QED  BY <3>1, <3>2
  <2>3. CASE ArriveEnd(t)
    <3>1. CASE threads_ending + 1 = num_threads
      <4>1. /\ pc[t] = "end" /\ pc' = [pc EXCEPT ![t] = "again"] /\ UNCHANGED round
            /\ threads_ending' = threads_ending + 1 /\ threads_starting' = 0 /\ waiting' = {}
        BY <2>3, <3>1 DEF ArriveEnd, Goto, OpenEnd
      <4>2. BarrierPC(t)' = "again" /\ BarrierPC(t) = "stage"
        BY <1>type, <2>b, <4>1, BarrierMoves DEF BarrierPC, StagePCs
      <4>3. SB!LastToEnd(t)
        BY <1>n, <1>type, <3>1, <4>1, <4>2, BarrierMoves DEF SB!LastToEnd, SB!Goto
      <4>. QED  BY <2>s, <4>3 DEF SB!Step
    <3>2. CASE threads_ending + 1 # num_threads
      <4>1. /\ pc[t] = "end" /\ pc' = [pc EXCEPT ![t] = "endwait"]
            /\ threads_ending' = threads_ending + 1 /\ waiting' = waiting \cup {t}
            /\ UNCHANGED <<threads_starting, round>>
        BY <2>3, <3>2 DEF ArriveEnd, Goto
      <4>2. BarrierPC(t)' = "endwait" /\ BarrierPC(t) = "stage"
        BY <1>type, <2>b, <4>1, BarrierMoves DEF BarrierPC, StagePCs
      <4>3. SB!WaitToEnd(t)
        BY <1>n, <1>type, <3>2, <4>1, <4>2, BarrierMoves DEF SB!WaitToEnd, SB!Goto
      <4>. QED  BY <2>s, <4>3 DEF SB!Step
    <3>. QED  BY <3>1, <3>2
  <2>4. CASE WakeEnd(t)
    <3>1. CASE threads_ending = num_threads
      <4>1. /\ pc[t] = "endwait" /\ pc' = [pc EXCEPT ![t] = "again"] /\ t \notin waiting
            /\ UNCHANGED <<waiting, round, threads_starting, threads_ending>>
        BY <2>4, <3>1 DEF WakeEnd, Goto
      <4>2. BarrierPC(t)' = "again" /\ BarrierPC(t) = "endwait"
        BY <1>type, <2>b, <4>1, BarrierMoves DEF BarrierPC, StagePCs
      <4>3. SB!WakeEnd(t)
        BY <1>n, <1>type, <3>1, <4>1, <4>2, BarrierMoves DEF SB!WakeEnd, SB!Goto
      <4>. QED  BY <2>s, <4>3 DEF SB!Step
    <3>2. CASE threads_ending # num_threads
      <4>1. /\ pc[t] = "endwait" /\ pc' = [pc EXCEPT ![t] = "endwait"] /\ t \notin waiting
            /\ waiting' = waiting \cup {t} /\ UNCHANGED <<round, threads_starting, threads_ending>>
        BY <2>4, <3>2 DEF WakeEnd, Goto
      <4>2. pc' = pc
        BY <1>type, <4>1
      <4>3. SB!WaitAgain(t)
        BY <1>n, <2>b, <3>2, <4>1, <4>2 DEF SB!WaitAgain, BarrierPC
      <4>. QED  BY <2>s, <4>3 DEF SB!Step
    <3>. QED  BY <3>1, <3>2
  <2>5. CASE Again(t)
    <3>0. UNCHANGED <<threads_starting, threads_ending, waiting, round>>
      BY <2>5 DEF Again
    <3>1. CASE active[t] # <<>> /\ MoreIterations(t)
      <4>1. pc[t] = "again" /\ pc' = [pc EXCEPT ![t] = "start"]
        BY <2>5, <3>1 DEF Again, Goto
      <4>2. BarrierPC(t)' = "start" /\ BarrierPC(t) = "again"
        BY <1>type, <2>b, <4>1, BarrierMoves DEF BarrierPC, StagePCs
      <4>3. round[t] < Cardinality(stages)
        <5>1. active[t] \in Seq(Opers)
          BY DEF IInv, TypeInv
        <5>2. active[t][1] \in ToSet(active[t]) /\ active[t][1] \in Opers
          BY <3>1, <5>1, Listed
        <5>3. Fresh(t, active[t][1])
          BY <3>1, <4>1, <5>2 DEF RankInv, Leaving
        <5>4. rw[active[t][1]] \in stages
          BY <5>2 DEF StageType
        <5>. QED  BY <5>3, <5>4, RankFacts DEF Fresh
      <4>4. SB!Restart(t)
        BY <1>type, <3>0, <4>1, <4>2, <4>3, BarrierMoves DEF SB!Restart, SB!Goto
      <4>. QED  BY <2>s, <4>4 DEF SB!Step
    <3>2. CASE ~(active[t] # <<>> /\ MoreIterations(t))
      <4>1. pc[t] = "again" /\ pc' = [pc EXCEPT ![t] = "free"]
        BY <2>5, <3>2 DEF Again, Goto
      <4>2. BarrierPC(t)' = "again" /\ BarrierPC(t) = "again"
        BY <1>type, <2>b, <4>1, BarrierMoves DEF BarrierPC, StagePCs
      <4>. QED  BY <1>type, <3>0, <4>1, <4>2, BarrierMoves, BarrierStutter
    <3>. QED  BY <3>1, <3>2
  <2>6. CASE FreeOper(t)
    <3>1. \E q \in {"free", "exit"} : pc' = [pc EXCEPT ![t] = q]
      BY <2>6 DEF FreeOper, Goto
    <3>2. pc[t] = "free" /\ UNCHANGED <<threads_starting, threads_ending, waiting, round>>
      BY <2>6 DEF FreeOper, Goto
    <3>3. BarrierPC(t)' = "again" /\ BarrierPC(t) = "again"
      BY <1>type, <2>b, <3>1, <3>2, BarrierMoves DEF BarrierPC, StagePCs
    <3>. QED  BY <1>type, <3>1, <3>2, <3>3, BarrierMoves, BarrierStutter
  <2>7. CASE BeginStage(t) \/ Stage(t)
    <3>1. UNCHANGED <<threads_starting, threads_ending, waiting, round>>
      BY <2>7 DEF BeginStage, Stage, Cutoff, RunActiveList, LeaveLoop, PickOper, BuildIocb,
           FindIouWaits, OperBuilt, NothingBuilt, Submit, SubmitAgain, ReapAndResubmit, SortBuilt,
           Sorted, WaitOneEvent, WaitNextOper, RestartOper
    <3>2. pc[t] \in InStage \cup {"restart"}
          /\ \E q \in InStage \cup {"restart", "end"} : pc' = [pc EXCEPT ![t] = q]
      <4> USE DEF Goto, InStage, Inner, Holding, Building
      <4>1. CASE BeginStage(t)
        BY <4>1 DEF BeginStage
      <4>2. CASE Cutoff(t) \/ RunActiveList(t) \/ LeaveLoop(t)
        BY <4>2 DEF Cutoff, RunActiveList, LeaveLoop
      <4>3. CASE PickOper(t)
        BY <4>3 DEF PickOper
      <4>4. CASE BuildIocb(t) \/ FindIouWaits(t) \/ NothingBuilt(t) \/ ReapAndResubmit(t)
                 \/ SortBuilt(t) \/ Sorted(t) \/ WaitOneEvent(t)
        BY <4>4 DEF BuildIocb, FindIouWaits, NothingBuilt, ReapAndResubmit, SortBuilt, Sorted,
             WaitOneEvent
      <4>5. CASE OperBuilt(t)
        BY <4>5 DEF OperBuilt
      <4>6. CASE Submit(t) \/ SubmitAgain(t)
        BY <4>6 DEF Submit, SubmitAgain
      <4>7. CASE WaitNextOper(t)
        BY <4>7 DEF WaitNextOper
      <4>8. CASE RestartOper(t)
        BY <4>8 DEF RestartOper, RestartOrSkip
      <4>. QED  BY <2>7, <4>1, <4>2, <4>3, <4>4, <4>5, <4>6, <4>7, <4>8 DEF Stage
    <3>3. pc'[t] \in StagePCs /\ pc[t] \in StagePCs
      BY <1>type, <3>2 DEF StagePCs, InStage, Inner, Holding, Building
    <3>4. BarrierPC(t)' = "stage" /\ BarrierPC(t) = "stage"
      <4>1. BarrierPC(t)' = "stage"
        BY ONLY <3>3 DEF BarrierPC, StagePCs
      <4>2. BarrierPC(t) = "stage"
        BY ONLY <3>3 DEF BarrierPC, StagePCs
      <4>. QED  BY <4>1, <4>2
    <3>. QED  BY <1>type, <3>1, <3>2, <3>4, BarrierMoves, BarrierStutter
  <2>. QED  BY <1>5, <2>1, <2>2, <2>3, <2>4, <2>5, <2>6, <2>7 DEF Worker, Barrier
<1>. QED  BY <1>1, <1>2, <1>3, <1>4, <1>5 DEF Next

\* The invariant of the barrier, of the engine's state.
BarrierInv ==
  /\ num_threads > 1 => Bar!IInv
  /\ num_threads = 1 => threads_ending = 0

LEMMA InitMaps == Init => SB!Init
  BY DEF Init, SB!Init, BarrierPC, StagePCs

LEMMA BarrierInit == Init => BarrierInv
<1> SUFFICES ASSUME Init PROVE BarrierInv
  OBVIOUS
<1>1. ASSUME num_threads > 1 PROVE Bar!IInv
  <2>1. Bar!ThreadsAssumption /\ Bar!RoundAssumption
    BY <1>1, BarConfig
  <2>2. Bar!Init
    BY InitMaps DEF SB!Init, Bar!Init
  <2>. QED  BY <2>1, <2>2, Bar!InitIInv
<1>2. threads_ending = 0
  BY DEF Init
<1>. QED  BY <1>1, <1>2 DEF BarrierInv

LEMMA BarrierNext ==
  ASSUME IInv, StageType, \A t \in Threads : RankInv(t), BarrierInv, [Next]_vars
  PROVE  BarrierInv'
<1>1. ASSUME num_threads > 1 PROVE Bar!IInv'
  <2>1. Bar!ThreadsAssumption /\ Bar!RoundAssumption
    BY <1>1, BarConfig
  <2>2. [SB!Next]_(SB!vars)
    BY <1>1, StepMaps
  <2>3. [Bar!Next]_(Bar!vars)
    <3>1. Bar!num_threads = SB!num_threads
      BY DEF Bar!num_threads, SB!num_threads, Bar!Cardinality, SB!Cardinality
    <3>2. CASE UNCHANGED SB!vars
      BY <3>2 DEF SB!vars, Bar!vars
    <3>3. ASSUME NEW t \in Threads, SB!Step(t) \/ SB!SpuriousWake(t) PROVE Bar!Next
      <4> USE DEF SB!Goto, Bar!Goto, SB!EnterStage, Bar!EnterStage
      <4>1. SB!LastToStart(t) => Bar!LastToStart(t)
        BY <3>1 DEF SB!LastToStart, Bar!LastToStart
      <4>2. SB!WaitToStart(t) => Bar!WaitToStart(t)
        BY <3>1 DEF SB!WaitToStart, Bar!WaitToStart
      <4>3. SB!WakeStart(t) => Bar!WakeStart(t)
        BY <3>1 DEF SB!WakeStart, Bar!WakeStart
      <4>4. SB!WaitAgain(t) => Bar!WaitAgain(t)
        BY <3>1 DEF SB!WaitAgain, Bar!WaitAgain
      <4>5. SB!LastToEnd(t) => Bar!LastToEnd(t)
        BY <3>1 DEF SB!LastToEnd, Bar!LastToEnd
      <4>6. SB!WaitToEnd(t) => Bar!WaitToEnd(t)
        BY <3>1 DEF SB!WaitToEnd, Bar!WaitToEnd
      <4>7. SB!WakeEnd(t) => Bar!WakeEnd(t)
        BY <3>1 DEF SB!WakeEnd, Bar!WakeEnd
      <4>8. SB!Restart(t) => Bar!Restart(t)
        BY DEF SB!Restart, Bar!Restart, SB!Cardinality, Bar!Cardinality
      <4>9. SB!SpuriousWake(t) => Bar!SpuriousWake(t)
        BY DEF SB!SpuriousWake, Bar!SpuriousWake
      <4>. QED  BY <3>3, <4>1, <4>2, <4>3, <4>4, <4>5, <4>6, <4>7, <4>8, <4>9
                DEF SB!Step, Bar!Step, Bar!Next
    <3>. QED  BY <2>2, <3>2, <3>3 DEF SB!Next
  <2>. QED  BY <1>1, <2>1, <2>3, Bar!IInvNext DEF BarrierInv
<1>2. ASSUME num_threads = 1 PROVE threads_ending' = 0
  <2>1. threads_ending = 0
    BY <1>2 DEF BarrierInv
  <2>2. UNCHANGED threads_ending
    <3> USE DEF barrier
    <3>1. CASE UNCHANGED vars
      BY <3>1 DEF vars
    <3>2. ASSUME NEW x \in inflight, Complete(x) PROVE UNCHANGED threads_ending
      BY <3>2 DEF Complete
    <3>3. ASSUME NEW t \in Threads, Worker(t) \/ SubmitFails(t) \/ SpuriousWake(t)
          PROVE  UNCHANGED threads_ending
      <4>1. ~ArriveStart(t) /\ ~ArriveEnd(t) => UNCHANGED threads_ending
        BY <3>3 DEF Worker, Barrier, Stage, SubmitFails, SpuriousWake, WakeStart, BeginStage, WakeEnd,
             Again, FreeOper, Cutoff, RunActiveList, LeaveLoop, PickOper, BuildIocb,
             FindIouWaits, OperBuilt, NothingBuilt, Submit, SubmitAgain, ReapAndResubmit, SortBuilt,
             Sorted, WaitOneEvent, WaitNextOper, RestartOper
      <4>2. ArriveStart(t) \/ ArriveEnd(t) => UNCHANGED threads_ending
        BY <1>2 DEF ArriveStart, ArriveEnd
      <4>. QED  BY <4>1, <4>2
    <3>. QED  BY <3>1, <3>2, <3>3 DEF Next
  <2>. QED  BY <2>1, <2>2
<1>. QED  BY <1>1, <1>2 DEF BarrierInv

\* What the invariant of the barrier says of a thread that is in a stage.
LEMMA StageOn ==
  ASSUME IInv, BarrierInv, num_threads > 1, NEW t \in Threads,
         pc[t] \in InStage \cup {"restart", "end"}
  PROVE  /\ \A u \in Threads : pc[u] # "start"
         /\ threads_ending \in Nat
         /\ threads_ending # 0 => \E u \in Threads \ {t} : pc[u] = "endwait"
<1>1. Bar!ThreadsAssumption /\ Bar!RoundAssumption /\ Bar!IInv
  BY BarConfig DEF BarrierInv
<1>2. [u \in Threads |-> BarrierPC(u)][t] = "stage"
  BY BarrierPlaces DEF IInv
<1>3. /\ \A u \in Threads : [v \in Threads |-> BarrierPC(v)][u] # "start"
      /\ threads_ending # 0 =>
           \E u \in Threads \ {t} : [v \in Threads |-> BarrierPC(v)][u] = "endwait"
  BY <1>1, <1>2, Bar!StageOn
<1>4. threads_ending \in Nat
  <2>1. Bar!num_threads = num_threads
    BY BarConfig DEF Bar!num_threads, SB!num_threads, Bar!Cardinality, SB!Cardinality
  <2>2. threads_ending \in 0..num_threads
    BY <1>1, <2>1 DEF Bar!IInv, Bar!TypeOK
  <2>. QED  BY <2>2, Config
<1>. QED  BY <1>3, <1>4, BarrierPlaces DEF IInv

\* Nobody takes a thread's reason to cut an operation off away from it.
LEMMA EndingStays ==
  ASSUME IInv, BarrierInv, NEW u \in Threads, Worker(u) \/ SubmitFails(u) \/ SpuriousWake(u),
         NEW t \in Threads \ {u}, pc[t] \in InStage, threads_ending # 0
  PROVE  threads_ending' # 0
<1>1. num_threads > 1
  BY Config DEF Threads
<1>2. pc[u] # "start" /\ threads_ending \in Nat
  BY <1>1, StageOn
<1>3. ~ArriveStart(u)
  BY <1>2 DEF ArriveStart, Goto
<1>4. ~ArriveEnd(u) => UNCHANGED threads_ending
  BY <1>3 DEF barrier, Worker, Barrier, Stage, SubmitFails, SpuriousWake, WakeStart, BeginStage, WakeEnd,
       Again, FreeOper, Cutoff, RunActiveList, LeaveLoop, PickOper, BuildIocb,
       FindIouWaits, OperBuilt, NothingBuilt, Submit, SubmitAgain, ReapAndResubmit, SortBuilt,
       Sorted, WaitOneEvent, WaitNextOper, RestartOper
<1>5. ArriveEnd(u) => threads_ending' = threads_ending + 1
  BY <1>1 DEF ArriveEnd
<1>. QED  BY <1>2, <1>4, <1>5

-----------------------------------------------------------------------------
(* The stages are kept apart. *)

RoundInv ==
  IInv /\ StageType /\ BarrierInv /\ \A t \in Threads : RankInv(t) /\ WallInv(t)

LEMMA RoundInit == Init => RoundInv
<1> SUFFICES ASSUME Init PROVE RoundInv
  OBVIOUS
<1>1. IInv /\ BarrierInv
  BY InitHolds, BarrierInit
<1>2. StageType
  <2>1. first_stage \in stages
    BY StageFacts
  <2>. QED  BY <2>1 DEF Init, StageType
<1>3. ASSUME NEW t \in Threads PROVE RankInv(t) /\ WallInv(t)
  <2>1. /\ pc[t] = "start" /\ active[t] = OperList(t) /\ finished[t] = <<>> /\ built[t] = <<>>
        /\ round[t] = 0
        /\ \A o \in Opers : /\ rw[o] = first_stage /\ last_err[o] = 0 /\ issued[o] = 0
                            /\ stonewalled[o] = 0
    BY DEF Init
  <2>2. active[t] # <<>> /\ \A o \in ToSet(active[t]) : o \in Opers
    <3>1. OperList(t) # <<>>
      <4>1. t \in 0..(num_threads - 1) /\ num_threads \in Nat \ {0} /\ num_threads <= NumOpers
            /\ NumOpers \in Nat
        BY Config DEF Threads
      <4>2. t + 1 \in Opers /\ (t + 1) - 1 = t
        BY <4>1 DEF Opers
      <4>3. t % num_threads = t
        BY <4>1
      <4>4. t + 1 \in ToSet(OperList(t))
        BY <4>2, <4>3, OperListFacts DEF OpersOf, ThreadOf
      <4>. QED  BY <4>4, OnceEmpty
    <3>2. \A o \in ToSet(active[t]) : o \in Opers
      BY <1>1, OwnOpers DEF IInv, DataInv
    <3>. QED  BY <2>1, <3>1, <3>2
  <2>3. Rank(first_stage) = 0
    BY StageFacts, RankFacts
  <2>4. \A o \in ToSet(active[t]) : Fresh(t, o)
    BY <2>1, <2>2, <2>3 DEF Fresh
  <2>5. ToSet(finished[t]) = {}
    BY <2>1, OnceEmpty
  <2>6. pc[t] \notin InStage \cup Leaving \cup {"begin", "wait", "restart"}
    BY <2>1 DEF InStage, Leaving, Inner, Holding, Building
  <2>7. RankInv(t)
    BY <2>2, <2>4, <2>5, <2>6 DEF RankInv
  <2>8. WallInv(t)
    BY <2>1, <2>6, OpersFacts DEF WallInv
  <2>. QED  BY <2>7, <2>8
<1>. QED  BY <1>1, <1>2, <1>3 DEF RoundInv

\* Steps of the kernel change no place, list or operation.
LEMMA CompleteLeaves ==
  ASSUME NEW t \in Threads, UNCHANGED <<control, lists, units, opers, barrier>>
  PROVE  /\ RankInv(t)' = RankInv(t) /\ WallInv(t)' = WallInv(t)
         /\ TransInv(t)' = TransInv(t) /\ TurnInv(t)' = TurnInv(t)
<1> USE DEF control, lists, units, opers, barrier
<1>1. RankInv(t)' = RankInv(t)
  BY DEF RankInv, Level, Fresh, MoreIterations, CanRestart, Ranges
<1>2. WallInv(t)' = WallInv(t)
  BY DEF WallInv
<1>3. TransInv(t)' = TransInv(t)
  BY DEF TransInv, Flawless, IssuedOf, ToAdd
<1>4. TurnInv(t)' = TurnInv(t)
  BY DEF TurnInv, InTurn, Issuing, Built, Current
<1>. QED  BY <1>1, <1>2, <1>3, <1>4

LEMMA RoundNext == RoundInv /\ [Next]_vars => RoundInv'
<1> SUFFICES ASSUME RoundInv, [Next]_vars PROVE RoundInv'
  OBVIOUS
<1>0. /\ IInv /\ StageType /\ BarrierInv /\ \A t \in Threads : RankInv(t) /\ WallInv(t)
      /\ IInv'
  BY NextHolds DEF RoundInv
<1>1. StageType'
  BY <1>0, StageTypeNext
<1>2. BarrierInv'
  BY <1>0, BarrierNext
<1>3. CASE UNCHANGED vars
  BY <1>0, <1>1, <1>2, <1>3, CompleteLeaves DEF vars, RoundInv
<1>4. ASSUME NEW x \in inflight, Complete(x) PROVE RoundInv'
  BY <1>0, <1>1, <1>2, <1>4, CompleteLeaves DEF Complete, RoundInv
<1>5. ASSUME NEW u \in Threads, Worker(u) \/ SubmitFails(u) \/ SpuriousWake(u)
      PROVE  RoundInv'
  <2>1. ASSUME NEW t \in Threads \ {u} PROVE RankInv(t)' /\ WallInv(t)'
    <3>1. SameStage(t)
      BY <1>0, <1>5, OtherThreads
    <3>2. pc[t] \in InStage /\ threads_ending # 0 => threads_ending' # 0
      BY <1>0, <1>5, EndingStays
    <3>. QED  BY <1>0, <3>1, <3>2, StageFrame
  <2>2. RankInv(u)' /\ WallInv(u)'
    <3>1. CASE SubmitFails(u) \/ SpuriousWake(u)
      <4>1. UNCHANGED <<control, lists, opers, round, threads_ending>>
        BY <3>1 DEF SubmitFails, SpuriousWake, barrier
      <4>2. RankInv(u)' = RankInv(u)
        BY <4>1 DEF control, lists, opers, RankInv, Level, Fresh, MoreIterations, CanRestart, Ranges
      <4>3. WallInv(u)' = WallInv(u)
        BY <4>1 DEF control, lists, opers, WallInv
      <4>. QED  BY <1>0, <4>2, <4>3
    <3>2. CASE InnerStep(u)
      BY <1>0, <3>2, InnerRank
    <3>3. CASE ArriveStart(u) \/ WakeStart(u)
      BY <1>0, <3>3, EnterRank
    <3>4. CASE BeginStage(u) \/ LeaveLoop(u)
      BY <1>0, <3>4, LoopRank
    <3>5. CASE WaitOneEvent(u) \/ WaitNextOper(u)
      BY <1>0, <3>5, WaitRank
    <3>6. CASE RestartOper(u)
      BY <1>0, <3>6, RestartRank
    <3>7. CASE ArriveEnd(u) \/ WakeEnd(u) \/ Again(u) \/ FreeOper(u)
      BY <1>0, <3>7, LeaveRank
    <3>. QED  BY <1>5, <3>1, <3>2, <3>3, <3>4, <3>5, <3>6, <3>7
              DEF Worker, Barrier, Stage, InnerStep
  <2>. QED  BY <1>0, <1>1, <1>2, <2>1, <2>2 DEF RoundInv
<1>. QED  BY <1>3, <1>4, <1>5 DEF Next

LEMMA Rounds == Spec => []RoundInv
BY RoundInit, RoundNext, PTL DEF Spec

\* With more than one thread the workers go through their stages as
\* StageBarrier says: whatever happens inside a stage, every step of the
\* engine is a step of the two barriers or none of their business.
THEOREM BarrierImplemented == num_threads > 1 => (Spec => BarrierRefinement)
<1> SUFFICES ASSUME num_threads > 1 PROVE Spec => BarrierRefinement
  OBVIOUS
<1>1. Init => SB!Init
  BY InitMaps
<1>2. RoundInv /\ [Next]_vars => [SB!Next]_(SB!vars)
  BY StepMaps DEF RoundInv
<1>. QED  BY <1>1, <1>2, Rounds, PTL DEF Spec, BarrierRefinement, SB!Spec

LEMMA WinnersExist == RoundInv => CutoffHasWinner
<1> SUFFICES ASSUME RoundInv, NEW o \in Opers, stonewalled[o] = 1, last_err[o] = 0,
                    pc[ThreadOf(o)] \in {"loop", "wait"}
             PROVE  \E u \in Threads \ {ThreadOf(o)} : pc[u] = "endwait"
  BY DEF CutoffHasWinner
<1>1. ThreadOf(o) \in Threads /\ o \in OpersOf(ThreadOf(o))
  BY OpersFacts
<1>2. pc[ThreadOf(o)] \in InStage /\ pc[ThreadOf(o)] \notin {"free", "exit"}
  BY DEF InStage, Inner
<1>3. WallInv(ThreadOf(o)) /\ IInv /\ BarrierInv
  BY <1>1 DEF RoundInv
<1>4. threads_ending # 0
  BY <1>1, <1>2, <1>3 DEF WallInv
<1>5. num_threads > 1
  BY <1>3, <1>4, Config DEF BarrierInv
<1>. QED  BY <1>1, <1>2, <1>3, <1>4, <1>5, StageOn

-----------------------------------------------------------------------------
(* The end of a stage: nothing is left with the kernel. *)

\* While operations are picked, what an operation still on the active list has
\* issued it has started.
LEMMA AllStarted ==
  ASSUME IInv, NEW t \in Threads, NEW o \in OpersOf(t),
         \/ pc[t] = "pick" /\ o \in ToSet(active[t])
         \/ pc[t] \notin Building
  PROVE  started_ios[o] = issued[o] /\ issued[o] \in Nat
<1>1. QueuedOf(t, o) = {}
  <2>1. CASE pc[t] = "pick" /\ o \in ToSet(active[t])
    <3>1. o \notin ToSet(built[t])
      BY <2>1 DEF IInv, DataInv, ListInv
    <3>2. \A x \in Queued(t) : x[1] \in ToSet(built[t])
      BY <2>1 DEF IInv, PlaceInv, BuildInv
    <3>. QED  BY <3>1, <3>2 DEF QueuedOf
  <2>2. CASE pc[t] \notin Building
    <3>1. Queued(t) = {}
      BY <2>2, OnceEmpty DEF IInv, PlaceInv, FitInv, Queued
    <3>. QED  BY <3>1 DEF QueuedOf
  <2>. QED  BY <2>1, <2>2
<1>2. issued[o] = started_ios[o] + Cardinality(QueuedOf(t, o))
  BY DEF IInv, DataInv, SentInv
<1>3. Cardinality(QueuedOf(t, o)) = 0
  BY <1>1, FS_EmptySet
<1>4. issued[o] \in Nat /\ started_ios[o] \in Nat
  BY OpersFacts DEF IInv, TypeInv
<1>. QED  BY <1>2, <1>3, <1>4

LEMMA PickEffect ==
  ASSUME IInv, NEW t \in Threads, PickOper(t)
  PROVE  /\ pc[t] = "pick" /\ UNCHANGED <<lists, opers, kernel, iocbs, submitted, stage_trans>>
         /\ \/ pc'[t] = "built"
            \/ pc'[t] = "pick" /\ cur[t] \in 1..Len(active[t]) /\ cur'[t] = cur[t] + 1
               /\ ~oper_runnable(Current(t))
            \/ /\ pc'[t] = "build" /\ cur[t] \in 1..Len(active[t]) /\ cur'[t] = cur[t]
               /\ num_ios(Current(t)) >= 0 /\ want'[t] = num_ios(Current(t))
<1>type. /\ pc \in [Threads -> PCs] /\ cur \in [Threads -> Nat] /\ want \in [Threads -> Nat]
         /\ active[t] \in Seq(Opers) /\ Len(active[t]) \in Nat /\ cur[t] \in Nat
  BY DEF IInv, TypeInv
<1>0. pc[t] = "pick" /\ UNCHANGED <<lists, opers, kernel, iocbs, submitted, stage_trans>>
  BY DEF PickOper
<1>1. cur[t] <= Len(active[t])
  BY <1>0 DEF IInv, PlaceInv, CurInv
<1> DEFINE o == active[t][cur[t]]
<1>2. CASE cur[t] = 0
  BY <1>0, <1>2, <1>type DEF PickOper, Goto
<1>3. CASE cur[t] # 0
  <2>0. cur[t] \in 1..Len(active[t])
    BY <1>1, <1>3, <1>type
  <2>1. CASE ~oper_runnable(o)
    BY <1>0, <1>3, <1>type, <2>0, <2>1 DEF PickOper, Goto, Current
  <2>2. CASE oper_runnable(o) /\ num_ios(o) < 0
    BY <1>0, <1>3, <1>type, <2>2 DEF PickOper, Goto
  <2>3. CASE oper_runnable(o) /\ ~(num_ios(o) < 0)
    <3>1. num_ios(o) \in Int
      <4>1. o \in Opers
        BY <1>type, <2>0
      <4>2. started_ios[o] \in Nat /\ total_ios(o) \in Int /\ io_iter \in Nat
        BY <4>1, TotalType, Config DEF IInv, TypeInv
      <4>. QED  BY <4>2 DEF num_ios
    <3>2. pc'[t] = "build" /\ cur'[t] = cur[t] /\ want'[t] = num_ios(o)
      BY <1>3, <1>type, <2>3 DEF PickOper, Goto
    <3>. QED  BY <1>0, <2>0, <2>3, <3>1, <3>2 DEF Current
  <2>. QED  BY <2>1, <2>2, <2>3
<1>. QED  BY <1>2, <1>3

LEMMA BuildEffect ==
  ASSUME IInv, NEW t \in Threads, BuildIocb(t)
  PROVE  /\ pc[t] = "build" /\ pc'[t] = "build" /\ want[t] \in Nat /\ want[t] > 0
         /\ want'[t] = want[t] - 1
         /\ Current(t) \in Opers /\ Current(t) \in OpersOf(t) /\ Current(t)' = Current(t)
         /\ issued[Current(t)] \in Nat /\ issued'[Current(t)] = issued[Current(t)] + 1
         /\ \A p \in Opers \ {Current(t)} : issued'[p] = issued[p]
         /\ iocbs'[t] = Append(iocbs[t], <<Current(t), issued[Current(t)] + 1>>)
         /\ UNCHANGED <<cur, lists, kernel, submitted, stage_trans, started_ios, last_err>>
<1>1. /\ pc[t] = "build" /\ want[t] > 0 /\ pc' = [pc EXCEPT ![t] = "build"]
      /\ want' = [want EXCEPT ![t] = @ - 1]
      /\ issued' = [issued EXCEPT ![Current(t)] = @ + 1]
      /\ iocbs' = [iocbs EXCEPT ![t] = Append(@, <<Current(t), issued[Current(t)] + 1>>)]
      /\ UNCHANGED <<cur, lists, kernel, submitted, stage_trans, started_ios, last_err>>
  BY DEF BuildIocb, Goto, Current
<1>2. Current(t) \in Opers /\ Current(t) \in OpersOf(t)
  BY <1>1, CurrentFacts DEF IInv, DataInv, PlaceInv
<1>3. /\ pc \in [Threads -> PCs] /\ want \in [Threads -> Nat] /\ issued \in [Opers -> Nat]
      /\ iocbs \in [Threads -> Seq(Ios)]
  BY DEF IInv, TypeInv
<1>4. Current(t)' = Current(t)
  BY <1>1 DEF Current, lists
<1>. QED  BY <1>1, <1>2, <1>3, <1>4

\* When the last wait is over, nothing of the thread is with the kernel.
LEMMA WaitedOut ==
  ASSUME IInv, StageType, NEW t \in Threads, RankInv(t), DrainInv(t), WaitNextOper(t),
         pc'[t] # "wait", Iterations = RUN_FOREVER
  PROVE  InflightOf(t) = {} /\ EventsOf(t) = {}
<1>type. /\ pc \in [Threads -> PCs] /\ cur[t] \in Nat
         /\ finished[t] \in Seq(Opers) /\ Len(finished[t]) \in Nat
         /\ TypeInv /\ ListInv(t) /\ IoInv(t) /\ CountInv(t) /\ CurInv(t) /\ WaitInv(t) /\ FitInv(t)
  BY DEF IInv, TypeInv, DataInv, PlaceInv
<1>1. /\ pc[t] = "wait"
      /\ \/ cur[t] = 0
         \/ cur[t] # 0 /\ num_pending[finished[t][cur[t]]] = 0 /\ cur[t] = Len(finished[t])
  BY <1>type DEF WaitNextOper, Goto, LastFinished
<1>2. active[t] = <<>> /\ built[t] = <<>>
  BY <1>1, <1>type DEF RankInv, MoreIterations, FitInv, Holding, Building
<1>3. Ranges(t) = ToSet(finished[t])
  BY <1>2, OnceEmpty DEF Ranges
<1>4. \A o \in ToSet(finished[t]) : num_pending[o] = 0
  <2> SUFFICES ASSUME NEW o \in ToSet(finished[t]) PROVE num_pending[o] = 0
    OBVIOUS
  <2>1. PICK i \in 1..Len(finished[t]) : finished[t][i] = o
    BY <1>type DEF ToSet
  <2>2. cur[t] # 0
    <3>1. cur[t] = 0 => finished[t] = <<>>
      BY <1>1 DEF RankInv
    <3>. QED  BY <1>type, <2>1, <3>1
  <2>3. i = cur[t] \/ i \in 1..(cur[t] - 1)
    BY <1>1, <1>type, <2>1, <2>2
  <2>. QED  BY <1>1, <1>type, <2>1, <2>2, <2>3 DEF WaitInv
<1>5. \A o \in OpersOf(t) : num_pending[o] = 0 \/ issued[o] = 0
  <2> SUFFICES ASSUME NEW o \in OpersOf(t), num_pending[o] # 0 PROVE issued[o] = 0
    OBVIOUS
  <2>1. o \notin Ranges(t)
    BY <1>3, <1>4
  <2>2. ~(total_ios(o) > 0)
    BY <1>1, <1>type, <2>1 DEF WaitInv
  <2>3. total_ios(o) <= 0
    BY <2>2, TotalType, OpersFacts
  <2>. QED  BY <2>3 DEF DrainInv
<1>6. \A o \in OpersOf(t) : num_pending[o] = 0 => InflightAt(o) = {} /\ EventsAt(o) = {}
  <2> SUFFICES ASSUME NEW o \in OpersOf(t), num_pending[o] = 0
               PROVE  InflightAt(o) = {} /\ EventsAt(o) = {}
    OBVIOUS
  <2>1. /\ IsFiniteSet(InflightAt(o)) /\ IsFiniteSet(EventsAt(o))
        /\ Cardinality(InflightAt(o)) \in Nat /\ Cardinality(EventsAt(o)) \in Nat
    BY <1>type, SlicesFinite
  <2>2. Cardinality(InflightAt(o)) + Cardinality(EventsAt(o)) = 0
    BY <1>type, Slices DEF CountInv
  <2>3. Cardinality(InflightAt(o)) = 0 /\ Cardinality(EventsAt(o)) = 0
    BY <2>1, <2>2
  <2>. QED  BY <2>1, <2>3, FS_EmptySet
<1>7. ASSUME NEW x \in InflightOf(t) PROVE FALSE
  <2>1. x[1] \in OpersOf(t) /\ x[2] <= issued[x[1]] /\ x \in inflight
    BY <1>type DEF IoInv, InflightOf
  <2>2. x[2] \in Nat \ {0}
    BY <1>type, <2>1 DEF TypeInv, Ios
  <2>3. issued[x[1]] # 0
    BY <2>1, <2>2
  <2>4. x \notin InflightAt(x[1])
    BY <1>5, <1>6, <2>1, <2>3
  <2>. QED  BY <2>1, <2>4 DEF InflightAt
<1>8. ASSUME NEW e \in EventsOf(t) PROVE FALSE
  <2>1. e[1] \in OpersOf(t) /\ e[2] <= issued[e[1]] /\ e \in events
    BY <1>type DEF IoInv, EventsOf
  <2>2. e[2] \in Nat \ {0}
    BY <1>type, <2>1 DEF TypeInv, Evs
  <2>3. issued[e[1]] # 0
    BY <2>1, <2>2
  <2>4. e \notin EventsAt(e[1])
    BY <1>5, <1>6, <2>1, <2>3
  <2>. QED  BY <2>1, <2>4 DEF EventsAt
<1>. QED  BY <1>7, <1>8

LEMMA DrainOwn ==
  ASSUME RoundInv, NEW t \in Threads, Worker(t) \/ SubmitFails(t) \/ SpuriousWake(t), DrainInv(t)
  PROVE  DrainInv(t)'
<1>inv. IInv /\ StageType /\ RankInv(t) /\ TypeInv /\ pc \in [Threads -> PCs]
  BY DEF RoundInv, IInv, TypeInv
<1>in. Inner \cap {"begin", "wait", "restart", "free", "exit"} = {} /\ "build" \in Inner
       /\ Inner \cap (Leaving \cup Entering) = {}
  BY DEF Inner, Holding, Building, Leaving, Entering
<1>1. CASE BuildIocb(t)
  <2>1. /\ pc[t] = "build" /\ pc'[t] = "build" /\ want[t] > 0
        /\ Current(t) \in Opers /\ Current(t)' = Current(t)
        /\ \A p \in Opers \ {Current(t)} : issued'[p] = issued[p]
    BY <1>1, <1>inv, BuildEffect
  <2>2. ~(total_ios(Current(t)) <= 0)
    BY <2>1 DEF DrainInv
  <2>. QED  BY <1>in, <2>1, <2>2, OpersFacts DEF DrainInv
<1>2. CASE PickOper(t)
  <2>1. /\ pc[t] = "pick" /\ UNCHANGED <<lists, opers, kernel>>
        /\ \/ pc'[t] \in {"built", "pick"}
           \/ /\ pc'[t] = "build" /\ cur[t] \in 1..Len(active[t]) /\ cur'[t] = cur[t]
              /\ num_ios(Current(t)) >= 0 /\ want'[t] = num_ios(Current(t))
    BY <1>2, <1>inv, PickEffect
  <2>2. pc'[t] \in Inner
    BY <2>1 DEF Inner, Holding, Building
  <2>3. ASSUME pc'[t] = "build", total_ios(Current(t)') <= 0 PROVE want'[t] = 0
    <3>1. /\ cur[t] \in 1..Len(active[t]) /\ cur'[t] = cur[t]
          /\ num_ios(Current(t)) >= 0 /\ want'[t] = num_ios(Current(t))
      BY <2>1, <2>3
    <3>2. Current(t)' = Current(t)
      BY <2>1, <3>1 DEF Current, lists
    <3>3. Current(t) \in ToSet(active[t]) /\ Current(t) \in OpersOf(t) /\ Current(t) \in Opers
      BY <1>inv, <3>1, OwnOpers DEF IInv, DataInv, Current
    <3>4. started_ios[Current(t)] = issued[Current(t)] /\ issued[Current(t)] = 0
      BY <1>inv, <2>1, <2>3, <3>2, <3>3, AllStarted DEF DrainInv
    <3>5. total_ios(Current(t)) \in Int /\ io_iter \in Nat \ {0}
      BY <3>3, TotalType, Config
    <3>6. num_ios(Current(t)) = total_ios(Current(t))
      BY <2>3, <3>2, <3>4, <3>5 DEF num_ios
    <3>. QED  BY <2>3, <3>1, <3>2, <3>5, <3>6
  <2>4. UNCHANGED issued
    BY <2>1 DEF opers
  <2>. QED  BY <2>2, <2>3, <2>4 DEF DrainInv
<1>3. CASE FindIouWaits(t)
  <2>1. UNCHANGED <<issued, active, cur, want>> /\ pc[t] = "build" /\ pc'[t] = "build"
    BY <1>3, <1>inv DEF FindIouWaits, Goto, lists
  <2>2. Current(t)' = Current(t)
    BY <2>1 DEF Current
  <2>. QED  BY <1>in, <2>1, <2>2 DEF DrainInv
<1>4. CASE InnerStep(t) /\ ~BuildIocb(t) /\ ~PickOper(t) /\ ~FindIouWaits(t)
  <2>1. pc'[t] \in Inner
    BY <1>4, <1>inv, InnerEffect
  <2>2. UNCHANGED issued /\ pc'[t] # "build"
    <3>1. CASE Cutoff(t) \/ RunActiveList(t) \/ NothingBuilt(t) \/ SubmitAgain(t)
               \/ SortBuilt(t) \/ Sorted(t)
      BY <3>1, <1>inv DEF Cutoff, RunActiveList, NothingBuilt, SubmitAgain, SortBuilt, Sorted,
           Goto, opers
    <3>2. CASE OperBuilt(t)
      BY <3>2, <1>inv DEF OperBuilt, Goto, opers
    <3>3. CASE Submit(t)
      BY <3>3, <1>inv DEF Submit, Goto
    <3>4. CASE ReapAndResubmit(t)
      BY <3>4, <1>inv DEF ReapAndResubmit, Goto
    <3>. QED  BY <1>4, <3>1, <3>2, <3>3, <3>4 DEF InnerStep
  <2>. QED  BY <2>1, <2>2 DEF DrainInv
<1>5. CASE BeginStage(t) \/ LeaveLoop(t) \/ WaitOneEvent(t)
  <2>1. UNCHANGED issued /\ pc'[t] \in {"loop", "wait"}
    BY <1>5, <1>inv DEF BeginStage, LeaveLoop, WaitOneEvent, Goto, opers
  <2>2. pc'[t] \in Inner \cup {"wait"} /\ pc'[t] # "build"
    BY <2>1 DEF Inner
  <2>. QED  BY <2>1, <2>2 DEF DrainInv
<1>6. CASE WaitNextOper(t)
  <2>1. UNCHANGED <<issued, inflight, events>> /\ pc'[t] \in {"wait", "end", "restart"}
    BY <1>6, <1>inv DEF WaitNextOper, Goto, opers, kernel
  <2>2. pc'[t] # "wait" /\ Iterations = RUN_FOREVER => InflightOf(t)' = {} /\ EventsOf(t)' = {}
    BY <1>6, <1>inv, <2>1, WaitedOut DEF InflightOf, EventsOf
  <2>. QED  BY <2>1, <2>2 DEF DrainInv
<1>7. CASE RestartOper(t)
  <2>0. PICK o : o = finished[t][cur[t]]
    OBVIOUS
  <2>1. /\ pc[t] = "restart" /\ o \in Opers /\ UNCHANGED <<inflight, events>>
        /\ \/ issued'[o] = 0 /\ \A p \in Opers \ {o} : issued'[p] = issued[p]
           \/ UNCHANGED issued
        /\ pc'[t] \in {"end", "restart"}
    BY <1>7, <1>inv, <2>0, RestartEffect
  <2>2. InflightOf(t)' = InflightOf(t) /\ EventsOf(t)' = EventsOf(t)
    BY <2>1 DEF InflightOf, EventsOf
  <2>3. \A p \in OpersOf(t) : total_ios(p) <= 0 => issued'[p] = 0
    BY <2>1, OpersFacts DEF DrainInv
  <2>4. pc[t] \notin Inner \cup {"wait"}
    BY <1>in, <2>1
  <2>. QED  BY <2>1, <2>2, <2>3, <2>4 DEF DrainInv
<1>8. CASE ArriveStart(t) \/ WakeStart(t) \/ ArriveEnd(t) \/ WakeEnd(t) \/ Again(t) \/ FreeOper(t)
  <2>1. /\ UNCHANGED <<issued, inflight, events>> /\ pc[t] \in Entering \cup Leaving \cup {"free"}
        /\ pc'[t] # "build"
    BY <1>8, <1>inv DEF ArriveStart, WakeStart, ArriveEnd, WakeEnd, Again, FreeOper, Goto, opers,
         kernel, Entering, Leaving
  <2>2. InflightOf(t)' = InflightOf(t) /\ EventsOf(t)' = EventsOf(t)
    BY <2>1 DEF InflightOf, EventsOf
  <2>3. pc[t] \notin Inner \cup {"wait"}
    BY <1>in, <2>1 DEF Entering, Leaving
  <2>. QED  BY <2>1, <2>2, <2>3 DEF DrainInv
<1>9. CASE SubmitFails(t) \/ SpuriousWake(t)
  <2>1. UNCHANGED <<issued, inflight, events, pc, active, cur, want>>
    BY <1>9 DEF SubmitFails, SpuriousWake, control, lists, units, opers, kernel
  <2>. QED  BY <2>1 DEF DrainInv, InflightOf, EventsOf, Current
<1>. QED  BY <1>1, <1>2, <1>3, <1>4, <1>5, <1>6, <1>7, <1>8, <1>9
          DEF Worker, Barrier, Stage, InnerStep

\* A completion leaves a drained thread drained.
LEMMA DrainComplete ==
  ASSUME RoundInv, NEW x \in inflight, Complete(x), NEW t \in Threads, DrainInv(t)
  PROVE  DrainInv(t)'
<1>1. UNCHANGED <<pc, active, cur, want, issued>> /\ inflight' = inflight \ {x}
      /\ \E r : events' = events \cup {<<x[1], x[2], r>>}
  BY DEF Complete, control, lists, units, opers
<1>2. Current(t)' = Current(t)
  BY <1>1 DEF Current
<1>3. InflightOf(t) = {} /\ EventsOf(t) = {} => InflightOf(t)' = {} /\ EventsOf(t)' = {}
  BY <1>1 DEF InflightOf, EventsOf
<1>. QED  BY <1>1, <1>2, <1>3 DEF DrainInv

-----------------------------------------------------------------------------
(* The figures of a stage. *)

LEMMA IssuedNone ==
  ASSUME NEW S \in SUBSET Opers, \A o \in S : issued[o] = 0
  PROVE  IssuedOf(S) = {} /\ IsFiniteSet(IssuedOf(S)) /\ Cardinality(IssuedOf(S)) = 0
<1>1. IssuedOf(S) = {}
  BY DEF IssuedOf
<1>. QED  BY <1>1, FS_EmptySet

\* The records of one operation among those of several.
LEMMA IssuedSplit ==
  ASSUME NEW S \in SUBSET Opers, NEW o \in S, issued[o] \in Nat, IsFiniteSet(IssuedOf(S))
  PROVE  /\ IsFiniteSet(IssuedOf(S \ {o}))
         /\ Cardinality(IssuedOf(S \ {o})) \in Nat
         /\ Cardinality(IssuedOf(S)) = Cardinality(IssuedOf(S \ {o})) + issued[o]
<1> DEFINE n == issued[o]
           s == [k \in 1..n |-> <<o, k>>]
           R == {s[i] : i \in 1..n}
<1>0. n \in Nat
  OBVIOUS
<1>1. s \in Seq(Ios) /\ Len(s) = n /\ Once(s)
  <2>1. \A k \in 1..n : <<o, k>> \in Ios
    BY <1>0 DEF Ios
  <2>2. s \in Seq(Ios) /\ Len(s) = n
    BY <1>0, <2>1
  <2>. QED  BY <2>2 DEF Once
<1>2. IsFiniteSet(R) /\ Cardinality(R) = n
  <2>1. n \in 0..Len(s)
    BY <1>0, <1>1
  <2> HIDE DEF s
  <2>. QED  BY <1>1, <2>1, OnceCount
<1>3. R = {<<o, k>> : k \in 1..n}
  OBVIOUS
<1> HIDE DEF R, s
<1>4. IssuedOf(S) \ IssuedOf(S \ {o}) = R
  <2>1. ASSUME NEW x \in IssuedOf(S), x \notin IssuedOf(S \ {o}) PROVE x \in R
    <3>1. x \in S \X (Nat \ {0}) /\ x[2] <= issued[x[1]]
      BY DEF IssuedOf
    <3>2. x[1] = o
      BY <2>1, <3>1 DEF IssuedOf
    <3>3. x = <<o, x[2]>> /\ x[2] \in 1..n
      BY <1>0, <3>1, <3>2
    <3>. QED  BY <1>3, <3>3
  <2>2. ASSUME NEW k \in 1..n PROVE <<o, k>> \in IssuedOf(S) /\ <<o, k>> \notin IssuedOf(S \ {o})
    BY <1>0 DEF IssuedOf
  <2>. QED  BY <1>3, <2>1, <2>2
<1>5. IssuedOf(S \ {o}) \subseteq IssuedOf(S)
  BY DEF IssuedOf
<1>6. /\ IsFiniteSet(IssuedOf(S \ {o}))
      /\ Cardinality(IssuedOf(S)) \in Nat /\ Cardinality(IssuedOf(S \ {o})) \in Nat
      /\ Cardinality(R) = Cardinality(IssuedOf(S)) - Cardinality(IssuedOf(S \ {o}))
  BY <1>4, <1>5, CountLess
<1>. QED  BY <1>0, <1>2, <1>6

\* Stages of the same rank are the same.
LEMMA RankInjective ==
  ASSUME NEW r \in stages, NEW s \in stages, Rank(r) = Rank(s)
  PROVE  r = s
<1>0. \A q \in stages : q \in Int
  BY StageFacts
<1>1. ASSUME NEW a \in stages, NEW b \in stages, a < b PROVE Rank(a) < Rank(b)
  <2>1. Earlier(b) \subseteq stages /\ Earlier(a) \subseteq Earlier(b)
    BY <1>0, <1>1 DEF Earlier
  <2>2. a \in Earlier(b) /\ a \notin Earlier(a)
    BY <1>0, <1>1 DEF Earlier
  <2>3. IsFiniteSet(Earlier(b))
    BY <2>1, StageFacts, FS_Subset
  <2>4. Earlier(a) # Earlier(b)
    BY <2>2
  <2>. QED  BY <2>1, <2>3, <2>4, FS_Subset, FS_CardinalityType DEF Rank
<1>2. Rank(r) \in Nat /\ Rank(s) \in Nat
  BY RankFacts
<1>3. ~(r < s) /\ ~(s < r)
  BY <1>1, <1>2
<1>. QED  BY <1>0, <1>3

\* Operations that are on no list have issued nothing.
LEMMA UnlistedIdle ==
  ASSUME IInv, NEW t \in Threads, DrainInv(t), pc[t] \notin {"free", "exit"},
         NEW o \in OpersOf(t), o \notin Ranges(t)
  PROVE  issued[o] = 0
<1>1. ~(total_ios(o) > 0)
  BY DEF IInv, PlaceInv, WaitInv
<1>2. total_ios(o) <= 0
  BY <1>1, TotalType, OpersFacts
<1>. QED  BY <1>2 DEF DrainInv

LEMMA TransBegin ==
  ASSUME RoundInv, NEW t \in Threads, BeginStage(t), DrainInv(t)
  PROVE  TransInv(t)'
<1> SUFFICES ASSUME Flawless(t)' PROVE TransInv(t)'
  BY DEF TransInv
<1>inv. IInv /\ StageType /\ RankInv(t) /\ TypeInv /\ FitInv(t)
        /\ pc \in [Threads -> PCs] /\ submitted \in [Threads -> Nat]
        /\ stage_trans \in [Threads -> Nat]
  BY DEF RoundInv, StageType, IInv, TypeInv, PlaceInv
<1>1. /\ pc[t] = "begin" /\ pc'[t] = "loop" /\ submitted'[t] = 0
      /\ active[t] # <<>> => stage_trans'[t] = 0
      /\ UNCHANGED <<lists, units, opers>>
  BY <1>inv DEF BeginStage, Goto
<1>2. stage_trans'[t] = 0
  BY <1>1, <1>inv DEF RankInv
<1>3. iocbs[t] = <<>> /\ built[t] = <<>> /\ iocbs' = iocbs /\ issued' = issued
  BY <1>1, <1>inv DEF FitInv, Holding, Building, units, opers
<1>4. Flawless(t)
  BY <1>1 DEF Flawless, opers
<1>own. \A o \in Ranges(t) : o \in OpersOf(t)
  BY <1>inv, OwnOpers DEF IInv, DataInv
<1>5. ASSUME NEW o \in OpersOf(t) PROVE issued[o] = 0
  <2>1. CASE o \in ToSet(active[t])
    BY <1>1, <1>inv, <2>1 DEF RankInv
  <2>2. CASE o \in ToSet(finished[t])
    BY <1>1, <1>4, <1>inv, <2>2 DEF RankInv, Flawless
  <2>3. CASE o \notin Ranges(t)
    BY <1>1, <1>inv, <2>3, UnlistedIdle
  <2>4. ToSet(built[t]) = {}
    BY <1>3, OnceEmpty
  <2>. QED  BY <2>1, <2>2, <2>3, <2>4 DEF Ranges
<1>6. OpersOf(t) \in SUBSET Opers
  BY OpersFacts
<1>7. IsFiniteSet(IssuedOf(OpersOf(t))) /\ Cardinality(IssuedOf(OpersOf(t))) = 0
  BY <1>5, <1>6, IssuedNone
<1>8. IssuedOf(OpersOf(t))' = IssuedOf(OpersOf(t)) /\ Len(iocbs'[t]) = 0
  BY <1>3, OnceEmpty DEF IssuedOf
<1>. QED  BY <1>1, <1>2, <1>7, <1>8 DEF TransInv

\* Steps of run_active_list and its loop, and the waits.
LEMMA TransInner ==
  ASSUME RoundInv, NEW t \in Threads, InnerStep(t) \/ LeaveLoop(t) \/ WaitOneEvent(t), TransInv(t)
  PROVE  TransInv(t)'
<1> SUFFICES ASSUME Flawless(t)' PROVE TransInv(t)'
  BY DEF TransInv
<1>inv. IInv /\ StageType /\ TypeInv
        /\ pc \in [Threads -> PCs] /\ submitted \in [Threads -> Nat] /\ submitted[t] \in Nat
        /\ iocbs \in [Threads -> Seq(Ios)] /\ iocbs[t] \in Seq(Ios) /\ Len(iocbs[t]) \in Nat
  <2>1. IInv /\ StageType /\ TypeInv
    BY DEF RoundInv, IInv
  <2>2. /\ pc \in [Threads -> PCs] /\ submitted \in [Threads -> Nat]
        /\ iocbs \in [Threads -> Seq(Ios)]
    BY <2>1 DEF TypeInv, StageType
  <2>. QED  BY <2>1, <2>2
<1>1. /\ pc[t] \in Inner \cup {"wait"} /\ pc'[t] \in Inner \cup {"wait"} /\ UNCHANGED stage_trans
      /\ \A o \in Opers : last_err'[o] = 0 => last_err[o] = 0
  <2>1. CASE InnerStep(t)
    BY <1>inv, <2>1, InnerEffect
  <2>2. CASE LeaveLoop(t)
    BY <1>inv, <2>2 DEF LeaveLoop, Goto, opers, Inner
  <2>3. CASE WaitOneEvent(t)
    <3>1. \A o \in Opers : last_err'[o] = 0 => last_err[o] = 0
      BY <2>3, ErrorsStay
    <3>. QED  BY <1>inv, <2>3, <3>1 DEF WaitOneEvent, Goto
  <2>. QED  BY <2>1, <2>2, <2>3
<1>2. Flawless(t)
  BY <1>1, OpersFacts DEF Flawless
<1>3. /\ IsFiniteSet(IssuedOf(OpersOf(t))) /\ stage_trans[t] = 0
      /\ submitted[t] + Len(iocbs[t]) = Cardinality(IssuedOf(OpersOf(t)))
  BY <1>1, <1>2 DEF TransInv
<1>s. "restart" \notin Inner \cup {"wait"} /\ "end" \notin Inner \cup {"wait"}
  BY DEF Inner, Holding, Building
<1> SUFFICES /\ IsFiniteSet(IssuedOf(OpersOf(t))')
             /\ submitted'[t] + Len(iocbs'[t]) = Cardinality(IssuedOf(OpersOf(t))')
  BY <1>1, <1>3, <1>s DEF TransInv
<1>4. CASE BuildIocb(t)
  <2>0. PICK o : o = Current(t)
    OBVIOUS
  <2>1. /\ o \in Opers /\ o \in OpersOf(t) /\ issued[o] \in Nat
        /\ issued'[o] = issued[o] + 1 /\ \A p \in Opers \ {o} : issued'[p] = issued[p]
        /\ iocbs'[t] = Append(iocbs[t], <<o, issued[o] + 1>>) /\ submitted' = submitted
    BY <1>4, <1>inv, <2>0, BuildEffect
  <2>2. <<o, issued[o] + 1>> \in Ios
    BY <2>1 DEF Ios
  <2>3. IssuedOf(OpersOf(t))' = IssuedOf(OpersOf(t)) \cup {<<o, issued[o] + 1>>}
    <3>1. ASSUME NEW p \in OpersOf(t), NEW k \in Nat \ {0}
          PROVE  k <= issued'[p] <=> k <= issued[p] \/ (p = o /\ k = issued[o] + 1)
      <4>1. p \in Opers /\ issued[p] \in Nat
        BY <1>inv, OpersFacts DEF TypeInv
      <4>2. CASE p = o
        BY <2>1, <4>2
      <4>3. CASE p # o
        BY <2>1, <4>1, <4>3
      <4>. QED  BY <4>2, <4>3
    <3>2. ASSUME NEW x \in IssuedOf(OpersOf(t))'
          PROVE  x \in IssuedOf(OpersOf(t)) \cup {<<o, issued[o] + 1>>}
      <4>1. x \in OpersOf(t) \X (Nat \ {0}) /\ x[2] <= issued'[x[1]]
        BY DEF IssuedOf
      <4>2. x = <<x[1], x[2]>> /\ x[1] \in OpersOf(t) /\ x[2] \in Nat \ {0}
        BY <4>1
      <4>. QED  BY <3>1, <4>1, <4>2 DEF IssuedOf
    <3>3. ASSUME NEW x \in IssuedOf(OpersOf(t)) PROVE x \in IssuedOf(OpersOf(t))'
      <4>1. x \in OpersOf(t) \X (Nat \ {0}) /\ x[2] <= issued[x[1]]
        BY DEF IssuedOf
      <4>2. x[1] \in OpersOf(t) /\ x[2] \in Nat \ {0}
        BY <4>1
      <4>. QED  BY <3>1, <4>1, <4>2 DEF IssuedOf
    <3>4. <<o, issued[o] + 1>> \in IssuedOf(OpersOf(t))'
      BY <2>1 DEF IssuedOf
    <3>. QED  BY <3>2, <3>3, <3>4
  <2>4. <<o, issued[o] + 1>> \notin IssuedOf(OpersOf(t))
    BY <2>1 DEF IssuedOf
  <2>5. /\ IsFiniteSet(IssuedOf(OpersOf(t))')
        /\ Cardinality(IssuedOf(OpersOf(t))') = Cardinality(IssuedOf(OpersOf(t))) + 1
    BY <1>3, <2>3, <2>4, FS_AddElement
  <2>6. Len(iocbs'[t]) = Len(iocbs[t]) + 1
    BY <1>inv, <2>1, <2>2
  <2>. QED  BY <1>3, <1>inv, <2>1, <2>5, <2>6
<1>5. CASE Submit(t)
  <2>1. PICK ret \in 1..MinOf(Len(iocbs[t]), Room(t)) :
          /\ iocbs' = [iocbs EXCEPT ![t] = SubSeq(@, ret + 1, Len(@))]
          /\ submitted' = [submitted EXCEPT ![t] = @ + ret]
    BY <1>5 DEF Submit
  <2>2. ret \in 0..Len(iocbs[t]) /\ ret \in Nat
    <3>1. Outstanding(t) \in Nat
      BY <1>inv, SlicesFinite DEF Outstanding
    <3>2. MinOf(Len(iocbs[t]), Room(t)) \in Int /\ MinOf(Len(iocbs[t]), Room(t)) <= Len(iocbs[t])
      BY <1>inv, <3>1, KernelAssumption DEF MinOf, Room
    <3>. QED  BY <1>inv, <3>2
  <2>3. Len(iocbs'[t]) = Len(iocbs[t]) - ret /\ submitted'[t] = submitted[t] + ret
    BY <1>inv, <2>1, <2>2, SuffixOf
  <2>4. IssuedOf(OpersOf(t))' = IssuedOf(OpersOf(t))
    BY <1>5 DEF Submit, IssuedOf
  <2>. QED  BY <1>3, <1>inv, <2>2, <2>3, <2>4
<1>6. CASE ~BuildIocb(t) /\ ~Submit(t)
  <2>1. UNCHANGED <<issued, submitted, iocbs>>
    BY <1>6 DEF InnerStep, Cutoff, RunActiveList, PickOper, FindIouWaits, OperBuilt, NothingBuilt,
         SubmitAgain, ReapAndResubmit, SortBuilt, Sorted, LeaveLoop, WaitOneEvent, opers, units
  <2>. QED  BY <1>3, <2>1 DEF IssuedOf
<1>. QED  BY <1>4, <1>5, <1>6

\* The wait is over: what the finished operations have issued is what the
\* thread has submitted.
LEMMA TransWaited ==
  ASSUME RoundInv, NEW t \in Threads, WaitNextOper(t), DrainInv(t), TransInv(t)
  PROVE  TransInv(t)'
<1> SUFFICES ASSUME Flawless(t)' PROVE TransInv(t)'
  BY DEF TransInv
<1>inv. IInv /\ StageType /\ TypeInv /\ RankInv(t) /\ FitInv(t) /\ ListInv(t)
        /\ pc \in [Threads -> PCs] /\ cur \in [Threads -> Nat] /\ submitted[t] \in Nat
        /\ finished[t] \in Seq(Opers) /\ Len(finished[t]) \in Nat
  <2>1. IInv /\ StageType /\ TypeInv /\ RankInv(t) /\ FitInv(t) /\ ListInv(t)
    BY DEF RoundInv, IInv, PlaceInv, DataInv
  <2>2. /\ pc \in [Threads -> PCs] /\ cur \in [Threads -> Nat]
        /\ finished \in [Threads -> Seq(Opers)]
    BY <2>1 DEF TypeInv
  <2>3. submitted \in [Threads -> Nat]
    BY <2>1 DEF StageType
  <2>. QED  BY <2>1, <2>2, <2>3
<1>1. /\ pc[t] = "wait" /\ UNCHANGED <<stage_trans, submitted, lists, units, opers>>
      /\ \/ pc'[t] = "wait"
         \/ pc'[t] = "end" /\ cur[t] = 0
         \/ pc'[t] = "restart" /\ cur'[t] = 1
  BY <1>inv DEF WaitNextOper, Goto
<1>2. UNCHANGED <<issued, finished, active, iocbs, last_err>>
  BY <1>1 DEF lists, units, opers
<1>3. Flawless(t)
  BY <1>2 DEF Flawless
<1>4. iocbs[t] = <<>> /\ built[t] = <<>> /\ Len(iocbs[t]) = 0
  BY <1>1, <1>inv, OnceEmpty DEF FitInv, Holding, Building
<1>5. /\ IsFiniteSet(IssuedOf(OpersOf(t))) /\ stage_trans[t] = 0
      /\ submitted[t] + Len(iocbs[t]) = Cardinality(IssuedOf(OpersOf(t)))
  BY <1>1, <1>3 DEF TransInv, Inner
<1>6. CASE pc'[t] = "wait"
  BY <1>1, <1>2, <1>5, <1>6 DEF TransInv, IssuedOf
<1>7. CASE pc'[t] # "wait" /\ Iterations = RUN_FOREVER
  <2>1. active[t] = <<>>
    BY <1>1, <1>7, <1>inv DEF RankInv, MoreIterations
  <2>2. Ranges(t) = ToSet(finished[t]) /\ ToSet(finished[t]) \subseteq OpersOf(t)
    BY <1>4, <1>inv, <2>1, OnceEmpty DEF Ranges, ListInv
  <2>3. IssuedOf(OpersOf(t)) = IssuedOf(ToSet(finished[t]))
    <3>1. ASSUME NEW o \in OpersOf(t), o \notin ToSet(finished[t]) PROVE issued[o] = 0
      BY <1>1, <1>inv, <2>2, <3>1, UnlistedIdle
    <3>2. ASSUME NEW x \in IssuedOf(OpersOf(t)) PROVE x \in IssuedOf(ToSet(finished[t]))
      <4>1. x \in OpersOf(t) \X (Nat \ {0}) /\ x[2] <= issued[x[1]]
        BY DEF IssuedOf
      <4>2. x[1] \in ToSet(finished[t])
        BY <3>1, <4>1
      <4>. QED  BY <4>1, <4>2 DEF IssuedOf
    <3>3. IssuedOf(ToSet(finished[t])) \subseteq IssuedOf(OpersOf(t))
      BY <2>2 DEF IssuedOf
    <3>. QED  BY <3>2, <3>3
  <2>4. CASE pc'[t] = "restart" /\ cur'[t] = 1
    <3>1. ToAdd(t)' = ToSet(finished[t])
      BY <1>2, <1>inv, <2>4 DEF ToAdd, ToSet
    <3>2. IssuedOf(ToAdd(t))' = IssuedOf(OpersOf(t))
      BY <1>2, <2>3, <3>1 DEF IssuedOf
    <3>3. stage_trans'[t] = 0 /\ submitted'[t] = Cardinality(IssuedOf(OpersOf(t)))
      BY <1>1, <1>4, <1>5, <1>inv
    <3>4. submitted'[t] = stage_trans'[t] + Cardinality(IssuedOf(ToAdd(t))')
      BY <1>1, <1>inv, <3>2, <3>3
    <3>. QED  BY <1>5, <2>4, <3>2, <3>4 DEF TransInv, Inner, Holding, Building
  <2>5. CASE pc'[t] = "end" /\ cur[t] = 0
    <3>1. ToSet(finished[t]) = {}
      BY <1>1, <1>inv, <2>5, OnceEmpty DEF RankInv
    <3>2. Cardinality(IssuedOf(OpersOf(t))) = 0
      BY <2>3, <3>1, IssuedNone
    <3>3. submitted'[t] = stage_trans'[t]
      BY <1>1, <1>4, <1>5, <1>inv, <3>2
    <3>. QED  BY <2>5, <3>3 DEF TransInv, Inner, Holding, Building
  <2>. QED  BY <1>1, <1>7, <2>4, <2>5
<1>8. CASE pc'[t] # "wait" /\ Iterations # RUN_FOREVER
  <2>1. pc'[t] \notin Inner \cup {"wait"}
    BY <1>1, <1>8 DEF Inner, Holding, Building
  <2>. QED  BY <1>8, <2>1 DEF TransInv
<1>. QED  BY <1>6, <1>7, <1>8

\* Adding up.  Without errors all finished operations are in the same stage,
\* so the loop restarts all of them or none, and adds each one once.
LEMMA TransRestart ==
  ASSUME RoundInv, NEW t \in Threads, RestartOper(t), TransInv(t)
  PROVE  TransInv(t)'
<1> SUFFICES ASSUME Flawless(t)', Iterations = RUN_FOREVER,
                    pc'[t] \in {"restart", "end"}
             PROVE  TransInv(t)'
  <2>1. pc'[t] \in {"restart", "end"}
    BY RestartEffect DEF RoundInv
  <2>. QED  BY <2>1 DEF TransInv, Inner, Holding, Building
<1>inv. IInv /\ StageType /\ TypeInv /\ RankInv(t) /\ ListInv(t)
        /\ cur[t] \in Nat /\ submitted[t] \in Nat /\ stage_trans[t] \in Nat
        /\ finished[t] \in Seq(Opers) /\ Len(finished[t]) \in Nat
  <2>1. IInv /\ StageType /\ TypeInv /\ RankInv(t) /\ ListInv(t)
    BY DEF RoundInv, IInv, DataInv
  <2>2. cur \in [Threads -> Nat] /\ finished \in [Threads -> Seq(Opers)]
    BY <2>1 DEF TypeInv
  <2>3. submitted \in [Threads -> Nat] /\ stage_trans \in [Threads -> Nat]
    BY <2>1 DEF StageType
  <2>. QED  BY <2>1, <2>2, <2>3
<1>0. PICK o : o = finished[t][cur[t]]
  OBVIOUS
<1>1. /\ pc[t] = "restart" /\ cur[t] \in 1..Len(finished[t])
      /\ o \in ToSet(finished[t]) /\ o \in Opers /\ o \in OpersOf(t)
      /\ UNCHANGED <<last_err, round, submitted>>
      /\ stage_trans'[t] = stage_trans[t] + started_ios[o]
  BY <1>0, <1>inv, RestartEffect
<1>2. Flawless(t)
  BY <1>1 DEF Flawless
<1>own. \A p \in ToSet(finished[t]) : p \in OpersOf(t) /\ p \in Opers
  BY <1>inv, OwnOpers
<1>3. started_ios[o] = issued[o] /\ issued[o] \in Nat
  BY <1>1, <1>inv, AllStarted DEF Building
<1> DEFINE S == ToAdd(t)
<1>4. S \in SUBSET Opers /\ o \in S
  BY <1>0, <1>1, <1>inv, <1>own, Listed DEF ToAdd
<1>5. IsFiniteSet(IssuedOf(S)) /\ submitted[t] = stage_trans[t] + Cardinality(IssuedOf(S))
  BY <1>1, <1>2 DEF TransInv
<1> HIDE DEF S
<1>6. /\ IsFiniteSet(IssuedOf(S \ {o})) /\ Cardinality(IssuedOf(S \ {o})) \in Nat
      /\ Cardinality(IssuedOf(S)) = Cardinality(IssuedOf(S \ {o})) + issued[o]
  BY <1>3, <1>4, <1>5, IssuedSplit
<1>7. submitted'[t] = stage_trans'[t] + Cardinality(IssuedOf(S \ {o}))
  BY <1>1, <1>3, <1>5, <1>6, <1>inv
\* What is still to be added after this turn.
<1>8. /\ pc'[t] = "restart" => ToAdd(t)' = S \ {o}
      /\ pc'[t] = "end" => S \ {o} = {}
      /\ \A p \in S \ {o} : issued'[p] = issued[p]
  <2>1. CASE CanRestart(o)
    <3>1. /\ finished'[t] = RemoveAt(finished[t], cur[t])
          /\ ToSet(finished'[t]) = ToSet(finished[t]) \ {o}
          /\ \A p \in Opers \ {o} : issued'[p] = issued[p]
          /\ \/ finished'[t] = <<>> /\ cur'[t] = 0 /\ pc'[t] = "end"
             \/ finished'[t] # <<>> /\ cur'[t] = 1 /\ pc'[t] = "restart"
      BY <1>0, <1>inv, <2>1, RestartEffect
    <3>2. cur[t] = 1
      <4> SUFFICES ASSUME cur[t] # 1 PROVE FALSE
        OBVIOUS
      <4>1. 1 \in 1..(cur[t] - 1) /\ 1 \in 1..Len(finished[t])
        BY <1>1, <1>inv
      <4>2. PICK p : p = finished[t][1]
        OBVIOUS
      <4>3. p \in ToSet(finished[t]) /\ p \in OpersOf(t) /\ p \in Opers /\ ~CanRestart(p)
        BY <1>1, <1>inv, <1>own, <4>1, <4>2, Listed DEF RankInv
      <4>4. last_err[p] = 0 /\ last_err[o] = 0
        BY <1>1, <1>2, <4>3 DEF Flawless
      <4>5. Rank(rw[p]) + 1 = round[t] /\ Rank(rw[o]) + 1 = round[t]
        BY <1>1, <1>inv, <4>3, <4>4 DEF RankInv, Level
      <4>6. rw[p] \in stages /\ rw[o] \in stages
        BY <1>1, <1>inv, <4>3 DEF StageType
      <4>7. Rank(rw[p]) \in Nat /\ Rank(rw[o]) \in Nat
        BY <4>6, RankFacts
      <4>8. rw[p] = rw[o]
        BY <4>5, <4>6, <4>7, RankInjective
      <4>. QED  BY <2>1, <4>3, <4>4, <4>8 DEF CanRestart
    <3>3. S = ToSet(finished[t])
      BY <1>inv, <3>2 DEF S, ToAdd, ToSet
    <3>4. pc'[t] = "restart" => ToAdd(t)' = ToSet(finished'[t])
      <4>1. finished'[t] \in Seq(Opers)
        BY <1>1, <1>inv, <3>1, OnceRemove DEF ListInv
      <4>. QED  BY <3>1, <4>1 DEF ToAdd, ToSet
    <3>5. pc'[t] = "end" => ToSet(finished'[t]) = {}
      BY <3>1, OnceEmpty
    <3>. QED  BY <1>4, <3>1, <3>3, <3>4, <3>5
  <2>2. CASE ~CanRestart(o)
    <3>1. /\ UNCHANGED <<issued, finished>>
          /\ \/ cur[t] = Len(finished[t]) /\ pc'[t] = "end"
             \/ /\ cur[t] # Len(finished[t])
                /\ pc'[t] = "restart" /\ cur'[t] = cur[t] + 1
      BY <1>0, <1>inv, <2>2, RestartEffect
    <3>2. S \ {o} = {finished[t][i] : i \in (cur[t] + 1)..Len(finished[t])}
      <4>1. \A i, j \in 1..Len(finished[t]) : finished[t][i] = finished[t][j] => i = j
        BY <1>inv DEF ListInv, Once
      <4>2. \A i \in cur[t]..Len(finished[t]) :
              finished[t][i] # o <=> i \in (cur[t] + 1)..Len(finished[t])
        BY <1>0, <1>1, <1>inv, <4>1
      <4>3. \A i \in (cur[t] + 1)..Len(finished[t]) : i \in cur[t]..Len(finished[t])
        BY <1>inv
      <4>. QED  BY <4>2, <4>3 DEF S, ToAdd
    <3>3. pc'[t] = "restart" => ToAdd(t)' = S \ {o}
      BY <3>1, <3>2 DEF ToAdd
    <3>4. pc'[t] = "end" => S \ {o} = {}
      <4>1. cur[t] = Len(finished[t]) => (cur[t] + 1)..Len(finished[t]) = {}
        BY <1>inv
      <4>. QED  BY <3>1, <3>2, <4>1
    <3>. QED  BY <3>1, <3>3, <3>4
  <2>. QED  BY <2>1, <2>2
<1>9. CASE pc'[t] = "restart"
  <2>1. IssuedOf(ToAdd(t))' = IssuedOf(S \ {o})
    BY <1>8, <1>9 DEF IssuedOf
  <2>. QED  BY <1>6, <1>7, <1>9, <2>1 DEF TransInv, Inner, Holding, Building
<1>10. CASE pc'[t] = "end"
  <2>1. Cardinality(IssuedOf(S \ {o})) = 0
    BY <1>8, <1>10, IssuedNone
  <2>2. submitted'[t] = stage_trans'[t]
    <3>1. stage_trans'[t] \in Nat
      BY <1>1, <1>3, <1>inv
    <3>. QED  BY <1>7, <2>1, <3>1
  <2>. QED  BY <1>10, <2>2 DEF TransInv, Inner, Holding, Building
<1>. QED  BY <1>9, <1>10

LEMMA TransOwn ==
  ASSUME RoundInv, NEW t \in Threads, Worker(t) \/ SubmitFails(t) \/ SpuriousWake(t),
         DrainInv(t), TransInv(t)
  PROVE  TransInv(t)'
<1>1. CASE ArriveStart(t) \/ WakeStart(t) \/ ArriveEnd(t) \/ WakeEnd(t) \/ Again(t) \/ FreeOper(t)
  <2>1. pc \in [Threads -> PCs]
    BY DEF RoundInv, IInv, TypeInv
  <2>2. pc'[t] \in {"startwait", "begin", "endwait", "again", "start", "free", "exit"}
    BY <1>1, <2>1 DEF ArriveStart, WakeStart, ArriveEnd, WakeEnd, Again, FreeOper, Goto
  <2>. QED  BY <2>2 DEF TransInv, Inner, Holding, Building
<1>2. CASE SubmitFails(t) \/ SpuriousWake(t)
  <2>1. UNCHANGED <<control, lists, units, opers>>
    BY <1>2 DEF SubmitFails, SpuriousWake
  <2>. QED  BY <2>1 DEF TransInv, Flawless, IssuedOf, ToAdd, control, lists, units, opers
<1>. QED  BY <1>1, <1>2, TransBegin, TransInner, TransWaited, TransRestart
          DEF Worker, Barrier, Stage, InnerStep

FiguresInv == RoundInv /\ \A t \in Threads : DrainInv(t) /\ TransInv(t)

LEMMA FiguresInit == Init => FiguresInv
<1> SUFFICES ASSUME Init PROVE FiguresInv
  OBVIOUS
<1>1. RoundInv
  BY RoundInit
<1>2. ASSUME NEW t \in Threads PROVE DrainInv(t) /\ TransInv(t)
  <2>1. /\ pc[t] = "start" /\ inflight = {} /\ events = {} /\ \A o \in Opers : issued[o] = 0
    BY DEF Init
  <2>2. DrainInv(t)
    BY <2>1, OpersFacts DEF DrainInv, InflightOf, EventsOf
  <2>3. TransInv(t)
    BY <2>1 DEF TransInv, Inner, Holding, Building
  <2>. QED  BY <2>2, <2>3
<1>. QED  BY <1>1, <1>2 DEF FiguresInv

LEMMA FiguresNext == FiguresInv /\ [Next]_vars => FiguresInv'
<1> SUFFICES ASSUME FiguresInv, [Next]_vars PROVE FiguresInv'
  OBVIOUS
<1>0. /\ RoundInv /\ RoundInv' /\ \A t \in Threads : DrainInv(t) /\ TransInv(t)
      /\ IInv /\ StageType
  BY RoundNext DEF FiguresInv, RoundInv
<1>1. CASE UNCHANGED vars
  <2>1. \A t \in Threads : DrainInv(t)' = DrainInv(t)
    BY <1>1 DEF vars, control, lists, units, opers, kernel, DrainInv, InflightOf, EventsOf, Current
  <2>2. \A t \in Threads : TransInv(t)' = TransInv(t)
    BY <1>1, CompleteLeaves DEF vars
  <2>. QED  BY <1>0, <2>1, <2>2 DEF FiguresInv
<1>2. ASSUME NEW x \in inflight, Complete(x) PROVE FiguresInv'
  <2>1. \A t \in Threads : DrainInv(t)'
    BY <1>0, <1>2, DrainComplete
  <2>2. \A t \in Threads : TransInv(t)' = TransInv(t)
    BY <1>2, CompleteLeaves DEF Complete
  <2>. QED  BY <1>0, <2>1, <2>2 DEF FiguresInv
<1>3. ASSUME NEW u \in Threads, Worker(u) \/ SubmitFails(u) \/ SpuriousWake(u)
      PROVE  FiguresInv'
  <2>1. ASSUME NEW t \in Threads \ {u} PROVE DrainInv(t)' /\ TransInv(t)'
    BY <1>0, <1>3, OtherThreads, StageFrame
  <2>2. DrainInv(u)' /\ TransInv(u)'
    BY <1>0, <1>3, DrainOwn, TransOwn
  <2>. QED  BY <1>0, <2>1, <2>2 DEF FiguresInv
<1>. QED  BY <1>1, <1>2, <1>3 DEF Next

LEMMA Figures == Spec => []FiguresInv
BY FiguresInit, FiguresNext, PTL DEF Spec

\* An operation is cut off only when another thread has ended the stage, the
\* figure a thread prints for a stage is what it submitted in it, and a worker
\* returns with no io in flight and all its units.
THEOREM StageEndsRight == Spec => []StageEnd
<1>1. FiguresInv => StageEnd
  <2> SUFFICES ASSUME FiguresInv PROVE StageEnd
    OBVIOUS
  <2>1. CutoffHasWinner
    BY WinnersExist DEF FiguresInv
  <2>2. StageTransExact
    BY DEF FiguresInv, TransInv, Flawless, StageTransExact
  <2>3. ASSUME Iterations = RUN_FOREVER, NEW t \in Threads, pc[t] = "exit"
        PROVE  num_global_pending[t] = 0 /\ free[t] = num_global_ios(t)
    <3>1. CountInv(t) /\ FitInv(t) /\ TypeInv
      BY DEF FiguresInv, RoundInv, IInv, DataInv, PlaceInv
    <3>2. InflightOf(t) = {} /\ EventsOf(t) = {}
      BY <2>3 DEF FiguresInv, DrainInv, Inner, Holding, Building
    <3>3. Outstanding(t) = 0
      BY <3>2, FS_EmptySet DEF Outstanding
    <3>4. Len(iocbs[t]) = 0
      BY <2>3, <3>1, OnceEmpty DEF FitInv, Building
    <3>5. free[t] \in Nat
      BY <3>1 DEF TypeInv
    <3>. QED  BY <3>1, <3>3, <3>4, <3>5 DEF CountInv
  <2>. QED  BY <2>1, <2>2, <2>3 DEF StageEnd, ExitDrained
<1>. QED  BY <1>1, Figures, PTL

-----------------------------------------------------------------------------
(* The rotation. *)

\* Operations that begin at the start of their file have the same length.
LEMMA LeadersAlike ==
  ASSUME NEW o \in Opers, Leads(o)
  PROVE  start(o) = 0 /\ total_ios(o) = Quotient(FileSize, RecLen)
<1>1. 0 * ContextOffset = 0
  BY OptionAssumption
<1>2. start(o) = 0 /\ end(o) = FileSize
  BY <1>1, OptionAssumption DEF start, end, Leads
<1>. QED  BY <1>2, OptionAssumption DEF total_ios

\* The numbers the rotation compares.
LEMMA IssuingType ==
  ASSUME IInv, NEW t \in Threads
  PROVE  \A o \in Opers : Issuing(t, o) \in Nat /\ issued[o] \in Nat
  BY DEF IInv, TypeInv, Issuing

\* The operation that is picked is the first one in the rotation, and with its
\* next chunk it becomes the last one.
LEMMA TurnPicked ==
  ASSUME FiguresInv, NEW t \in Threads, TurnInv(t), PickOper(t), pc'[t] = "build"
  PROVE  TurnInv(t)'
<1>inv. IInv /\ TypeInv /\ ListInv(t) /\ SentInv(t) /\ DrainInv(t)
        /\ active[t] \in Seq(Opers) /\ built[t] \in Seq(Opers)
        /\ Len(active[t]) \in Nat /\ Len(built[t]) \in Nat
  <2>1. IInv /\ TypeInv /\ ListInv(t) /\ SentInv(t) /\ DrainInv(t)
    BY DEF FiguresInv, RoundInv, IInv, DataInv
  <2>. QED  BY <2>1 DEF TypeInv
<1>own. /\ \A i \in 1..Len(active[t]) : active[t][i] \in ToSet(active[t])
        /\ \A i \in 1..Len(built[t]) : built[t][i] \in ToSet(built[t])
        /\ \A p \in ToSet(active[t]) \cup ToSet(built[t]) : p \in Opers /\ p \in OpersOf(t)
  BY <1>inv, OwnOpers
<1>0. PICK o : o = Current(t)
  OBVIOUS
<1>1. /\ pc[t] = "pick" /\ UNCHANGED <<lists, opers>>
      /\ cur[t] \in 1..Len(active[t]) /\ cur'[t] = cur[t]
      /\ num_ios(o) >= 0 /\ want'[t] = num_ios(o)
  BY <1>0, <1>inv, PickEffect
<1>2. UNCHANGED <<active, built, issued>> /\ Current(t)' = o
  BY <1>0, <1>1 DEF lists, opers, Current
<1>3. o \in ToSet(active[t]) /\ o \in Opers /\ o \in OpersOf(t) /\ o \notin ToSet(built[t])
      /\ o = active[t][cur[t]]
  BY <1>0, <1>1, <1>inv, <1>own DEF Current, ListInv
<1>4. /\ \A p \in Opers : Issuing(t, p) = issued[p] /\ issued[p] \in Nat
      /\ \A p \in Opers \ {o} : Issuing(t, p)' = issued[p]
      /\ Issuing(t, o)' = issued[o] + num_ios(o)
      /\ \A p : ~Built(t, p) /\ (Built(t, p)' <=> p = o)
  BY <1>1, <1>2, <1>3, <1>inv, IssuingType DEF Issuing, Built
<1>5. pc[t] \in Inner
  BY <1>1 DEF Inner, Holding, Building
<1>6. /\ \A p, q \in OpersOf(t) : Before(active[t], p, q) => InTurn(t, p, q)
      /\ \A p, q \in OpersOf(t) : Before(built[t], p, q) => InTurn(t, p, q)
      /\ \A p \in ToSet(active[t]), q \in ToSet(built[t]) : InTurn(t, p, q)
      /\ \A i \in 1..Len(active[t]) : i < cur[t] => ~Leads(active[t][i])
  BY <1>1, <1>4, <1>5 DEF TurnInv
\* Others compare as before.
<1>7. \A p, q \in Opers \ {o} : InTurn(t, p, q)' <=> InTurn(t, p, q)
  BY <1>4 DEF InTurn
<1>8. ASSUME NEW p \in ToSet(active[t]) \cup ToSet(built[t]), p # o, Leads(p), Leads(o)
      PROVE  issued[p] <= Issuing(t, o)' /\ Issuing(t, o)' <= issued[p] + io_iter
  <2>1. p \in Opers /\ p \in OpersOf(t)
    BY <1>own
  <2>2. InTurn(t, o, p)
    <3>1. CASE p \in ToSet(built[t])
      BY <1>3, <1>6, <3>1
    <3>2. CASE p \in ToSet(active[t])
      <4>1. PICK i \in 1..Len(active[t]) : active[t][i] = p
        BY <1>inv, <3>2 DEF ToSet
      <4>2. i # cur[t] /\ ~(i < cur[t])
        BY <1>3, <1>6, <1>8, <4>1
      <4>3. cur[t] < i
        BY <1>1, <4>2
      <4>4. Before(active[t], o, p)
        BY <1>1, <1>3, <4>1, <4>3 DEF Before
      <4>. QED  BY <1>3, <1>6, <2>1, <4>4
    <3>. QED  BY <3>1, <3>2
  <2>3. issued[o] <= issued[p] /\ issued[p] <= issued[o] + io_iter
    BY <1>3, <1>4, <1>8, <2>1, <2>2 DEF InTurn
  <2>4. total_ios(p) = total_ios(o) /\ total_ios(o) \in Int
    BY <1>3, <1>8, <2>1, LeadersAlike, TotalType
  <2>5. started_ios[o] = issued[o]
    BY <1>1, <1>3, <1>inv, AllStarted
  <2>6. /\ total_ios(p) > 0 => issued[p] <= total_ios(p)
        /\ total_ios(p) <= 0 => issued[p] = 0 /\ issued[o] = 0
    BY <1>3, <1>inv, <2>1, <2>4 DEF SentInv, DrainInv
  <2>7. io_iter \in Nat /\ issued[o] \in Nat /\ issued[p] \in Nat
    BY <1>3, <1>4, <2>1, Config
  <2>8. num_ios(o) = IF issued[o] + io_iter > total_ios(o) THEN total_ios(o) - issued[o] ELSE io_iter
    BY <2>5 DEF num_ios
  <2>. QED  BY <1>1, <1>4, <2>3, <2>4, <2>6, <2>7, <2>8
<1>9. ASSUME NEW p \in ToSet(active[t]) \cup ToSet(built[t]), p # o PROVE InTurn(t, p, o)'
  BY <1>4, <1>8, <1>9, <1>own DEF InTurn
<1>10. \A p, q \in Opers \ {o} : InTurn(t, p, q) => InTurn(t, p, q)'
  BY <1>7
<1>11. \A p, q \in OpersOf(t) :
         Before(active[t], p, q) /\ ~Built(t, p)' /\ ~Built(t, q)' => InTurn(t, p, q)'
  BY <1>4, <1>6, <1>10, OpersFacts
<1>12. \A p, q \in OpersOf(t) : Before(built[t], p, q) => InTurn(t, p, q)'
  <2> SUFFICES ASSUME NEW p \in OpersOf(t), NEW q \in OpersOf(t), Before(built[t], p, q)
               PROVE  InTurn(t, p, q)'
    OBVIOUS
  <2>1. p \in ToSet(built[t]) /\ q \in ToSet(built[t])
    BY <1>own DEF Before
  <2>. QED  BY <1>3, <1>6, <1>10, <1>own, <2>1
<1>13. \A p \in ToSet(active[t]), q \in ToSet(built[t]) : ~Built(t, p)' => InTurn(t, p, q)'
  BY <1>3, <1>4, <1>6, <1>10, <1>own
<1>. QED  BY <1>1, <1>2, <1>6, <1>9, <1>11, <1>12, <1>13 DEF TurnInv

\* The order of a list after an element is taken off or added.
LEMMA BeforeTail ==
  ASSUME NEW S, NEW s \in Seq(S), s # <<>>, Once(s), NEW p, NEW q
  PROVE  /\ Before(Tail(s), p, q) => Before(s, p, q)
         /\ q \in ToSet(Tail(s)) => Before(s, Head(s), q)
<1>1. /\ Len(s) \in Nat /\ Len(s) # 0 /\ Tail(s) \in Seq(S) /\ Len(Tail(s)) = Len(s) - 1
      /\ Head(s) = s[1]
  BY OnceTail
<1>2. \A i \in 1..(Len(s) - 1) : Tail(s)[i] = s[i + 1] /\ i + 1 \in 1..Len(s) /\ 1 < i + 1
  BY <1>1
<1>3. Before(Tail(s), p, q) => Before(s, p, q)
  <2> SUFFICES ASSUME Before(Tail(s), p, q) PROVE Before(s, p, q)
    OBVIOUS
  <2>1. PICK i \in 1..(Len(s) - 1), j \in 1..(Len(s) - 1) :
          i < j /\ Tail(s)[i] = p /\ Tail(s)[j] = q
    BY <1>1 DEF Before
  <2>2. i + 1 < j + 1 /\ s[i + 1] = p /\ s[j + 1] = q
    BY <1>1, <1>2, <2>1
  <2>. QED  BY <1>2, <2>1, <2>2 DEF Before
<1>4. q \in ToSet(Tail(s)) => Before(s, Head(s), q)
  <2> SUFFICES ASSUME q \in ToSet(Tail(s)) PROVE Before(s, Head(s), q)
    OBVIOUS
  <2>1. PICK i \in 1..(Len(s) - 1) : Tail(s)[i] = q
    BY <1>1 DEF ToSet
  <2>2. s[i + 1] = q /\ i + 1 \in 1..Len(s) /\ 1 < i + 1 /\ 1 \in 1..Len(s)
    BY <1>1, <1>2, <2>1
  <2>. QED  BY <1>1, <2>2 DEF Before
<1>. QED  BY <1>3, <1>4

LEMMA BeforeAppend ==
  ASSUME NEW S, NEW s \in Seq(S), NEW e \in S, NEW p, NEW q, Before(Append(s, e), p, q)
  PROVE  Before(s, p, q) \/ (p \in ToSet(s) /\ q = e)
<1>1. Len(s) \in Nat /\ Len(Append(s, e)) = Len(s) + 1
  OBVIOUS
<1>2. PICK i \in 1..(Len(s) + 1), j \in 1..(Len(s) + 1) :
        i < j /\ Append(s, e)[i] = p /\ Append(s, e)[j] = q
  BY <1>1 DEF Before
<1>3. i \in 1..Len(s) /\ s[i] = p /\ p \in ToSet(s)
  <2>1. i \in 1..Len(s)
    BY <1>1, <1>2
  <2>2. Append(s, e)[i] = s[i]
    BY <1>1, <2>1
  <2>. QED  BY <1>2, <2>1, <2>2, Listed
<1>4. CASE j = Len(s) + 1
  BY <1>1, <1>2, <1>3, <1>4
<1>5. CASE j # Len(s) + 1
  <2>1. j \in 1..Len(s)
    BY <1>1, <1>5
  <2>2. s[j] = q
    BY <1>1, <1>2, <2>1
  <2>. QED  BY <1>2, <1>3, <2>1, <2>2 DEF Before
<1>. QED  BY <1>4, <1>5

LEMMA BeforeRemove ==
  ASSUME NEW S, NEW s \in Seq(S), NEW n \in 1..Len(s), Once(s), NEW p, NEW q,
         Before(RemoveAt(s, n), p, q)
  PROVE  Before(s, p, q)
<1> DEFINE at(i) == IF i < n THEN i ELSE i + 1
<1>1. /\ Len(s) \in Nat /\ Len(RemoveAt(s, n)) = Len(s) - 1
      /\ \A i \in 1..(Len(s) - 1) : RemoveAt(s, n)[i] = s[at(i)]
  BY Removed
<1>2. PICK i \in 1..(Len(s) - 1), j \in 1..(Len(s) - 1) :
        i < j /\ RemoveAt(s, n)[i] = p /\ RemoveAt(s, n)[j] = q
  BY <1>1 DEF Before
<1>3. at(i) \in 1..Len(s) /\ at(j) \in 1..Len(s) /\ at(i) < at(j)
  BY <1>1, <1>2
<1>4. s[at(i)] = p /\ s[at(j)] = q
  BY <1>1, <1>2
<1> HIDE DEF at
<1>. QED  BY <1>3, <1>4 DEF Before

\* Where what an operation is going to have issued stays the same, the order
\* of the rotation does.
LEMMA TurnKept ==
  ASSUME NEW t, \A p \in OpersOf(t) : Issuing(t, p)' = Issuing(t, p)
  PROVE  \A p, q \in OpersOf(t) : InTurn(t, p, q)' <=> InTurn(t, p, q)
  BY DEF InTurn

\* Steps that leave the active list, and build nothing.
LEMMA TurnQuiet ==
  ASSUME IInv, NEW t \in Threads, TurnInv(t), pc[t] \in Inner, pc'[t] \in Inner,
         pc[t] # "build", pc'[t] # "build", UNCHANGED issued, active'[t] = active[t],
         built'[t] = built[t] \/ built'[t] = <<>>,
         pc'[t] = "pick" => \A i \in 1..Len(active[t]) : i < cur'[t] => ~Leads(active[t][i])
  PROVE  TurnInv(t)'
<1>1. \A p : ~Built(t, p) /\ ~Built(t, p)'
  BY DEF Built
<1>2. \A p : Issuing(t, p)' = Issuing(t, p)
  BY DEF Issuing
<1>3. \A p, q \in OpersOf(t) : InTurn(t, p, q)' <=> InTurn(t, p, q)
  BY <1>2, TurnKept
<1>own. \A p \in ToSet(active[t]) \cup ToSet(built[t]) : p \in OpersOf(t)
  BY OwnOpers DEF IInv, DataInv
<1>4. /\ \A p, q : Before(built'[t], p, q) => Before(built[t], p, q)
      /\ \A p \in ToSet(built'[t]) : p \in ToSet(built[t])
  <2>1. CASE built'[t] = <<>>
    BY <2>1, OnceEmpty DEF Before
  <2>. QED  BY <2>1
<1>5. \A p, q \in OpersOf(t) : Before(active[t], p, q) => InTurn(t, p, q)'
  BY <1>1, <1>3 DEF TurnInv
<1>6. \A p, q \in OpersOf(t) : Before(built'[t], p, q) => InTurn(t, p, q)'
  BY <1>3, <1>4 DEF TurnInv
<1>7. \A p \in ToSet(active[t]), q \in ToSet(built'[t]) : InTurn(t, p, q)'
  BY <1>1, <1>3, <1>4, <1>own DEF TurnInv
<1>. QED  BY <1>5, <1>6, <1>7 DEF TurnInv

\* Steps while an operation is built: what it is going to have issued stays.
LEMMA TurnBuild ==
  ASSUME IInv, NEW t \in Threads, TurnInv(t), BuildIocb(t) \/ FindIouWaits(t)
  PROVE  TurnInv(t)'
<1>1. /\ pc[t] = "build" /\ pc'[t] = "build" /\ UNCHANGED <<active, built, cur>>
      /\ Current(t)' = Current(t)
      /\ \A p \in OpersOf(t) : Issuing(t, p)' = Issuing(t, p)
  <2>1. CASE BuildIocb(t)
    <3>1. /\ pc[t] = "build" /\ pc'[t] = "build" /\ want[t] \in Nat
          /\ want'[t] = want[t] - 1 /\ Current(t)' = Current(t)
          /\ issued[Current(t)] \in Nat /\ issued'[Current(t)] = issued[Current(t)] + 1
          /\ \A p \in Opers \ {Current(t)} : issued'[p] = issued[p]
          /\ UNCHANGED <<cur, lists>>
      BY <2>1, BuildEffect
    <3>2. issued'[Current(t)] + want'[t] = issued[Current(t)] + want[t]
      BY <3>1
    <3>3. \A p \in OpersOf(t) : Issuing(t, p)' = Issuing(t, p)
      BY <3>1, <3>2, OpersFacts DEF Issuing
    <3>. QED  BY <3>1, <3>3 DEF lists
  <2>2. CASE FindIouWaits(t)
    <3>1. /\ pc[t] = "build" /\ pc'[t] = "build"
          /\ UNCHANGED <<active, built, cur, want, issued>>
      BY <2>2 DEF FindIouWaits, Goto, lists, IInv, TypeInv
    <3>. QED  BY <3>1 DEF Issuing, Current
  <2>. QED  BY <2>1, <2>2
<1>2. \A p, q \in OpersOf(t) : InTurn(t, p, q)' <=> InTurn(t, p, q)
  BY <1>1, TurnKept
<1>3. \A p : Built(t, p)' <=> Built(t, p)
  BY <1>1 DEF Built
<1>own. /\ \A p \in ToSet(active[t]) \cup ToSet(built[t]) : p \in OpersOf(t)
        /\ Current(t) \in OpersOf(t)
  BY <1>1, OwnOpers, CurrentFacts DEF IInv, DataInv, PlaceInv
<1>4. pc[t] \in Inner
  BY <1>1 DEF Inner, Holding, Building
<1>5. \A p, q \in OpersOf(t) :
        Before(active[t], p, q) /\ ~Built(t, p)' /\ ~Built(t, q)' => InTurn(t, p, q)'
  BY <1>2, <1>3, <1>4 DEF TurnInv
<1>6. \A p, q \in OpersOf(t) : Before(built[t], p, q) => InTurn(t, p, q)'
  BY <1>2, <1>4 DEF TurnInv
<1>7. \A p \in ToSet(active[t]), q \in ToSet(built[t]) : ~Built(t, p)' => InTurn(t, p, q)'
  BY <1>2, <1>3, <1>4, <1>own DEF TurnInv
<1>8. PICK c : c = Current(t)
  OBVIOUS
<1>9. \A p \in ToSet(active[t]) \cup ToSet(built[t]) : p # c => InTurn(t, p, c)'
  BY <1>1, <1>2, <1>4, <1>8, <1>own DEF TurnInv
<1>10. \A i \in 1..Len(active[t]) : i < cur[t] => ~Leads(active[t][i])
  BY <1>1, <1>4 DEF TurnInv
<1>. QED  BY <1>1, <1>5, <1>6, <1>7, <1>8, <1>9, <1>10 DEF TurnInv

\* build_oper is done: the operation joins the local list, as its last.
LEMMA TurnOperBuilt ==
  ASSUME IInv, NEW t \in Threads, TurnInv(t), OperBuilt(t)
  PROVE  TurnInv(t)'
<1>inv. /\ TypeInv /\ ListInv(t) /\ CurInv(t) /\ pc \in [Threads -> PCs]
        /\ active \in [Threads -> Seq(Opers)] /\ built \in [Threads -> Seq(Opers)]
        /\ cur \in [Threads -> Nat]
        /\ active[t] \in Seq(Opers) /\ built[t] \in Seq(Opers)
  BY DEF IInv, TypeInv, DataInv, PlaceInv
<1>0. PICK o : o = Current(t)
  OBVIOUS
<1>1. /\ pc[t] = "build" /\ want[t] = 0 /\ UNCHANGED issued
      /\ built'[t] = Append(built[t], o) /\ active'[t] = RemoveAt(active[t], cur[t])
      /\ pc'[t] \in {"pick", "built"} /\ (pc'[t] = "pick" => cur'[t] \in {0, 1})
  <2>1. /\ pc[t] = "build" /\ want[t] = 0 /\ UNCHANGED issued
        /\ built'[t] = Append(built[t], o) /\ active'[t] = RemoveAt(active[t], cur[t])
    BY <1>0, <1>inv DEF OperBuilt, opers, Current
  <2>2. pc'[t] \in {"pick", "built"} /\ (pc'[t] = "pick" => cur'[t] \in {0, 1})
    BY <1>inv DEF OperBuilt, Goto
  <2>. QED  BY <2>1, <2>2
<1>2. /\ o \in ToSet(active[t]) /\ o \in OpersOf(t) /\ o \in Opers /\ o \notin ToSet(built[t])
      /\ cur[t] \in 1..Len(active[t]) /\ o = active[t][cur[t]]
  BY <1>0, <1>1, <1>inv, CurrentFacts DEF Current
<1>own. \A p \in ToSet(active[t]) \cup ToSet(built[t]) : p \in OpersOf(t)
  BY <1>inv, OwnOpers
<1>3. /\ ToSet(active'[t]) = ToSet(active[t]) \ {o} /\ Once(active'[t]) /\ active'[t] \in Seq(Opers)
      /\ ToSet(built'[t]) = ToSet(built[t]) \cup {o}
  BY <1>1, <1>2, <1>inv, OnceRemove, OnceAppend DEF ListInv
<1>4. \A p : (Built(t, p) <=> p = o) /\ ~Built(t, p)'
  BY <1>0, <1>1 DEF Built
<1>5. \A p \in OpersOf(t) : Issuing(t, p)' = Issuing(t, p)
  <2>1. \A p \in OpersOf(t) : issued[p] \in Nat
    BY <1>inv, OpersFacts DEF TypeInv
  <2>. QED  BY <1>1, <2>1 DEF Issuing
<1>6. \A p, q \in OpersOf(t) : InTurn(t, p, q)' <=> InTurn(t, p, q)
  BY <1>5, TurnKept
<1>7. /\ \A p, q \in OpersOf(t) : Before(active[t], p, q) /\ p # o /\ q # o => InTurn(t, p, q)
      /\ \A p, q \in OpersOf(t) : Before(built[t], p, q) => InTurn(t, p, q)
      /\ \A p \in ToSet(active[t]), q \in ToSet(built[t]) : p # o => InTurn(t, p, q)
      /\ \A p \in ToSet(active[t]) \cup ToSet(built[t]) : p # o => InTurn(t, p, o)
  <2>1. pc[t] \in Inner
    BY <1>1 DEF Inner, Holding, Building
  <2>. QED  BY <1>0, <1>1, <1>4, <2>1 DEF TurnInv
<1>8. \A p, q \in OpersOf(t) : Before(active'[t], p, q) => InTurn(t, p, q)'
  <2> SUFFICES ASSUME NEW p \in OpersOf(t), NEW q \in OpersOf(t), Before(active'[t], p, q)
               PROVE  InTurn(t, p, q)
    BY <1>6
  <2>1. Before(active[t], p, q)
    BY <1>1, <1>2, <1>inv, BeforeRemove DEF ListInv
  <2>2. p \in ToSet(active'[t]) /\ q \in ToSet(active'[t])
    BY <1>3, Listed DEF Before
  <2>. QED  BY <1>3, <1>7, <2>1, <2>2
<1>9. \A p, q \in OpersOf(t) : Before(built'[t], p, q) => InTurn(t, p, q)'
  <2> SUFFICES ASSUME NEW p \in OpersOf(t), NEW q \in OpersOf(t), Before(built'[t], p, q)
               PROVE  InTurn(t, p, q)
    BY <1>6
  <2>1. Before(built[t], p, q) \/ (p \in ToSet(built[t]) /\ q = o)
    BY <1>1, <1>2, <1>inv, BeforeAppend
  <2>. QED  BY <1>2, <1>7, <2>1
<1>10. \A p \in ToSet(active'[t]), q \in ToSet(built'[t]) : InTurn(t, p, q)'
  BY <1>2, <1>3, <1>6, <1>7, <1>own
<1>11. pc'[t] = "pick" => \A i \in 1..Len(active'[t]) : ~(i < cur'[t])
  BY <1>1
<1>. QED  BY <1>1, <1>8, <1>9, <1>10, <1>11 DEF TurnInv

\* The operations that were served go back, behind those that were not.
LEMMA TurnSort ==
  ASSUME IInv, NEW t \in Threads, TurnInv(t), SortBuilt(t)
  PROVE  TurnInv(t)'
<1>inv. /\ TypeInv /\ ListInv(t) /\ pc \in [Threads -> PCs]
        /\ active \in [Threads -> Seq(Opers)] /\ built \in [Threads -> Seq(Opers)]
        /\ active[t] \in Seq(Opers) /\ built[t] \in Seq(Opers)
  BY DEF IInv, TypeInv, DataInv
<1>0. PICK o : o = Head(built[t])
  OBVIOUS
<1>1. /\ pc[t] = "sort" /\ pc'[t] = "sort" /\ built[t] # <<>> /\ UNCHANGED issued
      /\ built'[t] = Tail(built[t])
      /\ active'[t] = active[t] \/ active'[t] = Append(active[t], o)
  BY <1>0, <1>inv DEF SortBuilt, Goto, Requeue, opers
<1>2. /\ ToSet(built'[t]) = ToSet(built[t]) \ {o} /\ o \in ToSet(built[t]) /\ o \in Opers
      /\ o \notin ToSet(active[t]) /\ o \in OpersOf(t)
  BY <1>0, <1>1, <1>inv, OnceTail DEF ListInv, Ranges
<1>own. \A p \in ToSet(active[t]) \cup ToSet(built[t]) : p \in OpersOf(t)
  BY <1>inv, OwnOpers
<1>3. \A p \in ToSet(active'[t]) : p \in ToSet(active[t]) \/ p = o
  <2>1. ToSet(Append(active[t], o)) = ToSet(active[t]) \cup {o}
    BY <1>2, <1>inv, OnceAppend DEF ListInv
  <2>. QED  BY <1>1, <2>1
<1>4. \A p : ~Built(t, p) /\ ~Built(t, p)' /\ Issuing(t, p)' = Issuing(t, p)
  BY <1>1 DEF Built, Issuing
<1>5. \A p, q \in OpersOf(t) : InTurn(t, p, q)' <=> InTurn(t, p, q)
  BY <1>4, TurnKept
<1>6. /\ \A p, q \in OpersOf(t) : Before(active[t], p, q) => InTurn(t, p, q)
      /\ \A p, q \in OpersOf(t) : Before(built[t], p, q) => InTurn(t, p, q)
      /\ \A p \in ToSet(active[t]), q \in ToSet(built[t]) : InTurn(t, p, q)
  <2>1. pc[t] \in Inner
    BY <1>1 DEF Inner, Holding, Building
  <2>. QED  BY <1>4, <2>1 DEF TurnInv
<1>7. \A p, q \in OpersOf(t) : Before(active'[t], p, q) => InTurn(t, p, q)'
  <2> SUFFICES ASSUME NEW p \in OpersOf(t), NEW q \in OpersOf(t), Before(active'[t], p, q)
               PROVE  InTurn(t, p, q)
    BY <1>5
  <2>1. Before(active[t], p, q) \/ (p \in ToSet(active[t]) /\ q = o)
    <3>1. CASE active'[t] = active[t]
      BY <3>1
    <3>2. CASE active'[t] = Append(active[t], o)
      <4>1. Before(Append(active[t], o), p, q)
        BY <3>2
      <4>. QED  BY <1>2, <1>inv, <4>1, BeforeAppend
    <3>. QED  BY <1>1, <3>1, <3>2
  <2>. QED  BY <1>2, <1>6, <2>1
<1>8. \A p, q \in OpersOf(t) : Before(built'[t], p, q) => InTurn(t, p, q)'
  BY <1>1, <1>5, <1>6, <1>inv, BeforeTail DEF ListInv
<1>9. \A p \in ToSet(active'[t]), q \in ToSet(built'[t]) : InTurn(t, p, q)'
  <2> SUFFICES ASSUME NEW p \in ToSet(active'[t]), NEW q \in ToSet(built'[t])
               PROVE  InTurn(t, p, q)
    BY <1>2, <1>3, <1>5, <1>own
  <2>1. CASE p = o
    <3>1. Before(built[t], o, q)
      BY <1>0, <1>1, <1>inv, BeforeTail DEF ListInv
    <3>. QED  BY <1>2, <1>6, <1>own, <2>1, <3>1
  <2>2. CASE p # o
    BY <1>2, <1>3, <1>6, <2>2
  <2>. QED  BY <2>1, <2>2
<1>. QED  BY <1>1, <1>7, <1>8, <1>9 DEF TurnInv

LEMMA TurnCutoff ==
  ASSUME IInv, NEW t \in Threads, TurnInv(t), Cutoff(t)
  PROVE  TurnInv(t)'
<1>inv. /\ TypeInv /\ ListInv(t) /\ FitInv(t) /\ pc \in [Threads -> PCs]
        /\ active \in [Threads -> Seq(Opers)] /\ active[t] \in Seq(Opers)
  BY DEF IInv, TypeInv, DataInv, PlaceInv
<1>1. /\ pc[t] = "loop" /\ pc'[t] = "loop" /\ UNCHANGED <<built, issued>> /\ active[t] # <<>>
      /\ active'[t] = Tail(active[t])
  BY <1>inv DEF Cutoff, Goto
<1>2. built[t] = <<>> /\ ToSet(built[t]) = {}
  BY <1>1, <1>inv, OnceEmpty DEF FitInv, Holding, Building
<1>3. \A p : ~Built(t, p) /\ ~Built(t, p)' /\ Issuing(t, p)' = Issuing(t, p)
  BY <1>1 DEF Built, Issuing
<1>4. \A p, q \in OpersOf(t) : InTurn(t, p, q)' <=> InTurn(t, p, q)
  BY <1>3, TurnKept
<1>5. \A p, q : Before(active'[t], p, q) => Before(active[t], p, q)
  BY <1>1, <1>inv, BeforeTail DEF ListInv
<1>6. \A p, q \in OpersOf(t) : Before(active'[t], p, q) => InTurn(t, p, q)'
  BY <1>1, <1>3, <1>4, <1>5 DEF TurnInv, Inner
<1>7. \A p, q : ~Before(built'[t], p, q)
  BY <1>1, <1>2 DEF Before
<1>. QED  BY <1>1, <1>2, <1>6, <1>7 DEF TurnInv

\* A stage begins with nothing issued.
LEMMA TurnBegin ==
  ASSUME RoundInv, NEW t \in Threads, BeginStage(t)
  PROVE  TurnInv(t)'
<1>inv. /\ IInv /\ RankInv(t) /\ FitInv(t) /\ ListInv(t) /\ TypeInv /\ pc \in [Threads -> PCs]
        /\ active[t] \in Seq(Opers)
  BY DEF RoundInv, IInv, TypeInv, PlaceInv, DataInv
<1>1. /\ pc[t] = "begin" /\ pc'[t] = "loop" /\ UNCHANGED <<active, built, issued>>
  BY <1>inv DEF BeginStage, Goto, lists, opers
<1>2. built[t] = <<>> /\ ToSet(built[t]) = {}
  BY <1>1, <1>inv, OnceEmpty DEF FitInv, Holding, Building
<1>3. \A o \in ToSet(active[t]) : issued[o] = 0
  BY <1>1, <1>inv DEF RankInv
<1>4. \A p, q \in OpersOf(t) : Before(active[t], p, q) => InTurn(t, p, q)'
  <2> SUFFICES ASSUME NEW p \in OpersOf(t), NEW q \in OpersOf(t), Before(active[t], p, q)
               PROVE  InTurn(t, p, q)'
    OBVIOUS
  <2>1. issued'[p] = 0 /\ issued'[q] = 0
    BY <1>1, <1>3, <1>inv, Listed DEF Before
  <2>2. Issuing(t, p)' = 0 /\ Issuing(t, q)' = 0
    BY <1>1, <2>1 DEF Issuing
  <2>. QED  BY <2>2, Config DEF InTurn
<1>5. \A p, q : ~Before(built[t], p, q)
  BY <1>2 DEF Before
<1>. QED  BY <1>1, <1>2, <1>4, <1>5 DEF TurnInv

LEMMA TurnOwn ==
  ASSUME FiguresInv, NEW t \in Threads, Worker(t) \/ SubmitFails(t) \/ SpuriousWake(t), TurnInv(t)
  PROVE  TurnInv(t)'
<1>inv. /\ RoundInv /\ IInv /\ StageType /\ ListInv(t) /\ pc \in [Threads -> PCs]
        /\ cur \in [Threads -> Nat] /\ built \in [Threads -> Seq(Opers)]
        /\ active[t] \in Seq(Opers) /\ cur[t] \in Nat
  BY DEF FiguresInv, RoundInv, IInv, TypeInv, DataInv
<1>1. CASE PickOper(t)
  <2>1. CASE pc'[t] = "build"
    BY <1>1, <2>1, TurnPicked
  <2>2. CASE pc'[t] # "build"
    <3>1. /\ pc[t] = "pick" /\ UNCHANGED <<active, built, issued>>
          /\ \/ pc'[t] = "built"
             \/ pc'[t] = "pick" /\ cur[t] \in 1..Len(active[t]) /\ cur'[t] = cur[t] + 1
                /\ ~oper_runnable(Current(t))
      BY <1>1, <1>inv, <2>2, PickEffect DEF lists, opers
    <3>2. pc[t] \in Inner /\ pc'[t] \in Inner
      BY <3>1 DEF Inner, Holding, Building
    <3>3. ASSUME pc'[t] = "pick", NEW i \in 1..Len(active[t]), i < cur'[t]
          PROVE  ~Leads(active[t][i])
      <4>1. cur[t] \in 1..Len(active[t]) /\ cur'[t] = cur[t] + 1 /\ ~oper_runnable(Current(t))
        BY <3>1, <3>3
      <4>2. CASE i < cur[t]
        BY <3>1, <3>2, <4>2 DEF TurnInv
      <4>3. CASE i = cur[t]
        <5>1. Current(t) = active[t][i] /\ Current(t) \in Opers
          BY <1>inv, <4>1, <4>3 DEF Current
        <5>2. ~Leads(Current(t))
          BY <4>1, <5>1, LeadersAlike DEF oper_runnable
        <5>. QED  BY <5>1, <5>2
      <4>. QED  BY <3>3, <4>1, <4>2, <4>3
    <3>. QED  BY <1>inv, <2>2, <3>1, <3>2, <3>3, TurnQuiet
  <2>. QED  BY <2>1, <2>2
<1>2. CASE \/ RunActiveList(t) \/ Submit(t) \/ SubmitAgain(t) \/ ReapAndResubmit(t) \/ Sorted(t)
           \/ NothingBuilt(t)
  <2>1. pc[t] \in Inner /\ pc'[t] \in Inner
    BY <1>2, <1>inv, InnerEffect DEF InnerStep
  <2>2. UNCHANGED <<active, issued>> /\ (built'[t] = built[t] \/ built'[t] = <<>>)
    BY <1>2, <1>inv DEF RunActiveList, Submit, SubmitAgain, ReapAndResubmit, Sorted, NothingBuilt,
         lists, opers
  <2>3. pc[t] # "build" /\ pc'[t] # "build" /\ (pc'[t] = "pick" => cur'[t] = 1)
    <3>1. CASE RunActiveList(t) \/ SubmitAgain(t) \/ Sorted(t) \/ NothingBuilt(t)
      BY <3>1, <1>inv DEF RunActiveList, SubmitAgain, Sorted, NothingBuilt, Goto
    <3>2. CASE Submit(t)
      BY <3>2, <1>inv DEF Submit, Goto
    <3>3. CASE ReapAndResubmit(t)
      BY <3>3, <1>inv DEF ReapAndResubmit, Goto
    <3>. QED  BY <1>2, <3>1, <3>2, <3>3
  <2>4. pc'[t] = "pick" => \A i \in 1..Len(active[t]) : ~(i < cur'[t])
    BY <2>3
  <2>. QED  BY <1>inv, <2>1, <2>2, <2>3, <2>4, TurnQuiet
<1>3. CASE \/ ArriveStart(t) \/ WakeStart(t) \/ ArriveEnd(t) \/ WakeEnd(t) \/ Again(t)
           \/ FreeOper(t) \/ LeaveLoop(t) \/ WaitOneEvent(t) \/ WaitNextOper(t)
  <2>1. pc'[t] \in {"startwait", "begin", "endwait", "again", "start", "free", "exit", "wait",
                    "restart", "end"}
    BY <1>3, <1>inv DEF ArriveStart, WakeStart, ArriveEnd, WakeEnd, Again, FreeOper, LeaveLoop,
         WaitOneEvent, WaitNextOper, Goto
  <2>. QED  BY <2>1 DEF TurnInv, Inner, Holding, Building
<1>4. CASE RestartOper(t)
  <2>1. pc'[t] \in {"restart", "end"}
    BY <1>4, <1>inv, RestartEffect
  <2>. QED  BY <2>1 DEF TurnInv, Inner, Holding, Building
<1>5. CASE SubmitFails(t) \/ SpuriousWake(t)
  <2>1. UNCHANGED <<control, lists, units, opers>>
    BY <1>5 DEF SubmitFails, SpuriousWake
  <2>. QED  BY <2>1 DEF TurnInv, InTurn, Issuing, Built, Current, control, lists, units, opers
<1>. QED  BY <1>1, <1>2, <1>3, <1>4, <1>5, <1>inv, TurnBuild, TurnOperBuilt, TurnSort, TurnCutoff,
             TurnBegin DEF Worker, Barrier, Stage

RotationInv == FiguresInv /\ \A t \in Threads : TurnInv(t)

LEMMA RotationInit == Init => RotationInv
<1> SUFFICES ASSUME Init PROVE RotationInv
  OBVIOUS
<1>1. \A t \in Threads : pc[t] = "start"
  BY DEF Init
<1>. QED  BY <1>1, FiguresInit DEF RotationInv, TurnInv, Inner, Holding, Building

LEMMA RotationNext == RotationInv /\ [Next]_vars => RotationInv'
<1> SUFFICES ASSUME RotationInv, [Next]_vars PROVE RotationInv'
  OBVIOUS
<1>0. /\ FiguresInv /\ FiguresInv' /\ \A t \in Threads : TurnInv(t)
      /\ IInv /\ StageType
  BY FiguresNext DEF RotationInv, FiguresInv, RoundInv
<1>1. CASE UNCHANGED vars
  BY <1>0, <1>1, CompleteLeaves DEF vars, RotationInv
<1>2. ASSUME NEW x \in inflight, Complete(x) PROVE RotationInv'
  BY <1>0, <1>2, CompleteLeaves DEF Complete, RotationInv
<1>3. ASSUME NEW u \in Threads, Worker(u) \/ SubmitFails(u) \/ SpuriousWake(u)
      PROVE  RotationInv'
  <2>1. ASSUME NEW t \in Threads \ {u} PROVE TurnInv(t)'
    BY <1>0, <1>3, OtherThreads, StageFrame
  <2>2. TurnInv(u)'
    BY <1>0, <1>3, TurnOwn
  <2>. QED  BY <1>0, <2>1, <2>2 DEF RotationInv
<1>. QED  BY <1>1, <1>2, <1>3 DEF Next

\* run_active_list is fair: of two operations of a thread that begin at the
\* start of their file, neither gets ahead by more than one chunk, however
\* small the iocbs array and however the files grow.
THEOREM RotatesFairly == Spec => []RotationFair
<1>1. RotationInv => RotationFair
  <2> SUFFICES ASSUME RotationInv, NEW t \in Threads, pc[t] = "loop",
                      NEW o \in ToSet(active[t]), NEW p \in ToSet(active[t]), Leads(o), Leads(p)
               PROVE  started_ios[o] - started_ios[p] <= io_iter
    BY DEF RotationFair, Leads
  <2>1. IInv /\ TurnInv(t) /\ TypeInv /\ ListInv(t)
    BY DEF RotationInv, FiguresInv, RoundInv, IInv, DataInv
  <2>2. o \in OpersOf(t) /\ p \in OpersOf(t)
    BY <2>1, OwnOpers
  <2>3. /\ started_ios[o] = issued[o] /\ issued[o] \in Nat
        /\ started_ios[p] = issued[p] /\ issued[p] \in Nat
    BY <2>1, <2>2, AllStarted DEF Building
  <2>4. /\ Issuing(t, o) = issued[o] /\ Issuing(t, p) = issued[p]
        /\ \A q : ~Built(t, q)
    BY DEF Issuing, Built
  <2>5. active[t] \in Seq(Opers) /\ Len(active[t]) \in Nat
    BY <2>1 DEF TypeInv
  <2>6. PICK i \in 1..Len(active[t]), j \in 1..Len(active[t]) :
          active[t][i] = o /\ active[t][j] = p
    BY <2>5 DEF ToSet
  <2>7. \/ o = p \/ Before(active[t], o, p) \/ Before(active[t], p, o)
    <3>1. i = j \/ i < j \/ j < i
      BY <2>5
    <3>. QED  BY <2>6, <3>1 DEF Before
  <2>8. \/ o = p \/ InTurn(t, o, p) \/ InTurn(t, p, o)
    BY <2>1, <2>2, <2>4, <2>7 DEF TurnInv, Inner
  <2>. QED  BY <2>3, <2>4, <2>8, Config DEF InTurn
<1>2. Spec => []RotationInv
  BY RotationInit, RotationNext, PTL DEF Spec
<1>. QED  BY <1>1, <1>2, PTL
=============================================================================
