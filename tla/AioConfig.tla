----------------------------- MODULE AioConfig -----------------------------
(***************************************************************************)
(* What main() of aiostress/aio-stress.c makes of its options: the clamped *)
(* sizes, the io operations it creates and the thread each belongs to.     *)
(* Sizes and offsets are in blocks of an arbitrary size.                   *)
(***************************************************************************)
EXTENDS Integers, Sequences, FiniteSets

CONSTANTS
  NumFiles,       \* files on the command line
  NumContexts,    \* -c
  OptThreads,     \* -t
  OptDepth,       \* -d
  OptIoIter,      \* -i
  OptSubmit,      \* -b, 0 when not given (-C sets it too: its case has no break)
  OptStages,      \* -o: a set of stages, {} when not given
  FileSize,       \* -s
  ContextOffset,  \* -C
  RecLen,         \* -r
  Iterations,     \* -I, RUN_FOREVER when not given
  Stonewall       \* 0 with -x, else 1

RUN_FOREVER == -1

\* The stages, numbered as in the enum of the source.
WRITE  == 0
READ   == 1
RWRITE == 2
RREAD  == 3
AllStages == {WRITE, READ, RWRITE, RREAD}

ASSUME OptionAssumption ==
  /\ NumFiles \in Nat \ {0} /\ NumContexts \in Nat \ {0}
  /\ OptThreads \in Nat \ {0} /\ OptDepth \in Nat \ {0}
  /\ OptIoIter \in Nat \ {0} /\ OptSubmit \in Nat
  /\ OptStages \subseteq AllStages
  /\ FileSize \in Nat /\ ContextOffset \in Nat /\ RecLen \in Nat \ {0}
  /\ Iterations \in Nat \cup {RUN_FOREVER}
  /\ Stonewall \in {0, 1}

\* "file size too small for %d contexts": main exits otherwise.
ASSUME SizeAssumption == FileSize >= NumContexts * ContextOffset

MinOf(a, b) == IF a < b THEN a ELSE b

\* Every context of every file is one operation.
NumOpers == NumFiles * NumContexts
Opers == 1..NumOpers

num_threads == MinOf(OptThreads, NumOpers)
Threads == 0..(num_threads - 1)

\* "make sure we don't try to submit more ios than we have allocated memory
\* for", then the default of max_io_submit, then io_iter clamped again.
iter_for_depth == MinOf(OptDepth, OptIoIter)
max_io_submit == IF OptSubmit = 0 THEN NumFiles * iter_for_depth * NumContexts
                                  ELSE OptSubmit
io_iter == MinOf(max_io_submit, iter_for_depth)

stages == IF OptStages = {} THEN AllStages ELSE OptStages
first_stage == CHOOSE s \in stages : \A r \in stages : s <= r

\* The loops over files and contexts: operation o is context (o - 1) mod
\* num_contexts of its file, and the threads are dealt the operations in turn.
FileOf(o)    == (o - 1) \div NumContexts
ContextOf(o) == (o - 1) % NumContexts
ThreadOf(o)  == (o - 1) % num_threads
OpersOf(t)   == {o \in Opers : ThreadOf(o) = t}

\* The operations of a thread in the order main adds them to its list.
OperList(t) ==
  [k \in 1..((NumOpers - 1 - t) \div num_threads + 1) |-> t + 1 + (k - 1) * num_threads]

\* Division of C, which truncates towards zero.
Quotient(a, b) == IF a >= 0 THEN a \div b ELSE -((-a) \div b)

\* create_oper.
start(o) == ContextOf(o) * ContextOffset
end(o)   == FileSize - ContextOf(o) * ContextOffset
total_ios(o) == Quotient(end(o) - start(o), RecLen)

\* Mutant: units for one file only.
num_global_ios_oneFile(t) == OptDepth

\* setup_ious: the io units of a thread.
num_global_ios(t) == Cardinality(OpersOf(t)) * OptDepth

\* restart_oper: the stage after rw, or none (the switch that falls through).
LaterStages(rw) == {s \in stages : s > rw}
NextStage(rw) == CHOOSE s \in LaterStages(rw) : \A r \in LaterStages(rw) : s <= r
=============================================================================
