----------------------------- MODULE BlockStats -----------------------------
(***************************************************************************)
(* The statistics of app/benchmark.c: every scheduler thread that finishes *)
(* a block folds its time into four atomics shared by all of them.  The    *)
(* minimum and the maximum are kept by compare-and-swap loops.             *)
(***************************************************************************)
EXTENDS Integers, FiniteSets, FiniteSetsExt

CONSTANTS Threads,       \* the threads of the scheduler
          Times,         \* the block times that may be measured, in nanoseconds
          MaxBlocks,     \* bound: blocks per thread
          Never          \* UINT64_MAX, the minimum before the first block

ASSUME StatsAssumption ==
  /\ IsFiniteSet(Threads)
  /\ Never \in Nat
  /\ Times \subseteq 1 .. Never - 1
  /\ MaxBlocks \in Nat

VARIABLES pc,            \* where each thread is in benchmark_proc_fun
          elapsed,       \* elapsed_time of its current block
          seen,          \* min_time or max_time: what it last read of the atomic
          minTime, maxTime, total, count,        \* the atomics of struct benchmark
          blocks         \* history: the times each thread has measured, in order

atomics == <<minTime, maxTime, total, count>>
vars == <<pc, elapsed, seen, atomics, blocks>>

Cells == Threads \X (1 .. MaxBlocks)

(* blocks[<<t, i>>] is the i-th time of thread t, 0 if there is none yet.  *)
Measured == {c \in Cells : blocks[c] # 0}

PCs == {"idle", "minload", "mincas", "maxload", "maxcas", "total", "count"}

TypeOK ==
  /\ pc \in [Threads -> PCs]
  /\ elapsed \in [Threads -> Times \cup {0}]
  /\ seen \in [Threads -> 0 .. Never]
  /\ minTime \in Times \cup {Never} /\ maxTime \in Times \cup {0}
  /\ total \in Nat /\ count \in Nat
  /\ blocks \in [Cells -> Times \cup {0}]

Init ==
  /\ pc = [t \in Threads |-> "idle"]
  /\ elapsed = [t \in Threads |-> 0]
  /\ seen = [t \in Threads |-> 0]
  /\ minTime = Never /\ maxTime = 0 /\ total = 0 /\ count = 0
  /\ blocks = [c \in Cells |-> 0]

Goto(t, p) == pc' = [pc EXCEPT ![t] = p]

(* perf_timer_start .. perf_timer_diff_ns around mdb_kernel_process_block. *)
Measure(t, e) ==
  /\ pc[t] = "idle"
  /\ \E i \in 1 .. MaxBlocks :
       /\ blocks[<<t, i>>] = 0
       /\ \A j \in 1 .. i - 1 : blocks[<<t, j>>] # 0
       /\ blocks' = [blocks EXCEPT ![<<t, i>>] = e]
  /\ elapsed' = [elapsed EXCEPT ![t] = e]
  /\ Goto(t, "minload")
  /\ UNCHANGED <<seen, atomics>>

MinLoad(t) ==
  /\ pc[t] = "minload"
  /\ seen' = [seen EXCEPT ![t] = minTime]
  /\ Goto(t, IF minTime > elapsed[t] THEN "mincas" ELSE "maxload")
  /\ UNCHANGED <<elapsed, atomics, blocks>>

RereadMutant(t, x) == seen[t]                        \* the loop keeps its first read

(* What a failed compare-and-swap leaves in min_time or max_time.          *)
Reread(t, x) == x

MinUnseenMutant(t) == FALSE                          \* a plain store, not a compare-and-swap

(* Has another thread changed the atomic since this one read it?           *)
MinUnseen(t) == minTime # seen[t]

MinCas(t) ==
  /\ pc[t] = "mincas"
  /\ IF MinUnseen(t)
     THEN /\ seen' = [seen EXCEPT ![t] = Reread(t, minTime)]
          /\ Goto(t, IF Reread(t, minTime) > elapsed[t] THEN "mincas" ELSE "maxload")
          /\ UNCHANGED minTime
     ELSE /\ minTime' = elapsed[t]
          /\ Goto(t, "maxload")
          /\ UNCHANGED seen
  /\ UNCHANGED <<elapsed, maxTime, total, count, blocks>>

MaxLoad(t) ==
  /\ pc[t] = "maxload"
  /\ seen' = [seen EXCEPT ![t] = maxTime]
  /\ Goto(t, IF maxTime < elapsed[t] THEN "maxcas" ELSE "total")
  /\ UNCHANGED <<elapsed, atomics, blocks>>

MaxUnseen(t) == maxTime # seen[t]

MaxCas(t) ==
  /\ pc[t] = "maxcas"
  /\ IF MaxUnseen(t)
     THEN /\ seen' = [seen EXCEPT ![t] = Reread(t, maxTime)]
          /\ Goto(t, IF Reread(t, maxTime) < elapsed[t] THEN "maxcas" ELSE "total")
          /\ UNCHANGED maxTime
     ELSE /\ maxTime' = elapsed[t]
          /\ Goto(t, "total")
          /\ UNCHANGED seen
  /\ UNCHANGED <<elapsed, minTime, total, count, blocks>>

AddTotal(t) ==
  /\ pc[t] = "total"
  /\ total' = total + elapsed[t]
  /\ Goto(t, "count")
  /\ UNCHANGED <<elapsed, seen, minTime, maxTime, count, blocks>>

CountedMutant == IF count = 0 THEN 1 ELSE count      \* counts once

Counted == count + 1

AddCount(t) ==
  /\ pc[t] = "count"
  /\ count' = Counted
  /\ Goto(t, "idle")
  /\ UNCHANGED <<elapsed, seen, minTime, maxTime, total, blocks>>

Step(t) ==
  \/ MinLoad(t) \/ MinCas(t) \/ MaxLoad(t) \/ MaxCas(t) \/ AddTotal(t) \/ AddCount(t)

(* Every thread has measured all its blocks. *)
Stopped ==
  /\ \A t \in Threads : pc[t] = "idle"
  /\ Measured = Cells
  /\ UNCHANGED vars

Next ==
  \/ \E t \in Threads, e \in Times : Measure(t, e)
  \/ \E t \in Threads : Step(t)
  \/ Stopped

Spec == Init /\ [][Next]_vars

LiveSpec == Spec /\ \A t \in Threads : WF_vars(Step(t))

-----------------------------------------------------------------------------
PastMin(t) == pc[t] \notin {"minload", "mincas"}
PastMax(t) == PastMin(t) /\ pc[t] \notin {"maxload", "maxcas"}

(* The last block of a thread is the one it is working on. *)
Current(c) ==
  /\ c \in Measured
  /\ \A i \in 1 .. MaxBlocks : i > c[2] => blocks[<<c[1], i>>] = 0

(* Minimum and maximum are times that were measured, and no block whose    *)
(* thread is past its loop is outside them: a race of two loops loses      *)
(* neither.                                                                *)
ExtremesExact ==
  /\ minTime # Never => \E c \in Measured : blocks[c] = minTime
  /\ maxTime # 0 => \E c \in Measured : blocks[c] = maxTime
  /\ \A c \in Measured :
       /\ minTime <= blocks[c] \/ (Current(c) /\ ~PastMin(c[1]))
       /\ maxTime >= blocks[c] \/ (Current(c) /\ ~PastMax(c[1]))

(* benchmark_print_summary: block_ms is the total over the threads, and    *)
(* the average block time is block_ms over the blocks.                     *)
Summary == [block_ms |-> total \div Cardinality(Threads), block_count |-> count,
            min_block_ms |-> minTime, max_block_ms |-> maxTime]

(* With every thread back in the scheduler (rsched_host_yield returned),   *)
(* what is printed fits the blocks that were measured: their number, the   *)
(* sum of their times, and an average that, times the threads by which it  *)
(* was divided, lies between the smallest and the largest of them.         *)
SummaryExact ==
  (\A t \in Threads : pc[t] = "idle") /\ Measured # {} =>
    LET sum == MapThenSumSet(LAMBDA c : blocks[c], Measured)
    IN /\ Summary.block_count = Cardinality(Measured)
       /\ sum - Summary.block_ms * Cardinality(Threads) \in 0 .. Cardinality(Threads) - 1
       /\ Summary.min_block_ms * Summary.block_count <= sum
       /\ sum <= Summary.max_block_ms * Summary.block_count

(* A thread leaves both loops: each failed compare-and-swap means that     *)
(* another thread has moved the minimum down or the maximum up.            *)
BlocksEnd == \A t \in Threads : (pc[t] # "idle") ~> (pc[t] = "idle")
=============================================================================
