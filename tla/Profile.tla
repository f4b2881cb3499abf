------------------------------- MODULE Profile -------------------------------
(***************************************************************************)
(* What one thread of the scheduler measures under CONFIG_RSCHED_PROFILE:  *)
(* its three nested timers around a frame, a task and the task's payload,  *)
(* their sums and extremes (sched/rsched_profile.h), and what              *)
(* rsched_print_stats makes of them.  Each of the three has a histogram;   *)
(* Hist's variables are the one of the statistic `watched', searched probe *)
(* by probe between two steps of the thread.                               *)
(***************************************************************************)
EXTENDS Hist, FiniteSetsExt

CONSTANTS PayloadTimes,  \* what a block may take to draw
          OtherTimes,    \* what the scheduler may take between two readings of the clock
          MaxTasks,      \* bound: tasks of the thread
          MaxFrames      \* bound: frames

ASSUME ProfileAssumption ==
  /\ PayloadTimes \subseteq Nat /\ OtherTimes \subseteq Nat
  /\ MaxTasks \in Nat /\ MaxFrames \in Nat
  /\ \E d \in OtherTimes \cup {0} :          \* no difference of totals reaches 2^64
       (\A o \in OtherTimes : o <= d) /\ d * (2 * MaxTasks + MaxFrames) < Word

VARIABLES at,            \* where the thread is in its loop
          quit,          \* a worker: RS_SIG_QUIT has ended its loop
          watched,       \* whose histogram Hist's variables are
          stat,          \* struct profile_stat of each, without the histogram
          elapsed,       \* what perf_timer_diff_ns would say of each timer
          task_count,
          frames, empty, \* history: frames begun, pops that found no task
          outside        \* history: time within tasks that was not the payload's

counts == <<task_count, frames, empty>>
vars == <<histVars, at, quit, watched, stat, elapsed, counts, outside>>

Stats == {"run", "task", "payload"}

UINT64_MAX == Word - 1

(* rsched_profile_stat_init of all three. *)
Init ==
  /\ HistInit
  /\ at = "resting" /\ quit = FALSE
  /\ watched \in Stats
  /\ stat = [s \in Stats |-> [total |-> 0, max |-> 0, min |-> UINT64_MAX]]
  /\ elapsed = [s \in Stats |-> 0]
  /\ task_count = 0 /\ frames = 0 /\ empty = 0 /\ outside = 0

-----------------------------------------------------------------------------
Pass(d) == elapsed' = [x \in Stats |-> elapsed[x] + d]

(* rsched_profile_start of s, after d nanoseconds of all the timers.       *)
StartMutant(s, d) ==                                 \* the payload's timer runs on from task to task
  elapsed' = [x \in Stats |-> IF x = s /\ s # "payload" THEN 0 ELSE elapsed[x] + d]

Start(s, d) == elapsed' = [x \in Stats |-> IF x = s THEN 0 ELSE elapsed[x] + d]

Folded(f, v) ==
  [total |-> f.total + v, max |-> Max({f.max, v}), min |-> Min({f.min, v})]

(* rsched_profile_stop of s, d nanoseconds later; the reading is not used  *)
(* again.                                                                  *)
Stop(s, d) ==
  /\ stat' = [stat EXCEPT ![s] = Folded(@, elapsed[s] + d)]
  /\ elapsed' = [x \in Stats |-> IF x = s THEN 0 ELSE elapsed[x] + d]
  /\ IF s = watched THEN AddBegin(elapsed[s] + d) ELSE UNCHANGED histVars

(* The thread goes on from one place to another; perf_hist_add has         *)
(* returned.                                                               *)
From(p, q) == pc = "idle" /\ at = p /\ at' = q /\ UNCHANGED watched

(* rsched_host_yield or rsched_worker_loop. *)
Begin ==
  /\ From("resting", "looping") /\ ~quit /\ frames < MaxFrames
  /\ Start("run", 0)
  /\ frames' = frames + 1
  /\ UNCHANGED <<histVars, quit, stat, task_count, empty, outside>>

TaskBegin ==
  /\ From("looping", "popping")
  /\ Start("task", 0)
  /\ UNCHANGED <<histVars, quit, stat, counts, outside>>

PopTask(d) ==
  /\ From("popping", "working") /\ task_count < MaxTasks
  /\ Start("payload", d)
  /\ outside' = outside + d
  /\ UNCHANGED <<histVars, quit, stat, counts>>

(* The queue is empty: the thread leaves its loop, the task's timer running. *)
PopNone(d) ==
  /\ From("popping", "leaving")
  /\ Pass(d)
  /\ outside' = outside + d /\ empty' = empty + 1
  /\ UNCHANGED <<histVars, quit, stat, task_count, frames>>

(* The block, then, in either order, the count and the payload's stop.     *)
Draw(d) ==
  /\ From("working", "drawn")
  /\ Stop("payload", d)
  /\ task_count' = task_count + 1
  /\ UNCHANGED <<quit, frames, empty, outside>>

(* No signal, or RS_SIG_START. *)
TaskEnd(d) ==
  /\ From("drawn", "looping")
  /\ Stop("task", d)
  /\ outside' = outside + d
  /\ UNCHANGED <<quit, counts>>

(* A worker finds RS_SIG_QUIT after a task. *)
Quit ==
  /\ From("drawn", "leaving")
  /\ quit' = TRUE
  /\ UNCHANGED <<histVars, stat, elapsed, counts, outside>>

LeaveTaskMutant ==                                \* only finished tasks are stopped
  /\ From("leaving", "left")
  /\ UNCHANGED <<histVars, quit, stat, elapsed, counts, outside>>

LeaveTask ==
  /\ From("leaving", "left")
  /\ Stop("task", 0)
  /\ UNCHANGED <<quit, counts, outside>>

LeaveRun ==
  /\ From("left", "resting")
  /\ Stop("run", 0)
  /\ UNCHANGED <<quit, counts, outside>>

HistStep ==
  /\ Search
  /\ UNCHANGED <<at, quit, watched, stat, elapsed, counts, outside>>

Done == pc = "idle" /\ at = "resting" /\ (quit \/ frames = MaxFrames) /\ UNCHANGED vars

Next ==
  \/ Begin \/ TaskBegin
  \/ \E d \in OtherTimes : PopTask(d) \/ PopNone(d) \/ TaskEnd(d)
  \/ \E d \in PayloadTimes : Draw(d)
  \/ Quit \/ LeaveTask \/ LeaveRun
  \/ HistStep
  \/ Done

Spec == Init /\ [][Next]_vars

(* perf_hist_add runs to its end. *)
LiveSpec == Spec /\ WF_vars(HistStep)

-----------------------------------------------------------------------------
(* print_worker_stats.                                                     *)
Average(s) == stat[s].total \div Max({task_count, 1})
OverheadTotal == (stat["task"].total - stat["payload"].total) % Word
OverheadAvg == Average("task") - Average("payload")
OverheadMax == stat["task"].max - stat["payload"].max

AtRest == at = "resting" /\ pc = "idle"

(* A thread that rests between frames, as all do when rsched_print_stats   *)
(* runs, has one entry in the histograms for each frame, one for each      *)
(* payload, and for the tasks also one for each pop that found none: none  *)
(* is lost, whatever the options, and none is added twice, also by a       *)
(* thread that a signal took out of its loop.                              *)
Entries ==
  CASE watched = "run" -> frames
    [] watched = "payload" -> task_count
    [] watched = "task" -> task_count + empty

AllCounted == AtRest => MapThenSumSet(LAMBDA i : data[i], Bins) = Entries

(* What is printed as overhead is the time that the thread's tasks spent   *)
(* outside their payload: no unsigned difference wraps, the averages and   *)
(* maxima are in order, and the average payload lies between the extremes. *)
OverheadExact ==
  AtRest =>
    /\ OverheadTotal = outside
    /\ OverheadAvg >= 0 /\ OverheadMax >= 0
    /\ stat["task"].total <= stat["run"].total
    /\ task_count > 0 => Average("payload") \in stat["payload"].min .. stat["payload"].max
=============================================================================
