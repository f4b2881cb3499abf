--------------------------- MODULE ProfileProofs ----------------------------
(***************************************************************************)
(* The search of perf_hist_add, for histograms of every size and range, on *)
(* a linear or an exponential scale, and for every time a thread may       *)
(* measure; the times that are printed; and the number of the histograms'  *)
(* entries.                                                                *)
(***************************************************************************)
EXTENDS Profile, FiniteSetTheorems, TLAPS

Indices == 0 .. size - 1

HistTypes ==
  /\ size \in Nat \ {0}
  /\ min \in 0 .. Word - 1 /\ max \in 0 .. Word - 1
  /\ top \in [Indices -> Nat]

(* The bins' ends rise, unless min= is above max=.                         *)
Sorted ==
  min <= max =>
    /\ \A i \in Indices : min <= top[i]
    /\ \A i, j \in Indices : i <= j => top[i] <= top[j]

(* What the search has excluded: the bins below l end at or before the     *)
(* value, and those above r begin behind it.                               *)
SearchInv ==
  pc = "search" =>
    /\ val \in Nat
    /\ l \in 0 .. size /\ r \in -1 .. size - 1 /\ l <= r + 1
    /\ min <= max => /\ l > 0 => top[l - 1] <= val
                     /\ r < size - 1 => val < Bottom(r + 1)

TimesInv == elapsed \in [Stats -> Nat]

ProfileInv == HistTypes /\ Sorted /\ SearchInv /\ TimesInv /\ SearchExact

-----------------------------------------------------------------------------
LEMMA Multiples ==
  ASSUME NEW s \in Nat, NEW a \in Nat, NEW b \in Nat, a <= b
  PROVE  s * a <= s * b /\ s * a \in Nat /\ s * b \in Nat
<1>1. s * a \in Nat /\ s * b \in Nat /\ s * (b - a) \in Nat
  OBVIOUS
<1>2. s * b = s * a + s * (b - a)
  OBVIOUS
<1> QED
  BY <1>1, <1>2

LEMMA Quotient ==
  ASSUME NEW w \in Nat, NEW n \in Nat \ {0}
  PROVE  w \div n \in Nat /\ (w \div n) * n <= w
  OBVIOUS

LEMMA NoWrap ==
  ASSUME NEW a \in Nat, NEW w \in Nat, a < w
  PROVE  a % w = a
  OBVIOUS

(* The ends of linear bins rise and do not wrap round.                     *)
LEMMA LinearSorted ==
  ASSUME Word \in Nat \ {0}, size \in Nat \ {0}, min \in 0 .. Word - 1, max \in 0 .. Word - 1,
         min <= max
  PROVE  \A i \in Indices : LinearTop(i) = min + Step * (i + 1) /\ Step \in Nat
<1>1. Width = max - min
  BY NoWrap DEF Width
<1>2. Step \in Nat /\ Step * size <= max - min
  BY <1>1, Quotient DEF Step
<1> TAKE i \in Indices
<1>3. Step * (i + 1) <= Step * size /\ Step * (i + 1) \in Nat
  BY <1>2, Multiples DEF Indices
<1>4. min + Step * (i + 1) \in Nat /\ min + Step * (i + 1) < Word
  BY <1>2, <1>3
<1> QED
  BY <1>2, <1>4, NoWrap DEF LinearTop

LEMMA BinsRise ==
  ASSUME ProfileAssumption, HistAssumption, HistInit
  PROVE  HistTypes /\ Sorted
<1>1. Word \in Nat \ {0} /\ size \in Nat \ {0} /\ min \in 0 .. Word - 1 /\ max \in 0 .. Word - 1
  BY DEF HistAssumption, HistInit
<1>2. CASE top = [i \in 0 .. size - 1 |-> LinearTop(i)]
  <2>1. \A i \in Indices : top[i] = LinearTop(i) /\ top[i] \in Nat
    <3>1. \A i \in Indices : LinearTop(i) \in Nat
      BY <1>1 DEF LinearTop, Step, Width, Indices
    <3> QED
      BY <1>2, <3>1 DEF Indices
  <2>2. HistTypes
    BY <1>1, <1>2, <2>1 DEF HistTypes, Indices
  <2>3. ASSUME min <= max, NEW i \in Indices, NEW j \in Indices, i <= j
        PROVE  min <= top[i] /\ top[i] <= top[j]
    <3>1. top[i] = min + Step * (i + 1) /\ top[j] = min + Step * (j + 1) /\ Step \in Nat
      BY <1>1, <2>1, <2>3, LinearSorted
    <3>2. i + 1 \in Nat /\ j + 1 \in Nat /\ i + 1 <= j + 1
      BY <2>3 DEF Indices
    <3>3. Step * (i + 1) <= Step * (j + 1) /\ Step * (i + 1) \in Nat /\ Step * (j + 1) \in Nat
      BY <3>1, <3>2, Multiples
    <3> QED
      BY <1>1, <3>1, <3>3
  <2>4. Sorted
    BY <2>3 DEF Sorted, Indices
  <2> QED
    BY <2>2, <2>4
<1>3. CASE \E f \in [0 .. size - 1 -> min .. max] : IsLogTop(f) /\ top = f
  <2>1. top \in [0 .. size - 1 -> min .. max] /\ IsLogTop(top)
    BY <1>3
  <2>2. HistTypes
    BY <1>1, <2>1 DEF HistTypes, Indices
  <2>3. Sorted
    BY <1>1, <2>1 DEF Sorted, Indices, IsLogTop
  <2> QED
    BY <2>2, <2>3
<1> QED
  BY <1>2, <1>3 DEF HistInit

-----------------------------------------------------------------------------
LEMMA MiddleBetween ==
  ASSUME l \in Int, r \in Int, l <= r
  PROVE  Middle \in Int /\ l <= Middle /\ Middle <= r
<1>1. (r - l) \div 2 \in Int /\ 0 <= (r - l) \div 2 /\ (r - l) \div 2 <= r - l
  OBVIOUS
<1> QED
  BY <1>1 DEF Middle

(* A probe moves one end behind a bin that cannot hold the value.          *)
LEMMA ProbeKeeps ==
  ASSUME ProfileInv, ProbeLeft \/ ProbeRight
  PROVE  SearchInv' /\ UNCHANGED <<size, min, max, top, pc, val>>
<1> USE DEF ProfileInv
<1>1. /\ UNCHANGED <<size, min, max, top, pc, val>> /\ pc = "search" /\ l <= r
      /\ val \in Nat /\ l \in 0 .. size /\ r \in -1 .. size - 1 /\ size \in Nat
  BY DEF ProbeLeft, ProbeRight, hist, SearchInv, HistTypes
<1>2. Middle \in Int /\ l <= Middle /\ Middle <= r
  BY <1>1, MiddleBetween
<1>3. Middle \in Indices /\ top[Middle] \in Nat
  BY <1>1, <1>2 DEF HistTypes, Indices
<1>4. CASE ProbeLeft
  <2>1. r' = Middle - 1 /\ l' = l /\ val < Bottom(Middle)
    BY <1>4 DEF ProbeLeft, Below
  <2>2. r' + 1 = Middle
    BY <1>2, <2>1
  <2>3. Bottom(r + 1)' = Bottom(Middle)
    BY <1>1, <2>2 DEF Bottom
  <2> QED
    BY <1>1, <1>2, <2>1, <2>2, <2>3 DEF SearchInv
<1>5. CASE ProbeRight
  <2>1. l' = Middle + 1 /\ r' = r /\ val >= top[Middle]
    BY <1>5 DEF ProbeRight, Above
  <2>2. l' - 1 = Middle
    BY <1>2, <2>1
  <2>3. Bottom(r + 1)' = Bottom(r + 1)
    BY <1>1, <2>1 DEF Bottom
  <2> QED
    BY <1>1, <1>2, <2>1, <2>2, <2>3 DEF SearchInv
<1> QED
  BY <1>4, <1>5

(* What is found holds the value; and if nothing is, no bin does.          *)
LEMMA FoundIsExact ==
  ASSUME ProfileInv, ProbeHit \/ NotFound
  PROVE  SearchExact' /\ SearchInv' /\ UNCHANGED <<size, min, max, top>>
<1> USE DEF ProfileInv
<1>1. /\ UNCHANGED <<size, min, max, top, val, l, r>> /\ pc = "search" /\ pc' = "found"
      /\ val \in Nat /\ l \in 0 .. size /\ r \in -1 .. size - 1 /\ l <= r + 1
      /\ size \in Nat \ {0} /\ min \in Nat /\ max \in Nat
  BY HistAssumption DEF HistAssumption, ProbeHit, NotFound, hist, SearchInv, HistTypes
<1>2. CASE ProbeHit
  <2>1. Middle \in Int /\ l <= Middle /\ Middle <= r
    BY <1>1, <1>2, MiddleBetween DEF ProbeHit
  <2>2. Middle \in Indices /\ top[Middle] \in Nat /\ Bottom(Middle) \in Nat
    BY <1>1, <2>1 DEF HistTypes, Indices, Bottom
  <2>3. Bottom(Middle) <= val /\ val < top[Middle] /\ idx' = Middle
    BY <1>1, <1>2, <2>2 DEF ProbeHit, Below, Above
  <2>4. idx' < size /\ Bottom(Middle)' = Bottom(Middle)
    BY <1>1, <2>1, <2>3 DEF Bottom, Middle
  <2>5. Holds(idx)'
    BY <1>1, <2>3, <2>4 DEF Holds, Bottom
  <2> QED
    BY <1>1, <2>1, <2>3, <2>4, <2>5 DEF SearchExact, SearchInv, HIST_BOUNDL, HIST_BOUNDR
<1>3. CASE NotFound
  <2>1. l = r + 1 /\ idx' = Outside
    BY <1>1, <1>3 DEF NotFound
  <2>2. CASE l = 0
    <3>1. r = -1 /\ idx' = size /\ (min <= max => val < min)
      BY <1>1, <2>1, <2>2 DEF SearchInv, Bottom, Outside, HIST_BOUNDL
    <3> QED
      BY <1>1, <3>1 DEF SearchExact, SearchInv, HIST_BOUNDL, HIST_BOUNDR
  <2>3. CASE l > 0
    <3>1. idx' = size + 1
      BY <1>1, <2>1, <2>3 DEF Outside, HIST_BOUNDR
    <3>2. ASSUME min <= max PROVE \A i \in Indices : top[i] <= val
      <4>1. top[l - 1] <= val /\ l - 1 \in Indices /\ top[l - 1] \in Nat
        BY <1>1, <2>3, <3>2 DEF SearchInv, Indices, HistTypes
      <4>2. l = size
        BY <1>1, <2>1, <2>3, <3>2, <4>1 DEF SearchInv, Bottom
      <4> TAKE i \in Indices
      <4>3. i <= l - 1 /\ top[i] \in Nat
        BY <1>1, <4>2 DEF Indices, HistTypes
      <4>4. top[i] <= top[l - 1]
        BY <3>2, <4>1, <4>3 DEF Sorted
      <4> QED
        BY <1>1, <4>1, <4>3, <4>4
    <3> QED
      BY <1>1, <3>1, <3>2 DEF SearchExact, SearchInv, HIST_BOUNDL, HIST_BOUNDR, Indices
  <2> QED
    BY <1>1, <2>2, <2>3
<1> QED
  BY <1>2, <1>3

LEMMA SearchKeeps ==
  ASSUME ProfileInv, Search
  PROVE  HistTypes' /\ Sorted' /\ SearchInv' /\ SearchExact'
<1>1. CASE ProbeLeft \/ ProbeRight
  <2>1. SearchInv' /\ UNCHANGED <<size, min, max, top, pc, val>> /\ pc = "search"
    BY <1>1, ProbeKeeps DEF ProbeLeft, ProbeRight
  <2> QED
    BY <2>1 DEF ProfileInv, HistTypes, Sorted, Indices, SearchExact
<1>2. CASE ProbeHit \/ NotFound
  <2>1. SearchExact' /\ SearchInv' /\ UNCHANGED <<size, min, max, top>>
    BY <1>2, FoundIsExact
  <2> QED
    BY <2>1 DEF ProfileInv, HistTypes, Sorted, Indices
<1>3. CASE AddEnd
  BY <1>3 DEF AddEnd, hist, ProfileInv, HistTypes, Sorted, Indices, SearchInv, SearchExact
<1> QED
  BY <1>1, <1>2, <1>3 DEF Search

(* A new search excludes nothing yet.                                      *)
LEMMA AddBeginKeeps ==
  ASSUME ProfileInv, NEW v \in Nat, AddBegin(v)
  PROVE  HistTypes' /\ Sorted' /\ SearchInv' /\ SearchExact'
<1>1. /\ UNCHANGED <<size, min, max, top>> /\ pc' = "search"
      /\ val' = v /\ l' = 0 /\ r' = size - 1
  BY DEF AddBegin, hist
<1>2. HistTypes' /\ Sorted'
  BY <1>1 DEF ProfileInv, HistTypes, Sorted, Indices
<1>3. SearchInv'
  BY <1>1 DEF ProfileInv, HistTypes, SearchInv
<1>4. SearchExact'
  BY <1>1 DEF SearchExact
<1> QED
  BY <1>2, <1>3, <1>4

LEMMA StopKeeps ==
  ASSUME ProfileInv, NEW s \in Stats, NEW d \in Nat, Stop(s, d)
  PROVE  ProfileInv'
<1>1. elapsed[s] + d \in Nat /\ TimesInv'
  BY DEF ProfileInv, TimesInv, Stop
<1>2. CASE s = watched
  BY <1>1, <1>2, AddBeginKeeps DEF Stop, ProfileInv
<1>3. CASE s # watched
  BY <1>1, <1>3 DEF Stop, ProfileInv, histVars, hist, search, HistTypes, Sorted, Indices, SearchInv,
     Bottom, SearchExact, Holds, HIST_BOUNDL, HIST_BOUNDR
<1> QED
  BY <1>2, <1>3

LEMMA ProfileStep ==
  ASSUME ProfileInv, [Next]_vars
  PROVE  ProfileInv'
<1>1. ASSUME UNCHANGED histVars, TimesInv' PROVE ProfileInv'
  BY <1>1 DEF ProfileInv, histVars, hist, search, HistTypes, Sorted, Indices, SearchInv,
     Bottom, SearchExact, Holds, HIST_BOUNDL, HIST_BOUNDR
<1>2. "run" \in Stats /\ "task" \in Stats /\ "payload" \in Stats
  BY DEF Stats
<1>3. CASE Begin \/ TaskBegin
  BY <1>1, <1>3 DEF Begin, TaskBegin, Start, ProfileInv, TimesInv
<1>4. ASSUME NEW d \in OtherTimes, PopTask(d) \/ PopNone(d) \/ TaskEnd(d) PROVE ProfileInv'
  <2>1. d \in Nat
    BY ProfileAssumption DEF ProfileAssumption
  <2>2. CASE PopTask(d) \/ PopNone(d)
    BY <1>1, <2>1, <2>2 DEF PopTask, PopNone, Start, Pass, ProfileInv, TimesInv
  <2>3. CASE TaskEnd(d)
    BY <1>2, <2>1, <2>3, StopKeeps DEF TaskEnd
  <2> QED
    BY <1>4, <2>2, <2>3
<1>5. ASSUME NEW d \in PayloadTimes, Draw(d) PROVE ProfileInv'
  BY <1>2, <1>5, ProfileAssumption, StopKeeps DEF Draw, ProfileAssumption
<1>6. CASE LeaveTask \/ LeaveRun
  BY <1>2, <1>6, StopKeeps DEF LeaveTask, LeaveRun
<1>7. CASE Quit
  BY <1>1, <1>7 DEF Quit, ProfileInv, TimesInv
<1>8. CASE HistStep
  BY <1>8, SearchKeeps DEF HistStep, ProfileInv, TimesInv
<1>9. CASE Done \/ UNCHANGED vars
  BY <1>1, <1>9 DEF Done, vars, ProfileInv, TimesInv
<1> QED
  BY <1>3, <1>4, <1>5, <1>6, <1>7, <1>8, <1>9 DEF Next

LEMMA SearchKeepsTrack == Spec => []ProfileInv
<1>1. Init => ProfileInv
  <2> SUFFICES ASSUME Init PROVE ProfileInv
    OBVIOUS
  <2>1. HistTypes /\ Sorted
    BY BinsRise, ProfileAssumption, HistAssumption DEF Init
  <2>2. pc = "idle" /\ TimesInv
    BY DEF Init, HistInit, TimesInv
  <2> QED
    BY <2>1, <2>2 DEF ProfileInv, SearchInv, SearchExact
<1>2. ProfileInv /\ [Next]_vars => ProfileInv'
  BY ProfileStep
<1> QED
  BY <1>1, <1>2, PTL DEF Spec

(* perf_hist_bsearch finds the bin that holds the value, or the side on    *)
(* which the value lies outside, however many bins there are.              *)
THEOREM SearchFindsTheBin == Spec => []SearchExact
<1>1. ProfileInv => SearchExact
  BY DEF ProfileInv
<1> QED
  BY <1>1, SearchKeepsTrack, PTL

-----------------------------------------------------------------------------
(* The timers.  While a task is timed, its timer has run for what the      *)
(* payload and everything else took; the frame's timer for that and for    *)
(* the tasks before.                                                       *)
Timed == {"popping", "working", "drawn", "leaving"}

Stat == [total : Nat, max : Nat, min : Nat]

RunTotal == stat["run"].total
TaskTotal == stat["task"].total
PayloadTotal == stat["payload"].total

ThreadTypes ==
  /\ at \in {"resting", "looping", "left"} \cup Timed
  /\ stat \in [Stats -> Stat] /\ elapsed \in [Stats -> Nat]
  /\ task_count \in Nat /\ frames \in Nat /\ empty \in Nat /\ outside \in Nat

TotalsInv ==
  /\ at = "resting" => TaskTotal <= RunTotal
  /\ at \in {"looping", "left"} => TaskTotal <= RunTotal + elapsed["run"]
  /\ at \in Timed => TaskTotal + elapsed["task"] <= RunTotal + elapsed["run"]
  /\ TaskTotal + (IF at \in Timed THEN elapsed["task"] ELSE 0)
       = PayloadTotal + outside + (IF at = "working" THEN elapsed["payload"] ELSE 0)

(* The longest payload is within the longest task or the one that is timed. *)
MaximaInv ==
  /\ \/ stat["payload"].max <= stat["task"].max
     \/ at \in {"drawn", "leaving"} /\ stat["payload"].max <= elapsed["task"]
  /\ at = "working" => elapsed["payload"] <= elapsed["task"]

MeanInv ==
  /\ PayloadTotal <= task_count * stat["payload"].max
  /\ task_count * stat["payload"].min <= PayloadTotal

(* How often the scheduler's own time was added.                           *)
OtherSteps ==
  2 * task_count + empty + CASE at = "working" -> 1 [] at = "drawn" -> -1 [] OTHER -> 0

CountsInv ==
  /\ task_count <= MaxTasks /\ (at = "working" => task_count < MaxTasks)
  /\ empty <= frames /\ frames <= MaxFrames
  /\ at \in {"looping", "popping", "working", "drawn"} => empty < frames
  /\ at = "drawn" => task_count > 0
  /\ \A d \in Nat : (\A o \in OtherTimes : o <= d) => outside <= d * OtherSteps

TimerInv == ThreadTypes /\ TotalsInv /\ MaximaInv /\ MeanInv /\ CountsInv

(* Max and Min of two numbers.                                             *)
LEMMA Greater ==
  ASSUME NEW a \in Int, NEW b \in Int
  PROVE  /\ Max({a, b}) \in {a, b} /\ Max({a, b}) >= a /\ Max({a, b}) >= b
         /\ Min({a, b}) \in {a, b} /\ Min({a, b}) <= a /\ Min({a, b}) <= b
<1>1. \E x \in {a, b} : \A y \in {a, b} : x >= y
  OBVIOUS
<1>2. \E x \in {a, b} : \A y \in {a, b} : x <= y
  OBVIOUS
<1>3. Max({a, b}) \in {a, b} /\ \A y \in {a, b} : Max({a, b}) >= y
  BY <1>1, Zenon DEF Max
<1>4. Min({a, b}) \in {a, b} /\ \A y \in {a, b} : Min({a, b}) <= y
  BY <1>2, Zenon DEF Min
<1> QED
  BY <1>3, <1>4

(* What rsched_profile_stop does to a statistic and to the timers.         *)
LEMMA StopFolds ==
  ASSUME ThreadTypes, NEW s \in Stats, NEW d \in Nat, Stop(s, d)
  PROVE  /\ stat' \in [Stats -> Stat] /\ elapsed' \in [Stats -> Nat]
         /\ stat'[s].total = stat[s].total + elapsed[s] + d
         /\ stat'[s].max >= stat[s].max /\ stat'[s].max >= elapsed[s] + d
         /\ stat'[s].max \in {stat[s].max, elapsed[s] + d}
         /\ stat'[s].min <= stat[s].min /\ stat'[s].min <= elapsed[s] + d
         /\ elapsed'[s] = 0
         /\ \A x \in Stats \ {s} : stat'[x] = stat[x] /\ elapsed'[x] = elapsed[x] + d
<1>1. stat[s] \in Stat /\ elapsed[s] \in Nat /\ Word \in Nat \ {0}
  BY HistAssumption DEF ThreadTypes, HistAssumption
<1> DEFINE v == elapsed[s] + d
<1>2. v \in Nat /\ stat[s].max \in Nat /\ stat[s].min \in Nat /\ stat[s].total \in Nat
  BY <1>1 DEF Stat
<1>3. stat' = [stat EXCEPT ![s] = Folded(stat[s], v)]
      /\ elapsed' = [x \in Stats |-> IF x = s THEN 0 ELSE elapsed[x] + d]
  BY DEF Stop
<1> HIDE DEF v
<1>4. /\ Folded(stat[s], v).total = stat[s].total + v
      /\ Folded(stat[s], v).max >= stat[s].max /\ Folded(stat[s], v).max >= v
      /\ Folded(stat[s], v).max \in {stat[s].max, v}
      /\ Folded(stat[s], v).min <= stat[s].min /\ Folded(stat[s], v).min <= v
      /\ Folded(stat[s], v) \in Stat
  <2> DEFINE m == Max({stat[s].max, v})
  <2> DEFINE n == Min({stat[s].min, v})
  <2>0. v \in Int /\ stat[s].max \in Int /\ stat[s].min \in Int
    BY <1>2
  <2>1. /\ m \in {stat[s].max, v} /\ m >= stat[s].max /\ m >= v
        /\ n \in {stat[s].min, v} /\ n <= stat[s].min /\ n <= v
    BY <2>0, Greater, Zenon
  <2>2. Folded(stat[s], v) = [total |-> stat[s].total + v, max |-> m, min |-> n]
    BY DEF Folded
  <2> HIDE DEF m, n
  <2> QED
    BY <1>2, <2>1, <2>2 DEF Stat
<1>5. stat'[s] = Folded(stat[s], v) /\ stat' \in [Stats -> Stat]
      /\ \A x \in Stats \ {s} : stat'[x] = stat[x]
  BY <1>3, <1>4 DEF ThreadTypes
<1>6. elapsed' \in [Stats -> Nat] /\ elapsed'[s] = 0
      /\ \A x \in Stats \ {s} : elapsed'[x] = elapsed[x] + d
  BY <1>3 DEF ThreadTypes
<1>7. v = elapsed[s] + d
  BY DEF v
<1> QED
  BY <1>1, <1>2, <1>4, <1>5, <1>6, <1>7

(* For the prover: a product with a successor.                             *)
LEMMA Distributes ==
  ASSUME NEW n \in Nat, NEW a \in Int
  PROVE  (n + 1) * a = n * a + a /\ n * a \in Int /\ a * n = n * a
  OBVIOUS

(* A payload more keeps the mean between the extremes.                     *)
LEMMA MeanStep ==
  ASSUME NEW n \in Nat, NEW t \in Nat, NEW v \in Nat,
         NEW lo \in Nat, NEW hi \in Nat, NEW low \in Nat, NEW high \in Nat,
         t <= n * hi, n * lo <= t,
         high >= hi, high >= v, low <= lo, low <= v
  PROVE  t + v <= (n + 1) * high /\ (n + 1) * low <= t + v
<1>1. n * hi <= n * high /\ n * low <= n * lo
  BY Multiples
<1>2. (n + 1) * high = n * high + high /\ (n + 1) * low = n * low + low
  BY Distributes
<1>3. n * hi \in Nat /\ n * high \in Nat /\ n * lo \in Nat /\ n * low \in Nat
  OBVIOUS
<1> QED
  BY <1>1, <1>2, <1>3

(* The bound of the scheduler's own time, after one more piece of it.      *)
LEMMA OutsideGrows ==
  ASSUME NEW k \in Int, NEW d \in OtherTimes, outside \in Nat,
         \A b \in Nat : (\A o \in OtherTimes : o <= b) => outside <= b * k
  PROVE  \A b \in Nat : (\A o \in OtherTimes : o <= b) => outside + d <= b * (k + 1)
<1> TAKE b \in Nat
<1> HAVE \A o \in OtherTimes : o <= b
<1>1. outside <= b * k /\ d <= b /\ d \in Nat
  BY ProfileAssumption DEF ProfileAssumption
<1>2. b * (k + 1) = b * k + b /\ b * k \in Int
  OBVIOUS
<1> QED
  BY <1>1, <1>2

-----------------------------------------------------------------------------
(* The steps that stop no timer.                                           *)
LEMMA StartSteps ==
  ASSUME TimerInv, Begin \/ TaskBegin \/ Quit
  PROVE  TimerInv'
<1> USE DEF TimerInv, Timed
<1>1. "run" \in Stats /\ "task" \in Stats /\ "payload" \in Stats
  BY DEF Stats
<1>2. CASE Begin
  <2>1. /\ at = "resting" /\ at' = "looping" /\ frames < MaxFrames /\ frames' = frames + 1
        /\ UNCHANGED <<stat, task_count, empty, outside>>
        /\ elapsed' = [x \in Stats |-> IF x = "run" THEN 0 ELSE elapsed[x] + 0]
    BY <1>2 DEF Begin, From, Start
  <2>2. elapsed'["run"] = 0 /\ elapsed' \in [Stats -> Nat]
    BY <1>1, <2>1 DEF ThreadTypes
  <2>3. ThreadTypes'
    BY <2>1, <2>2 DEF ThreadTypes
  <2>4. stat["task"] \in Stat /\ stat["run"] \in Stat /\ stat["payload"] \in Stat
    BY <1>1 DEF ThreadTypes
  <2>5. TotalsInv'
    BY <2>1, <2>2, <2>4 DEF TotalsInv, Stat, RunTotal, TaskTotal, PayloadTotal
  <2>6. MaximaInv' /\ MeanInv'
    BY <2>1 DEF MaximaInv, MeanInv, PayloadTotal
  <2>7. OtherSteps' = OtherSteps
    BY <2>1 DEF OtherSteps
  <2>8. CountsInv'
    BY <2>1, <2>7, ProfileAssumption DEF CountsInv, ThreadTypes, ProfileAssumption
  <2> QED
    BY <2>3, <2>5, <2>6, <2>8
<1>3. CASE TaskBegin
  <2>1. /\ at = "looping" /\ at' = "popping"
        /\ UNCHANGED <<stat, task_count, frames, empty, outside>>
        /\ elapsed' = [x \in Stats |-> IF x = "task" THEN 0 ELSE elapsed[x] + 0]
    BY <1>3 DEF TaskBegin, From, Start, counts
  <2>2. elapsed'["task"] = 0 /\ elapsed'["run"] = elapsed["run"] /\ elapsed' \in [Stats -> Nat]
    BY <1>1, <2>1 DEF ThreadTypes
  <2>3. ThreadTypes'
    BY <2>1, <2>2 DEF ThreadTypes
  <2>4. stat["task"] \in Stat /\ stat["run"] \in Stat /\ stat["payload"] \in Stat
    BY <1>1 DEF ThreadTypes
  <2>5. TotalsInv'
    BY <2>1, <2>2, <2>4 DEF TotalsInv, Stat, RunTotal, TaskTotal, PayloadTotal
  <2>6. MaximaInv' /\ MeanInv'
    BY <2>1 DEF MaximaInv, MeanInv, PayloadTotal
  <2>7. OtherSteps' = OtherSteps
    BY <2>1 DEF OtherSteps
  <2>8. CountsInv'
    BY <2>1, <2>7 DEF CountsInv
  <2> QED
    BY <2>3, <2>5, <2>6, <2>8
<1>4. CASE Quit
  <2>1. /\ at = "drawn" /\ at' = "leaving"
        /\ UNCHANGED <<stat, elapsed, task_count, frames, empty, outside>>
    BY <1>4 DEF Quit, From, counts
  <2>2. ThreadTypes' /\ MaximaInv' /\ MeanInv' /\ TotalsInv'
    BY <2>1 DEF ThreadTypes, MaximaInv, MeanInv, TotalsInv, RunTotal, TaskTotal, PayloadTotal
  <2>3. OtherSteps' = OtherSteps + 1 /\ OtherSteps \in Int
    BY <2>1 DEF OtherSteps, ThreadTypes
  <2>4. ASSUME NEW b \in Nat, \A o \in OtherTimes : o <= b PROVE outside' <= b * OtherSteps'
    <3>1. outside <= b * OtherSteps /\ b * OtherSteps \in Int
      BY <2>3, <2>4 DEF CountsInv
    <3>2. b * (OtherSteps + 1) = b * OtherSteps + b
      BY <2>3
    <3> QED
      BY <2>1, <2>3, <3>1, <3>2 DEF ThreadTypes
  <2>5. CountsInv'
    BY <2>1, <2>4 DEF CountsInv
  <2> QED
    BY <2>2, <2>5
<1> QED
  BY <1>2, <1>3, <1>4

(* A pop that finds a task, and one that finds none.                       *)
LEMMA PopSteps ==
  ASSUME TimerInv, NEW d \in OtherTimes, PopTask(d) \/ PopNone(d)
  PROVE  TimerInv'
<1> USE DEF TimerInv, Timed
<1>1. /\ "run" \in Stats /\ "task" \in Stats /\ "payload" \in Stats /\ d \in Nat
      /\ stat["task"] \in Stat /\ stat["run"] \in Stat /\ stat["payload"] \in Stat
  BY ProfileAssumption DEF ProfileAssumption, Stats, ThreadTypes
<1>2. /\ at = "popping" /\ UNCHANGED <<stat, task_count, frames>> /\ outside' = outside + d
      /\ \/ at' = "working" /\ task_count < MaxTasks /\ empty' = empty
         \/ at' = "leaving" /\ empty' = empty + 1
  BY DEF PopTask, PopNone, From, counts
<1>3. /\ elapsed' \in [Stats -> Nat] /\ elapsed'["task"] = elapsed["task"] + d
      /\ elapsed'["run"] = elapsed["run"] + d
      /\ at' = "working" => elapsed'["payload"] = 0
  <2>1. CASE PopTask(d)
    <3>1. elapsed' = [x \in Stats |-> IF x = "payload" THEN 0 ELSE elapsed[x] + d]
      BY <2>1 DEF PopTask, Start
    <3> QED
      BY <1>1, <3>1 DEF ThreadTypes
  <2>2. CASE PopNone(d)
    <3>1. elapsed' = [x \in Stats |-> elapsed[x] + d] /\ at' = "leaving"
      BY <2>2 DEF PopNone, Pass, From
    <3> QED
      BY <1>1, <3>1 DEF ThreadTypes
  <2> QED
    BY <2>1, <2>2
<1>4. ThreadTypes'
  BY <1>1, <1>2, <1>3 DEF ThreadTypes
<1>5. TotalsInv'
  BY <1>1, <1>2, <1>3 DEF TotalsInv, ThreadTypes, Stat, RunTotal, TaskTotal, PayloadTotal
<1>6. MaximaInv' /\ MeanInv'
  BY <1>1, <1>2, <1>3 DEF MaximaInv, MeanInv, PayloadTotal, ThreadTypes
<1>7. OtherSteps \in Int /\ OtherSteps' = OtherSteps + 1
  BY <1>2 DEF OtherSteps, ThreadTypes
<1>8. \A b \in Nat : (\A o \in OtherTimes : o <= b) => outside + d <= b * (OtherSteps + 1)
  BY <1>7, OutsideGrows DEF CountsInv, ThreadTypes
<1>9. CountsInv'
  BY <1>2, <1>7, <1>8 DEF CountsInv, ThreadTypes
<1> QED
  BY <1>4, <1>5, <1>6, <1>9

(* The payload is timed within its task.                                   *)
LEMMA DrawStep ==
  ASSUME TimerInv, NEW d \in PayloadTimes, Draw(d)
  PROVE  TimerInv'
<1> USE DEF TimerInv, Timed
<1>1. /\ "run" \in Stats \ {"payload"} /\ "task" \in Stats \ {"payload"} /\ "payload" \in Stats
      /\ d \in Nat
      /\ stat["task"] \in Stat /\ stat["run"] \in Stat /\ stat["payload"] \in Stat
  BY ProfileAssumption DEF ProfileAssumption, Stats, ThreadTypes
<1>2. /\ at = "working" /\ at' = "drawn" /\ Stop("payload", d)
      /\ task_count' = task_count + 1 /\ UNCHANGED <<frames, empty, outside>>
  BY DEF Draw, From
<1>3. /\ stat' \in [Stats -> Stat] /\ elapsed' \in [Stats -> Nat]
      /\ stat'["payload"].total = stat["payload"].total + elapsed["payload"] + d
      /\ stat'["payload"].max >= stat["payload"].max
      /\ stat'["payload"].max >= elapsed["payload"] + d
      /\ stat'["payload"].max \in {stat["payload"].max, elapsed["payload"] + d}
      /\ stat'["payload"].min <= stat["payload"].min
      /\ stat'["payload"].min <= elapsed["payload"] + d
      /\ stat'["task"] = stat["task"] /\ stat'["run"] = stat["run"]
      /\ elapsed'["task"] = elapsed["task"] + d /\ elapsed'["run"] = elapsed["run"] + d
  <2> HIDE DEF TimerInv
  <2>1. ThreadTypes
    BY DEF TimerInv
  <2> QED
    BY <1>1, <1>2, <2>1, StopFolds
<1>4. stat'["payload"] \in Stat /\ elapsed["payload"] \in Nat /\ elapsed["task"] \in Nat
      /\ elapsed["run"] \in Nat
  BY <1>1, <1>3 DEF ThreadTypes
<1>5. ThreadTypes'
  BY <1>2, <1>3 DEF ThreadTypes
<1>6. TotalsInv'
  <2>1. /\ stat["task"].total \in Nat /\ stat["run"].total \in Nat
        /\ stat["payload"].total \in Nat /\ outside \in Nat
    BY <1>1 DEF Stat, ThreadTypes
  <2>2. /\ stat["task"].total + elapsed["task"] <= stat["run"].total + elapsed["run"]
        /\ stat["task"].total + elapsed["task"]
             = stat["payload"].total + outside + elapsed["payload"]
    BY <1>2 DEF TotalsInv, RunTotal, TaskTotal, PayloadTotal
  <2> HIDE DEF TimerInv
  <2>3. /\ stat'["task"].total + elapsed'["task"] <= stat'["run"].total + elapsed'["run"]
        /\ stat'["task"].total + elapsed'["task"] = stat'["payload"].total + outside + 0
    BY <1>1, <1>3, <1>4, <2>1, <2>2
  <2> QED
    BY <1>2, <2>3 DEF TotalsInv, RunTotal, TaskTotal, PayloadTotal
<1>7. MaximaInv'
  BY <1>1, <1>2, <1>3, <1>4 DEF MaximaInv, Stat
<1>8. MeanInv'
  <2> DEFINE v == elapsed["payload"] + d
  <2>1. /\ v \in Nat /\ task_count \in Nat /\ stat["payload"].total \in Nat
        /\ stat["payload"].min \in Nat /\ stat["payload"].max \in Nat
        /\ stat'["payload"].min \in Nat /\ stat'["payload"].max \in Nat
    BY <1>1, <1>4 DEF Stat, ThreadTypes
  <2>2. /\ stat["payload"].total <= task_count * stat["payload"].max
        /\ task_count * stat["payload"].min <= stat["payload"].total
    BY DEF MeanInv, PayloadTotal
  <2>3. /\ stat["payload"].total + v <= (task_count + 1) * stat'["payload"].max
        /\ (task_count + 1) * stat'["payload"].min <= stat["payload"].total + v
    BY <1>3, <2>1, <2>2, MeanStep
  <2>4. stat'["payload"].total = stat["payload"].total + v
    BY <1>1, <1>3, <1>4, <2>1
  <2> QED
    BY <1>2, <2>3, <2>4 DEF MeanInv, PayloadTotal
<1>9. OtherSteps' = OtherSteps
  BY <1>2 DEF OtherSteps, ThreadTypes
<1>10. CountsInv'
  BY <1>2, <1>9, ProfileAssumption DEF CountsInv, ThreadTypes, ProfileAssumption
<1> QED
  BY <1>5, <1>6, <1>7, <1>8, <1>10

(* The task's timer stops behind the payload's.                            *)
LEMMA TaskEndStep ==
  ASSUME TimerInv, NEW d \in OtherTimes, TaskEnd(d)
  PROVE  TimerInv'
<1> USE DEF TimerInv, Timed
<1>1. /\ "run" \in Stats \ {"task"} /\ "payload" \in Stats \ {"task"} /\ "task" \in Stats
      /\ d \in Nat
      /\ stat["task"] \in Stat /\ stat["run"] \in Stat /\ stat["payload"] \in Stat
  BY ProfileAssumption DEF ProfileAssumption, Stats, ThreadTypes
<1>2. /\ at = "drawn" /\ at' = "looping" /\ Stop("task", d)
      /\ UNCHANGED <<task_count, frames, empty>> /\ outside' = outside + d
  BY DEF TaskEnd, From, counts
<1>3. /\ stat' \in [Stats -> Stat] /\ elapsed' \in [Stats -> Nat]
      /\ stat'["task"].total = stat["task"].total + elapsed["task"] + d
      /\ stat'["task"].max >= stat["task"].max /\ stat'["task"].max >= elapsed["task"] + d
      /\ stat'["payload"] = stat["payload"] /\ stat'["run"] = stat["run"]
      /\ elapsed'["run"] = elapsed["run"] + d
  <2> HIDE DEF TimerInv
  <2>1. ThreadTypes
    BY DEF TimerInv
  <2> QED
    BY <1>1, <1>2, <2>1, StopFolds
<1>4. stat'["task"] \in Stat /\ elapsed["task"] \in Nat /\ elapsed["run"] \in Nat
  BY <1>1, <1>3 DEF ThreadTypes
<1>5. ThreadTypes'
  BY <1>1, <1>2, <1>3 DEF ThreadTypes
<1>6. TotalsInv'
  BY <1>1, <1>2, <1>3, <1>4 DEF TotalsInv, ThreadTypes, Stat, RunTotal, TaskTotal, PayloadTotal
<1>7. MaximaInv' /\ MeanInv'
  BY <1>1, <1>2, <1>3, <1>4 DEF MaximaInv, MeanInv, PayloadTotal, Stat
<1>8. OtherSteps \in Int /\ OtherSteps' = OtherSteps + 1
  BY <1>2 DEF OtherSteps, ThreadTypes
<1>9. \A b \in Nat : (\A o \in OtherTimes : o <= b) => outside + d <= b * (OtherSteps + 1)
  BY <1>8, OutsideGrows DEF CountsInv, ThreadTypes
<1>10. CountsInv'
  BY <1>2, <1>8, <1>9 DEF CountsInv, ThreadTypes
<1> QED
  BY <1>5, <1>6, <1>7, <1>10

(* The ends of a frame, with or without a signal.                          *)
LEMMA LeaveSteps ==
  ASSUME TimerInv, LeaveTask \/ LeaveRun
  PROVE  TimerInv'
<1> USE DEF TimerInv, Timed
<1>1. /\ "run" \in Stats /\ "payload" \in Stats /\ "task" \in Stats
      /\ "run" # "task" /\ "payload" # "task" /\ "payload" # "run"
      /\ stat["task"] \in Stat /\ stat["run"] \in Stat /\ stat["payload"] \in Stat
      /\ elapsed["task"] \in Nat /\ elapsed["run"] \in Nat
  BY DEF Stats, ThreadTypes
<1>2. UNCHANGED <<task_count, frames, empty, outside>> /\ at \notin {"working", "drawn"}
      /\ at' \in {"left", "resting"}
  BY DEF LeaveTask, LeaveRun, From, counts
<1>3. OtherSteps' = OtherSteps
  BY <1>2 DEF OtherSteps
<1>4. CountsInv'
  BY <1>2, <1>3 DEF CountsInv
<1>5. CASE LeaveTask
  <2>1. at = "leaving" /\ at' = "left" /\ Stop("task", 0)
    BY <1>5 DEF LeaveTask, From
  <2>2. /\ stat' \in [Stats -> Stat] /\ elapsed' \in [Stats -> Nat]
        /\ stat'["task"].total = stat["task"].total + elapsed["task"] + 0
        /\ stat'["task"].max >= stat["task"].max /\ stat'["task"].max >= elapsed["task"] + 0
        /\ stat'["payload"] = stat["payload"] /\ stat'["run"] = stat["run"]
        /\ elapsed'["run"] = elapsed["run"] + 0
    <3> HIDE DEF TimerInv
    <3>1. ThreadTypes
      BY DEF TimerInv
    <3> QED
      BY <1>1, <2>1, <3>1, StopFolds
  <2>3. stat'["task"] \in Stat
    BY <1>1, <2>2
  <2>4. ThreadTypes'
    BY <1>2, <2>1, <2>2 DEF ThreadTypes
  <2>5. TotalsInv'
    BY <1>1, <1>2, <2>1, <2>2, <2>3 DEF TotalsInv, ThreadTypes, Stat, RunTotal, TaskTotal, PayloadTotal
  <2>6. MaximaInv' /\ MeanInv'
    BY <1>1, <1>2, <2>1, <2>2, <2>3 DEF MaximaInv, MeanInv, PayloadTotal, Stat
  <2> QED
    BY <1>4, <2>4, <2>5, <2>6
<1>6. CASE LeaveRun
  <2>1. at = "left" /\ at' = "resting" /\ Stop("run", 0)
    BY <1>6 DEF LeaveRun, From
  <2>2. /\ stat' \in [Stats -> Stat] /\ elapsed' \in [Stats -> Nat]
        /\ stat'["run"].total = stat["run"].total + elapsed["run"] + 0
        /\ stat'["payload"] = stat["payload"] /\ stat'["task"] = stat["task"]
    <3> HIDE DEF TimerInv
    <3>1. ThreadTypes
      BY DEF TimerInv
    <3> QED
      BY <1>1, <2>1, <3>1, StopFolds
  <2>3. stat'["run"] \in Stat
    BY <1>1, <2>2
  <2>4. ThreadTypes'
    BY <1>2, <2>1, <2>2 DEF ThreadTypes
  <2>5. TotalsInv'
    BY <1>1, <1>2, <2>1, <2>2, <2>3 DEF TotalsInv, ThreadTypes, Stat, RunTotal, TaskTotal, PayloadTotal
  <2>6. MaximaInv' /\ MeanInv'
    BY <1>1, <1>2, <2>1, <2>2, <2>3 DEF MaximaInv, MeanInv, PayloadTotal, Stat
  <2> QED
    BY <1>4, <2>4, <2>5, <2>6
<1> QED
  BY <1>5, <1>6

(* Every step of the thread or of the search keeps the timers' invariant.  *)
LEMMA TimerStep ==
  ASSUME TimerInv, [Next]_vars
  PROVE  TimerInv'
<1>1. CASE HistStep \/ Done \/ UNCHANGED vars
  <2>1. UNCHANGED <<at, stat, elapsed, task_count, frames, empty, outside>>
    BY <1>1 DEF HistStep, Done, vars, counts
  <2> QED
    BY <2>1 DEF TimerInv, ThreadTypes, TotalsInv, MaximaInv, MeanInv, CountsInv, OtherSteps, Timed,
       RunTotal, TaskTotal, PayloadTotal
<1> QED
  BY <1>1, StartSteps, PopSteps, DrawStep, TaskEndStep, LeaveSteps DEF Next

(* A mean lies between the extremes of what it is the mean of.             *)
LEMMA MeanBetween ==
  ASSUME NEW n \in Nat \ {0}, NEW t \in Nat, NEW lo \in Nat, NEW hi \in Nat,
         n * lo <= t, t <= n * hi
  PROVE  t \div n \in lo .. hi
<1>1. PICK q \in Nat, u \in 0 .. n - 1 : q = t \div n /\ u = t % n
  BY SMT
<1>2. t = n * q + u /\ n * q \in Nat /\ n * lo \in Nat /\ n * hi \in Nat
  BY <1>1, SMT
<1>3. q <= hi
  <2> SUFFICES ASSUME hi + 1 <= q PROVE FALSE
    OBVIOUS
  <2>1. n * (hi + 1) <= n * q /\ n * (hi + 1) = n * hi + n
    BY Multiples
  <2> QED
    BY <1>1, <1>2, <2>1
<1>4. lo <= q
  <2> SUFFICES ASSUME q + 1 <= lo PROVE FALSE
    OBVIOUS
  <2>1. n * (q + 1) <= n * lo /\ n * (q + 1) = n * q + n
    BY Multiples
  <2> QED
    BY <1>1, <1>2, <2>1
<1> QED
  BY <1>1, <1>3, <1>4

LEMMA QuotientsKeepOrder ==
  ASSUME NEW n \in Nat \ {0}, NEW a \in Nat, NEW b \in Nat, a <= b
  PROVE  b \div n - a \div n >= 0
<1>1. PICK p \in Nat, s \in 0 .. n - 1 : p = a \div n /\ s = a % n
  BY SMT
<1>2. PICK q \in Nat, u \in 0 .. n - 1 : q = b \div n /\ u = b % n
  BY SMT
<1>3. a = n * p + s /\ b = n * q + u /\ n * p \in Nat /\ n * q \in Nat
  BY <1>1, <1>2, SMT
<1>4. p <= q
  <2> SUFFICES ASSUME q + 1 <= p PROVE FALSE
    OBVIOUS
  <2>1. n * (q + 1) <= n * p /\ n * (q + 1) = n * q + n
    BY Multiples
  <2> QED
    BY <1>1, <1>2, <1>3, <2>1
<1> QED
  BY <1>1, <1>2, <1>4

(* The invariant behind the printed figures.                               *)
THEOREM TimersKeepTrack == Spec => []TimerInv
<1>1. Init => TimerInv
  <2> SUFFICES ASSUME Init PROVE TimerInv
    OBVIOUS
  <2>1. /\ at = "resting" /\ task_count = 0 /\ frames = 0 /\ empty = 0 /\ outside = 0
        /\ stat = [s \in Stats |-> [total |-> 0, max |-> 0, min |-> UINT64_MAX]]
        /\ elapsed = [s \in Stats |-> 0] /\ UINT64_MAX \in Nat
    BY HistAssumption DEF HistAssumption, Init, UINT64_MAX
  <2>2. \A s \in Stats : stat[s].total = 0 /\ stat[s].max = 0 /\ stat[s].min \in Nat /\ elapsed[s] = 0
    BY <2>1
  <2>3. ThreadTypes
    BY <2>1 DEF ThreadTypes, Stat
  <2>4. "run" \in Stats /\ "task" \in Stats /\ "payload" \in Stats
    BY DEF Stats
  <2>5. TotalsInv /\ MaximaInv
    BY <2>1, <2>2, <2>4 DEF TotalsInv, MaximaInv, Timed, RunTotal, TaskTotal, PayloadTotal
  <2>6. MeanInv
    BY <2>1, <2>2, <2>4 DEF MeanInv, PayloadTotal
  <2>7. OtherSteps = 0
    BY <2>1 DEF OtherSteps
  <2>8. CountsInv
    BY <2>1, <2>7, ProfileAssumption DEF CountsInv, ProfileAssumption
  <2> QED
    BY <2>3, <2>5, <2>6, <2>8 DEF TimerInv
<1>2. TimerInv /\ [Next]_vars => TimerInv'
  BY TimerStep
<1> QED
  BY <1>1, <1>2, PTL DEF Spec

(* What rsched_print_stats prints as overhead is the time outside the      *)
(* payload, for any times, as long as it is less than 2^64.                *)
THEOREM OverheadIsExact == Spec => []OverheadExact
<1>1. TimerInv => OverheadExact
  <2> SUFFICES ASSUME TimerInv, at = "resting"
               PROVE  /\ OverheadTotal = outside
                      /\ OverheadAvg >= 0 /\ OverheadMax >= 0
                      /\ stat["task"].total <= stat["run"].total
                      /\ task_count > 0 =>
                           Average("payload") \in stat["payload"].min .. stat["payload"].max
    BY DEF OverheadExact, AtRest
  <2> DEFINE n == Max({task_count, 1})
  <2>1. /\ stat["task"].total \in Nat /\ stat["payload"].total \in Nat /\ stat["run"].total \in Nat
        /\ stat["payload"].max \in Nat /\ stat["payload"].min \in Nat /\ stat["task"].max \in Nat
        /\ task_count \in Nat /\ empty \in Nat /\ outside \in Nat /\ Word \in Nat \ {0}
    BY HistAssumption DEF HistAssumption, TimerInv, ThreadTypes, Stats, Stat
  <2>2. /\ stat["task"].total = stat["payload"].total + outside
        /\ stat["task"].total <= stat["run"].total
        /\ stat["payload"].max <= stat["task"].max
    BY <2>1 DEF TimerInv, TotalsInv, MaximaInv, Timed, RunTotal, TaskTotal, PayloadTotal
  <2>3. outside < Word
    <3>1. PICK b \in Nat : (\A o \in OtherTimes : o <= b) /\ b * (2 * MaxTasks + MaxFrames) < Word
      BY ProfileAssumption DEF ProfileAssumption
    <3>2. outside <= b * (2 * task_count + empty)
      BY <2>1, <3>1 DEF TimerInv, CountsInv, OtherSteps
    <3>3. 2 * task_count + empty <= 2 * MaxTasks + MaxFrames /\ 2 * task_count + empty \in Nat
          /\ 2 * MaxTasks + MaxFrames \in Nat
      BY <2>1, ProfileAssumption DEF TimerInv, CountsInv, ThreadTypes, ProfileAssumption
    <3>4. b * (2 * task_count + empty) <= b * (2 * MaxTasks + MaxFrames)
          /\ b * (2 * task_count + empty) \in Nat /\ b * (2 * MaxTasks + MaxFrames) \in Nat
      BY <3>3, Multiples
    <3> QED
      BY <2>1, <3>1, <3>2, <3>4
  <2>4. OverheadTotal = outside
    <3>1. stat["task"].total - stat["payload"].total = outside
      BY <2>1, <2>2
    <3> QED
      BY <2>1, <2>3, <3>1, NoWrap DEF OverheadTotal
  <2>5. n \in Nat \ {0} /\ (task_count > 0 => n = task_count)
    <3>1. n \in {task_count, 1} /\ n >= task_count /\ n >= 1
      <4>1. task_count \in Int /\ 1 \in Int
        BY <2>1
      <4> QED
        BY <4>1, Greater, Zenon
    <3> HIDE DEF n
    <3> QED
      BY <2>1, <3>1
  <2>6. \A s \in Stats : Average(s) = stat[s].total \div n
    BY DEF Average
  <2> HIDE DEF n
  <2>7. OverheadAvg >= 0
    <3>1. stat["task"].total \div n - stat["payload"].total \div n >= 0
      BY <2>1, <2>2, <2>5, QuotientsKeepOrder
    <3> QED
      BY <2>6, <3>1 DEF OverheadAvg, Stats
  <2>8. OverheadMax >= 0
    BY <2>1, <2>2 DEF OverheadMax
  <2>9. ASSUME task_count > 0
        PROVE  Average("payload") \in stat["payload"].min .. stat["payload"].max
    <3>1. n * stat["payload"].min <= stat["payload"].total
          /\ stat["payload"].total <= n * stat["payload"].max
      BY <2>5, <2>9 DEF TimerInv, MeanInv, PayloadTotal
    <3>2. stat["payload"].total \div n \in stat["payload"].min .. stat["payload"].max
      BY <2>1, <2>5, <3>1, MeanBetween
    <3> QED
      BY <2>6, <3>2 DEF Stats
  <2> QED
    BY <2>2, <2>4, <2>7, <2>8, <2>9
<1> QED
  BY <1>1, TimersKeepTrack, PTL

-----------------------------------------------------------------------------
(* The entries.  OneOf is the order in which MapThenSumSet adds, and g is  *)
(* the sum of f over each subset of S in this order.                       *)
OneOf(s) == CHOOSE k \in s : TRUE

AddsUp(g, f, S) ==
  g = [s \in SUBSET S |-> IF s = {} THEN 0 ELSE f[OneOf(s)] + g[s \ {OneOf(s)}]]

(* A set of finite sets that is not empty has a member that contains no    *)
(* other.                                                                  *)
LEMMA SmallestSet ==
  ASSUME NEW S, IsFiniteSet(S), NEW B, B \subseteq SUBSET S, B # {}
  PROVE  \E u \in B : \A s \in B : s \subseteq u => s = u
<1> DEFINE R == StrictSubsetOrdering(S)
<1>1. IsWellFoundedOn(R, SUBSET S)
  BY FS_StrictSubsetOrderingWellFounded, FS_FiniteSubsetsOfFinite
<1>2. \A s, u \in SUBSET S : s \subseteq u /\ s # u => <<s, u>> \in R
  BY DEF StrictSubsetOrdering
<1> HIDE DEF R
<1>3. PICK u \in B : \A s \in B : ~ (<<s, u>> \in R)
  <2>1. \E k \in B : \A s \in B : ~ (<<s, k>> \in R)
    BY <1>1, WFMin
  <2> QED
    BY <2>1, Zenon
<1> QED
  BY <1>2, <1>3

(* The element that the fold takes first.                                  *)
LEMMA Chosen ==
  ASSUME NEW s, s # {}
  PROVE  OneOf(s) \in s /\ s \ {OneOf(s)} \subseteq s /\ s \ {OneOf(s)} # s
  BY DEF OneOf

(* A function on the parts of S that adds up the values of f.              *)
LEMMA AddsUpDef ==
  ASSUME NEW S, NEW f, NEW g, AddsUp(g, f, S), NEW s, s \subseteq S
  PROVE  /\ s = {} => g[s] = 0
         /\ s # {} => g[s] = f[OneOf(s)] + g[s \ {OneOf(s)}]
<1> DEFINE F == [u \in SUBSET S |-> IF u = {} THEN 0 ELSE f[OneOf(u)] + g[u \ {OneOf(u)}]]
<1>1. g = F
  BY DEF AddsUp
<1>2. (s = {} => F[s] = 0) /\ (s # {} => F[s] = f[OneOf(s)] + g[s \ {OneOf(s)}])
  OBVIOUS
<1> QED
  BY <1>1, <1>2, Zenon

(* Two such functions agree where both are defined: there is no smallest   *)
(* set at which they differ.                                               *)
LEMMA SumsAgree ==
  ASSUME NEW S, IsFiniteSet(S), NEW T, T \subseteq S, NEW f, NEW g, NEW h,
         AddsUp(g, f, S), AddsUp(h, f, T), NEW u, u \subseteq T
  PROVE  g[u] = h[u]
<1> DEFINE Bad == {s \in SUBSET T : g[s] # h[s]}
<1> SUFFICES ASSUME Bad # {} PROVE FALSE
  OBVIOUS
<1>1. PICK s \in Bad : \A w \in Bad : w \subseteq s => w = s
  <2>1. IsFiniteSet(T) /\ Bad \subseteq SUBSET T
    BY FS_Subset
  <2> HIDE DEF Bad
  <2> QED
    BY <2>1, SmallestSet
<1>2. s \subseteq S /\ s \subseteq T /\ g[s] # h[s]
  OBVIOUS
<1>3. \A w : w \subseteq T /\ w \subseteq s /\ w # s => g[w] = h[w]
  BY <1>1
<1> HIDE DEF Bad
<1>4. s # {}
  <2>1. s = {} => g[s] = 0
    BY <1>2, AddsUpDef
  <2>2. s = {} => h[s] = 0
    BY <1>2, AddsUpDef
  <2> QED
    BY <1>2, <2>1, <2>2
<1>5. g[s \ {OneOf(s)}] = h[s \ {OneOf(s)}]
  BY <1>2, <1>3, <1>4, Chosen
<1>6. g[s] = f[OneOf(s)] + g[s \ {OneOf(s)}]
  BY <1>2, <1>4, AddsUpDef
<1>7. h[s] = f[OneOf(s)] + h[s \ {OneOf(s)}]
  BY <1>2, <1>4, AddsUpDef
<1> QED
  BY <1>2, <1>5, <1>6, <1>7

(* If there is such a g, it is the sum.                                    *)
LEMMA SumIsTally ==
  ASSUME NEW S, IsFiniteSet(S), NEW f, NEW g, AddsUp(g, f, S)
  PROVE  MapThenSumSet(LAMBDA k : f[k], S) = g[S]
<1> DEFINE h == CHOOSE h : AddsUp(h, f, S)
<1>1. AddsUp(h, f, S)
  OBVIOUS
<1>2. MapThenSumSet(LAMBDA k : f[k], S) = h[S]
  BY DEF MapThenSumSet, MapThenFoldSet, AddsUp, OneOf
<1> HIDE DEF h
<1>3. h[S] = g[S]
  BY <1>1, SumsAgree
<1> QED
  BY <1>2, <1>3

(* The sum of f over S is n.                                               *)
Tallied(f, S, n) == \E g \in [SUBSET S -> Nat] : AddsUp(g, f, S) /\ g[S] = n

(* One more in one of the bins is one more in the sum.                     *)
LEMMA OneMoreEntry ==
  ASSUME NEW S, NEW f, f \in [S -> Nat], NEW n, Tallied(f, S, n), NEW x \in S
  PROVE  Tallied([f EXCEPT ![x] = f[x] + 1], S, n + 1)
<1> PICK g \in [SUBSET S -> Nat] : AddsUp(g, f, S) /\ g[S] = n
  BY DEF Tallied
<1> DEFINE e == [f EXCEPT ![x] = f[x] + 1]
           h == [s \in SUBSET S |-> IF x \in s THEN g[s] + 1 ELSE g[s]]
           H == [s \in SUBSET S |-> IF s = {} THEN 0 ELSE e[OneOf(s)] + h[s \ {OneOf(s)}]]
<1>1. h \in [SUBSET S -> Nat] /\ h[S] = n + 1
  OBVIOUS
<1>2. ASSUME NEW s \in SUBSET S PROVE h[s] = H[s]
  <2>1. CASE s = {}
    <3>1. s \subseteq S
      OBVIOUS
    <3>2. g[s] = 0
      BY <2>1, <3>1, AddsUpDef
    <3> QED
      BY <2>1, <3>2
  <2>2. CASE s # {}
    <3> DEFINE y == OneOf(s)
               w == s \ {y}
    <3>1. y \in s /\ y \in S /\ w \in SUBSET S
      BY <2>2, Chosen
    <3>2. g[s] = f[y] + g[w]
      BY <2>2, AddsUpDef
    <3>3. H[s] = e[y] + h[w] /\ f[y] \in Nat /\ g[w] \in Nat /\ g[s] \in Nat
      BY <2>2, <3>1
    <3>4. e[y] = (IF y = x THEN f[y] + 1 ELSE f[y])
      BY <3>1
    <3>5. h[w] = (IF x \in w THEN g[w] + 1 ELSE g[w]) /\ h[s] = IF x \in s THEN g[s] + 1 ELSE g[s]
      BY <3>1
    <3>6. x \in w <=> x \in s /\ x # y
      OBVIOUS
    <3> HIDE DEF h, H, y, w
    <3> QED
      BY <3>1, <3>2, <3>3, <3>4, <3>5, <3>6
  <2> QED
    BY <2>1, <2>2
<1>3. h = H
  BY <1>2
<1>4. AddsUp(h, e, S)
  BY <1>3 DEF AddsUp
<1> HIDE DEF h
<1> QED
  BY <1>1, <1>4 DEF Tallied

(* How often the timer of the watched statistic has been stopped.          *)
Stops ==
  CASE watched = "run" -> frames - (IF at = "resting" THEN 0 ELSE 1)
    [] watched = "payload" -> task_count
    [] watched = "task" -> task_count + empty - (IF at \in {"drawn", "leaving"} THEN 1 ELSE 0)

Pending == IF pc = "idle" THEN 0 ELSE 1

TallyInv ==
  /\ watched \in Stats /\ pc \in {"idle", "search", "found"}
  /\ data \in [Bins -> Nat]
  /\ pc = "found" => idx \in Bins
  /\ Stops \in Int /\ Tallied(data, Bins, Stops - Pending)

(* The stops of each timer, case by case.                                  *)
LEMMA StopsAre ==
  /\ watched = "run" => Stops = frames - (IF at = "resting" THEN 0 ELSE 1)
  /\ watched = "task" => Stops = task_count + empty - (IF at \in {"drawn", "leaving"} THEN 1 ELSE 0)
  /\ watched = "payload" => Stops = task_count
  BY DEF Stops

(* The entries that AllCounted asks for, case by case.                     *)
LEMMA EntriesAre ==
  /\ watched = "run" => Entries = frames
  /\ watched = "task" => Entries = task_count + empty
  /\ watched = "payload" => Entries = task_count
  BY DEF Entries

(* The bins and the two counters of a histogram are finitely many.         *)
LEMMA BinsFinite ==
  ASSUME HistTypes
  PROVE  IsFiniteSet(Bins) /\ size \in Nat \ {0}
<1>1. size \in Nat \ {0}
  BY DEF HistTypes
<1> QED
  BY <1>1, FS_Interval DEF Bins

(* A step that leaves the histogram alone and stops no watched timer.      *)
LEMMA QuietTallied ==
  ASSUME TallyInv, UNCHANGED <<histVars, watched>>, Stops' = Stops
  PROVE  TallyInv'
<1>1. UNCHANGED <<pc, idx, data, size>>
  BY DEF histVars, hist, search
<1> QED
  BY <1>1 DEF TallyInv, Tallied, Pending, Bins

(* A timer is stopped: the entry is pending if it is the watched one's.    *)
LEMMA StopTallied ==
  ASSUME TallyInv, NEW s \in Stats, NEW d \in Nat, Stop(s, d), pc = "idle", UNCHANGED watched,
         Stops' = Stops + (IF s = watched THEN 1 ELSE 0)
  PROVE  TallyInv'
<1>1. CASE s = watched
  <2>1. pc' = "search" /\ UNCHANGED <<idx, data, size>>
    BY <1>1 DEF Stop, AddBegin, hist
  <2>2. Stops' \in Int /\ Stops' - Pending' = Stops - Pending
    BY <1>1, <2>1 DEF TallyInv, Pending
  <2> QED
    BY <2>1, <2>2 DEF TallyInv, Tallied, Bins
<1>2. CASE s # watched
  <2>1. UNCHANGED histVars /\ Stops' = Stops
    BY <1>2 DEF Stop, TallyInv
  <2> QED
    BY <2>1, QuietTallied
<1> QED
  BY <1>1, <1>2

(* A search ends with one more in one bin or in one of the counters.       *)
LEMMA SearchTallied ==
  ASSUME ProfileInv, TallyInv, HistStep
  PROVE  TallyInv'
<1>1. /\ UNCHANGED <<size, watched, at, task_count, frames, empty>>
      /\ Stops' = Stops /\ Bins' = Bins
  BY DEF HistStep, Search, ProbeLeft, ProbeRight, ProbeHit, NotFound, AddEnd, hist, counts, Stops, Bins
<1>2. CASE ProbeLeft \/ ProbeRight
  BY <1>1, <1>2 DEF ProbeLeft, ProbeRight, hist, TallyInv, Tallied, Pending
<1>3. CASE ProbeHit \/ NotFound
  <2>1. pc = "search" /\ pc' = "found" /\ data' = data
    BY <1>3 DEF ProbeHit, NotFound
  <2>2. idx' \in Bins
    <3>1. CASE ProbeHit
      <4>1. Middle \in Indices
        <5>1. l \in Int /\ r \in Int /\ l <= r /\ 0 <= l /\ r <= size - 1
          BY <2>1, <3>1 DEF ProbeHit, ProfileInv, SearchInv, HistTypes
        <5> QED
          BY <5>1, MiddleBetween DEF Indices, ProfileInv, HistTypes
      <4> QED
        BY <3>1, <4>1 DEF ProbeHit, Indices, Bins, ProfileInv, HistTypes
    <3>2. CASE NotFound
      BY <3>2 DEF NotFound, Outside, HIST_BOUNDL, HIST_BOUNDR, Bins, ProfileInv, HistTypes
    <3> QED
      BY <1>3, <3>1, <3>2
  <2> QED
    BY <1>1, <2>1, <2>2 DEF TallyInv, Tallied, Pending
<1>4. CASE AddEnd
  <2>1. pc = "found" /\ pc' = "idle" /\ data' = [data EXCEPT ![idx] = @ + 1] /\ idx \in Bins
        /\ data \in [Bins -> Nat]
    BY <1>4 DEF AddEnd, TallyInv
  <2>2. Tallied(data, Bins, Stops - 1) /\ Stops - 1 + 1 = Stops
    BY <2>1 DEF TallyInv, Pending
  <2>3. data' = [data EXCEPT ![idx] = data[idx] + 1] /\ data' \in [Bins -> Nat]
    BY <2>1
  <2>4. Tallied(data', Bins, Stops)
    <3>1. data \in [Bins -> Nat] /\ idx \in Bins /\ Tallied(data, Bins, Stops - 1)
      BY <2>1, <2>2
    <3>2. Tallied([data EXCEPT ![idx] = data[idx] + 1], Bins, (Stops - 1) + 1)
      BY <3>1, OneMoreEntry, Zenon
    <3> QED
      BY <2>2, <2>3, <3>2, Zenon
  <2>5. Stops' - Pending' = Stops
    BY <1>1, <2>1 DEF TallyInv, Pending
  <2> QED
    BY <1>1, <2>1, <2>2, <2>3, <2>4, <2>5 DEF TallyInv
<1> QED
  BY <1>2, <1>3, <1>4 DEF HistStep, Search

(* Every step of the thread or of the search keeps the tally.              *)
LEMMA TallyStep ==
  ASSUME ProfileInv, TimerInv, TallyInv, [Next]_vars
  PROVE  TallyInv'
<1>1. /\ task_count \in Nat /\ frames \in Nat /\ empty \in Nat /\ watched \in Stats
      /\ "run" \in Stats /\ "task" \in Stats /\ "payload" \in Stats
      /\ "run" # "task" /\ "task" # "payload" /\ "run" # "payload"
  BY DEF TimerInv, ThreadTypes, TallyInv, Stats
<1>2. watched = "run" \/ watched = "task" \/ watched = "payload"
  BY <1>1 DEF Stats
<1> DEFINE RunStops == frames - (IF at = "resting" THEN 0 ELSE 1)
           TaskStops == task_count + empty - (IF at \in {"drawn", "leaving"} THEN 1 ELSE 0)
<1>3. /\ watched = "run" => Stops = RunStops
      /\ watched = "task" => Stops = TaskStops
      /\ watched = "payload" => Stops = task_count
  BY StopsAre
<1>4. /\ watched' = "run" => Stops' = RunStops'
      /\ watched' = "task" => Stops' = TaskStops'
      /\ watched' = "payload" => Stops' = task_count'
  BY DEF Stops
<1>5. CASE Begin
  <2>1. UNCHANGED <<histVars, watched, task_count, empty>> /\ at = "resting" /\ at' = "looping"
        /\ frames' = frames + 1
    BY <1>5 DEF Begin, From
  <2>2. Stops' = Stops
    BY <1>1, <1>2, <1>3, <1>4, <2>1
  <2> QED
    BY <2>1, <2>2, QuietTallied
<1>6. CASE TaskBegin
  <2>1. UNCHANGED <<histVars, watched, counts>> /\ at = "looping" /\ at' = "popping"
    BY <1>6 DEF TaskBegin, From
  <2>2. Stops' = Stops
    BY <1>1, <1>2, <1>3, <1>4, <2>1 DEF counts
  <2> QED
    BY <2>1, <2>2, QuietTallied
<1>7. CASE \E d \in OtherTimes : PopTask(d)
  <2>1. UNCHANGED <<histVars, watched, counts>> /\ at = "popping" /\ at' = "working"
    BY <1>7 DEF PopTask, From
  <2>2. Stops' = Stops
    BY <1>1, <1>2, <1>3, <1>4, <2>1 DEF counts
  <2> QED
    BY <2>1, <2>2, QuietTallied
<1>8. CASE \E d \in OtherTimes : PopNone(d)
  <2>1. UNCHANGED <<histVars, watched, task_count, frames>> /\ at = "popping" /\ at' = "leaving"
        /\ empty' = empty + 1
    BY <1>8 DEF PopNone, From
  <2>2. Stops' = Stops
    BY <1>1, <1>2, <1>3, <1>4, <2>1
  <2> QED
    BY <2>1, <2>2, QuietTallied
<1>9. CASE Quit
  <2>1. UNCHANGED <<histVars, watched, counts>> /\ at = "drawn" /\ at' = "leaving"
    BY <1>9 DEF Quit, From
  <2>2. Stops' = Stops
    BY <1>1, <1>2, <1>3, <1>4, <2>1 DEF counts
  <2> QED
    BY <2>1, <2>2, QuietTallied
<1>10. ASSUME NEW d \in PayloadTimes, Draw(d) PROVE TallyInv'
  <2>1. /\ UNCHANGED <<watched, frames, empty>> /\ at = "working" /\ at' = "drawn" /\ pc = "idle"
        /\ task_count' = task_count + 1 /\ Stop("payload", d) /\ d \in Nat
    BY <1>10, ProfileAssumption DEF Draw, From, ProfileAssumption
  <2>2. Stops' = Stops + (IF "payload" = watched THEN 1 ELSE 0)
    BY <1>1, <1>2, <1>3, <1>4, <2>1
  <2> QED
    BY <1>1, <2>1, <2>2, StopTallied
<1>11. ASSUME NEW d \in OtherTimes, TaskEnd(d) PROVE TallyInv'
  <2>1. /\ UNCHANGED <<watched, counts>> /\ at = "drawn" /\ at' = "looping" /\ pc = "idle"
        /\ Stop("task", d) /\ d \in Nat
    BY <1>11, ProfileAssumption DEF TaskEnd, From, ProfileAssumption
  <2>2. Stops' = Stops + (IF "task" = watched THEN 1 ELSE 0)
    BY <1>1, <1>2, <1>3, <1>4, <2>1 DEF counts
  <2> QED
    BY <1>1, <2>1, <2>2, StopTallied
<1>12. CASE LeaveTask
  <2>1. /\ UNCHANGED <<watched, counts>> /\ at = "leaving" /\ at' = "left" /\ pc = "idle"
        /\ Stop("task", 0)
    BY <1>12 DEF LeaveTask, From
  <2>2. Stops' = Stops + (IF "task" = watched THEN 1 ELSE 0)
    BY <1>1, <1>2, <1>3, <1>4, <2>1 DEF counts
  <2> QED
    BY <1>1, <2>1, <2>2, StopTallied
<1>13. CASE LeaveRun
  <2>1. /\ UNCHANGED <<watched, counts>> /\ at = "left" /\ at' = "resting" /\ pc = "idle"
        /\ Stop("run", 0)
    BY <1>13 DEF LeaveRun, From
  <2>2. Stops' = Stops + (IF "run" = watched THEN 1 ELSE 0)
    BY <1>1, <1>2, <1>3, <1>4, <2>1 DEF counts
  <2> QED
    BY <1>1, <2>1, <2>2, StopTallied
<1>14. CASE HistStep
  BY <1>14, SearchTallied
<1>15. CASE Done \/ UNCHANGED vars
  <2>1. UNCHANGED <<histVars, watched, counts, at>>
    BY <1>15 DEF Done, vars
  <2>2. Stops' = Stops
    BY <2>1 DEF Stops, counts
  <2> QED
    BY <2>1, <2>2, QuietTallied
<1> QED
  BY <1>5, <1>6, <1>7, <1>8, <1>9, <1>10, <1>11, <1>12, <1>13, <1>14, <1>15 DEF Next

(* Every timer that is stopped has its entry in the histogram, and only    *)
(* one, whatever its bins are and however the thread leaves its loop.      *)
THEOREM NoEntryLost == Spec => []AllCounted
<1>1. Init => TallyInv
  <2> SUFFICES ASSUME Init PROVE TallyInv
    OBVIOUS
  <2>1. /\ data = [k \in Bins |-> 0] /\ pc = "idle" /\ watched \in Stats
        /\ at = "resting" /\ task_count = 0 /\ frames = 0 /\ empty = 0
    BY DEF Init, HistInit
  <2>2. Stops = 0 /\ Pending = 0
    BY <2>1, StopsAre DEF Stats, Pending
  <2> DEFINE g == [s \in SUBSET Bins |-> 0]
  <2>3. g \in [SUBSET Bins -> Nat] /\ g[Bins] = 0
    OBVIOUS
  <2>4. AddsUp(g, data, Bins)
    <3>1. \A s \in SUBSET Bins : s # {} => data[OneOf(s)] = 0 /\ g[s \ {OneOf(s)}] = 0
      BY <2>1, Chosen
    <3>2. g = [s \in SUBSET Bins |-> IF s = {} THEN 0 ELSE data[OneOf(s)] + g[s \ {OneOf(s)}]]
      BY <3>1
    <3> QED
      BY <3>2 DEF AddsUp
  <2> HIDE DEF g
  <2>5. Tallied(data, Bins, 0)
    BY <2>3, <2>4 DEF Tallied
  <2> QED
    BY <2>1, <2>2, <2>5 DEF TallyInv
<1>2. ProfileInv /\ TimerInv /\ TallyInv /\ [Next]_vars => TallyInv'
  BY TallyStep
<1>3. ProfileInv /\ TimerInv /\ TallyInv => AllCounted
  <2> SUFFICES ASSUME ProfileInv, TimerInv, TallyInv, AtRest
               PROVE  MapThenSumSet(LAMBDA i : data[i], Bins) = Entries
    BY DEF AllCounted
  <2>1. PICK g \in [SUBSET Bins -> Nat] : AddsUp(g, data, Bins) /\ g[Bins] = Stops - Pending
    BY DEF TallyInv, Tallied
  <2>2. MapThenSumSet(LAMBDA i : data[i], Bins) = g[Bins]
    BY <2>1, BinsFinite, SumIsTally DEF ProfileInv
  <2>3. Stops - Pending = Entries
    <3>1. watched = "run" \/ watched = "task" \/ watched = "payload"
      BY DEF TallyInv, Stats
    <3>2. at = "resting" /\ pc = "idle" /\ task_count \in Nat /\ frames \in Nat /\ empty \in Nat
      BY DEF AtRest, TimerInv, ThreadTypes
    <3> QED
      BY <3>1, <3>2, StopsAre, EntriesAre DEF Pending
  <2> QED
    BY <2>1, <2>2, <2>3
<1> QED
  BY <1>1, <1>2, <1>3, SearchKeepsTrack, TimersKeepTrack, PTL DEF Spec
=============================================================================
