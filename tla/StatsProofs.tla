---------------------------- MODULE StatsProofs -----------------------------
(***************************************************************************)
(* The compare-and-swap loops of app/benchmark.c for every number of       *)
(* threads and blocks and for every block time: neither the minimum nor    *)
(* the maximum loses a block in a race.  And the two additions after them: *)
(* what is not in the total and the count yet is in the threads' hands.    *)
(***************************************************************************)
EXTENDS BlockStats, FiniteSetTheorems, TLAPS

Turns == 1 .. MaxBlocks

(* The i-th block of thread t has been measured, and none after it.        *)
Latest(t, i) == blocks[<<t, i>>] # 0 /\ \A j \in Turns : j > i => blocks[<<t, j>>] = 0

(* A thread in the loops works on its latest block, and has read something *)
(* worse than it when it is about to store.                                *)
WorkInv ==
  \A t \in Threads :
    /\ pc[t] # "idle" =>
         /\ elapsed[t] \in Times
         /\ \E i \in Turns : blocks[<<t, i>>] = elapsed[t]
         /\ \A i \in Turns : Latest(t, i) => blocks[<<t, i>>] = elapsed[t]
    /\ pc[t] = "mincas" => seen[t] > elapsed[t]
    /\ pc[t] = "maxcas" => seen[t] < elapsed[t]
    /\ \A i, j \in Turns : j < i /\ blocks[<<t, i>>] # 0 => blocks[<<t, j>>] # 0

LowInv ==
  /\ minTime # Never => \E t \in Threads, i \in Turns : blocks[<<t, i>>] = minTime
  /\ \A t \in Threads, i \in Turns :
       blocks[<<t, i>>] # 0 => minTime <= blocks[<<t, i>>] \/ (Latest(t, i) /\ ~PastMin(t))

HighInv ==
  /\ maxTime # 0 => \E t \in Threads, i \in Turns : blocks[<<t, i>>] = maxTime
  /\ \A t \in Threads, i \in Turns :
       blocks[<<t, i>>] # 0 => maxTime >= blocks[<<t, i>>] \/ (Latest(t, i) /\ ~PastMax(t))

StatsInv == TypeOK /\ WorkInv /\ LowInv /\ HighInv

-----------------------------------------------------------------------------
(* What the types say of one thread and one block, as numbers.             *)
LEMMA Numbers ==
  ASSUME TypeOK
  PROVE  /\ Never \in Nat /\ Times \subseteq Nat /\ \A e \in Times : 0 < e /\ e < Never
         /\ minTime \in Nat /\ minTime <= Never /\ maxTime \in Nat
         /\ minTime # Never => minTime # 0
         /\ \A t \in Threads : elapsed[t] \in Nat /\ seen[t] \in Nat /\ pc[t] \in PCs
         /\ \A t \in Threads, i \in Turns : blocks[<<t, i>>] \in Times \cup {0}
<1>1. Never \in Nat /\ Times \subseteq Nat /\ \A e \in Times : 0 < e /\ e < Never
  BY StatsAssumption DEF StatsAssumption
<1>2. minTime \in Nat /\ minTime <= Never /\ maxTime \in Nat /\ (minTime # Never => minTime # 0)
  <2>1. minTime \in Times \cup {Never} /\ maxTime \in Times \cup {0}
    BY DEF TypeOK
  <2> QED
    BY <1>1, <2>1
<1>3. \A t \in Threads : elapsed[t] \in Nat /\ seen[t] \in Nat /\ pc[t] \in PCs
  <2> TAKE t \in Threads
  <2>1. elapsed[t] \in Times \cup {0} /\ seen[t] \in 0 .. Never /\ pc[t] \in PCs
    BY DEF TypeOK
  <2>2. elapsed[t] \in Nat
    BY <1>1, <2>1
  <2>3. seen[t] \in Nat
    BY <1>1, <2>1
  <2> QED
    BY <2>1, <2>2, <2>3
<1>4. \A t \in Threads, i \in Turns : blocks[<<t, i>>] \in Times \cup {0}
  BY DEF TypeOK, Turns, Cells
<1> QED
  BY <1>1, <1>2, <1>3, <1>4

(* A block that is measured is the latest of its thread.                   *)
LEMMA MeasureStep ==
  ASSUME StatsInv, NEW t \in Threads, NEW e \in Times, Measure(t, e)
  PROVE  StatsInv'
<1> USE DEF StatsInv
<1>1. PICK n \in Turns :
        /\ blocks[<<t, n>>] = 0
        /\ \A j \in 1 .. n - 1 : blocks[<<t, j>>] # 0
        /\ blocks' = [blocks EXCEPT ![<<t, n>>] = e]
  BY DEF Measure, Turns
<1>2. /\ pc[t] = "idle" /\ pc' = [pc EXCEPT ![t] = "minload"]
      /\ elapsed' = [elapsed EXCEPT ![t] = e]
      /\ UNCHANGED <<seen, minTime, maxTime, total, count>>
  BY DEF Measure, Goto, atomics
<1>3. TypeOK'
  BY <1>1, <1>2 DEF TypeOK, PCs
<1>4. e \in Nat /\ e # 0 /\ \A u \in Threads, i \in Turns :
        blocks'[<<u, i>>] = IF u = t /\ i = n THEN e ELSE blocks[<<u, i>>]
  BY <1>1, Numbers DEF TypeOK, Cells, Turns
<1>5. \A u \in Threads : /\ pc'[u] = IF u = t THEN "minload" ELSE pc[u]
                         /\ elapsed'[u] = IF u = t THEN e ELSE elapsed[u]
  BY <1>2 DEF TypeOK
<1>6. \A j \in Turns : j > n => blocks[<<t, j>>] = 0
  BY <1>1 DEF WorkInv
<1>7. Latest(t, n)' /\ \A i \in Turns : Latest(t, i)' => i = n
  BY <1>1, <1>4, <1>6 DEF Latest, Turns
<1>8. \A u \in Threads, i \in Turns : u # t => (Latest(u, i)' <=> Latest(u, i))
  BY <1>4 DEF Latest
<1>9. WorkInv'
  BY <1>1, <1>2, <1>4, <1>5, <1>6, <1>7, <1>8 DEF WorkInv, Turns
<1>10. LowInv'
  BY <1>1, <1>2, <1>4, <1>5, <1>7, <1>8, Numbers DEF LowInv, PastMin
<1>11. HighInv'
  BY <1>1, <1>2, <1>4, <1>5, <1>7, <1>8 DEF HighInv, PastMin, PastMax
<1> QED
  BY <1>3, <1>9, <1>10, <1>11

(* What a step of thread t that measures nothing leaves as it is.          *)
Working(t) ==
  /\ pc[t] # "idle"
  /\ \E p \in PCs : Goto(t, p)
  /\ UNCHANGED <<elapsed, blocks>>

(* A step of a thread leaves the others' places alone.                     *)
LEMMA Others ==
  ASSUME TypeOK, NEW t \in Threads, Working(t)
  PROVE  /\ \A u \in Threads : u # t => pc'[u] = pc[u]
         /\ pc'[t] \in PCs
         /\ \A u \in Threads, i \in Turns : Latest(u, i)' <=> Latest(u, i)
         /\ pc' \in [Threads -> PCs]
  BY DEF TypeOK, Working, Goto, Latest

(* The thread's latest block is the time it works on, so that what holds   *)
(* of all its blocks but the latest, and of that time, holds of all.       *)
LEMMA LatestIsElapsed ==
  ASSUME TypeOK, WorkInv, NEW t \in Threads, pc[t] # "idle", NEW i \in Turns, Latest(t, i)
  PROVE  blocks[<<t, i>>] = elapsed[t]
  BY DEF WorkInv

(* Such a step keeps WorkInv if t reads something worse before it stores.  *)
LEMMA WorkKept ==
  ASSUME StatsInv, NEW t \in Threads, Working(t),
         pc'[t] = "mincas" => seen'[t] > elapsed[t],
         pc'[t] = "maxcas" => seen'[t] < elapsed[t],
         \A u \in Threads : u # t => seen'[u] = seen[u]
  PROVE  WorkInv'
<1> USE DEF StatsInv
<1>1. pc[t] # "idle" /\ UNCHANGED <<elapsed, blocks>>
  BY DEF Working
<1>2. /\ \A u \in Threads : u # t => pc'[u] = pc[u]
      /\ \A u \in Threads, i \in Turns : Latest(u, i)' <=> Latest(u, i)
  BY Others
<1>3. ASSUME NEW u \in Threads, u # t
      PROVE  /\ pc'[u] = "mincas" => seen'[u] > elapsed'[u]
             /\ pc'[u] = "maxcas" => seen'[u] < elapsed'[u]
  BY <1>1, <1>2, <1>3 DEF WorkInv
<1>4. ASSUME NEW u \in Threads, pc'[u] # "idle"
      PROVE  /\ elapsed'[u] \in Times
             /\ \E i \in Turns : blocks'[<<u, i>>] = elapsed'[u]
             /\ \A i \in Turns : Latest(u, i)' => blocks'[<<u, i>>] = elapsed'[u]
  <2>1. pc[u] # "idle"
    BY <1>1, <1>2, <1>4
  <2> QED
    BY <2>1, <1>1, <1>2 DEF WorkInv
<1>5. ASSUME NEW u \in Threads, NEW i \in Turns, NEW j \in Turns, j < i, blocks'[<<u, i>>] # 0
      PROVE  blocks'[<<u, j>>] # 0
  BY <1>1, <1>5 DEF WorkInv
<1> QED
  BY <1>1, <1>3, <1>4, <1>5 DEF WorkInv

(* The loop that keeps the minimum.                                        *)
LEMMA MinStep ==
  ASSUME StatsInv, NEW t \in Threads, MinLoad(t) \/ MinCas(t)
  PROVE  StatsInv'
<1> USE DEF StatsInv
<1>1. Working(t) /\ ~PastMin(t) /\ UNCHANGED <<maxTime, total, count>>
  BY DEF Working, MinLoad, MinCas, Goto, PCs, atomics, PastMin
<1>2. /\ pc'[t] \in {"mincas", "maxload"}
      /\ pc'[t] = "mincas" => minTime' = minTime /\ seen'[t] > elapsed[t]
      /\ pc'[t] = "maxload" => minTime' <= elapsed[t]
      /\ minTime' = minTime \/ (minTime' = elapsed[t] /\ minTime > elapsed[t])
      /\ seen' \in [Threads -> 0 .. Never]
      /\ \A u \in Threads : u # t => seen'[u] = seen[u]
  <2> USE DEF TypeOK, Goto
  <2>1. CASE MinLoad(t)
    BY <2>1, Numbers DEF MinLoad, atomics
  <2>2. CASE MinCas(t) /\ MinUnseen(t)
    BY <2>2, Numbers DEF MinCas, MinUnseen, Reread
  <2>3. CASE MinCas(t) /\ ~MinUnseen(t)
    BY <2>3, Numbers DEF MinCas, MinUnseen, WorkInv
  <2> QED
    BY <2>1, <2>2, <2>3
<1>3. pc[t] # "idle" /\ elapsed[t] \in Times /\ UNCHANGED <<elapsed, blocks>>
  BY <1>1 DEF Working, WorkInv
<1>4. TypeOK'
  BY <1>1, <1>2, <1>3, Others DEF TypeOK
<1>5. WorkInv'
  BY <1>1, <1>2, <1>3, WorkKept
<1>6. LowInv'
  <2>1. ASSUME minTime' # Never PROVE \E u \in Threads, i \in Turns : blocks'[<<u, i>>] = minTime'
    BY <2>1, <1>2, <1>3 DEF LowInv, WorkInv
  <2>2. ASSUME NEW u \in Threads, NEW i \in Turns, blocks'[<<u, i>>] # 0
        PROVE  minTime' <= blocks'[<<u, i>>] \/ (Latest(u, i)' /\ ~PastMin(u)')
    <3>1. minTime' <= minTime /\ minTime' \in Nat /\ minTime \in Nat /\ blocks[<<u, i>>] \in Nat
      BY <1>2, <1>3, Numbers
    <3>2. CASE u # t
      BY <2>2, <3>1, <3>2, <1>1, <1>3, Others DEF LowInv, PastMin
    <3>3. CASE u = t /\ ~Latest(t, i)
      BY <2>2, <3>1, <3>3, <1>3 DEF LowInv
    <3>4. CASE u = t /\ Latest(t, i)
      BY <3>1, <3>4, <1>1, <1>2, <1>3, Others, LatestIsElapsed DEF PastMin
    <3> QED
      BY <3>2, <3>3, <3>4
  <2> QED
    BY <2>1, <2>2 DEF LowInv
<1>7. HighInv'
  BY <1>1, <1>2, <1>3, Others DEF HighInv, PastMax, PastMin
<1> QED
  BY <1>4, <1>5, <1>6, <1>7

(* The loop that keeps the maximum.                                        *)
LEMMA MaxStep ==
  ASSUME StatsInv, NEW t \in Threads, MaxLoad(t) \/ MaxCas(t)
  PROVE  StatsInv'
<1> USE DEF StatsInv
<1>1. Working(t) /\ PastMin(t) /\ ~PastMax(t) /\ UNCHANGED <<minTime, total, count>>
  BY DEF Working, MaxLoad, MaxCas, Goto, PCs, atomics, PastMin, PastMax
<1>2. /\ pc'[t] \in {"maxcas", "total"}
      /\ pc'[t] = "maxcas" => maxTime' = maxTime /\ seen'[t] < elapsed[t]
      /\ pc'[t] = "total" => maxTime' >= elapsed[t]
      /\ maxTime' = maxTime \/ (maxTime' = elapsed[t] /\ maxTime < elapsed[t])
      /\ seen' \in [Threads -> 0 .. Never]
      /\ \A u \in Threads : u # t => seen'[u] = seen[u]
  <2> USE DEF TypeOK, Goto
  <2>1. CASE MaxLoad(t)
    BY <2>1, StatsAssumption, Numbers DEF MaxLoad, atomics, StatsAssumption
  <2>2. CASE MaxCas(t) /\ MaxUnseen(t)
    BY <2>2, StatsAssumption, Numbers DEF MaxCas, MaxUnseen, Reread, StatsAssumption
  <2>3. CASE MaxCas(t) /\ ~MaxUnseen(t)
    BY <2>3, Numbers DEF MaxCas, MaxUnseen, WorkInv
  <2> QED
    BY <2>1, <2>2, <2>3
<1>3. pc[t] # "idle" /\ elapsed[t] \in Times /\ UNCHANGED <<elapsed, blocks>>
  BY <1>1 DEF Working, WorkInv
<1>4. TypeOK'
  BY <1>1, <1>2, <1>3, Others DEF TypeOK
<1>5. WorkInv'
  BY <1>1, <1>2, <1>3, WorkKept
<1>6. HighInv'
  <2>1. ASSUME maxTime' # 0 PROVE \E u \in Threads, i \in Turns : blocks'[<<u, i>>] = maxTime'
    BY <2>1, <1>2, <1>3 DEF HighInv, WorkInv
  <2>2. ASSUME NEW u \in Threads, NEW i \in Turns, blocks'[<<u, i>>] # 0
        PROVE  maxTime' >= blocks'[<<u, i>>] \/ (Latest(u, i)' /\ ~PastMax(u)')
    <3>1. maxTime' >= maxTime /\ maxTime' \in Nat /\ maxTime \in Nat /\ blocks[<<u, i>>] \in Nat
      BY <1>2, <1>3, Numbers
    <3>2. CASE u # t
      BY <2>2, <3>1, <3>2, <1>1, <1>3, Others DEF HighInv, PastMin, PastMax
    <3>3. CASE u = t /\ ~Latest(t, i)
      BY <2>2, <3>1, <3>3, <1>3 DEF HighInv
    <3>4. CASE u = t /\ Latest(t, i)
      BY <3>1, <3>4, <1>1, <1>2, <1>3, Others, LatestIsElapsed DEF PastMin, PastMax
    <3> QED
      BY <3>2, <3>3, <3>4
  <2> QED
    BY <2>1, <2>2 DEF HighInv
<1>7. LowInv'
  BY <1>1, <1>2, <1>3, Others DEF LowInv, PastMin
<1> QED
  BY <1>4, <1>5, <1>6, <1>7

(* The two sums touch neither extreme.                                     *)
LEMMA AddStep ==
  ASSUME StatsInv, NEW t \in Threads, AddTotal(t) \/ AddCount(t)
  PROVE  StatsInv'
<1> USE DEF StatsInv
<1>1. /\ Working(t) /\ PastMax(t) /\ pc'[t] \in {"count", "idle"}
      /\ UNCHANGED <<seen, minTime, maxTime>>
      /\ total' \in Nat /\ count' \in Nat
  BY Numbers DEF Working, AddTotal, AddCount, Counted, Goto, PCs, PastMin, PastMax, TypeOK
<1>2. pc[t] # "idle" /\ UNCHANGED <<elapsed, blocks>>
  BY <1>1 DEF Working
<1>3. TypeOK'
  BY <1>1, <1>2, Others DEF TypeOK
<1>4. WorkInv'
  <2>1. pc'[t] # "mincas" /\ pc'[t] # "maxcas" /\ \A u \in Threads : u # t => seen'[u] = seen[u]
    BY <1>1
  <2> QED
    BY <1>1, <2>1, WorkKept
<1>5. LowInv'
  BY <1>1, <1>2, Others DEF LowInv, PastMin, PastMax
<1>6. HighInv'
  BY <1>1, <1>2, Others DEF HighInv, PastMin, PastMax
<1> QED
  BY <1>3, <1>4, <1>5, <1>6

(* Every step keeps the invariant of the loops.                            *)
LEMMA StatsStep ==
  ASSUME StatsInv, [Next]_vars
  PROVE  StatsInv'
<1>1. ASSUME NEW t \in Threads, NEW e \in Times, Measure(t, e) PROVE StatsInv'
  BY <1>1, MeasureStep
<1>2. ASSUME NEW t \in Threads, Step(t) PROVE StatsInv'
  BY <1>2, MinStep, MaxStep, AddStep DEF Step
<1>3. CASE Stopped \/ UNCHANGED vars
  <2>1. UNCHANGED <<pc, elapsed, seen, minTime, maxTime, total, count, blocks>>
    BY <1>3 DEF Stopped, vars, atomics
  <2>2. \A t \in Threads, i \in Turns : Latest(t, i)' <=> Latest(t, i)
    BY <2>1 DEF Latest
  <2>3. TypeOK'
    BY <2>1 DEF StatsInv, TypeOK
  <2>4. WorkInv'
    BY <2>1, <2>2 DEF StatsInv, WorkInv
  <2>5. LowInv' /\ HighInv'
    BY <2>1, <2>2 DEF StatsInv, LowInv, HighInv, PastMin, PastMax
  <2> QED
    BY <2>3, <2>4, <2>5 DEF StatsInv
<1> QED
  BY <1>1, <1>2, <1>3 DEF Next

(* The invariant behind it: every thread in a loop still has the block in  *)
(* hand that the atomic may not know yet.                                  *)
THEOREM LoopsKeepTrack == Spec => []StatsInv
<1>1. Init => StatsInv
  <2> SUFFICES ASSUME Init PROVE StatsInv
    OBVIOUS
  <2>1. TypeOK
    BY StatsAssumption DEF StatsAssumption, Init, TypeOK, PCs
  <2>2. \A t \in Threads, i \in Turns : pc[t] = "idle" /\ blocks[<<t, i>>] = 0
    BY DEF Init, Cells, Turns
  <2>3. minTime = Never /\ maxTime = 0
    BY DEF Init
  <2>4. \A t \in Threads : pc[t] = "idle"
    BY DEF Init
  <2> QED
    BY <2>1, <2>2, <2>3, <2>4 DEF StatsInv, WorkInv, LowInv, HighInv
<1>2. StatsInv /\ [Next]_vars => StatsInv'
  BY StatsStep
<1> QED
  BY <1>1, <1>2, PTL DEF Spec

(* min_time and max_time are times of blocks, and past its loop no thread  *)
(* has a block outside them.                                               *)
THEOREM RacesLoseNoExtreme == Spec => []ExtremesExact
<1>1. StatsInv => ExtremesExact
  <2> SUFFICES ASSUME StatsInv PROVE ExtremesExact
    OBVIOUS
  <2>1. \A c \in Cells : c[1] \in Threads /\ c[2] \in Turns /\ c = <<c[1], c[2]>>
    BY DEF Cells, Turns
  <2>2. \A t \in Threads, i \in Turns :
          /\ <<t, i>> \in Cells
          /\ <<t, i>> \in Measured <=> blocks[<<t, i>>] # 0
    BY DEF Cells, Measured, Turns
  <2>3. ASSUME minTime # Never PROVE \E c \in Measured : blocks[c] = minTime
    <3>1. PICK t \in Threads, i \in Turns : blocks[<<t, i>>] = minTime
      BY <2>3 DEF StatsInv, LowInv
    <3>2. <<t, i>> \in Measured
      BY <2>2, <2>3, <3>1, Numbers DEF StatsInv
    <3> QED
      BY <3>1, <3>2
  <2>4. ASSUME maxTime # 0 PROVE \E c \in Measured : blocks[c] = maxTime
    <3>1. PICK t \in Threads, i \in Turns : blocks[<<t, i>>] = maxTime
      BY <2>4 DEF StatsInv, HighInv
    <3>2. <<t, i>> \in Measured
      BY <2>2, <2>4, <3>1
    <3> QED
      BY <3>1, <3>2
  <2>5. ASSUME NEW c \in Measured
        PROVE  /\ minTime <= blocks[c] \/ (Current(c) /\ ~PastMin(c[1]))
               /\ maxTime >= blocks[c] \/ (Current(c) /\ ~PastMax(c[1]))
    <3>1. c \in Cells /\ blocks[c] # 0
      BY DEF Measured
    <3>2. PICK t \in Threads, i \in Turns : c = <<t, i>>
      BY <2>1, <3>1
    <3>3. Latest(t, i) => Current(c)
      BY <3>2 DEF Latest, Current, Turns
    <3> QED
      BY <3>1, <3>2, <3>3 DEF StatsInv, LowInv, HighInv
  <2> QED
    BY <2>3, <2>4, <2>5 DEF ExtremesExact
<1> QED
  BY <1>1, LoopsKeepTrack, PTL

-----------------------------------------------------------------------------
(* Sums.                                                                   *)
Sum(f, S) == MapThenSumSet(LAMBDA k : f[k], S)

OneOf(s) == CHOOSE k \in s : TRUE

(* g gives the sum of f over each subset of S, one chosen element at a time. *)
AddsUp(g, f, S) ==
  g = [s \in SUBSET S |-> IF s = {} THEN 0 ELSE f[OneOf(s)] + g[s \ {OneOf(s)}]]

(* A set of finite sets that is not empty has a member that contains no    *)
(* other.                                                                  *)
LEMMA SmallestSet ==
  ASSUME NEW S, IsFiniteSet(S), NEW B, B \subseteq SUBSET S, B # {}
  PROVE  \E u \in B : \A s \in B : s \subseteq u => s = u
<1> DEFINE R == StrictSubsetOrdering(S)
<1>1. IsWellFoundedOn(R, SUBSET S)
  BY FS_StrictSubsetOrderingWellFounded, FS_FiniteSubsetsOfFinite
<1>2. \A s, u \in SUBSET S : s \subseteq u /\ s # u => <<s, u>> \in R
  BY DEF StrictSubsetOrdering
<1> HIDE DEF R
<1>3. PICK u \in B : \A s \in B : ~ (<<s, u>> \in R)
  <2>1. \E k \in B : \A s \in B : ~ (<<s, k>> \in R)
    BY <1>1, WFMin
  <2> QED
    BY <2>1, Zenon
<1> QED
  BY <1>2, <1>3

(* The element that the fold takes first.                                  *)
LEMMA Chosen ==
  ASSUME NEW s, s # {}
  PROVE  OneOf(s) \in s /\ s \ {OneOf(s)} \subseteq s /\ s \ {OneOf(s)} # s
  BY DEF OneOf

(* A function on the parts of S that adds up the values of f.              *)
LEMMA AddsUpDef ==
  ASSUME NEW S, NEW f, NEW g, AddsUp(g, f, S), NEW s, s \subseteq S
  PROVE  /\ s = {} => g[s] = 0
         /\ s # {} => g[s] = f[OneOf(s)] + g[s \ {OneOf(s)}]
<1> DEFINE F == [u \in SUBSET S |-> IF u = {} THEN 0 ELSE f[OneOf(u)] + g[u \ {OneOf(u)}]]
<1>1. g = F
  BY DEF AddsUp
<1>2. (s = {} => F[s] = 0) /\ (s # {} => F[s] = f[OneOf(s)] + g[s \ {OneOf(s)}])
  OBVIOUS
<1> QED
  BY <1>1, <1>2, Zenon

(* Two such functions agree where both are defined: there is no smallest   *)
(* set at which they differ.                                               *)
LEMMA SumsAgree ==
  ASSUME NEW S, IsFiniteSet(S), NEW T, T \subseteq S, NEW f, NEW g, NEW h,
         AddsUp(g, f, S), AddsUp(h, f, T), NEW u, u \subseteq T
  PROVE  g[u] = h[u]
<1> DEFINE Bad == {s \in SUBSET T : g[s] # h[s]}
<1> SUFFICES ASSUME Bad # {} PROVE FALSE
  OBVIOUS
<1>1. PICK s \in Bad : \A w \in Bad : w \subseteq s => w = s
  <2>1. IsFiniteSet(T) /\ Bad \subseteq SUBSET T
    BY FS_Subset
  <2> HIDE DEF Bad
  <2> QED
    BY <2>1, SmallestSet
<1>2. s \subseteq S /\ s \subseteq T /\ g[s] # h[s]
  OBVIOUS
<1>3. \A w : w \subseteq T /\ w \subseteq s /\ w # s => g[w] = h[w]
  BY <1>1
<1> HIDE DEF Bad
<1>4. s # {}
  <2>1. s = {} => g[s] = 0
    BY <1>2, AddsUpDef
  <2>2. s = {} => h[s] = 0
    BY <1>2, AddsUpDef
  <2> QED
    BY <1>2, <2>1, <2>2
<1>5. g[s \ {OneOf(s)}] = h[s \ {OneOf(s)}]
  BY <1>2, <1>3, <1>4, Chosen
<1>6. g[s] = f[OneOf(s)] + g[s \ {OneOf(s)}]
  BY <1>2, <1>4, AddsUpDef
<1>7. h[s] = f[OneOf(s)] + h[s \ {OneOf(s)}]
  BY <1>2, <1>4, AddsUpDef
<1> QED
  BY <1>2, <1>5, <1>6, <1>7

(* There is such a function for every finite set: no smallest one is       *)
(* without.                                                                *)
LEMMA SumsExist ==
  ASSUME NEW S, IsFiniteSet(S), NEW f
  PROVE  \E g : AddsUp(g, f, S)
<1> DEFINE Bad == {T \in SUBSET S : ~ \E g : AddsUp(g, f, T)}
<1> SUFFICES ASSUME Bad # {} PROVE FALSE
  OBVIOUS
<1>1. PICK T \in Bad : \A u \in Bad : u \subseteq T => u = T
  <2>1. Bad \subseteq SUBSET S
    OBVIOUS
  <2> HIDE DEF Bad
  <2> QED
    BY <2>1, SmallestSet
<1> DEFINE G(u) == CHOOSE g : AddsUp(g, f, u)
           Rest(s) == s \ {OneOf(s)}
           h == [s \in SUBSET T |-> IF s = {} THEN 0 ELSE f[OneOf(s)] + G(Rest(s))[Rest(s)]]
<1>2. ASSUME NEW u, u \subseteq T, u # T PROVE AddsUp(G(u), f, u)
  <2>1. \E g : AddsUp(g, f, u)
    BY <1>1, <1>2
  <2> QED
    BY <2>1
<1>3. ASSUME NEW s \in SUBSET T, s # {} PROVE h[Rest(s)] = G(Rest(s))[Rest(s)]
  <2> DEFINE w == Rest(s)
  <2>1. w \subseteq T /\ w # T /\ IsFiniteSet(w)
    BY <1>3, Chosen, FS_Subset
  <2>2. AddsUp(G(w), f, w)
    BY <1>2, <2>1
  <2>3. CASE w = {}
    BY <2>1, <2>2, <2>3, AddsUpDef
  <2>4. CASE w # {}
    <3>1. Rest(w) \subseteq w /\ Rest(w) # T
      BY <2>1, <2>4, Chosen
    <3>2. AddsUp(G(Rest(w)), f, Rest(w))
      BY <1>2, <2>1, <3>1
    <3>3. G(w)[Rest(w)] = G(Rest(w))[Rest(w)]
      BY <2>1, <2>2, <3>1, <3>2, SumsAgree
    <3>4. G(w)[w] = f[OneOf(w)] + G(w)[Rest(w)]
      <4>1. w \subseteq w
        OBVIOUS
      <4> HIDE DEF w, G
      <4> QED
        BY <2>2, <2>4, <4>1, AddsUpDef
    <3>5. h[w] = f[OneOf(w)] + G(Rest(w))[Rest(w)]
      BY <2>1, <2>4
    <3> QED
      BY <3>3, <3>4, <3>5
  <2> QED
    BY <2>3, <2>4
<1>4. h = [s \in SUBSET T |-> IF s = {} THEN 0 ELSE f[OneOf(s)] + h[Rest(s)]]
  <2>1. ASSUME NEW s \in SUBSET T
        PROVE  h[s] = IF s = {} THEN 0 ELSE f[OneOf(s)] + h[Rest(s)]
    <3>1. h[s] = IF s = {} THEN 0 ELSE f[OneOf(s)] + G(Rest(s))[Rest(s)]
      OBVIOUS
    <3> HIDE DEF h, G
    <3> QED
      BY <1>3, <3>1
  <2> HIDE DEF h
  <2>2. h = [s \in SUBSET T |-> h[s]]
    BY DEF h
  <2> QED
    BY <2>1, <2>2
<1>5. AddsUp(h, f, T)
  BY <1>4 DEF AddsUp
<1> QED
  BY <1>1, <1>5

(* The sum of the community module is one of them.                         *)
LEMMA SumIs ==
  ASSUME NEW S, IsFiniteSet(S), NEW f
  PROVE  \E g : AddsUp(g, f, S) /\ Sum(f, S) = g[S]
<1> DEFINE g == CHOOSE g : AddsUp(g, f, S)
<1>1. AddsUp(g, f, S)
  BY SumsExist
<1>2. Sum(f, S) = g[S]
  BY DEF Sum, MapThenSumSet, MapThenFoldSet, AddsUp, OneOf
<1> QED
  BY <1>1, <1>2

(* So a sum is one value and the sum of the rest.                          *)
LEMMA SumUnfolds ==
  ASSUME NEW S, IsFiniteSet(S), NEW f
  PROVE  Sum(f, S) = IF S = {} THEN 0 ELSE f[OneOf(S)] + Sum(f, S \ {OneOf(S)})
<1>1. PICK g : AddsUp(g, f, S) /\ Sum(f, S) = g[S]
  BY SumIs
<1>2. CASE S = {}
  BY <1>1, <1>2, AddsUpDef
<1>3. CASE S # {}
  <2> DEFINE T == S \ {OneOf(S)}
  <2>1. IsFiniteSet(T) /\ T \subseteq S
    BY FS_Subset
  <2>2. PICK h : AddsUp(h, f, T) /\ Sum(f, T) = h[T]
    BY <2>1, SumIs
  <2>3. g[T] = h[T]
    BY <1>1, <2>1, <2>2, SumsAgree
  <2> QED
    BY <1>1, <1>3, <2>2, <2>3, AddsUpDef
<1> QED
  BY <1>2, <1>3

(* A sum of integers is one.                                               *)
LEMMA SumType ==
  ASSUME NEW S, IsFiniteSet(S), NEW f, \A k \in S : f[k] \in Int
  PROVE  Sum(f, S) \in Int
<1> DEFINE Bad == {T \in SUBSET S : Sum(f, T) \notin Int}
<1> SUFFICES ASSUME Bad # {} PROVE FALSE
  OBVIOUS
<1>1. PICK T \in Bad : \A u \in Bad : u \subseteq T => u = T
  <2>1. Bad \subseteq SUBSET S
    OBVIOUS
  <2> HIDE DEF Bad
  <2> QED
    BY <2>1, SmallestSet
<1>2. IsFiniteSet(T) /\ Sum(f, T) = IF T = {} THEN 0 ELSE f[OneOf(T)] + Sum(f, T \ {OneOf(T)})
  BY FS_Subset, SumUnfolds
<1>3. T # {}
  BY <1>2
<1>4. OneOf(T) \in T /\ Sum(f, T \ {OneOf(T)}) \in Int
  BY <1>1, <1>3, Chosen
<1> QED
  BY <1>2, <1>3, <1>4

(* The order of the choices does not matter. *)
LEMMA SumRemove ==
  ASSUME NEW S, IsFiniteSet(S), NEW f, \A k \in S : f[k] \in Int, NEW x \in S
  PROVE  Sum(f, S) = f[x] + Sum(f, S \ {x})
<1> DEFINE Out(T, k) == Sum(f, T) = f[k] + Sum(f, T \ {k})
           Bad == {T \in SUBSET S : \E k \in T : ~ Out(T, k)}
<1> SUFFICES ASSUME Bad # {} PROVE FALSE
  OBVIOUS
<1>1. PICK T \in Bad : \A u \in Bad : u \subseteq T => u = T
  <2>1. Bad \subseteq SUBSET S
    OBVIOUS
  <2> HIDE DEF Bad
  <2> QED
    BY <2>1, SmallestSet
<1>2. PICK k \in T : ~ Out(T, k)
  OBVIOUS
<1>3. T \subseteq S /\ \A u : u \subseteq T /\ u # T => \A j \in u : Out(u, j)
  BY <1>1
<1> HIDE DEF Bad
<1> DEFINE y == OneOf(T)
           Both == T \ {k, y}
<1>4. y \in T /\ IsFiniteSet(T) /\ IsFiniteSet(Both)
  BY <1>2, <1>3, FS_Subset, Chosen
<1>5. Sum(f, T) = f[y] + Sum(f, T \ {y})
  BY <1>2, <1>4, SumUnfolds
<1>6. k # y
  BY <1>2, <1>5
<1>7. Sum(f, T \ {y}) = f[k] + Sum(f, Both)
  <2>1. T \ {y} # T /\ k \in T \ {y} /\ (T \ {y}) \ {k} = Both
    BY <1>4, <1>6
  <2>2. Out(T \ {y}, k)
    BY <1>3, <2>1
  <2> QED
    BY <2>1, <2>2
<1>8. Sum(f, T \ {k}) = f[y] + Sum(f, Both)
  <2>1. T \ {k} # T /\ y \in T \ {k} /\ (T \ {k}) \ {y} = Both
    BY <1>4, <1>6
  <2>2. Out(T \ {k}, y)
    BY <1>3, <2>1
  <2> QED
    BY <2>1, <2>2
<1>9. Sum(f, Both) \in Int /\ f[k] \in Int /\ f[y] \in Int
  BY <1>3, <1>4, SumType
<1>10. ~ (Sum(f, T) = f[k] + Sum(f, T \ {k}))
  BY <1>2
<1> HIDE DEF Out, Both, y
<1> QED
  BY <1>5, <1>7, <1>8, <1>9, <1>10

(* A sum depends on the values of its set only.                            *)
LEMMA SumSame ==
  ASSUME NEW S, IsFiniteSet(S), NEW f, NEW g, \A k \in S : f[k] = g[k]
  PROVE  Sum(f, S) = Sum(g, S)
<1> DEFINE Bad == {T \in SUBSET S : Sum(f, T) # Sum(g, T)}
<1> SUFFICES ASSUME Bad # {} PROVE FALSE
  OBVIOUS
<1>1. PICK T \in Bad : \A u \in Bad : u \subseteq T => u = T
  <2>1. Bad \subseteq SUBSET S
    OBVIOUS
  <2> HIDE DEF Bad
  <2> QED
    BY <2>1, SmallestSet
<1>2. T \subseteq S /\ Sum(f, T) # Sum(g, T)
  OBVIOUS
<1>3. \A u : u \subseteq T /\ u # T => Sum(f, u) = Sum(g, u)
  BY <1>1
<1> HIDE DEF Bad
<1>4. IsFiniteSet(T)
  BY <1>2, FS_Subset
<1>5. T # {}
  BY <1>2, <1>4, SumUnfolds
<1>6. Sum(f, T \ {OneOf(T)}) = Sum(g, T \ {OneOf(T)}) /\ f[OneOf(T)] = g[OneOf(T)]
  BY <1>2, <1>3, <1>5, Chosen
<1> QED
  BY <1>2, <1>4, <1>5, <1>6, SumUnfolds

(* For the prover: a product with a successor.                             *)
LEMMA OneMore ==
  ASSUME NEW a \in Int, NEW n \in Nat
  PROVE  a * (n + 1) = a * n + a
  OBVIOUS

(* The mean lies between the extremes, without a division.                 *)
LEMMA SumBounds ==
  ASSUME NEW S, IsFiniteSet(S), NEW lo \in Int, NEW hi \in Int,
         NEW f, \A k \in S : f[k] \in Int /\ lo <= f[k] /\ f[k] <= hi
  PROVE  lo * Cardinality(S) <= Sum(f, S) /\ Sum(f, S) <= hi * Cardinality(S)
<1> DEFINE Within(T) == lo * Cardinality(T) <= Sum(f, T) /\ Sum(f, T) <= hi * Cardinality(T)
           Bad == {T \in SUBSET S : ~ Within(T)}
<1> SUFFICES ASSUME Bad # {} PROVE FALSE
  OBVIOUS
<1>1. PICK T \in Bad : \A u \in Bad : u \subseteq T => u = T
  <2>1. Bad \subseteq SUBSET S
    OBVIOUS
  <2> HIDE DEF Bad
  <2> QED
    BY <2>1, SmallestSet
<1>2. T \subseteq S /\ ~ Within(T)
  OBVIOUS
<1>3. \A u : u \subseteq T /\ u # T => Within(u)
  BY <1>1
<1> HIDE DEF Bad
<1>4. IsFiniteSet(T) /\ Cardinality(T) \in Nat
  BY <1>2, FS_Subset, FS_CardinalityType
<1>5. T # {}
  <2>1. T = {} => Sum(f, T) = 0 /\ Cardinality(T) = 0
    BY <1>4, SumUnfolds, FS_EmptySet
  <2> QED
    BY <1>2, <2>1
<1> DEFINE u == T \ {OneOf(T)}
<1>6. u \subseteq T /\ u # T /\ OneOf(T) \in S /\ Within(u)
  BY <1>2, <1>3, <1>5, Chosen
<1>7. Sum(f, T) = f[OneOf(T)] + Sum(f, u)
  BY <1>4, <1>5, SumUnfolds
<1>8. Cardinality(T) = Cardinality(u) + 1 /\ Cardinality(u) \in Nat /\ IsFiniteSet(u)
  <2>1. OneOf(T) \in T
    BY <1>5, Chosen
  <2>2. IsFiniteSet(u) /\ Cardinality(u) = Cardinality(T) - 1
    BY <1>4, <2>1, FS_RemoveElement
  <2>3. Cardinality(u) \in Nat
    BY <2>2, FS_CardinalityType
  <2> HIDE DEF u
  <2> QED
    BY <1>4, <2>2, <2>3
<1>9. Sum(f, u) \in Int
  BY <1>2, <1>6, <1>8, SumType
<1>10. lo * (Cardinality(u) + 1) = lo * Cardinality(u) + lo /\ hi * (Cardinality(u) + 1) = hi * Cardinality(u) + hi
  BY <1>8, OneMore
<1>11. /\ lo * Cardinality(u) <= Sum(f, u) /\ Sum(f, u) <= hi * Cardinality(u)
       /\ ~ (lo * Cardinality(T) <= Sum(f, T) /\ Sum(f, T) <= hi * Cardinality(T))
  BY <1>2, <1>6
<1>12. lo * Cardinality(u) \in Int /\ hi * Cardinality(u) \in Int /\ f[OneOf(T)] \in Int
       /\ lo <= f[OneOf(T)] /\ f[OneOf(T)] <= hi
  BY <1>6, <1>8
<1> HIDE DEF Within, u
<1> QED
  BY <1>7, <1>8, <1>9, <1>10, <1>11, <1>12

-----------------------------------------------------------------------------
(* The threads whose block is not counted yet, and those whose block is    *)
(* not in the total either.                                                *)
Uncounted == {t \in Threads : pc[t] # "idle"}
Unadded == {t \in Threads : pc[t] \notin {"idle", "count"}}

TallyInv ==
  /\ Cardinality(Measured) = count + Cardinality(Uncounted)
  /\ Sum(blocks, Measured) = total + Sum(elapsed, Unadded)

(* The sets that are counted and summed over are finite.                   *)
LEMMA Finite ==
  /\ IsFiniteSet(Threads) /\ IsFiniteSet(Measured)
  /\ IsFiniteSet(Uncounted) /\ IsFiniteSet(Unadded)
<1>1. IsFiniteSet(Threads) /\ MaxBlocks \in Nat
  BY StatsAssumption DEF StatsAssumption
<1>2. IsFiniteSet(1 .. MaxBlocks)
  BY <1>1, FS_Interval
<1>3. IsFiniteSet(Cells)
  BY <1>1, <1>2, FS_Product DEF Cells
<1>4. Measured \subseteq Cells /\ Uncounted \subseteq Threads /\ Unadded \subseteq Threads
  BY DEF Measured, Uncounted, Unadded
<1> QED
  BY <1>1, <1>3, <1>4, FS_Subset

(* What is summed is integers.                                             *)
LEMMA MeasuredTimes ==
  ASSUME TypeOK
  PROVE  /\ \A j \in Measured : j \in Cells /\ blocks[j] \in Int
         /\ \A t \in Threads : elapsed[t] \in Int
<1>1. Times \cup {0} \subseteq Int
  BY Numbers
<1>2. \A t \in Threads : elapsed[t] \in Times \cup {0}
  BY DEF TypeOK
<1>3. \A j \in Measured : j \in Cells /\ blocks[j] \in Times \cup {0}
  BY DEF TypeOK, Measured
<1> QED
  BY <1>1, <1>2, <1>3

(* A block measured: one more to count, and its time to be added.          *)
LEMMA MeasureTallied ==
  ASSUME StatsInv, TallyInv, NEW t \in Threads, NEW e \in Times, Measure(t, e)
  PROVE  TallyInv'
<1>1. PICK n \in Turns : blocks[<<t, n>>] = 0 /\ blocks' = [blocks EXCEPT ![<<t, n>>] = e]
  BY DEF Measure, Turns
<1> DEFINE k == <<t, n>>
<1>2. /\ pc[t] = "idle" /\ pc' = [pc EXCEPT ![t] = "minload"]
      /\ elapsed' = [elapsed EXCEPT ![t] = e]
      /\ UNCHANGED <<total, count>>
  BY DEF Measure, Goto, atomics
<1>3. e \in Nat /\ e # 0 /\ k \in Cells /\ k \notin Measured
  BY <1>1, Numbers DEF StatsInv, Cells, Turns, Measured
<1>4. /\ blocks'[k] = e /\ \A j \in Cells : j # k => blocks'[j] = blocks[j]
      /\ \A j \in Measured : blocks[j] \in Int
  BY <1>1, <1>3, MeasuredTimes DEF StatsInv, TypeOK
<1>5. Measured' = Measured \cup {k} /\ Measured' \ {k} = Measured
  BY <1>3, <1>4 DEF Measured, Cells
<1>6. Sum(blocks', Measured') = e + Sum(blocks, Measured)
  <2>1. IsFiniteSet(Measured') /\ IsFiniteSet(Measured)
    BY <1>5, Finite, FS_AddElement
  <2>2. \A j \in Measured' : blocks'[j] \in Int
    BY <1>3, <1>4, <1>5 DEF Measured
  <2>3. Sum(blocks', Measured') = blocks'[k] + Sum(blocks', Measured' \ {k})
    BY <1>5, <2>1, <2>2, SumRemove
  <2>4. Sum(blocks', Measured) = Sum(blocks, Measured)
    BY <1>3, <1>4, <2>1, SumSame DEF Measured
  <2> QED
    BY <1>4, <1>5, <2>3, <2>4
<1>7. /\ Uncounted' = Uncounted \cup {t} /\ t \notin Uncounted
      /\ Unadded' = Unadded \cup {t} /\ t \notin Unadded
  BY <1>2 DEF Uncounted, Unadded, StatsInv, TypeOK
<1>8. Cardinality(Measured') = Cardinality(Measured) + 1
  BY <1>3, <1>5, Finite, FS_AddElement
<1>9. Cardinality(Uncounted') = Cardinality(Uncounted) + 1
  BY <1>7, Finite, FS_AddElement
<1>10. Sum(elapsed', Unadded') = e + Sum(elapsed, Unadded)
  <2>1. IsFiniteSet(Unadded') /\ IsFiniteSet(Unadded)
    BY <1>7, Finite, FS_AddElement
  <2>2. /\ elapsed'[t] = e /\ \A u \in Unadded' : elapsed'[u] \in Int
        /\ \A u \in Unadded : elapsed'[u] = elapsed[u]
    BY <1>2, <1>3, <1>7, MeasuredTimes DEF StatsInv, TypeOK, Unadded
  <2>3. Unadded' \ {t} = Unadded /\ t \in Unadded'
    BY <1>7
  <2>4. Sum(elapsed', Unadded') = elapsed'[t] + Sum(elapsed', Unadded' \ {t})
    BY <2>1, <2>2, <2>3, SumRemove
  <2>5. Sum(elapsed', Unadded) = Sum(elapsed, Unadded)
    BY <2>1, <2>2, SumSame
  <2> QED
    BY <2>2, <2>3, <2>4, <2>5
<1>11. /\ total \in Nat /\ count \in Nat /\ Cardinality(Uncounted) \in Nat
       /\ Sum(elapsed, Unadded) \in Int
  BY Finite, FS_CardinalityType, MeasuredTimes, SumType DEF StatsInv, TypeOK, Unadded
<1> QED
  BY <1>2, <1>3, <1>6, <1>8, <1>9, <1>10, <1>11 DEF TallyInv

(* The loops change neither the sums nor who is counted in them.           *)
LEMMA LoopTallied ==
  ASSUME StatsInv, TallyInv, NEW t \in Threads,
         MinLoad(t) \/ MinCas(t) \/ MaxLoad(t) \/ MaxCas(t)
  PROVE  TallyInv'
<1>1. /\ pc[t] \notin {"idle", "count"} /\ pc' = [pc EXCEPT ![t] = pc'[t]]
      /\ pc'[t] \notin {"idle", "count"}
      /\ UNCHANGED <<elapsed, total, count, blocks>>
  BY DEF MinLoad, MinCas, MaxLoad, MaxCas, Goto, atomics, StatsInv, TypeOK
<1>2. Uncounted' = Uncounted /\ Unadded' = Unadded /\ Measured' = Measured
  BY <1>1 DEF Uncounted, Unadded, Measured, StatsInv, TypeOK
<1> QED
  BY <1>1, <1>2 DEF TallyInv

(* The time goes from the thread to the total.                             *)
LEMMA TotalTallied ==
  ASSUME StatsInv, TallyInv, NEW t \in Threads, AddTotal(t)
  PROVE  TallyInv'
<1>1. /\ pc[t] = "total" /\ pc' = [pc EXCEPT ![t] = "count"]
      /\ total' = total + elapsed[t] /\ UNCHANGED <<elapsed, count, blocks>>
  BY DEF AddTotal, Goto
<1>2. /\ Uncounted' = Uncounted /\ Measured' = Measured
      /\ Unadded' = Unadded \ {t} /\ t \in Unadded
  BY <1>1 DEF Uncounted, Unadded, Measured, StatsInv, TypeOK
<1>3. Sum(elapsed, Unadded) = elapsed[t] + Sum(elapsed, Unadded')
  BY <1>2, Finite, MeasuredTimes, SumRemove DEF StatsInv, Unadded
<1>4. total \in Nat /\ elapsed[t] \in Int /\ Sum(elapsed, Unadded') \in Int
  <2>1. IsFiniteSet(Unadded') /\ \A u \in Unadded' : elapsed[u] \in Int
    BY <1>2, Finite, FS_RemoveElement, MeasuredTimes DEF StatsInv, Unadded
  <2> QED
    BY <2>1, MeasuredTimes, SumType DEF StatsInv, TypeOK
<1> QED
  BY <1>1, <1>2, <1>3, <1>4 DEF TallyInv

(* The block is counted and the thread is done with it.                    *)
LEMMA CountTallied ==
  ASSUME StatsInv, TallyInv, NEW t \in Threads, AddCount(t)
  PROVE  TallyInv'
<1>1. /\ pc[t] = "count" /\ pc' = [pc EXCEPT ![t] = "idle"]
      /\ count' = count + 1 /\ UNCHANGED <<elapsed, total, blocks>>
  BY DEF AddCount, Counted, Goto
<1>2. /\ Unadded' = Unadded /\ Measured' = Measured
      /\ Uncounted' = Uncounted \ {t} /\ t \in Uncounted
  BY <1>1 DEF Uncounted, Unadded, Measured, StatsInv, TypeOK
<1>3. Cardinality(Uncounted') = Cardinality(Uncounted) - 1 /\ Cardinality(Uncounted) \in Nat
  BY <1>2, Finite, FS_RemoveElement, FS_CardinalityType
<1>4. count \in Nat
  BY DEF StatsInv, TypeOK
<1> QED
  BY <1>1, <1>2, <1>3, <1>4 DEF TallyInv

(* No addition to the two sums is lost.                                    *)
THEOREM NoAdditionLost == Spec => []TallyInv
<1>1. Init => TallyInv
  <2> SUFFICES ASSUME Init PROVE TallyInv
    OBVIOUS
  <2>1. Measured = {} /\ Uncounted = {} /\ Unadded = {} /\ total = 0 /\ count = 0
    BY DEF Init, Measured, Uncounted, Unadded
  <2>2. Cardinality({}) = 0 /\ IsFiniteSet({})
    BY FS_EmptySet
  <2>3. Sum(blocks, {}) = 0 /\ Sum(elapsed, {}) = 0
    BY <2>2, SumUnfolds
  <2> QED
    BY <2>1, <2>2, <2>3 DEF TallyInv
<1>2. StatsInv /\ TallyInv /\ [Next]_vars => TallyInv'
  <2> SUFFICES ASSUME StatsInv, TallyInv, [Next]_vars PROVE TallyInv'
    OBVIOUS
  <2>1. ASSUME NEW t \in Threads, NEW e \in Times, Measure(t, e) PROVE TallyInv'
    BY <2>1, MeasureTallied
  <2>2. ASSUME NEW t \in Threads, Step(t) PROVE TallyInv'
    BY <2>2, LoopTallied, TotalTallied, CountTallied DEF Step
  <2>3. CASE Stopped \/ UNCHANGED vars
    BY <2>3 DEF Stopped, vars, atomics, TallyInv, Measured, Uncounted, Unadded
  <2> QED
    BY <2>1, <2>2, <2>3 DEF Next
<1> QED
  BY <1>1, <1>2, LoopsKeepTrack, PTL DEF Spec

(* What the division by the threads drops is less than their number.       *)
LEMMA Shares ==
  ASSUME NEW s \in Int, NEW n \in Nat \ {0}
  PROVE  s - (s \div n) * n \in 0 .. n - 1
<1>1. PICK q \in Int, u \in 0 .. n - 1 : q = s \div n /\ u = s % n
  BY SMT
<1>2. s = n * q + u
  BY <1>1, SMT
<1>3. n * q = q * n
  OBVIOUS
<1> QED
  BY <1>1, <1>2, <1>3

(* What benchmark_print_summary prints is made of exactly the blocks that  *)
(* were measured: their number, the sum of their times over the threads,   *)
(* and extremes between which their average lies.                          *)
THEOREM SummaryIsExact == Spec => []SummaryExact
<1>1. StatsInv /\ TallyInv /\ ExtremesExact => SummaryExact
  <2> SUFFICES ASSUME StatsInv, TallyInv, ExtremesExact,
                      \A t \in Threads : pc[t] = "idle", Measured # {}
               PROVE  /\ count = Cardinality(Measured)
                      /\ Sum(blocks, Measured) - (total \div Cardinality(Threads)) * Cardinality(Threads)
                           \in 0 .. Cardinality(Threads) - 1
                      /\ minTime * count <= Sum(blocks, Measured)
                      /\ Sum(blocks, Measured) <= maxTime * count
    BY DEF SummaryExact, Summary, Sum
  <2>1. Uncounted = {} /\ Unadded = {}
    BY DEF Uncounted, Unadded
  <2>2. count \in Nat /\ total \in Nat /\ minTime \in Nat /\ maxTime \in Nat
    BY Numbers DEF StatsInv, TypeOK
  <2>3. count = Cardinality(Measured)
    BY <2>1, <2>2, FS_EmptySet DEF TallyInv
  <2>4. Sum(blocks, Measured) = total
    <3>1. Sum(elapsed, {}) = 0
      BY FS_EmptySet, SumUnfolds
    <3> QED
      BY <2>1, <2>2, <3>1 DEF TallyInv
  <2>5. Cardinality(Threads) \in Nat \ {0}
    <3>1. Threads # {}
      BY DEF Measured, Cells
    <3> QED
      BY <3>1, Finite, FS_CardinalityType, FS_EmptySet
  <2>6. \A k \in Measured : blocks[k] \in Int /\ minTime <= blocks[k] /\ blocks[k] <= maxTime
    <3> TAKE k \in Measured
    <3>1. k[1] \in Threads /\ blocks[k] \in Int
      BY MeasuredTimes DEF StatsInv, Cells
    <3>2. PastMin(k[1]) /\ PastMax(k[1])
      BY <3>1 DEF PastMin, PastMax
    <3>3. minTime <= blocks[k] /\ maxTime >= blocks[k]
      BY <3>2 DEF ExtremesExact
    <3> QED
      BY <2>2, <3>1, <3>3
  <2>7. minTime * count <= Sum(blocks, Measured) /\ Sum(blocks, Measured) <= maxTime * count
    BY <2>2, <2>3, <2>6, Finite, SumBounds
  <2>8. total - (total \div Cardinality(Threads)) * Cardinality(Threads)
          \in 0 .. Cardinality(Threads) - 1
    <3>1. total \in Int
      BY <2>2
    <3> QED
      BY <2>5, <3>1, Shares, Zenon
  <2> QED
    BY <2>3, <2>4, <2>7, <2>8, Zenon
<1> QED
  BY <1>1, LoopsKeepTrack, NoAdditionLost, RacesLoseNoExtreme, PTL
=============================================================================
