-------------------------------- MODULE Hist --------------------------------
(***************************************************************************)
(* The histograms of tools/hist.c, into which every thread of the          *)
(* scheduler sorts the times of its tasks (rsched_profile_stop): the bins  *)
(* of perf_hist_init and the binary search of perf_hist_add, one probe a   *)
(* step.  Profile says when a thread adds to its histograms.               *)
(***************************************************************************)
EXTENDS Integers

CONSTANTS Sizes,         \* size=
          Ranges,        \* <<min=, max=>>
          Word,          \* one more than the largest uint64_t
          LogWidth       \* bound: width of a histogram with log_scale=1

ASSUME HistAssumption ==
  /\ Word \in Nat \ {0}
  /\ Sizes \subseteq Nat \ {0}
  /\ Ranges \subseteq (0 .. Word - 1) \X (0 .. Word - 1)
  /\ LogWidth \in Nat

VARIABLES size, min, max,        \* the arguments of perf_hist_init
          top,                   \* bin[i].max; bin[i].min is the one before
          data,                  \* bin[i].data; the last two count what does not fit
          pc,                    \* "idle", "search", "found"
          val, l, r,             \* of perf_hist_bsearch
          idx                    \* what it returns

hist == <<size, min, max, top>>
search == <<val, l, r, idx>>
histVars == <<hist, data, pc, search>>

HIST_BOUNDL == size
HIST_BOUNDR == size + 1
Bins == 0 .. size + 1

Width == (max - min) % Word

Step == Width \div size

LinearTop(i) == (min + Step * (i + 1)) % Word

(* The exponential scale: the bins' ends rise from min to max.  A width of *)
(* zero has the logarithm -inf and an exponential of zero.                 *)
IsLogTop(f) ==
  /\ f[0] >= (IF min = max THEN min ELSE min + 1)
  /\ \A i, j \in 0 .. size - 1 : i <= j => f[i] <= f[j]

(* perf_hist_init; nothing keeps min= from being larger than max=.         *)
HistInit ==
  /\ size \in Sizes /\ \E range \in Ranges : min = range[1] /\ max = range[2]
  /\ \/ top = [i \in 0 .. size - 1 |-> LinearTop(i)]
     \/ Width <= LogWidth /\ min <= max /\ \E f \in [0 .. size - 1 -> min .. max] : IsLogTop(f) /\ top = f
  /\ data = [i \in Bins |-> 0]
  /\ pc = "idle"
  /\ val = 0 /\ l = 0 /\ r = -1 /\ idx = 0

Bottom(i) == IF i = 0 THEN min ELSE top[i - 1]

-----------------------------------------------------------------------------
AddBegin(v) ==
  /\ pc = "idle"
  /\ val' = v
  /\ l' = 0 /\ r' = size - 1
  /\ pc' = "search"
  /\ UNCHANGED <<hist, data, idx>>

Middle == l + (r - l) \div 2

(* One turn of the loop: perf_hist_check_range of the bin in the middle.   *)
BelowMutant == val <= Bottom(Middle)                 \* `<=' for `<'
Below == val < Bottom(Middle)
Above == ~Below /\ val >= top[Middle]

ProbeLeft ==
  /\ pc = "search" /\ l <= r /\ Below
  /\ r' = Middle - 1
  /\ UNCHANGED <<hist, data, pc, val, l, idx>>

ProbeRightMutant ==                                  \* l = m
  /\ pc = "search" /\ l <= r /\ Above
  /\ l' = Middle
  /\ UNCHANGED <<hist, data, pc, val, r, idx>>

ProbeRight ==
  /\ pc = "search" /\ l <= r /\ Above
  /\ l' = Middle + 1
  /\ UNCHANGED <<hist, data, pc, val, r, idx>>

ProbeHit ==
  /\ pc = "search" /\ l <= r /\ ~Below /\ ~Above
  /\ idx' = Middle /\ pc' = "found"
  /\ UNCHANGED <<hist, data, val, l, r>>

Outside == IF l = 0 THEN HIST_BOUNDL ELSE HIST_BOUNDR

NotFound ==
  /\ pc = "search" /\ l > r
  /\ idx' = Outside /\ pc' = "found"
  /\ UNCHANGED <<hist, data, val, l, r>>

AddEnd ==
  /\ pc = "found"
  /\ data' = [data EXCEPT ![idx] = @ + 1]
  /\ pc' = "idle"
  /\ UNCHANGED <<hist, search>>

Search == ProbeLeft \/ ProbeRight \/ ProbeHit \/ NotFound \/ AddEnd

-----------------------------------------------------------------------------
(* The search finds what a scan of the bins finds, for linear and          *)
(* exponential bins, empty ones among them; a value in no bin is counted   *)
(* apart, below or above.                                                  *)
Holds(i) == Bottom(i) <= val /\ val < top[i]

SearchExact ==
  pc = "found" /\ min <= max =>
    /\ idx < size => Holds(idx)
    /\ idx = HIST_BOUNDL => val < min
    /\ idx = HIST_BOUNDR => \A i \in 0 .. size - 1 : top[i] <= val

(* The search ends, also on bins that min > max has put out of order.      *)
AddReturns == (pc # "idle") ~> (pc = "idle")
=============================================================================
