----------------------------- MODULE TaskFrames -----------------------------
(***************************************************************************)
(* What the scheduler of sched/rsched.h promises, with no threads in it.   *)
(* The caller loads a set of tasks 0 .. len-1, and one frame              *)
(* (rsched_host_yield) runs each of them once, in any order.  A frame ends *)
(* only when nothing is left to do.  Tasks are given back to the scheduler *)
(* only between frames (rsched_requeue, rsched_create_tasks).              *)
(* Rsched.tla is shown to implement this specification.                    *)
(***************************************************************************)
EXTENDS Naturals

CONSTANT MaxLen          \* bound on the number of tasks of a frame

VARIABLES phase,         \* "idle": the caller runs; "busy": a frame; "off": shut down
          len,           \* tasks of a frame
          runs           \* how often each task ran since it was last given out

vars == <<phase, len, runs>>

Slots == 0 .. MaxLen

NotRun == [k \in Slots |-> 0]

TypeOK ==
  /\ phase \in {"idle", "busy", "off"}
  /\ len \in 0 .. MaxLen
  /\ runs \in [Slots -> {0, 1}]

Init ==
  /\ phase = "idle"
  /\ len = 0
  /\ runs = NotRun

-----------------------------------------------------------------------------
(* The caller, between frames.                                             *)
Load(n) ==
  /\ phase = "idle"
  /\ len' = n
  /\ runs' = NotRun
  /\ UNCHANGED phase

Rearm ==
  /\ phase = "idle"
  /\ runs' = NotRun
  /\ UNCHANGED <<phase, len>>

Begin ==
  /\ phase = "idle"
  /\ phase' = "busy"
  /\ UNCHANGED <<len, runs>>

Quit ==
  /\ phase = "idle"
  /\ phase' = "off"
  /\ UNCHANGED <<len, runs>>

-----------------------------------------------------------------------------
(* A frame: some thread runs a task that has not run, or all have.         *)
Do(k) ==
  /\ phase = "busy"
  /\ k < len
  /\ runs[k] = 0
  /\ runs' = [runs EXCEPT ![k] = 1]
  /\ UNCHANGED <<phase, len>>

End ==
  /\ phase = "busy"
  /\ \A k \in Slots : k < len => runs[k] = 1
  /\ phase' = "idle"
  /\ UNCHANGED <<len, runs>>

Next ==
  \/ \E n \in 0 .. MaxLen : Load(n)
  \/ Rearm \/ Begin \/ Quit
  \/ \E k \in Slots : Do(k)
  \/ End

Spec == Init /\ [][Next]_vars
=============================================================================
