--------------------------- MODULE ProgramProofs ---------------------------
(***************************************************************************)
(* Theorems about Program.tla for any picture, any number of runs, and a   *)
(* scheduler whose frames may fail.                                        *)
(***************************************************************************)
EXTENDS Program, TLAPS

(* What main holds at each stage is kept by each of its calls, whichever   *)
(* of them fails.                                                          *)
LEMMA StageStep ==
  ASSUME StageInv, [Next]_vars
  PROVE  StageInv'
<1> USE DEF frameVars, kernelVars, dataVars, argVars, progress,
       StageInv, Stages, Prepared, Running, Drawing, KernelOutlivesWorkers,
       LogAlive, Provided
<1>1. CASE KernelAlloc
  BY <1>1 DEF KernelAlloc
<1>2. CASE KernelMissing
  BY <1>2 DEF KernelMissing, Destroyed
<1>3. CASE KernelNoSymbol
  BY <1>3 DEF KernelNoSymbol
<1>4. CASE KernelLoad
  BY <1>4 DEF KernelLoad
<1>5. CASE KernelCpuOk
  BY <1>5 DEF KernelCpuOk, Unsupported, Probed
<1>6. CASE KernelCpuLacks
  BY <1>6 DEF KernelCpuLacks
<1>7. CASE KernelInitFails
  BY <1>7 DEF KernelInitFails, Destroyed
<1>8. CASE KernelInit
  BY <1>8 DEF KernelInit
<1>9. CASE SchedCreate
  BY <1>9 DEF SchedCreate
<1>10. CASE TuneAffinity
  BY <1>10 DEF TuneAffinity
<1>11. ASSUME NEW n \in 1 .. MaxLen, CreateTasks(n) PROVE StageInv'
  BY <1>11 DEF CreateTasks, Frames!Load
<1>12. CASE SurfaceCreate
  BY <1>12 DEF SurfaceCreate, NewSurface
<1>13. CASE SurfaceFails
  BY <1>13 DEF SurfaceFails, BufferFails, NewSurface
<1>14. CASE SetContext
  BY <1>14 DEF SetContext
<1>15. CASE WindowFails
  BY <1>15 DEF WindowFails
<1>16. CASE FrameBegin
  BY <1>16 DEF FrameBegin, Frames!Begin
<1>17. ASSUME NEW k \in Slots, DrawBlock(k) PROVE StageInv'
  BY <1>17 DEF DrawBlock, Frames!Do
<1>18. CASE FrameEnd
  BY <1>18 DEF FrameEnd, Frames!End
<1>19. CASE FrameFail
  BY <1>19 DEF FrameFail
<1>20. CASE Requeue
  BY <1>20 DEF Requeue, Requeued, Frames!Rearm
<1>21. CASE GiveUp
  BY <1>21 DEF GiveUp, Frames!Quit
<1>22. CASE Finish
  BY <1>22 DEF Finish
<1>23. CASE Summary
  BY <1>23 DEF Summary
<1>24. CASE FreeData
  BY <1>24 DEF FreeData, SurfaceDestroy
<1>25. CASE SchedShutdown
  BY <1>25 DEF SchedShutdown, Frames!Quit
<1>26. CASE KernelDestroy
  BY <1>26 DEF KernelDestroy, Destroyed
<1>27. CASE LogInit
  BY <1>27 DEF LogInit
<1>28. CASE LogShutdown
  BY <1>28 DEF LogShutdown
<1>29. CASE Ended \/ UNCHANGED vars
  BY <1>29 DEF Ended, vars
<1> QED
  BY <1>1, <1>2, <1>3, <1>4, <1>5, <1>6, <1>7, <1>8, <1>9, <1>10, <1>11,
     <1>12, <1>13, <1>14, <1>15, <1>16, <1>17, <1>18, <1>19, <1>20, <1>21,
     <1>22, <1>23, <1>24, <1>25, <1>26, <1>27, <1>28, <1>29 DEF Next

(* main holds, at each stage, what its next stages need.                   *)
THEOREM StagesKept == Spec => []StageInv
<1>1. Init => StageInv
  BY DEF Init, StageInv, Stages, Prepared, Running, Drawing, KernelOutlivesWorkers, LogAlive,
     Frames!Init
<1>2. StageInv /\ [Next]_vars => StageInv'
  BY StageStep
<1> QED BY <1>1, <1>2, PTL DEF Spec

(* No frame runs without its kernel, its context, its surface and its      *)
(* scheduler.                                                              *)
THEOREM DataInPlace == Spec => []FrameHasItsData
<1>1. StageInv => FrameHasItsData
  BY DEF StageInv, FrameHasItsData, Running, Drawing
<1> QED BY <1>1, StagesKept, PTL

(* The kernel is not unloaded under a worker thread.                       *)
THEOREM UnloadAfterJoin == Spec => []KernelOutlivesWorkers
<1>1. StageInv => KernelOutlivesWorkers
  BY DEF StageInv, Stages, Prepared, Running, KernelOutlivesWorkers
<1> QED BY <1>1, StagesKept, PTL

(* The log outlives every thread and every kernel that writes to it.       *)
THEOREM LogOutlivesWriters == Spec => []LogAlive
<1>1. StageInv => LogAlive
  BY DEF StageInv, LogAlive, Prepared
<1> QED BY <1>1, StagesKept, PTL

-----------------------------------------------------------------------------
(* The history of the drawing, as numbers.                                 *)
Counts ==
  /\ drawn \in [Slots -> Nat] /\ runs \in [Slots -> {0, 1}]
  /\ round \in Nat /\ wanted \in Nat \ {0} /\ len \in Nat

Before == Prepared \cup {"scheduling", "tuning", "tasks", "surface", "context"}
After == {"freeing", "shutdown", "unload", "closing", "exit"}

(* As long as no frame has been lost, a block has been drawn once in every *)
(* complete round, and in the current one if its task has run.             *)
RoundInv ==
  ~lost =>
    /\ pc \in Before => round = 0 /\ \A k \in Slots : drawn[k] = 0
    /\ pc \in {"surface", "context", "driving"} => \A k \in Slots : runs[k] = 0
    /\ pc \in {"driving", "frame"} => \A k \in Slots : k < len => drawn[k] = round + runs[k]
    /\ pc = "drawn" => \A k \in Slots : k < len => drawn[k] = round + 1
    /\ pc = "summary" => \A k \in Slots : k < len => drawn[k] = wanted

(* A picture that has been saved stays as it is, with the blocks it had.   *)
SavedInv == image # {} => pc \in After /\ (~lost => \A k \in Slots : k < len => k \in image)

LEMMA CountsStep ==
  ASSUME Counts, [Next]_vars
  PROVE  Counts'
<1> USE DEF frameVars, kernelVars, dataVars, argVars, progress, Counts
<1>1. CASE LogInit \/ KernelAlloc \/ KernelMissing \/ KernelNoSymbol \/ KernelLoad \/ KernelCpuOk
           \/ KernelCpuLacks \/ KernelInitFails \/ KernelInit
  BY <1>1 DEF LogInit, KernelAlloc, KernelMissing, KernelNoSymbol, KernelLoad, KernelCpuOk,
     KernelCpuLacks, KernelInitFails, KernelInit
<1>2. CASE SchedCreate \/ TuneAffinity \/ SurfaceCreate \/ SurfaceFails \/ SetContext \/ WindowFails
  BY <1>2 DEF SchedCreate, TuneAffinity, SurfaceCreate, SurfaceFails, SetContext, WindowFails
<1>3. ASSUME NEW n \in 1 .. MaxLen, CreateTasks(n) PROVE Counts'
  BY <1>3, ProgramAssumption DEF CreateTasks, Frames!Load, Frames!NotRun, Frames!Slots, Slots,
     ProgramAssumption
<1>4. CASE FrameBegin
  BY <1>4 DEF FrameBegin, Frames!Begin
<1>5. ASSUME NEW k \in Slots, DrawBlock(k) PROVE Counts'
  BY <1>5 DEF DrawBlock, Frames!Do
<1>6. CASE FrameEnd \/ FrameFail \/ GiveUp
  BY <1>6 DEF FrameEnd, Frames!End, FrameFail, GiveUp, Frames!Quit
<1>7. CASE Requeue
  BY <1>7 DEF Requeue, Requeued, Frames!Rearm, Frames!NotRun, Frames!Slots, Slots
<1>8. CASE Finish \/ Summary \/ FreeData \/ SchedShutdown \/ KernelDestroy \/ LogShutdown
  BY <1>8 DEF Finish, Summary, FreeData, SchedShutdown, Frames!Quit, KernelDestroy, LogShutdown
<1>9. CASE Ended \/ UNCHANGED vars
  BY <1>9 DEF Ended, vars
<1> QED
  BY <1>1, <1>2, <1>3, <1>4, <1>5, <1>6, <1>7, <1>8, <1>9 DEF Next

LEMMA RoundStep ==
  ASSUME Counts, RoundInv, [Next]_vars
  PROVE  RoundInv'
<1> USE DEF frameVars, kernelVars, dataVars, argVars, progress, RoundInv, Before, Prepared
<1>1. CASE LogInit \/ KernelAlloc \/ KernelMissing \/ KernelNoSymbol \/ KernelLoad \/ KernelCpuOk
           \/ KernelCpuLacks \/ KernelInitFails \/ KernelInit
  BY <1>1 DEF LogInit, KernelAlloc, KernelMissing, KernelNoSymbol, KernelLoad, KernelCpuOk,
     KernelCpuLacks, KernelInitFails, KernelInit
<1>2. CASE SchedCreate \/ TuneAffinity \/ SurfaceCreate \/ SurfaceFails \/ WindowFails
  BY <1>2 DEF SchedCreate, TuneAffinity, SurfaceCreate, SurfaceFails, WindowFails
<1>3. CASE SetContext
  BY <1>3 DEF SetContext
<1>4. ASSUME NEW n \in 1 .. MaxLen, CreateTasks(n) PROVE RoundInv'
  BY <1>4 DEF CreateTasks, Frames!Load, Frames!NotRun, Frames!Slots, Slots
<1>5. CASE FrameBegin
  BY <1>5 DEF FrameBegin, Frames!Begin
<1>6. ASSUME NEW k \in Slots, DrawBlock(k) PROVE RoundInv'
  BY <1>6 DEF DrawBlock, Frames!Do, Counts
<1>7. CASE FrameEnd
  BY <1>7 DEF FrameEnd, Frames!End, Frames!Slots, Slots
<1>8. CASE FrameFail
  BY <1>8 DEF FrameFail
<1>9. CASE Requeue
  BY <1>9 DEF Requeue, Requeued, Frames!Rearm, Frames!NotRun, Frames!Slots, Slots, Counts
<1>10. CASE Finish
  BY <1>10 DEF Finish, Driven, Counts
<1>11. CASE GiveUp \/ Summary \/ FreeData \/ SchedShutdown \/ KernelDestroy \/ LogShutdown
  BY <1>11 DEF GiveUp, Summary, FreeData, SchedShutdown, Frames!Quit, KernelDestroy, LogShutdown
<1>12. CASE Ended \/ UNCHANGED vars
  BY <1>12 DEF Ended, vars
<1> QED
  BY <1>1, <1>2, <1>3, <1>4, <1>5, <1>6, <1>7, <1>8, <1>9, <1>10, <1>11, <1>12 DEF Next

LEMMA SavedStep ==
  ASSUME Counts, RoundInv, SavedInv, [Next]_vars
  PROVE  SavedInv'
<1> USE DEF frameVars, kernelVars, dataVars, argVars, progress, SavedInv, After
<1>1. CASE LogInit \/ KernelAlloc \/ KernelMissing \/ KernelNoSymbol \/ KernelLoad \/ KernelCpuOk
           \/ KernelCpuLacks \/ KernelInitFails \/ KernelInit
  BY <1>1 DEF LogInit, KernelAlloc, KernelMissing, KernelNoSymbol, KernelLoad, KernelCpuOk,
     KernelCpuLacks, KernelInitFails, KernelInit
<1>2. CASE SchedCreate \/ TuneAffinity \/ SurfaceCreate \/ SurfaceFails \/ SetContext \/ WindowFails
  BY <1>2 DEF SchedCreate, TuneAffinity, SurfaceCreate, SurfaceFails, SetContext, WindowFails
<1>3. CASE (\E n \in 1 .. MaxLen : CreateTasks(n)) \/ (\E k \in Slots : DrawBlock(k))
  BY <1>3 DEF CreateTasks, DrawBlock
<1>4. CASE FrameBegin \/ FrameEnd \/ FrameFail \/ GiveUp \/ Requeue \/ Finish
  BY <1>4 DEF FrameBegin, FrameEnd, FrameFail, GiveUp, Requeue, Finish
<1>5. CASE Summary
  <2>1. ~lost => \A k \in Slots : k < len => drawn[k] > 0
    BY <1>5 DEF Summary, RoundInv, Counts
  <2> QED
    BY <1>5, <2>1 DEF Summary
<1>6. CASE FreeData \/ SchedShutdown \/ KernelDestroy \/ LogShutdown
  BY <1>6 DEF FreeData, SchedShutdown, Frames!Quit, KernelDestroy, LogShutdown
<1>7. CASE Ended \/ UNCHANGED vars
  BY <1>7 DEF Ended, vars
<1> QED
  BY <1>1, <1>2, <1>3, <1>4, <1>5, <1>6, <1>7 DEF Next

LEMMA HistoryInit ==
  ASSUME ProgramAssumption, Init
  PROVE  Counts /\ RoundInv /\ SavedInv
  BY DEF ProgramAssumption, Init, Wanted, Counts, RoundInv, SavedInv, Before, Prepared, Slots,
     Frames!Init, Frames!NotRun, Frames!Slots

LEMMA HistoryKept == Spec => [](Counts /\ RoundInv /\ SavedInv)
<1>1. Init => Counts /\ RoundInv /\ SavedInv
  BY HistoryInit, ProgramAssumption
<1>2. Counts /\ RoundInv /\ SavedInv /\ [Next]_vars => (Counts /\ RoundInv /\ SavedInv)'
  BY CountsStep, RoundStep, SavedStep
<1> QED
  BY <1>1, <1>2, PTL DEF Spec

(* A benchmark of any number of runs has drawn every block that often when *)
(* its summary is printed, unless the scheduler reported a lost frame.     *)
THEOREM BenchmarkIsComplete == Spec => []RunsComplete
<1>1. Counts /\ RoundInv /\ SavedInv => RunsComplete
  BY DEF RoundInv, RunsComplete
<1> QED
  BY <1>1, HistoryKept, PTL

(* The picture of --mode oneshot has all its blocks, whatever their number.*)
THEOREM PictureIsWhole == Spec => []ImageWhole
<1>1. Counts /\ RoundInv /\ SavedInv => ImageWhole
  BY DEF SavedInv, ImageWhole
<1> QED
  BY <1>1, HistoryKept, PTL
=============================================================================
