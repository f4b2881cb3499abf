------------------------------ MODULE Program ------------------------------
(***************************************************************************)
(* The program around the scheduler: app/main.c, the two ways it drives    *)
(* frames (app/benchmark.c, app/render.c), the kernel loader               *)
(* (kernel/mdb_kernel.c) and the surface, as the order in which the main   *)
(* thread acquires, uses and releases what the worker threads work with.   *)
(* Any acquisition may fail.  The scheduler is its specification,          *)
(* TaskFrames, which Rsched is proved to implement.                        *)
(***************************************************************************)
EXTENDS Integers

CONSTANTS MaxLen,        \* bound on the number of blocks of the picture
          MaxRuns        \* bound on --benchmark-runs, and on the frames of a window

ASSUME ProgramAssumption ==
  /\ MaxLen \in Nat \ {0}
  /\ MaxRuns \in Nat \ {0}

VARIABLES pc,            \* where the main thread is
          mode,          \* args.mode
          wanted,        \* bench->runs
          needs, cpu,    \* what mdb_kernel_cpu_features asks for, what the processor has
          log,           \* __log_ctx, of which kernel and workers hold copies
          round,         \* `run': frames driven so far
          lost,          \* history: has rsched_host_yield reported a failure?
          kernel,        \* mdb->state, or what became of the kernel
          opens, closes, \* dlopen and dlclose of its shared object
          frees,         \* calls of free on the kernel's structure
          sched,         \* the scheduler: "null" after a failed rsched_create
          surf,          \* the surface and the buffer it points to
          ctx,           \* the user_ctx given to rsched_set_user_context
          drawn,         \* history: how often each block was drawn on the surface
          image,         \* the blocks of the picture when it was saved
          phase, len, runs        \* of TaskFrames

frameVars == <<phase, len, runs>>
kernelVars == <<kernel, opens, closes, frees>>
dataVars == <<surf, ctx, drawn, image>>
argVars == <<mode, wanted, needs, cpu>>
progress == <<round, lost>>
vars == <<pc, argVars, log, progress, kernelVars, sched, dataVars, frameVars>>

Frames == INSTANCE TaskFrames

Slots == 0 .. MaxLen
Modes == {"benchmark", "oneshot", "render"}

(* The kernels' mdb_kernel_cpu_features; also what a processor may have.    *)
FeatureSets == {{}, {"avx2"}, {"avx2", "fma"}}

PCs == {"start", "kernel", "loading", "checking", "initing", "scheduling", "tuning", "tasks", "surface",
        "context", "driving", "frame", "drawn", "failed", "summary", "freeing", "shutdown", "unload", "closing",
        "exit", "crashed"}

TypeOK ==
  /\ pc \in PCs
  /\ mode \in Modes
  /\ needs \in FeatureSets /\ cpu \in FeatureSets /\ log \in {"none", "up", "freed"}
  /\ wanted \in 1 .. MaxRuns /\ round \in 0 .. MaxRuns /\ lost \in BOOLEAN
  /\ kernel \in {"none", "noinit", "loaded", "inited", "freed"}
  /\ opens \in 0 .. 1 /\ closes \in 0 .. 2 /\ frees \in 0 .. 2
  /\ sched \in {"none", "up", "null", "down"}
  /\ surf \in {"none", "empty", "owned", "mapped", "freed"}
  /\ ctx \in {"none", "live", "freed"}
  /\ drawn \in [Slots -> 0 .. MaxRuns]
  /\ image \in SUBSET Slots
  /\ Frames!TypeOK

(* run_benchmark_mode's runs. *)
Wanted(m) == IF m = "oneshot" THEN {1} ELSE 1 .. MaxRuns

(* args_parse has returned. *)
Init ==
  /\ pc = "start"
  /\ mode \in Modes
  /\ wanted \in Wanted(mode)
  /\ needs \in FeatureSets /\ cpu \in FeatureSets /\ log = "none"
  /\ round = 0 /\ lost = FALSE
  /\ kernel = "none" /\ opens = 0 /\ closes = 0 /\ frees = 0
  /\ sched = "none"
  /\ surf = "none" /\ ctx = "none"
  /\ drawn = [k \in Slots |-> 0] /\ image = {}
  /\ Frames!Init

LogInit ==
  /\ pc = "start"
  /\ log' = "up" /\ pc' = "kernel"
  /\ UNCHANGED <<argVars, progress, kernelVars, sched, dataVars, frameVars>>

-----------------------------------------------------------------------------
(* mdb_kernel_create.                                                      *)

(* mdb_kernel_destroy of a structure whose state is s. *)
Destroyed(s) ==
  /\ kernel' = "freed"
  /\ closes' = IF s \in {"loaded", "inited"} THEN closes + 1 ELSE closes
  /\ frees' = frees + 1

KernelAlloc ==
  /\ pc = "kernel"
  /\ kernel' = "noinit" /\ pc' = "loading"
  /\ UNCHANGED <<argVars, log, progress, opens, closes, frees, sched, dataVars, frameVars>>

(* No name, or dlopen fails: main leaves without a scheduler. *)
KernelMissing ==
  /\ pc = "loading"
  /\ Destroyed("noinit") /\ pc' = "closing"
  /\ UNCHANGED <<argVars, log, progress, opens, sched, dataVars, frameVars>>

(* A symbol is missing: load_sym has closed the object, state is not LOADED. *)
KernelNoSymbol ==
  /\ pc = "loading"
  /\ opens' = opens + 1 /\ closes' = closes + 1
  /\ kernel' = "freed" /\ frees' = frees + 1
  /\ pc' = "closing"
  /\ UNCHANGED <<argVars, log, progress, sched, dataVars, frameVars>>

KernelLoad ==
  /\ pc = "loading"
  /\ opens' = opens + 1 /\ kernel' = "loaded" /\ pc' = "checking"
  /\ UNCHANGED <<argVars, log, progress, closes, frees, sched, dataVars, frameVars>>

(* cpu_check_features; the compiler did not know "fma", so that "avx2" is  *)
(* asked for in its place.                                                 *)
Probed(f) == IF f = "fma" THEN "avx2" ELSE f
Unsupported == {f \in needs : Probed(f) \notin cpu}

KernelCpuOk ==
  /\ pc = "checking" /\ Unsupported = {}
  /\ pc' = "initing"
  /\ UNCHANGED <<argVars, log, progress, kernelVars, sched, dataVars, frameVars>>

(* The processor lacks a feature: the kernel is destroyed here and again   *)
(* at error_exit, from freed memory.  The second time reads the old state  *)
(* or what the allocator left, and the second free may abort.              *)
KernelCpuLacks ==
  /\ pc = "checking" /\ Unsupported # {}
  /\ kernel' = "freed" /\ frees' = frees + 2
  /\ closes' \in {closes + 1, closes + 2}
  /\ pc' \in {"closing", "crashed"}
  /\ UNCHANGED <<argVars, log, progress, opens, sched, dataVars, frameVars>>

KernelInitFailsMutant ==                             \* without the goto error_exit
  /\ pc = "initing"
  /\ Destroyed("loaded") /\ pc' = "scheduling"
  /\ UNCHANGED <<argVars, log, progress, opens, sched, dataVars, frameVars>>

KernelInitFails ==
  /\ pc = "initing"
  /\ Destroyed("loaded") /\ pc' = "closing"
  /\ UNCHANGED <<argVars, log, progress, opens, sched, dataVars, frameVars>>

KernelInit ==
  /\ pc = "initing"
  /\ kernel' = "inited" /\ pc' = "scheduling"
  /\ UNCHANGED <<argVars, log, progress, opens, closes, frees, sched, dataVars, frameVars>>

-----------------------------------------------------------------------------
(* main, up to the mode.                                                   *)

SchedCreate ==
  /\ pc = "scheduling"
  /\ sched' \in {"up", "null"} /\ pc' = "tuning"
  /\ UNCHANGED <<argVars, log, progress, kernelVars, dataVars, frameVars>>

(* main ignores that rsched_create failed: the next call reads             *)
(* sched->n_workers through the null pointer.                              *)
TuneAffinity ==
  /\ pc = "tuning"
  /\ pc' = IF sched = "null" THEN "crashed" ELSE "tasks"
  /\ UNCHANGED <<argVars, log, progress, kernelVars, sched, dataVars, frameVars>>

CreateTasks(n) ==
  /\ pc = "tasks"
  /\ Frames!Load(n) /\ pc' = "surface"
  /\ UNCHANGED <<argVars, log, progress, kernelVars, sched, dataVars>>

(* SURFACE_BUFFER_EXT of run_render_mode: a window's buffer comes with each *)
(* frame.                                                                  *)
NewSurface == IF mode = "render" THEN "empty" ELSE "owned"

SurfaceCreate ==
  /\ pc = "surface"
  /\ surf' = NewSurface
  /\ pc' = "context"
  /\ UNCHANGED <<argVars, log, progress, kernelVars, sched, ctx, drawn, image, frameVars>>

(* surface_create_buffer fails, which a surface of its own calls. *)
BufferFails == NewSurface = "owned"

SurfaceFails ==
  /\ pc = "surface" /\ BufferFails
  /\ pc' = "shutdown"
  /\ UNCHANGED <<argVars, log, progress, kernelVars, sched, dataVars, frameVars>>

(* rsched_set_user_context with the benchmark or the render_ctx. *)
SetContext ==
  /\ pc = "context"
  /\ ctx' = "live" /\ pc' = "driving"
  /\ UNCHANGED <<argVars, log, progress, kernelVars, sched, surf, drawn, image, frameVars>>

(* No window, no OpenGL, no GL_ARB_buffer_storage: exit(EXIT_FAILURE) from *)
(* ogl_render_create, with nothing released.                               *)
WindowFails ==
  /\ pc = "driving" /\ mode = "render" /\ round = 0
  /\ pc' = "exit"
  /\ UNCHANGED <<argVars, log, progress, kernelVars, sched, dataVars, frameVars>>

-----------------------------------------------------------------------------
(* The frames: benchmark_run_kernel, render_update.                        *)

FrameBeginMutant ==                                  \* one run too many
  /\ pc = "driving" /\ round <= wanted
  /\ surf' = IF mode = "render" THEN "mapped" ELSE surf
  /\ Frames!Begin /\ pc' = "frame"
  /\ UNCHANGED <<argVars, log, progress, kernelVars, sched, ctx, drawn, image>>

FrameBegin ==
  /\ pc = "driving" /\ round < wanted
  /\ surf' = IF mode = "render" THEN "mapped" ELSE surf     \* surface_set_buffer
  /\ Frames!Begin /\ pc' = "frame"
  /\ UNCHANGED <<argVars, log, progress, kernelVars, sched, ctx, drawn, image>>

(* Any thread of the scheduler: mdb_kernel_process_block of block k. *)
DrawBlock(k) ==
  /\ pc = "frame"
  /\ Frames!Do(k)
  /\ drawn' = [drawn EXCEPT ![k] = @ + 1]
  /\ UNCHANGED <<pc, argVars, log, progress, kernelVars, sched, surf, ctx, image>>

FrameEndMutant ==                                    \* rsched_wait_workers is left out
  /\ pc = "frame"
  /\ phase' = "idle" /\ pc' = "drawn"
  /\ UNCHANGED <<argVars, log, progress, kernelVars, sched, dataVars, len, runs>>

FrameEnd ==
  /\ pc = "frame"
  /\ Frames!End /\ pc' = "drawn"
  /\ UNCHANGED <<argVars, log, progress, kernelVars, sched, dataVars>>

(* rsched_host_yield fails, with blocks drawn or not: benchmark_run_kernel *)
(* does not look, render_update gives up.  Rsched shows that it never does *)
(* with a context installed; here the callers' handling is what matters.   *)
FrameFail ==
  /\ pc = "frame"
  /\ lost' = TRUE
  /\ phase' = "idle" /\ UNCHANGED <<round, len, runs>>
  /\ pc' = IF mode = "render" THEN "failed" ELSE "drawn"
  /\ UNCHANGED <<argVars, log, kernelVars, sched, dataVars>>

RequeuedMutant == UNCHANGED frameVars                \* the tasks are not given back

Requeued == Frames!Rearm                             \* rsched_requeue

Requeue ==
  /\ pc = "drawn"
  /\ Requeued
  /\ round' = round + 1 /\ pc' = "driving"
  /\ UNCHANGED <<argVars, log, lost, kernelVars, sched, dataVars>>

GiveUp ==                \* render_update: rsched_shutdown, exit(EXIT_FAILURE)
  /\ pc = "failed"
  /\ Frames!Quit /\ sched' = "down" /\ pc' = "exit"
  /\ UNCHANGED <<argVars, log, progress, kernelVars, dataVars>>

(* All runs are done, or the user closes the window. *)
Driven == round = wanted

Finish ==
  /\ pc = "driving"
  /\ Driven \/ mode = "render"
  /\ pc' = IF mode = "render" THEN "freeing" ELSE "summary"
  /\ UNCHANGED <<argVars, log, progress, kernelVars, sched, dataVars, frameVars>>

(* benchmark_print_summary, then surface_save_image_hdr, which may fail. *)
Summary ==
  /\ pc = "summary"
  /\ image' \in IF mode = "oneshot" THEN {{}, {k \in Slots : k < len /\ drawn[k] > 0}} ELSE {{}}
  /\ pc' = "freeing"
  /\ UNCHANGED <<argVars, log, progress, kernelVars, sched, surf, ctx, drawn, frameVars>>

SurfaceDestroy == surf' = "freed"

(* benchmark_destroy or the end of render_run's frame; surface_destroy.    *)
FreeData ==
  /\ pc = "freeing"
  /\ ctx' = "freed" /\ SurfaceDestroy /\ pc' = "shutdown"
  /\ UNCHANGED <<argVars, log, progress, kernelVars, sched, drawn, image, frameVars>>

-----------------------------------------------------------------------------
(* main, from the label `shutdown'.                                        *)

SchedShutdown ==
  /\ pc = "shutdown"
  /\ Frames!Quit /\ sched' = "down" /\ pc' = "unload"
  /\ UNCHANGED <<argVars, log, progress, kernelVars, dataVars>>

KernelDestroyMutant ==                               \* before the scheduler, not after it
  /\ pc = "shutdown"
  /\ Destroyed(kernel) /\ pc' = "closing"
  /\ UNCHANGED <<argVars, log, progress, opens, sched, dataVars, frameVars>>

KernelDestroy ==
  /\ pc = "unload"
  /\ Destroyed(kernel) /\ pc' = "closing"
  /\ UNCHANGED <<argVars, log, progress, opens, sched, dataVars, frameVars>>

LogShutdownMutant ==                                 \* before the scheduler's and the kernel's end
  /\ pc \in {"shutdown", "closing"}
  /\ log' = "freed" /\ pc' = "exit"
  /\ UNCHANGED <<argVars, progress, kernelVars, sched, dataVars, frameVars>>

(* main's last step, also when there is no kernel. *)
LogShutdown ==
  /\ pc = "closing"
  /\ log' = "freed" /\ pc' = "exit"
  /\ UNCHANGED <<argVars, progress, kernelVars, sched, dataVars, frameVars>>

(* main has returned, or called exit. *)
Ended == pc \in {"exit", "crashed"} /\ UNCHANGED vars

Next ==
  \/ LogInit \/ KernelAlloc \/ KernelMissing \/ KernelNoSymbol \/ KernelLoad
  \/ KernelCpuOk \/ KernelCpuLacks \/ KernelInitFails \/ KernelInit
  \/ SchedCreate \/ TuneAffinity
  \/ \E n \in 1 .. MaxLen : CreateTasks(n)
  \/ SurfaceCreate \/ SurfaceFails \/ SetContext \/ WindowFails
  \/ FrameBegin \/ (\E k \in Slots : DrawBlock(k)) \/ FrameEnd \/ FrameFail \/ Requeue \/ GiveUp
  \/ Finish \/ Summary \/ FreeData
  \/ SchedShutdown \/ KernelDestroy \/ LogShutdown
  \/ Ended

Spec == Init /\ [][Next]_vars

-----------------------------------------------------------------------------
(* What the processor has, if every one with AVX2 has FMA as the sources    *)
(* assume.                                                                 *)
Provided == cpu \cup (IF "avx2" \in cpu THEN {"fma"} ELSE {})

(* No thread of the scheduler ever draws with a kernel that is not loaded  *)
(* or not initialised, or whose instructions the processor lacks (if every *)
(* one with AVX2 has FMA), a context that is freed or a surface without a  *)
(* buffer, whichever acquisition of main failed before.                    *)
FrameHasItsData ==
  phase = "busy" =>
    /\ kernel = "inited" /\ closes = 0
    /\ needs \subseteq Provided
    /\ sched = "up"
    /\ ctx = "live" /\ surf \in {"owned", "mapped"}

(* The code and the memory of the kernel stay until no worker thread is    *)
(* left to run it, on every path out of main.                              *)
KernelOutlivesWorkers == closes > 0 \/ frees > 0 => sched \in {"none", "down"}

(* Records are written through one context by main, by the kernel, which   *)
(* register_log_context gave it to, and by every worker to the last        *)
(* ("Worker exiting", after RS_SIG_QUIT): when log_shutdown frees it,      *)
(* neither kernel nor worker is left, on every path out of main.           *)
LogAlive == log # "up" => sched \in {"none", "down"} /\ kernel \in {"none", "freed"}

(* benchmark_run draws every block as often as it drives frames, so that   *)
(* the counts of benchmark_print_summary are about whole pictures.         *)
RunsComplete == pc = "summary" /\ ~lost => \A k \in Slots : k < len => drawn[k] = wanted

(* The picture that --mode oneshot saves has all its blocks.               *)
ImageWhole == image # {} /\ ~lost => \A k \in Slots : k < len => k \in image

(* Why it is so: what main holds at each of its stages.                    *)
Prepared == {"start", "kernel", "loading", "checking", "initing"}
Running == {"tasks", "surface", "context", "driving", "frame", "drawn", "failed", "summary",
            "freeing", "shutdown"}
Drawing == {"driving", "frame", "drawn", "failed", "summary", "freeing"}

Stages == Prepared \cup {"scheduling", "tuning"} \cup Running \cup {"unload", "closing", "exit", "crashed"}

StageInv ==
  /\ pc \in Stages
  /\ phase = "busy" => pc = "frame"
  /\ pc \in Prepared => sched = "none" /\ closes = 0 /\ frees = 0
  /\ pc \in {"scheduling", "tuning"} \cup Running =>
       kernel = "inited" /\ closes = 0 /\ frees = 0
  /\ pc = "tuning" => sched \in {"up", "null"}
  /\ pc \in Running => sched = "up"
  /\ pc \in {"context"} \cup Drawing =>
       \/ mode # "render" /\ surf = "owned"
       \/ mode = "render" /\ surf \in (IF pc = "frame" THEN {"mapped"} ELSE {"empty", "mapped"})
  /\ pc \in Drawing => ctx = "live"
  /\ pc = "unload" => sched = "down"
  /\ pc \in {"closing", "exit", "crashed", "unload"} => KernelOutlivesWorkers
  /\ log # "up" => pc \in {"start", "exit"}
  /\ pc \in {"start", "kernel"} => kernel = "none"
  /\ pc = "closing" => sched \in {"none", "down"} /\ kernel = "freed"
  /\ pc = "exit" => LogAlive
  /\ pc \in {"initing", "scheduling", "tuning"} \cup Running =>
       needs \subseteq Provided

-----------------------------------------------------------------------------
(* A statement of the sources that the code does not keep.                 *)

(* mdb_kernel.h:84: mdb_kernel_destroy releases all resources; it is the   *)
(* counterpart of one mdb_kernel_create, for which it runs once.           *)
ReleasedOnce == closes <= opens /\ frees <= 1
=============================================================================
