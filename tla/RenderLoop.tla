----------------------------- MODULE RenderLoop -----------------------------
(***************************************************************************)
(* The window of render/: the main thread lets the scheduler draw a frame  *)
(* into a buffer that stays mapped, and queues for the GPU, which runs     *)
(* behind it, the upload of that buffer, the drawing and the buffer swap.  *)
(* One fence (rend->sync) keeps the two apart.                             *)
(***************************************************************************)
EXTENDS Integers, Sequences

CONSTANTS Blocks,        \* the tasks of a frame
          MaxViews       \* bound: how often the user changes the view

ASSUME RenderAssumption == Blocks # {} /\ MaxViews \in Nat

VARIABLES pc,            \* where the main thread is in ogl_render_render_loop
          todo,          \* blocks of the frame no thread has drawn yet
          view,          \* the kernel's parameters, as a version number
          data,          \* pbo->data: the view each block was drawn with
          gpu,           \* the commands the GPU has not finished
          fence,         \* how many of them rend->sync waits for; 0: signalled, or no sync
          read,          \* blocks the upload in progress has read
          tex,           \* the texture
          back, screen   \* the back buffer and what the user sees

hostVars == <<pc, todo, view>>
gpuVars == <<tex, back, screen>>
vars == <<hostVars, data, gpu, fence, read, gpuVars>>

Picture == [Blocks -> 0 .. MaxViews]
Commands == {"upload", "draw", "swap"}

TypeOK ==
  /\ pc \in {"update", "draw", "lock", "wait", "bind", "relock", "swap", "poll", "closed"}
  /\ todo \in SUBSET Blocks
  /\ view \in 0 .. MaxViews
  /\ data \in Picture
  /\ gpu \in Seq(Commands)
  /\ fence \in 0 .. Len(gpu)
  /\ read \in SUBSET Blocks
  /\ tex \in Picture /\ back \in Picture /\ screen \in Picture

Blank == [b \in Blocks |-> 0]

Init ==
  /\ pc = "update" /\ todo = {} /\ view = 0
  /\ data = Blank
  /\ gpu = <<>> /\ fence = 0 /\ read = {}
  /\ tex = Blank /\ back = Blank /\ screen = Blank

-----------------------------------------------------------------------------
(* The main thread, in the order of the loop.                              *)

FencePassedMutant == TRUE                            \* GL_TIMEOUT_EXPIRED ends the wait

(* ogl_buffer_wait returns: glClientWaitSync, asked again until then.      *)
FencePassed == fence = 0

FenceMutant == 0                                     \* a fence that is signalled at once

(* ogl_buffer_lock: a new fence behind everything queued so far.           *)
Fence == Len(gpu)

UpdateBegin ==              \* ogl_pbo_update: wait, then data_update
  /\ pc = "update" /\ FencePassed
  /\ todo' = Blocks /\ pc' = "draw"
  /\ UNCHANGED <<view, data, gpu, fence, read, gpuVars>>

DrawBlock(b) ==             \* a thread of the scheduler, in render_update
  /\ pc = "draw" /\ b \in todo
  /\ data' = [data EXCEPT ![b] = view]
  /\ todo' = todo \ {b}
  /\ UNCHANGED <<pc, view, gpu, fence, read, gpuVars>>

DrawnMutant == TRUE         \* rsched_host_yield returns early

Drawn == todo = {}

UpdateEnd ==
  /\ pc = "draw" /\ Drawn
  /\ todo' = {} /\ pc' = "lock"
  /\ UNCHANGED <<view, data, gpu, fence, read, gpuVars>>

Lock ==
  /\ pc = "lock"
  /\ fence' = Fence /\ pc' = "wait"
  /\ UNCHANGED <<todo, view, data, gpu, read, gpuVars>>

Wait ==                     \* the second ogl_buffer_wait
  /\ pc = "wait" /\ FencePassed
  /\ pc' = "bind"
  /\ UNCHANGED <<todo, view, data, gpu, fence, read, gpuVars>>

Bind ==                     \* ogl_pbo_bind_texture0, ogl_squad_end
  /\ pc = "bind"
  /\ gpu' = gpu \o <<"upload", "draw">>
  /\ pc' = "relock"
  /\ UNCHANGED <<todo, view, data, fence, read, gpuVars>>

Relock ==
  /\ pc = "relock"
  /\ fence' = Fence /\ pc' = "swap"
  /\ UNCHANGED <<todo, view, data, gpu, read, gpuVars>>

SwapMutant ==
  /\ pc = "swap"
  /\ pc' = "poll"
  /\ UNCHANGED <<todo, view, data, gpu, fence, read, gpuVars>>

Swap ==                     \* glfwSwapBuffers, with an interval of 0
  /\ pc = "swap"
  /\ gpu' = Append(gpu, "swap") /\ pc' = "poll"
  /\ UNCHANGED <<todo, view, data, fence, read, gpuVars>>

(* glfwPollEvents runs the key callbacks on this thread.                   *)
PollKey ==
  /\ pc = "poll" /\ view < MaxViews
  /\ view' = view + 1
  /\ UNCHANGED <<pc, todo, data, gpu, fence, read, gpuVars>>

PollEnd ==
  /\ pc = "poll"
  /\ pc' = "update"
  /\ UNCHANGED <<todo, view, data, gpu, fence, read, gpuVars>>

PollClose ==                \* Escape, or the window's close button
  /\ pc = "poll"
  /\ pc' = "closed"
  /\ UNCHANGED <<todo, view, data, gpu, fence, read, gpuVars>>

-----------------------------------------------------------------------------
(* The GPU, one command after the other.                                   *)

(* The command at the head is finished: it is gone, and the fence is nearer. *)
Pop ==
  /\ gpu' = Tail(gpu)
  /\ fence' = IF fence > 0 THEN fence - 1 ELSE 0

GpuRead(b) ==               \* the upload reads the mapped buffer as it is now
  /\ gpu # <<>> /\ Head(gpu) = "upload" /\ b \notin read
  /\ tex' = [tex EXCEPT ![b] = data[b]]
  /\ read' = read \cup {b}
  /\ UNCHANGED <<hostVars, data, gpu, fence, back, screen>>

GpuUploaded ==
  /\ gpu # <<>> /\ Head(gpu) = "upload" /\ read = Blocks
  /\ Pop /\ read' = {}
  /\ UNCHANGED <<hostVars, data, gpuVars>>

GpuDraw ==
  /\ gpu # <<>> /\ Head(gpu) = "draw"
  /\ Pop /\ back' = tex
  /\ UNCHANGED <<hostVars, data, read, tex, screen>>

GpuSwap ==
  /\ gpu # <<>> /\ Head(gpu) = "swap"
  /\ Pop /\ screen' = back
  /\ UNCHANGED <<hostVars, data, read, tex, back>>

-----------------------------------------------------------------------------
LoopStep ==
  \/ UpdateBegin \/ (\E b \in Blocks : DrawBlock(b)) \/ UpdateEnd
  \/ Lock \/ Wait \/ Bind \/ Relock \/ Swap \/ PollEnd

GpuStep == (\E b \in Blocks : GpuRead(b)) \/ GpuUploaded \/ GpuDraw \/ GpuSwap

Closed == pc = "closed" /\ UNCHANGED vars

Next == LoopStep \/ PollKey \/ PollClose \/ GpuStep \/ Closed

Spec == Init /\ [][Next]_vars

(* The driver makes progress on what is queued (the waits flush it), and   *)
(* the loop runs; the user need not do anything.                           *)
LiveSpec == Spec /\ WF_vars(LoopStep) /\ WF_vars(GpuStep)

-----------------------------------------------------------------------------
(* No thread draws into the mapped buffer while the GPU may still read it. *)
BufferIsOurs == pc = "draw" => \A i \in DOMAIN gpu : gpu[i] # "upload"

(* What the user sees was all drawn with the same view: no half of one     *)
(* frame with half of another, and no half-drawn frame.                    *)
WholePicture == \A a, b \in Blocks : screen[a] = screen[b]

(* The main thread is never more than a frame ahead: the GPU's queue, and  *)
(* with it the lag behind the keys, is bounded.                            *)
OneFrameAhead == Len(gpu) <= 3

(* A changed view is shown, unless the window closes first.                *)
ViewShown ==
  \A v \in 0 .. MaxViews :
    (view = v) ~> (pc = "closed" \/ \A b \in Blocks : screen[b] >= v)
=============================================================================
