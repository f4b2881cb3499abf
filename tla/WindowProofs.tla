---------------------------- MODULE WindowProofs ----------------------------
(***************************************************************************)
(* The window, for every driver of version 3.2 or later, every surface,    *)
(* every set of blocks, every number of changes of the view and every      *)
(* shader file.  First the frames: the picture is whole and the GPU reads  *)
(* no buffer that is being drawn.  Then the calls of OpenGL, the size of   *)
(* the pixel buffer and the reading of a shader's source.                  *)
(*                                                                         *)
(* The argument of the frames: what the GPU has left is always the tail of *)
(* one frame, upload, draw, swap, and where the loop is decides which tail *)
(* it can still be.  So an upload is in the queue only between bind and    *)
(* the wait of the next update, when nobody draws, and what it reads is    *)
(* one view.                                                               *)
(***************************************************************************)
EXTENDS Window, SequenceTheorems, TLAPS

Uniform(p) == \A a, b \in Blocks : p[a] = p[b]

(* What is left of a frame, and of one that has not been swapped yet.      *)
FrameTails == {<<>>, <<"swap">>, <<"draw", "swap">>, <<"upload", "draw", "swap">>}
DrawTails == {<<>>, <<"draw">>, <<"upload", "draw">>}

Uploading == gpu \in {<<"upload", "draw", "swap">>, <<"upload", "draw">>}

(* Where the loop is, what is queued, and how much the fence waits for.    *)
QueueInv ==
  /\ pc \in {"update", "poll"} =>
       /\ gpu \in FrameTails
       /\ fence = IF gpu = <<>> THEN 0 ELSE Len(gpu) - 1
  /\ pc \in {"draw", "lock"} => gpu \in {<<>>, <<"swap">>} /\ fence = 0
  /\ pc = "wait" => gpu \in {<<>>, <<"swap">>} /\ fence = Len(gpu)
  /\ pc = "bind" => gpu = <<>> /\ fence = 0
  /\ pc = "relock" => gpu \in DrawTails /\ fence = 0
  /\ pc = "swap" => gpu \in DrawTails /\ fence = Len(gpu)
  /\ pc = "closed" => gpu \in FrameTails \cup DrawTails

(* Which pictures are of one view.                                         *)
DataInv ==
  /\ pc = "draw" => \A b \in Blocks \ todo : data[b] = view
  /\ pc \notin {"draw", "closed"} => Uniform(data)
  /\ Uploading => Uniform(data) /\ \A b \in read : tex[b] = data[b]
  /\ ~Uploading => Uniform(tex) /\ read = {}
  /\ Uniform(back)
  /\ Uniform(screen)

RInv == TypeOK /\ QueueInv /\ DataInv

(* How the window ends the loop: the frame fails or the driver aborts.     *)
Abandon ==
  /\ pc' = "closed"
  /\ UNCHANGED <<todo, view, data, gpu, fence, read, gpuVars>>

-----------------------------------------------------------------------------
(* The sequences of GPU commands, taken apart and put together.            *)
LEMMA Lengths ==
  /\ Len(<<>>) = 0 /\ Len(<<"swap">>) = 1 /\ Len(<<"draw">>) = 1
  /\ Len(<<"draw", "swap">>) = 2 /\ Len(<<"upload", "draw">>) = 2
  /\ Len(<<"upload", "draw", "swap">>) = 3
  OBVIOUS

LEMMA Heads ==
  /\ Head(<<"swap">>) = "swap" /\ Head(<<"draw">>) = "draw"
  /\ Head(<<"draw", "swap">>) = "draw" /\ Head(<<"upload", "draw">>) = "upload"
  /\ Head(<<"upload", "draw", "swap">>) = "upload"
  OBVIOUS

LEMMA Tails ==
  /\ Tail(<<"swap">>) = <<>> /\ Tail(<<"draw">>) = <<>>
  /\ Tail(<<"draw", "swap">>) = <<"swap">> /\ Tail(<<"upload", "draw">>) = <<"draw">>
  /\ Tail(<<"upload", "draw", "swap">>) = <<"draw", "swap">>
<1>1. Tail(<<"swap">>) = <<>> /\ Tail(<<"draw">>) = <<>>
  OBVIOUS
<1>2. Tail(<<"draw", "swap">>) = <<"swap">>
  OBVIOUS
<1>3. Tail(<<"upload", "draw">>) = <<"draw">>
  OBVIOUS
<1>4. Tail(<<"upload", "draw", "swap">>) = <<"draw", "swap">>
  OBVIOUS
<1> QED
  BY <1>1, <1>2, <1>3, <1>4

LEMMA Longer ==
  ASSUME NEW S, NEW a \in S, NEW b \in S, NEW c \in S
  PROVE  /\ Append(<<a>>, b) = <<a, b>>
         /\ Append(<<a, b>>, c) = <<a, b, c>>
<1>1. Append(<<a>>, b) = <<a, b>>
  <2>1. <<a>> \in Seq(S) /\ <<a, b>> \in Seq(S)
    OBVIOUS
  <2>2. Append(<<a>>, b) \in Seq(S) /\ Len(Append(<<a>>, b)) = 2
    BY <2>1
  <2>3. Append(<<a>>, b)[1] = a /\ Append(<<a>>, b)[2] = b
    BY <2>1
  <2> QED
    <3>1. Len(<<a, b>>) = 2 /\ \A i \in 1 .. 2 : Append(<<a>>, b)[i] = <<a, b>>[i]
      BY <2>1, <2>3
    <3> QED
      BY <2>1, <2>2, <3>1, SeqEqual
<1>2. Append(<<a, b>>, c) = <<a, b, c>>
  <2>1. <<a, b>> \in Seq(S) /\ <<a, b, c>> \in Seq(S)
    OBVIOUS
  <2>2. Append(<<a, b>>, c) \in Seq(S) /\ Len(Append(<<a, b>>, c)) = 3
    BY <2>1
  <2>3. /\ Append(<<a, b>>, c)[1] = a /\ Append(<<a, b>>, c)[2] = b
        /\ Append(<<a, b>>, c)[3] = c
    BY <2>1
  <2> QED
    <3>1. Len(<<a, b, c>>) = 3 /\ \A i \in 1 .. 3 : Append(<<a, b>>, c)[i] = <<a, b, c>>[i]
      BY <2>1, <2>3
    <3> QED
      BY <2>1, <2>2, <3>1, SeqEqual
<1> QED
  BY <1>1, <1>2

LEMMA Grows ==
  /\ <<>> \o <<"upload", "draw">> = <<"upload", "draw">>
  /\ Append(<<>>, "swap") = <<"swap">>
  /\ Append(<<"draw">>, "swap") = <<"draw", "swap">>
  /\ Append(<<"upload", "draw">>, "swap") = <<"upload", "draw", "swap">>
<1>1. <<"upload", "draw">> \in Seq(Commands)
  BY DEF Commands
<1>2. <<>> \o <<"upload", "draw">> = <<"upload", "draw">>
  BY <1>1, ConcatEmptySeq
<1>3. Append(<<>>, "swap") = <<"swap">>
  OBVIOUS
<1>4. "upload" \in Commands /\ "draw" \in Commands /\ "swap" \in Commands
  BY DEF Commands
<1>5. Append(<<"draw">>, "swap") = <<"draw", "swap">>
  BY <1>4, Longer
<1>6. Append(<<"upload", "draw">>, "swap") = <<"upload", "draw", "swap">>
  BY <1>4, Longer
<1> QED
  BY <1>2, <1>3, <1>5, <1>6

(* Every tail differs from every other, and all are sequences of commands. *)
LEMMA Distinct ==
  /\ FrameTails \cup DrawTails \subseteq Seq(Commands)
  /\ <<"swap">> # <<>> /\ <<"draw">> # <<>> /\ <<"draw", "swap">> # <<>>
  /\ <<"upload", "draw">> # <<>> /\ <<"upload", "draw", "swap">> # <<>>
  /\ <<"upload", "draw">> \notin {<<"swap">>, <<"draw">>, <<"draw", "swap">>}
  /\ <<"upload", "draw", "swap">> \notin {<<"swap">>, <<"draw">>, <<"draw", "swap">>}
  BY DEF FrameTails, DrawTails, Commands

-----------------------------------------------------------------------------
LEMMA RInit ==
  ASSUME RenderAssumption, Init
  PROVE  RInv
  BY Distinct, RenderAssumption DEF RenderAssumption, Init, RInv, TypeOK, QueueInv, DataInv, Uploading, Uniform,
     FrameTails, Blank, Picture

(* The GPU takes the first command of a tail and leaves a shorter tail,    *)
(* with the fence as much nearer.                                          *)
LEMMA PopKeepsQueue ==
  ASSUME RInv, Pop, gpu # <<>>, UNCHANGED pc
  PROVE  QueueInv' /\ gpu' \in Seq(Commands) /\ fence' \in 0 .. Len(gpu')
<1> USE DEF RInv, TypeOK, QueueInv, FrameTails, DrawTails, Pop
<1>1. gpu' \in Seq(Commands)
  BY Distinct, Tails, Lengths
<1>2. CASE gpu = <<"swap">>
  BY <1>1, <1>2, Distinct, Tails, Lengths
<1>3. CASE gpu = <<"draw">>
  BY <1>1, <1>3, Distinct, Tails, Lengths
<1>4. CASE gpu = <<"draw", "swap">>
  BY <1>1, <1>4, Distinct, Tails, Lengths
<1>5. CASE gpu = <<"upload", "draw">>
  BY <1>1, <1>5, Distinct, Tails, Lengths
<1>6. CASE gpu = <<"upload", "draw", "swap">>
  BY <1>1, <1>6, Distinct, Tails, Lengths
<1>7. gpu \in {<<"swap">>, <<"draw">>, <<"draw", "swap">>, <<"upload", "draw">>, <<"upload", "draw", "swap">>}
  OBVIOUS
<1> QED
  BY <1>2, <1>3, <1>4, <1>5, <1>6, <1>7

(* Reading one more block of an upload keeps what was read like the buffer *)
(* it is read from.                                                        *)
LEMMA GpuReadKeeps ==
  ASSUME RInv, NEW b \in Blocks, GpuRead(b)
  PROVE  RInv'
<1>1. Uploading
  BY Distinct, Heads DEF RInv, TypeOK, QueueInv, FrameTails, DrawTails, GpuRead, Uploading
<1>2. tex' \in Picture /\ \A c \in read' : tex'[c] = data[c]
  BY <1>1 DEF RInv, TypeOK, DataInv, GpuRead, Picture
<1>3. TypeOK'
  BY <1>2 DEF RInv, TypeOK, GpuRead, hostVars
<1>4. QueueInv'
  BY DEF RInv, QueueInv, GpuRead, hostVars
<1>5. DataInv'
  BY <1>1, <1>2 DEF RInv, DataInv, GpuRead, hostVars, Uploading, Uniform
<1> QED
  BY <1>3, <1>4, <1>5 DEF RInv

(* An upload that has read all blocks leaves the texture with one view.    *)
LEMMA UploadedKeeps ==
  ASSUME RInv, GpuUploaded
  PROVE  RInv'
<1>1. Uploading
  BY Distinct, Heads DEF RInv, TypeOK, QueueInv, FrameTails, DrawTails, GpuUploaded, Uploading
<1>2. UNCHANGED pc /\ Pop /\ gpu # <<>>
  BY DEF GpuUploaded, hostVars
<1>3. QueueInv' /\ gpu' \in Seq(Commands) /\ fence' \in 0 .. Len(gpu')
  BY <1>2, PopKeepsQueue
<1>4. Uniform(tex)
  BY <1>1 DEF RInv, DataInv, GpuUploaded, Uniform
<1>5. ~Uploading'
  BY <1>1, Tails, Distinct DEF GpuUploaded, Pop, Uploading
<1>6. DataInv'
  BY <1>4, <1>5 DEF RInv, DataInv, GpuUploaded, hostVars, gpuVars, Uniform
<1> QED
  BY <1>3, <1>6 DEF RInv, TypeOK, GpuUploaded, hostVars, gpuVars

(* Drawing or swapping leaves no upload behind it that was not there.      *)
LEMMA NoNewUpload ==
  ASSUME RInv, Pop, gpu # <<>>, Head(gpu) # "upload"
  PROVE  ~Uploading /\ ~Uploading'
<1>1. gpu \in {<<"swap">>, <<"draw">>, <<"draw", "swap">>}
  BY Heads DEF RInv, TypeOK, QueueInv, FrameTails, DrawTails
<1>2. gpu' \in {<<>>, <<"swap">>}
  BY <1>1, Tails DEF Pop
<1> QED
  BY <1>1, <1>2, Distinct DEF Uploading

LEMMA DrawKeeps ==
  ASSUME RInv, GpuDraw
  PROVE  RInv'
<1>1. UNCHANGED pc /\ Pop /\ gpu # <<>> /\ Head(gpu) # "upload"
  BY DEF GpuDraw, hostVars
<1>2. QueueInv' /\ gpu' \in Seq(Commands) /\ fence' \in 0 .. Len(gpu')
  BY <1>1, PopKeepsQueue
<1>3. ~Uploading /\ ~Uploading'
  BY <1>1, NoNewUpload
<1>4. DataInv'
  BY <1>3 DEF RInv, DataInv, GpuDraw, hostVars, Uniform
<1> QED
  BY <1>2, <1>4 DEF RInv, TypeOK, GpuDraw, hostVars

LEMMA SwapKeeps ==
  ASSUME RInv, GpuSwap
  PROVE  RInv'
<1>1. UNCHANGED pc /\ Pop /\ gpu # <<>> /\ Head(gpu) # "upload"
  BY DEF GpuSwap, hostVars
<1>2. QueueInv' /\ gpu' \in Seq(Commands) /\ fence' \in 0 .. Len(gpu')
  BY <1>1, PopKeepsQueue
<1>3. ~Uploading /\ ~Uploading'
  BY <1>1, NoNewUpload
<1>4. DataInv'
  BY <1>3 DEF RInv, DataInv, GpuSwap, hostVars, Uniform
<1> QED
  BY <1>2, <1>4 DEF RInv, TypeOK, GpuSwap, hostVars

(* A block is drawn while no upload is queued, and with the view of its    *)
(* frame: the keys are polled between frames.                              *)
LEMMA BlockKeeps ==
  ASSUME RInv, NEW b \in Blocks, DrawBlock(b)
  PROVE  RInv'
<1> USE DEF DrawBlock, gpuVars
<1>1. ~Uploading
  BY Distinct DEF RInv, QueueInv, Uploading
<1>2. data' \in Picture
  BY DEF RInv, TypeOK, Picture
<1>3. \A c \in Blocks \ todo' : data'[c] = view
  BY DEF RInv, TypeOK, DataInv, Picture
<1>4. DataInv'
  BY <1>1, <1>3 DEF RInv, DataInv, Uploading, Uniform
<1> QED
  BY <1>2, <1>4 DEF RInv, TypeOK, QueueInv

(* The steps of the loop that touch neither the queue nor the buffer: each *)
(* knows more of the queue only through the fence.                         *)
LEMMA LoopKeeps ==
  ASSUME RInv,
         UpdateBegin \/ UpdateEnd \/ Lock \/ Wait \/ Relock \/ PollKey \/ PollEnd \/ PollClose
  PROVE  RInv'
<1> USE DEF RInv, gpuVars
<1>1. CASE UpdateBegin
  <2>1. gpu \in {<<>>, <<"swap">>} /\ ~Uploading
    <3>1. gpu \in FrameTails /\ (gpu = <<>> \/ Len(gpu) = 1)
      BY <1>1 DEF TypeOK, QueueInv, UpdateBegin, FencePassed
    <3>2. gpu \in {<<>>, <<"swap">>}
      BY <3>1, Lengths DEF FrameTails
    <3> QED
      BY <3>2, Distinct DEF Uploading
  <2>2. QueueInv'
    BY <1>1, <2>1 DEF QueueInv, UpdateBegin, FencePassed
  <2>3. DataInv'
    BY <1>1, <2>1 DEF DataInv, UpdateBegin, Uploading, Uniform
  <2> QED
    BY <1>1, <2>2, <2>3 DEF TypeOK, UpdateBegin
<1>2. CASE UpdateEnd
  <2>1. Uniform(data)
    BY <1>2 DEF DataInv, UpdateEnd, Drawn, Uniform
  <2>2. QueueInv'
    BY <1>2 DEF QueueInv, UpdateEnd
  <2>3. DataInv'
    BY <1>2, <2>1 DEF DataInv, UpdateEnd, Uploading, Uniform
  <2> QED
    BY <1>2, <2>2, <2>3 DEF TypeOK, UpdateEnd
<1>3. CASE Lock
  <2>1. gpu \in Seq(Commands) /\ Len(gpu) \in Nat
    BY DEF TypeOK
  <2>2. TypeOK'
    BY <1>3, <2>1 DEF TypeOK, Lock, Fence
  <2> QED
    BY <1>3, <2>2 DEF QueueInv, DataInv, Lock, Fence, Uploading, Uniform
<1>4. CASE Wait
  <2>1. gpu = <<>>
    BY <1>4, Lengths DEF QueueInv, Wait, FencePassed
  <2> QED
    BY <1>4, <2>1 DEF TypeOK, QueueInv, DataInv, Wait, FencePassed, Uploading, Uniform
<1>5. CASE Relock
  <2>1. gpu \in Seq(Commands) /\ Len(gpu) \in Nat
    BY DEF TypeOK
  <2>2. TypeOK'
    BY <1>5, <2>1 DEF TypeOK, Relock, Fence
  <2> QED
    BY <1>5, <2>2 DEF QueueInv, DataInv, Relock, Fence, Uploading, Uniform
<1>6. CASE PollKey
  <2>1. TypeOK'
    BY <1>6, RenderAssumption DEF RenderAssumption, TypeOK, PollKey
  <2> QED
    BY <1>6, <2>1 DEF QueueInv, DataInv, PollKey, Uploading, Uniform
<1>7. CASE PollEnd
  BY <1>7 DEF TypeOK, QueueInv, DataInv, PollEnd, Uploading, Uniform
<1>8. CASE PollClose
  BY <1>8 DEF TypeOK, QueueInv, DataInv, PollClose, Uploading, Uniform
<1> QED
  BY <1>1, <1>2, <1>3, <1>4, <1>5, <1>6, <1>7, <1>8

(* The upload is queued behind nothing, from a buffer of one view.         *)
LEMMA BindKeeps ==
  ASSUME RInv, Bind
  PROVE  RInv'
<1> USE DEF Bind, gpuVars
<1>1. gpu = <<>> /\ gpu' = <<"upload", "draw">>
  BY Grows DEF RInv, QueueInv
<1>2. ~Uploading /\ Uploading'
  BY <1>1, Distinct DEF Uploading
<1>3. TypeOK'
  BY <1>1, Distinct, Lengths DEF RInv, TypeOK, QueueInv, DrawTails
<1>4. QueueInv'
  BY <1>1 DEF RInv, QueueInv, DrawTails
<1>5. DataInv'
  BY <1>2 DEF RInv, DataInv, Uniform
<1> QED
  BY <1>3, <1>4, <1>5 DEF RInv

(* The swap goes behind what is left of the frame, and not into the fence. *)
LEMMA HostSwapKeeps ==
  ASSUME RInv, Swap
  PROVE  RInv'
<1> USE DEF Swap, gpuVars
<1>1. /\ gpu \in DrawTails /\ fence = Len(gpu)
      /\ gpu' \in FrameTails \ {<<>>} /\ fence' = Len(gpu') - 1
      /\ Uploading' <=> Uploading
  <2>1. gpu \in DrawTails /\ fence = Len(gpu)
    BY DEF RInv, QueueInv
  <2>2. CASE gpu = <<>>
    BY <2>1, <2>2, Grows, Lengths, Distinct DEF FrameTails, Uploading
  <2>3. CASE gpu = <<"draw">>
    BY <2>1, <2>3, Grows, Lengths, Distinct DEF FrameTails, Uploading
  <2>4. CASE gpu = <<"upload", "draw">>
    BY <2>1, <2>4, Grows, Lengths, Distinct DEF FrameTails, Uploading
  <2> QED
    BY <2>1, <2>2, <2>3, <2>4 DEF DrawTails
<1>2. TypeOK'
  <2>1. gpu' \in Seq(Commands) /\ fence' = fence
    BY <1>1, Distinct
  <2>2. Len(gpu) \in Nat /\ Len(gpu') \in Nat
    BY <2>1 DEF RInv, TypeOK
  <2>3. fence' \in 0 .. Len(gpu')
    BY <1>1, <2>1, <2>2
  <2> QED
    BY <2>1, <2>3 DEF RInv, TypeOK
<1>3. QueueInv'
  BY <1>1 DEF RInv, QueueInv
<1>4. DataInv'
  BY <1>1 DEF RInv, DataInv, Uniform
<1> QED
  BY <1>2, <1>3, <1>4 DEF RInv

(* A frame that fails leaves a half drawn buffer, which nobody uploads.    *)
LEMMA AbandonKeeps ==
  ASSUME RInv, Abandon
  PROVE  RInv'
<1> USE DEF RInv, Abandon, gpuVars
<1>1. QueueInv'
  BY Distinct, Lengths DEF TypeOK, QueueInv, FrameTails, DrawTails
<1> QED
  BY <1>1 DEF TypeOK, DataInv, Uploading, Uniform

LEMMA RStep ==
  ASSUME RInv, Next \/ Abandon \/ UNCHANGED vars
  PROVE  RInv'
<1>1. CASE \E b \in Blocks : DrawBlock(b)
  BY <1>1, BlockKeeps
<1>2. CASE UpdateBegin \/ UpdateEnd \/ Lock \/ Wait \/ Relock \/ PollKey \/ PollEnd \/ PollClose
  BY <1>2, LoopKeeps
<1>3. CASE Bind
  BY <1>3, BindKeeps
<1>4. CASE Swap
  BY <1>4, HostSwapKeeps
<1>5. CASE \E b \in Blocks : GpuRead(b)
  BY <1>5, GpuReadKeeps
<1>6. CASE GpuUploaded \/ GpuDraw \/ GpuSwap
  BY <1>6, UploadedKeeps, DrawKeeps, SwapKeeps
<1>7. CASE Abandon
  BY <1>7, AbandonKeeps
<1>8. CASE Closed \/ UNCHANGED vars
  BY <1>8 DEF Closed, vars, hostVars, gpuVars, RInv, TypeOK, QueueInv, DataInv, Uploading, Uniform
<1> QED
  BY <1>1, <1>2, <1>3, <1>4, <1>5, <1>6, <1>7, <1>8 DEF Next, LoopStep, GpuStep

(* Every step of the window is one of the loop, gives the loop up, or      *)
(* leaves the buffer and the queue alone.                                  *)
LEMMA WindowStep ==
  ASSUME [WNext]_wvars
  PROVE  Next \/ Abandon \/ UNCHANGED vars
<1>1. CASE Setup
  BY <1>1 DEF Setup, GlfwFails, GlfwWindow, LoadGL, LoadFails, NoBufferStorage, CreateEnd,
     InitRenderTarget, InitScreen, ShaderMissing, ShaderOpen, ShaderRead, ShaderReadEnd, Compiled,
     NotCompiled, Linked, NotLinked, Exit, Abandon
<1>2. CASE WLoopStep
  BY <1>2 DEF WLoopStep, Next
<1>3. CASE WUser
  BY <1>3 DEF WUser, Next
<1>4. CASE WGpuStep
  BY <1>4 DEF WGpuStep, Next
<1>5. CASE FrameFails
  BY <1>5 DEF FrameFails, Exit, Abandon
<1>6. CASE DebugAbort
  BY <1>6 DEF DebugAbort, Abandon
<1>7. CASE Teardown
  BY <1>7 DEF Teardown, DestroyWindow, PboDestroy, SquadDestroy
<1>8. CASE Over \/ UNCHANGED wvars
  BY <1>8 DEF Over, wvars
<1> QED
  BY <1>1, <1>2, <1>3, <1>4, <1>5, <1>6, <1>7, <1>8 DEF WNext

(* The queue holds the tail of one frame, as long as the window is open.   *)
THEOREM QueueIsOneFrame == WSpec => []RInv
<1>1. WInit => RInv
  BY RInit, RenderAssumption DEF WInit
<1>2. RInv /\ [WNext]_wvars => RInv'
  BY RStep, WindowStep
<1> QED
  BY <1>1, <1>2, PTL DEF WSpec

(* No thread draws into the mapped buffer of ogl_pbo_update while the GPU  *)
(* may still read it.                                                      *)
THEOREM NoDrawingUnderUpload == WSpec => []BufferIsOurs
<1>1. RInv => BufferIsOurs
  <2> SUFFICES ASSUME RInv, pc = "draw" PROVE \A i \in DOMAIN gpu : gpu[i] # "upload"
    BY DEF BufferIsOurs
  <2>1. CASE gpu = <<>>
    BY <2>1
  <2>2. CASE gpu = <<"swap">>
    BY <2>2
  <2> QED
    BY <2>1, <2>2 DEF RInv, QueueInv
<1> QED
  BY <1>1, QueueIsOneFrame, PTL

(* What glfwSwapBuffers shows is a picture of one view.                    *)
THEOREM NoTornPicture == WSpec => []WholePicture
<1>1. RInv => WholePicture
  BY DEF RInv, DataInv, Uniform, WholePicture
<1> QED
  BY <1>1, QueueIsOneFrame, PTL

(* The commands queued for the GPU are never more than those of a frame.   *)
THEOREM LagIsBounded == WSpec => []OneFrameAhead
<1>1. RInv => OneFrameAhead
  <2> SUFFICES ASSUME RInv PROVE Len(gpu) <= 3
    BY DEF OneFrameAhead
  <2>1. gpu \in FrameTails \cup DrawTails
    BY DEF RInv, TypeOK, QueueInv, FrameTails, DrawTails
  <2>2. gpu \in {<<>>, <<"swap">>, <<"draw">>, <<"draw", "swap">>, <<"upload", "draw">>,
                 <<"upload", "draw", "swap">>}
    BY <2>1 DEF FrameTails, DrawTails
  <2>3. CASE gpu = <<>>
    BY <2>3, Lengths
  <2>4. CASE gpu = <<"swap">>
    BY <2>4, Lengths
  <2>5. CASE gpu = <<"draw">>
    BY <2>5, Lengths
  <2>6. CASE gpu = <<"draw", "swap">>
    BY <2>6, Lengths
  <2>7. CASE gpu = <<"upload", "draw">>
    BY <2>7, Lengths
  <2>8. CASE gpu = <<"upload", "draw", "swap">>
    BY <2>8, Lengths
  <2> QED
    BY <2>2, <2>3, <2>4, <2>5, <2>6, <2>7, <2>8
<1> QED
  BY <1>1, QueueIsOneFrame, PTL

-----------------------------------------------------------------------------
(* The calls of OpenGL.                                                    *)

(* What the program calls, but for the three functions of extensions.      *)
Core == Release!GL_1_0 \cup Release!GL_1_1 \cup Release!GL_1_3 \cup Release!GL_1_5
          \cup Release!GL_2_0 \cup Release!GL_3_0 \cup Release!GL_3_2

(* The driver for which a Debug build calls what it has not loaded.        *)
Untested ==
  /\ driver.build = "Debug"
  /\ "GL_ARB_debug_output" \in driver.exts /\ "GL_KHR_debug" \notin driver.exts

Screened == {"target", "open", "read", "compile", "link", "loop"}
Created == {"created"} \cup Screened
Opened == {"loaded"} \cup Created
Ended == {"teardown", "no buffer", "over"}

(* From the loader's return on everything the driver has is loaded; there  *)
(* is a context from the window's creation to its end.                     *)
CallInv ==
  /\ driver \in Drivers
  /\ stage \in {"start", "window", "exited", "aborted", "crashed"} \cup Opened \cup Ended
  /\ stage \in Opened \cup Ended => loaded = GladLoads
  /\ stage \in Created \cup Ended => "GL_ARB_buffer_storage" \in driver.exts
  /\ stage \in {"window"} \cup Opened => context = "current"
  /\ stage = "crashed" => Untested
  /\ CallsHaveContext

-----------------------------------------------------------------------------
(* A driver of version 3.2 has all the functions of Core.                  *)
LEMMA CoreLoaded ==
  ASSUME driver \in Drivers
  PROVE  Core \subseteq GladLoads
<1> DEFINE v == driver.version
<1>1. v[1] \in Nat /\ v[2] \in Nat /\ (v[1] > 3 \/ (v[1] = 3 /\ v[2] >= 2))
  BY WindowAssumption DEF WindowAssumption
<1>2. /\ Release!AtLeast(v, <<1, 0>>) /\ Release!AtLeast(v, <<1, 1>>) /\ Release!AtLeast(v, <<1, 3>>)
      /\ Release!AtLeast(v, <<1, 5>>) /\ Release!AtLeast(v, <<2, 0>>) /\ Release!AtLeast(v, <<3, 0>>)
      /\ Release!AtLeast(v, <<3, 2>>)
  BY <1>1 DEF Release!AtLeast
<1>3. /\ Debug!AtLeast(v, <<1, 0>>) /\ Debug!AtLeast(v, <<1, 1>>) /\ Debug!AtLeast(v, <<1, 3>>)
      /\ Debug!AtLeast(v, <<1, 5>>) /\ Debug!AtLeast(v, <<2, 0>>) /\ Debug!AtLeast(v, <<3, 0>>)
      /\ Debug!AtLeast(v, <<3, 2>>)
  BY <1>1 DEF Debug!AtLeast
<1>4. Core \subseteq Release!LoadCore(v)
  BY <1>2, Zenon DEF Core, Release!LoadCore, Release!If
<1>5. /\ Debug!GL_1_0 = Release!GL_1_0 /\ Debug!GL_1_1 = Release!GL_1_1
      /\ Debug!GL_1_3 = Release!GL_1_3 /\ Debug!GL_1_5 = Release!GL_1_5
      /\ Debug!GL_2_0 = Release!GL_2_0 /\ Debug!GL_3_0 = Release!GL_3_0
      /\ Debug!GL_3_2 = Release!GL_3_2
  BY DEF Debug!GL_1_0, Debug!GL_1_1, Debug!GL_1_3, Debug!GL_1_5, Debug!GL_2_0, Debug!GL_3_0, Debug!GL_3_2,
     Release!GL_1_0, Release!GL_1_1, Release!GL_1_3, Release!GL_1_5, Release!GL_2_0, Release!GL_3_0,
     Release!GL_3_2
<1>6. Core \subseteq Debug!LoadCore(v)
  BY <1>3, <1>5, Zenon DEF Core, Debug!LoadCore, Debug!If
<1> QED
  BY <1>4, <1>6, Zenon DEF GladLoads, Release!Loaded, Debug!Loaded

(* The functions the steps call, but for those of extensions.              *)
LEMMA CalledInCore ==
  /\ {"glGetError", "glGetString", "glEnable"} \subseteq Core
  /\ Release!LoaderCalls \subseteq Core /\ Debug!LoaderCalls \subseteq Core
  /\ {"glGenBuffers", "glBindBuffer", "glMapBufferRange", "glGenTextures", "glBindTexture",
      "glTexImage2D", "glTexParameteri"} \subseteq Core
  /\ {"glGenVertexArrays", "glBindVertexArray", "glGenBuffers", "glBindBuffer", "glBufferData"}
       \subseteq Core
  /\ CompileCalls \cup {"glDeleteShader"} \subseteq Core
  /\ LinkCalls \cup {"glIsShader", "glIsProgram", "glGetProgramInfoLog", "glGetUniformLocation"}
       \subseteq Core
  /\ {"glDeleteBuffers", "glDeleteTextures", "glDeleteProgram", "glDeleteVertexArrays"} \subseteq Core
  /\ LoopCalls \subseteq Core
<1> USE DEF Core, Release!GL_1_0, Release!GL_1_1, Release!GL_1_3, Release!GL_1_5, Release!GL_2_0,
        Release!GL_3_0, Release!GL_3_2
<1>1. {"glGetError", "glGetString", "glEnable"} \subseteq Core
  OBVIOUS
<1>2. Release!LoaderCalls \subseteq Core /\ Debug!LoaderCalls \subseteq Core
  BY DEF Release!LoaderCalls, Debug!LoaderCalls, Debug!Wrapped, Debug!PostCall, Debug!If
<1>3. {"glGenBuffers", "glBindBuffer", "glMapBufferRange", "glGenTextures", "glBindTexture",
       "glTexImage2D", "glTexParameteri"} \subseteq Core
  OBVIOUS
<1>4. {"glGenVertexArrays", "glBindVertexArray", "glGenBuffers", "glBindBuffer", "glBufferData"}
        \subseteq Core
  OBVIOUS
<1>5. CompileCalls \cup {"glDeleteShader"} \subseteq Core
  BY DEF CompileCalls
<1>6. LinkCalls \cup {"glIsShader", "glIsProgram", "glGetProgramInfoLog", "glGetUniformLocation"}
        \subseteq Core
  BY DEF LinkCalls
<1>7. {"glDeleteBuffers", "glDeleteTextures", "glDeleteProgram", "glDeleteVertexArrays"} \subseteq Core
  OBVIOUS
<1>8. LoopCalls \subseteq Core
  BY DEF LoopCalls, QuadCalls
<1> QED
  BY <1>1, <1>2, <1>3, <1>4, <1>5, <1>6, <1>7, <1>8

(* A call of functions that are loaded leads where it should.              *)
LEMMA CallSucceeds ==
  ASSUME NEW F, NEW next, "glGetError" \in loaded, F \subseteq loaded, Calling(F, next)
  PROVE  stage' = next
BY DEF Calling, Called, Debug!Wrapped, Debug!If, Debug!PostCall

(* From the loader's return to the end of the window every step that calls *)
(* functions of Core succeeds.                                             *)
LEMMA CoreCalls ==
  ASSUME CallInv, stage \in Opened \cup Ended
  PROVE  /\ Core \subseteq loaded
         /\ \A F \in SUBSET Core : \A next : Calling(F, next) => stage' = next
<1>1. loaded = GladLoads /\ driver \in Drivers
  BY DEF CallInv
<1>2. Core \subseteq loaded
  BY <1>1, CoreLoaded
<1>3. "glGetError" \in loaded
  BY <1>2, CalledInCore
<1> QED
  BY <1>2, <1>3, CallSucceeds

LEMMA CallInit == WInit => CallInv
BY DEF WInit, CallInv, CallsHaveContext, Opened, Created, Screened, Ended

(* GLFW and the loader.                                                    *)
LEMMA OpenKeeps ==
  ASSUME CallInv, GlfwFails \/ GlfwWindow \/ LoadGL \/ LoadFails \/ NoBufferStorage
  PROVE  CallInv'
<1> USE DEF Opened, Created, Screened, Ended, setupVars
<1>1. CASE GlfwFails \/ LoadFails \/ NoBufferStorage
  BY <1>1 DEF GlfwFails, LoadFails, NoBufferStorage, Exit, Quiet, CallInv, CallsHaveContext
<1>2. CASE GlfwWindow
  BY <1>2 DEF GlfwWindow, Quiet, CallInv, CallsHaveContext
<1>3. CASE LoadGL
  <2>1. loaded' = GladLoads /\ GladLoads' = GladLoads /\ driver' = driver /\ context' = context
    BY <1>3 DEF LoadGL, GladLoads, DebugBuild, Release!Loaded, Debug!Loaded
  <2>2. driver \in Drivers /\ context = "current"
    BY <1>3 DEF LoadGL, CallInv
  <2>3. call' \subseteq loaded'
    BY <1>3, <2>1, <2>2, CoreLoaded, CalledInCore DEF LoadGL
  <2>4. stage' = "loaded"
    BY <1>3, <2>3 DEF LoadGL
  <2> QED
    BY <2>1, <2>2, <2>4 DEF CallInv, CallsHaveContext
<1> QED
  BY <1>1, <1>2, <1>3

(* ogl_render_create's last calls, the only ones that may crash.           *)
LEMMA CreateKeeps ==
  ASSUME CallInv, CreateEnd
  PROVE  CallInv'
<1> USE DEF Opened, Created, Screened, Ended, setupVars
<1>1. /\ stage = "loaded" /\ "GL_ARB_buffer_storage" \in driver.exts
      /\ UNCHANGED <<driver, loaded, context>> /\ context = "current" /\ driver \in Drivers
      /\ loaded = GladLoads
  BY DEF CreateEnd, CallInv
<1>2. GladLoads' = GladLoads
  BY <1>1 DEF GladLoads, DebugBuild
<1>3. stage' \in {"created", "crashed"}
  BY DEF CreateEnd, Calling
<1>4. stage' = "crashed" => Untested
  <2>1. CASE ~DebugOutput
    <3>1. Calling({"glGetString", "glEnable"}, "created")
      BY <2>1, Zenon DEF CreateEnd
    <3>2. {"glGetString", "glEnable"} \in SUBSET Core
      BY CalledInCore
    <3> QED
      BY <1>1, <3>1, <3>2, CoreCalls
  <2>2. CASE DebugOutput /\ "GL_KHR_debug" \in driver.exts
    <3> DEFINE F == {"glGetString", "glEnable"} \cup {"glDebugMessageCallback", "glDebugMessageControl"}
    <3>1. Calling(F, "created")
      BY <2>2 DEF CreateEnd
    <3>2. Debug!GL_KHR_debug \subseteq loaded
      BY <1>1, <2>2, Zenon DEF GladLoads, DebugOutput, DebugBuild, Debug!Loaded, Debug!LoadExtensions, Debug!If
    <3>3. F \subseteq loaded /\ "glGetError" \in loaded
      BY <1>1, <3>2, CoreCalls, CalledInCore DEF Debug!GL_KHR_debug
    <3> HIDE DEF F
    <3> QED
      BY <3>1, <3>3, CallSucceeds
  <2> QED
    BY <2>1, <2>2 DEF DebugOutput, DebugBuild, Untested
<1> QED
  BY <1>1, <1>2, <1>3, <1>4 DEF CallInv, CallsHaveContext, Untested

(* A step between two stages with a context that calls functions of Core   *)
(* or none.                                                                *)
LEMMA StageKeeps ==
  ASSUME CallInv, UNCHANGED <<driver, loaded, context>>,
         stage \in Created, stage' \in Screened \cup {"exited"}
  PROVE  CallInv'
<1>1. GladLoads' = GladLoads
  BY DEF GladLoads, DebugBuild
<1>2. stage' = "exited" => context = "current"
  BY DEF CallInv, Opened
<1> QED
  BY <1>1, <1>2 DEF CallInv, CallsHaveContext, Opened, Created, Screened, Ended

LEMMA SetupKeeps ==
  ASSUME CallInv,
         InitRenderTarget \/ InitScreen \/ ShaderMissing \/ ShaderOpen \/ ShaderRead \/ ShaderReadEnd
           \/ Compiled \/ NotCompiled \/ Linked \/ NotLinked
  PROVE  CallInv'
<1> USE DEF Screened, Created, Opened, setupVars
<1>1. CASE InitRenderTarget
  <2> DEFINE F == {"glGenBuffers", "glBindBuffer", "glBufferStorage", "glMapBufferRange",
                   "glGenTextures", "glBindTexture", "glTexImage2D", "glTexParameteri"}
  <2>1. stage = "created" /\ Calling(F, "target") /\ UNCHANGED <<driver, loaded, context>>
    BY <1>1 DEF InitRenderTarget
  <2>2. "GL_ARB_buffer_storage" \in driver.exts /\ loaded = GladLoads /\ Core \subseteq loaded
    BY <2>1, CoreCalls DEF CallInv
  <2>3. "glBufferStorage" \in loaded
    <3>1. "glBufferStorage" \in Debug!LoadExtensions(driver.exts)
      BY <2>2, Zenon DEF Debug!LoadExtensions, Debug!If, Debug!GL_ARB_buffer_storage
    <3>2. "glBufferStorage" \in Release!LoadExtensions(driver.exts)
      BY <2>2, Zenon DEF Release!LoadExtensions, Release!If, Release!GL_ARB_buffer_storage
    <3> QED
      BY <2>2, <3>1, <3>2, Zenon DEF GladLoads, Debug!Loaded, Release!Loaded
  <2>4. F \subseteq loaded /\ "glGetError" \in loaded
    BY <2>2, <2>3, CalledInCore
  <2> HIDE DEF F
  <2>5. stage' = "target"
    BY <2>1, <2>4, CallSucceeds
  <2> QED
    BY <2>1, <2>5, StageKeeps
<1>2. CASE InitScreen
  <2> DEFINE F == {"glGenVertexArrays", "glBindVertexArray", "glGenBuffers", "glBindBuffer", "glBufferData"}
  <2>1. stage = "target" /\ Calling(F, "open") /\ UNCHANGED <<driver, loaded, context>>
    BY <1>2 DEF InitScreen
  <2>2. F \in SUBSET Core
    BY CalledInCore
  <2> HIDE DEF F
  <2>3. stage' = "open"
    BY <2>1, <2>2, CoreCalls
  <2> QED
    BY <2>1, <2>3, StageKeeps
<1>3. CASE ShaderMissing \/ ShaderOpen \/ ShaderRead \/ ShaderReadEnd
  <2>1. /\ stage \in {"open", "read"} /\ stage' \in {"exited", "read", "compile"}
        /\ UNCHANGED <<driver, loaded, context>>
    BY <1>3 DEF ShaderMissing, ShaderOpen, ShaderRead, ShaderReadEnd, Exit, Quiet
  <2> QED
    BY <2>1, StageKeeps
<1>4. CASE Compiled \/ NotCompiled
  <2> DEFINE G == CompileCalls \cup {"glDeleteShader"}
  <2>1. /\ stage = "compile" /\ UNCHANGED <<driver, loaded, context>>
        /\ \/ Calling(CompileCalls, IF shader = "vs" THEN "open" ELSE "link")
           \/ Calling(G, "exited")
    BY <1>4 DEF Compiled, NotCompiled
  <2>2. CompileCalls \in SUBSET Core /\ G \in SUBSET Core
    BY CalledInCore
  <2> HIDE DEF G
  <2>3. stage' \in {"open", "link", "exited"}
    BY <2>1, <2>2, CoreCalls
  <2> QED
    BY <2>1, <2>3, StageKeeps
<1>5. CASE Linked \/ NotLinked
  <2> DEFINE F == LinkCalls \cup {"glGetUniformLocation"}
  <2> DEFINE G == LinkCalls \cup {"glIsShader", "glIsProgram", "glGetProgramInfoLog", "glGetUniformLocation"}
  <2>1. /\ stage = "link" /\ UNCHANGED <<driver, loaded, context>>
        /\ Calling(F, "loop") \/ Calling(G, "exited")
    BY <1>5 DEF Linked, NotLinked
  <2>2. F \in SUBSET Core /\ G \in SUBSET Core
    BY CalledInCore
  <2> HIDE DEF F, G
  <2>3. stage' \in {"loop", "exited"}
    BY <2>1, <2>2, CoreCalls
  <2> QED
    BY <2>1, <2>3, StageKeeps
<1> QED
  BY <1>1, <1>2, <1>3, <1>4, <1>5

(* The loop, the user, the driver, and the ways out.                       *)
LEMMA UseKeeps ==
  ASSUME CallInv, WLoopStep \/ WUser \/ WGpuStep \/ FrameFails
  PROVE  CallInv'
<1> USE DEF Screened, Created, Opened, setupVars
<1>1. stage = "loop" /\ UNCHANGED <<driver, loaded, context>>
  BY DEF WLoopStep, WUser, WGpuStep, FrameFails
<1>2. stage' \in {"loop", "exited"}
  <2>1. CASE WLoopStep
    <3>1. Calling(LoopCalls, "loop")
      BY <2>1 DEF WLoopStep
    <3>2. LoopCalls \in SUBSET Core
      BY CalledInCore
    <3> QED
      BY <1>1, <3>1, <3>2, CoreCalls
  <2> QED
    BY <1>1, <2>1 DEF WUser, WGpuStep, FrameFails, Exit, Quiet
<1> QED
  BY <1>1, <1>2, StageKeeps

LEMMA EndKeeps ==
  ASSUME CallInv, DebugAbort \/ Teardown
  PROVE  CallInv'
<1> USE DEF Screened, Created, Opened, Ended, setupVars
<1>1. CASE DebugAbort
  BY <1>1 DEF DebugAbort, Quiet, CallInv, CallsHaveContext
<1>2. CASE DestroyWindow
  <2>1. GladLoads' = GladLoads
    BY <1>2 DEF DestroyWindow, GladLoads, DebugBuild
  <2> QED
    BY <1>2, <2>1 DEF DestroyWindow, Quiet, CallInv, CallsHaveContext
<1>3. CASE PboDestroy \/ SquadDestroy
  <2>1. GladLoads' = GladLoads /\ UNCHANGED <<driver, loaded, context>>
    BY <1>3 DEF PboDestroy, SquadDestroy, GladLoads, DebugBuild
  <2> DEFINE F == {"glDeleteBuffers", "glDeleteTextures"}
  <2> DEFINE G == {"glDeleteProgram", "glDeleteVertexArrays"}
  <2>2. stage \in Ended /\ (Calling(F, "no buffer") \/ Calling(G, "over"))
    BY <1>3 DEF PboDestroy, SquadDestroy
  <2>3. F \in SUBSET Core /\ G \in SUBSET Core
    BY CalledInCore
  <2> HIDE DEF F, G
  <2>4. stage' \in {"no buffer", "over"}
    BY <2>2, <2>3, CoreCalls
  <2> QED
    BY <2>1, <2>2, <2>4 DEF CallInv, CallsHaveContext
<1> QED
  BY <1>1, <1>2, <1>3 DEF Teardown

(* What is loaded and called at each stage, for every driver of version    *)
(* 3.2 or later: the inductive invariant of the window's calls.            *)
THEOREM CallsKeepTrack == WSpec => []CallInv
<1>1. WInit => CallInv
  BY CallInit
<1>2. CallInv /\ [WNext]_wvars => CallInv'
  <2> SUFFICES ASSUME CallInv, [WNext]_wvars PROVE CallInv'
    OBVIOUS
  <2>1. CASE Over \/ UNCHANGED wvars
    <3>1. UNCHANGED <<driver, loaded, context, stage, call>>
      BY <2>1 DEF Over, wvars, setupVars
    <3>2. GladLoads' = GladLoads
      BY <3>1 DEF GladLoads, DebugBuild
    <3> QED
      BY <3>1, <3>2 DEF CallInv, CallsHaveContext, Untested
  <2> QED
    BY <2>1, OpenKeeps, CreateKeeps, SetupKeeps, UseKeeps, EndKeeps DEF WNext, Setup
<1> QED
  BY <1>1, <1>2, PTL DEF WSpec

(* No call goes through a null pointer, but for those of GL_KHR_debug in a *)
(* Debug build whose driver has GL_ARB_debug_output only.                  *)
THEOREM PointersAreSet == WSpec => []CallsLoaded
<1>1. CallInv => CallsLoaded
  BY DEF CallInv, CallsLoaded, Untested
<1> QED
  BY <1>1, CallsKeepTrack, PTL

(* No function is called without a context, but for ogl_render_destroy's.  *)
THEOREM ContextIsThere == WSpec => []CallsHaveContext
<1>1. CallInv => CallsHaveContext
  BY DEF CallInv
<1> QED
  BY <1>1, CallsKeepTrack, PTL

-----------------------------------------------------------------------------
(* The pixel buffer, and the source of a shader.                           *)

SizeInv ==
  /\ width \in Nat
  /\ stage \in Screened => target = TargetWidth

(* As long as reads are full, what was read and the room for it are whole  *)
(* numbers of reads; a read that is not full was the last.                 *)
SourceInv ==
  /\ source \in [left : Nat, got : Nat, room : Nat, eof : BOOLEAN, bad : BOOLEAN]
  /\ stage = "read" =>
       /\ source.got <= source.room /\ source.room >= BUFSIZ
       /\ source.eof => source.bad \/ source.left = 0
       /\ ~source.eof => \E m, n \in Nat : source.got = m * BUFSIZ /\ source.room = n * BUFSIZ
  /\ ShaderWhole

LEMMA Multiples ==
  ASSUME NEW b \in Nat \ {0}, NEW m \in Nat, NEW n \in Nat
  PROVE  /\ m * b + b = (m + 1) * b /\ 2 * (m * b) = (2 * m) * b
         /\ m * b + b > n * b => m * b >= n * b
<1>1. m * b + b = (m + 1) * b /\ 2 * (m * b) = (2 * m) * b
  OBVIOUS
<1>2. CASE m >= n
  <2>1. (m - n) * b \in Nat /\ m * b = n * b + (m - n) * b
    BY <1>2
  <2> QED
    BY <1>1, <2>1
<1>3. CASE m < n
  <2>1. (n - m - 1) * b \in Nat /\ n * b = m * b + b + (n - m - 1) * b
    BY <1>3
  <2> QED
    BY <1>1, <2>1
<1> QED
  BY <1>2, <1>3

(* The steps that neither read a source nor make the pixel buffer.         *)
LEMMA OtherSteps ==
  ASSUME [WNext]_wvars
  PROVE  /\ width' = width
         /\ \/ ShaderOpen \/ ShaderRead \/ ShaderReadEnd
            \/ source' = source /\ (stage' \notin {"read", "compile"} \/ stage' = stage)
            \/ source' = NoSource /\ stage' \notin {"read", "compile"}
         /\ \/ InitRenderTarget
            \/ target' = target /\ (stage' \in Screened => stage \in Screened)
<1> USE DEF setupVars, Exit, Quiet, Calling, Screened
<1>1. CASE GlfwFails \/ GlfwWindow \/ LoadGL \/ LoadFails \/ NoBufferStorage \/ CreateEnd
  BY <1>1 DEF GlfwFails, GlfwWindow, LoadGL, LoadFails, NoBufferStorage, CreateEnd
<1>2. CASE InitRenderTarget \/ InitScreen \/ ShaderMissing
  BY <1>2 DEF InitRenderTarget, InitScreen, ShaderMissing
<1>3. CASE ShaderOpen \/ ShaderRead \/ ShaderReadEnd
  BY <1>3 DEF ShaderOpen, ShaderRead, ShaderReadEnd
<1>4. CASE Compiled \/ NotCompiled \/ Linked \/ NotLinked
  BY <1>4 DEF Compiled, NotCompiled, Linked, NotLinked
<1>5. CASE WLoopStep \/ WUser \/ WGpuStep \/ FrameFails \/ DebugAbort \/ Teardown
  BY <1>5 DEF WLoopStep, WUser, WGpuStep, FrameFails, DebugAbort, Teardown, DestroyWindow,
     PboDestroy, SquadDestroy
<1>6. CASE Over \/ UNCHANGED wvars
  BY <1>6 DEF Over, wvars
<1> QED
  BY <1>1, <1>2, <1>3, <1>4, <1>5, <1>6 DEF WNext, Setup

LEMMA SizeStep ==
  ASSUME SizeInv, [WNext]_wvars
  PROVE  SizeInv'
<1>1. width' = width /\ TargetWidth' = TargetWidth
  BY OtherSteps DEF TargetWidth
<1>2. CASE InitRenderTarget
  BY <1>1, <1>2 DEF InitRenderTarget, SizeInv
<1>3. CASE target' = target /\ (stage' \in Screened => stage \in Screened)
  BY <1>1, <1>3 DEF SizeInv
<1> QED
  BY <1>2, <1>3, OtherSteps

LEMMA ReadKeeps ==
  ASSUME SourceInv, ShaderRead
  PROVE  SourceInv'
<1>1. BUFSIZ \in Nat \ {0}
  BY WindowAssumption DEF WindowAssumption
<1>2. /\ stage = "read" /\ stage' = "read" /\ ~source.eof
      /\ source.left \in Nat /\ source.got \in Nat /\ source.room \in Nat
      /\ source.got <= source.room /\ source.room >= BUFSIZ
  BY DEF ShaderRead, Quiet, SourceInv
<1>3. PICK m, n \in Nat : source.got = m * BUFSIZ /\ source.room = n * BUFSIZ
  BY <1>2 DEF SourceInv
<1>4. PICK bad \in BOOLEAN :
        LET k == IF bad THEN 0 ELSE Lesser(BUFSIZ, source.left)
        IN source' = [left |-> source.left - k, got |-> source.got + k,
                      room |-> Grown(source), eof |-> k < BUFSIZ, bad |-> bad]
  BY DEF ShaderRead
<1> DEFINE k == IF bad THEN 0 ELSE Lesser(BUFSIZ, source.left)
<1>5. /\ k \in Nat /\ k <= BUFSIZ /\ k <= source.left
      /\ k < BUFSIZ => bad \/ k = source.left
  BY <1>1, <1>2 DEF Lesser
<1>6. source' = [left |-> source.left - k, got |-> source.got + k,
                 room |-> Grown(source), eof |-> k < BUFSIZ, bad |-> bad]
  BY <1>4
<1>7. /\ Grown(source) \in Nat /\ Grown(source) >= BUFSIZ
      /\ source.got + k <= Grown(source)
  BY <1>1, <1>2, <1>5 DEF Grown
<1>8. k = BUFSIZ => \E i, j \in Nat : source.got + k = i * BUFSIZ /\ Grown(source) = j * BUFSIZ
  <2> SUFFICES ASSUME k = BUFSIZ
               PROVE  \E i, j \in Nat : source.got + BUFSIZ = i * BUFSIZ /\ Grown(source) = j * BUFSIZ
    OBVIOUS
  <2>1. source.got + BUFSIZ = (m + 1) * BUFSIZ
    BY <1>1, <1>3, Multiples
  <2>2. 2 * source.room = (2 * n) * BUFSIZ
    BY <1>1, <1>3, Multiples
  <2>3. \E j \in Nat : Grown(source) = j * BUFSIZ
    BY <1>3, <2>2 DEF Grown
  <2> QED
    BY <2>1, <2>3
<1> HIDE DEF k
<1>9. /\ source'.left \in Nat /\ source'.got = source.got + k /\ source'.room = Grown(source)
      /\ source'.eof = (k < BUFSIZ) /\ source'.bad = bad /\ source'.left = source.left - k
      /\ source' \in [left : Nat, got : Nat, room : Nat, eof : BOOLEAN, bad : BOOLEAN]
  BY <1>2, <1>5, <1>6, <1>7
<1>10. /\ source'.got <= source'.room /\ source'.room >= BUFSIZ
       /\ source'.eof => source'.bad \/ source'.left = 0
  BY <1>2, <1>5, <1>7, <1>9
<1>11. ~source'.eof => \E i, j \in Nat : source'.got = i * BUFSIZ /\ source'.room = j * BUFSIZ
  <2>1. ~source'.eof => k = BUFSIZ
    BY <1>1, <1>5, <1>9
  <2> QED
    BY <1>8, <1>9, <2>1
<1> QED
  BY <1>2, <1>9, <1>10, <1>11 DEF SourceInv, ShaderWhole

LEMMA EndOfSource ==
  ASSUME SourceInv, ShaderReadEnd
  PROVE  SourceInv'
<1>1. BUFSIZ \in Nat \ {0} /\ SourceMax \in Nat
  BY WindowAssumption DEF WindowAssumption
<1>2. /\ stage = "read" /\ stage' = "compile" /\ (source.eof \/ Full(source))
      /\ source' = [source EXCEPT !.room = source.got + 1]
      /\ source \in [left : Nat, got : Nat, room : Nat, eof : BOOLEAN, bad : BOOLEAN]
  BY DEF ShaderReadEnd, Quiet, SourceInv
<1>3. /\ source'.left = source.left /\ source'.got = source.got /\ source'.room = source.got + 1
      /\ source'.bad = source.bad
      /\ source' \in [left : Nat, got : Nat, room : Nat, eof : BOOLEAN, bad : BOOLEAN]
  BY <1>2
<1>4. ~source.bad /\ source.left > 0 => source.got > SourceMax
  <2> SUFFICES ASSUME ~source.bad, source.left > 0 PROVE source.got > SourceMax
    OBVIOUS
  <2>1. ~source.eof /\ Full(source)
    BY <1>2 DEF SourceInv
  <2>2. PICK m, n \in Nat : source.got = m * BUFSIZ /\ source.room = n * BUFSIZ
    BY <1>2, <2>1 DEF SourceInv
  <2>3. source.got >= source.room
    BY <1>1, <2>1, <2>2, Multiples DEF Full
  <2> QED
    BY <1>1, <1>2, <2>1, <2>3 DEF Full
<1> QED
  BY <1>2, <1>3, <1>4 DEF SourceInv, ShaderWhole

LEMMA SourceStep ==
  ASSUME SourceInv, [WNext]_wvars
  PROVE  SourceInv'
<1>1. CASE ShaderOpen
  <2>1. BUFSIZ \in Nat \ {0} /\ SourceSizes \subseteq Nat
    BY WindowAssumption DEF WindowAssumption
  <2>2. PICK n \in SourceSizes : source' = [NoSource EXCEPT !.left = n, !.room = BUFSIZ]
    BY <1>1 DEF ShaderOpen
  <2>3. source' = [left |-> n, got |-> 0, room |-> BUFSIZ, eof |-> FALSE, bad |-> FALSE]
    BY <2>2 DEF NoSource
  <2>4. stage' = "read" /\ n \in Nat
    BY <1>1, <2>1 DEF ShaderOpen, Quiet
  <2>5. \E i, j \in Nat : 0 = i * BUFSIZ /\ BUFSIZ = j * BUFSIZ
    <3>1. 0 = 0 * BUFSIZ /\ BUFSIZ = 1 * BUFSIZ
      BY <2>1
    <3> QED
      BY <3>1
  <2> QED
    BY <2>1, <2>3, <2>4, <2>5 DEF SourceInv, ShaderWhole
<1>2. CASE ShaderRead \/ ShaderReadEnd
  BY <1>2, ReadKeeps, EndOfSource
<1>3. CASE source' = source /\ (stage' \notin {"read", "compile"} \/ stage' = stage)
  BY <1>3 DEF SourceInv, ShaderWhole
<1>4. CASE source' = NoSource /\ stage' \notin {"read", "compile"}
  BY <1>4 DEF SourceInv, ShaderWhole, NoSource
<1> QED
  BY <1>1, <1>2, <1>3, <1>4, OtherSteps

(* file_read_shader_source stays inside its buffer and cuts no source that *)
(* is not above the limit, whatever the sizes of buffer, limit and file.   *)
THEOREM SourceIsWhole == WSpec => []ShaderWhole
<1>1. WInit => SourceInv
  BY DEF WInit, SourceInv, ShaderWhole, NoSource
<1>2. SourceInv /\ [WNext]_wvars => SourceInv'
  BY SourceStep
<1>3. SourceInv => ShaderWhole
  BY DEF SourceInv
<1> QED
  BY <1>1, <1>2, <1>3, PTL DEF WSpec

(* For every size of the surface the pixel buffer holds it, texel for      *)
(* texel, exactly when its width is a multiple of eight.                   *)
THEOREM BufferHoldsSurface == WSpec => []BufferFits
<1>1. WInit => SizeInv
  BY WindowAssumption DEF WindowAssumption, WInit, SizeInv, Screened
<1>2. SizeInv /\ [WNext]_wvars => SizeInv'
  BY SizeStep
<1>3. SizeInv => BufferFits
  <2> SUFFICES ASSUME SizeInv, stage = "loop"
               PROVE  (/\ width * Height <= target * Height
                       /\ \A x \in 0 .. target - 1, y \in 0 .. Height - 1 : y * target + x = y * width + x)
                      <=> width % PBO_SIZE_MULTIPLIER = 0
    BY DEF BufferFits
  <2>1. width \in Nat /\ target = width - (width % 8) /\ Height \in Nat \ {0}
    BY WindowAssumption DEF WindowAssumption, SizeInv, Screened, TargetWidth, PBO_SIZE_MULTIPLIER
  <2>2. width % 8 \in Nat
    BY <2>1
  <2>3. CASE width % 8 = 0
    BY <2>1, <2>3 DEF PBO_SIZE_MULTIPLIER
  <2>4. CASE width % 8 # 0
    <3> DEFINE cut == width % 8
    <3>1. target \in Int /\ cut \in Nat \ {0} /\ width = target + cut
      BY <2>1, <2>2, <2>4
    <3> HIDE DEF cut
    <3>2. cut * Height \in Nat \ {0} /\ width * Height = target * Height + cut * Height
      BY <2>1, <3>1
    <3>3. target * Height \in Int
      BY <2>1, <3>1
    <3>4. ~(width * Height <= target * Height)
      BY <3>2, <3>3
    <3> QED
      BY <2>4, <3>4 DEF PBO_SIZE_MULTIPLIER
  <2> QED
    BY <2>3, <2>4
<1> QED
  BY <1>1, <1>2, <1>3, PTL DEF WSpec
=============================================================================
