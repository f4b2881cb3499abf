# A TLA+ model of mdb

mdb draws the Mandelbrot set. `main` loads a *kernel* (a shared object with the
computation), starts a *scheduler* of one host thread and some worker threads, splits
the picture into tiles, and drives frames: as a benchmark, once into an HDR image, or
in an OpenGL window. This directory models what is hard to test in that program,
checks it with TLC on small instances, and proves the results that matter most with
TLAPS for every size.

## 1. The system

| part | sources | state | operations | model |
|---|---|---|---|---|
| scheduler: frames, workers | `sched/rsched.c`, `rsched_worker.[ch]` | per worker two atomics (`signal`, `state`) and a locked copy of the user's function and context; per scheduler the context | create, set context, yield (one frame), requeue, shutdown; a worker's loop | `Rsched`, `TaskFrames` |
| scheduler: queue | `sched/rsched_queue.[ch]` | task array, length, capacity, atomic counter | pop, requeue, resize, push, split, destroy | `Rsched` (pop, requeue), `TileQueue` (the rest) |
| scheduler: profiling | `sched/rsched_profile.[ch]`, `tools/timer.h` | three timers, their sums, extremes and a task count, of each thread | start, stop, what is printed of them | `Profile` |
| histograms | `tools/hist.c` | bins, two out-of-range counters | init, add | `Hist`, `Profile` |
| main and modes | `app/main.c`, `app/render.c` | what main holds | acquire, drive frames, release | `Program` |
| benchmark | `app/benchmark.c` | four atomics shared by the threads | fold in a block's time; summary | `BlockStats`, `Program` |
| kernel loader | `kernel/mdb_kernel.c`, `tools/cpu_features.c` | `state`, the handle | create, check features, init, destroy, forward | `Program`, `Kernels` |
| kernels: view | `mandelbrot/mdb_kernel_common.c` | bailout, scale, shift | init, keyboard event | `Keys`, `Kernels` |
| kernels: pixels | `mandelbrot/mdb_*.c`, `.asm` | the cached size and view, registers | process a block | `TileQueue` (which pixels), `Kernels` (which color, at which point) |
| kernel module support | `kernel_modules/*.[ch]` | a copy of the log's context | register the log | `Program` |
| window | `render/ogl_render.c`, `ogl_pixel_buffer.c`, `ogl_buffer_sync.c` | mapped buffer, fence, GPU queue, context | create, the render loop, key callback, destroy | `RenderLoop`, `Window`, `Keys` |
| shaders, screen quad | `render/ogl_shader.c`, `ogl_squad.c` | the source being read | read, compile, link, draw, destroy | `Window` |
| OpenGL loader | `render/glad_debug`, `render/glad_release` | the function pointers | load, the debug build's wrappers | `GladDebug`, `GladRelease` |
| surface | `surface/surface.[ch]` | buffer and its owner | create, set pixels, save, destroy | `Program`, `TileQueue`, `Oneshot` |
| argument parser | `tools/args_parser.[ch]`, `configure_rsched_options` | `struct arguments` | parse an option; make the scheduler's options | `Args` |
| HDR writer | `tools/image_hdr.c` | the scanline's indices, the file | write header, row, run, dump | `Oneshot` |
| logger | `tools/log.c` | its context, shared by pointer | init, write, shutdown | `Program` (the context's life) |
| small tools | `tools/` | none | timers, processor count, features | where they are used |
| build files | `CMakeLists.txt`, `config/` | - | - | not modelled |

How they interact. The host thread (main) is the only caller of the scheduler. A frame
is one call of `rsched_host_yield`: it sends `RS_SIG_START` to each worker's mailbox,
pops and executes tasks itself next to the workers, and then waits until each worker
says `RS_ST_WAITING`. The user's function, called by every thread, calls the kernel,
which writes pixels of the surface; in the benchmark it also folds the time into shared
atomics. With profiling every thread also keeps times and histograms of its own. In the
window the surface's memory is a buffer that the GPU reads: a fence
orders the two. Key callbacks run on the main thread between frames and change the
kernel's view without a lock; that is sound because no worker runs then.

What is hard: every thread races for the queue's counter; the mailbox protocol has a
state and a signal in two atomics; the context of a frame is copied to each worker;
the GPU runs behind the main thread; the OpenGL functions there are depend on the build
and the driver; any acquisition of main may fail.

What makes each part correct:

- scheduler: each task of a frame runs exactly once, with the current context; a frame
  ends only after the last task and does end; between frames no worker touches the
  queue or the user's data;
- queue: the tiles partition the picture; the array is large enough;
- profiling: every frame, task and payload is counted once, and what is printed as
  overhead is the time spent outside the payload; histograms: the right bin;
- benchmark: minimum, maximum, total and count are those of the blocks;
- main: what a frame needs is there, and stays until no thread is left; so does the log;
- kernels: a pixel's color depends neither on its tile nor on its neighbours in the
  vector, and hardly on the kernel; the bailout stays positive;
- window: the picture is never torn; what the user does becomes visible; every OpenGL
  function called is loaded, with a context; shaders are read whole;
- arguments: in range, the last option counts, each option reaches its consumer;
- HDR writer: a reader of the format gets back the surface, for every accepted size of
  encoded rows, and of plain ones as long as a row's offset fits an int.

## 2. Modules

    TaskFrames            what the scheduler promises, without threads
      ^ implements
    Rsched                the scheduler, one atomic access a step
      RschedInv           its inductive invariant
        RschedProofs      theorems
    Program               main, modes, loader, surface, log; INSTANCEs TaskFrames
      ProgramProofs       theorems
    TileQueue             rsched_create_tasks and the pixels a tile writes
      TileProofs          theorems
    BlockStats            the statistics of benchmark_proc_fun
      StatsProofs         theorems
    RenderLoop            the loop: mapped buffer, fence and GPU
      Window              creation, drivers, shaders, the loop's calls, the end;
                          INSTANCEs GladDebug and GladRelease
        WindowProofs      theorems about the loop, the calls, the buffer, the sources
    Keys                  key callbacks and the kernel's view
      Kernels             counting, points of the plane, the assembler's registers
        KernelProofs      theorems
    Hist                  perf_hist_init, perf_hist_add
      Profile             a thread's timers, each with a histogram
        ProfileProofs     theorems
    Args                  args_parse, configure_rsched_options
      Oneshot             surface_save_image_hdr of a picture of the parsed size
        OneshotProofs     theorems about the command line and about the file

`Program` is composed with the scheduler through its specification: it INSTANCEs
`TaskFrames`, which `Rsched` is checked and proved to implement. `Window` is the
program's window around `RenderLoop`, `Kernels` the kernels around the view of `Keys`,
`Profile` the thread around the histogram of `Hist`, `Oneshot` the picture of the
command line of `Args`: each extends the other and its steps include the other's.
`MCRsched`, `MCTileQueue`, `MCBlockStats`, `MCWindow`, `MCKernels`, `MCProfile` and
`MCOneshot` give constants their values. Definitions whose names end in `Mutant` are
plausible mistakes that each checked property has been seen to catch; no specification
uses them.

### Rsched

`pc[t]` is where thread `t` is. The host's values: `create` (the loop of
`rsched_create`), `ready` (between calls), `ctx` (the loop of
`update_workers_user_ctx`), `send` (`rsched_send_worker_sig`), `gsig`/`gst` (the two
loads of `rsched_get_worker_state`), `join`, `gone`, and, as for every thread,
`load`/`cas`/`exec` (`rsched_queue_pop` and the user's function). A worker: `wait`
(store `RS_ST_WAITING`), `recv` (`atomic_exchange` with `RS_SIG_LOCKED` while waiting),
`poll` (the same between tasks), `rel`, `go`, `cont`, `nul`, `int`, `exit` (the stores
of `RS_SIG_NONE`, each named for what comes next), `getctx`, `run`, `down`, `dead`.
`op` is the call the host is in, `hi` the index of its loop, `esig` the variable of
that name in `rsched_send_worker_sig`, which the model keeps over the turns of the loop
as the code does.

Abstractions, and why they are sound:

- Threads interleave (sequential consistency). The code uses acquire loads, release
  stores and read-modify-writes on x86, where each read-modify-write is a full fence
  and no store-then-load pair of plain accesses matters: a thread that waits for
  another does so for a value stored after what it then reads.
- `compare_exchange` is the weak form (`tools/atomic.h:11-13`), which on x86 does not
  fail without cause.
- A critical section of a worker's spinlock is one step.
- `queue->length`, a plain variable, is read in the step that reads or swaps the
  counter. Only the host writes it, between frames, when `FrameIsolation` says that no
  worker is in a pop.
- A task is its index. The element behind the last one, which a losing pop hands out,
  is slot `len`.
- `RS_SIG_INT` is in the mailbox's type and the worker's handler, but nothing sends it.
- `rsched_host_yield` without a user function returns MDB_FAIL and changes nothing: it
  is left out by a guard.
- When `pthread_create` fails, `rsched_create` calls `rsched_shutdown` itself and returns
  only after it; from there on `op` is `quit`, as it is when the program calls it
  (`CreateFailed` tells the two apart). This shutdown also joins threads that were never
  created: undefined, so the model lets the join return or end the
  process.

### TaskFrames

`Load`, `Rearm`, `Begin`, `Do`, `End`, `Quit`. A frame (`phase = "busy"`) runs each of
the `len` tasks once in any order and ends when all have run. The refinement maps
`phase` from `op` and drops the slot behind the queue from `runs`.

### Program

`pc` follows main and the calls it makes; `kernel`, `opens`, `closes`, `frees` are the
loader's structure, `dlopen`, `dlclose` and `free`; `sched`, `surf`, `ctx`, `log` what
main holds; `drawn` counts how often each block was drawn. `needs` is what the kernel
asks of the processor and `cpu` what that has. `Probed` is `cpu_check_features`, which
looks for AVX2 where FMA is asked for; `Provided` is the assumption of the sources that
a processor with the one has the other, and `FrameHasItsData` states it. After the
destroy in `mdb_kernel_create` for a missing feature the second destroy reads freed
memory: the model lets it close a second time or not, and lets `free` abort.
`rsched_create`'s failure gives the null pointer that the next call dereferences
(`crashed`). `rsched_host_yield` may fail in this model although `Rsched` shows that it
does not once a context is installed: the callers' handling is what is checked, and
the properties about whole pictures are stated for behaviours without such a failure
(`lost`). The window is its surface and its frames here; its inside is `Window`.

### TileQueue

`CreateTasks` sizes the array, `SplitTile`/`SplitNextRow`/`SplitDone` are the turns of
`rsched_split_task`, `Push` is `rsched_queue_push`, `Resize` is `rsched_queue_resize`
with its flags and `Destroy` the end. `GenericWrites`, `NativeWrites`, `AsmWrites`,
`Avx2Writes` and `FmaWrites` are the pixels that each kernel's own loops write, after
`surface_set_pixels` clips them: `x <= x1` one pixel or eight at a time, the same tested
after the step, and `x < x1` eight at a time in the two AVX2 kernels.

### BlockStats

A step per atomic access of `benchmark_proc_fun`: `pc[t]` is the loop thread `t` is in,
`seen[t]` what it last read. A measured time is at least 1 ns, so that 0 can mean "not
measured yet" in the history `blocks`.

### RenderLoop, Window

`RenderLoop` has the main thread's loop and, as a queue, the commands the GPU has not
finished; `fence` is how many of them the fence is behind. The upload reads the mapped
buffer block by block, as it is at that moment: that is what the fence must prevent
from racing with the drawing.

`Window` starts before it, at `glfwInit`, and ends behind it. `stage` is where the main
thread is outside the loop. `driver` is what GLFW finds: the build, the version and
the extensions. `loaded` is the set of functions the loader of that build fills in
(`GladDebug!Loaded`, `GladRelease!Loaded`; the tables name those the program, the
wrappers or the loader call), and every step of the main thread says in `call` which
functions it calls. In a Debug build each goes through a wrapper that asks for the
error afterwards (`Debug!Wrapped`). A call of a function that is not loaded leads to
`crashed`. `DebugAbort` is `openglCallbackFunction`, which the driver may call in any
step and which ends the program. A shader's source is read one `fread` at a time, and
any of them may fail. `WLoopStep` is RenderLoop's step with its calls. The size
callback is never installed (`ogl_render.c:176-177`) and not modelled.

### Keys, Kernels

`Keys` keeps the bailout as the unsigned number it is, and the floating-point view as
"the preset F1..F4, or moved". `Word` stands for 2^32.

`Kernels` puts one of the six kernels behind it (`kern`). The arithmetic of an iteration
is abstracted to what the loops look at, namely whether |z|^2 is below 4, is 4, or is
above (`Zone`). No point comes back: outside the circle |z| = 2, and on it,
|z^2 + c| >= |z|^2 - |c| >= |z| whenever |c| <= |z|, and c, being an iterate itself, is
not larger than the first that is not inside. (Rounding is not looked at.) So an orbit
is two numbers, how long it is inside and then on the circle. `GenericCount` is the loop
for one point; `VectorCounts` and `AsmCounts` those for a vector, with their masks and
with the test before or after the addition. `CPoint` and `AsmPoint` are where a pixel
lies on the plane, as fractions; `xform` is the size that the assembler kernel
computed its factors from. `AsmEnter` to `AsmLeave` follow the registers, the stack and
the spilled vectors over the call of `surface_set_pixels`, which may change everything
the ABI allows.

### Hist, Profile

`Hist` has a step per probe of the binary search. Linear bins are computed as in the
code, unsigned and with its integer division; exponential ones are any bins whose ends
rise from `min` to at most `max`, which is what exp and a truncation give.

`Profile` is one thread (no other touches its statistics): `at` is where it is between
`rsched_profile_start` and `_stop` of its three nested timers, `elapsed` what each
would read, `stat` their sums and extremes. A pop that finds no task leaves the loop
with the task's timer running (`PopNone`), a worker may find `RS_SIG_QUIT` after a task
(`Quit`). Each timer has a histogram; Hist's variables are the one of `watched`, which
is any of the three.

### Args, Oneshot

In `Args` a step is a call of `parse_opt` by argp. An option is a record of its key and
of what its argument is made of: a word, numbers, or a key=value list with the
characters between (`gap`); what strtol and strchr find in the text is abstracted to
that. `Strtol` refuses what does not fit a long and `ToInt` cuts to an int before any
range is looked at; times are multiplied modulo `Word`. An operator that refuses its
argument has no value (`ParseInt`, `Assigned`), and the program then leaves (`Leave`),
which also stands for `--kernel-list`. `SubOpts` and `ParseHist` read a list as the code
does: one character, whatever it is, is skipped behind the profile's name, and an item
without `=` swallows the next (`Swallowed`). A negative time wraps round, as `strtoul`
has it (`ParseU64`). Of keys and values a record also has the lengths, since both are
copied into buffers of 64 characters (`Room`) whatever their length is: an item that does
not fit (`Fits`), by itself or because it swallowed what stands before it (`KeyLen`), leads
to `overrun`, unless an earlier item ends the program; what happens on the overwritten
stack is undefined and not followed. Two builds meet here: `--rsched` exists with
`CONFIG_RSCHED_PROFILE` only (off in `config.cmake`), which the model assumes, and
`verbose` starts at 0, as with `NDEBUG`.

`Oneshot` extends `Args`: once the options are made, `pc` follows
`surface_save_image_hdr` through rows (`row`), components (`c`) and the indices `x` and
`r` of `stbiw__write_hdr_scanline`. The surface's rows hold any values. `base` is where in
the surface the current row is read: the product `comp * i * x` is an int, so that one
above `MaxInt` is undefined; the model takes what builds make of it (`RowBases`: the exact
product where it is made in the width of a pointer, or the one that wraps), and reads
anything there, or `crashed` when it is in front of the surface (`RowOutside`). `out` has the
bytes of the current row, with the length byte's wrap-around. Each write may fail, which
the code does not notice (`full`); the content of a broken file is dropped.
`Decoded` and `Pixel` are a reader of the format, written independently of the encoder.

## 3. Runs

| run | configuration | instance | states | shows |
|---|---|---|---|---|
| rsched | `MCRsched.cfg` | 2 workers and the host, up to 3 tasks, 2 contexts, creation may fail | 84,874 | `IInv` (with `TypeOK`), `FrameIsolation`, `ExactlyOnce`, `OverrunByOne`, `ContextFresh`, `ImplementsFrames`, `CallsReturn` |
| rsched_overrun | `MCRsched_overrun.cfg` | 1 worker, 2 tasks | - | a counterexample of `PopInRange` |
| rsched_lostquit | `MCRsched_lostquit.cfg` | 1 worker, 1 task | - | a counterexample of `ShutdownReturns` |
| tiles_cover | `MCTileQueue_cover.cfg` | widths 9..35, 3 heights, 6 x 2 block sizes, 8 lanes | 8,271 | `TilesPartition`, `InclusiveKernelsCover`, `Avx2MissesLastColumn`, `GrownInTime` |
| tiles_overflow | `MCTileQueue_overflow.cfg` | width 17, 18, block 16 | - | a counterexample of `PushInBounds` |
| stats | `MCBlockStats.cfg` | 2 threads, 3 blocks each, times 1..3 | 84,790 | `ExtremesExact`, `SummaryExact`, `BlocksEnd` |
| program | `Program.cfg` | pictures of 1..3 blocks, 1..2 runs, all modes, kernels and processors with each set of features | 9,051 | `FrameHasItsData`, `KernelOutlivesWorkers`, `LogAlive`, `RunsComplete`, `ImageWhole` |
| program_destroy | `Program_destroy.cfg` | the same | - | a counterexample of `ReleasedOnce` |
| window | `MCWindow.cfg` | 3 blocks, 3 changes of the view, 2 builds x 2 versions x 16 sets of extensions, 7 sizes of a shader | 134,032 | `BufferIsOurs`, `WholePicture`, `OneFrameAhead`, `CallsLoaded`, `CallsHaveContext`, `BufferFits`, `ShaderWhole`, `ViewShown` |
| kernels | `MCKernels.cfg` | 6 kernels, 2 points a vector, bailouts up to 18,432 (vectors at four of them), 2 sizes | 166,146 | `BailoutPositive`, `ColorsAgree`, `PlanesAgree`, `RegistersKept` |
| profile | `MCProfile.cfg` | 8 bins, 4 ranges, 2 tasks, 2 frames, linear and exponential | 844,085 | `SearchExact`, `AllCounted`, `OverheadExact`, `AddReturns` |
| oneshot | `MCOneshot.cfg` | command lines of one option or two that overlap, lists with items up to and beyond their buffers, bytes of 6 values, rows of 3 and 4 (encoded) and 5 columns (plain), 3 gray values | 769,751 | `LastOneCounts`, `HistsAsAsked`, `PrefixReadsBack`, `RowReadsBack`, `Ends` |

Each run takes at most two minutes with two workers. Deadlock is checked in all of
them; a model whose program ends says so by an action that changes nothing.

Bounds and why they are enough.

*rsched*: three threads make every race of a pop (a winner, a loser that retries, one
that overruns) and a worker that is late for a frame while another is finished; three
tasks and the slot behind them let one thread take two; two contexts show a stale one.
The number of frames is not bounded: `runs` is reset by the calls that give tasks out,
so the state space is finite. The proofs remove the other bounds.

*tiles_cover*: only the remainders of the divisions matter. The widths cover every
remainder of 8 (lanes) and of each block size, and a block wider than the surface.

*stats*: a race of the loops needs two threads, a third value to be overwritten and a
later block. *program*: two runs show one that is left out or repeated.

*window*: the GPU is at most one frame behind, so that three blocks and three views make
every mixture of an old picture, the one that is drawn and the one that is read. Drivers
are of version 3.2, the oldest that GLFW may give, or 4.6, with every set of the three
extensions that the code or the loader looks at and one that stands for all others. The
widths are a multiple of eight and one that is not. A shader's file is read four bytes at
a time (`BUFSIZ`) into a buffer that no longer doubles above 12 (`SourceMax`, 10 MB in
the code); the sizes are empty, below, at and above a read, at the two doublings, and
beyond the limit.

*kernels*: from a bailout of 18,432 on the step no longer changes. Vectors are computed at
1, 2, 5 and 256; orbits end right before, at and behind the bailout or at once, on the
circle or not. A mask relates a point to "any other", which a second point stands for.
The color does not depend on the place, so that vectors are computed at `Looked` only.

*profile*: eight bins are the fewest that the options accept. The ranges make bins of
width 2, 0 and 0, a remainder, and `min > max`, which wraps round (`Word` = 128). The
second task and frame show a timer or an entry left over from the first. `LogWidth` bounds
how far apart the ends of exponential bins are tried.

*oneshot*: a length byte says at most `Half` (a dump) or `Half - 1` (a run), here 3 and 2
instead of 128 and 127, so that rows of four columns need two dumps, two runs, or one
next to the other, at either end of the row; all rows of three gray values are tried, two
of which differ in the exponent only. Two options show every overlap of fields; 41 is
the number that becomes 5 in the model's `int`. That int's largest value is 17, so that of
the rows of five columns the first four have an offset that fits and the fifth (20) does
not. `Room` is the code's 64, with keys, values and joined keys of 63 and 64 characters. `MinSize` is above `RleMin` and `RleMax`
below `MaxSize`, as 512, 8, 32768 and 65535 are.

## 4. Fairness

`Rsched!Fairness`: weak fairness of the host's step inside a call and of each worker's
step: the threads are pthreads and the system schedules them. Strong fairness of
`HostSend` and `HostSeeQuiet`, the success of the host's two polling loops: each turn
yields the processor (`rsched_yield_cpu`), and the worker between two turns is not in
step with it for ever. No fairness for `HostCall`: the program need not call.
`BlockStats!LiveSpec`: weak fairness of each thread; the compare-and-swap loops need no
more, because each failure means that another thread made progress on finitely many
values. `Window!WLiveSpec`: the main loop runs and the driver makes progress on what
it was given (the wait flushes); nothing is assumed of the user, of the creation or of
the end. `Profile!LiveSpec` and `Oneshot!Spec`: `perf_hist_add` and the encoder run; they
wait for nobody.

## 5. What the runs found

Statements of the sources that the code does not keep, each with a counterexample:

1. `PopInRange`: two threads race for the last task; the loser's
   `cur` passes `length` by one and `tasks[length]` is handed to the user's function.
   `OverrunByOne`, proved, says that it is never more than that one element.
2. `ShutdownReturns`: `esig` is not reset after a failed compare-and-swap, so
   `RS_SIG_QUIT` can be stored over `RS_SIG_LOCKED`, and the worker's own unlock erases
   it. The same happens to `RS_SIG_START`, harmlessly: that worker misses the frame
   and the others do its work (`ImplementsFrames`, `CallsReturn`). The comment of
   `rsched_worker.h:99-101` says that such a send blocks. `rsched_create` can hang in the
   same way when a thread cannot be created, because it then shuts down the others:
   `CallsReturn` says that it returns if all threads are created, and otherwise only that
   it gets to that shutdown.
3. `PushInBounds`: the array is sized by area, the split rounds each side up, and an
   array of fewer than four elements is extended by a quarter, nothing.
   `GrownInTime` shows that four elements are enough for the growth to work.
4. `ReleasedOnce`: the loader destroys a kernel twice.

Also met while modelling, and stated in the positive or left to the text:

- *Scheduler.* When a thread cannot be created all slots of the array are joined
  (`rsched_worker.c:33`), with thread ids that nothing filled in for the one that failed
  and those behind it. By then the threads there are have ended (`ShutdownInv` of `IInv`,
  and the theorem `FreedAfterThreads`).
- *Kernels.* The AVX2 kernels never write the last column when the last tile's width is a
  multiple of eight (`Avx2MissesLastColumn`, exactly then). The generic kernel goes on with
  a point on |z| = 2, the others take it for one that left (`ColorsAgree` says so). The
  assembler kernel ignores every key, so that its bailout stays 256, and centres its
  picture, which the others do not (`PlanesAgree`). At a bailout of 1, where a step is
  zero, neither key changes it. Nothing bounds the view's scale: a float that underflows
  or overflows is not modelled.
- *Options.* `--bailout` is parsed and printed but never given to a kernel. A number of
  2^32 + 600 is accepted as 600 by `--width`, because it is cut before its range is checked
  (`args_parser.c:214`; `LastOneCounts` leaves such numbers out). The options of
  `payload_hist` are parsed and then replaced by those of `task_hist` (`main.c:201`;
  `HistsAsAsked` says so). The
  help names the profiles `hist_run` and so on (`args_parser.c:111`) while the parser
  compares with `run_hist` and exits at the documented names. A profile without a list is
  refused unless a character follows its name; whatever follows is skipped. An unknown key
  is passed over without a word and an item without `=` takes the next one with it, as long
  as the key has fewer than 64 characters; from there on it, and any value of that
  length, is copied past the end of its buffer (`args_parser.c:524-528`, `544-545`;
  `HistsAsAsked` is about lists that fit). An empty value counts as 0, a negative time
  wraps round (`strtoul`). `-s` has a case in
  `parse_opt` but is no option. `--quiet` promises no output (`args_parser.c:171`), but
  `LOG_SAY` and `PARAM_INFO` do not look at the level.
- *Keys.* [3]/[4] and [5]/[6] work opposite to the help printed by `render.c:24-25`.
- *Processor.* FMA is not looked for: a processor with AVX2 is taken to have it.
- *Window.* A Debug build looks for `GL_ARB_debug_output`, as `config.cmake:126` says it
  must, and then calls functions of `GL_KHR_debug`, which are null without that extension:
  `CallsLoaded` says that there is no other such call. The GL objects are deleted after the
  window, and with it the context, is gone (`CallsHaveContext`); the shaders, the quad's
  buffer and the last fence are never deleted, and `glfwTerminate` is called when the
  window cannot be created only. The pixel buffer is narrower than the surface unless the
  width is a multiple of eight, so that rows are askew and the last ones lie behind it
  (`BufferFits`, exactly then). A shader beyond 10 MB is cut without a word
  (`ShaderWhole`). The fence's wait does not end with a lost context.
- *Histograms and profile.* A linear histogram counts times between its last bin's end and
  `max` as above `max`, because `width / size` drops the remainder (`SearchExact` is about
  the bins' real ends). The task's statistics include the last pop, which finds none
  (`AllCounted`): the average divides their time too, and the printed minimal overhead
  compares the shortest pop with the shortest payload, which are rarely of the same task.
- *Benchmark.* The time of a block is divided by the number of threads in the average and
  the total, and not in the extremes, so that the average may lie below the minimum.
- *Image.* `data + comp * i * x` (`image_hdr.c:580`) is computed in int. In a picture of,
  say, 65535 by 40000, which the command line accepts, the product overflows from row
  32769 on, and what is written is read from elsewhere or nowhere. Encoded rows are not
  affected, since 32767 * 65534 fits, and `RowReadsBack` says of plain rows that they are
  the surface's as long as theirs does. A disk that is full while the image is written goes unnoticed
  (`image_hdr.c:228`), although `image_hdr.c:56` promises 0 on failure: `RowReadsBack` is
  about files whose writes succeeded.

## 6. Proofs

`tlapm` checks every step of the eight modules with theorems, in a few minutes
altogether. They assume nothing but the named assumptions on the constants, which TLC
evaluates in every run: `RschedAssumption`, `ProgramAssumption`, `TileAssumption`,
`StatsAssumption`, `RenderAssumption` and `WindowAssumption`, `KeysAssumption` and
`KernelsAssumption`, `HistAssumption` and `ProfileAssumption`, `ArgsAssumption` and
`OneshotAssumption`. These say that sizes are
natural numbers, positive where the command line requires it (a surface has more than one
column and row), that an int holds the offset of every row that is encoded (32767 * 65534
is below 2^31), that a driver is of the version `glfwWindowHint` asks for, that the time
the scheduler takes between its tasks stays below 2^64 ns altogether, that a command line
is a sequence of options and a surface's value has an exponent that fits a byte, and how
marks such as `NoCtx` and `Never` differ from values. One theorem has a hypothesis besides:
`RowsReadBack` holds if `NothingCut`, that is if each value of the surface is one that a
byte of mantissa can say. RGBE cuts any other one, so that no reader can get it back; that
the values of the run are such is an ASSUME of `MCOneshot`. `PrefixesReadBack`, which is
about the bytes and not about the values, holds without it.

| module | theorem | statement | argument |
|---|---|---|---|
| `RschedProofs` | `TypeCorrect` | `Spec => []TypeOK` | one step per action; a host loop keeps its index below `NWorkers` |
| | `InductiveInvariant` | `Spec => []IInv` | below |
| | `Isolation` | `[]FrameIsolation` | `CreateInv` and `IdleInv` |
| | `TasksRunOnce` | `[]ExactlyOnce` | `QueueInv` |
| | `CounterBound` | `[]OverrunByOne` | `QueueInv`: a thread in a compare-and-swap expects at most `len` |
| | `FreshContext` | `[]ContextFresh` | `ContextInv` |
| | `FreedAfterThreads` | `[]NoThreadLeft` | `ShutdownInv`: workers are created and joined in the order of the array |
| | `Refinement` | `Spec => ImplementsFrames` | each step maps to a step of TaskFrames or to none |
| `ProgramProofs` | `StagesKept` | `[]StageInv` | one step per action |
| | `DataInPlace`, `UnloadAfterJoin`, `LogOutlivesWriters` | `[]FrameHasItsData`, `[]KernelOutlivesWorkers`, `[]LogAlive` | `StageInv` |
| | `BenchmarkIsComplete` | `[]RunsComplete` | `RoundInv`, for any number of blocks and runs |
| | `PictureIsWhole` | `[]ImageWhole` | `SavedInv` |
| `TileProofs` | `TilesTyped` | `[]TypeOK` | the corners stay on the surface |
| | `SplitPartitions` | `[]TilesPartition` | `SplitInv`, for every surface and block size |
| | `ArrayGrowsInTime` | `[]GrownInTime` | `RoomInv` |
| | `InclusiveCover` | `[]InclusiveKernelsCover` | `SplitInv`, for every length of a vector too |
| | `LastColumnAtStake` | `[]Avx2MissesLastColumn` | `SplitInv` and `GridInv` |
| `StatsProofs` | `LoopsKeepTrack` | `[]StatsInv` | below |
| | `RacesLoseNoExtreme` | `[]ExtremesExact` | `LowInv`, `HighInv`, for any number of threads and blocks |
| | `NoAdditionLost` | `[]TallyInv` | below |
| | `SummaryIsExact` | `[]SummaryExact` | `StatsInv`, `TallyInv`: a mean lies between the extremes |
| `WindowProofs` | `QueueIsOneFrame` | `WSpec => []RInv` | below |
| | `NoDrawingUnderUpload`, `NoTornPicture`, `LagIsBounded` | `[]BufferIsOurs`, `[]WholePicture`, `[]OneFrameAhead` | `QueueInv`, `DataInv`, for any set of blocks and any drivers |
| | `CallsKeepTrack` | `[]CallInv` | below |
| | `PointersAreSet`, `ContextIsThere` | `[]CallsLoaded`, `[]CallsHaveContext` | `CallInv`, for any driver of version 3.2 or later |
| | `SourceIsWhole` | `[]ShaderWhole` | `SourceInv`, for all sizes of read, limit and file |
| | `BufferHoldsSurface` | `[]BufferFits` | `SizeInv`, for every width |
| `KernelProofs` | `BailoutStaysPositive` | `KSpec => []BailoutPositive` | `StepFits`: a step is smaller than what it is taken from |
| | `PixelsHaveOnePoint` | `[]PlanesAgree` | `PlaneInv`, for every size of the surface |
| | `RegistersComeBack` | `[]RegistersKept` | `RegInv` |
| | `KernelsAgree` | `[]ColorsAgree` | `ColorInv`, for every bailout, length of vector and orbits |
| `ProfileProofs` | `SearchFindsTheBin` | `[]SearchExact` | `SearchInv`, for every number of bins and every range |
| | `TimersKeepTrack` | `[]TimerInv` | below |
| | `OverheadIsExact` | `[]OverheadExact` | `TimerInv`, for any times and numbers of tasks and frames |
| | `NoEntryLost` | `[]AllCounted` | `TallyInv`, for histograms of every size |
| `OneshotProofs` | `LastOneWins` | `Spec => []LastOneCounts` | `ArgsInv`, for command lines of any length |
| | `HistsAreAsAsked` | `[]HistsAsAsked` | `HistsInv`, for lists of any length whose keys and values fit the buffers |
| | `PrefixesReadBack` | `[]PrefixReadsBack` | `SaveInv`, for rows of every width and content |
| | `RowsReadBack` | `NothingCut => (Spec => []RowReadsBack)` | `SaveInv`, `BaseInv`; plain rows as long as an int holds `i * width` |

The properties of `Window`, `Kernels`, `Profile` and `Oneshot` are proved of the composed
specifications, the ones the runs check, and not of the modules they extend.

*The inductive invariant of Rsched* (`RschedInv.tla`). None of the properties is
inductive: that no worker is in a pop when a frame ends depends on what its mailbox
held earlier. `ProtocolInv` lists, for each call of the host, the combinations of
`pc`, `signal` and `state` a worker can be in: `AtRest`, `Starting`, `InFrame`,
`Stopping`. The point is `InFrame`: `state = RS_ST_WAITING` with `signal = RS_SIG_NONE`
only when the worker is back in its waiting loop with no start on its way. A start
that replaced a lock keeps `signal` away from `RS_SIG_NONE` until the worker erases it,
so the host cannot mistake a worker that is about to run for one that rests: this is
why `rsched_get_worker_state` must look at the signal first. `ShutdownInv` follows the
destruction of the workers in the order of the array, also after a creation that failed:
those the host has passed are over and those that were never created are the last, so that
nothing is freed under a thread (`NoThreadLeft`). `QueueInv` says that below
the counter each slot has run or is in one thread's hands and that from the counter on
none has run; `ContextInv` follows the copies of the context. The proof first shows
that a worker's step disturbs only its own situation (`WorkerStepLocal`,
`WorkerStepKeeps`), so that each conjunct needs one case per host action and one for
all workers.

*The refinement*: `FramesStep` has a case per action. The hard one is the end of a
frame: `idx >= len` was seen by the host's last pop, all workers rest, so every slot
below `len` has run (`FrameDone`).

*Program*: `StageInv` says what main holds at each of its stages. To it `RoundInv` adds
that, unless a frame was lost, a block has been drawn `round` times, or once more if this
frame has drawn it; TaskFrames ends a frame only when each task has run.

*TileQueue*: while the loop stands at a corner, exactly the pixels it has passed (the rows
of tiles above and the part of this one to the left) are in a tile, and none is in two. A
tile more adds its own pixels to both sides. An array of at least four elements grows by
at least one. Every pixel is in a tile or beside one's right or lower edge
(`PixelHasTile`), which is what a kernel with inclusive bounds writes. For the AVX2
kernels `GridInv` adds that tiles begin at multiples of the block's width, so that the
last one of a row is as wide as the remainder of the division says, and any other one is
too far from the last column for its last vector to reach it when that one is missed.

*BlockStats*: the extreme cannot be inductive by itself, because a block is measured
before it is folded in. `LowInv` says that every block is above the minimum except the
latest one of a thread that has not passed the loop, and `WorkInv` that such a thread still
holds that block and stores only over something worse. The summary's `TallyInv` says
where the rest is: the count and the threads that have not added to it make the number of
measured blocks, and the total and what those threads hold make the sum of their times.

*Window*: whatever the driver does, what the GPU has left is the tail of one frame, upload,
draw, swap, and where the loop is decides which tail it can be (`QueueInv`). An upload is
in the queue only between `bind` and the end of the next wait, when nobody draws, and what
it reads is of one view (`DataInv`). The failures and the end of the window leave the loop
by a step that changes neither.

*The window's calls*: `CallInv` says that from the loader's return on exactly what the
driver has is loaded, that everything behind `ogl_pbo_create` has seen a driver with
`GL_ARB_buffer_storage`, and that there is a context from the window's creation to its
end. What each stage calls is then a matter of the loader's table for a version
(`CoreLoaded`).

*A shader's source*: the bytes read and the room for them are both multiples of `BUFSIZ`
as long as reads are full (`SourceInv`), so that a buffer that is not full has room for
one read more. Without this the loop could overrun by less than one read.

*Kernels*: `RegInv` says which of the loop's values lie on the stack, in the spilled
registers and in the callee's hands at each step of the call. A masked sum ends when no
point is inside; the number of the turn is the least of a set, and before it a point that
is inside has been counted at each turn, so that its count is the smaller one of its
orbit's length and the bailout (`MaskedCount`, `VectorTurns`), as it is in the loop for
one point (`GenericCounts`).

*Profile*: the bins below `l` end at or before the value and those above `r` begin behind
it (`SearchInv`), if the ends rise (`Sorted`), which they do unless `min` is above `max`;
then only the indices' range matters. For the overhead, `TotalsInv` balances the timers at
each place of the thread's loop: the tasks' total and the running task timer are the
payloads' and what lay outside; `MaximaInv` allows the longest payload to be within the
task that is still timed; `MeanInv` keeps the mean between the extremes. For the entries,
`TallyInv` says that the bins and the two counters of the watched histogram sum up to the
stops of its timer (`Stops`), less one while that one's search goes on.

*The command line* (`OneshotProofs`): `ArgsInv` says of the options that were parsed what
`LastOneCounts` says of all: each field has the value of the last of them that names it, or
the default. `Assigned` of an option that is accepted is one record (`ParsedNumber` and the
lemmas behind it), which is what `Meant` reads. `HistsInv` says the same of the histograms'
fields (`AskedUpTo`), where one option may set a field several times: `ParseHist` goes
through its list by position, and what it has set up to one is what the last key=value
before that says. In a list whose items are key=value and fit, no key is joined to another
one, so that none overruns its buffer (`CompleteFits`, `Overran`). A proof attempt of this was what found that a negative time, which wraps,
had not been left out of the property (`FitsWord`).

*The file*: `StandsFor(code, done)` says that a reader who has any bytes behind `code`
reads `done` and goes on behind `code`. Said so, a dump or a run more needs nothing of the
records before it (`OneMoreRecord`, `DumpRecord`, `RunRecord`). `SaveInv` says that what is
written of a row stands for the part of it that is behind the encoder (`Behind`), that a
run is of equal bytes, and where the indices are; that a length byte falls on its side of
`Half`, the lemmas of the records show. At the end of the row `Decoded` gives its components
one after the other, and a pixel of them is the surface's value, since the exponent of
`Rgbe` is the smallest that fits. `BaseInv` says that the row was read at one of the
places the product may give; those are one place when an int holds it (`NotCut`), which it
does for every encoded row (`Product`).

*Sums and recursive functions.* A sum over a set (`MapThenSumSet`) and a function that is
defined by recursion (`Decoded`, `ParseHist`) are reasoned about without the induction
theorems, whose operator parameters no prover here instantiates: `Least` picks the least
counterexample of a set of numbers, and the existence of such a function follows from that
of its restrictions to the first positions. So the sums' lemmas (`StatsProofs`,
`ProfileProofs`: an element more adds its value, a set of equal values) and the decoder's
hold for sets and sequences of every size.

Only model-checked: liveness (`CallsReturn`, `BlocksEnd`, `ViewShown`, `AddReturns`,
`Ends`), which is out of the prover's reach. Every invariant that a run checks is stated by
a theorem, and so is the refinement.

## 7. Plan

Done: every part of the table in section 1 but the build files; theorems for every
invariant of the runs.

What would add most: of `Program`, that the frames of `TaskFrames` and the blocks that it
counts are those of a scheduler's behaviour (today the composition rests on `Refinement`
and on the INSTANCE); of `TileQueue`, that the frames' tasks are the tiles; and a run with a
lost context, for which the code would first have to look at what `glClientWaitSync`
returns.

## 8. Not modelled

- The floating-point arithmetic of the kernels and of the view, and rounding.
- What is printed (`print_input_params`, `perf_hist_print`, the log's levels and layout), and
  the kernels' metadata query, whose result is only logged. A record of the log is
  written under one mutex that is locked and unlocked on its only path.
- `render_resize`, `resize_callback` and `ogl_pbo_resize`: the size callback is disabled
  (`ogl_render.c:176-177`). If it were not,
  `render_resize` would split the surface with `ctx.grain`, which `render_run` never sets.
- The branch for MinGW of `args_parser.c`, which parses nothing; argp itself is external.
- The setters and macros of `kernel_modules/` beyond the log's context; memory helpers;
  thread affinity, which has no effect on the order of steps.
- Of the vendored `image_hdr.c` the helpers of other image formats (lines 248-400), which
  nobody calls. Of the generated loaders (glad) the functions that the program does not
  call, and what a driver does with a lost context.
- The build files and `config/`.
