-------------------------------- MODULE Keys --------------------------------
(***************************************************************************)
(* The keys of the window: key_callback of render/ogl_render.c takes some, *)
(* render_key_callback of app/render.c hands the rest to the kernel as     *)
(* events, and kernel_modules/mandelbrot/mdb_kernel_common.c changes the   *)
(* view.  All of it runs on the main thread, between frames.               *)
(***************************************************************************)
EXTENDS Integers

CONSTANTS Word,          \* one more than the largest uint32_t
          MaxBailout     \* bound: the user stops pressing [4] here

ASSUME KeysAssumption ==
  /\ Word \in Nat
  /\ MaxBailout \in 256 .. Word - 1024

VARIABLES bailout,       \* mdb.bailout
          place,         \* scale, shift_x and shift_y: a preset, or moved away from it
          exposure,      \* rend->exposure: as it was, or changed
          closing        \* glfwWindowShouldClose

vars == <<bailout, place, exposure, closing>>

Presets == {"F1", "F2", "F3", "F4"}
Moves == {"1", "2", "left", "right", "up", "down"}
KeySet == Presets \cup Moves \cup {"3", "4", "5", "6", "esc", "other"}
KeyActions == {"press", "repeat", "release"}

TypeOK ==
  /\ bailout \in 0 .. Word - 1
  /\ place \in Presets \cup {"moved"}
  /\ exposure \in {"initial", "changed"}
  /\ closing \in BOOLEAN

(* mdb_kernel_init, ogl_render_create: the view is the one of F2. *)
Init ==
  /\ bailout = 256
  /\ place = "F2"
  /\ exposure = "initial"
  /\ closing = FALSE

-----------------------------------------------------------------------------
(* The step by which a key changes the bailout: a table of (limit, step).  *)
Steps == <<<<256, 1>>, <<512, 2>>, <<1024, 4>>, <<2048, 8>>, <<4096, 32>>, <<8192, 128>>,
           <<16384, 256>>, <<Word, 512>>>>

bailout_get_mod_Mutant(b) ==                         \* without the test for 1
  Steps[CHOOSE i \in 1 .. 8 : b < Steps[i][1] /\ (i > 1 => b >= Steps[i - 1][1])][2]

bailout_get_mod(b) ==
  IF b = 1 THEN 0
  ELSE Steps[CHOOSE i \in 1 .. 8 : b < Steps[i][1] /\ (i > 1 => b >= Steps[i - 1][1])][2]

Decreased(b) == (b - bailout_get_mod(b)) % Word
Increased(b) == (b + bailout_get_mod(b)) % Word

(* What event_keyboard does with a key that is pressed or repeated.        *)
KernelKey(k) ==
  /\ bailout' = CASE k = "3" -> Decreased(bailout)
                  [] k = "4" -> Increased(bailout)
                  [] OTHER -> bailout
  /\ place' = IF k \in Presets THEN k ELSE IF k \in Moves THEN "moved" ELSE place

(* Escape closes the window, [5] and [6] are the exposure; whatever else   *)
(* happens to a key is the kernel's business.                              *)
WindowTakes(k, a) ==
  /\ ~closing
  /\ closing' = (k = "esc" /\ a = "press")
  /\ exposure' = IF k \in {"5", "6"} /\ a # "release" THEN "changed" ELSE exposure

(* A kernel whose handler is event_keyboard, which ignores a release.      *)
Key(k, a) ==
  /\ WindowTakes(k, a)
  /\ k = "4" => bailout < MaxBailout
  /\ IF a = "release" THEN UNCHANGED <<bailout, place>> ELSE KernelKey(k)

Closed == closing /\ UNCHANGED vars

Next == (\E k \in KeySet, a \in KeyActions : Key(k, a)) \/ Closed

Spec == Init /\ [][Next]_vars

-----------------------------------------------------------------------------
(* The bailout, an unsigned 32-bit number that the user decreases as often *)
(* as he likes from values off the grid of steps, neither reaches zero nor *)
(* wraps round: the kernels divide by it.                                  *)
BailoutPositive == bailout \in 1 .. MaxBailout + 512
=============================================================================
