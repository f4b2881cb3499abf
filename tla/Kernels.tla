------------------------------ MODULE Kernels -------------------------------
(***************************************************************************)
(* The kernels of kernel_modules/mandelbrot, loaded one at a time: how     *)
(* each counts the iterations of the points in a vector, where on the      *)
(* plane it puts a pixel, what the keys change in it, and, for the one in  *)
(* assembler, the registers it keeps over its call of surface_set_pixels.  *)
(*                                                                         *)
(* The arithmetic of one iteration is abstracted to what the loops look    *)
(* at: whether |z|^2 is below 4, is 4, or is above.  No point comes back   *)
(* from the circle |z| = 2 or from outside it, as |z^2 + c| >= |z| there,  *)
(* so that its orbit is two numbers.                                       *)
(***************************************************************************)
EXTENDS Keys, Sequences, FiniteSets

CONSTANTS Lanes,         \* the points of a vector
          Sizes,         \* widths and heights main may set
          Probed,        \* bound: bailouts at which a vector is computed
          Orbits(_),     \* bound: the orbits that are tried at a bailout
          Looked         \* bound: where on the plane a vector is computed

ASSUME KernelsAssumption ==
  /\ Lanes # {} /\ Probed \subseteq Nat \ {0}
  /\ Sizes \subseteq (Nat \ {0}) \X (Nat \ {0})
  /\ \A b \in Probed : Orbits(b) \subseteq [inside : Nat, circle : Nat]

VARIABLES kern,          \* the kernel in use
          size,          \* <<width, height>> that mdb_kernel_set_size was given
          xform,         \* asm: the size in v_transpose_* and v_offset_*
          pc,            \* "inited", "ready", and the steps of a vector
          orbit,         \* the points of the vector that is computed
          count,         \* the color of each, times the bailout
          regs,          \* asm: whose value each register holds
          stack,         \* asm: what was pushed, the last one last
          spill          \* asm: the vector registers in memory

view == <<bailout, place, exposure, closing>>
frame == <<regs, stack, spill>>
kvars == <<view, kern, size, xform, pc, orbit, count, frame>>

KernelNames == {"generic", "native", "native_vec", "avx2", "avx2_fma", "asm"}
NoSize == <<0, 0>>

-----------------------------------------------------------------------------
(* Counting.  Zone(o, i) is where iteration i takes the point o.           *)
Zone(o, i) ==
  IF i <= o.inside THEN "inside" ELSE IF i <= o.inside + o.circle THEN "circle" ELSE "outside"

First(S) == CHOOSE i \in S : \A j \in S : i <= j

(* The loop for one point: it stops when mag2 > 4.                         *)
GenericCount(o, b) == First({i \in 0 .. b : i = b \/ Zone(o, i + 1) = "outside"})

(* A mask of a vector: the points whose mag2 is below 4.                   *)
Mask(os, i) == {l \in Lanes : Zone(os[l], i) = "inside"}

AddMaskedMutant(os, i) == Lanes                      \* the add is not masked
AddMasked(os, i) == Mask(os, i)                      \* the points turn i counts
Added(os, turns) == [l \in Lanes |-> Cardinality({i \in 1 .. turns : l \in AddMasked(os, i)})]

(* The loop for a vector: it stops before it adds an empty mask.           *)
VectorCounts(os, b) == Added(os, First({i \in 0 .. b : i = b \/ Mask(os, i + 1) = {}}))

(* The loop of the assembler kernel tests at its end, and adds a mask      *)
(* before it looks whether it is empty.                                    *)
AsmCounts(os, b) == Added(os, First({i \in 1 .. b : i = b \/ Mask(os, i) = {}}))

(* A point that never left is black.                                       *)
BlackenMutant(v, b) == v
Blacken(v, b) == [l \in Lanes |-> IF v[l] = b THEN 0 ELSE v[l]]

GenericColors(os, b) == Blacken([l \in Lanes |-> GenericCount(os[l], b)], b)
NativeColors(os, b) == Blacken(VectorCounts(os, b), b)
NativeVecColors(os, b) == Blacken(VectorCounts(os, b), b)
Avx2Colors(os, b) == Blacken(VectorCounts(os, b), b)
FmaColors(os, b) == Blacken(VectorCounts(os, b), b)
AsmColors(os, b) == Blacken(AsmCounts(os, b), b)

Colors(os, b) ==
  CASE kern = "generic" -> GenericColors(os, b)
    [] kern = "native" -> NativeColors(os, b)
    [] kern = "native_vec" -> NativeVecColors(os, b)
    [] kern = "avx2" -> Avx2Colors(os, b)
    [] kern = "avx2_fma" -> FmaColors(os, b)
    [] kern = "asm" -> AsmColors(os, b)

-----------------------------------------------------------------------------
(* The point of a pixel, in multiples of the scale from the shift, as the  *)
(* fractions <<numerator, denominator>>.  The C kernels subtract the       *)
(* centre from x * width_r * aspect_ratio, that is from x over the height. *)
(* The assembler kernel subtracts it from x over the width and multiplies  *)
(* both by the aspect ratio, in factors that submit_changes prepared.      *)
CPoint(x, y) == [re |-> <<2 * x - size[2], 2 * size[2]>>, im |-> <<2 * y - size[2], 2 * size[2]>>]
AsmPoint(x, y) ==
  [re |-> <<2 * x - xform[1], 2 * xform[2]>>, im |-> <<2 * y - xform[2], 2 * xform[2]>>]

Point(x, y) == IF kern = "asm" THEN AsmPoint(x, y) ELSE CPoint(x, y)

-----------------------------------------------------------------------------
(* The registers of the assembler kernel.                                  *)
Vectors == {"ymm0", "ymm1", "ymm2", "ymm3", "ymm4", "ymm5", "ymm6", "ymm7",
            "ymm8", "ymm9", "ymm10", "ymm11", "ymm12", "ymm13", "ymm14", "ymm15"}
CalleeSaved == {"rbx", "rbp", "r12", "r13", "r14", "r15"}
Registers == Vectors \cup CalleeSaved \cup {"rax", "rcx", "rdx", "rsi", "rdi", "r8", "r9", "r10", "r11"}

(* What the rest of the loops reads after the call: x, x1, y, y1, bailout, *)
(* x_init, the frame pointer, v_cy, v_iter, v_offset_x, v_bound2, v_one    *)
(* and v_transpose_x.                                                      *)
LiveInLoop == {"rdi", "rsi", "rdx", "rcx", "r12", "r14", "rbp",
               "ymm0", "ymm9", "ymm10", "ymm11", "ymm12", "ymm13"}

PushedOnEntry == <<"rbp", "rbx", "r15", "r14", "r13", "r12", "r11">>
PoppedOnExitMutant == <<"r11", "r12", "r13", "r15", "r14", "rbx", "rbp">>    \* two swapped
PoppedOnExit == <<"r11", "r12", "r13", "r14", "r15", "rbx", "rbp">>
PushedForCall == <<"rdi", "rsi", "rdx", "rcx", "rbp">>
PoppedAfterCall == <<"rbp", "rcx", "rdx", "rsi", "rdi">>
SpilledForCall == {"ymm11", "ymm12", "ymm13", "ymm10", "ymm9", "ymm0", "ymm1"}

CallersRegisters == [r \in Registers |-> <<"caller", r>>]

Pushed(names) == stack \o [i \in DOMAIN names |-> regs[names[i]]]

(* names[1] is popped first.                                               *)
Popped(names) ==
  [r \in Registers |->
     IF \E i \in DOMAIN names : names[i] = r
     THEN stack[Len(stack) + 1 - (CHOOSE i \in DOMAIN names : names[i] = r)]
     ELSE regs[r]]

Shortened(names) == SubSeq(stack, 1, Len(stack) - Len(names))

-----------------------------------------------------------------------------
(* mdb_kernel_init has been called; that of the assembler kernel submits   *)
(* a view without a size.                                                  *)
KInit ==
  /\ Init
  /\ kern \in KernelNames
  /\ size = NoSize /\ xform = NoSize
  /\ pc = "inited"
  /\ orbit = [l \in Lanes |-> [inside |-> 0, circle |-> 0]] /\ count = [l \in Lanes |-> 0]
  /\ regs = CallersRegisters /\ stack = <<>> /\ spill = [r \in SpilledForCall |-> <<"none", r>>]

SubmittedMutant(s) == xform                          \* set_size does not submit
Submitted(s) == s

SetSize(s) ==
  /\ pc = "inited"
  /\ size' = s
  /\ xform' = IF kern = "asm" THEN Submitted(s) ELSE xform
  /\ pc' = "ready"
  /\ UNCHANGED <<view, kern, orbit, count, frame>>

(* The event handler of the assembler kernel does nothing.                 *)
AsmKey(k, a) == WindowTakes(k, a) /\ UNCHANGED <<bailout, place>>

PressKey(k, a) ==
  /\ pc = "ready"
  /\ IF kern = "asm" THEN AsmKey(k, a) ELSE Key(k, a)
  /\ UNCHANGED <<kern, size, xform, pc, orbit, count, frame>>

VectorsOf(b) == [Lanes -> Orbits(b)]

Compute ==
  /\ pc = "ready" /\ ~closing /\ bailout \in Probed /\ place \in Looked
  /\ orbit' \in VectorsOf(bailout)
  /\ count' = Colors(orbit', bailout)
  /\ UNCHANGED <<view, kern, size, xform>>

Process ==                       \* mdb_kernel_process_block of the C kernels
  /\ Compute /\ kern # "asm"
  /\ pc' = "stored"
  /\ UNCHANGED frame

AsmEnter ==                      \* the same in assembler: prologue, loads, counting
  /\ Compute /\ kern = "asm"
  /\ stack' = Pushed(PushedOnEntry)
  /\ regs' = [r \in Registers |-> IF r \in LiveInLoop \cup Vectors \cup {"r13"} THEN <<"loop", r>> ELSE regs[r]]
  /\ pc' = "counted"
  /\ UNCHANGED spill

AsmSpill ==                      \* before the call of surface_set_pixels
  /\ pc = "counted"
  /\ stack' = Pushed(PushedForCall)
  /\ spill' = [r \in SpilledForCall |-> regs[r]]
  /\ regs' = [regs EXCEPT !["rbp"] = <<"call", "rbp">>, !["rsi"] = <<"call", "rsi">>, !["rdi"] = <<"call", "rdi">>,
                          !["rcx"] = <<"call", "rcx">>, !["r8"] = <<"call", "r8">>]
  /\ pc' = "spilled"
  /\ UNCHANGED <<view, kern, size, xform, orbit, count>>

AsmStore ==                      \* the callee uses every register it may
  /\ pc = "spilled"
  /\ regs' = [r \in Registers |-> IF r \in CalleeSaved THEN regs[r] ELSE <<"callee", r>>]
  /\ pc' = "returned"
  /\ UNCHANGED <<view, kern, size, xform, orbit, count, stack, spill>>

AsmUnspill ==
  /\ pc = "returned"
  /\ regs' = [r \in Registers |-> IF r \in SpilledForCall THEN spill[r] ELSE Popped(PoppedAfterCall)[r]]
  /\ stack' = Shortened(PoppedAfterCall)
  /\ pc' = "advance"
  /\ UNCHANGED <<view, kern, size, xform, orbit, count, spill>>

AsmNext ==                       \* another vector of the tile
  /\ pc = "advance"
  /\ regs' = [r \in Registers |-> IF r \in (Vectors \ LiveInLoop) \cup {"r13"} THEN <<"loop", r>> ELSE regs[r]]
  /\ pc' = "counted"
  /\ UNCHANGED <<view, kern, size, xform, orbit, count, stack, spill>>

AsmLeave ==
  /\ pc = "advance"
  /\ regs' = Popped(PoppedOnExit)
  /\ stack' = Shortened(PoppedOnExit)
  /\ pc' = "stored"
  /\ UNCHANGED <<view, kern, size, xform, orbit, count, spill>>

Return ==
  /\ pc = "stored"
  /\ pc' = "ready"
  /\ orbit' = [l \in Lanes |-> [inside |-> 0, circle |-> 0]] /\ count' = [l \in Lanes |-> 0]
  /\ regs' = CallersRegisters /\ spill' = [r \in SpilledForCall |-> <<"none", r>>]
  /\ UNCHANGED <<view, kern, size, xform, stack>>

WindowClosed == closing /\ UNCHANGED kvars

KNext ==
  \/ \E s \in Sizes : SetSize(s)
  \/ \E k \in KeySet, a \in KeyActions : PressKey(k, a)
  \/ Process \/ AsmEnter \/ AsmSpill \/ AsmStore \/ AsmUnspill \/ AsmNext \/ AsmLeave
  \/ Return \/ WindowClosed

KSpec == KInit /\ [][KNext]_kvars

-----------------------------------------------------------------------------
(* Every kernel gives a point the color that the generic one gives it,     *)
(* whatever the other points of its vector do, except to points on the     *)
(* circle |z| = 2 itself: the generic kernel goes on with them and the     *)
(* others take them for points that left.  No color reaches 1.             *)
ColorsAgree ==
  pc = "stored" =>
    \A l \in Lanes :
      LET o == orbit[l]
          seen == IF kern = "generic" THEN o ELSE [o EXCEPT !.circle = 0]
          left == GenericCount(seen, bailout)
      IN count[l] = (IF left = bailout THEN 0 ELSE left) /\ count[l] < bailout

(* Every kernel computes a pixel at the same point of the plane, with the  *)
(* size of the surface and not with one it had cached before, except that  *)
(* the assembler kernel's picture is centred and the others' is not: they  *)
(* differ by half the difference of width and height.                      *)
PlanesAgree ==
  pc = "stored" =>
    \A x \in 0 .. size[1] - 1, y \in 0 .. size[2] - 1 :
      LET p == CPoint(x, y)
          off == IF kern = "asm" THEN size[2] - size[1] ELSE 0
      IN Point(x, y) = [p EXCEPT !.re = <<p.re[1] + off, p.re[2]>>]

(* surface_set_pixels, compiled from C, may change every register that the *)
(* ABI does not make it keep: the assembler's loops still find theirs, and *)
(* so does the caller in the end.                                          *)
RegistersKept ==
  /\ pc = "advance" => \A r \in LiveInLoop : regs[r] = <<"loop", r>>
  /\ pc = "stored" => (\A r \in CalleeSaved : regs[r] = <<"caller", r>>) /\ stack = <<>>
=============================================================================
