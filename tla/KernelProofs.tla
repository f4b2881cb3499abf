---------------------------- MODULE KernelProofs ----------------------------
(***************************************************************************)
(* The kernels: the bailout their keys change, the point of a pixel, the   *)
(* registers over the assembler kernel's call, and the colors counted.     *)
(***************************************************************************)
EXTENDS Kernels, SequenceTheorems, FiniteSetTheorems, WellFoundedInduction, TLAPS

(* A step is smaller than what it is taken from, and at most 512.          *)
LEMMA StepFits ==
  ASSUME NEW b \in Nat, b < Word, b >= 1
  PROVE  bailout_get_mod(b) \in 0 .. 512 /\ bailout_get_mod(b) < b
<1>1. CASE b = 1
  BY <1>1 DEF bailout_get_mod
<1>2. CASE b # 1
  <2> DEFINE Fits(i) == b < Steps[i][1] /\ (i > 1 => b >= Steps[i - 1][1])
  <2> DEFINE n == CHOOSE i \in 1 .. 8 : Fits(i)
  <2>1. \E i \in 1 .. 8 : Fits(i)
    <3>1. CASE b < 256
      BY <3>1 DEF Steps
    <3>2. CASE 256 <= b /\ b < 512
      BY <3>2 DEF Steps
    <3>3. CASE 512 <= b /\ b < 1024
      BY <3>3 DEF Steps
    <3>4. CASE 1024 <= b /\ b < 2048
      BY <3>4 DEF Steps
    <3>5. CASE 2048 <= b /\ b < 4096
      BY <3>5 DEF Steps
    <3>6. CASE 4096 <= b /\ b < 8192
      BY <3>6 DEF Steps
    <3>7. CASE 8192 <= b /\ b < 16384
      BY <3>7 DEF Steps
    <3>8. CASE 16384 <= b
      BY <3>8 DEF Steps
    <3> QED
      BY <3>1, <3>2, <3>3, <3>4, <3>5, <3>6, <3>7, <3>8
  <2>2. n \in 1 .. 8 /\ Fits(n)
    <3> HIDE DEF Fits
    <3> QED
      BY <2>1
  <2>3. \A i \in 1 .. 8 : Fits(i) => Steps[i][2] \in 1 .. 512 /\ Steps[i][2] < b
    <3> SUFFICES ASSUME NEW i \in 1 .. 8, Fits(i) PROVE Steps[i][2] \in 1 .. 512 /\ Steps[i][2] < b
      OBVIOUS
    <3>1. CASE i = 1
      BY <3>1, <1>2 DEF Steps
    <3>2. CASE i = 2
      BY <3>2 DEF Steps
    <3>3. CASE i = 3
      BY <3>3 DEF Steps
    <3>4. CASE i = 4
      BY <3>4 DEF Steps
    <3>5. CASE i = 5
      BY <3>5 DEF Steps
    <3>6. CASE i = 6
      BY <3>6 DEF Steps
    <3>7. CASE i = 7
      BY <3>7 DEF Steps
    <3>8. CASE i = 8
      BY <3>8 DEF Steps
    <3> QED
      BY <3>1, <3>2, <3>3, <3>4, <3>5, <3>6, <3>7, <3>8
  <2>4. Steps[n][2] \in 1 .. 512 /\ Steps[n][2] < b
    <3> HIDE DEF n, Fits
    <3> QED
      BY <2>2, <2>3
  <2>5. bailout_get_mod(b) = Steps[n][2]
    BY <1>2, Zenon DEF bailout_get_mod
  <2> HIDE DEF n, Fits
  <2> QED
    BY <2>4, <2>5
<1> QED
  BY <1>1, <1>2

LEMMA NoWrap ==
  ASSUME NEW a \in Nat, NEW w \in Nat, a < w
  PROVE  a % w = a
  OBVIOUS

LEMMA KeyKeeps ==
  ASSUME KeysAssumption, BailoutPositive, NEW k \in KeySet, NEW a \in KeyActions, Key(k, a)
  PROVE  BailoutPositive'
<1>1. /\ Word \in Nat /\ MaxBailout \in Nat /\ MaxBailout + 1024 <= Word
      /\ bailout \in Nat /\ bailout >= 1 /\ bailout <= MaxBailout + 512
  BY DEF KeysAssumption, BailoutPositive
<1> DEFINE step == bailout_get_mod(bailout)
<1>2. step \in 0 .. 512 /\ step < bailout
  BY <1>1, StepFits
<1>3. Decreased(bailout) = bailout - step
  <2>1. bailout - step \in Nat /\ bailout - step < Word
    BY <1>1, <1>2
  <2> QED
    BY <1>1, <2>1, NoWrap DEF Decreased
<1>4. k = "4" => bailout < MaxBailout /\ Increased(bailout) = bailout + step
  <2> SUFFICES ASSUME k = "4" PROVE bailout < MaxBailout /\ Increased(bailout) = bailout + step
    OBVIOUS
  <2>1. bailout < MaxBailout
    BY DEF Key
  <2>2. bailout + step \in Nat /\ bailout + step < Word
    BY <1>1, <1>2, <2>1
  <2> QED
    BY <1>1, <2>1, <2>2, NoWrap DEF Increased
<1>5. bailout' \in {bailout, Decreased(bailout)} \/ (k = "4" /\ bailout' = Increased(bailout))
  BY DEF Key, KernelKey
<1> QED
  BY <1>1, <1>2, <1>3, <1>4, <1>5 DEF BailoutPositive

(* Whatever keys are pressed for whatever kernel, bailout_get_mod steps    *)
(* neither to zero, by which the kernels divide, nor below it.             *)
THEOREM BailoutStaysPositive == KSpec => []BailoutPositive
<1>1. KInit => BailoutPositive
  BY KeysAssumption DEF KeysAssumption, KInit, Init, BailoutPositive
<1>2. BailoutPositive /\ [KNext]_kvars => BailoutPositive'
  <2> SUFFICES ASSUME BailoutPositive, [KNext]_kvars PROVE BailoutPositive'
    OBVIOUS
  <2>1. ASSUME NEW k \in KeySet, NEW a \in KeyActions, PressKey(k, a) PROVE BailoutPositive'
    BY <2>1, KeyKeeps, KeysAssumption DEF PressKey, AsmKey, BailoutPositive
  <2>2. ASSUME NEW s \in Sizes, SetSize(s) PROVE BailoutPositive'
    BY <2>2 DEF SetSize, view, BailoutPositive
  <2>3. CASE Process \/ AsmEnter \/ Return \/ WindowClosed \/ UNCHANGED kvars
    BY <2>3 DEF Process, AsmEnter, Compute, Return, WindowClosed, kvars, view, BailoutPositive
  <2>4. CASE AsmSpill \/ AsmStore \/ AsmUnspill \/ AsmNext \/ AsmLeave
    BY <2>4 DEF AsmSpill, AsmStore, AsmUnspill, AsmNext, AsmLeave, view, BailoutPositive
  <2> QED
    BY <2>1, <2>2, <2>3, <2>4 DEF KNext
<1> QED
  BY <1>1, <1>2, PTL DEF KSpec

-----------------------------------------------------------------------------
(* Where on the plane a pixel is computed.                                 *)
PlaneInv ==
  /\ kern \in KernelNames
  /\ pc # "inited" => size \in Sizes /\ (kern = "asm" => xform = size)

LEMMA PlaneStep ==
  ASSUME PlaneInv, [KNext]_kvars
  PROVE  PlaneInv'
<1> USE DEF PlaneInv
<1>1. ASSUME NEW k \in KeySet, NEW a \in KeyActions, PressKey(k, a) PROVE PlaneInv'
  BY <1>1 DEF PressKey
<1>2. ASSUME NEW s \in Sizes, SetSize(s) PROVE PlaneInv'
  BY <1>2 DEF SetSize, Submitted
<1>3. CASE Process \/ AsmEnter \/ Return \/ WindowClosed \/ UNCHANGED kvars
  BY <1>3 DEF Process, AsmEnter, Compute, Return, WindowClosed, kvars
<1>4. CASE AsmSpill \/ AsmStore \/ AsmUnspill \/ AsmNext \/ AsmLeave
  BY <1>4 DEF AsmSpill, AsmStore, AsmUnspill, AsmNext, AsmLeave
<1> QED
  BY <1>1, <1>2, <1>3, <1>4 DEF KNext

(* For every size of the surface the kernels agree on the point of a       *)
(* pixel, but for the assembler kernel's centre; none uses an older size.  *)
THEOREM PixelsHaveOnePoint == KSpec => []PlanesAgree
<1>1. KInit => PlaneInv
  BY DEF KInit, PlaneInv
<1>2. PlaneInv /\ [KNext]_kvars => PlaneInv'
  BY PlaneStep
<1>3. PlaneInv => PlanesAgree
  <2> SUFFICES ASSUME PlaneInv, pc = "stored", NEW x \in 0 .. size[1] - 1, NEW y \in 0 .. size[2] - 1
               PROVE  LET p == CPoint(x, y)
                          off == IF kern = "asm" THEN size[2] - size[1] ELSE 0
                      IN Point(x, y) = [p EXCEPT !.re = <<p.re[1] + off, p.re[2]>>]
    BY DEF PlanesAgree
  <2>1. size[1] \in Nat /\ size[2] \in Nat /\ x \in Int /\ y \in Int
    BY KernelsAssumption DEF KernelsAssumption, PlaneInv
  <2>2. CASE kern = "asm"
    <3>1. xform = size
      BY <2>2 DEF PlaneInv
    <3>2. 2 * x - size[2] + (size[2] - size[1]) = 2 * x - size[1]
      BY <2>1
    <3> QED
      BY <2>2, <3>1, <3>2 DEF Point, AsmPoint, CPoint
  <2>3. CASE kern # "asm"
    <3>1. 2 * x - size[2] + 0 = 2 * x - size[2]
      BY <2>1
    <3> QED
      BY <2>3, <3>1 DEF Point, CPoint
  <2> QED
    BY <2>2, <2>3
<1> QED
  BY <1>1, <1>2, <1>3, PTL DEF KSpec

-----------------------------------------------------------------------------
(* The registers of the assembler kernel.                                  *)
Values == {"caller", "loop", "call", "callee", "none"} \X Registers

(* The first seven of the stack are the caller's registers.                *)
Entered == \A i \in 1 .. 7 : stack[i] = <<"caller", PushedOnEntry[i]>>

Looping == \A r \in LiveInLoop : regs[r] = <<"loop", r>>

(* What the loops need over the call lies in memory, or in a register that *)
(* the callee keeps.                                                       *)
Calls ==
  /\ Len(stack) = 12
  /\ \A i \in 1 .. 5 : stack[7 + i] = <<"loop", PushedForCall[i]>>
  /\ \A r \in LiveInLoop \cap SpilledForCall : spill[r] = <<"loop", r>>
  /\ regs["r12"] = <<"loop", "r12">> /\ regs["r14"] = <<"loop", "r14">>

FrameTypes ==
  /\ regs \in [Registers -> Values] /\ stack \in Seq(Values) /\ spill \in [SpilledForCall -> Values]

RegInv ==
  /\ FrameTypes
  /\ pc \in {"inited", "ready", "counted", "spilled", "returned", "advance", "stored"}
  /\ pc \in {"inited", "ready"} => regs = CallersRegisters
  /\ pc \in {"inited", "ready", "stored"} => stack = <<>>
  /\ pc \in {"counted", "advance"} => Len(stack) = 7 /\ Entered /\ Looping
  /\ pc \in {"spilled", "returned"} => Entered /\ Calls
  /\ pc = "stored" => \A r \in CalleeSaved : regs[r] = <<"caller", r>>

LEMMA RegisterNames ==
  /\ LiveInLoop \subseteq Registers /\ CalleeSaved \subseteq Registers
  /\ SpilledForCall \subseteq Registers /\ Vectors \subseteq Registers
  /\ \A i \in 1 .. 7 : PushedOnEntry[i] \in Registers
  /\ \A i \in 1 .. 5 : PushedForCall[i] \in Registers /\ PushedForCall[i] \in LiveInLoop
  /\ DOMAIN PushedOnEntry = 1 .. 7 /\ DOMAIN PushedForCall = 1 .. 5
BY DEF LiveInLoop, Registers, Vectors, CalleeSaved, SpilledForCall, PushedOnEntry, PushedForCall

(* The pops are the pushes in the opposite order, and no register is       *)
(* popped twice.                                                           *)
LEMMA PopsMirrorPushes ==
  /\ DOMAIN PoppedOnExit = 1 .. 7 /\ DOMAIN PoppedAfterCall = 1 .. 5
  /\ Len(PoppedOnExit) = 7 /\ Len(PoppedAfterCall) = 5
  /\ \A i \in 1 .. 7 : PoppedOnExit[i] = PushedOnEntry[8 - i]
  /\ \A i \in 1 .. 5 : PoppedAfterCall[i] = PushedForCall[6 - i]
  /\ \A i, j \in 1 .. 7 : PoppedOnExit[i] = PoppedOnExit[j] => i = j
  /\ \A i, j \in 1 .. 5 : PoppedAfterCall[i] = PoppedAfterCall[j] => i = j
  /\ \A r \in CalleeSaved : \E i \in 1 .. 7 : PoppedOnExit[i] = r
  /\ \A r \in LiveInLoop \ SpilledForCall :
       r \in {"r12", "r14"} \/ \E i \in 1 .. 5 : PoppedAfterCall[i] = r
  /\ \A i \in 1 .. 5 : PoppedAfterCall[i] \notin {"r12", "r14"}
<1> USE DEF PoppedOnExit, PoppedAfterCall, PushedOnEntry, PushedForCall
<1>1. /\ DOMAIN PoppedOnExit = 1 .. 7 /\ DOMAIN PoppedAfterCall = 1 .. 5
      /\ Len(PoppedOnExit) = 7 /\ Len(PoppedAfterCall) = 5
  OBVIOUS
<1>2. \A i \in 1 .. 7 : PoppedOnExit[i] = PushedOnEntry[8 - i]
  OBVIOUS
<1>3. \A i \in 1 .. 5 : PoppedAfterCall[i] = PushedForCall[6 - i]
  OBVIOUS
<1>4. \A i, j \in 1 .. 7 : PoppedOnExit[i] = PoppedOnExit[j] => i = j
  OBVIOUS
<1>5. \A i, j \in 1 .. 5 : PoppedAfterCall[i] = PoppedAfterCall[j] => i = j
  OBVIOUS
<1>6. \A r \in CalleeSaved : \E i \in 1 .. 7 : PoppedOnExit[i] = r
  BY DEF CalleeSaved
<1>7. \A r \in LiveInLoop \ SpilledForCall :
        r \in {"r12", "r14"} \/ \E i \in 1 .. 5 : PoppedAfterCall[i] = r
  BY DEF LiveInLoop, SpilledForCall
<1>8. \A i \in 1 .. 5 : PoppedAfterCall[i] \notin {"r12", "r14"}
  OBVIOUS
<1> QED
  BY <1>1, <1>2, <1>3, <1>4, <1>5, <1>6, <1>7, <1>8

(* What a register holds after some were popped.                           *)
LEMMA PoppedValue ==
  ASSUME NEW names, \A i, j \in DOMAIN names : names[i] = names[j] => i = j
  PROVE  /\ \A i \in DOMAIN names :
              names[i] \in Registers => Popped(names)[names[i]] = stack[Len(stack) + 1 - i]
         /\ \A r \in Registers :
              (\A i \in DOMAIN names : names[i] # r) => Popped(names)[r] = regs[r]
<1>1. ASSUME NEW i \in DOMAIN names, names[i] \in Registers
      PROVE  Popped(names)[names[i]] = stack[Len(stack) + 1 - i]
  <2>1. (CHOOSE j \in DOMAIN names : names[j] = names[i]) = i
    OBVIOUS
  <2> QED
    BY <1>1, <2>1, Zenon DEF Popped
<1>2. ASSUME NEW r \in Registers, \A i \in DOMAIN names : names[i] # r
      PROVE  Popped(names)[r] = regs[r]
  BY <1>2, Zenon DEF Popped
<1> QED
  BY <1>1, <1>2

LEMMA EnterKeeps ==
  ASSUME RegInv, AsmEnter
  PROVE  RegInv'
<1> DEFINE t == [i \in 1 .. 7 |-> regs[PushedOnEntry[i]]]
<1>1. stack = <<>> /\ regs = CallersRegisters /\ pc' = "counted" /\ spill' = spill /\ FrameTypes
  BY DEF AsmEnter, Compute, RegInv
<1>2. stack' = stack \o t
  BY RegisterNames DEF AsmEnter, Pushed
<1>3. t \in Seq(Values) /\ Len(t) = 7
  BY <1>1, RegisterNames DEF FrameTypes
<1>4. stack' = t
  BY <1>1, <1>2, <1>3
<1>5. Len(stack)' = 7 /\ Entered'
  BY <1>1, <1>3, <1>4, RegisterNames DEF Entered, CallersRegisters
<1>6. regs' = [r \in Registers |-> IF r \in LiveInLoop \cup Vectors \cup {"r13"} THEN <<"loop", r>> ELSE regs[r]]
  BY DEF AsmEnter
<1>7. Looping'
  BY <1>6, RegisterNames DEF Looping
<1>8. regs' \in [Registers -> Values]
  BY <1>1, <1>6 DEF FrameTypes, Values
<1> QED
  BY <1>1, <1>3, <1>4, <1>5, <1>7, <1>8 DEF RegInv, FrameTypes

LEMMA SpillKeeps ==
  ASSUME RegInv, AsmSpill
  PROVE  RegInv'
<1> DEFINE t == [i \in 1 .. 5 |-> regs[PushedForCall[i]]]
<1>1. Len(stack) = 7 /\ Entered /\ Looping /\ pc' = "spilled" /\ FrameTypes
  BY DEF AsmSpill, RegInv
<1>2. stack' = stack \o t
  BY RegisterNames DEF AsmSpill, Pushed
<1>3. t \in Seq(Values) /\ Len(t) = 5 /\ stack \in Seq(Values)
  BY <1>1, RegisterNames DEF FrameTypes
<1>4. /\ stack' \in Seq(Values) /\ Len(stack') = 12
      /\ \A i \in 1 .. 12 : stack'[i] = IF i <= 7 THEN stack[i] ELSE t[i - 7]
  <2>1. Len(stack) = 7
    BY <1>1
  <2> HIDE DEF t
  <2>2. stack \o t \in Seq(Values) /\ Len(stack \o t) = Len(stack) + Len(t)
    BY <1>3, ConcatProperties
  <2>3. ASSUME NEW i \in 1 .. 12
        PROVE  (stack \o t)[i] = IF i <= 7 THEN stack[i] ELSE t[i - 7]
    <3>1. i \in 1 .. Len(stack) + Len(t)
      BY <1>3, <2>1
    <3>2. (stack \o t)[i] = IF i <= Len(stack) THEN stack[i] ELSE t[i - Len(stack)]
      BY <1>3, <3>1, ConcatProperties, Zenon
    <3> QED
      BY <2>1, <3>2, Zenon
  <2>4. Len(stack \o t) = 12
    BY <1>3, <2>1, <2>2
  <2> QED
    BY <1>2, <2>2, <2>3, <2>4, Zenon
<1>5. Entered'
  BY <1>1, <1>4 DEF Entered
<1>6. \A i \in 1 .. 5 : t[i] = <<"loop", PushedForCall[i]>>
  BY <1>1, RegisterNames DEF Looping
<1>7. \A i \in 1 .. 5 : stack'[7 + i] = <<"loop", PushedForCall[i]>>
  <2> SUFFICES ASSUME NEW i \in 1 .. 5 PROVE stack'[7 + i] = <<"loop", PushedForCall[i]>>
    OBVIOUS
  <2> HIDE DEF t
  <2>1. 7 + i \in 1 .. 12 /\ ~(7 + i <= 7) /\ (7 + i) - 7 = i
    OBVIOUS
  <2>2. stack'[7 + i] = t[i]
    BY <1>4, <2>1
  <2> QED
    BY <1>6, <2>2
<1>8. spill' = [r \in SpilledForCall |-> regs[r]]
  BY DEF AsmSpill
<1>9. /\ \A r \in LiveInLoop \cap SpilledForCall : spill'[r] = <<"loop", r>>
      /\ spill' \in [SpilledForCall -> Values]
  BY <1>1, <1>8, RegisterNames DEF Looping, FrameTypes
<1>10. regs' = [regs EXCEPT !["rbp"] = <<"call", "rbp">>, !["rsi"] = <<"call", "rsi">>, !["rdi"] = <<"call", "rdi">>,
                            !["rcx"] = <<"call", "rcx">>, !["r8"] = <<"call", "r8">>]
  BY DEF AsmSpill
<1>11. {"rbp", "rsi", "rdi", "rcx", "r8", "r12", "r14"} \subseteq Registers /\ {"r12", "r14"} \subseteq LiveInLoop
  BY DEF Registers, CalleeSaved, LiveInLoop
<1>12. regs' \in [Registers -> Values]
  BY <1>1, <1>10, <1>11 DEF FrameTypes, Values
<1>13. regs'["r12"] = <<"loop", "r12">> /\ regs'["r14"] = <<"loop", "r14">>
  BY <1>1, <1>10, <1>11 DEF FrameTypes, Looping
<1> QED
  BY <1>1, <1>4, <1>5, <1>7, <1>9, <1>12, <1>13 DEF RegInv, FrameTypes, Calls

LEMMA StoreKeeps ==
  ASSUME RegInv, AsmStore
  PROVE  RegInv'
<1>1. Entered /\ Calls /\ FrameTypes /\ pc' = "returned" /\ UNCHANGED <<stack, spill>>
  BY DEF AsmStore, RegInv
<1>2. regs' = [r \in Registers |-> IF r \in CalleeSaved THEN regs[r] ELSE <<"callee", r>>]
  BY DEF AsmStore
<1>3. {"r12", "r14"} \subseteq CalleeSaved
  BY DEF CalleeSaved
<1>4. regs' \in [Registers -> Values]
  BY <1>1, <1>2 DEF FrameTypes, Values
<1>5. regs'["r12"] = regs["r12"] /\ regs'["r14"] = regs["r14"]
  BY <1>2, <1>3, RegisterNames
<1>6. Entered' /\ Calls'
  BY <1>1, <1>5 DEF Entered, Calls
<1> QED
  BY <1>1, <1>4, <1>6 DEF RegInv, FrameTypes

LEMMA UnspillKeeps ==
  ASSUME RegInv, AsmUnspill
  PROVE  RegInv'
<1> DEFINE P == Popped(PoppedAfterCall)
<1>1. Entered /\ Calls /\ FrameTypes /\ pc' = "advance" /\ UNCHANGED spill
  BY DEF AsmUnspill, RegInv
<1>2. regs' = [r \in Registers |-> IF r \in SpilledForCall THEN spill[r] ELSE P[r]]
  BY DEF AsmUnspill
<1>3. /\ \A i \in 1 .. 5 : PoppedAfterCall[i] \in Registers => P[PoppedAfterCall[i]] = stack[13 - i]
      /\ \A r \in Registers : (\A i \in 1 .. 5 : PoppedAfterCall[i] # r) => P[r] = regs[r]
  <2>1. Len(stack) + 1 = 13
    BY <1>1 DEF Calls
  <2>2. \A i \in 1 .. 5 : Len(stack) + 1 - i = 13 - i
    BY <2>1
  <2> QED
    BY <2>2, PoppedValue, PopsMirrorPushes
<1>4. \A i \in 1 .. 5 : PoppedAfterCall[i] \in Registers /\ P[PoppedAfterCall[i]] = <<"loop", PoppedAfterCall[i]>>
  <2> SUFFICES ASSUME NEW i \in 1 .. 5
               PROVE  PoppedAfterCall[i] \in Registers /\ P[PoppedAfterCall[i]] = <<"loop", PoppedAfterCall[i]>>
    OBVIOUS
  <2>1. 6 - i \in 1 .. 5 /\ 7 + (6 - i) = 13 - i
    OBVIOUS
  <2>2. PoppedAfterCall[i] = PushedForCall[6 - i] /\ PoppedAfterCall[i] \in Registers
    BY <2>1, PopsMirrorPushes, RegisterNames
  <2>3. stack[13 - i] = <<"loop", PushedForCall[6 - i]>>
    <3>1. stack[7 + (6 - i)] = <<"loop", PushedForCall[6 - i]>>
      BY <1>1, <2>1 DEF Calls
    <3> QED
      BY <2>1, <3>1
  <2> HIDE DEF P
  <2> QED
    BY <1>3, <2>2, <2>3
<1> HIDE DEF P
<1>5. P["r12"] = <<"loop", "r12">> /\ P["r14"] = <<"loop", "r14">>
  <2>1. "r12" \in Registers /\ "r14" \in Registers
    BY DEF Registers, CalleeSaved
  <2>2. P["r12"] = regs["r12"] /\ P["r14"] = regs["r14"]
    BY <1>3, <2>1, PopsMirrorPushes
  <2> QED
    BY <1>1, <2>2 DEF Calls
<1>6. Looping'
  <2> SUFFICES ASSUME NEW r \in LiveInLoop PROVE regs'[r] = <<"loop", r>>
    BY DEF Looping
  <2>1. r \in Registers
    BY RegisterNames
  <2>2. CASE r \in SpilledForCall
    BY <1>1, <1>2, <2>1, <2>2 DEF Calls
  <2>3. CASE r \notin SpilledForCall
    <3>1. P[r] = <<"loop", r>>
      BY <1>4, <1>5, <2>3, PopsMirrorPushes
    <3> QED
      BY <1>2, <2>1, <2>3, <3>1
  <2> QED
    BY <2>2, <2>3
<1>7. /\ stack' \in Seq(Values) /\ Len(stack') = 7
      /\ \A i \in 1 .. 7 : stack'[i] = stack[i]
  <2>1. stack' = SubSeq(stack, 1, Len(stack) - Len(PoppedAfterCall))
    BY DEF AsmUnspill, Shortened
  <2>2. Len(stack) = 12 /\ Len(PoppedAfterCall) = 5
    BY <1>1, PopsMirrorPushes DEF Calls
  <2>3. stack' = SubSeq(stack, 1, 7)
    BY <2>1, <2>2
  <2>4. \A i \in 1 .. 7 : stack[i] \in Values
    <3> SUFFICES ASSUME NEW i \in 1 .. 7 PROVE stack[i] \in Values
      OBVIOUS
    <3>1. i \in 1 .. Len(stack) /\ stack \in Seq(Values)
      BY <1>1, <2>2 DEF FrameTypes
    <3> QED
      BY <3>1, ElementOfSeq, Zenon
  <2> QED
    BY <2>3, <2>4, SubSeqProperties
<1>8. Entered'
  BY <1>1, <1>7 DEF Entered
<1>9. regs' \in [Registers -> Values]
  <2> SUFFICES ASSUME NEW r \in Registers, r \notin SpilledForCall PROVE P[r] \in Values
    BY <1>1, <1>2 DEF FrameTypes
  <2>1. CASE \E i \in 1 .. 5 : PoppedAfterCall[i] = r
    BY <1>4, <2>1 DEF Values
  <2>2. CASE \A i \in 1 .. 5 : PoppedAfterCall[i] # r
    BY <1>1, <1>3, <2>2 DEF FrameTypes
  <2> QED
    BY <2>1, <2>2
<1> QED
  BY <1>1, <1>6, <1>7, <1>8, <1>9 DEF RegInv, FrameTypes

LEMMA NextKeeps ==
  ASSUME RegInv, AsmNext
  PROVE  RegInv'
<1>1. Len(stack) = 7 /\ Entered /\ Looping /\ FrameTypes /\ pc' = "counted" /\ UNCHANGED <<stack, spill>>
  BY DEF AsmNext, RegInv
<1>2. regs' = [r \in Registers |-> IF r \in (Vectors \ LiveInLoop) \cup {"r13"} THEN <<"loop", r>> ELSE regs[r]]
  BY DEF AsmNext
<1>3. regs' \in [Registers -> Values]
  BY <1>1, <1>2 DEF FrameTypes, Values
<1>4. Looping'
  BY <1>1, <1>2, RegisterNames DEF Looping
<1> QED
  BY <1>1, <1>3, <1>4 DEF RegInv, FrameTypes, Entered

LEMMA LeaveKeeps ==
  ASSUME RegInv, AsmLeave
  PROVE  RegInv'
<1> DEFINE P == Popped(PoppedOnExit)
<1>1. Len(stack) = 7 /\ Entered /\ FrameTypes /\ pc' = "stored" /\ UNCHANGED spill
  BY DEF AsmLeave, RegInv
<1>2. regs' = P
  BY DEF AsmLeave
<1>3. /\ \A i \in 1 .. 7 : PoppedOnExit[i] \in Registers => P[PoppedOnExit[i]] = stack[8 - i]
      /\ \A r \in Registers : (\A i \in 1 .. 7 : PoppedOnExit[i] # r) => P[r] = regs[r]
  <2>1. \A i \in 1 .. 7 : Len(stack) + 1 - i = 8 - i
    BY <1>1
  <2> QED
    BY <2>1, PoppedValue, PopsMirrorPushes
<1>4. \A i \in 1 .. 7 : PoppedOnExit[i] \in Registers /\ P[PoppedOnExit[i]] = <<"caller", PoppedOnExit[i]>>
  <2> SUFFICES ASSUME NEW i \in 1 .. 7
               PROVE  PoppedOnExit[i] \in Registers /\ P[PoppedOnExit[i]] = <<"caller", PoppedOnExit[i]>>
    OBVIOUS
  <2>1. 8 - i \in 1 .. 7
    OBVIOUS
  <2>2. PoppedOnExit[i] = PushedOnEntry[8 - i] /\ PoppedOnExit[i] \in Registers
    BY <2>1, PopsMirrorPushes, RegisterNames
  <2>3. stack[8 - i] = <<"caller", PushedOnEntry[8 - i]>>
    BY <1>1, <2>1 DEF Entered
  <2> HIDE DEF P
  <2> QED
    BY <1>3, <2>2, <2>3
<1>5. P = [r \in Registers |-> P[r]]
  BY DEF Popped
<1> HIDE DEF P
<1>6. regs' \in [Registers -> Values]
  <2> SUFFICES ASSUME NEW r \in Registers PROVE P[r] \in Values
    BY <1>2, <1>5
  <2>1. CASE \E i \in 1 .. 7 : PoppedOnExit[i] = r
    BY <1>4, <2>1 DEF Values
  <2>2. CASE \A i \in 1 .. 7 : PoppedOnExit[i] # r
    BY <1>1, <1>3, <2>2 DEF FrameTypes
  <2> QED
    BY <2>1, <2>2
<1>7. \A r \in CalleeSaved : regs'[r] = <<"caller", r>>
  BY <1>2, <1>4, PopsMirrorPushes
<1>8. stack' = <<>>
  <2>1. stack' = SubSeq(stack, 1, Len(stack) - Len(PoppedOnExit))
    BY DEF AsmLeave, Shortened
  <2>2. stack' = SubSeq(stack, 1, 0)
    BY <1>1, <2>1, PopsMirrorPushes
  <2> QED
    BY <2>2, SubSeqEmpty
<1> QED
  BY <1>1, <1>6, <1>7, <1>8 DEF RegInv, FrameTypes

LEMMA FrameKeeps ==
  ASSUME RegInv, Process \/ Return \/ WindowClosed \/ UNCHANGED kvars
           \/ (\E s \in Sizes : SetSize(s)) \/ (\E k \in KeySet, a \in KeyActions : PressKey(k, a))
  PROVE  RegInv'
<1> USE DEF RegInv, FrameTypes
<1>1. CASE Process
  <2>1. pc = "ready" /\ pc' = "stored" /\ UNCHANGED <<regs, stack, spill>>
    BY <1>1 DEF Process, Compute, frame
  <2> QED
    BY <2>1, RegisterNames DEF CallersRegisters
<1>2. CASE Return
  <2>1. /\ pc = "stored" /\ pc' = "ready" /\ regs' = CallersRegisters /\ stack' = stack
        /\ spill' = [r \in SpilledForCall |-> <<"none", r>>]
    BY <1>2 DEF Return
  <2> QED
    BY <2>1, RegisterNames DEF CallersRegisters, Values
<1>3. CASE WindowClosed \/ UNCHANGED kvars
  BY <1>3 DEF WindowClosed, kvars, frame, Entered, Looping, Calls
<1>4. CASE (\E s \in Sizes : SetSize(s)) \/ (\E k \in KeySet, a \in KeyActions : PressKey(k, a))
  <2>1. pc \in {"inited", "ready"} /\ pc' = "ready" /\ UNCHANGED <<regs, stack, spill>>
    BY <1>4 DEF SetSize, PressKey, frame
  <2> QED
    BY <2>1
<1> QED
  BY <1>1, <1>2, <1>3, <1>4

(* Over the call of surface_set_pixels the assembler kernel's loops keep   *)
(* their registers, and its caller gets back its own and its stack.        *)
THEOREM RegistersComeBack == KSpec => []RegistersKept
<1>1. KInit => RegInv
  BY RegisterNames, EmptySeq DEF KInit, RegInv, FrameTypes, CallersRegisters, Values
<1>2. RegInv /\ [KNext]_kvars => RegInv'
  BY EnterKeeps, SpillKeeps, StoreKeeps, UnspillKeeps, NextKeeps, LeaveKeeps, FrameKeeps DEF KNext
<1>3. RegInv => RegistersKept
  BY DEF RegInv, Looping, RegistersKept
<1> QED
  BY <1>1, <1>2, <1>3, PTL DEF KSpec

-----------------------------------------------------------------------------
(* Colors.                                                                 *)
OrbitPoints == [inside : Nat, circle : Nat]

LEMMA FirstIsLeast ==
  ASSUME NEW S, S \subseteq Nat, S # {}
  PROVE  First(S) \in S /\ \A j \in S : First(S) <= j
<1> DEFINE R == OpToRel(<, Nat)
<1>1. IsWellFoundedOn(R, Nat)
  BY NatLessThanWellFounded
<1>2. \A x, y \in Nat : x < y => <<x, y>> \in R
  BY DEF OpToRel
<1> HIDE DEF R
<1>3. PICK i \in S : \A j \in S : <<j, i>> \notin R
  <2>1. \E x \in S : \A y \in S : ~ (<<y, x>> \in R)
    BY <1>1, WFMin
  <2> QED
    BY <2>1, Zenon
<1>4. \A j \in S : i <= j
  <2> TAKE j \in S
  <2>1. ~ (j < i)
    BY <1>2, <1>3
  <2> QED
    BY <2>1
<1> QED
  BY <1>4, Zenon DEF First

(* A point is inside as long as its orbit says.                            *)
LEMMA Zones ==
  ASSUME NEW o \in OrbitPoints, NEW i \in Nat
  PROVE  /\ Zone(o, i) = "inside" <=> i <= o.inside
         /\ Zone(o, i) = "outside" <=> i > o.inside + o.circle
BY DEF Zone, OrbitPoints

(* The loop for one point counts the turns inside and on the circle.       *)
LEMMA GenericCounts ==
  ASSUME NEW o \in OrbitPoints, NEW b \in Nat
  PROVE  GenericCount(o, b) \in 0 .. b
         /\ GenericCount(o, b) = IF o.inside + o.circle <= b THEN o.inside + o.circle ELSE b
<1> DEFINE S == {i \in 0 .. b : i = b \/ Zone(o, i + 1) = "outside"}
<1> DEFINE f == First(S)
<1>1. o.inside \in Nat /\ o.circle \in Nat
  BY DEF OrbitPoints
<1>2. S \subseteq Nat /\ b \in S
  OBVIOUS
<1>3. f \in S /\ \A j \in S : f <= j
  <2> HIDE DEF S
  <2> QED
    BY <1>2, FirstIsLeast
<1>4. \A i \in 0 .. b : i \in S <=> (i = b \/ i + 1 > o.inside + o.circle)
  <2> SUFFICES ASSUME NEW i \in 0 .. b
               PROVE  Zone(o, i + 1) = "outside" <=> i + 1 > o.inside + o.circle
    OBVIOUS
  <2>1. i + 1 \in Nat
    OBVIOUS
  <2> QED
    BY <2>1, Zones
<1>5. f \in 0 .. b
  BY <1>3
<1> HIDE DEF f
<1>6. f = b \/ f + 1 > o.inside + o.circle
  BY <1>3, <1>4, <1>5
<1>7. o.inside + o.circle <= b => o.inside + o.circle \in S
  BY <1>1, <1>4
<1> HIDE DEF S
<1>8. f = IF o.inside + o.circle <= b THEN o.inside + o.circle ELSE b
  BY <1>1, <1>3, <1>5, <1>6, <1>7
<1>9. GenericCount(o, b) = f
  BY DEF GenericCount, f, S
<1> QED
  BY <1>5, <1>8, <1>9

(* A masked sum counts a point's turns inside, whatever the others do, if  *)
(* the loop does not end while it is inside.                               *)
LEMMA MaskedCount ==
  ASSUME NEW os \in [Lanes -> OrbitPoints], NEW l \in Lanes, NEW b \in Nat, NEW turns \in 0 .. b,
         turns = b \/ os[l].inside <= turns
  PROVE  Added(os, turns)[l] = IF os[l].inside <= b THEN os[l].inside ELSE b
<1> DEFINE n == IF os[l].inside <= b THEN os[l].inside ELSE b
<1>1. os[l] \in OrbitPoints /\ os[l].inside \in Nat
  BY DEF OrbitPoints
<1>2. ASSUME NEW i \in 1 .. turns PROVE l \in AddMasked(os, i) <=> i <= n
  <2>1. i \in Nat /\ i <= b
    OBVIOUS
  <2>2. l \in AddMasked(os, i) <=> i <= os[l].inside
    BY <1>1, <2>1, Zones DEF AddMasked, Mask
  <2> QED
    BY <1>1, <2>1, <2>2
<1>3. n \in Nat /\ n <= turns
  BY <1>1
<1> HIDE DEF n
<1>4. {i \in 1 .. turns : l \in AddMasked(os, i)} = 1 .. n
  BY <1>2, <1>3
<1>5. Cardinality(1 .. n) = n
  BY <1>3, FS_Interval
<1>6. Added(os, turns)[l] = Cardinality({i \in 1 .. turns : l \in AddMasked(os, i)})
  BY Zenon DEF Added
<1>7. Added(os, turns)[l] = n
  BY <1>4, <1>5, <1>6
<1> QED
  BY <1>7 DEF n

(* Both loops for vectors end at the bailout or when no point is inside.   *)
LEMMA VectorTurns ==
  ASSUME NEW os \in [Lanes -> OrbitPoints], NEW b \in Nat \ {0}, NEW l \in Lanes
  PROVE  /\ VectorCounts(os, b)[l] = IF os[l].inside <= b THEN os[l].inside ELSE b
         /\ AsmCounts(os, b)[l] = IF os[l].inside <= b THEN os[l].inside ELSE b
<1> DEFINE S == {i \in 0 .. b : i = b \/ Mask(os, i + 1) = {}}
<1> DEFINE A == {i \in 1 .. b : i = b \/ Mask(os, i) = {}}
<1>1. os[l] \in OrbitPoints /\ os[l].inside \in Nat
  BY DEF OrbitPoints
<1>2. \A i \in Nat : Mask(os, i) = {} => i > os[l].inside
  <2> SUFFICES ASSUME NEW i \in Nat, Mask(os, i) = {} PROVE i > os[l].inside
    OBVIOUS
  <2>1. Zone(os[l], i) # "inside"
    BY DEF Mask
  <2>2. ~(i <= os[l].inside)
    BY <1>1, <2>1, Zones
  <2> QED
    BY <1>1, <2>2
<1>3. S \subseteq Nat /\ b \in S /\ A \subseteq Nat /\ b \in A
  OBVIOUS
<1>4. First(S) \in S /\ First(A) \in A
  <2> HIDE DEF S, A
  <2> QED
    BY <1>3, FirstIsLeast
<1>5. First(S) \in 0 .. b /\ (First(S) = b \/ os[l].inside <= First(S))
  <2>1. First(S) \in 0 .. b /\ (First(S) = b \/ Mask(os, First(S) + 1) = {})
    BY <1>4
  <2> HIDE DEF S
  <2>2. First(S) + 1 \in Nat
    BY <2>1
  <2> QED
    BY <1>1, <1>2, <2>1, <2>2
<1>6. First(A) \in 0 .. b /\ (First(A) = b \/ os[l].inside <= First(A))
  <2>1. First(A) \in 1 .. b /\ (First(A) = b \/ Mask(os, First(A)) = {})
    BY <1>4
  <2> HIDE DEF A
  <2>2. First(A) \in Nat
    BY <2>1
  <2> QED
    BY <1>1, <1>2, <2>1, <2>2
<1>7. VectorCounts(os, b) = Added(os, First(S)) /\ AsmCounts(os, b) = Added(os, First(A))
  BY DEF VectorCounts, AsmCounts
<1> HIDE DEF S, A
<1> QED
  BY <1>5, <1>6, <1>7, MaskedCount

(* What was computed when the colors are stored.                           *)
ColorInv ==
  /\ kern \in KernelNames
  /\ pc \in {"inited", "ready", "counted", "spilled", "returned", "advance", "stored"}
  /\ pc \notin {"inited", "ready"} =>
       bailout \in Probed /\ orbit \in VectorsOf(bailout) /\ count = Colors(orbit, bailout)

LEMMA ColorStep ==
  ASSUME ColorInv, [KNext]_kvars
  PROVE  ColorInv'
<1> USE DEF ColorInv
<1>1. ASSUME NEW k \in KeySet, NEW a \in KeyActions, PressKey(k, a) PROVE ColorInv'
  BY <1>1 DEF PressKey
<1>2. ASSUME NEW s \in Sizes, SetSize(s) PROVE ColorInv'
  BY <1>2 DEF SetSize
<1>3. CASE Process \/ AsmEnter
  <2>1. /\ bailout \in Probed /\ orbit' \in VectorsOf(bailout) /\ count' = Colors(orbit', bailout)
        /\ pc' \in {"stored", "counted"} /\ kern' = kern /\ bailout' = bailout
    BY <1>3 DEF Process, AsmEnter, Compute, view
  <2>2. VectorsOf(bailout)' = VectorsOf(bailout) /\ Colors(orbit, bailout)' = Colors(orbit', bailout)
    BY <2>1 DEF VectorsOf, Colors
  <2> QED
    BY <2>1, <2>2
<1>4. CASE Return
  BY <1>4 DEF Return, view
<1>5. CASE AsmSpill \/ AsmStore \/ AsmUnspill \/ AsmNext \/ AsmLeave \/ WindowClosed \/ UNCHANGED kvars
  <2>1. /\ UNCHANGED <<kern, bailout, orbit, count>>
        /\ pc' = pc \/ (pc \notin {"inited", "ready"} /\ pc' \in {"counted", "spilled", "returned", "advance", "stored"})
    BY <1>5 DEF AsmSpill, AsmStore, AsmUnspill, AsmNext, AsmLeave, WindowClosed, kvars, view
  <2>2. VectorsOf(bailout)' = VectorsOf(bailout) /\ Colors(orbit, bailout)' = Colors(orbit, bailout)
    BY <2>1 DEF VectorsOf, Colors
  <2> QED
    BY <2>1, <2>2
<1> QED
  BY <1>1, <1>2, <1>3, <1>4, <1>5 DEF KNext

(* For every bailout, every length of a vector and all orbits in it, a     *)
(* point's color is that of the generic kernel, but for the circle.        *)
THEOREM KernelsAgree == KSpec => []ColorsAgree
<1>1. KInit => ColorInv
  BY DEF KInit, ColorInv
<1>2. ColorInv /\ [KNext]_kvars => ColorInv'
  BY ColorStep
<1>3. ColorInv => ColorsAgree
  <2> SUFFICES ASSUME ColorInv, pc = "stored", NEW l \in Lanes
               PROVE  LET o == orbit[l]
                          seen == IF kern = "generic" THEN o ELSE [o EXCEPT !.circle = 0]
                          left == GenericCount(seen, bailout)
                      IN count[l] = (IF left = bailout THEN 0 ELSE left) /\ count[l] < bailout
    BY DEF ColorsAgree
  <2>1. bailout \in Nat \ {0} /\ bailout \in Probed /\ Orbits(bailout) \subseteq OrbitPoints
    BY KernelsAssumption DEF KernelsAssumption, ColorInv, OrbitPoints
  <2>2. orbit \in [Lanes -> OrbitPoints] /\ orbit[l] \in OrbitPoints /\ count = Colors(orbit, bailout)
    BY <2>1 DEF ColorInv, VectorsOf
  <2> DEFINE o == orbit[l]
  <2> DEFINE inner == [o EXCEPT !.circle = 0]
  <2>3. inner \in OrbitPoints /\ inner.inside = o.inside /\ inner.circle = 0 /\ o.inside \in Nat
    BY <2>2 DEF OrbitPoints
  <2>4. CASE kern = "generic"
    <3>1. count[l] = IF GenericCount(o, bailout) = bailout THEN 0 ELSE GenericCount(o, bailout)
      BY <2>2, <2>4 DEF Colors, GenericColors, Blacken
    <3>2. GenericCount(o, bailout) \in 0 .. bailout
      BY <2>1, <2>2, GenericCounts
    <3> QED
      BY <2>1, <2>4, <3>1, <3>2
  <2>5. CASE kern # "generic"
    <3> DEFINE n == IF o.inside <= bailout THEN o.inside ELSE bailout
    <3>1. VectorCounts(orbit, bailout)[l] = n /\ AsmCounts(orbit, bailout)[l] = n
      BY <2>1, <2>2, VectorTurns
    <3>2. GenericCount(inner, bailout) = n
      <4>1. inner.inside + inner.circle = o.inside
        BY <2>3
      <4> HIDE DEF inner
      <4> QED
        BY <2>1, <2>3, <4>1, GenericCounts
    <3>3. n \in 0 .. bailout
      BY <2>1, <2>3
    <3> HIDE DEF n
    <3>4. count[l] = IF n = bailout THEN 0 ELSE n
      <4>1. \/ count = Blacken(VectorCounts(orbit, bailout), bailout)
            \/ count = Blacken(AsmCounts(orbit, bailout), bailout)
        BY <2>2, <2>5 DEF ColorInv, KernelNames, Colors, NativeColors, NativeVecColors, Avx2Colors,
           FmaColors, AsmColors
      <4> QED
        BY <3>1, <4>1, Zenon DEF Blacken
    <3> QED
      BY <2>1, <2>5, <3>2, <3>3, <3>4
  <2> QED
    BY <2>4, <2>5
<1> QED
  BY <1>1, <1>2, <1>3, PTL DEF KSpec
=============================================================================
