---------------------------- MODULE RschedProofs ----------------------------
(***************************************************************************)
(* Theorems about Rsched.tla for any number of workers, tasks and contexts.*)
(***************************************************************************)
EXTENDS RschedInv, TLAPS

(* The host is no worker, and the workers are numbered from 0. *)
LEMMA ThreadFacts ==
  /\ Host \notin Workers /\ Host \in Threads
  /\ \A w \in Workers : w \in Threads /\ w # Host /\ w \in Nat /\ w < NWorkers
  /\ \A t \in Threads : t # Host => t \in Workers
  /\ \A i \in 0 .. NWorkers : i < NWorkers => i \in Workers
  BY RschedAssumption DEF Host, Workers, Threads

(* What Goto does to the control points. *)
LEMMA GotoEffect ==
  ASSUME PcOK, NEW t \in Threads, NEW p, Goto(t, p)
  PROVE  pc'[t] = p /\ \A u \in Threads : u # t => pc'[u] = pc[u]
  BY DEF PcOK, Goto

(* A step of the host to an allowed point keeps the control points typed. *)
LEMMA HostGoto ==
  ASSUME PcOK, NEW p \in HostPCs, Goto(Host, p), hi' \in 0 .. NWorkers,
         p \in LoopPCs => hi' \in Workers
  PROVE  PcOK' /\ LoopOK'
<1>1. PcOK'
  BY ThreadFacts DEF PcOK, Goto
<1>2. pc'[Host] = p
  BY ThreadFacts, GotoEffect
<1> QED BY <1>1, <1>2 DEF LoopOK

(* So does a step of a worker, which leaves the host where it is. *)
LEMMA WorkerGoto ==
  ASSUME PcOK, LoopOK, NEW w \in Workers, NEW p \in WorkerPCs, Goto(w, p), UNCHANGED hi
  PROVE  PcOK' /\ LoopOK'
<1>1. PcOK'
  BY ThreadFacts DEF PcOK, Goto
<1>2. pc'[Host] = pc[Host]
  BY ThreadFacts, GotoEffect
<1> QED BY <1>1, <1>2 DEF LoopOK

(* So does a step that moves nobody. *)
LEMMA NoGoto ==
  ASSUME PcOK, LoopOK, UNCHANGED <<pc, hi>>
  PROVE  PcOK' /\ LoopOK'
  BY DEF PcOK, LoopOK

(* A turn of a loop of the host: on to worker i, or out of the loop. *)
LEMMA HostLoopEffect ==
  ASSUME PcOK, NEW i \in Nat, NEW b \in HostPCs, NEW p \in HostPCs \ LoopPCs, HostLoop(i, b, p)
  PROVE  /\ PcOK' /\ LoopOK'
         /\ i < NWorkers => hi' = i /\ Goto(Host, b)
         /\ i >= NWorkers => hi' = 0 /\ Goto(Host, p)
<1>1. /\ i < NWorkers => hi' = i /\ Goto(Host, b)
      /\ i >= NWorkers => hi' = 0 /\ Goto(Host, p)
  BY RschedAssumption DEF HostLoop
<1> QED BY <1>1, RschedAssumption, ThreadFacts, HostGoto

(* The pop's two ways out of the queue when it is empty. *)
LEMMA DrainedEffect ==
  ASSUME TypeOK, NEW t \in Threads, Drained(t)
  PROVE  PcOK' /\ LoopOK' /\ op' \in {"create", "none", "yield", "quit"}
<1>1. CASE t = Host
  <2>1. HostLoop(0, "gsig", "ready") /\ op' \in {op, "none"}
    BY <1>1 DEF Drained
  <2> QED BY <2>1, HostLoopEffect DEF TypeOK, HostPCs, LoopPCs
<1>2. CASE t # Host
  BY <1>2, ThreadFacts, WorkerGoto DEF Drained, TypeOK, WorkerPCs
<1> QED BY <1>1, <1>2

(* The program starts in the types.                                        *)
LEMMA InitTypes == Init => TypeOK
<1> SUFFICES ASSUME Init PROVE TypeOK
  OBVIOUS
<1> USE RschedAssumption, ThreadFacts
<1>1. PcOK
  <2>1. Created \in HostPCs /\ "none" \in WorkerPCs
    BY DEF Created, HostPCs, WorkerPCs
  <2> QED BY <2>1 DEF Init, PcOK
<1>2. LoopOK
  BY DEF Init, LoopOK, LoopPCs, Created
<1> QED
  BY <1>1, <1>2 DEF Init, TypeOK, Slots, Signals, States

-----------------------------------------------------------------------------
(* Every variable keeps its type; in particular the atomic counter never   *)
(* passes MaxLen + 1 and no pop returns a slot past MaxLen.                *)
THEOREM TypeCorrect == Spec => []TypeOK
<1>1. Init => TypeOK
  BY InitTypes
<1>2. TypeOK /\ [Next]_vars => TypeOK'
  <2> SUFFICES ASSUME TypeOK, [Next]_vars PROVE TypeOK'
    OBVIOUS
  <2> USE RschedAssumption DEF TypeOK, Slots, hostVars, queueVars, mailVars, ctxVars
  <2>p. "create" \in HostPCs /\ "ready" \in HostPCs /\ "ctx" \in HostPCs /\ "send" \in HostPCs
        /\ "gsig" \in HostPCs /\ "gst" \in HostPCs /\ "join" \in HostPCs /\ "gone" \in HostPCs
        /\ "crashed" \in HostPCs /\ PopPCs \subseteq HostPCs
    BY DEF HostPCs
  <2>q. PopPCs \subseteq WorkerPCs /\ WorkerPCs \ PopPCs =
        {"none", "wait", "recv", "rel", "getctx", "run", "go", "poll", "cont",
              "nul", "int", "down", "exit", "dead"} /\ PopPCs = {"load", "cas", "exec"}
    BY DEF WorkerPCs, PopPCs
  <2>r. /\ hi \in 0 .. NWorkers /\ hi + 1 \in Nat
        /\ hi < NWorkers => hi \in Workers
        /\ 0 < NWorkers => 0 \in Workers
        /\ hi + 1 < NWorkers => hi + 1 \in 0 .. NWorkers /\ hi + 1 \in Workers
        /\ pc[Host] \in LoopPCs => hi \in Workers
    BY ThreadFacts DEF LoopOK
  <2>s. LoopPCs = {"ctx", "send", "gsig", "gst", "join"}
    BY DEF LoopPCs
  <2>1. CASE HostCreateWorker
    <3>1. PcOK'
      BY <2>1, <2>p, <2>q, ThreadFacts DEF HostCreateWorker, PcOK
    <3>2. hi' \in 0 .. NWorkers /\ hi' \in Workers
      BY <2>1, <2>r DEF HostCreateWorker
    <3>3. LoopOK'
      BY <3>2 DEF LoopOK
    <3> QED BY <3>1, <3>3, <2>1 DEF HostCreateWorker
  <2>2. CASE HostCreateFails
    BY <2>2, <2>p, <2>r, HostGoto DEF HostCreateFails, States
  <2>4. ASSUME NEW c \in Contexts, HostSetContext(c) PROVE TypeOK'
    BY <2>4, <2>p, <2>s, HostLoopEffect DEF HostSetContext
  <2>5. CASE HostUpdateWorker
    BY <2>5, <2>p, <2>r, <2>s, HostLoopEffect DEF HostUpdateWorker
  <2>6. ASSUME NEW n \in 0 .. MaxLen, HostCreateTasks(n) PROVE TypeOK'
    BY <2>6, NoGoto DEF HostCreateTasks
  <2>7. CASE HostRequeue
    BY <2>7, NoGoto DEF HostRequeue
  <2>8. CASE HostYield \/ HostShutdown
    BY <2>8, <2>p, <2>q, <2>s, HostLoopEffect DEF HostYield, HostShutdown, Signals
  <2>9. CASE HostSend
    <3>1. PcOK' /\ LoopOK'
      BY <2>9, <2>p, <2>q, <2>r, <2>s, HostLoopEffect, HostGoto DEF HostSend
    <3> QED BY <3>1, <2>9 DEF HostSend, Signals
  <2>10. CASE HostSendRetry
    <3>1. sig[hi] \in Signals
      BY <2>10, <2>r, <2>s DEF HostSendRetry
    <3> QED BY <3>1, <2>10, NoGoto DEF HostSendRetry
  <2>11. CASE HostSeeQuiet \/ HostDestroyWorker
    BY <2>11, <2>p, <2>r, <2>s, HostGoto DEF HostSeeQuiet, HostDestroyWorker, Signals
  <2>12. CASE HostSeeWaiting
    BY <2>12, <2>p, <2>r, <2>s, HostLoopEffect DEF HostSeeWaiting
  <2>13. CASE HostSeeOther
    <3>1. 0 \in Workers /\ hi \in Workers
      BY <2>13, <2>r, <2>s, ThreadFacts DEF HostSeeOther
    <3>2. PcOK' /\ LoopOK'
      BY <2>13, <3>1, <2>p, <2>r, <2>s, HostGoto DEF HostSeeOther
    <3> QED BY <2>13, <3>2 DEF HostSeeOther
  <2>14. CASE HostJoin
    BY <2>14, <2>p, <2>r, <2>s, HostLoopEffect DEF HostJoin
  <2>15. CASE HostJoinNobody
    <3>1. CASE HostLoop(hi + 1, "gsig", "gone")
      BY <2>15, <3>1, <2>p, <2>r, <2>s, HostLoopEffect DEF HostJoinNobody
    <3>2. CASE pc' = [t \in Threads |-> IF t = Host THEN "crashed" ELSE "none"] /\ UNCHANGED hi
      <4>1. PcOK' /\ LoopOK'
        BY <3>2, <2>p, <2>q, <2>r, <2>s, ThreadFacts DEF PcOK, LoopOK
      <4> QED BY <2>15, <3>2, <4>1 DEF HostJoinNobody
    <3> QED BY <2>15, <3>1, <3>2 DEF HostJoinNobody
  <2>16. ASSUME NEW t \in Threads, Pop(t) PROVE TypeOK'
    <3>g. ASSUME NEW p \in PopPCs \cup {"poll"}, Goto(t, p), p = "poll" => t # Host, UNCHANGED hi
          PROVE PcOK' /\ LoopOK'
      BY <3>g, <2>p, <2>q, <2>r, <2>s, ThreadFacts, HostGoto, WorkerGoto
    <3>1. CASE PopLoad(t)
      <4>1. PcOK' /\ LoopOK' /\ op' \in {"create", "none", "yield", "quit"}
        BY <2>16, <3>1, <3>g, <2>q, DrainedEffect DEF PopLoad
      <4> QED BY <3>1, <4>1 DEF PopLoad, TasksLeft
    <3>2. CASE PopTake(t)
      <4>1. PcOK' /\ LoopOK'
        BY <2>16, <3>2, <3>g, <2>q DEF PopTake
      <4> QED BY <3>2, <4>1 DEF PopTake, CounterIs
    <3>3. CASE PopMiss(t)
      <4>1. PcOK' /\ LoopOK' /\ op' \in {"create", "none", "yield", "quit"}
        BY <2>16, <3>3, DrainedEffect, NoGoto DEF PopMiss
      <4> QED BY <3>3, <4>1 DEF PopMiss, TasksLeft
    <3>4. CASE Exec(t)
      <4>1. PcOK' /\ LoopOK'
        BY <2>16, <3>4, <3>g, <2>q DEF Exec
      <4> QED BY <3>4, <4>1 DEF Exec
    <3> QED BY <2>16, <3>1, <3>2, <3>3, <3>4 DEF Pop
  <2>17. ASSUME NEW w \in Workers, SetWaiting(w) \/ SetRunning(w) \/ SetDown(w) PROVE TypeOK'
    BY <2>17, <2>q, WorkerGoto DEF SetWaiting, SetRunning, SetDown, States
  <2>18. ASSUME NEW w \in Workers, SigReceive(w) PROVE TypeOK'
    <3>1. OnSignal(pc[w], sig[w]) \in WorkerPCs
      BY <2>q DEF OnSignal
    <3> QED BY <2>18, <3>1, WorkerGoto DEF SigReceive, Signals
  <2>19. ASSUME NEW w \in Workers, ReadContext(w) PROVE TypeOK'
    BY <2>19, <2>q, WorkerGoto DEF ReadContext, ContextRead
  <2>20. ASSUME NEW w \in Workers, SigUnlock(w) PROVE TypeOK'
    <3>1. AfterUnlock[pc[w]] \in WorkerPCs
      BY <2>20, <2>q DEF SigUnlock, AfterUnlock, UnlockPCs
    <3> QED BY <2>20, <3>1, WorkerGoto DEF SigUnlock, Signals
  <2>21. CASE UNCHANGED vars
    BY <2>21, NoGoto DEF vars
  <2> QED
    BY <2>1, <2>2, <2>4, <2>5, <2>6, <2>7, <2>8, <2>9, <2>10, <2>11, <2>12, <2>13, <2>14,
       <2>15, <2>16, <2>17, <2>18, <2>19, <2>20, <2>21, ThreadFacts
       DEF Next, HostCall, HostStep, WorkerStep, Halted
<1> QED
  BY <1>1, <1>2, PTL DEF Spec

-----------------------------------------------------------------------------
(* A worker's own step, seen from the host and from the other workers.     *)
Same(w) == pc'[w] = pc[w] /\ sig'[w] = sig[w] /\ st'[w] = st[w]

(* What is said of a worker depends on its point, signal and state only. *)
LEMMA SameKeeps ==
  ASSUME NEW w, Same(w)
  PROVE  /\ AtRest(w) <=> AtRest(w)'
         /\ Starting(w) <=> Starting(w)'
         /\ InFrame(w) <=> InFrame(w)'
         /\ Stopping(w) <=> Stopping(w)'
  BY DEF Same, AtRest, Starting, InFrame, Stopping

(* A worker at rest is in every situation that allows for one. *)
LEMMA AtRestIs ==
  ASSUME NEW w, AtRest(w)
  PROVE  Starting(w) /\ InFrame(w) /\ Stopping(w) /\ st[w] = "WAITING"
  BY DEF AtRest, Starting, InFrame, Stopping

(* A step of a worker is its own: it moves no other and not the host's data. *)
LEMMA WorkerStepLocal ==
  ASSUME TypeOK, NEW w \in Workers, WorkerStep(w)
  PROVE  /\ pc'[Host] = pc[Host] /\ UNCHANGED <<op, hi, esig, len, uctx, wctx>>
         /\ \A v \in Workers : v # w => Same(v)
         /\ \A t \in Threads : t # w => pc'[t] = pc[t] /\ cur'[t] = cur[t] /\ lctx'[t] = lctx[t]
<1> USE ThreadFacts, GotoEffect DEF TypeOK, Same, hostVars, queueVars, mailVars, ctxVars
<1>1. CASE SetWaiting(w) \/ SetRunning(w) \/ SetDown(w)
  BY <1>1 DEF SetWaiting, SetRunning, SetDown
<1>2. CASE SigReceive(w) \/ SigUnlock(w)
  BY <1>2 DEF SigReceive, SigUnlock
<1>3. CASE ReadContext(w)
  BY <1>3 DEF ReadContext
<1>4. CASE PopLoad(w)
  BY <1>4 DEF PopLoad, Drained
<1>5. CASE PopTake(w)
  BY <1>5 DEF PopTake
<1>6. CASE PopMiss(w)
  BY <1>6 DEF PopMiss, Drained
<1>7. CASE Exec(w)
  BY <1>7 DEF Exec
<1> QED
  BY <1>1, <1>2, <1>3, <1>4, <1>5, <1>6, <1>7 DEF WorkerStep, Pop

(* A worker at rest stays at rest until the host sends it something; a     *)
(* worker in a frame stays within InFrame, provided it has a user function. *)
LEMMA WorkerStepKeeps ==
  ASSUME TypeOK, NEW w \in Workers, WorkerStep(w)
  PROVE  /\ AtRest(w) => AtRest(w)'
         /\ Starting(w) => Starting(w)'
         /\ Stopping(w) => Stopping(w)'
         /\ InFrame(w) /\ wctx[w] # NoCtx => InFrame(w)'
<1> USE ThreadFacts, GotoEffect DEF TypeOK, hostVars, queueVars, mailVars, ctxVars,
        AtRest, Starting, Stopping, InFrame
<1>1. CASE SetWaiting(w)
  BY <1>1 DEF SetWaiting
<1>2. CASE SetRunning(w)
  BY <1>2 DEF SetRunning
<1>3. CASE SetDown(w)
  BY <1>3 DEF SetDown
<1>4. CASE SigReceive(w)
  BY <1>4 DEF SigReceive, OnSignal
<1>5. CASE SigUnlock(w)
  BY <1>5 DEF SigUnlock, UnlockPCs, AfterUnlock
<1>6. CASE ReadContext(w)
  BY <1>6 DEF ReadContext, ContextRead
<1>7. CASE PopLoad(w)
  BY <1>7 DEF PopLoad, Drained
<1>8. CASE PopTake(w)
  BY <1>8 DEF PopTake
<1>9. CASE PopMiss(w)
  BY <1>9 DEF PopMiss, Drained
<1>10. CASE Exec(w)
  BY <1>10 DEF Exec
<1> QED
  BY <1>1, <1>2, <1>3, <1>4, <1>5, <1>6, <1>7, <1>8, <1>9, <1>10 DEF WorkerStep, Pop

(* A host step that only moves the host. *)
LEMMA HostMoves ==
  ASSUME TypeOK, NEW p, Goto(Host, p), UNCHANGED <<sig, st>>
  PROVE  pc'[Host] = p /\ \A w \in Workers : Same(w)
  BY ThreadFacts, GotoEffect DEF Same, TypeOK

(* A turn of a loop of the host that sends no signal. *)
LEMMA HostLoopMoves ==
  ASSUME TypeOK, NEW i \in Nat, NEW b, NEW p, HostLoop(i, b, p), UNCHANGED <<sig, st>>
  PROVE  /\ \A w \in Workers : Same(w)
         /\ i < NWorkers => hi' = i /\ pc'[Host] = b
         /\ i >= NWorkers => hi' = 0 /\ pc'[Host] = p
  BY RschedAssumption, HostMoves DEF HostLoop

(* Where the host and the workers are relative to each other: the barrier  *)
(* at the end of a frame, kept by every step.                              *)
LEMMA ProtocolStep ==
  ASSUME TypeOK, ProtocolInv, ContextInv, [Next]_vars
  PROVE  ProtocolInv'
<1> USE RschedAssumption, SameKeeps, AtRestIs
    DEF ProtocolInv, CreateInv, IdleInv, YieldInv, QuitInv, hostVars, queueVars, mailVars, ctxVars
<1>h. hi \in Nat /\ hi + 1 \in Nat /\ (pc[Host] \in LoopPCs => hi \in Workers)
      /\ \A w \in Workers : w \in Nat /\ w < NWorkers
  BY ThreadFacts DEF TypeOK, LoopOK
<1>l. LoopPCs = {"ctx", "send", "gsig", "gst", "join"} /\ PopPCs = {"load", "cas", "exec"}
  BY DEF LoopPCs, PopPCs
<1>o. op \in {"create", "none", "yield", "quit"}
  BY DEF TypeOK
<1>1. CASE HostCreateWorker
  <2>1. op = "create" /\ op' = "create" /\ hi \in Workers
    BY <1>1, <1>o, <1>h, <1>l, ThreadFacts DEF HostCreateWorker, TypeOK, LoopOK
  <2>2. /\ pc'[hi] = "wait" /\ pc'[Host] = IF hi + 1 < NWorkers THEN "create" ELSE "gsig"
        /\ hi' = IF hi + 1 < NWorkers THEN hi + 1 ELSE 0
        /\ sig' = sig /\ st' = st
        /\ \A w \in Workers : w # hi => Same(w)
    BY <1>1, <2>1, ThreadFacts DEF HostCreateWorker, TypeOK, PcOK, Same
  <2>3. PICK i \in Workers : i = hi
    BY <2>1
  <2>4. Starting(i)'
    <3>1. sig[i] = "NONE" /\ st[i] = "zero"
      BY <1>1, <2>1, <2>3, <1>h DEF HostCreateWorker
    <3> QED BY <3>1, <2>2, <2>3 DEF Starting
  <2>5. ASSUME NEW w \in Workers, w < i PROVE Starting(w)'
    <3>1. Starting(w) /\ Same(w)
      BY <1>1, <2>1, <2>2, <2>3, <2>5, <1>h DEF HostCreateWorker
    <3> QED BY <3>1
  <2>6. ASSUME NEW w \in Workers, w > i
        PROVE pc'[w] = "none" /\ sig'[w] = "NONE" /\ st'[w] = "zero"
    <3>1. w >= hi /\ w # hi
      BY <2>3, <2>6, <1>h
    <3>2. pc[w] = "none" /\ sig[w] = "NONE" /\ st[w] = "zero"
      BY <1>1, <2>1, <3>1 DEF HostCreateWorker
    <3> QED BY <3>1, <3>2, <2>2 DEF Same
  <2>7. CASE hi + 1 < NWorkers
    <3>1. pc'[Host] = "create" /\ hi' = i + 1 /\ op' = "create"
      BY <2>1, <2>2, <2>3, <2>7
    <3>2. \A w \in Workers : w < i \/ w = i \/ w >= i + 1
      BY <1>h
    <3>3. \A w \in Workers : IF w >= i + 1
                             THEN pc'[w] = "none" /\ sig'[w] = "NONE" /\ st'[w] = "zero"
                             ELSE Starting(w)'
      BY <3>2, <2>4, <2>5, <2>6, <1>h
    <3> QED BY <3>1, <3>3
  <2>8. CASE hi + 1 >= NWorkers
    <3>1. pc'[Host] = "gsig" /\ hi' = 0 /\ op' = "create"
      BY <2>1, <2>2, <2>8, <1>h
    <3>2. \A w \in Workers : w < i \/ w = i
      BY <2>3, <2>8, <1>h
    <3> QED BY <3>1, <3>2, <2>4, <2>5, <1>h
  <2> QED BY <2>7, <2>8, <1>h
<1>2. CASE HostCreateFails
  <2>1. op = "create" /\ op' = "quit" /\ pc'[Host] = "gsig" /\ UNCHANGED sig
    BY <1>2, <1>o, <1>l, ThreadFacts, GotoEffect DEF HostCreateFails, TypeOK
  <2>2. \A w \in Workers : pc'[w] = pc[w]
    BY <1>2, ThreadFacts, GotoEffect DEF HostCreateFails, TypeOK
  <2>3. \A w \in Workers : Stopping(w)
    BY <1>2, <2>1 DEF HostCreateFails, Starting, Stopping, AtRest
  <2> QED BY <2>1, <2>2, <2>3 DEF Stopping
<1>4. ASSUME NEW c \in Contexts, HostSetContext(c) PROVE ProtocolInv'
  BY <1>4, <1>o, <1>l, HostLoopMoves DEF HostSetContext
<1>5. CASE HostUpdateWorker
  BY <1>5, <1>o, <1>h, <1>l, HostLoopMoves DEF HostUpdateWorker
<1>6. ASSUME NEW n \in 0 .. MaxLen, HostCreateTasks(n) PROVE ProtocolInv'
  BY <1>6, <1>o, <1>l DEF HostCreateTasks, Same
<1>7. CASE HostRequeue
  BY <1>7, <1>o, <1>l DEF HostRequeue, Same
<1>8. CASE HostYield
  BY <1>8, <1>o, <1>h, <1>l, HostLoopMoves DEF HostYield
<1>9. CASE HostShutdown
  BY <1>9, <1>o, <1>h, <1>l, HostLoopMoves DEF HostShutdown
<1>10. CASE HostSend /\ op = "quit"
  <2>1. pc'[Host] = "join" /\ op' = "quit" /\ \A w \in Workers : pc'[w] = pc[w]
    BY <1>10, ThreadFacts, GotoEffect DEF HostSend, TypeOK
  <2>2. \A w \in Workers : sig'[w] \in {sig[w], "QUIT"}
    BY <1>10 DEF HostSend, TypeOK
  <2> QED BY <1>10, <2>1, <2>2 DEF Stopping
<1>11. CASE HostSend /\ op # "quit"
  <2>1. op = "yield" /\ op' = "yield" /\ hi \in Workers
    BY <1>11, <1>o, <1>h, <1>l DEF HostSend
  <2>2. /\ \A w \in Workers : pc'[w] = pc[w] /\ st'[w] = st[w]
        /\ hi + 1 < NWorkers => pc'[Host] = "send" /\ hi' = hi + 1
        /\ hi + 1 >= NWorkers => pc'[Host] = "load" /\ hi' = 0
    BY <1>11, <1>h, ThreadFacts, GotoEffect DEF HostSend, HostLoop, TypeOK
  <2>3. sig'[hi] = "START" /\ \A w \in Workers : w # hi => Same(w)
    BY <1>11, <2>1, <2>2 DEF HostSend, TypeOK, Same
  <2>4. PICK i \in Workers : i = hi
    BY <2>1
  <2>5. InFrame(i)'
    <3>1. AtRest(i)
      BY <1>11, <2>1, <2>4, <1>h DEF HostSend
    <3> QED BY <3>1, <2>1, <2>2, <2>3, <2>4 DEF AtRest, InFrame
  <2>6. \A w \in Workers : InFrame(w)'
    BY <2>1, <2>3, <2>4, <2>5
  <2>7. \A w \in Workers : w >= i + 1 => AtRest(w)'
    BY <1>11, <2>1, <2>3, <2>4, <1>h DEF HostSend
  <2> QED BY <1>11, <2>1, <2>2, <2>4, <2>6, <2>7, <1>h, <1>l
<1>12. CASE HostSendRetry
  BY <1>12, <1>o, <1>l DEF HostSendRetry, Same
<1>13. CASE HostSeeQuiet
  <2>1. pc'[Host] = "gst" /\ \A w \in Workers : Same(w)
    BY <1>13, HostMoves DEF HostSeeQuiet
  <2>2. op = "yield" /\ st[hi] = "WAITING" => AtRest(hi)
    BY <1>13, <1>h, <1>l DEF HostSeeQuiet, SigQuiet, InFrame, AtRest
  <2> QED BY <1>13, <2>1, <2>2, <1>h, <1>l, <1>o DEF HostSeeQuiet
<1>14. CASE HostSeeWaiting
  <2>1. AtRest(hi)
    BY <1>14, <1>o, <1>h, <1>l DEF HostSeeWaiting, Starting
  <2> QED BY <1>14, <2>1, <1>h, <1>l, <1>o, HostLoopMoves DEF HostSeeWaiting
<1>15. CASE HostSeeOther
  <2>1. st[hi] # "DOWN"
    BY <1>15, <1>o, <1>h, <1>l DEF HostSeeOther, Starting, AtRest, InFrame
  <2> QED BY <1>15, <2>1, <1>h, <1>l, <1>o, HostMoves DEF HostSeeOther
<1>16. CASE HostDestroyWorker
  BY <1>16, HostMoves DEF HostDestroyWorker
<1>17. CASE HostJoin
  BY <1>17, <1>o, <1>h, <1>l, HostLoopMoves DEF HostJoin
<1>18. CASE HostJoinNobody
  <2>1. op = "quit" /\ op' = "quit"
    BY <1>18, <1>o, <1>l DEF HostJoinNobody
  <2>2. CASE HostLoop(hi + 1, "gsig", "gone")
    BY <1>18, <2>1, <2>2, <1>h, <1>l, HostLoopMoves DEF HostJoinNobody
  <2>3. CASE pc' = [t \in Threads |-> IF t = Host THEN "crashed" ELSE "none"]
    BY <1>18, <2>1, <2>3, ThreadFacts DEF HostJoinNobody, Stopping
  <2> QED BY <1>18, <2>2, <2>3 DEF HostJoinNobody
<1>19. CASE Pop(Host)
  <2>1. op = "yield" /\ pc[Host] \in PopPCs /\ \A w \in Workers : InFrame(w)
    BY <1>19, <1>o, <1>l DEF Pop, PopLoad, PopTake, PopMiss, Exec
  <2>2. UNCHANGED <<sig, st>>
    BY <1>19 DEF Pop, PopLoad, PopTake, PopMiss, Exec
  <2>3. ASSUME NEW p \in PopPCs, Goto(Host, p) \/ UNCHANGED pc, UNCHANGED <<op, hi>>
        PROVE ProtocolInv'
    <3>1. (\A w \in Workers : Same(w)) /\ pc'[Host] \in PopPCs
      BY <2>1, <2>2, <2>3, HostMoves DEF Same
    <3> QED BY <2>1, <2>2, <2>3, <3>1, <1>l
  <2>4. ASSUME Drained(Host) PROVE ProtocolInv'
    <3>1. /\ HostLoop(0, "gsig", "ready") /\ op' = IF NWorkers = 0 THEN "none" ELSE op
      BY <2>4 DEF Drained
    <3>2. CASE NWorkers = 0
      <4>1. Workers = {}
        BY <3>2 DEF Workers
      <4> QED BY <3>1, <3>2, <4>1, <2>2, HostLoopMoves
    <3>3. CASE NWorkers # 0
      BY <3>1, <3>3, <2>1, <2>2, <1>h, HostLoopMoves
    <3> QED BY <3>2, <3>3
  <2>5. CASE PopLoad(Host)
    BY <2>5, <2>3, <2>4, <1>l DEF PopLoad
  <2>6. CASE PopTake(Host)
    BY <2>6, <2>3, <1>l DEF PopTake
  <2>7. CASE PopMiss(Host)
    BY <2>7, <2>3, <2>4, <1>l DEF PopMiss
  <2>8. CASE Exec(Host)
    BY <2>8, <2>3, <1>l DEF Exec
  <2> QED BY <1>19, <2>5, <2>6, <2>7, <2>8 DEF Pop
<1>20. ASSUME NEW w \in Workers, WorkerStep(w) PROVE ProtocolInv'
  <2>1. /\ pc'[Host] = pc[Host] /\ UNCHANGED <<op, hi>>
        /\ \A v \in Workers : v # w => Same(v)
    BY <1>20, WorkerStepLocal
  <2>2. op = "yield" => wctx[w] # NoCtx
    BY <1>l DEF ContextInv
  <2>3. /\ \A v \in Workers : AtRest(v) => AtRest(v)'
        /\ \A v \in Workers : Starting(v) => Starting(v)'
        /\ \A v \in Workers : Stopping(v) => Stopping(v)'
        /\ op = "yield" => \A v \in Workers : InFrame(v) => InFrame(v)'
    BY <1>20, <2>1, <2>2, WorkerStepKeeps
  <2>4. CASE op = "create"
    <3>1. ~(pc[w] = "none")
      BY <1>20 DEF WorkerStep, Pop, PopLoad, PopTake, PopMiss, Exec, SetWaiting, SigReceive,
                   ReadContext, SetRunning, SigUnlock, SetDown, UnlockPCs
    <3> QED BY <2>1, <2>3, <2>4, <3>1 DEF Same
  <2>5. CASE op = "yield"
    <3>1. st'[hi] = "WAITING" /\ pc[Host] = "gst" => AtRest(hi)'
      <4> SUFFICES ASSUME st'[hi] = "WAITING", pc[Host] = "gst" PROVE AtRest(hi)'
        OBVIOUS
      <4>1. CASE st[hi] = "WAITING"
        <5>1. AtRest(hi) /\ hi \in Workers
          BY <4>1, <2>5, <1>h, <1>l
        <5>2. PICK i \in Workers : i = hi
          BY <5>1
        <5>3. AtRest(i)'
          BY <5>1, <5>2, <2>3
        <5> QED BY <5>2, <5>3, <2>1 DEF AtRest
      <4>2. CASE st[hi] # "WAITING"
        <5>1. hi = w
          BY <4>2, <2>1, <1>h, <1>l DEF Same
        <5>2. SetWaiting(w)
          BY <1>20, <5>1, <4>2 DEF WorkerStep, Pop, PopLoad, PopTake, PopMiss, Exec, SetWaiting,
             SigReceive, ReadContext, SetRunning, SigUnlock, SetDown, TypeOK
        <5>3. InFrame(w)
          BY <2>5
        <5>4. AtRest(w)'
          BY <5>2, <5>3, ThreadFacts, GotoEffect DEF SetWaiting, InFrame, AtRest, TypeOK
        <5> QED BY <5>1, <5>4, <2>1 DEF AtRest
      <4> QED BY <4>1, <4>2
    <3> QED BY <2>1, <2>3, <2>5, <3>1, <1>h, <1>l
  <2>6. CASE op \in {"none", "quit"}
    BY <2>1, <2>3, <2>6
  <2> QED BY <2>4, <2>5, <2>6, <1>o
<1>21. CASE UNCHANGED vars
  BY <1>21 DEF vars, Same
<1> QED
  BY <1>1, <1>2, <1>4, <1>5, <1>6, <1>7, <1>8, <1>9, <1>10, <1>11, <1>12, <1>13, <1>14,
     <1>15, <1>16, <1>17, <1>18, <1>19, <1>20, <1>21
     DEF Next, HostCall, HostStep, Halted

-----------------------------------------------------------------------------
(* The copies of the user's context agree when a frame begins.             *)
LEMMA ContextStep ==
  ASSUME TypeOK, ProtocolInv, ContextInv, [Next]_vars
  PROVE  ContextInv'
<1> USE RschedAssumption DEF ContextInv, hostVars, queueVars, mailVars, ctxVars
<1>p. /\ pc[Host] = "ready" => op = "none"
      /\ pc[Host] \in PopPCs => op = "yield"
      /\ pc[Host] = "ctx" => op = "none"
      /\ op = "none" => pc[Host] \in {"ready", "ctx"}
      /\ op = "none" => \A w \in Workers : AtRest(w)
  BY DEF TypeOK, ProtocolInv, CreateInv, IdleInv, YieldInv, QuitInv, PopPCs
<1>h. hi \in Nat /\ hi + 1 \in Nat /\ (pc[Host] \in LoopPCs => hi \in Workers)
      /\ \A w \in Workers : w \in Nat /\ w < NWorkers
  BY ThreadFacts DEF TypeOK, LoopOK
<1>l. LoopPCs = {"ctx", "send", "gsig", "gst", "join"} /\ PopPCs = {"load", "cas", "exec"}
  BY DEF LoopPCs, PopPCs
<1>1. ASSUME NEW c \in Contexts, HostSetContext(c) PROVE ContextInv'
  <2>1. op' = "none" /\ uctx' = c /\ c # NoCtx
    BY <1>1, <1>p DEF HostSetContext
  <2>2. CASE NWorkers = 0
    BY <2>1, <2>2, <1>h
  <2>3. CASE NWorkers # 0
    <3>1. pc'[Host] = "ctx" /\ hi' = 0
      BY <1>1, <2>3, HostLoopMoves DEF HostSetContext
    <3> QED BY <2>1, <3>1, <1>h
  <2> QED BY <2>2, <2>3
<1>2. CASE HostUpdateWorker
  <2>1. op' = "none" /\ op = "none" /\ hi \in Workers /\ uctx' = uctx /\ uctx # NoCtx
    BY <1>2, <1>p, <1>h, <1>l DEF HostUpdateWorker
  <2>2. \A w \in Workers : w <= hi => wctx'[w] = uctx
    BY <1>2, <2>1, <1>h DEF HostUpdateWorker, TypeOK
  <2>3. /\ hi + 1 < NWorkers => pc'[Host] = "ctx" /\ hi' = hi + 1
        /\ hi + 1 >= NWorkers => pc'[Host] = "ready"
    BY <1>2, <1>h, HostLoopMoves DEF HostUpdateWorker
  <2> QED BY <2>1, <2>2, <2>3, <1>h
<1>3. CASE HostYield
  <2>1. op = "none" /\ op' = "yield" /\ uctx' = uctx /\ wctx' = wctx /\ uctx # NoCtx
        /\ lctx'[Host] = uctx
    BY <1>3, <1>p, ThreadFacts DEF HostYield, TypeOK
  <2>2. \A w \in Workers : pc'[w] \in {"recv", "rel"}
    BY <1>3, <1>p, HostLoopMoves DEF HostYield, AtRest, Same
  <2> QED BY <1>3, <2>1, <2>2, <1>l DEF HostYield
<1>4. ASSUME UNCHANGED <<uctx, wctx, lctx>>, op' = "yield" => op = "yield",
             pc[Host] \notin {"ctx"}, pc'[Host] # "ctx",
             op = "yield" => \A w \in Workers : pc'[w] = pc[w]
      PROVE ContextInv'
  BY <1>4
<1>5. CASE HostCreateWorker \/ HostCreateFails
  <2>1. op = "create" /\ op' # "yield"
    BY <1>5, <1>p DEF HostCreateWorker, HostCreateFails,
       TypeOK, ProtocolInv, IdleInv, YieldInv, QuitInv, PopPCs
  <2>2. pc[Host] # "ctx" /\ pc'[Host] # "ctx"
    BY <1>5, ThreadFacts, GotoEffect
       DEF HostCreateWorker, HostCreateFails, TypeOK, PcOK
  <2> QED BY <1>4, <1>5, <2>1, <2>2 DEF HostCreateWorker, HostCreateFails
<1>6. CASE \/ \E n \in 0 .. MaxLen : HostCreateTasks(n)
           \/ HostRequeue \/ HostSendRetry
  BY <1>4, <1>6 DEF HostCreateTasks, HostRequeue, HostSendRetry
<1>7. ASSUME NEW p, Goto(Host, p), p # "ctx", pc[Host] # "ctx",
             UNCHANGED <<uctx, wctx, lctx>>, op' = "yield" => op = "yield"
      PROVE ContextInv'
  BY <1>4, <1>7, ThreadFacts, GotoEffect DEF TypeOK
<1>8. CASE HostShutdown \/ HostSend \/ HostSeeQuiet \/ HostSeeWaiting \/ HostSeeOther
           \/ HostDestroyWorker \/ HostJoin
  BY <1>7, <1>8 DEF HostShutdown, HostSend, HostSeeQuiet, HostSeeWaiting, HostSeeOther,
     HostDestroyWorker, HostJoin, HostLoop
<1>9. CASE HostJoinNobody
  <2>1. op = "quit" /\ op' = "quit" /\ pc[Host] # "ctx"
    BY <1>9, <1>p, <1>l DEF HostJoinNobody, TypeOK, ProtocolInv, CreateInv, IdleInv, YieldInv
  <2>2. pc'[Host] # "ctx"
    BY <1>9, ThreadFacts, GotoEffect DEF HostJoinNobody, HostLoop, TypeOK
  <2> QED BY <1>4, <1>9, <2>1, <2>2 DEF HostJoinNobody
<1>10. CASE Pop(Host)
  <2>1. CASE PopLoad(Host) \/ PopTake(Host) \/ Exec(Host)
    BY <1>7, <2>1 DEF PopLoad, PopTake, Exec, Drained, HostLoop
  <2>2. CASE PopMiss(Host)
    <3>1. CASE UNCHANGED <<pc, op, hi>>
      BY <1>4, <2>2, <3>1 DEF PopMiss
    <3>2. CASE Drained(Host)
      BY <1>7, <2>2, <3>2 DEF PopMiss, Drained, HostLoop
    <3> QED BY <2>2, <3>1, <3>2 DEF PopMiss
  <2> QED BY <1>10, <2>1, <2>2 DEF Pop
<1>11. ASSUME NEW w \in Workers, WorkerStep(w) PROVE ContextInv'
  <2>1. /\ pc'[Host] = pc[Host] /\ UNCHANGED <<op, hi, uctx, wctx>>
        /\ \A t \in Threads : t # w => pc'[t] = pc[t] /\ lctx'[t] = lctx[t]
    BY <1>11, WorkerStepLocal
  <2> DEFINE holds == {"run", "go", "poll", "cont"} \cup PopPCs
  <2>2. op = "yield" /\ pc'[w] \in holds => lctx'[w] = uctx
    <3> SUFFICES ASSUME op = "yield", pc'[w] \in holds PROVE lctx'[w] = uctx
      OBVIOUS
    <3>1. CASE ReadContext(w)
      <4>1. wctx[w] = uctx
        BY <3>1, <1>p, <1>l
      <4>2. lctx'[w] = wctx[w]
        BY <3>1, ThreadFacts DEF ReadContext, ContextRead, TypeOK
      <4> QED BY <4>1, <4>2
    <3>2. CASE ~ReadContext(w)
      <4>1. lctx' = lctx
        BY <1>11, <3>2 DEF WorkerStep, Pop, PopLoad, PopTake, PopMiss, Exec, SetWaiting,
           SigReceive, SetRunning, SigUnlock, SetDown
      <4>2. pc[w] \in holds
        <5> USE <1>l, ThreadFacts, GotoEffect DEF TypeOK
        <5>1. CASE SetWaiting(w) \/ SetRunning(w) \/ SetDown(w)
          BY <5>1 DEF SetWaiting, SetRunning, SetDown
        <5>2. CASE SigReceive(w)
          BY <5>2 DEF SigReceive, OnSignal
        <5>3. CASE SigUnlock(w)
          BY <5>3 DEF SigUnlock, UnlockPCs, AfterUnlock
        <5>4. CASE Pop(w)
          BY <5>4 DEF Pop, PopLoad, PopTake, PopMiss, Exec
        <5> QED BY <1>11, <3>2, <5>1, <5>2, <5>3, <5>4 DEF WorkerStep
      <4> QED BY <4>1, <4>2, <1>l
    <3> QED BY <3>1, <3>2
  <2>3. \A v \in Workers : op = "yield" /\ pc'[v] \in holds => lctx'[v] = uctx
    BY <2>1, <2>2, ThreadFacts
  <2>4. op = "yield" => lctx'[Host] = uctx
    BY <2>1, ThreadFacts
  <2> QED BY <2>1, <2>3, <2>4
<1>12. CASE UNCHANGED vars
  BY <1>12 DEF vars
<1> QED
  BY <1>1, <1>2, <1>3, <1>5, <1>6, <1>8, <1>9, <1>10, <1>11, <1>12
     DEF Next, HostCall, HostStep, Halted

-----------------------------------------------------------------------------
(* A step that takes no thread into or out of a pop keeps QueueInv.        *)
LEMMA QueueKeeps ==
  ASSUME QueueInv, UNCHANGED <<idx, len, runs, cur>>,
         \A t \in Threads : pc'[t] = "cas" => pc[t] = "cas",
         \A t \in Threads : pc'[t] = "exec" <=> pc[t] = "exec",
         op' = "yield" /\ pc'[Host] \in {"gsig", "gst"} => idx >= len
  PROVE  QueueInv'
  BY DEF QueueInv

(* Nobody is in a pop while tasks are given out.                           *)
LEMMA NobodyPops ==
  ASSUME TypeOK, ProtocolInv, op # "yield"
  PROVE  \A t \in Threads : pc[t] \notin PopPCs
<1>1. pc[Host] \notin PopPCs
  BY DEF TypeOK, ProtocolInv, CreateInv, IdleInv, YieldInv, QuitInv, PopPCs
<1>2. \A w \in Workers : pc[w] \notin PopPCs
  BY DEF TypeOK, ProtocolInv, CreateInv, IdleInv, QuitInv, PopPCs, AtRest, Starting, Stopping
<1> QED BY <1>1, <1>2, ThreadFacts

(* Every step of rsched_queue_pop, by any thread, keeps the account of the queue. *)
LEMMA PopStep ==
  ASSUME TypeOK, QueueInv, NEW t \in Threads, Pop(t),
         t = Host => op = "yield"
  PROVE  QueueInv'
<1> USE RschedAssumption, ThreadFacts DEF hostVars, queueVars, mailVars, ctxVars
<1>t. /\ idx \in Nat /\ len \in Nat /\ cur \in [Threads -> 0 .. MaxLen] /\ runs \in [Slots -> Nat]
      /\ idx <= MaxLen + 1 /\ len <= MaxLen /\ PcOK
  BY DEF TypeOK
<1>d. ASSUME Drained(t), idx >= len, UNCHANGED <<idx, len, runs>>,
             pc[t] \in {"load", "cas"}, \A u \in Threads : u # t => cur'[u] = cur[u]
      PROVE QueueInv'
  <2>1. pc'[t] \in {"gsig", "ready", "nul"} /\ \A u \in Threads : u # t => pc'[u] = pc[u]
    BY <1>d, <1>t, GotoEffect DEF Drained, HostLoop
  <2> QED BY <1>d, <2>1 DEF QueueInv
<1>1. CASE PopLoad(t)
  <2>1. CASE idx < len
    <3>1. pc'[t] = "cas" /\ \A u \in Threads : u # t => pc'[u] = pc[u]
      BY <1>1, <2>1, <1>t, GotoEffect DEF PopLoad, TasksLeft
    <3>2. cur'[t] = idx /\ \A u \in Threads : u # t => cur'[u] = cur[u]
      BY <1>1, <2>1, <1>t DEF PopLoad, TasksLeft
    <3>3. UNCHANGED <<op, idx, len, runs>> /\ pc[t] = "load"
      BY <1>1, <2>1 DEF PopLoad, TasksLeft
    <3> QED BY <2>1, <3>1, <3>2, <3>3, <1>t DEF QueueInv
  <2>2. CASE ~(idx < len)
    BY <1>1, <2>2, <1>t, <1>d DEF PopLoad, TasksLeft
  <2> QED BY <2>1, <2>2
<1>2. CASE PopTake(t)
  <2>1. /\ pc[t] = "cas" /\ pc'[t] = "exec" /\ \A u \in Threads : u # t => pc'[u] = pc[u]
        /\ idx = cur[t] /\ idx' = idx + 1 /\ UNCHANGED <<op, len, runs, cur>>
    BY <1>2, <1>t, GotoEffect DEF PopTake, CounterIs
  <2>2. cur[t] \in Slots /\ cur[t] <= len /\ runs[cur[t]] = 0
    BY <2>1, <1>t DEF QueueInv, Slots
  <2>3. \A u \in Threads : pc[u] = "exec" => cur[u] < idx /\ cur[u] \in Nat
    BY <1>t DEF QueueInv
  <2>4. \A u \in Threads : pc'[u] = "exec" => cur[u] < idx' /\ runs[cur[u]] = 0
    BY <2>1, <2>2, <2>3, <1>t DEF QueueInv
  <2>5. \A u, v \in Threads : pc'[u] = "exec" /\ pc'[v] = "exec" /\ cur[u] = cur[v] => u = v
    BY <2>1, <2>3, <1>t DEF QueueInv
  <2>6. \A k \in Slots : k < idx' => \/ runs[k] = 1
                                     \/ \E u \in Threads : pc'[u] = "exec" /\ cur[u] = k
    <3> SUFFICES ASSUME NEW k \in Slots, k < idx + 1, runs[k] # 1
                 PROVE \E u \in Threads : pc'[u] = "exec" /\ cur[u] = k
      BY <2>1
    <3>1. CASE k = idx
      BY <3>1, <2>1
    <3>2. CASE k < idx
      <4>1. PICK u \in Threads : pc[u] = "exec" /\ cur[u] = k
        BY <3>2 DEF QueueInv
      <4> QED BY <4>1, <2>1
    <3> QED BY <3>1, <3>2, <1>t DEF Slots
  <2>7. \A k \in Slots : k >= idx' => runs[k] = 0
    BY <2>1, <1>t DEF QueueInv, Slots
  <2>8. /\ idx' <= len + 1 /\ \A u \in Threads : pc'[u] = "cas" => cur[u] <= len
        /\ op' = "yield" /\ pc'[Host] \in {"gsig", "gst"} => idx' >= len
    BY <2>1, <2>2, <1>t DEF QueueInv
  <2> QED BY <2>1, <2>4, <2>5, <2>6, <2>7, <2>8 DEF QueueInv
<1>3. CASE PopMiss(t)
  <2>1. CASE idx < len
    <3>1. /\ UNCHANGED <<pc, op, idx, len, runs>> /\ pc[t] = "cas"
          /\ cur'[t] = idx + 1 /\ \A u \in Threads : u # t => cur'[u] = cur[u]
      BY <1>3, <2>1, <1>t DEF PopMiss, TasksLeft
    <3> QED BY <2>1, <3>1, <1>t DEF QueueInv
  <2>2. CASE ~(idx < len)
    BY <1>3, <2>2, <1>t, <1>d DEF PopMiss, TasksLeft
  <2> QED BY <2>1, <2>2
<1>4. CASE Exec(t)
  <2>1. /\ pc[t] = "exec" /\ pc'[t] \in {"load", "poll"}
        /\ \A u \in Threads : u # t => pc'[u] = pc[u] /\ cur'[u] = cur[u]
        /\ UNCHANGED <<op, idx, len>>
    BY <1>4, <1>t, GotoEffect DEF Exec
  <2>2. /\ cur[t] \in Slots /\ cur[t] < idx /\ runs[cur[t]] = 0
        /\ runs'[cur[t]] = 1 /\ \A k \in Slots : k # cur[t] => runs'[k] = runs[k]
    BY <1>4, <2>1, <1>t DEF Exec, QueueInv, Slots
  <2>3. \A u \in Threads : pc'[u] = "exec" => u # t /\ cur'[u] = cur[u] /\ pc[u] = "exec"
    BY <2>1
  <2>4. \A u \in Threads : pc'[u] = "exec" => cur'[u] < idx' /\ runs'[cur'[u]] = 0
    <3> SUFFICES ASSUME NEW u \in Threads, pc'[u] = "exec"
                 PROVE cur[u] < idx /\ runs'[cur[u]] = 0
      BY <2>1, <2>3
    <3>1. pc[u] = "exec" /\ u # t /\ cur[u] # cur[t] /\ cur[u] \in Slots
      BY <2>1, <2>3, <1>t DEF QueueInv, Slots
    <3> QED BY <3>1, <2>2 DEF QueueInv
  <2>5. \A k \in Slots : k >= idx' => runs'[k] = 0
    BY <2>1, <2>2, <1>t DEF QueueInv, Slots
  <2>6. \A k \in Slots : k < idx' => \/ runs'[k] = 1
                                     \/ \E u \in Threads : pc'[u] = "exec" /\ cur'[u] = k
    <3> SUFFICES ASSUME NEW k \in Slots, k < idx, runs'[k] # 1
                 PROVE \E u \in Threads : pc'[u] = "exec" /\ cur'[u] = k
      BY <2>1
    <3>1. k # cur[t] /\ runs[k] # 1
      BY <2>2
    <3>2. PICK u \in Threads : pc[u] = "exec" /\ cur[u] = k
      BY <3>1 DEF QueueInv
    <3> QED BY <3>1, <3>2, <2>1
  <2>7. \A u, v \in Threads : pc'[u] = "exec" /\ pc'[v] = "exec" /\ cur'[u] = cur'[v] => u = v
    BY <2>3 DEF QueueInv
  <2>8. /\ idx' <= len' + 1 /\ \A u \in Threads : pc'[u] = "cas" => cur'[u] <= len'
        /\ op' = "yield" /\ pc'[Host] \in {"gsig", "gst"} => idx' >= len'
    BY <2>1 DEF QueueInv
  <2> QED BY <2>4, <2>5, <2>6, <2>7, <2>8 DEF QueueInv
<1> QED BY <1>1, <1>2, <1>3, <1>4 DEF Pop

(* The account of the queue is kept by every step. *)
LEMMA QueueStep ==
  ASSUME TypeOK, ProtocolInv, QueueInv, [Next]_vars
  PROVE  QueueInv'
<1> USE DEF hostVars, queueVars, mailVars, ctxVars
<1>p. /\ pc[Host] = "ready" => op = "none"
      /\ pc[Host] \in PopPCs => op = "yield"
  BY DEF TypeOK, ProtocolInv, CreateInv, IdleInv, YieldInv, QuitInv, PopPCs
<1>1. CASE HostRequeue \/ \E n \in 0 .. MaxLen : HostCreateTasks(n)
  <2>1. /\ pc' = pc /\ cur' = cur /\ op' = op /\ idx' = 0 /\ len' \in 0 .. MaxLen
        /\ runs' = [k \in Slots |-> 0] /\ op = "none"
    BY <1>1, <1>p, RschedAssumption DEF HostRequeue, HostCreateTasks, TypeOK
  <2>2. \A t \in Threads : pc[t] \notin {"cas", "exec"}
    BY <2>1, NobodyPops DEF PopPCs
  <2>3. \A k \in Slots : runs'[k] = 0 /\ ~(k < idx')
    <3>1. \A k \in Slots : k \in Nat /\ runs'[k] = 0
      BY <2>1, RschedAssumption DEF Slots
    <3> QED BY <2>1, <3>1
  <2>4. idx' <= len' + 1 /\ op' # "yield"
    <3>1. PICK n \in Nat : len' = n
      BY <2>1, RschedAssumption
    <3>2. 0 <= n + 1
      OBVIOUS
    <3> QED BY <2>1, <3>1, <3>2
  <2>5. \A t \in Threads : pc'[t] \notin {"cas", "exec"}
    BY <2>1, <2>2
  <2> QED BY <2>3, <2>4, <2>5 DEF QueueInv
<1>2. ASSUME NEW p, Goto(Host, p), p \notin {"cas", "exec"}, pc[Host] \notin {"cas", "exec"},
             UNCHANGED <<idx, len, runs, cur>>,
             op' = "yield" /\ p \in {"gsig", "gst"} => op = "yield" /\ pc[Host] \in {"gsig", "gst"}
      PROVE QueueInv'
  <2>1. pc'[Host] = p /\ \A t \in Threads : t # Host => pc'[t] = pc[t]
    BY <1>2, ThreadFacts, GotoEffect DEF TypeOK
  <2>2. op' = "yield" /\ pc'[Host] \in {"gsig", "gst"} => idx >= len
    BY <1>2, <2>1 DEF QueueInv
  <2> QED BY <1>2, <2>1, <2>2, QueueKeeps
<1>3. CASE HostCreateFails
  BY <1>2, <1>3 DEF HostCreateFails
<1>4. CASE HostCreateWorker
  <2>1. op = "create" /\ op' = "create" /\ pc[Host] = "create"
    BY <1>4, <1>p DEF HostCreateWorker, TypeOK, ProtocolInv, IdleInv, YieldInv, QuitInv, PopPCs
  <2>2. \A t \in Threads : pc[t] \notin {"cas", "exec"}
    BY <2>1, NobodyPops DEF PopPCs
  <2>3. \A t \in Threads : pc'[t] \notin {"cas", "exec"}
    BY <1>4, <2>2, ThreadFacts DEF HostCreateWorker, TypeOK, PcOK
  <2> QED BY <1>4, <2>1, <2>2, <2>3, QueueKeeps DEF HostCreateWorker
<1>5. ASSUME NEW c \in Contexts, HostSetContext(c) PROVE QueueInv'
  BY <1>2, <1>5 DEF HostSetContext, HostLoop
<1>6. CASE HostUpdateWorker \/ HostYield
  BY <1>2, <1>6 DEF HostUpdateWorker, HostYield, HostLoop
<1>7. CASE HostShutdown \/ HostJoin
  BY <1>2, <1>7, <1>p DEF HostShutdown, HostJoin, HostLoop, TypeOK, ProtocolInv, YieldInv, PopPCs
<1>8. CASE HostSend \/ HostDestroyWorker
  BY <1>2, <1>8 DEF HostSend, HostDestroyWorker, HostLoop
<1>9. CASE HostSendRetry
  BY <1>9, QueueKeeps DEF HostSendRetry, QueueInv
<1>10. CASE HostSeeQuiet
  BY <1>2, <1>10 DEF HostSeeQuiet
<1>11. CASE HostSeeWaiting \/ HostSeeOther
  BY <1>2, <1>11 DEF HostSeeWaiting, HostSeeOther, HostLoop
<1>12. CASE HostJoinNobody
  <2>1. op = "quit" /\ op' = "quit"
    BY <1>12 DEF HostJoinNobody, TypeOK, ProtocolInv, CreateInv, IdleInv, YieldInv, PopPCs
  <2>2. CASE HostLoop(hi + 1, "gsig", "gone")
    BY <1>2, <1>12, <2>1, <2>2 DEF HostJoinNobody, HostLoop
  <2>3. CASE pc' = [t \in Threads |-> IF t = Host THEN "crashed" ELSE "none"]
    <3>1. \A t \in Threads : pc[t] \notin {"cas", "exec"}
      BY <2>1, NobodyPops DEF PopPCs
    <3>2. \A t \in Threads : pc'[t] \notin {"cas", "exec"}
      BY <2>3
    <3> QED BY <1>12, <2>1, <3>1, <3>2, QueueKeeps DEF HostJoinNobody
  <2> QED BY <1>12, <2>2, <2>3 DEF HostJoinNobody
<1>13. CASE Pop(Host)
  <2>1. op = "yield"
    BY <1>13, <1>p DEF Pop, PopLoad, PopTake, PopMiss, Exec, PopPCs
  <2> QED BY <1>13, <2>1, PopStep, ThreadFacts
<1>14. ASSUME NEW w \in Workers, WorkerStep(w) PROVE QueueInv'
  <2>1. CASE Pop(w)
    BY <2>1, PopStep, ThreadFacts
  <2>2. CASE ~Pop(w)
    <3>1. UNCHANGED <<idx, len, runs, cur>>
      BY <1>14, <2>2 DEF WorkerStep, SetWaiting, SigReceive, ReadContext, SetRunning, SigUnlock, SetDown
    <3>2. pc[w] \notin {"cas", "exec"} /\ pc'[w] \notin {"cas", "exec"}
      <4> USE ThreadFacts, GotoEffect DEF TypeOK
      <4>1. CASE SetWaiting(w) \/ SetRunning(w) \/ SetDown(w)
        BY <4>1 DEF SetWaiting, SetRunning, SetDown
      <4>2. CASE SigReceive(w)
        BY <4>2 DEF SigReceive, OnSignal
      <4>3. CASE SigUnlock(w)
        BY <4>3 DEF SigUnlock, UnlockPCs, AfterUnlock
      <4>4. CASE ReadContext(w)
        BY <4>4 DEF ReadContext
      <4> QED BY <1>14, <2>2, <4>1, <4>2, <4>3, <4>4 DEF WorkerStep
    <3>3. /\ pc'[Host] = pc[Host] /\ op' = op
          /\ \A t \in Threads : t # w => pc'[t] = pc[t]
      BY <1>14, WorkerStepLocal
    <3>4. op' = "yield" /\ pc'[Host] \in {"gsig", "gst"} => idx >= len
      BY <3>3 DEF QueueInv
    <3> QED BY <3>1, <3>2, <3>3, <3>4, QueueKeeps
  <2> QED BY <2>1, <2>2
<1>15. CASE UNCHANGED vars
  BY <1>15 DEF vars, QueueInv
<1> QED
  BY <1>1, <1>3, <1>4, <1>5, <1>6, <1>7, <1>8, <1>9, <1>10, <1>11, <1>12, <1>13, <1>14, <1>15
     DEF Next, HostCall, HostStep, Halted

(* A step that moves the host on, but neither a worker nor the index.      *)
LEMMA ShutdownKeeps ==
  ASSUME ShutdownInv, op = "quit", pc[Host] # "crashed", pc'[Host] # "gone", hi' = hi,
         \A w \in Workers : pc'[w] = pc[w]
  PROVE  ShutdownInv'
  BY DEF ShutdownInv, Over

(* The host goes on to the next worker when this one is over.              *)
LEMMA ShutdownGoesOn ==
  ASSUME TypeOK, ShutdownInv, op = "quit", pc[Host] = "join", Over(hi), HostLoop(hi + 1, "gsig", "gone")
  PROVE  ShutdownInv'
<1>1. hi \in Workers /\ hi \in Nat /\ hi < NWorkers /\ hi + 1 \in Nat
  BY ThreadFacts DEF TypeOK, LoopOK, LoopPCs
<1>2. \A w \in Workers : pc'[w] = pc[w]
  BY ThreadFacts, GotoEffect DEF TypeOK, HostLoop
<1>3. hi' = hi + 1 \/ (hi' = 0 /\ \A w \in Workers : w < hi + 1)
  BY <1>1, ThreadFacts, RschedAssumption DEF HostLoop
<1>4. hi' = hi + 1 => pc'[Host] # "gone"
  BY <1>1, RschedAssumption, ThreadFacts, GotoEffect DEF HostLoop, TypeOK
<1>5. \A w \in Workers : w < hi + 1 => Over(w)
  <2>1. \A w \in Workers : w < hi + 1 => w < hi \/ w = hi
    BY <1>1, ThreadFacts
  <2>. QED  BY <2>1 DEF ShutdownInv
<1>. QED  BY <1>1, <1>2, <1>3, <1>4, <1>5, ThreadFacts DEF ShutdownInv, Over

LEMMA ShutdownStep == TypeOK /\ ProtocolInv /\ ShutdownInv /\ [Next]_vars => ShutdownInv'
<1>. SUFFICES ASSUME TypeOK, ProtocolInv, ShutdownInv, [Next]_vars PROVE ShutdownInv'
  OBVIOUS
<1>h. \A w \in Workers : w \in Nat /\ w < NWorkers /\ w # Host
  BY ThreadFacts
<1>o. /\ op = "quit" => pc[Host] \in {"gsig", "gst", "send", "join", "gone", "crashed"}
      /\ op \in {"create", "none", "yield", "quit"}
      /\ pc[Host] = "ready" => op = "none"
      /\ PopPCs = {"load", "cas", "exec"}
  BY DEF TypeOK, ProtocolInv, CreateInv, IdleInv, YieldInv, QuitInv, PopPCs
<1>1. CASE HostCreateFails
  <2>1. \A w \in Workers : pc'[w] = pc[w] /\ hi' = 0 /\ pc'[Host] = "gsig" /\ pc[Host] = "create"
    BY <1>1, ThreadFacts, GotoEffect DEF HostCreateFails, TypeOK
  <2>2. op = "create" /\ hi \in Nat
    BY <1>1 DEF HostCreateFails, TypeOK, ProtocolInv, CreateInv, IdleInv, YieldInv, QuitInv, PopPCs, LoopOK
  <2>3. \A w \in Workers : pc[w] = "none" <=> w >= hi
    BY <2>1, <2>2, <1>h DEF ProtocolInv, CreateInv, Starting, AtRest
  <2>. QED  BY <2>1, <2>2, <2>3, <1>h DEF ShutdownInv
<1>2. CASE HostShutdown
  <2>1. hi' = 0 /\ \A w \in Workers : pc'[w] = pc[w] /\ pc'[Host] # "gone"
    BY <1>2, <1>h, ThreadFacts, RschedAssumption, GotoEffect DEF HostShutdown, HostLoop, TypeOK
  <2>2. \A w \in Workers : pc[w] # "none"
    BY <1>2, <1>o DEF HostShutdown, ProtocolInv, IdleInv, AtRest
  <2>. QED  BY <2>1, <2>2, <1>h DEF ShutdownInv
<1>3. CASE HostSeeOther
  <2>1. \A w \in Workers : pc'[w] = pc[w]
    BY <1>3, ThreadFacts, GotoEffect DEF HostSeeOther, TypeOK
  <2>2. op' = "quit" => op = "create" /\ hi' = 0 /\ pc'[Host] # "gone"
    BY <1>3, <1>o, ThreadFacts, GotoEffect DEF HostSeeOther, TypeOK
  <2>3. op' = "quit" => \A w \in Workers : pc[w] # "none"
    BY <1>3, <2>2 DEF HostSeeOther, ProtocolInv, CreateInv, Starting, AtRest
  <2>. QED  BY <2>1, <2>2, <2>3, <1>h DEF ShutdownInv
<1>4. CASE HostSeeQuiet \/ HostDestroyWorker \/ HostSendRetry \/ HostSend
  <2>1. \A w \in Workers : pc'[w] = pc[w]
    BY <1>4, ThreadFacts, GotoEffect DEF HostSeeQuiet, HostDestroyWorker, HostSendRetry, HostSend, HostLoop, TypeOK
  <2>2. op' = op /\ pc[Host] # "crashed"
    BY <1>4 DEF HostSeeQuiet, HostDestroyWorker, HostSendRetry, HostSend, hostVars
  <2>3. op = "quit" => hi' = hi /\ pc'[Host] # "gone"
    BY <1>4, ThreadFacts, GotoEffect
       DEF HostSeeQuiet, HostDestroyWorker, HostSendRetry, HostSend, hostVars, TypeOK
  <2>4. CASE op = "quit"
    BY <2>1, <2>2, <2>3, <2>4, ShutdownKeeps
  <2>. QED  BY <2>2, <2>4 DEF ShutdownInv
<1>5. CASE HostJoin
  <2>1. op = "quit" /\ pc[Host] = "join" /\ Over(hi) /\ HostLoop(hi + 1, "gsig", "gone")
    BY <1>5, <1>o DEF HostJoin, Over, ProtocolInv, CreateInv, IdleInv, YieldInv
  <2>. QED  BY <2>1, ShutdownGoesOn
<1>6. CASE HostJoinNobody
  <2>1. op = "quit" /\ pc[Host] = "join" /\ Over(hi)
    BY <1>6, <1>o DEF HostJoinNobody, Over, ProtocolInv, CreateInv, IdleInv, YieldInv
  <2>2. CASE HostLoop(hi + 1, "gsig", "gone")
    BY <2>1, <2>2, ShutdownGoesOn
  <2>3. CASE pc' = [t \in Threads |-> IF t = Host THEN "crashed" ELSE "none"]
    BY <2>3, ThreadFacts DEF ShutdownInv
  <2>. QED  BY <1>6, <2>2, <2>3 DEF HostJoinNobody
<1>7. CASE HostCreateWorker \/ HostUpdateWorker \/ HostSeeWaiting \/ HostYield \/ HostRequeue \/ Pop(Host)
           \/ (\E c \in Contexts : HostSetContext(c)) \/ (\E n \in 0 .. MaxLen : HostCreateTasks(n))
  <2>1. op' # "quit"
    BY <1>7, <1>o DEF HostCreateWorker, HostUpdateWorker, HostSeeWaiting, HostYield, HostRequeue, Pop, PopLoad,
       PopTake, PopMiss, Exec, Drained, HostSetContext, HostCreateTasks, hostVars
  <2>. QED  BY <2>1 DEF ShutdownInv
<1>8. ASSUME NEW w \in Workers, WorkerStep(w) PROVE ShutdownInv'
  <2>1. /\ pc'[Host] = pc[Host] /\ op' = op /\ hi' = hi
        /\ \A v \in Workers : v # w => pc'[v] = pc[v]
    BY <1>8, WorkerStepLocal DEF Same
  <2>2. ~Over(w)
    BY <1>8 DEF WorkerStep, Over, SetWaiting, SigReceive, ReadContext, SetRunning, SigUnlock, UnlockPCs, SetDown,
       Pop, PopLoad, PopTake, PopMiss, Exec
  <2>3. CASE op = "quit" /\ pc[Host] # "crashed"
    <3>1. Stopping(w)
      BY <2>3 DEF ProtocolInv, QuitInv
    <3>2. pc'[w] # "none"
      BY <1>8, <2>2, <3>1, ThreadFacts, GotoEffect
         DEF TypeOK, WorkerStep, Over, Stopping, SetWaiting, SigReceive, OnSignal, ReadContext, SetRunning, SigUnlock,
             UnlockPCs, AfterUnlock, SetDown, Pop, PopLoad, PopTake, PopMiss, Exec
    <3>. QED  BY <2>1, <2>2, <2>3, <3>2 DEF ShutdownInv, Over
  <2>. QED  BY <2>1, <2>3 DEF ShutdownInv
<1>9. CASE UNCHANGED vars
  BY <1>9 DEF ShutdownInv, Over, vars, hostVars
<1>. QED
  BY <1>1, <1>2, <1>3, <1>4, <1>5, <1>6, <1>7, <1>8, <1>9 DEF Next, HostCall, HostStep, Halted

-----------------------------------------------------------------------------
(* The inductive invariant.  Each part needs the ones before it: a queue   *)
(* is refilled only while nobody pops, which the protocol guarantees.      *)
THEOREM InductiveInvariant == Spec => []IInv
<1>1. Init => IInv
  <2> SUFFICES ASSUME Init PROVE ProtocolInv /\ ShutdownInv /\ ContextInv /\ QueueInv
    BY InitTypes DEF IInv
  <2>1. /\ pc[Host] = Created /\ \A w \in Workers : w \in Nat /\ w # Host
        /\ NWorkers = 0 => Workers = {}
    BY ThreadFacts, RschedAssumption DEF Init, Workers
  <2>2. ProtocolInv
    BY <2>1, ThreadFacts DEF Init, Created, ProtocolInv, CreateInv, IdleInv, YieldInv, QuitInv
  <2>3. ContextInv
    BY <2>1 DEF Init, Created, ContextInv
  <2>4. QueueInv
    BY RschedAssumption DEF Init, Created, QueueInv, Slots
  <2>5. ShutdownInv
    BY DEF Init, ShutdownInv
  <2> QED BY <2>2, <2>3, <2>4, <2>5
<1>2. TypeOK /\ IInv /\ [Next]_vars /\ TypeOK' => IInv'
  BY ProtocolStep, ShutdownStep, ContextStep, QueueStep DEF IInv
<1> QED
  BY <1>1, <1>2, TypeCorrect, PTL DEF Spec

(* When the scheduler is freed, and when it joins what is no thread, every *)
(* thread that was created has ended, however many were.                   *)
THEOREM FreedAfterThreads == Spec => []NoThreadLeft
<1>1. IInv => NoThreadLeft
  <2>. SUFFICES ASSUME IInv, pc[Host] = "gone" \/ (pc[Host] = "join" /\ pc[hi] = "none"),
                       NEW w \in Workers
                PROVE  Over(w)
    BY DEF NoThreadLeft
  <2>1. op = "quit"
    BY DEF IInv, TypeOK, ProtocolInv, CreateInv, IdleInv, YieldInv, PopPCs
  <2>2. CASE pc[Host] = "gone"
    BY <2>1, <2>2 DEF IInv, ShutdownInv
  <2>3. CASE pc[Host] = "join" /\ pc[hi] = "none"
    <3>1. hi \in Workers /\ hi \in Nat /\ w \in Nat
      BY <2>3, ThreadFacts DEF IInv, TypeOK, LoopOK, LoopPCs
    <3>2. w < hi \/ w = hi \/ hi < w
      BY <3>1
    <3>. QED  BY <2>1, <2>3, <3>1, <3>2 DEF IInv, ShutdownInv, Over
  <2>. QED  BY <2>2, <2>3
<1>. QED  BY <1>1, InductiveInvariant, PTL

(* Between two frames no worker is near the queue or the user's data.      *)
THEOREM Isolation == Spec => []FrameIsolation
<1>1. IInv => FrameIsolation
  BY DEF IInv, ProtocolInv, CreateInv, IdleInv, FrameIsolation, Resting, AtRest, Starting
<1> QED BY <1>1, InductiveInvariant, PTL

(* No task runs twice, and no two threads hold the same one.               *)
THEOREM TasksRunOnce == Spec => []ExactlyOnce
<1>1. IInv => ExactlyOnce
  <2> SUFFICES ASSUME IInv PROVE ExactlyOnce
    OBVIOUS
  <2>1. ASSUME NEW k \in Slots PROVE runs[k] <= 1
    <3>1. CASE k >= idx
      BY <3>1 DEF IInv, QueueInv
    <3>2. CASE k < idx
      BY <3>2 DEF IInv, QueueInv
    <3> QED BY <3>1, <3>2, RschedAssumption DEF IInv, TypeOK, Slots
  <2> QED BY <2>1 DEF IInv, QueueInv, ExactlyOnce
<1> QED BY <1>1, InductiveInvariant, PTL

(* The counter passes the length by at most one, however many threads race. *)
THEOREM CounterBound == Spec => []OverrunByOne
<1>1. IInv => OverrunByOne
  <2> SUFFICES ASSUME IInv, NEW t \in Threads, pc[t] = "exec"
               PROVE  cur[t] <= len
    BY DEF IInv, QueueInv, OverrunByOne
  <2>1. cur[t] < idx /\ idx <= len + 1 /\ cur[t] \in Nat /\ idx \in Nat /\ len \in Nat
    BY RschedAssumption DEF IInv, QueueInv, TypeOK
  <2> QED BY <2>1
<1> QED BY <1>1, InductiveInvariant, PTL

(* Every task runs with the context the caller installed last.             *)
THEOREM FreshContext == Spec => []ContextFresh
<1>1. IInv => ContextFresh
  <2> SUFFICES ASSUME IInv, NEW t \in Threads, pc[t] = "exec"
               PROVE  lctx[t] = uctx /\ uctx # NoCtx
    BY DEF ContextFresh
  <2>1. op = "yield"
    BY NobodyPops DEF IInv, PopPCs
  <2> QED BY <2>1, ThreadFacts DEF IInv, ContextInv, PopPCs
<1> QED BY <1>1, InductiveInvariant, PTL

-----------------------------------------------------------------------------
(* The mapping to TaskFrames.                                              *)
LEMMA PhaseIs ==
  /\ op \in {"create", "none"} => Phase = "idle"
  /\ op = "yield" => Phase = "busy"
  /\ op = "quit" => Phase = "off"
  BY DEF Phase

(* The same of the next state. *)
LEMMA PhaseIsNext ==
  /\ op' \in {"create", "none"} => Phase' = "idle"
  /\ op' = "yield" => Phase' = "busy"
  /\ op' = "quit" => Phase' = "off"
  BY DEF Phase

(* A step that neither runs a task nor changes the phase is invisible. *)
LEMMA FramesStutter ==
  ASSUME UNCHANGED <<len, runs>>, Phase' = Phase
  PROVE  UNCHANGED Frames!vars
  BY DEF Frames!vars, TaskRuns

(* When a frame ends, every task of it has run.                            *)
LEMMA FrameDone ==
  IInv /\ op = "none" /\ idx >= len => \A k \in Slots : k < len => TaskRuns[k] = 1
<1> SUFFICES ASSUME IInv, op = "none", idx >= len
             PROVE  \A k \in Slots : k < len => TaskRuns[k] = 1
  OBVIOUS
<1>1. \A t \in Threads : pc[t] # "exec"
  BY NobodyPops DEF IInv, PopPCs
<1>2. ASSUME NEW k \in Slots, k < len PROVE runs[k] = 1
  <2>1. k < idx
    BY <1>2, RschedAssumption DEF IInv, TypeOK, Slots
  <2> QED BY <1>1, <2>1 DEF IInv, QueueInv
<1> QED BY <1>2 DEF TaskRuns

(* A thread runs a task: one Do of TaskFrames, or no step of it at all if  *)
(* the slot is the one past the end.                                       *)
LEMMA ExecIsDo ==
  ASSUME IInv, NEW t \in Threads, Exec(t)
  PROVE  [Frames!Next]_(Frames!vars)
<1>1. /\ pc[t] = "exec" /\ cur[t] \in Slots /\ runs[cur[t]] = 0
      /\ runs' = [runs EXCEPT ![cur[t]] = 1] /\ len' = len /\ op' = op
  <2>1. pc[t] = "exec" /\ cur[t] \in Slots /\ runs[cur[t]] = 0
    BY DEF Exec, IInv, TypeOK, QueueInv, Slots
  <2>2. runs' = [runs EXCEPT ![cur[t]] = runs[cur[t]] + 1] /\ len' = len /\ op' = op
    BY DEF Exec, hostVars
  <2> QED BY <2>1, <2>2
<1>2. op = "yield" /\ Phase = "busy" /\ Phase' = Phase
  BY <1>1, NobodyPops, PhaseIs, PhaseIsNext DEF IInv, PopPCs
<1>3. runs \in [Slots -> Nat]
  BY DEF IInv, TypeOK
<1>4. CASE cur[t] < len
  <2>1. TaskRuns[cur[t]] = 0
    BY <1>1, <1>4 DEF TaskRuns
  <2>2. TaskRuns' = [TaskRuns EXCEPT ![cur[t]] = 1]
    BY <1>1, <1>3, <1>4 DEF TaskRuns
  <2>3. Frames!Do(cur[t])
    BY <1>1, <1>2, <1>4, <2>1, <2>2 DEF Frames!Do
  <2> QED BY <1>1, <2>3 DEF Frames!Next, Frames!Slots, Slots
<1>5. CASE ~(cur[t] < len)
  <2>1. TaskRuns' = TaskRuns
    BY <1>1, <1>3, <1>5 DEF TaskRuns
  <2> QED BY <1>1, <1>2, <2>1 DEF Frames!vars
<1> QED BY <1>4, <1>5

(* A step that neither runs nor gives out tasks: the phase moves along the *)
(* calls, and a frame is left only when it is done.                        *)
LEMMA PhaseStep ==
  ASSUME IInv, IInv', UNCHANGED <<len, runs>>,
         \/ Phase' = Phase
         \/ op \in {"create", "none"} /\ op' \in {"create", "none", "yield", "quit"}
         \/ op = "yield" /\ op' = "none" /\ idx' >= len'
  PROVE  [Frames!Next]_(Frames!vars)
<1>1. TaskRuns' = TaskRuns
  BY DEF TaskRuns
<1>2. CASE Phase' = Phase
  BY <1>2, FramesStutter
<1>3. CASE op \in {"create", "none"} /\ op' \in {"create", "none", "yield", "quit"}
  <2>1. Phase = "idle" /\ Phase' \in {"idle", "busy", "off"}
    BY <1>3, PhaseIs, PhaseIsNext
  <2> QED BY <1>1, <2>1 DEF Frames!Next, Frames!Begin, Frames!Quit, Frames!vars
<1>4. CASE op = "yield" /\ op' = "none" /\ idx' >= len'
  <2>1. Phase = "busy" /\ Phase' = "idle"
    BY <1>4, PhaseIs, PhaseIsNext
  <2>2. (\A k \in Slots : k < len => TaskRuns[k] = 1)'
    <3>1. (IInv /\ op = "none" /\ idx >= len)'
      BY <1>4
    <3> QED BY <3>1, FrameDone, PTL
  <2>3. \A k \in Slots : k < len => TaskRuns[k] = 1
    BY <1>1, <2>2
  <2> QED BY <1>1, <2>1, <2>3 DEF Frames!Next, Frames!End, Frames!Slots, Slots
<1> QED BY <1>2, <1>3, <1>4

(* Every step of the scheduler is a step of TaskFrames or invisible to it. *)
LEMMA FramesStep ==
  ASSUME IInv, IInv', [Next]_vars
  PROVE  [Frames!Next]_(Frames!vars)
<1> USE DEF hostVars, queueVars, mailVars, ctxVars
<1>p. /\ pc[Host] \in {"ready", "ctx"} => op = "none"
      /\ pc[Host] = "create" => op = "create"
      /\ pc[Host] \in {"join", "gone", "crashed"} => op = "quit"
      /\ pc[Host] \in PopPCs => op = "yield"
      /\ op \in {"create", "none", "yield", "quit"}
  BY DEF IInv, TypeOK, ProtocolInv, CreateInv, IdleInv, YieldInv, QuitInv, PopPCs
<1>s. op' = op => Phase' = Phase
  BY DEF Phase
<1>1. ASSUME NEW n \in 0 .. MaxLen, HostCreateTasks(n) PROVE [Frames!Next]_(Frames!vars)
  <2>1. Phase = "idle" /\ Phase' = Phase /\ len' = n
    BY <1>1, <1>p, <1>s, PhaseIs DEF HostCreateTasks
  <2>2. TaskRuns' = Frames!NotRun
    BY <1>1 DEF HostCreateTasks, TaskRuns, Frames!NotRun, Frames!Slots, Slots
  <2>3. Frames!Load(n)
    BY <2>1, <2>2 DEF Frames!Load
  <2> QED BY <2>3 DEF Frames!Next
<1>2. CASE HostRequeue
  <2>1. Phase = "idle" /\ Phase' = Phase /\ len' = len
    BY <1>2, <1>p, <1>s, PhaseIs DEF HostRequeue
  <2>2. TaskRuns' = Frames!NotRun
    BY <1>2 DEF HostRequeue, TaskRuns, Frames!NotRun, Frames!Slots, Slots
  <2>3. Frames!Rearm
    BY <2>1, <2>2 DEF Frames!Rearm
  <2> QED BY <2>3 DEF Frames!Next
<1>3. CASE HostCreateWorker \/ HostUpdateWorker \/ HostSendRetry \/ HostSeeQuiet
           \/ HostDestroyWorker \/ HostJoin \/ HostJoinNobody \/ HostSend
  BY <1>3, <1>s, PhaseStep
     DEF HostCreateWorker, HostUpdateWorker, HostSendRetry, HostSeeQuiet, HostDestroyWorker,
         HostJoin, HostJoinNobody, HostSend
<1>4. CASE HostCreateFails \/ HostYield \/ HostShutdown
  BY <1>4, <1>p, PhaseStep DEF HostCreateFails, HostYield, HostShutdown
<1>5. ASSUME NEW c \in Contexts, HostSetContext(c) PROVE [Frames!Next]_(Frames!vars)
  BY <1>5, <1>s, PhaseStep DEF HostSetContext
<1>6. CASE HostSeeWaiting
  <2>1. op \in {"create", "yield"} /\ op' \in {op, "none"}
    BY <1>6, <1>p DEF HostSeeWaiting, IInv, ProtocolInv, IdleInv
  <2>2. op = "yield" => idx' >= len'
    BY <1>6 DEF HostSeeWaiting, IInv, QueueInv
  <2> QED BY <1>6, <2>1, <2>2, <1>s, PhaseStep DEF HostSeeWaiting
<1>7. CASE HostSeeOther
  <2>1. op \in {"create", "yield"} /\ op' \in {op, "none", "quit"} /\ (op = "yield" => op' # "quit")
    BY <1>7, <1>p DEF HostSeeOther, IInv, ProtocolInv, IdleInv
  <2>2. op = "yield" => idx' >= len'
    BY <1>7 DEF HostSeeOther, IInv, QueueInv
  <2> QED BY <1>7, <2>1, <2>2, <1>s, PhaseStep DEF HostSeeOther
<1>8. ASSUME NEW t \in Threads, Pop(t) PROVE [Frames!Next]_(Frames!vars)
  <2>1. ASSUME UNCHANGED op \/ (Drained(t) /\ pc[t] \in PopPCs /\ idx >= len), UNCHANGED <<idx, len, runs>>
        PROVE  [Frames!Next]_(Frames!vars)
    <3>1. CASE UNCHANGED op
      BY <2>1, <3>1, <1>s, PhaseStep
    <3>2. CASE Drained(t) /\ pc[t] \in PopPCs /\ idx >= len /\ op' # op
      <4>1. op = "yield" /\ op' = "none"
        BY <3>2, <1>p DEF Drained
      <4> QED BY <2>1, <3>2, <4>1, PhaseStep
    <3> QED BY <2>1, <3>1, <3>2
  <2>2. idx < len \/ idx >= len
    BY RschedAssumption DEF IInv, TypeOK
  <2>3. CASE PopLoad(t)
    BY <2>1, <2>2, <2>3 DEF PopLoad, TasksLeft, PopPCs
  <2>4. CASE PopMiss(t)
    BY <2>1, <2>2, <2>4 DEF PopMiss, TasksLeft, PopPCs
  <2>5. CASE PopTake(t)
    BY <2>5, <1>s, PhaseStep DEF PopTake
  <2>6. CASE Exec(t)
    BY <2>6, ExecIsDo
  <2> QED BY <1>8, <2>3, <2>4, <2>5, <2>6 DEF Pop
<1>9. ASSUME NEW w \in Workers, SetWaiting(w) \/ SigReceive(w) \/ ReadContext(w)
             \/ SetRunning(w) \/ SigUnlock(w) \/ SetDown(w)
      PROVE [Frames!Next]_(Frames!vars)
  BY <1>9, <1>s, PhaseStep DEF SetWaiting, SigReceive, ReadContext, SetRunning, SigUnlock, SetDown
<1>10. CASE UNCHANGED vars
  BY <1>10, <1>s, PhaseStep DEF vars
<1> QED
  BY <1>1, <1>2, <1>3, <1>4, <1>5, <1>6, <1>7, <1>8, <1>9, <1>10, ThreadFacts
     DEF Next, HostCall, HostStep, WorkerStep, Halted

(* The scheduler keeps the promise of TaskFrames: whatever the threads do, *)
(* rsched_host_yield returns only when each task has run exactly once.     *)
THEOREM Refinement == Spec => ImplementsFrames
<1>1. Init => Frames!Init
  BY DEF Init, Frames!Init, Phase, TaskRuns, Frames!NotRun, Frames!Slots, Slots
<1>2. IInv /\ IInv' /\ [Next]_vars => [Frames!Next]_(Frames!vars)
  BY FramesStep
<1> QED
  BY <1>1, <1>2, InductiveInvariant, PTL DEF Spec, ImplementsFrames, Frames!Spec
=============================================================================
