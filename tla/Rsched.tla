------------------------------- MODULE Rsched -------------------------------
(***************************************************************************)
(* The scheduler of sched/: a host thread and NWorkers worker threads that *)
(* share one task queue (an atomic counter over an array), and a mailbox   *)
(* per worker (the atomics `signal' and `state') through which the host    *)
(* starts and stops it.  One step is one access to an atomic, one critical *)
(* section of a worker's spinlock, or one call of the user's function.     *)
(***************************************************************************)
EXTENDS Integers

CONSTANTS NWorkers,      \* opts->threads - 1
          MaxLen,        \* bound on queue->length
          Contexts,      \* the (user_fun, user_ctx) pairs a caller may install
          NoCtx,         \* user_fun == NULL
          CanFail        \* may pthread_create fail?

ASSUME RschedAssumption ==
  /\ NWorkers \in Nat
  /\ MaxLen \in Nat
  /\ NoCtx \notin Contexts
  /\ CanFail \in BOOLEAN

Workers == 0 .. NWorkers - 1
Host == -1
Threads == Workers \cup {Host}
Slots == 0 .. MaxLen     \* slot `len' is read by the pop that overruns the queue

(* RS_SIG_* and RS_ST_*; a worker's memory is calloc'ed, its state is 0 at first. *)
Signals == {"NONE", "START", "INT", "QUIT", "LOCKED"}
States == {"zero", "RUNNING", "WAITING", "DOWN"}

VARIABLES pc,            \* where each thread is
          cur,           \* `cur' of each thread's rsched_queue_pop
          op,            \* the call the host is in, "none" between calls
          hi,            \* `i' of the host's loop over the workers
          esig,          \* `esig' of the host's rsched_send_worker_sig
          sig,           \* worker->signal
          st,            \* worker->state
          idx,           \* queue->cur_task_idx
          len,           \* queue->length
          uctx,          \* sched->user_fun, sched->user_ctx
          wctx,          \* worker->user_fun, worker->user_ctx (under worker->lock)
          lctx,          \* the copy each thread calls its tasks with
          runs           \* history: executions of each slot since it was given out

hostVars == <<op, hi, esig>>
queueVars == <<idx, len, runs>>
mailVars == <<sig, st>>
ctxVars == <<uctx, wctx, lctx>>
vars == <<pc, cur, hostVars, mailVars, queueVars, ctxVars>>

PopPCs == {"load", "cas", "exec"}
HostPCs == {"create", "ready", "ctx", "send", "gsig", "gst", "join", "gone", "crashed"} \cup PopPCs
LoopPCs == {"ctx", "send", "gsig", "gst", "join"}
WorkerPCs == {"none", "wait", "recv", "rel", "getctx", "run", "go", "poll", "cont",
              "nul", "int", "down", "exit", "dead"} \cup PopPCs

PcOK ==
  /\ pc \in [Threads -> HostPCs \cup WorkerPCs]
  /\ pc[Host] \in HostPCs
  /\ \A w \in Workers : pc[w] \in WorkerPCs

LoopOK ==                   \* inside a loop of the host, `i' is some worker's index
  /\ hi \in 0 .. NWorkers
  /\ pc[Host] \in LoopPCs => hi \in Workers

TypeOK ==
  /\ PcOK
  /\ cur \in [Threads -> 0 .. MaxLen]
  /\ op \in {"create", "none", "yield", "quit"}
  /\ LoopOK
  /\ esig \in Signals
  /\ sig \in [Workers -> Signals]
  /\ st \in [Workers -> States]
  /\ idx \in 0 .. MaxLen + 1
  /\ len \in 0 .. MaxLen
  /\ uctx \in Contexts \cup {NoCtx}
  /\ wctx \in [Workers -> Contexts \cup {NoCtx}]
  /\ lctx \in [Threads -> Contexts \cup {NoCtx}]
  /\ runs \in [Slots -> Nat]

(* calloc, rsched_queue_init; no thread has been created.  With            *)
(* --threads 1 rsched_create has no worker to create or to wait for.       *)
Created == IF NWorkers = 0 THEN "ready" ELSE "create"

Init ==
  /\ pc = [t \in Threads |-> IF t = Host THEN Created ELSE "none"]
  /\ cur = [t \in Threads |-> 0]
  /\ op = IF NWorkers = 0 THEN "none" ELSE "create"
  /\ hi = 0
  /\ esig = "NONE"
  /\ sig = [w \in Workers |-> "NONE"]
  /\ st = [w \in Workers |-> "zero"]
  /\ idx = 0
  /\ len = 0
  /\ uctx = NoCtx
  /\ wctx = [w \in Workers |-> NoCtx]
  /\ lctx = [t \in Threads |-> NoCtx]
  /\ runs = [k \in Slots |-> 0]

Goto(t, p) == pc' = [pc EXCEPT ![t] = p]

(* The host enters a loop over the workers at index i, or leaves it for p. *)
HostLoop(i, body, p) ==
  /\ hi' = IF i < NWorkers THEN i ELSE 0
  /\ Goto(Host, IF i < NWorkers THEN body ELSE p)

-----------------------------------------------------------------------------
(* rsched_queue_pop, by any thread.  `queue->length' is read with the      *)
(* atomic it is compared to: only the host writes it, between frames, and  *)
(* FrameIsolation shows that no worker is in a pop then.                   *)

(* Where a thread goes when the pop returns NULL. *)
Drained(t) ==
  IF t = Host
  THEN HostLoop(0, "gsig", "ready") /\ op' = IF NWorkers = 0 THEN "none" ELSE op
  ELSE Goto(t, "nul") /\ UNCHANGED <<op, hi>>

TasksLeftMutant == idx <= len                        \* `>' for `>='

TasksLeft == idx < len

PopLoad(t) ==
  /\ pc[t] = "load"
  /\ cur' = [cur EXCEPT ![t] = IF TasksLeft THEN idx ELSE 0]
  /\ IF TasksLeft
     THEN Goto(t, "cas") /\ UNCHANGED <<op, hi>>
     ELSE Drained(t)
  /\ UNCHANGED <<esig, mailVars, queueVars, ctxVars>>

(* The compare-and-swap that succeeds. *)
CounterIsMutant(t) == idx >= cur[t]                  \* takes a task that was taken since

CounterIs(t) == idx = cur[t]

PopTake(t) ==
  /\ pc[t] = "cas"
  /\ CounterIs(t)
  /\ idx' = idx + 1
  /\ Goto(t, "exec")
  /\ UNCHANGED <<cur, hostVars, mailVars, len, runs, ctxVars>>

(* The one that fails leaves the counter in `cur'; the code then compares  *)
(* it with the length, and only after that adds one.                       *)
PopMiss(t) ==
  /\ pc[t] = "cas"
  /\ ~CounterIs(t)
  /\ cur' = [cur EXCEPT ![t] = IF TasksLeft THEN idx + 1 ELSE 0]
  /\ IF TasksLeft
     THEN UNCHANGED <<pc, op, hi>>
     ELSE Drained(t)
  /\ UNCHANGED <<esig, mailVars, queueVars, ctxVars>>

(* proc_fun(t->x0, t->x1, t->y0, t->y1, user_ctx). *)
Exec(t) ==
  /\ pc[t] = "exec"
  /\ runs' = [runs EXCEPT ![cur[t]] = @ + 1]
  /\ cur' = [cur EXCEPT ![t] = 0]
  /\ Goto(t, IF t = Host THEN "load" ELSE "poll")
  /\ UNCHANGED <<hostVars, mailVars, idx, len, ctxVars>>

Pop(t) == PopLoad(t) \/ PopTake(t) \/ PopMiss(t) \/ Exec(t)

-----------------------------------------------------------------------------
(* The host: rsched_create.                                                *)

HostCreateWorker ==
  /\ pc[Host] = "create" /\ hi < NWorkers
  /\ hi' = IF hi + 1 < NWorkers THEN hi + 1 ELSE 0
  /\ pc' = [pc EXCEPT ![hi] = "wait", ![Host] = IF hi + 1 < NWorkers THEN "create" ELSE "gsig"]
  /\ UNCHANGED <<cur, op, esig, mailVars, queueVars, ctxVars>>

(* pthread_create fails: rsched_create calls rsched_shutdown, over every   *)
(* worker slot, and returns when that does.  Here it is "quit" from then on. *)
HostCreateFails ==
  /\ pc[Host] = "create" /\ hi < NWorkers /\ CanFail
  /\ st' = [st EXCEPT ![hi] = "DOWN"]
  /\ op' = "quit" /\ hi' = 0 /\ Goto(Host, "gsig")
  /\ UNCHANGED <<cur, esig, sig, queueVars, ctxVars>>

-----------------------------------------------------------------------------
(* The host: the calls a program makes between frames.                     *)

HostSetContext(c) ==        \* rsched_set_user_context: sched's own copy first
  /\ pc[Host] = "ready"
  /\ uctx' = c
  /\ HostLoop(0, "ctx", "ready")
  /\ UNCHANGED <<cur, op, esig, mailVars, queueVars, wctx, lctx>>

HostUpdateWorker ==         \* then each worker's, under that worker's lock
  /\ pc[Host] = "ctx"
  /\ wctx' = [wctx EXCEPT ![hi] = uctx]
  /\ HostLoop(hi + 1, "ctx", "ready")
  /\ UNCHANGED <<cur, op, esig, mailVars, queueVars, uctx, lctx>>

HostCreateTasks(n) ==       \* rsched_create_tasks: discard, then push n tasks
  /\ pc[Host] = "ready"
  /\ idx' = 0 /\ len' = n
  /\ runs' = [k \in Slots |-> 0]
  /\ UNCHANGED <<pc, cur, hostVars, mailVars, ctxVars>>

HostRequeue ==              \* rsched_requeue
  /\ pc[Host] = "ready"
  /\ idx' = 0
  /\ runs' = [k \in Slots |-> 0]
  /\ UNCHANGED <<pc, cur, hostVars, mailVars, len, ctxVars>>

(* rsched_host_yield; with no user function it returns MDB_FAIL at once.   *)
HostYield ==
  /\ pc[Host] = "ready" /\ uctx # NoCtx
  /\ op' = "yield" /\ esig' = "NONE"
  /\ lctx' = [lctx EXCEPT ![Host] = uctx]
  /\ HostLoop(0, "send", "load")
  /\ UNCHANGED <<cur, mailVars, queueVars, uctx, wctx>>

HostShutdown ==             \* rsched_shutdown
  /\ pc[Host] = "ready"
  /\ op' = "quit"
  /\ HostLoop(0, "gsig", "gone")
  /\ UNCHANGED <<cur, esig, mailVars, queueVars, ctxVars>>

-----------------------------------------------------------------------------
(* The host: rsched_send_worker_sig, one compare-and-swap a step.          *)

HostSend ==
  /\ pc[Host] = "send" /\ sig[hi] = esig
  /\ sig' = [sig EXCEPT ![hi] = IF op = "quit" THEN "QUIT" ELSE "START"]
  /\ esig' = "NONE"
  /\ IF op = "quit"
     THEN Goto(Host, "join") /\ UNCHANGED hi
     ELSE HostLoop(hi + 1, "send", "load")
  /\ UNCHANGED <<cur, op, st, queueVars, ctxVars>>

(* A failed compare-and-swap stores what it read in esig, and the loop     *)
(* does not set esig back to RS_SIG_NONE.                                  *)
HostSendRetry ==
  /\ pc[Host] = "send" /\ sig[hi] # esig
  /\ esig' = sig[hi]
  /\ UNCHANGED <<pc, cur, op, hi, mailVars, queueVars, ctxVars>>

-----------------------------------------------------------------------------
(* The host: rsched_get_worker_state, as called by rsched_wait_worker and  *)
(* by rsched_worker_destroy.                                               *)

SigQuietMutant(w) == TRUE                            \* do not wait for RS_SIG_NONE

SigQuiet(w) == sig[w] = "NONE"

HostSeeQuiet ==
  /\ pc[Host] = "gsig" /\ SigQuiet(hi)
  /\ Goto(Host, "gst")
  /\ UNCHANGED <<cur, hostVars, mailVars, queueVars, ctxVars>>

(* rsched_wait_workers goes on to the next worker once this one waits.     *)
HostSeeWaiting ==
  /\ pc[Host] = "gst" /\ op # "quit" /\ st[hi] = "WAITING"
  /\ HostLoop(hi + 1, "gsig", "ready")
  /\ op' = IF hi + 1 < NWorkers THEN op ELSE "none"
  /\ UNCHANGED <<cur, esig, mailVars, queueVars, ctxVars>>

(* A worker that is neither: ask again.  One that is down: the call fails, *)
(* and rsched_create shuts the scheduler down.                             *)
HostSeeOther ==
  /\ pc[Host] = "gst" /\ op # "quit" /\ st[hi] # "WAITING"
  /\ IF st[hi] # "DOWN"
     THEN Goto(Host, "gsig") /\ UNCHANGED <<op, hi>>
     ELSE /\ hi' = 0
          /\ op' = IF op = "create" THEN "quit" ELSE "none"
          /\ Goto(Host, IF op = "create" THEN "gsig" ELSE "ready")
  /\ UNCHANGED <<cur, esig, mailVars, queueVars, ctxVars>>

HostDestroyWorker ==        \* rsched_worker_destroy: RS_SIG_QUIT unless it is down
  /\ pc[Host] = "gst" /\ op = "quit"
  /\ esig' = "NONE"
  /\ Goto(Host, IF st[hi] = "DOWN" THEN "join" ELSE "send")
  /\ UNCHANGED <<cur, op, hi, mailVars, queueVars, ctxVars>>

HostJoin ==
  /\ pc[Host] = "join" /\ pc[hi] = "dead"
  /\ HostLoop(hi + 1, "gsig", "gone")
  /\ UNCHANGED <<cur, op, esig, mailVars, queueVars, ctxVars>>

(* pthread_join on an id no pthread_create filled in: it may return an     *)
(* error, which nobody looks at, or take the process down with every thread. *)
HostJoinNobody ==
  /\ pc[Host] = "join" /\ pc[hi] = "none"
  /\ \/ HostLoop(hi + 1, "gsig", "gone")
     \/ /\ pc' = [t \in Threads |-> IF t = Host THEN "crashed" ELSE "none"]
        /\ UNCHANGED hi
  /\ UNCHANGED <<cur, op, esig, mailVars, queueVars, ctxVars>>

-----------------------------------------------------------------------------
(* A worker: rsched_worker, rsched_worker_yield and rsched_worker_loop.    *)

SetWaiting(w) ==
  /\ pc[w] = "wait"
  /\ st' = [st EXCEPT ![w] = "WAITING"]
  /\ Goto(w, "recv")
  /\ UNCHANGED <<cur, hostVars, sig, queueVars, ctxVars>>

(* What a received signal leads to: while waiting ("recv") only NONE keeps *)
(* it waiting; between two tasks ("poll") NONE and START change nothing.   *)
OnSignal(p, s) ==
  CASE s = "NONE" -> IF p = "recv" THEN "rel" ELSE "cont"
    [] s = "START" -> IF p = "recv" THEN "getctx" ELSE "cont"
    [] s = "INT" -> "int"
    [] OTHER -> "down"

SigReceive(w) ==            \* rsched_worker_sig_lock_receive
  /\ pc[w] \in {"recv", "poll"}
  /\ sig' = [sig EXCEPT ![w] = "LOCKED"]
  /\ Goto(w, OnSignal(pc[w], sig[w]))
  /\ UNCHANGED <<cur, hostVars, st, queueVars, ctxVars>>

ContextReadMutant(w) == IF lctx[w] = NoCtx THEN wctx[w] ELSE lctx[w]

ContextRead(w) == wctx[w]

ReadContext(w) ==           \* under worker->lock
  /\ pc[w] = "getctx"
  /\ lctx' = [lctx EXCEPT ![w] = ContextRead(w)]
  /\ Goto(w, IF ContextRead(w) = NoCtx THEN "down" ELSE "run")
  /\ UNCHANGED <<cur, hostVars, mailVars, queueVars, uctx, wctx>>

SetRunning(w) ==
  /\ pc[w] = "run"
  /\ st' = [st EXCEPT ![w] = "RUNNING"]
  /\ Goto(w, "go")
  /\ UNCHANGED <<cur, hostVars, sig, queueVars, ctxVars>>

(* Each store of RS_SIG_NONE, and where the worker goes after it.          *)
AfterUnlockMutant ==        \* back to the loop instead of rsched_worker_yield
  [rel |-> "recv", go |-> "load", cont |-> "load", nul |-> "load", int |-> "wait", exit |-> "dead"]

AfterUnlock ==
  [rel |-> "recv", go |-> "load", cont |-> "load", nul |-> "wait", int |-> "wait", exit |-> "dead"]

UnlockPCs == {"rel", "go", "cont", "nul", "int", "exit"}

SigUnlock(w) ==             \* rsched_worker_sig_unlock
  /\ pc[w] \in UnlockPCs
  /\ sig' = [sig EXCEPT ![w] = "NONE"]
  /\ Goto(w, AfterUnlock[pc[w]])
  /\ UNCHANGED <<cur, hostVars, st, queueVars, ctxVars>>

SetDown(w) ==
  /\ pc[w] = "down"
  /\ st' = [st EXCEPT ![w] = "DOWN"]
  /\ Goto(w, "exit")
  /\ UNCHANGED <<cur, hostVars, sig, queueVars, ctxVars>>

-----------------------------------------------------------------------------
HostCall ==                 \* what the program may do, and need not
  \/ \E c \in Contexts : HostSetContext(c)
  \/ \E n \in 0 .. MaxLen : HostCreateTasks(n)
  \/ HostRequeue \/ HostYield \/ HostShutdown

HostStep ==                 \* what a call does on its own
  \/ HostCreateWorker \/ HostCreateFails
  \/ HostUpdateWorker
  \/ HostSend \/ HostSendRetry
  \/ HostSeeQuiet \/ HostSeeWaiting \/ HostSeeOther
  \/ HostDestroyWorker \/ HostJoin \/ HostJoinNobody
  \/ Pop(Host)

WorkerStep(w) ==
  \/ SetWaiting(w) \/ SigReceive(w) \/ ReadContext(w) \/ SetRunning(w)
  \/ SigUnlock(w) \/ SetDown(w) \/ Pop(w)

Halted == pc[Host] \in {"gone", "crashed"} /\ UNCHANGED vars

Next ==
  \/ HostCall
  \/ HostStep
  \/ \E w \in Workers : WorkerStep(w)
  \/ Halted

Spec == Init /\ [][Next]_vars

(* Every thread keeps running (pthreads, more of them than processors or   *)
(* not).  The two loops of the host that yield the processor and try again *)
(* (rsched_yield_cpu) are not beaten by the same worker for ever.          *)
Fairness ==
  /\ WF_vars(HostStep)
  /\ SF_vars(HostSend)
  /\ SF_vars(HostSeeQuiet)
  /\ \A w \in Workers : WF_vars(WorkerStep(w))

LiveSpec == Spec /\ Fairness

-----------------------------------------------------------------------------
(* Between frames no worker touches the queue or the user's data: each one *)
(* sits in rsched_worker_yield (or does not exist yet) and no signal is on *)
(* its way to it, whatever the threads did in the frames before.  This is  *)
(* what lets rsched_create_tasks free the task array and a program reuse   *)
(* its user_ctx without a lock.                                            *)
Resting == {"none", "wait", "recv", "rel"}

FrameIsolation ==
  op \in {"create", "none"} =>
    \A w \in Workers : /\ pc[w] \in Resting
                       /\ sig[w] \in {"NONE", "LOCKED"}
                       /\ op = "none" => st[w] = "WAITING"

(* No task is handed out twice before it is given back, and no two threads *)
(* are ever in the user's function with the same task: what                *)
(* rsched_queue_pop's compare-and-swap loop is for.                        *)
ExactlyOnce ==
  /\ \A k \in Slots : runs[k] <= 1
  /\ \A t, u \in Threads :
       pc[t] = "exec" /\ pc[u] = "exec" /\ cur[t] = cur[u] => t = u /\ runs[cur[t]] = 0

(* The unchecked `++cur' after a failed compare-and-swap overruns the      *)
(* queue by one element at most, and at most one thread holds that one.    *)
OverrunByOne ==
  /\ idx <= len + 1
  /\ \A t \in Threads : pc[t] = "exec" => cur[t] <= len

(* Every task of a frame runs with the context installed before the frame, *)
(* on each worker too, though a worker reads its own copy.                 *)
ContextFresh == \A t \in Threads : pc[t] = "exec" => lctx[t] = uctx /\ uctx # NoCtx

(* rsched_shutdown frees the mailboxes, the queue and itself only when     *)
(* every thread that was created has ended, also when rsched_create calls  *)
(* it because one could not be created.  And the joins of what is no       *)
(* thread, undefined as they are, come after those of all that are.        *)
Over(w) == pc[w] \in {"none", "dead"}

NoThreadLeft ==
  pc[Host] = "gone" \/ (pc[Host] = "join" /\ pc[hi] = "none") => \A w \in Workers : Over(w)

(* A pthread_create has failed: rsched_create is in its rsched_shutdown.   *)
CreateFailed == op = "quit" /\ \E w \in Workers : pc[w] = "none"

(* rsched_host_yield returns, and so does rsched_create when it creates    *)
(* every thread, however they race.  Of a rsched_create that fails this    *)
(* says no more than that it gets to rsched_shutdown, which may hang       *)
(* (ShutdownReturns).                                                      *)
CallsReturn ==
  /\ (op = "yield") ~> (op = "none")
  /\ (op = "create") ~> (op = "none" \/ CreateFailed)

(* The scheduler implements TaskFrames: a frame runs every task once and   *)
(* ends (rsched_host_yield returns) only after the last one.  The overrun  *)
(* slot is not a task and is left out of the mapping.                      *)
Phase ==
  CASE op = "yield" -> "busy"
    [] op = "quit" -> "off"
    [] OTHER -> "idle"

TaskRuns == [k \in Slots |-> IF k < len THEN runs[k] ELSE 0]

Frames == INSTANCE TaskFrames WITH phase <- Phase, runs <- TaskRuns

ImplementsFrames == Frames!Spec

-----------------------------------------------------------------------------
(* Statements of the sources that the code does not keep.                  *)

(* rsched.h:32-33: a task asked for is a task of the queue.                *)
PopInRange == \A t \in Threads : pc[t] = "exec" => cur[t] < len

(* rsched.h:145: "Shutdown and destroy scheduler and all workers".         *)
ShutdownReturns == (op = "quit") ~> (pc[Host] \in {"gone", "crashed"})
=============================================================================
