------------------------------ MODULE RschedInv ------------------------------
(***************************************************************************)
(* The inductive invariant of Rsched.tla: where every worker may be, what  *)
(* its mailbox may hold and what the queue has handed out, for each call   *)
(* the host can be in.                                                     *)
(***************************************************************************)
EXTENDS Rsched

(* The four situations of a worker.                                        *)

(* In rsched_worker_yield, with no signal on its way. *)
AtRest(w) ==
  /\ st[w] = "WAITING"
  /\ \/ pc[w] = "recv" /\ sig[w] = "NONE"
     \/ pc[w] = "rel" /\ sig[w] = "LOCKED"

Starting(w) ==              \* created, perhaps not yet waiting
  \/ pc[w] = "wait" /\ st[w] = "zero" /\ sig[w] = "NONE"
  \/ AtRest(w)

(* In a frame.  RS_SIG_START may sit in the mailbox only while the worker  *)
(* waits, also where it has overwritten RS_SIG_LOCKED and will be lost.    *)
InFrame(w) ==
  \/ pc[w] = "recv" /\ st[w] = "WAITING" /\ sig[w] \in {"NONE", "START"}
  \/ pc[w] = "rel" /\ st[w] = "WAITING" /\ sig[w] \in {"LOCKED", "START"}
  \/ pc[w] \in {"getctx", "run"} /\ st[w] = "WAITING" /\ sig[w] = "LOCKED"
  \/ pc[w] \in {"go", "cont"} /\ st[w] = "RUNNING" /\ sig[w] = "LOCKED"
  \/ pc[w] \in {"load", "cas", "exec", "poll", "nul", "wait"} /\ st[w] = "RUNNING" /\ sig[w] = "NONE"

Stopping(w) ==
  /\ pc[w] \in {"none", "wait", "recv", "rel", "down", "exit", "dead"}
  /\ sig[w] \in {"NONE", "LOCKED", "QUIT"}

(* Host and workers: in the waiting loops the workers below `i' rest again. *)
CreateInv ==
  op = "create" =>
    /\ pc[Host] \in {"create", "gsig", "gst"}
    /\ \A w \in Workers :
         IF pc[Host] = "create" /\ w >= hi
         THEN pc[w] = "none" /\ sig[w] = "NONE" /\ st[w] = "zero"
         ELSE Starting(w)
    /\ pc[Host] # "create" => \A w \in Workers : w < hi => AtRest(w)

IdleInv ==
  op = "none" => pc[Host] \in {"ready", "ctx"} /\ \A w \in Workers : AtRest(w)

YieldInv ==
  op = "yield" =>
    /\ pc[Host] \in {"send", "gsig", "gst"} \cup PopPCs
    /\ \A w \in Workers : InFrame(w)
    /\ pc[Host] = "send" => \A w \in Workers : w >= hi => AtRest(w)
    /\ pc[Host] \in {"gsig", "gst"} => \A w \in Workers : w < hi => AtRest(w)
    /\ pc[Host] = "gst" /\ st[hi] = "WAITING" => AtRest(hi)

QuitInv ==
  op = "quit" =>
    /\ pc[Host] \in {"gsig", "gst", "send", "join", "gone", "crashed"}
    /\ \A w \in Workers : Stopping(w)

ProtocolInv == CreateInv /\ IdleInv /\ YieldInv /\ QuitInv

(* While rsched_shutdown destroys the workers those it has passed are over, *)
(* and the ones that were never created are the last of the array.         *)
ShutdownInv ==
  op = "quit" /\ pc[Host] # "crashed" =>
    /\ \A v, w \in Workers : v < w /\ pc[v] = "none" => pc[w] = "none"
    /\ \A w \in Workers : w < hi \/ pc[Host] = "gone" => Over(w)

(* The copies of the user's context. *)
ContextInv ==
  /\ \A w \in Workers : (pc[Host] = "ctx" /\ w >= hi) \/ wctx[w] = uctx
  /\ pc[Host] = "ctx" \/ op = "yield" => uctx # NoCtx
  /\ op = "yield" =>
       /\ lctx[Host] = uctx
       /\ \A w \in Workers :
            pc[w] \in {"run", "go", "poll", "cont"} \cup PopPCs => lctx[w] = uctx

(* What the queue has handed out: below the counter each slot has run once *)
(* or is in the hands of one thread, from the counter on none has run.     *)
QueueInv ==
  /\ idx <= len + 1
  /\ \A t \in Threads : pc[t] = "cas" => cur[t] <= len
  /\ \A t \in Threads : pc[t] = "exec" => cur[t] < idx /\ runs[cur[t]] = 0
  /\ \A t, u \in Threads : pc[t] = "exec" /\ pc[u] = "exec" /\ cur[t] = cur[u] => t = u
  /\ \A k \in Slots : k >= idx => runs[k] = 0
  /\ \A k \in Slots : k < idx => \/ runs[k] = 1
                                 \/ \E t \in Threads : pc[t] = "exec" /\ cur[t] = k
  /\ op = "yield" /\ pc[Host] \in {"gsig", "gst"} => idx >= len

IInv == TypeOK /\ ProtocolInv /\ ShutdownInv /\ ContextInv /\ QueueInv
=============================================================================
