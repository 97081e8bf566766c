----------------------------- MODULE FifoQueue -----------------------------
(***************************************************************************)
(* What src/atomic/LockfreeQueue.cpp promises its callers: a linearizable  *)
(* first-in first-out queue.  log holds every value accepted so far and    *)
(* taken how many of them were handed out, so the content of the queue is  *)
(* SubSeq(log, taken + 1, Len(log)).  A call is pending between its Call   *)
(* and its Return step and takes effect at one step in between.            *)
(*                                                                         *)
(* seen[p] collects whether the queue was empty or filled during p's       *)
(* pending call.  A call that reports emptiness may give any answer that   *)
(* was true at some moment of the call: that is linearizability of an      *)
(* observer, stated without guessing the moment in advance.                *)
(***************************************************************************)
EXTENDS Naturals, Sequences

CONSTANTS Thread,   \* the threads that use the queue
          Value     \* the values of type T that are enqueued

VARIABLES log,      \* every value accepted so far, oldest first
          taken,    \* how many of them have been dequeued
          op,       \* op[p]: "idle", "enq", "deq", "empty" or "done"
          arg,      \* arg[p]: the argument of a pending enqueue
          res,      \* res[p]: the result of a call that took effect
          seen      \* seen[p]: "empty" or "filled", as the queue was during the call

vars == <<log, taken, op, arg, res, seen>>

None == "none"
Nullopt == "nullopt"
Fill(n, m) == IF n = m THEN "empty" ELSE "filled"
Answer(f) == IF f = "empty" THEN "true" ELSE "false"

Init ==
    /\ log = <<>>
    /\ taken = 0
    /\ op = [p \in Thread |-> "idle"]
    /\ arg = [p \in Thread |-> None]
    /\ res = [p \in Thread |-> None]
    /\ seen = [p \in Thread |-> {}]

Call(p, o, a) ==
    /\ op[p] = "idle"
    /\ op' = [op EXCEPT ![p] = o]
    /\ arg' = [arg EXCEPT ![p] = a]
    /\ seen' = [seen EXCEPT ![p] = {Fill(taken, Len(log))}]
    /\ UNCHANGED <<log, taken, res>>

(* What the step leaves behind is seen by every pending call. *)
Observe(f) ==
    seen' = [q \in Thread |-> IF op[q] = "idle" THEN seen[q] ELSE seen[q] \union {f}]

Finish(p, r) ==
    /\ op' = [op EXCEPT ![p] = "done"]
    /\ arg' = [arg EXCEPT ![p] = None]
    /\ res' = [res EXCEPT ![p] = r]

Enqueue(p) ==
    /\ op[p] = "enq"
    /\ log' = Append(log, arg[p])
    /\ taken' = taken
    /\ Finish(p, None)
    /\ Observe("filled")

Dequeue(p) ==
    /\ op[p] = "deq"
    /\ taken < Len(log)
    /\ taken' = taken + 1
    /\ log' = log
    /\ Finish(p, log[taken + 1])
    /\ Observe(Fill(taken + 1, Len(log)))

DequeueNone(p) ==
    /\ op[p] = "deq"
    /\ "empty" \in seen[p]
    /\ Finish(p, Nullopt)
    /\ UNCHANGED <<log, taken, seen>>

Empty(p, f) ==
    /\ op[p] = "empty"
    /\ f \in seen[p]
    /\ Finish(p, Answer(f))
    /\ UNCHANGED <<log, taken, seen>>

Return(p) ==
    /\ op[p] = "done"
    /\ op' = [op EXCEPT ![p] = "idle"]
    /\ res' = [res EXCEPT ![p] = None]
    /\ seen' = [seen EXCEPT ![p] = {}]
    /\ UNCHANGED <<log, taken, arg>>

Next ==
    \E p \in Thread :
        \/ \E v \in Value : Call(p, "enq", v)
        \/ Call(p, "deq", None)
        \/ Call(p, "empty", None)
        \/ Enqueue(p)
        \/ Dequeue(p)
        \/ DequeueNone(p)
        \/ \E f \in {"empty", "filled"} : Empty(p, f)
        \/ Return(p)

Spec == Init /\ [][Next]_vars
=============================================================================
