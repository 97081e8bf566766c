--------------------------- MODULE LockfreeQueue ---------------------------
(***************************************************************************)
(* src/atomic/LockfreeQueue.cpp: the linked queue of enqueue, dequeue,     *)
(* empty and the destructor.  One action is one access to shared memory    *)
(* (a load, a compare_exchange_weak, or the move out of a node) together   *)
(* with the local branching up to the next access.                         *)
(*                                                                         *)
(* Nodes are numbered in the order they are allocated; 0 is the dummy.  A  *)
(* number is not reused: a node is freed only when no shared_ptr to it is  *)
(* left, so a reused address is never compared with an old one.            *)
(***************************************************************************)
EXTENDS Integers, Sequences

CONSTANTS Thread,      \* threads calling the queue
          Value,       \* values of type T
          MaxEnq,      \* bound: how many enqueue calls are made in all
          MoveClears   \* does std::move out of a T change the source?
                       \* FALSE for int, TRUE for std::string, unique_ptr...

ASSUME MaxEnqAssumption == MaxEnq \in Nat
ASSUME MoveClearsAssumption == MoveClears \in BOOLEAN
ASSUME ValueAssumption ==
    \A v \in Value : v \notin {"T{}", "moved", "none", "nullopt", "true", "false"}

Node == 0 .. MaxEnq
Null == -1
Unlinked == -1
Ptr == Node \union {Null}

Default == "T{}"       \* a value-initialised T
MovedFrom == "moved"   \* what std::move leaves behind when it clears
None == "none"
Nullopt == "nullopt"
Fill(n, m) == IF n = m THEN "empty" ELSE "filled"
Answer(f) == IF f = "empty" THEN "true" ELSE "false"
Content == Value \union {Default, MovedFrom}
Result == Content \union {None, Nullopt, "true", "false"}

VARIABLES
    head, tail,        \* the two atomic<shared_ptr<Node>> members
    next, data,        \* the fields of each node
    allocated,         \* number of nodes made by enqueue so far
    pc,                \* the access each thread performs next
    tail_ptr, head_ptr, next_ptr, new_node, value,   \* locals of the calls
    dtor,              \* "alive", "draining" or "gone": ~LockfreeQueue
    destroyer,         \* the thread that runs the destructor, as a set
    \* History of the queue, never read by the code:
    pos,               \* pos[n]: n was the pos[n]-th node linked, or Unlinked
    log,               \* the values linked so far, in that order
    seen               \* seen[p]: "empty" or "filled", as it was during p's call

locals == <<tail_ptr, head_ptr, next_ptr, new_node, value>>
vars == <<head, tail, next, data, allocated, pc, locals, dtor, destroyer, pos, log, seen>>

EnqPc == {"e_tail", "e_next", "e_check", "e_link", "e_help"}
DeqPc == {"d_head", "d_tail", "d_next", "d_check", "d_help", "d_move", "d_cas"}
EmptyPc == {"m_head", "m_tail", "m_next"}
Pc == {"idle", "e_swing", "return"} \union EnqPc \union DeqPc \union EmptyPc

Idle == \A p \in Thread : pc[p] = "idle"
QueueEmpty == pos[head] = Len(log)

Init ==
    /\ head = 0
    /\ tail = 0
    /\ next = [n \in Node |-> Null]
    /\ data = [n \in Node |-> Default]
    /\ allocated = 0
    /\ pc = [p \in Thread |-> "idle"]
    /\ tail_ptr = [p \in Thread |-> Null]
    /\ head_ptr = [p \in Thread |-> Null]
    /\ next_ptr = [p \in Thread |-> Null]
    /\ new_node = [p \in Thread |-> Null]
    /\ value = [p \in Thread |-> None]
    /\ dtor = "alive"
    /\ destroyer = {}
    /\ pos = [n \in Node |-> IF n = 0 THEN 0 ELSE Unlinked]
    /\ log = <<>>
    /\ seen = [p \in Thread |-> {}]

-----------------------------------------------------------------------------
Goto(p, l) == pc' = [pc EXCEPT ![p] = l]
BeginObserving(p) == seen' = [seen EXCEPT ![p] = {Fill(pos[head], Len(log))}]
Observe(f) ==
    seen' = [q \in Thread |-> IF pc[q] = "idle" THEN seen[q] ELSE seen[q] \union {f}]

(* A step that writes nothing but locals of p. *)
Local(p, from, to) ==
    /\ pc[p] = from
    /\ Goto(p, to)
    /\ UNCHANGED <<head, tail, next, data, allocated, dtor, destroyer, pos, log, seen>>

(* A call returns: its locals go out of scope. *)
Leave(p) ==
    /\ Goto(p, "idle")
    /\ tail_ptr' = [tail_ptr EXCEPT ![p] = Null]
    /\ head_ptr' = [head_ptr EXCEPT ![p] = Null]
    /\ next_ptr' = [next_ptr EXCEPT ![p] = Null]
    /\ new_node' = [new_node EXCEPT ![p] = Null]
    /\ value' = [value EXCEPT ![p] = None]
    /\ seen' = [seen EXCEPT ![p] = {}]

(* tail.compare_exchange_weak(tail_ptr, n): it may fail although the       *)
(* pointers agree, and no caller looks at its result.                      *)
AdvanceTailOk_blind(p, n) == tail' = n   \* BUG: a store instead of the exchange
AdvanceTailOk(p, n) == tail = tail_ptr[p] /\ tail' = n

(*********************************** enqueue *******************************)
CallEnqueue(p, v) ==
    /\ pc[p] = "idle" /\ dtor = "alive"
    /\ allocated < MaxEnq
    /\ allocated' = allocated + 1
    /\ new_node' = [new_node EXCEPT ![p] = allocated + 1]
    /\ data' = [data EXCEPT ![allocated + 1] = v]
    /\ Goto(p, "e_tail")
    /\ BeginObserving(p)
    /\ UNCHANGED <<head, tail, next, tail_ptr, head_ptr, next_ptr, value, dtor, destroyer, pos, log>>

EnqLoadTail(p) ==
    /\ Local(p, "e_tail", "e_next")
    /\ tail_ptr' = [tail_ptr EXCEPT ![p] = tail]
    /\ UNCHANGED <<head_ptr, next_ptr, new_node, value>>

EnqLoadNext(p) ==
    /\ Local(p, "e_next", "e_check")
    /\ next_ptr' = [next_ptr EXCEPT ![p] = next[tail_ptr[p]]]
    /\ UNCHANGED <<tail_ptr, head_ptr, new_node, value>>

EnqCheck(p) ==
    /\ Local(p, "e_check",
             IF tail_ptr[p] # tail THEN "e_tail"
             ELSE IF next_ptr[p] = Null THEN "e_link" ELSE "e_help")
    /\ UNCHANGED locals

(* tail_ptr->next.compare_exchange_weak(nullptr, new_node) *)
LinkExpected_store(p) == TRUE            \* BUG: a store instead of the exchange
LinkExpected(p) == next[tail_ptr[p]] = Null

EnqLinkOk(p) ==
    /\ pc[p] = "e_link"
    /\ LinkExpected(p)
    /\ next' = [next EXCEPT ![tail_ptr[p]] = new_node[p]]
    /\ pos' = [pos EXCEPT ![new_node[p]] = Len(log) + 1]
    /\ log' = Append(log, data[new_node[p]])
    /\ Observe("filled")
    /\ Goto(p, "e_swing")
    /\ UNCHANGED <<head, tail, data, allocated, locals, dtor, destroyer>>

EnqLinkFail(p) == Local(p, "e_link", "e_tail") /\ UNCHANGED locals

EnqSwingOk(p) ==
    /\ pc[p] = "e_swing"
    /\ AdvanceTailOk(p, new_node[p])
    /\ Leave(p)
    /\ UNCHANGED <<head, next, data, allocated, dtor, destroyer, pos, log>>

EnqSwingFail(p) ==
    /\ pc[p] = "e_swing"
    /\ Leave(p)
    /\ UNCHANGED <<head, tail, next, data, allocated, dtor, destroyer, pos, log>>

EnqHelpOk(p) ==
    /\ pc[p] = "e_help"
    /\ AdvanceTailOk(p, next_ptr[p])
    /\ Goto(p, "e_tail")
    /\ UNCHANGED <<head, next, data, allocated, locals, dtor, destroyer, pos, log, seen>>

EnqHelpFail(p) == Local(p, "e_help", "e_tail") /\ UNCHANGED locals

(*********************************** dequeue *******************************)
StartDequeue(p) ==
    /\ Goto(p, "d_head")
    /\ BeginObserving(p)
    /\ UNCHANGED <<head, tail, next, data, allocated, locals, pos, log>>

CallDequeue(p) ==
    /\ pc[p] = "idle" /\ dtor = "alive"
    /\ StartDequeue(p)
    /\ UNCHANGED <<dtor, destroyer>>

DeqLoadHead(p) ==
    /\ Local(p, "d_head", "d_tail")
    /\ head_ptr' = [head_ptr EXCEPT ![p] = head]
    /\ UNCHANGED <<tail_ptr, next_ptr, new_node, value>>

DeqLoadTail(p) ==
    /\ Local(p, "d_tail", "d_next")
    /\ tail_ptr' = [tail_ptr EXCEPT ![p] = tail]
    /\ UNCHANGED <<head_ptr, next_ptr, new_node, value>>

DeqLoadNext(p) ==
    /\ Local(p, "d_next", "d_check")
    /\ next_ptr' = [next_ptr EXCEPT ![p] = next[head_ptr[p]]]
    /\ UNCHANGED <<tail_ptr, head_ptr, new_node, value>>

(* BUG: tail is not looked at, a node is taken while tail still lags. *)
DeqBranch_noTail(p) ==
    IF head_ptr[p] # head THEN "d_head"
    ELSE IF next_ptr[p] = Null THEN "return" ELSE "d_move"

(* BUG: a queue whose tail lags is reported empty. *)
DeqBranch_lagIsEmpty(p) ==
    IF head_ptr[p] # head THEN "d_head"
    ELSE IF head_ptr[p] = tail_ptr[p] THEN "return"
         ELSE IF next_ptr[p] = Null THEN "d_head" ELSE "d_move"

(* BUG: a lagging tail is waited for instead of helped. *)
DeqBranch_noHelp(p) ==
    IF head_ptr[p] # head THEN "d_head"
    ELSE IF head_ptr[p] = tail_ptr[p]
         THEN IF next_ptr[p] = Null THEN "return" ELSE "d_head"
         ELSE IF next_ptr[p] = Null THEN "d_head" ELSE "d_move"

(* The branches of one loop iteration once head has been read again. *)
DeqBranch(p) ==
    IF head_ptr[p] # head THEN "d_head"
    ELSE IF head_ptr[p] = tail_ptr[p]
         THEN IF next_ptr[p] = Null THEN "return" ELSE "d_help"
         ELSE IF next_ptr[p] = Null THEN "d_head" ELSE "d_move"

DeqCheck(p) ==
    /\ Local(p, "d_check", DeqBranch(p))
    /\ value' = IF DeqBranch(p) = "return" THEN [value EXCEPT ![p] = Nullopt] ELSE value
    /\ UNCHANGED <<tail_ptr, head_ptr, next_ptr, new_node>>

DeqHelpOk(p) ==
    /\ pc[p] = "d_help"
    /\ AdvanceTailOk(p, next_ptr[p])
    /\ Goto(p, "d_head")
    /\ UNCHANGED <<head, next, data, allocated, locals, dtor, destroyer, pos, log, seen>>

DeqHelpFail(p) == Local(p, "d_help", "d_head") /\ UNCHANGED locals

(* T value = std::move(next_ptr->data): before this thread owns the node. *)
DeqMove(p) ==
    /\ pc[p] = "d_move"
    /\ value' = [value EXCEPT ![p] = data[next_ptr[p]]]
    /\ data' = IF MoveClears THEN [data EXCEPT ![next_ptr[p]] = MovedFrom] ELSE data
    /\ Goto(p, "d_cas")
    /\ UNCHANGED <<head, tail, next, allocated, tail_ptr, head_ptr, next_ptr, new_node,
                   dtor, destroyer, pos, log, seen>>

TakeExpected(p) == head = head_ptr[p]

DeqTakeOk(p) ==
    /\ pc[p] = "d_cas"
    /\ TakeExpected(p)
    /\ head' = next_ptr[p]
    /\ Observe(Fill(pos[next_ptr[p]], Len(log)))
    /\ Goto(p, "return")
    /\ UNCHANGED <<tail, next, data, allocated, locals, dtor, destroyer, pos, log>>

DeqTakeFail(p) ==
    /\ Local(p, "d_cas", "d_head")
    /\ value' = [value EXCEPT ![p] = None]
    /\ UNCHANGED <<tail_ptr, head_ptr, next_ptr, new_node>>

(************************************ empty ********************************)
CallEmpty(p) ==
    /\ pc[p] = "idle" /\ dtor = "alive"
    /\ Goto(p, "m_head")
    /\ BeginObserving(p)
    /\ UNCHANGED <<head, tail, next, data, allocated, locals, dtor, destroyer, pos, log>>

EmptyLoadHead(p) ==
    /\ Local(p, "m_head", "m_tail")
    /\ head_ptr' = [head_ptr EXCEPT ![p] = head]
    /\ UNCHANGED <<tail_ptr, next_ptr, new_node, value>>

EmptyLoadTail(p) ==
    /\ Local(p, "m_tail", IF head_ptr[p] = tail THEN "m_next" ELSE "return")
    /\ value' = IF head_ptr[p] = tail THEN value ELSE [value EXCEPT ![p] = Answer("filled")]
    /\ UNCHANGED <<tail_ptr, head_ptr, next_ptr, new_node>>

EmptyLoadNext(p) ==
    /\ Local(p, "m_next", "return")
    /\ value' = [value EXCEPT ![p] = Answer(Fill(next[head_ptr[p]], Null))]
    /\ UNCHANGED <<tail_ptr, head_ptr, next_ptr, new_node>>

(* dequeue or empty hands its result to the caller; the destructor's loop  *)
(* ends on the first dequeue without a value.                              *)
DtorLoopEnds_once(p) == TRUE             \* BUG: one dequeue instead of a loop
DtorLoopEnds(p) == value[p] = Nullopt

Return(p) ==
    /\ pc[p] = "return"
    /\ Leave(p)
    /\ dtor' = IF dtor = "draining" /\ DtorLoopEnds(p) THEN "gone" ELSE dtor
    /\ UNCHANGED <<head, tail, next, data, allocated, destroyer, pos, log>>

(* ~LockfreeQueue, run by one thread when no call is in progress any more: *)
(* while (dequeue().has_value()) {}                                        *)
Destroy(p) ==
    /\ dtor = "alive" /\ Idle
    /\ dtor' = "draining"
    /\ destroyer' = {p}
    /\ StartDequeue(p)

DestroyLoop(p) ==
    /\ dtor = "draining" /\ Idle /\ p \in destroyer
    /\ StartDequeue(p)
    /\ UNCHANGED <<dtor, destroyer>>

-----------------------------------------------------------------------------
EnqStep(p) ==
    \/ EnqLoadTail(p) \/ EnqLoadNext(p) \/ EnqCheck(p)
    \/ EnqLinkOk(p) \/ EnqLinkFail(p)
    \/ EnqSwingOk(p) \/ EnqSwingFail(p)
    \/ EnqHelpOk(p) \/ EnqHelpFail(p)

DeqStep(p) ==
    \/ DeqLoadHead(p) \/ DeqLoadTail(p) \/ DeqLoadNext(p) \/ DeqCheck(p)
    \/ DeqHelpOk(p) \/ DeqHelpFail(p)
    \/ DeqMove(p) \/ DeqTakeOk(p) \/ DeqTakeFail(p)

EmptyStep(p) == EmptyLoadHead(p) \/ EmptyLoadTail(p) \/ EmptyLoadNext(p)

Step(p) == EnqStep(p) \/ DeqStep(p) \/ EmptyStep(p) \/ Return(p) \/ DestroyLoop(p)

Next ==
    \E p \in Thread :
        \/ \E v \in Value : CallEnqueue(p, v)
        \/ CallDequeue(p)
        \/ CallEmpty(p)
        \/ Destroy(p)
        \/ Step(p)

Spec == Init /\ [][Next]_vars

(* A thread inside a call keeps running, and a compare_exchange_weak that  *)
(* keeps being tried with agreeing pointers does not fail every time.      *)
CasOk(p) == EnqLinkOk(p) \/ EnqHelpOk(p) \/ DeqHelpOk(p) \/ DeqTakeOk(p)

Fairness == \A p \in Thread : WF_vars(Step(p)) /\ SF_vars(CasOk(p))

FairSpec == Spec /\ Fairness
-----------------------------------------------------------------------------
TypeOK ==
    /\ head \in Node /\ tail \in Node
    /\ next \in [Node -> Ptr]
    /\ data \in [Node -> Content]
    /\ allocated \in 0 .. MaxEnq
    /\ pc \in [Thread -> Pc]
    /\ tail_ptr \in [Thread -> Ptr]
    /\ head_ptr \in [Thread -> Ptr]
    /\ next_ptr \in [Thread -> Ptr]
    /\ new_node \in [Thread -> Ptr]
    /\ value \in [Thread -> Result]
    /\ dtor \in {"alive", "draining", "gone"}
    /\ destroyer \in SUBSET Thread
    /\ pos \in [Node -> Int]
    /\ log \in Seq(Content)
    /\ seen \in [Thread -> SUBSET {"empty", "filled"}]

Linked(n) == pos[n] >= 0

(* The linked list is one chain: the nodes linked so far follow each other *)
(* in the order of linking, head has not passed tail, and tail lags behind *)
(* the last node by at most one (enqueue lines 51-57, dequeue 87-98).      *)
Chain ==
    /\ pos[0] = 0
    /\ \A n \in Node : pos[n] = Unlinked \/ pos[n] \in 0 .. Len(log)
    /\ \A m, n \in Node : Linked(m) /\ pos[m] = pos[n] => m = n
    /\ \A n \in Node : ~Linked(n) => next[n] = Null
    /\ \A n \in Node : Linked(n) /\ next[n] = Null => pos[n] = Len(log)
    /\ \A n \in Node : Linked(n) /\ next[n] # Null => pos[next[n]] = pos[n] + 1

Order ==
    /\ Linked(head) /\ Linked(tail)
    /\ pos[head] <= pos[tail]
    /\ pos[tail] <= Len(log)
    /\ Len(log) <= pos[tail] + 1

Structure == Chain /\ Order

(* When the destructor's loop has ended, every accepted value has been     *)
(* taken out of the queue (lines 35-38).                                   *)
DestructorDrains == dtor = "gone" => QueueEmpty

(* head and tail move one node at a time and never back, and a next        *)
(* pointer is written once (the ABA freedom the shared_ptr nodes give).    *)
PointersAdvance ==
    [][/\ pos'[head'] \in {pos[head], pos[head] + 1}
       /\ pos'[tail'] \in {pos[tail], pos[tail] + 1}
       /\ \A n \in Node : next[n] # Null => next'[n] = next[n]]_vars

(* Every enqueue, dequeue and empty call returns, although another thread  *)
(* may stop between linking its node and moving tail (helping, lines 65    *)
(* and 87).  The number of enqueue calls is bounded by MaxEnq; without a   *)
(* bound the loops are only lock-free.  So does the destructor (line 37).  *)
EveryCallReturns ==
    /\ \A p \in Thread : (pc[p] # "idle") ~> (pc[p] = "idle")
    /\ (dtor = "draining") ~> (dtor = "gone")

-----------------------------------------------------------------------------
(* The inductive invariant behind these properties: what each thread knows *)
(* about the pointers it has read, at every point of its call.             *)
Allocation ==
    /\ \A n \in Node : n > allocated => pos[n] = Unlinked
    /\ \A p \in Thread : pc[p] \in EnqPc =>
           /\ new_node[p] \in 1 .. allocated
           /\ pos[new_node[p]] = Unlinked
           /\ data[new_node[p]] \in Value
    /\ \A p, q \in Thread :
           p # q /\ pc[p] \in EnqPc /\ pc[q] \in EnqPc => new_node[p] # new_node[q]

(* Nothing was moved out of a node unless a move clears it. *)
NodeData ==
    ~MoveClears => \A n \in Node : pos[n] >= 1 => data[n] = log[pos[n]]

EnqReads(p) ==
    /\ pc[p] \in {"e_next", "e_check", "e_link", "e_help", "e_swing"} =>
           tail_ptr[p] \in Node /\ Linked(tail_ptr[p]) /\ pos[tail_ptr[p]] <= pos[tail]
    /\ pc[p] = "e_check" /\ next_ptr[p] # Null => next[tail_ptr[p]] = next_ptr[p]
    /\ pc[p] = "e_help" => next_ptr[p] # Null /\ next[tail_ptr[p]] = next_ptr[p]
    /\ pc[p] = "e_swing" => new_node[p] # Null /\ next[tail_ptr[p]] = new_node[p]

DeqReads(p) ==
    /\ pc[p] \in {"d_tail", "d_next", "d_check", "d_help", "d_move", "d_cas"} =>
           head_ptr[p] \in Node /\ Linked(head_ptr[p]) /\ pos[head_ptr[p]] <= pos[head]
    /\ pc[p] \in {"d_next", "d_check", "d_help", "d_move", "d_cas"} =>
           /\ tail_ptr[p] \in Node
           /\ pos[head_ptr[p]] <= pos[tail_ptr[p]]
           /\ pos[tail_ptr[p]] <= pos[tail]
    /\ pc[p] = "d_check" => IF next_ptr[p] = Null THEN "empty" \in seen[p]
                                                  ELSE next[head_ptr[p]] = next_ptr[p]
    /\ pc[p] = "d_help" => head_ptr[p] = tail_ptr[p]
    /\ pc[p] \in {"d_move", "d_cas"} => head_ptr[p] # tail_ptr[p]
    /\ pc[p] \in {"d_help", "d_move", "d_cas"} =>
           next_ptr[p] # Null /\ next[head_ptr[p]] = next_ptr[p]
    /\ pc[p] = "d_cas" => value[p] \in Content
    /\ pc[p] = "d_cas" /\ ~MoveClears => value[p] = log[pos[next_ptr[p]]]

EmptyReads(p) ==
    pc[p] \in {"m_tail", "m_next"} =>
        /\ head_ptr[p] \in Node /\ Linked(head_ptr[p]) /\ pos[head_ptr[p]] <= pos[head]
        /\ pos[head_ptr[p]] < Len(log) => "filled" \in seen[p]

Observed ==
    \A p \in Thread :
        /\ IF pc[p] = "idle" THEN seen[p] = {} ELSE Fill(pos[head], Len(log)) \in seen[p]
        /\ pc[p] = "return" /\ value[p] = Nullopt => "empty" \in seen[p]

(* While the destructor drains, only its thread runs, and emptiness is     *)
(* final.                                                                  *)
Draining ==
    /\ dtor = "draining" =>
        \A p \in Thread :
            /\ p \notin destroyer => pc[p] = "idle"
            /\ pc[p] \in DeqPc \union {"idle", "return"}
            /\ "empty" \in seen[p] => QueueEmpty
    /\ \A p, q \in destroyer : p = q
    /\ dtor = "gone" => QueueEmpty /\ \A p \in Thread : pc[p] = "idle"

Inv ==
    /\ TypeOK /\ Structure /\ Allocation /\ NodeData
    /\ \A p \in Thread : EnqReads(p) /\ DeqReads(p) /\ EmptyReads(p)
    /\ Observed /\ Draining

-----------------------------------------------------------------------------
(* The abstract queue this one implements. *)
OpOf(l) ==
    CASE l = "idle" -> "idle"
      [] l \in EnqPc -> "enq"
      [] l \in DeqPc -> "deq"
      [] l \in EmptyPc -> "empty"
      [] OTHER -> "done"

absOp == [p \in Thread |-> OpOf(pc[p])]
absArg == [p \in Thread |-> IF pc[p] \in EnqPc THEN data[new_node[p]] ELSE None]
absRes == [p \in Thread |-> IF pc[p] = "return" THEN value[p] ELSE None]

Abs == INSTANCE FifoQueue WITH taken <- pos[head], op <- absOp, arg <- absArg, res <- absRes

(* Every interleaving of enqueue, dequeue and empty is a behaviour of the  *)
(* abstract first-in first-out queue: nothing is lost, duplicated,         *)
(* reordered or invented, and nullopt or an answer of empty() was right at *)
(* some moment of the call.                                                *)
Linearizable == Abs!Spec

(* A dequeue returns a value that was enqueued, as the test expects of its *)
(* three dequeues (`*val1 == 1`, lines 126-139).  True for a T such as int *)
(* whose move is a copy; false for a T that a move clears, because line 94 *)
(* moves the value out before line 95 decides who takes the node.          *)
DequeueReturnsEnqueued ==
    \A p \in Thread :
        pc[p] = "return" /\ value[p] \in Content => value[p] \in {log[i] : i \in 1 .. Len(log)}
=============================================================================
