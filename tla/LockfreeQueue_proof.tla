------------------------ MODULE LockfreeQueue_proof -------------------------
(***************************************************************************)
(* Proofs about LockfreeQueue, for any set of threads, any set of values   *)
(* and any number of enqueue calls: Inv is inductive; the type invariant,  *)
(* the shape of the list, the destructor's promise and the monotonicity of *)
(* the pointers follow from it; and LockfreeQueue implements FifoQueue     *)
(* when a move is a copy.                                                  *)
(***************************************************************************)
EXTENDS LockfreeQueue, TLAPS

USE Zenon DEF Ptr, Linked, Unlinked, Local

(***************************************************************************)
(* The steps that write no shared memory.  What a thread knows from its    *)
(* loads survives the steps of the others, because the queue only grows:   *)
(* ReadsAreStable.                                                         *)
(***************************************************************************)
LEMMA Nodes == 0 \in Node /\ Null \notin Node /\ \A n \in Node : n \in Nat
BY MaxEnqAssumption, SMT DEF Node, Null

Reads(q) == EnqReads(q) /\ DeqReads(q) /\ EmptyReads(q)

(* What one thread has observed, the part of Observed that is about it. *)
ObservedBy(q) ==
    /\ IF pc[q] = "idle" THEN seen[q] = {} ELSE Fill(pos[head], Len(log)) \in seen[q]
    /\ pc[q] = "return" /\ value[q] = Nullopt => "empty" \in seen[q]

(* Every step lets the queue grow: linked nodes stay where they are, the   *)
(* pointers move forward, the history is extended.                         *)
Grows ==
    /\ \A n \in Node : Linked(n) => pos'[n] = pos[n]
    /\ \A n \in Node : next[n] # Null => next'[n] = next[n]
    /\ pos[head] <= pos'[head'] /\ pos[tail] <= pos'[tail']
    /\ Len(log) <= Len(log')
    /\ \A i \in 1 .. Len(log) : log'[i] = log[i]

(* A step of another thread leaves q's program counter and locals alone. *)
Untouched(q) ==
    /\ pc'[q] = pc[q]
    /\ tail_ptr'[q] = tail_ptr[q] /\ head_ptr'[q] = head_ptr[q]
    /\ next_ptr'[q] = next_ptr[q] /\ new_node'[q] = new_node[q]
    /\ value'[q] = value[q]

LEMMA InvParts ==
    Inv <=> /\ TypeOK /\ Chain /\ Order /\ Allocation /\ NodeData
            /\ \A q \in Thread : Reads(q) /\ ObservedBy(q)
            /\ Draining
BY DEF Inv, Structure, Reads, Observed, ObservedBy

LEMMA LogLength == ASSUME TypeOK PROVE Len(log) \in Nat
BY SMT DEF TypeOK

(* What the pointers a thread read were is still so after another's step. *)
LEMMA ReadsAreStable ==
    ASSUME TypeOK, TypeOK', Chain, Order, NEW q \in Thread, Reads(q), Grows, Untouched(q),
           seen[q] \subseteq seen'[q],
           pc[q] # "idle" /\ Len(log) < Len(log') => "filled" \in seen'[q]
    PROVE  Reads(q)'
<1>1. Len(log) \in Nat /\ Len(log') \in Nat
  BY SMT DEF TypeOK
<1>2. EnqReads(q)'
  <2>1. /\ tail \in Node /\ tail' \in Node
        /\ \A n \in Node : pos[n] \in Int /\ pos'[n] \in Int
        /\ pos[tail] <= pos'[tail']
    BY DEF TypeOK, Grows
  <2>2. ASSUME pc[q] \in {"e_next", "e_check", "e_link", "e_help", "e_swing"}
        PROVE  /\ tail_ptr[q] \in Node /\ Linked(tail_ptr[q])
               /\ pos'[tail_ptr[q]] = pos[tail_ptr[q]]
               /\ pos'[tail_ptr[q]] <= pos'[tail']
    <3>1. tail_ptr[q] \in Node /\ Linked(tail_ptr[q]) /\ pos[tail_ptr[q]] <= pos[tail]
      BY <2>2 DEF Reads, EnqReads
    <3>2. pos'[tail_ptr[q]] = pos[tail_ptr[q]]
      BY <3>1 DEF Grows
    <3>. QED BY <2>1, <3>1, <3>2, SMT
  <2>3. /\ pc[q] = "e_check" /\ next_ptr[q] # Null => next'[tail_ptr[q]] = next_ptr[q]
        /\ pc[q] = "e_help" => next_ptr[q] # Null /\ next'[tail_ptr[q]] = next_ptr[q]
        /\ pc[q] = "e_swing" => new_node[q] # Null /\ next'[tail_ptr[q]] = new_node[q]
    BY <2>2 DEF Reads, EnqReads, Grows
  <2>. QED BY <2>2, <2>3 DEF EnqReads, Untouched
<1>3. DeqReads(q)'
  <2>1. /\ head_ptr[q] \in Ptr /\ tail_ptr[q] \in Ptr /\ next_ptr[q] \in Ptr
        /\ head \in Node /\ tail \in Node /\ head' \in Node /\ tail' \in Node
        /\ \A n \in Node : pos[n] \in Int /\ pos'[n] \in Int /\ next[n] \in Ptr
    BY DEF TypeOK
  <2>2. pc[q] \in {"d_tail", "d_next", "d_check", "d_help", "d_move", "d_cas"} =>
          head_ptr[q] \in Node /\ pos'[head_ptr[q]] >= 0 /\ pos'[head_ptr[q]] <= pos'[head']
    BY <2>1, SMT DEF Reads, DeqReads, Grows
  <2>3. pc[q] \in {"d_next", "d_check", "d_help", "d_move", "d_cas"} =>
           /\ tail_ptr[q] \in Node
           /\ pos'[head_ptr[q]] <= pos'[tail_ptr[q]]
           /\ pos'[tail_ptr[q]] <= pos'[tail']
    BY <2>1, SMT DEF Reads, DeqReads, Grows
  <2>4. pc[q] = "d_check" => IF next_ptr[q] = Null THEN "empty" \in seen'[q]
                                                   ELSE next'[head_ptr[q]] = next_ptr[q]
    BY <2>1 DEF Reads, DeqReads, Grows
  <2>5. pc[q] \in {"d_help", "d_move", "d_cas"} =>
           next_ptr[q] # Null /\ next'[head_ptr[q]] = next_ptr[q]
    BY <2>1, SMT DEF Reads, DeqReads, Grows
  <2>6. pc[q] = "d_cas" /\ ~MoveClears => value[q] = log'[pos'[next_ptr[q]]]
    <3>. SUFFICES ASSUME pc[q] = "d_cas", ~MoveClears PROVE value[q] = log'[pos'[next_ptr[q]]]
      OBVIOUS
    <3>1. next_ptr[q] \in Node /\ head_ptr[q] \in Node /\ Linked(head_ptr[q])
          /\ next[head_ptr[q]] = next_ptr[q] /\ value[q] = log[pos[next_ptr[q]]]
      BY <2>1 DEF Reads, DeqReads
    <3>2. pos[next_ptr[q]] = pos[head_ptr[q]] + 1
      BY <3>1, Nodes, ZenonT(30) DEF Chain
    <3>3. pos[next_ptr[q]] >= 1
      BY <3>1, <3>2, <2>1, SMT
    <3>4. pos[next_ptr[q]] \in 1 .. Len(log)
      BY <3>1, <3>3, <2>1, <1>1, SMT DEF Chain
    <3>. QED BY <3>1, <3>3, <3>4, SMT DEF Grows
  <2>. QED
    BY <2>2, <2>3, <2>4, <2>5, <2>6 DEF Reads, DeqReads, Untouched
<1>4. EmptyReads(q)'
  BY <1>1, SMT DEF TypeOK, Reads, EmptyReads, Grows, Untouched
<1>. QED BY <1>2, <1>3, <1>4 DEF Reads

(* A step of p that only reads shared memory keeps Inv if it keeps what    *)
(* Inv says of p itself.                                                   *)
LEMMA LocalStep ==
    ASSUME Inv, TypeOK', NEW p \in Thread,
           UNCHANGED <<head, tail, next, data, allocated, pos, log>>,
           \A q \in Thread \ {p} : Untouched(q) /\ seen'[q] = seen[q],
           pc'[p] \in EnqPc => pc[p] \in EnqPc /\ new_node'[p] = new_node[p],
           Reads(p)', ObservedBy(p)', Draining'
    PROVE  Inv'
<1>. TypeOK /\ Chain /\ Order /\ Allocation /\ NodeData
      /\ \A q \in Thread : Reads(q) /\ ObservedBy(q)
  BY InvParts
<1>1. Chain' /\ Order' /\ NodeData'
  BY DEF Chain, Order, NodeData
<1>2. Allocation'
  BY SMT DEF Allocation, Untouched
<1>3. ASSUME NEW q \in Thread \ {p} PROVE Reads(q)' /\ ObservedBy(q)'
  <2>1. Len(log) \in Nat /\ \A n \in Node : pos[n] \in Int
    BY SMT DEF TypeOK
  <2>2. Grows
    BY <2>1, SMT DEF Grows, TypeOK
  <2>3. Reads(q)'
    BY <2>1, <2>2, ReadsAreStable, SMT
  <2>4. ObservedBy(q)'
    BY DEF ObservedBy, Untouched, Fill
  <2>. QED BY <2>3, <2>4
<1>. QED BY <1>1, <1>2, <1>3 DEF Inv, Structure, Reads, Observed, ObservedBy

(* The steps that only read shared memory: those of enqueue, of dequeue,   *)
(* of empty, and where calls begin and end.                                *)
LEMMA EnqLocalKeeps ==
    ASSUME Inv, NEW p \in Thread,
           \/ EnqLoadTail(p) \/ EnqLoadNext(p) \/ EnqCheck(p)
           \/ EnqLinkFail(p) \/ EnqSwingFail(p) \/ EnqHelpFail(p)
    PROVE  Inv'
<1>. TypeOK /\ Order /\ Reads(p) /\ ObservedBy(p) /\ Draining
  BY InvParts
<1>. USE DEF EnqLoadTail, EnqLoadNext, EnqCheck, EnqLinkFail, EnqSwingFail, EnqHelpFail, Goto,
             Leave, locals
<1>1. TypeOK'
  <2>1. CASE EnqLoadTail(p)
    BY <2>1, Nodes DEF TypeOK, Reads, EnqReads, Pc, EnqPc, Result
  <2>2. CASE EnqLoadNext(p)
    BY <2>2, Nodes DEF TypeOK, Reads, EnqReads, Pc, EnqPc, Result
  <2>3. CASE EnqCheck(p) \/ EnqLinkFail(p) \/ EnqHelpFail(p)
    BY <2>3, Nodes DEF TypeOK, Reads, EnqReads, Pc, EnqPc, Result
  <2>4. CASE EnqSwingFail(p)
    BY <2>4, Nodes DEF TypeOK, Reads, EnqReads, Pc, EnqPc, Result
  <2>. QED BY <2>1, <2>2, <2>3, <2>4
<1>2. /\ UNCHANGED <<head, tail, next, data, allocated, pos, log>>
      /\ \A q \in Thread \ {p} : Untouched(q) /\ seen'[q] = seen[q]
      /\ pc'[p] \in EnqPc => pc[p] \in EnqPc /\ new_node'[p] = new_node[p]
  BY ZenonT(30) DEF TypeOK, Untouched, EnqPc
<1>3. Reads(p)'
  <2>1. CASE EnqLoadTail(p)
    BY <2>1, SMT DEF TypeOK, Order, Reads, EnqReads, DeqReads, EmptyReads
  <2>2. CASE EnqLoadNext(p)
    BY <2>2 DEF TypeOK, Reads, EnqReads, DeqReads, EmptyReads
  <2>3. CASE EnqCheck(p) \/ EnqLinkFail(p) \/ EnqSwingFail(p) \/ EnqHelpFail(p)
    BY <2>3, SMTT(30) DEF TypeOK, Reads, EnqReads, DeqReads, EmptyReads
  <2>. QED BY <2>1, <2>2, <2>3
<1>4. ObservedBy(p)'
  BY DEF TypeOK, ObservedBy, Fill
<1>5. Draining'
  BY DEF TypeOK, Draining, DeqPc, QueueEmpty
<1>. QED BY <1>1, <1>2, <1>3, <1>4, <1>5, LocalStep

LEMMA DeqLocalKeeps ==
    ASSUME Inv, NEW p \in Thread,
           \/ DeqLoadHead(p) \/ DeqLoadTail(p) \/ DeqLoadNext(p) \/ DeqCheck(p)
           \/ DeqHelpFail(p) \/ DeqTakeFail(p)
    PROVE  Inv'
<1>. TypeOK /\ Chain /\ Order /\ Reads(p) /\ ObservedBy(p) /\ Draining
  BY InvParts
<1>. USE DEF DeqLoadHead, DeqLoadTail, DeqLoadNext, DeqCheck, DeqBranch, DeqHelpFail,
             DeqTakeFail, Goto, locals
<1>1. TypeOK'
  <2>1. CASE DeqLoadHead(p)
    BY <2>1, Nodes DEF TypeOK, Reads, DeqReads, Pc, DeqPc, Result
  <2>2. CASE DeqLoadTail(p)
    BY <2>2, Nodes DEF TypeOK, Reads, DeqReads, Pc, DeqPc, Result
  <2>3. CASE DeqLoadNext(p)
    BY <2>3, Nodes DEF TypeOK, Reads, DeqReads, Pc, DeqPc, Result
  <2>4. CASE DeqCheck(p)
    BY <2>4, Nodes DEF TypeOK, Reads, DeqReads, Pc, DeqPc, Result
  <2>5. CASE DeqHelpFail(p) \/ DeqTakeFail(p)
    BY <2>5, Nodes DEF TypeOK, Reads, DeqReads, Pc, DeqPc, Result
  <2>. QED BY <2>1, <2>2, <2>3, <2>4, <2>5
<1>2. /\ UNCHANGED <<head, tail, next, data, allocated, pos, log>>
      /\ \A q \in Thread \ {p} : Untouched(q) /\ seen'[q] = seen[q]
      /\ pc'[p] \notin EnqPc
  BY SMT DEF TypeOK, Untouched, EnqPc
<1>3. Reads(p)'
  <2>. Len(log) \in Nat /\ head \in Node /\ tail \in Node /\ \A n \in Node : pos[n] \in Int
    BY SMT DEF TypeOK
  <2>1. CASE DeqLoadHead(p)
    BY <2>1, SMTT(30) DEF TypeOK, Order, Reads, EnqReads, DeqReads, EmptyReads
  <2>2. CASE DeqLoadTail(p)
    BY <2>2, SMT DEF TypeOK, Order, Reads, EnqReads, DeqReads, EmptyReads
  <2>3. CASE DeqLoadNext(p)
    <3>1. /\ head_ptr[p] \in Node /\ Linked(head_ptr[p]) /\ pos[head_ptr[p]] <= pos[head]
          /\ Fill(pos[head], Len(log)) \in seen[p]
      BY <2>3 DEF Reads, DeqReads, ObservedBy
    <3>2. next[head_ptr[p]] = Null => pos[head] = Len(log)
      BY <3>1, SMT DEF Chain, Order
    <3>3. next[head_ptr[p]] = Null => "empty" \in seen[p]
      BY <3>1, <3>2 DEF Fill
    <3>. QED BY <2>3, <3>1, <3>3 DEF TypeOK, Reads, EnqReads, DeqReads, EmptyReads
  <2>4. CASE DeqCheck(p) \/ DeqHelpFail(p) \/ DeqTakeFail(p)
    BY <2>4, ZenonT(30) DEF TypeOK, Reads, EnqReads, DeqReads, EmptyReads
  <2>. QED BY <2>1, <2>2, <2>3, <2>4
<1>4. ObservedBy(p)'
  BY DEF TypeOK, Reads, DeqReads, ObservedBy, Fill
<1>5. Draining'
  <2>1. UNCHANGED <<head, pos, log, dtor, destroyer, seen>>
    OBVIOUS
  <2>2. pc'[p] \in DeqPc \union {"return"} /\ pc[p] \in DeqPc
    BY DEF TypeOK, DeqPc
  <2>. QED BY <2>1, <2>2, ZenonT(30) DEF TypeOK, Draining, DeqPc, QueueEmpty
<1>. QED BY <1>1, <1>2, <1>3, <1>4, <1>5, LocalStep

LEMMA EmptyLocalKeeps == ASSUME Inv, NEW p \in Thread, EmptyStep(p) PROVE Inv'
<1>. TypeOK /\ Order /\ Reads(p) /\ ObservedBy(p) /\ Draining
  BY InvParts
<1>. USE DEF EmptyStep, EmptyLoadHead, EmptyLoadTail, EmptyLoadNext, Goto, Answer, Fill
<1>1. TypeOK'
  <2>1. CASE EmptyLoadHead(p)
    BY <2>1, Nodes DEF TypeOK, Pc, EmptyPc, Result
  <2>2. CASE EmptyLoadTail(p)
    BY <2>2, Nodes DEF TypeOK, Pc, EmptyPc, Result
  <2>3. CASE EmptyLoadNext(p)
    BY <2>3, Nodes DEF TypeOK, Pc, EmptyPc, Result
  <2>. QED BY <2>1, <2>2, <2>3
<1>2. /\ UNCHANGED <<head, tail, next, data, allocated, pos, log>>
      /\ \A q \in Thread \ {p} : Untouched(q) /\ seen'[q] = seen[q]
      /\ pc'[p] \notin EnqPc
  BY DEF TypeOK, Untouched, EnqPc
<1>3. Reads(p)'
  <2>1. Len(log) \in Nat /\ head \in Node /\ pos[head] \in Int /\ pos[head] <= pos[head]
    BY SMT DEF TypeOK
  <2>. QED BY <2>1, SMTT(30) DEF TypeOK, Order, ObservedBy, Reads, EnqReads, DeqReads, EmptyReads
<1>4. ObservedBy(p)'
  BY DEF TypeOK, ObservedBy, Nullopt
<1>5. Draining'
  BY DEF TypeOK, Draining, DeqPc, EmptyPc, QueueEmpty
<1>. QED BY <1>1, <1>2, <1>3, <1>4, <1>5, LocalStep

LEMMA CallKeeps ==
    ASSUME Inv, NEW p \in Thread,
           CallDequeue(p) \/ CallEmpty(p) \/ Destroy(p) \/ DestroyLoop(p) \/ Return(p)
    PROVE  Inv'
<1>. TypeOK /\ Draining /\ \A q \in Thread : ObservedBy(q)
  BY InvParts
<1>. USE DEF CallDequeue, CallEmpty, Destroy, DestroyLoop, Return, StartDequeue, BeginObserving,
             Leave, Goto, Idle, locals
<1>1. TypeOK'
  <2>1. CASE CallDequeue(p) \/ Destroy(p) \/ DestroyLoop(p)
    <3>. StartDequeue(p) /\ dtor' \in {"alive", "draining", "gone"} /\ destroyer' \in SUBSET Thread
      BY <2>1 DEF TypeOK
    <3>. QED BY DEF TypeOK, Pc, DeqPc, Fill
  <2>2. CASE CallEmpty(p)
    BY <2>2, Nodes DEF TypeOK, Pc, DeqPc, EmptyPc, Result, Fill
  <2>3. CASE Return(p)
    BY <2>3, Nodes DEF TypeOK, Pc, DeqPc, EmptyPc, Result, Fill
  <2>. QED BY <2>1, <2>2, <2>3
<1>2. /\ UNCHANGED <<head, tail, next, data, allocated, pos, log>>
      /\ \A q \in Thread \ {p} : Untouched(q) /\ seen'[q] = seen[q]
      /\ pc'[p] \notin EnqPc
  BY ZenonT(30) DEF TypeOK, Untouched, EnqPc
<1>3. Reads(p)'
  BY DEF TypeOK, Reads, EnqReads, DeqReads, EmptyReads
<1>4. ObservedBy(p)'
  BY SMT DEF TypeOK, ObservedBy, Fill
<1>5. Draining'
  <2>1. CASE CallDequeue(p) \/ CallEmpty(p) \/ DestroyLoop(p)
    BY <2>1, SMT DEF TypeOK, Draining, DtorLoopEnds, ObservedBy, DeqPc, QueueEmpty, Fill
  <2>2. CASE Destroy(p)
    BY <2>2 DEF TypeOK, Draining, DtorLoopEnds, ObservedBy, DeqPc, QueueEmpty, Fill
  <2>3. CASE Return(p)
    BY <2>3, SMT DEF TypeOK, Draining, DtorLoopEnds, ObservedBy, DeqPc, QueueEmpty, Fill
  <2>. QED BY <2>1, <2>2, <2>3
<1>. QED BY <1>1, <1>2, <1>3, <1>4, <1>5, LocalStep
-----------------------------------------------------------------------------
(***************************************************************************)
(* A step that writes shared memory keeps Inv when the queue grows         *)
(* (SharedStep): the compare-exchanges of tail and the new node.           *)
(***************************************************************************)
(* A step of p that writes shared memory: the other threads' knowledge     *)
(* survives because the queue only grows.                                  *)
LEMMA SharedStep ==
    ASSUME Inv, TypeOK', Chain', Order', Allocation', NodeData', Grows, NEW p \in Thread,
           \A q \in Thread \ {p} :
               /\ Untouched(q)
               /\ seen[q] \subseteq seen'[q]
               /\ pc[q] # "idle" /\ Len(log) < Len(log') => "filled" \in seen'[q]
               /\ ObservedBy(q)',
           Reads(p)', ObservedBy(p)', Draining'
    PROVE  Inv'
<1>. TypeOK /\ Chain /\ Order /\ \A q \in Thread : Reads(q)
  BY InvParts
<1>1. ASSUME NEW q \in Thread \ {p} PROVE Reads(q)' /\ ObservedBy(q)'
  BY ReadsAreStable
<1>. QED BY <1>1 DEF Inv, Structure, Reads, Observed, ObservedBy

(* tail.compare_exchange_weak by the thread that linked the node or by a   *)
(* helper: in both cases the new tail is the successor of the old one.     *)
LEMMA TailStep ==
    ASSUME Inv, NEW p \in Thread, NEW n \in Node, tail = tail_ptr[p], tail' = n,
           next[tail] = n,
           UNCHANGED <<head, next, data, allocated, dtor, destroyer, pos, log>>
    PROVE  /\ head' \in Node /\ tail' \in Node
           /\ Chain' /\ Order' /\ NodeData' /\ Grows
<1>. TypeOK /\ Chain /\ Order /\ NodeData
  BY InvParts
<1>1. Len(log) \in Nat /\ head \in Node /\ tail \in Node /\ \A m \in Node : pos[m] \in Int
  BY SMT DEF TypeOK
<1>2. pos[n] = pos[tail] + 1 /\ pos[n] = Len(log)
  <2>1. pos[n] = pos[tail] + 1
    BY <1>1, Nodes DEF Chain, Order
  <2>2. pos[n] >= 1
    BY <1>1, <2>1, SMT DEF Order
  <2>3. pos[n] <= Len(log)
    <3>1. pos[n] = Unlinked \/ pos[n] \in 0 .. Len(log)
      BY DEF Chain
    <3>. QED BY <1>1, <2>2, <3>1, SMT
  <2>. QED BY <1>1, <2>1, <2>3, SMT DEF Order
<1>3. Chain' /\ NodeData'
  BY DEF Chain, NodeData
<1>4. Order'
  BY <1>1, <1>2, SMT DEF Order
<1>5. Grows
  BY <1>1, <1>2, SMT DEF Grows
<1>. QED BY <1>1, <1>3, <1>4, <1>5

LEMMA TailKeeps ==
    ASSUME Inv, NEW p \in Thread, EnqSwingOk(p) \/ EnqHelpOk(p) \/ DeqHelpOk(p) PROVE Inv'
<1>. TypeOK /\ Allocation /\ Reads(p) /\ Draining /\ \A q \in Thread : ObservedBy(q)
  BY InvParts
<1>. USE DEF EnqSwingOk, EnqHelpOk, DeqHelpOk, AdvanceTailOk, Goto, Leave, locals
<1>1. PICK n \in Node : tail = tail_ptr[p] /\ tail' = n /\ next[tail] = n
  BY DEF TypeOK, Reads, EnqReads, DeqReads
<1>2. Chain' /\ Order' /\ NodeData' /\ Grows
  BY <1>1, TailStep
<1>3. TypeOK'
  BY <1>1 DEF TypeOK, Pc, EnqPc, DeqPc, Result
<1>4. Allocation'
  <2>1. CASE EnqSwingOk(p)
    BY <2>1 DEF Allocation, TypeOK, EnqPc
  <2>2. CASE EnqHelpOk(p)
    BY <2>2 DEF Allocation, TypeOK, EnqPc
  <2>3. CASE DeqHelpOk(p)
    BY <2>3 DEF Allocation, TypeOK, EnqPc
  <2>. QED BY <2>1, <2>2, <2>3
<1>5. Reads(p)'
  BY SMT DEF TypeOK, Reads, EnqReads, DeqReads, EmptyReads
<1>6. ASSUME NEW q \in Thread \ {p}
      PROVE  Untouched(q) /\ seen'[q] = seen[q] /\ ObservedBy(q)'
  BY SMT DEF TypeOK, Untouched, ObservedBy, Fill
<1>7. ObservedBy(p)'
  BY DEF TypeOK, ObservedBy, Fill
<1>8. Draining'
  BY DEF TypeOK, Draining, DeqPc, QueueEmpty
<1>9. ~(Len(log) < Len(log'))
  BY SMT DEF TypeOK
<1>. QED BY <1>2, <1>3, <1>4, <1>5, <1>6, <1>7, <1>8, <1>9, SharedStep

(* Allocation of the node that enqueue is going to link. *)
LEMMA CallEnqueueKeeps ==
    ASSUME Inv, NEW p \in Thread, NEW v \in Value, CallEnqueue(p, v) PROVE Inv'
<1>. TypeOK /\ Chain /\ Order /\ Allocation /\ NodeData /\ Reads(p) /\ Draining
      /\ \A q \in Thread : ObservedBy(q)
  BY InvParts
<1>1. /\ allocated + 1 \in Node /\ allocated \in Nat /\ allocated + 1 \in 1 .. (allocated + 1)
      /\ allocated' = allocated + 1
  BY MaxEnqAssumption, SMT DEF CallEnqueue, TypeOK, Node
<1>2. pos[allocated + 1] = Unlinked /\ Len(log) \in Nat /\ \A n \in Node : pos[n] \in Int
  BY <1>1, SMT DEF Allocation, TypeOK
<1>3. TypeOK'
  <2>1. allocated + 1 \in 0 .. MaxEnq
    BY <1>1 DEF Node
  <2>. QED
    BY <1>1, <2>1 DEF CallEnqueue, TypeOK, Goto, BeginObserving, Fill, Pc, EnqPc, Content
<1>4. Chain' /\ Order'
  BY DEF CallEnqueue, Chain, Order
<1>5. NodeData'
  BY <1>1, <1>2, SMT DEF CallEnqueue, NodeData, TypeOK
<1>6. Allocation'
  <2>1. \A n \in Node : n > allocated' => pos'[n] = Unlinked
    BY <1>1, Nodes, SMT DEF CallEnqueue, Allocation
  <2>2. ASSUME NEW q \in Thread, pc'[q] \in EnqPc
        PROVE  /\ new_node'[q] \in 1 .. allocated'
               /\ pos'[new_node'[q]] = Unlinked
               /\ data'[new_node'[q]] \in Value
               /\ q # p => new_node'[q] \in 1 .. allocated
    <3>1. CASE q = p
      BY <1>1, <1>2, <3>1 DEF CallEnqueue, TypeOK, Goto
    <3>2. CASE q # p
      <4>1. /\ new_node'[q] = new_node[q] /\ new_node[q] \in 1 .. allocated
            /\ pos[new_node[q]] = Unlinked /\ data[new_node[q]] \in Value
        BY <2>2, <3>2 DEF CallEnqueue, TypeOK, Goto, Allocation
      <4>2. data'[new_node[q]] = data[new_node[q]]
        BY <1>1, <4>1, MaxEnqAssumption, SMT DEF CallEnqueue, TypeOK, Node
      <4>. QED BY <1>1, <4>1, <4>2, SMT DEF CallEnqueue
    <3>. QED BY <3>1, <3>2
  <2>3. ASSUME NEW q \in Thread, NEW r \in Thread, q # r, pc'[q] \in EnqPc, pc'[r] \in EnqPc
        PROVE  new_node'[q] # new_node'[r]
    <3>1. CASE q # p /\ r # p
      BY <2>3, <3>1 DEF CallEnqueue, TypeOK, Goto, Allocation
    <3>2. new_node'[p] = allocated + 1
      BY DEF CallEnqueue, TypeOK
    <3>. QED BY <1>1, <2>2, <2>3, <3>1, <3>2, SMT
  <2>. QED BY <2>1, <2>2, <2>3 DEF Allocation
<1>7. Reads(p)'
  BY DEF CallEnqueue, Goto, TypeOK, Reads, EnqReads, DeqReads, EmptyReads
<1>8. ASSUME NEW q \in Thread \ {p}
      PROVE  Untouched(q) /\ seen'[q] = seen[q] /\ ObservedBy(q)'
  BY DEF CallEnqueue, BeginObserving, Goto, TypeOK, Untouched, ObservedBy, Fill
<1>9. ObservedBy(p)'
  BY DEF CallEnqueue, BeginObserving, Goto, TypeOK, ObservedBy, Fill
<1>10. Draining'
  BY DEF CallEnqueue, Draining
<1>11. Grows /\ ~(Len(log) < Len(log'))
  <2>1. head \in Node /\ tail \in Node
    BY DEF TypeOK
  <2>. QED BY <1>2, <2>1, SMT DEF CallEnqueue, Grows
<1>. QED BY <1>3, <1>4, <1>5, <1>6, <1>7, <1>8, <1>9, <1>10, <1>11, SharedStep
-----------------------------------------------------------------------------
(***************************************************************************)
(* The linearization points, and the theorems that follow from Inv.        *)
(***************************************************************************)
(* The linearization point of enqueue. *)
LEMMA EnqLinkOkKeeps == ASSUME Inv, NEW p \in Thread, EnqLinkOk(p) PROVE Inv'
<1>. TypeOK /\ Chain /\ Order /\ Allocation /\ NodeData /\ Reads(p) /\ Draining
      /\ \A q \in Thread : ObservedBy(q)
  BY InvParts
<1>. /\ pc[p] = "e_link" /\ tail_ptr[p] \in Node
      /\ new_node[p] \in Node /\ pos[new_node[p]] = Unlinked /\ data[new_node[p]] \in Value
      /\ head \in Node /\ tail \in Node /\ head' = head /\ tail' = tail
      /\ Len(log) \in Nat /\ \A n \in Node : pos[n] \in Int
  <2>1. new_node[p] # Null
    <3>1. new_node[p] \in 1 .. allocated
      BY DEF EnqLinkOk, Allocation, EnqPc
    <3>2. allocated \in Nat
      BY MaxEnqAssumption, SMT DEF TypeOK
    <3>. QED BY <3>1, <3>2, SMT DEF Null
  <2>. QED
    BY <2>1, SMTT(20) DEF EnqLinkOk, TypeOK, Reads, EnqReads, Allocation, EnqPc
<1>1. /\ log' \in Seq(Content) /\ Len(log') = Len(log) + 1
      /\ \A i \in 1 .. Len(log) : log'[i] = log[i]
      /\ log'[Len(log) + 1] = data[new_node[p]]
  BY SMTT(20) DEF EnqLinkOk, TypeOK, Content
<1>2. tail_ptr[p] = tail /\ pos[tail] = Len(log) /\ next[tail] = Null
  <2>1. Linked(tail_ptr[p]) /\ pos[tail_ptr[p]] <= pos[tail]
    BY DEF Reads, EnqReads
  <2>2. pos[tail_ptr[p]] = Len(log)
    BY <2>1, ZenonT(30) DEF Chain, EnqLinkOk, LinkExpected
  <2>. QED BY <2>1, <2>2, SMT DEF Chain, Order, EnqLinkOk, LinkExpected
<1>3. TypeOK'
  BY <1>1, SMTT(30) DEF EnqLinkOk, TypeOK, Goto, Observe, Pc, EnqPc, locals
<1>4. /\ \A n \in Node : pos'[n] = IF n = new_node[p] THEN Len(log) + 1 ELSE pos[n]
      /\ \A n \in Node : next'[n] = IF n = tail THEN new_node[p] ELSE next[n]
  BY <1>2, ZenonT(30) DEF EnqLinkOk, TypeOK
<1>5. Chain'
  <2>1. pos'[0] = 0
    BY <1>4, Nodes, SMTT(30) DEF Chain
  <2>2. ASSUME NEW n \in Node PROVE pos'[n] = Unlinked \/ pos'[n] \in 0 .. Len(log')
    BY <1>1, <1>4, SMT DEF Chain
  <2>3. ASSUME NEW m \in Node, NEW n \in Node, pos'[m] >= 0, pos'[m] = pos'[n] PROVE m = n
    BY <1>4, <2>3, SMT DEF Chain
  <2>4. ASSUME NEW n \in Node, ~(pos'[n] >= 0) PROVE next'[n] = Null
    BY <1>2, <1>4, <2>4, SMT DEF Chain
  <2>5. ASSUME NEW n \in Node, pos'[n] >= 0, next'[n] = Null PROVE pos'[n] = Len(log')
    <3>1. n # tail
      BY <1>4, <2>5, Nodes
    <3>2. next[n] = Null
      BY <1>4, <2>5, <3>1
    <3>3. CASE n = new_node[p]
      BY <1>1, <1>4, <3>3
    <3>4. CASE n # new_node[p]
      <4>1. pos[n] >= 0
        BY <1>4, <2>5, <3>4
      <4>2. pos[n] = pos[tail]
        BY <1>2, <3>2, <4>1 DEF Chain
      <4>3. n = tail
        BY <4>1, <4>2 DEF Chain
      <4>. QED BY <3>1, <4>3
    <3>. QED BY <3>3, <3>4
  <2>6. ASSUME NEW n \in Node, pos'[n] >= 0, next'[n] # Null
        PROVE  pos'[next'[n]] = pos'[n] + 1
    <3>1. CASE n = tail
      BY <1>2, <1>4, <3>1, SMTT(30)
    <3>2. CASE n # tail
      <4>1. n # new_node[p]
        BY <1>4, <2>6, <3>2, SMT DEF Chain
      <4>2. next[n] \in Node /\ next[n] # new_node[p] /\ pos[next[n]] = pos[n] + 1
        BY <1>4, <2>6, <3>2, <4>1, SMT DEF Chain, TypeOK
      <4>. QED BY <1>4, <3>2, <4>1, <4>2
    <3>. QED BY <3>1, <3>2
  <2>. QED BY <2>1, <2>2, <2>3, <2>4, <2>5, <2>6 DEF Chain
<1>5a. pos'[head] = pos[head] /\ pos'[tail] = pos[tail]
  <2>1. ~ (Unlinked >= 0)
    BY SMT
  <2>2. head # new_node[p] /\ tail # new_node[p]
    BY <2>1 DEF Order
  <2>. QED BY <1>4, <2>2
<1>6. Order'
  <2>1. Len(log') = Len(log) + 1 /\ pos[tail] = Len(log)
    BY <1>1, <1>2
  <2>2. pos[tail] <= Len(log') /\ Len(log') <= pos[tail] + 1
    BY <2>1, SMT
  <2>. QED BY <1>5a, <2>2 DEF Order
<1>7. Grows
  BY <1>1, <1>2, <1>4, SMT DEF Grows, Order
<1>8. Allocation'
  <2>1. ASSUME NEW q \in Thread, pc'[q] \in EnqPc
        PROVE  q # p /\ pc[q] \in EnqPc
    BY <2>1 DEF EnqLinkOk, TypeOK, Goto, EnqPc
  <2>2. pc[p] \in EnqPc /\ new_node[p] \in 1 .. allocated
    BY DEF Allocation, EnqPc
  <2>3. \A n \in Node : n > allocated => n # new_node[p]
    BY <2>2, Nodes, SMT DEF TypeOK
  <2>4. ASSUME NEW q \in Thread, q # p, pc[q] \in EnqPc
        PROVE  new_node[q] \in Node /\ new_node[q] # new_node[p]
    BY <2>2, <2>4, Nodes, SMT DEF Allocation, TypeOK, Null
  <2>. QED BY <1>4, <2>1, <2>3, <2>4, SMT DEF EnqLinkOk, Allocation, locals
<1>9. NodeData'
  <2>1. data' = data
    BY DEF EnqLinkOk
  <2>2. CASE MoveClears
    BY <2>2 DEF NodeData
  <2>3. ASSUME ~MoveClears, NEW n \in Node, pos'[n] >= 1 PROVE data'[n] = log'[pos'[n]]
    <3>1. CASE n = new_node[p]
      BY <1>1, <1>4, <2>1, <3>1
    <3>2. CASE n # new_node[p]
      <4>1. pos'[n] = pos[n] /\ pos[n] \in 1 .. Len(log)
        BY <1>4, <2>3, <3>2, SMT DEF Chain
      <4>2. data[n] = log[pos[n]]
        BY <2>3, <4>1 DEF NodeData
      <4>. QED BY <1>1, <2>1, <4>1, <4>2
    <3>. QED BY <3>1, <3>2
  <2>. QED BY <2>2, <2>3 DEF NodeData
<1>10. Reads(p)'
  <2>1. pc'[p] = "e_swing" /\ tail_ptr'[p] = tail /\ new_node'[p] = new_node[p]
    BY <1>2 DEF EnqLinkOk, Goto, TypeOK, locals
  <2>2. new_node[p] # Null
    BY Nodes
  <2>3. pos[tail] >= 0 /\ pos[tail] \in Int
    BY DEF Order
  <2>4. tail # new_node[p]
    BY <2>3, SMT
  <2>5. pos'[tail] = pos[tail] /\ next'[tail] = new_node[p]
    BY <1>4, <2>4
  <2>6. EnqReads(p)'
    BY <2>1, <2>2, <2>3, <2>5, SMT DEF EnqReads
  <2>. QED BY <2>1, <2>6 DEF Reads, DeqReads, EmptyReads
<1>11. pos'[head'] # Len(log')
  <2>1. pos[head] \in Int /\ pos[tail] \in Int /\ Len(log) \in Nat
    OBVIOUS
  <2>2. 0 <= pos[head] /\ pos[head] <= Len(log)
    <3>1. pos[head] >= 0 /\ pos[head] <= pos[tail] /\ pos[tail] <= Len(log)
      BY DEF Order
    <3>. QED BY <2>1, <3>1, SMT
  <2>3. head # new_node[p]
    BY <2>2, SMT
  <2>4. pos'[head'] = pos[head]
    BY <1>4, <2>3
  <2>5. Len(log') = Len(log) + 1
    BY <1>1
  <2>. QED BY <2>1, <2>2, <2>4, <2>5, SMT
<1>12. ASSUME NEW q \in Thread
       PROVE  /\ seen[q] \subseteq seen'[q]
              /\ pc[q] # "idle" => "filled" \in seen'[q]
              /\ ObservedBy(q)'
  BY <1>11 DEF EnqLinkOk, Goto, Observe, TypeOK, ObservedBy, Fill, locals
<1>13. ASSUME NEW q \in Thread \ {p} PROVE Untouched(q)
  BY DEF EnqLinkOk, Goto, TypeOK, Untouched, locals
<1>14. Draining'
  BY DEF EnqLinkOk, Draining, DeqPc
<1>. QED
  <2>1. \A q \in Thread \ {p} :
            /\ Untouched(q) /\ seen[q] \subseteq seen'[q] /\ ObservedBy(q)'
            /\ pc[q] # "idle" /\ Len(log) < Len(log') => "filled" \in seen'[q]
    BY <1>12, <1>13
  <2>2. ObservedBy(p)'
    BY <1>12
  <2>. QED
    BY <1>3, <1>5, <1>6, <1>7, <1>8, <1>9, <1>10, <1>14, <2>1, <2>2, SharedStep


(* T value = std::move(next_ptr->data). *)
LEMMA DeqMoveKeeps == ASSUME Inv, NEW p \in Thread, DeqMove(p) PROVE Inv'
<1>. TypeOK /\ Chain /\ Order /\ Allocation /\ NodeData /\ Reads(p) /\ Draining
      /\ \A q \in Thread : ObservedBy(q)
  BY InvParts
<1>1. /\ next_ptr[p] \in Node /\ head_ptr[p] \in Node /\ Linked(head_ptr[p])
      /\ next[head_ptr[p]] = next_ptr[p]
      /\ \A n \in Node : pos[n] \in Int
      /\ Len(log) \in Nat /\ head \in Node /\ tail \in Node
  BY SMTT(30) DEF DeqMove, TypeOK, Reads, DeqReads
<1>2. pos[next_ptr[p]] >= 1
  <2>1. pos[next_ptr[p]] = pos[head_ptr[p]] + 1
    BY <1>1, Nodes DEF Chain
  <2>. QED BY <1>1, <2>1, SMT
<1>3. TypeOK'
  BY <1>1 DEF DeqMove, TypeOK, Goto, Pc, DeqPc, Result, Content
<1>4. Chain' /\ Order'
  BY DEF DeqMove, Chain, Order
<1>5. NodeData'
  BY DEF DeqMove, NodeData
<1>6. Allocation'
  <2>1. ASSUME NEW q \in Thread, pc'[q] \in EnqPc
        PROVE  /\ pc[q] \in EnqPc /\ new_node[q] \in Node
               /\ data'[new_node[q]] = data[new_node[q]]
    <3>1. pc[q] \in EnqPc /\ pos[new_node[q]] = Unlinked /\ new_node[q] # Null
      BY <2>1, SMT DEF DeqMove, Goto, TypeOK, EnqPc, Allocation, Null
    <3>. QED BY <1>2, <3>1, SMT DEF DeqMove, TypeOK
  <2>. QED BY <2>1 DEF DeqMove, Allocation
<1>7. Reads(p)'
  <2>1. value'[p] = data[next_ptr[p]] /\ data[next_ptr[p]] \in Content /\ pc'[p] = "d_cas"
    BY <1>1 DEF DeqMove, TypeOK, Goto
  <2>2. ~MoveClears => data[next_ptr[p]] = log[pos[next_ptr[p]]]
    BY <1>1, <1>2 DEF NodeData
  <2>. QED BY <1>1, <2>1, <2>2 DEF DeqMove, Reads, EnqReads, DeqReads, EmptyReads
<1>8. ASSUME NEW q \in Thread \ {p}
      PROVE  Untouched(q) /\ seen'[q] = seen[q] /\ ObservedBy(q)'
  BY DEF DeqMove, Goto, TypeOK, Untouched, ObservedBy, Fill
<1>9. ObservedBy(p)'
  BY DEF DeqMove, Goto, TypeOK, ObservedBy, Fill
<1>10. Draining'
  BY DEF DeqMove, Goto, TypeOK, Draining, DeqPc, QueueEmpty
<1>11. Grows /\ Len(log') = Len(log)
  BY <1>1, SMT DEF DeqMove, Grows
<1>12. ~(Len(log) < Len(log'))
  BY <1>1, <1>11, SMT
<1>. QED BY <1>3, <1>4, <1>5, <1>6, <1>7, <1>8, <1>9, <1>10, <1>11, <1>12, SharedStep

(* The linearization point of a dequeue that returns a value. *)
LEMMA DeqTakeOkKeeps == ASSUME Inv, NEW p \in Thread, DeqTakeOk(p) PROVE Inv'
<1>. TypeOK /\ Chain /\ Order /\ Allocation /\ NodeData /\ Reads(p) /\ Draining
      /\ \A q \in Thread : ObservedBy(q)
  BY InvParts
<1>1. /\ next_ptr[p] \in Node /\ head \in Node /\ tail \in Node /\ tail_ptr[p] \in Node
      /\ head' = next_ptr[p] /\ head = head_ptr[p] /\ next[head] = next_ptr[p]
      /\ pos[head] <= pos[tail_ptr[p]] /\ pos[tail_ptr[p]] <= pos[tail]
      /\ head # tail_ptr[p] /\ value[p] \in Content
      /\ \A n \in Node : pos[n] \in Int
      /\ Len(log) \in Nat
  BY SMT DEF DeqTakeOk, TakeExpected, TypeOK, Reads, DeqReads
<1>2. pos[next_ptr[p]] = pos[head] + 1 /\ pos[next_ptr[p]] <= pos[tail] /\ pos[head] < Len(log)
  <2>1. pos[next_ptr[p]] = pos[head] + 1
    BY <1>1, Nodes, SMTT(20) DEF Chain, Order
  <2>2. pos[head] # pos[tail_ptr[p]]
    BY <1>1 DEF Chain, Order
  <2>3. pos[tail] <= Len(log)
    BY DEF Order
  <2>4. /\ pos[head] \in Int /\ pos[tail] \in Int /\ pos[tail_ptr[p]] \in Int /\ Len(log) \in Int
        /\ pos[head] <= pos[tail_ptr[p]] /\ pos[tail_ptr[p]] <= pos[tail]
    BY <1>1, SMT
  <2>. QED BY <2>1, <2>2, <2>3, <2>4, SMTT(20)
<1>3. TypeOK'
  BY <1>1 DEF DeqTakeOk, TypeOK, Goto, Observe, Fill, Pc, locals
<1>4. Chain' /\ NodeData'
  BY ZenonT(30) DEF DeqTakeOk, Chain, NodeData
<1>5. Order'
  <2>1. UNCHANGED <<tail, pos, log>> /\ head' = next_ptr[p]
    BY DEF DeqTakeOk
  <2>2. pos[head] \in Int /\ pos[head] >= 0 /\ pos[next_ptr[p]] = pos[head] + 1
    BY <1>1, <1>2 DEF Order
  <2>3. pos[next_ptr[p]] >= 0
    BY <2>2, SMT
  <2>. QED BY <1>2, <2>1, <2>3 DEF Order
<1>6. Allocation'
  BY DEF DeqTakeOk, Goto, TypeOK, Allocation, EnqPc, locals
<1>7. Grows /\ ~(Len(log) < Len(log'))
  <2>1. UNCHANGED <<tail, next, pos, log>>
    BY DEF DeqTakeOk
  <2>2. pos[head] \in Int /\ pos[tail] \in Int /\ Len(log) \in Nat
    BY <1>1
  <2>3. pos[head] <= pos'[head'] /\ pos[tail] <= pos'[tail']
    BY <1>1, <1>2, <2>1, <2>2, SMTT(30)
  <2>4. Len(log) <= Len(log') /\ ~(Len(log) < Len(log'))
    BY <2>1, <2>2, SMT
  <2>. QED BY <2>1, <2>3, <2>4 DEF Grows
<1>8. Reads(p)'
  BY DEF DeqTakeOk, Goto, TypeOK, Reads, EnqReads, DeqReads, EmptyReads
<1>9. ASSUME NEW q \in Thread
       PROVE  seen[q] \subseteq seen'[q] /\ ObservedBy(q)'
  <2>1. value[p] # Nullopt
    BY <1>1, ValueAssumption DEF Content, Default, MovedFrom, Nullopt
  <2>. QED
    BY <1>1, <2>1 DEF DeqTakeOk, Goto, Observe, TypeOK, ObservedBy, locals
<1>10. ASSUME NEW q \in Thread \ {p} PROVE Untouched(q)
  BY DEF DeqTakeOk, Goto, TypeOK, Untouched, locals
<1>11. Draining'
  <2>1. dtor = "draining" => \A q \in Thread : "empty" \notin seen[q]
    <3>1. ~QueueEmpty
      BY <1>1, <1>2, SMT DEF QueueEmpty
    <3>. QED BY <3>1 DEF Draining
  <2>2. ASSUME NEW q \in Thread, dtor = "draining", "empty" \in seen'[q] PROVE QueueEmpty'
    BY <1>1, <2>1, <2>2 DEF DeqTakeOk, Observe, TypeOK, Fill, QueueEmpty
  <2>3. dtor # "gone"
    BY DEF Draining, DeqTakeOk
  <2>. QED
    BY <2>2, <2>3 DEF DeqTakeOk, Goto, TypeOK, Draining, DeqPc
<1>. QED
  BY <1>3, <1>4, <1>5, <1>6, <1>7, <1>8, <1>9, <1>10, <1>11, SharedStep

-----------------------------------------------------------------------------
LEMMA InitInv == Init => Inv
<1>. SUFFICES ASSUME Init PROVE Inv
  OBVIOUS
<1>1. TypeOK
  BY Nodes, MaxEnqAssumption, SMT DEF Init, TypeOK, Pc, Result, Content
<1>2. Len(log) = 0 /\ \A n \in Node : pos[n] = IF n = 0 THEN 0 ELSE Unlinked
  BY DEF Init
<1>3. Chain /\ Order
  BY <1>2, Nodes, SMT DEF Init, Chain, Order
<1>4. Allocation /\ NodeData
  BY <1>2, Nodes, SMT DEF Init, Allocation, NodeData, EnqPc
<1>5. ASSUME NEW q \in Thread PROVE Reads(q) /\ ObservedBy(q)
  BY DEF Init, Reads, EnqReads, DeqReads, EmptyReads, ObservedBy
<1>6. Draining
  BY DEF Init, Draining
<1>. QED BY <1>1, <1>3, <1>4, <1>5, <1>6, InvParts

LEMMA InductiveStep == Inv /\ [Next]_vars => Inv'
<1>. SUFFICES ASSUME Inv, [Next]_vars PROVE Inv'
  OBVIOUS
<1>1. CASE UNCHANGED vars
  <2>1. TypeOK'
    BY <1>1 DEF vars, locals, Inv, TypeOK
  <2>2. Chain' /\ Order' /\ Allocation' /\ NodeData'
    BY <1>1 DEF vars, locals, Inv, Structure, Chain, Order, Allocation, NodeData
  <2>3. ASSUME NEW q \in Thread PROVE EnqReads(q)' /\ DeqReads(q)' /\ EmptyReads(q)'
    BY <1>1 DEF vars, locals, Inv, EnqReads, DeqReads, EmptyReads
  <2>4. Observed' /\ Draining'
    BY <1>1 DEF vars, locals, Inv, Observed, Draining, QueueEmpty, Fill
  <2>. QED BY <2>1, <2>2, <2>3, <2>4 DEF Inv, Structure
<1>2. ASSUME NEW p \in Thread, NEW v \in Value, CallEnqueue(p, v) PROVE Inv'
  BY <1>2, CallEnqueueKeeps
<1>3. ASSUME NEW p \in Thread, CallDequeue(p) \/ CallEmpty(p) \/ Destroy(p) PROVE Inv'
  BY <1>3, CallKeeps
<1>4. ASSUME NEW p \in Thread, EnqStep(p) PROVE Inv'
  BY <1>4, EnqLocalKeeps, EnqLinkOkKeeps, TailKeeps DEF EnqStep
<1>5. ASSUME NEW p \in Thread, DeqStep(p) PROVE Inv'
  BY <1>5, DeqLocalKeeps, TailKeeps, DeqMoveKeeps, DeqTakeOkKeeps DEF DeqStep
<1>6. ASSUME NEW p \in Thread, EmptyStep(p) \/ Return(p) \/ DestroyLoop(p) PROVE Inv'
  BY <1>6, EmptyLocalKeeps, CallKeeps
<1>. QED BY <1>1, <1>2, <1>3, <1>4, <1>5, <1>6 DEF Next, Step

(* Inv holds in every reachable state. *)
THEOREM Invariance == Spec => []Inv
BY InitInv, InductiveStep, PTL DEF Spec

(* Every variable keeps its type, whatever the threads do. *)
THEOREM TypeCorrect == Spec => []TypeOK
<1>1. Inv => TypeOK
  BY DEF Inv
<1>. QED BY <1>1, Invariance, PTL

(* The list is one chain, head never passes tail, and tail lags by at most *)
(* one node, for any number of threads and nodes.                          *)
THEOREM StructureCorrect == Spec => []Structure
<1>1. Inv => Structure
  BY DEF Inv
<1>. QED BY <1>1, Invariance, PTL

(* A finished destructor leaves no value behind in the queue. *)
THEOREM DestructorCorrect == Spec => []DestructorDrains
<1>1. Inv => DestructorDrains
  BY DEF Inv, Draining, DestructorDrains
<1>. QED BY <1>1, Invariance, PTL

-----------------------------------------------------------------------------
(* One step of the code as PointersAdvance describes it. *)
Advance ==
    /\ pos'[head'] \in {pos[head], pos[head] + 1}
    /\ pos'[tail'] \in {pos[tail], pos[tail] + 1}
    /\ \A n \in Node : next[n] # Null => next'[n] = next[n]

LEMMA TailAdvances ==
    ASSUME Inv, NEW p \in Thread, NEW n \in Node, tail = tail_ptr[p], tail' = n, next[tail] = n,
           UNCHANGED <<head, next, pos>>
    PROVE  Advance
<1>. TypeOK /\ Chain /\ Order
  BY InvParts
<1>1. pos[n] = pos[tail] + 1
  BY Nodes DEF TypeOK, Chain, Order
<1>. QED BY <1>1 DEF Advance

LEMMA StepAdvances == Inv /\ [Next]_vars => [Advance]_vars
<1>. SUFFICES ASSUME Inv, Next PROVE Advance
  BY DEF vars
<1>. TypeOK /\ Chain /\ Order /\ Allocation /\ \A q \in Thread : Reads(q)
  BY InvParts
<1>1. PICK p \in Thread :
          \/ \E v \in Value : CallEnqueue(p, v)
          \/ CallDequeue(p) \/ CallEmpty(p) \/ Destroy(p) \/ Step(p)
  BY DEF Next
<1>2. CASE UNCHANGED <<head, tail, next, pos>>
  BY <1>2 DEF Advance
<1>3. CASE EnqSwingOk(p)
  BY <1>3, TailAdvances DEF EnqSwingOk, AdvanceTailOk, TypeOK, Reads, EnqReads
<1>4. CASE EnqHelpOk(p)
  BY <1>4, TailAdvances DEF EnqHelpOk, AdvanceTailOk, TypeOK, Reads, EnqReads
<1>5. CASE DeqHelpOk(p)
  BY <1>5, TailAdvances DEF DeqHelpOk, AdvanceTailOk, TypeOK, Reads, DeqReads
<1>6. CASE EnqLinkOk(p)
  <2>1. /\ tail_ptr[p] \in Node /\ new_node[p] \in Node /\ pos[new_node[p]] = Unlinked
        /\ head \in Node /\ tail \in Node
    <3>1. pc[p] = "e_link" /\ Reads(p)
      BY <1>6 DEF EnqLinkOk
    <3>2. new_node[p] \in 1 .. allocated /\ pos[new_node[p]] = Unlinked
      BY <3>1 DEF EnqPc, Allocation
    <3>3. new_node[p] # Null
      BY <3>2, SMT DEF Null
    <3>4. tail_ptr[p] \in Node
      BY <3>1 DEF Reads, EnqReads
    <3>. QED BY <3>2, <3>3, <3>4 DEF TypeOK
  <2>2. pos'[head'] = pos[head] /\ pos'[tail'] = pos[tail]
    BY <1>6, <2>1, SMT DEF EnqLinkOk, TypeOK, Order
  <2>. QED BY <1>6, <2>1, <2>2 DEF EnqLinkOk, LinkExpected, TypeOK, Advance
<1>7. CASE DeqTakeOk(p)
  <2>1. head \in Node /\ head = head_ptr[p] /\ next[head] = next_ptr[p] /\ next_ptr[p] # Null
    BY <1>7 DEF DeqTakeOk, TakeExpected, TypeOK, Reads, DeqReads
  <2>2. pos[next_ptr[p]] = pos[head] + 1
    BY <2>1 DEF Chain, Order
  <2>. QED BY <1>7, <2>2 DEF DeqTakeOk, Advance
<1>. QED
  BY <1>1, <1>2, <1>3, <1>4, <1>5, <1>6, <1>7
  DEF CallEnqueue, CallDequeue, CallEmpty, Destroy, Step, EnqStep, DeqStep, EmptyStep,
      EnqLoadTail, EnqLoadNext, EnqCheck, EnqLinkFail, EnqSwingFail, EnqHelpFail, StartDequeue,
      DeqLoadHead, DeqLoadTail, DeqLoadNext, DeqCheck, DeqHelpFail, DeqMove, DeqTakeFail,
      EmptyLoadHead, EmptyLoadTail, EmptyLoadNext, Return, DestroyLoop

(* head and tail only move forward, one node at a time, and a next pointer *)
(* is never overwritten: no ABA, whatever the interleaving.                *)
THEOREM PointersAdvanceCorrect == Spec => PointersAdvance
<1>1. Inv /\ [Next]_vars =>
        [/\ pos'[head'] \in {pos[head], pos[head] + 1}
         /\ pos'[tail'] \in {pos[tail], pos[tail] + 1}
         /\ \A n \in Node : next[n] # Null => next'[n] = next[n]]_vars
  BY StepAdvances DEF Advance
<1>. QED BY <1>1, Invariance, PTL DEF Spec, PointersAdvance
-----------------------------------------------------------------------------
(***************************************************************************)
(* The refinement of FifoQueue.                                            *)
(***************************************************************************)
(* Refinement.  A thread's abstract operation is a function of its pc. *)
LEMMA OpFacts ==
    /\ OpOf("idle") = "idle" /\ OpOf("return") = "done" /\ OpOf("e_swing") = "done"
    /\ \A l \in EnqPc : OpOf(l) = "enq"
    /\ \A l \in DeqPc : OpOf(l) = "deq"
    /\ \A l \in EmptyPc : OpOf(l) = "empty"
    /\ \A l \in Pc : OpOf(l) = "idle" <=> l = "idle"
BY DEF OpOf, EnqPc, DeqPc, EmptyPc, Pc

(* Steps inside a call, before or after its linearization point. *)
LEMMA InternalStep ==
    ASSUME TypeOK, NEW p \in Thread, NEW l \in Pc, Goto(p, l),
           UNCHANGED <<head, pos, log, seen, data, new_node>>,
           OpOf(l) = OpOf(pc[p]), l \in EnqPc <=> pc[p] \in EnqPc,
           l # "return", pc[p] # "return",
           \A q \in Thread \ {p} : value'[q] = value[q]
    PROVE  UNCHANGED Abs!vars
<1>1. \A q \in Thread : pc'[q] = IF q = p THEN l ELSE pc[q]
  BY DEF Goto, TypeOK
<1>2. absOp' = absOp
  BY <1>1 DEF absOp
<1>3. absArg' = absArg
  BY <1>1 DEF absArg
<1>4. absRes' = absRes
  BY <1>1 DEF absRes
<1>. QED BY <1>2, <1>3, <1>4 DEF Abs!vars

(* A call that returns leaves the abstract queue as it was. *)
LEMMA LeaveReturns ==
    ASSUME TypeOK, NEW p \in Thread, pc[p] \in {"e_swing", "return"}, Leave(p),
           UNCHANGED <<head, pos, log, data>>
    PROVE  Abs!Return(p)
<1>1. \A q \in Thread : pc'[q] = IF q = p THEN "idle" ELSE pc[q]
  BY DEF Leave, Goto, TypeOK
<1>2. \A q \in Thread \ {p} : new_node'[q] = new_node[q] /\ value'[q] = value[q]
  BY DEF Leave, TypeOK
<1>3. absOp[p] = "done" /\ absOp' = [absOp EXCEPT ![p] = "idle"]
  BY <1>1, OpFacts DEF absOp
<1>4. absRes' = [absRes EXCEPT ![p] = None]
  BY <1>1, <1>2 DEF absRes
<1>5. absArg' = absArg
  BY <1>1, <1>2 DEF absArg, EnqPc
<1>. QED BY <1>3, <1>4, <1>5 DEF Leave, Abs!Return, Abs!None, None

(* A dequeue or empty call begins. *)
LEMMA CallBegins ==
    ASSUME TypeOK, NEW p \in Thread, pc[p] = "idle", NEW l \in {"d_head", "m_head"},
           Goto(p, l), BeginObserving(p),
           UNCHANGED <<head, pos, log, data, new_node, value>>
    PROVE  Abs!Call(p, OpOf(l), Abs!None)
<1>1. \A q \in Thread : pc'[q] = IF q = p THEN l ELSE pc[q]
  BY DEF Goto, TypeOK
<1>2. absOp[p] = "idle" /\ absOp' = [absOp EXCEPT ![p] = OpOf(l)]
  BY <1>1, OpFacts DEF absOp
<1>3. absArg' = [absArg EXCEPT ![p] = Abs!None]
  BY <1>1 DEF absArg, EnqPc, Abs!None, None
<1>4. absRes' = absRes
  BY <1>1 DEF absRes
<1>. QED BY <1>2, <1>3, <1>4 DEF BeginObserving, Fill, Abs!Call, Abs!Fill

LEMMA CallEnqueueBegins ==
    ASSUME Inv, NEW p \in Thread, NEW v \in Value, CallEnqueue(p, v)
    PROVE  Abs!Call(p, "enq", v)
<1>. TypeOK /\ Allocation
  BY InvParts
<1>1. \A q \in Thread : pc'[q] = IF q = p THEN "e_tail" ELSE pc[q]
  BY DEF CallEnqueue, Goto, TypeOK
<1>2. absOp[p] = "idle" /\ absOp' = [absOp EXCEPT ![p] = "enq"]
  BY <1>1, OpFacts DEF CallEnqueue, absOp, EnqPc
<1>3. absArg' = [absArg EXCEPT ![p] = v]
  <2>1. /\ allocated \in Nat /\ allocated + 1 \in Node
        /\ \A i \in 1 .. allocated : i \in Node
    BY MaxEnqAssumption, SMT DEF CallEnqueue, TypeOK, Node
  <2>2. new_node'[p] = allocated + 1 /\ data'[allocated + 1] = v
    BY <2>1 DEF CallEnqueue, TypeOK
  <2>3. ASSUME NEW q \in Thread \ {p}, pc[q] \in EnqPc
        PROVE  data'[new_node'[q]] = data[new_node[q]]
    <3>1. new_node'[q] = new_node[q] /\ new_node[q] \in 1 .. allocated
      BY <2>3 DEF CallEnqueue, TypeOK, Allocation
    <3>2. new_node[q] \in Node /\ new_node[q] # allocated + 1
      BY <2>1, <3>1, SMT
    <3>. QED BY <3>1, <3>2 DEF CallEnqueue, TypeOK
  <2>. QED BY <1>1, <2>2, <2>3 DEF absArg, EnqPc
<1>4. absRes' = absRes
  BY <1>1 DEF CallEnqueue, absRes
<1>. QED BY <1>2, <1>3, <1>4 DEF CallEnqueue, BeginObserving, Fill, Abs!Call, Abs!Fill

(* The result a call will return is fixed. *)
LEMMA CallFinishes ==
    ASSUME TypeOK, NEW p \in Thread, NEW l \in {"return", "e_swing"}, Goto(p, l),
           pc[p] # "return",
           UNCHANGED <<data, new_node>>, \A q \in Thread \ {p} : value'[q] = value[q]
    PROVE  Abs!Finish(p, IF l = "return" THEN value'[p] ELSE Abs!None)
<1>1. \A q \in Thread : pc'[q] = IF q = p THEN l ELSE pc[q]
  BY DEF Goto, TypeOK
<1>2. absOp' = [absOp EXCEPT ![p] = "done"]
  BY <1>1, OpFacts DEF absOp
<1>3. absArg' = [absArg EXCEPT ![p] = Abs!None]
  BY <1>1 DEF absArg, EnqPc, Abs!None, None
<1>4. absRes' = [absRes EXCEPT ![p] = IF l = "return" THEN value'[p] ELSE Abs!None]
  BY <1>1 DEF absRes, Abs!None, None
<1>. QED BY <1>2, <1>3, <1>4 DEF Abs!Finish

LEMMA ObserveMatches ==
    ASSUME TypeOK, NEW f, Observe(f) PROVE Abs!Observe(f)
<1>1. \A q \in Thread : absOp[q] = "idle" <=> pc[q] = "idle"
  BY OpFacts DEF absOp, TypeOK
<1>. QED BY <1>1 DEF Observe, Abs!Observe

LEMMA EnqStepRefines ==
    ASSUME Inv, NEW p \in Thread, EnqStep(p) PROVE Abs!Next \/ UNCHANGED Abs!vars
<1>. TypeOK /\ Allocation /\ Reads(p)
  BY InvParts
<1>1. CASE EnqLinkOk(p)
  <2>1. Abs!Finish(p, Abs!None)
    BY <1>1, CallFinishes DEF EnqLinkOk, locals
  <2>2. Abs!Observe("filled")
    BY <1>1, ObserveMatches DEF EnqLinkOk
  <2>3. absOp[p] = "enq" /\ absArg[p] = data[new_node[p]]
    BY <1>1, OpFacts DEF EnqLinkOk, absOp, absArg, EnqPc
  <2>4. pos'[head'] = pos[head]
    <3>1. new_node[p] # head
      <4>1. pos[new_node[p]] = Unlinked
        BY <1>1 DEF EnqLinkOk, Allocation, EnqPc
      <4>2. Linked(head)
        BY InvParts DEF Order
      <4>. QED BY <4>1, <4>2, SMT
    <3>. QED BY <1>1, <3>1 DEF EnqLinkOk, TypeOK
  <2>5. Abs!Enqueue(p)
    BY <1>1, <2>1, <2>2, <2>3, <2>4 DEF EnqLinkOk, Abs!Enqueue
  <2>. QED BY <2>5 DEF Abs!Next
<1>2. CASE EnqSwingOk(p) \/ EnqSwingFail(p)
  <2>1. Abs!Return(p)
    BY <1>2, LeaveReturns DEF EnqSwingOk, EnqSwingFail
  <2>. QED BY <2>1 DEF Abs!Next
<1>3. CASE \/ EnqLoadTail(p) \/ EnqLoadNext(p) \/ EnqCheck(p) \/ EnqLinkFail(p)
           \/ EnqHelpOk(p) \/ EnqHelpFail(p)
  <2>1. PICK l \in EnqPc : Goto(p, l)
    BY <1>3 DEF EnqLoadTail, EnqLoadNext, EnqCheck, EnqLinkFail, EnqHelpOk, EnqHelpFail, EnqPc
  <2>2. pc[p] \in EnqPc
    BY <1>3 DEF EnqLoadTail, EnqLoadNext, EnqCheck, EnqLinkFail, EnqHelpOk, EnqHelpFail, EnqPc
  <2>3. UNCHANGED <<head, pos, log, seen, data, new_node, value>>
    BY <1>3
    DEF EnqLoadTail, EnqLoadNext, EnqCheck, EnqLinkFail, EnqHelpOk, EnqHelpFail, locals
  <2>4. OpOf(l) = OpOf(pc[p]) /\ l \in Pc /\ l # "return" /\ pc[p] # "return"
    BY <2>1, <2>2, OpFacts DEF EnqPc, Pc
  <2>. QED BY <2>1, <2>2, <2>3, <2>4, InternalStep
<1>. QED BY <1>1, <1>2, <1>3 DEF EnqStep

LEMMA DeqStepRefines ==
    ASSUME ~MoveClears, Inv, NEW p \in Thread, DeqStep(p)
    PROVE  Abs!Next \/ UNCHANGED Abs!vars
<1>. TypeOK /\ Chain /\ Order /\ Reads(p)
  BY InvParts
<1>1. CASE DeqTakeOk(p)
  <2>1. Abs!Finish(p, value[p])
    BY <1>1, CallFinishes DEF DeqTakeOk, locals
  <2>2. Abs!Observe(Fill(pos[next_ptr[p]], Len(log)))
    BY <1>1, ObserveMatches DEF DeqTakeOk
  <2>3. absOp[p] = "deq"
    BY <1>1, OpFacts DEF DeqTakeOk, absOp, DeqPc
  <2>4. /\ next_ptr[p] \in Node /\ head \in Node /\ tail \in Node /\ tail_ptr[p] \in Node
        /\ head = head_ptr[p] /\ next[head] = next_ptr[p]
        /\ pos[head] <= pos[tail_ptr[p]] /\ pos[tail_ptr[p]] <= pos[tail]
        /\ head # tail_ptr[p] /\ value[p] = log[pos[next_ptr[p]]]
        /\ Len(log) \in Nat /\ \A n \in Node : pos[n] \in Int
    BY <1>1, SMT DEF DeqTakeOk, TakeExpected, TypeOK, Reads, DeqReads
  <2>5. pos[next_ptr[p]] = pos[head] + 1
    BY <2>4, Nodes DEF Chain, Order
  <2>6. pos[head] < Len(log)
    <3>1. pos[head] # pos[tail_ptr[p]]
      BY <2>4 DEF Chain, Order
    <3>2. pos[tail] <= Len(log)
      BY DEF Order
    <3>3. /\ pos[head] \in Int /\ pos[tail] \in Int /\ pos[tail_ptr[p]] \in Int /\ Len(log) \in Int
          /\ pos[head] <= pos[tail_ptr[p]] /\ pos[tail_ptr[p]] <= pos[tail]
      BY <2>4, SMT
    <3>. QED BY <3>1, <3>2, <3>3, SMT
  <2>7. pos'[head'] = pos[head] + 1 /\ log' = log
    BY <1>1, <2>5 DEF DeqTakeOk
  <2>8. Abs!Dequeue(p)
    BY <2>1, <2>2, <2>3, <2>4, <2>5, <2>6, <2>7 DEF Abs!Dequeue, Fill, Abs!Fill
  <2>. QED BY <2>8 DEF Abs!Next
<1>2. CASE DeqCheck(p) /\ DeqBranch(p) = "return"
  <2>1. /\ next_ptr[p] = Null /\ pc[p] = "d_check" /\ value' = [value EXCEPT ![p] = Nullopt]
        /\ "empty" \in seen[p]
    BY <1>2 DEF DeqCheck, DeqBranch, Reads, DeqReads
  <2>2. Abs!Finish(p, value'[p]) /\ value'[p] = Abs!Nullopt
    BY <1>2, <2>1, CallFinishes DEF DeqCheck, TypeOK, Nullopt, Abs!Nullopt
  <2>3. absOp[p] = "deq"
    BY <2>1, OpFacts DEF absOp, DeqPc
  <2>4. Abs!DequeueNone(p)
    BY <1>2, <2>1, <2>2, <2>3 DEF DeqCheck, Abs!DequeueNone
  <2>. QED BY <2>4 DEF Abs!Next
<1>3. CASE \/ DeqLoadHead(p) \/ DeqLoadTail(p) \/ DeqLoadNext(p) \/ DeqHelpOk(p)
           \/ DeqHelpFail(p) \/ DeqMove(p) \/ DeqTakeFail(p)
           \/ DeqCheck(p) /\ DeqBranch(p) # "return"
  <2>1. PICK l \in DeqPc : Goto(p, l)
    BY <1>3 DEF DeqLoadHead, DeqLoadTail, DeqLoadNext, DeqHelpOk, DeqHelpFail, DeqMove,
       DeqTakeFail, DeqCheck, DeqBranch, DeqPc
  <2>2. pc[p] \in DeqPc
    BY <1>3 DEF DeqLoadHead, DeqLoadTail, DeqLoadNext, DeqHelpOk, DeqHelpFail, DeqMove,
       DeqTakeFail, DeqCheck, DeqPc
  <2>3. /\ UNCHANGED <<head, pos, log, seen, data, new_node>>
        /\ \A q \in Thread \ {p} : value'[q] = value[q]
    BY <1>3 DEF DeqLoadHead, DeqLoadTail, DeqLoadNext, DeqHelpOk, DeqHelpFail, DeqMove,
       DeqTakeFail, DeqCheck, TypeOK, locals
  <2>4. /\ OpOf(l) = OpOf(pc[p]) /\ l \in Pc /\ l # "return" /\ pc[p] # "return"
        /\ l \notin EnqPc /\ pc[p] \notin EnqPc
    BY <2>1, <2>2, OpFacts, SMT DEF DeqPc, EnqPc, Pc
  <2>. QED BY <2>1, <2>2, <2>3, <2>4, InternalStep
<1>. QED BY <1>1, <1>2, <1>3 DEF DeqStep

LEMMA EmptyStepRefines ==
    ASSUME Inv, NEW p \in Thread, EmptyStep(p) PROVE Abs!Next \/ UNCHANGED Abs!vars
<1>. TypeOK /\ Chain /\ Order /\ Reads(p) /\ ObservedBy(p)
  BY InvParts
<1>1. CASE EmptyLoadHead(p) \/ (EmptyLoadTail(p) /\ head_ptr[p] = tail)
  <2>1. PICK l \in EmptyPc : Goto(p, l)
    BY <1>1 DEF EmptyLoadHead, EmptyLoadTail, EmptyPc
  <2>2. pc[p] \in EmptyPc /\ UNCHANGED <<head, pos, log, seen, data, new_node, value>>
    BY <1>1 DEF EmptyLoadHead, EmptyLoadTail, EmptyPc
  <2>3. /\ OpOf(l) = OpOf(pc[p]) /\ l \in Pc /\ l # "return" /\ pc[p] # "return"
        /\ l \notin EnqPc /\ pc[p] \notin EnqPc
    BY <2>1, <2>2, OpFacts DEF EmptyPc, EnqPc, Pc
  <2>. QED BY <2>1, <2>2, <2>3, InternalStep
<1>2. ASSUME NEW f \in {"empty", "filled"}, f \in seen[p], pc[p] \in EmptyPc, Goto(p, "return"),
             value' = [value EXCEPT ![p] = Answer(f)],
             UNCHANGED <<head, pos, log, seen, data, new_node>>
      PROVE  Abs!Next
  <2>1. Abs!Finish(p, value'[p]) /\ value'[p] = Abs!Answer(f)
    BY <1>2, CallFinishes DEF EmptyPc, TypeOK, Answer, Abs!Answer
  <2>2. absOp[p] = "empty"
    BY <1>2, OpFacts DEF absOp
  <2>3. Abs!Empty(p, f)
    BY <1>2, <2>1, <2>2 DEF Abs!Empty
  <2>. QED BY <2>3 DEF Abs!Next
<1>3. CASE EmptyLoadTail(p) /\ head_ptr[p] # tail
  <2>1. /\ pc[p] = "m_tail" /\ head_ptr[p] \in Node /\ Linked(head_ptr[p]) /\ tail \in Node
        /\ pos[head_ptr[p]] <= pos[head] /\ head \in Node
        /\ Len(log) \in Nat /\ \A n \in Node : pos[n] \in Int
    BY <1>3, SMT DEF EmptyLoadTail, Reads, EmptyReads, TypeOK
  <2>2. pos[head_ptr[p]] < Len(log)
    <3>1. pos[head_ptr[p]] # pos[tail]
      BY <1>3, <2>1 DEF Chain
    <3>2. pos[head] <= pos[tail] /\ pos[tail] <= Len(log)
      BY DEF Order
    <3>3. /\ pos[head_ptr[p]] \in Int /\ pos[head] \in Int /\ pos[tail] \in Int /\ Len(log) \in Int
          /\ pos[head_ptr[p]] <= pos[head]
      BY <2>1, SMT
    <3>. QED BY <3>1, <3>2, <3>3, SMT
  <2>3. "filled" \in seen[p]
    BY <2>1, <2>2 DEF Reads, EmptyReads
  <2>. QED BY <1>2, <1>3, <2>1, <2>3 DEF EmptyLoadTail, EmptyPc
<1>4. CASE EmptyLoadNext(p)
  <2>1. /\ pc[p] = "m_next" /\ head_ptr[p] \in Node /\ Linked(head_ptr[p]) /\ tail \in Node
        /\ pos[head_ptr[p]] <= pos[head] /\ head \in Node
        /\ Len(log) \in Nat /\ \A n \in Node : pos[n] \in Int
    BY <1>4, SMT DEF EmptyLoadNext, Reads, EmptyReads, TypeOK
  <2>2. CASE next[head_ptr[p]] = Null
    <3>1. pos[head] = Len(log)
      <4>1. pos[head_ptr[p]] = Len(log)
        BY <2>1, <2>2 DEF Chain
      <4>2. pos[head] <= pos[tail] /\ pos[tail] <= Len(log)
        BY DEF Order
      <4>3. /\ pos[head_ptr[p]] \in Int /\ pos[head] \in Int /\ pos[tail] \in Int
            /\ Len(log) \in Int /\ pos[head_ptr[p]] <= pos[head]
        BY <2>1, SMT
      <4>. QED BY <4>1, <4>2, <4>3, SMT
    <3>2. "empty" \in seen[p]
      BY <2>1, <3>1 DEF ObservedBy, Fill
    <3>. QED BY <1>2, <1>4, <2>1, <2>2, <3>2 DEF EmptyLoadNext, EmptyPc, Fill
  <2>3. CASE next[head_ptr[p]] # Null
    <3>1. next[head_ptr[p]] \in Node /\ pos[next[head_ptr[p]]] = pos[head_ptr[p]] + 1
      BY <2>1, <2>3, SMT DEF Chain, TypeOK
    <3>2. pos[head_ptr[p]] < Len(log)
      <4>1. \/ pos[next[head_ptr[p]]] = Unlinked
            \/ pos[next[head_ptr[p]]] \in 0 .. Len(log)
        BY <3>1 DEF Chain
      <4>2. pos[head_ptr[p]] \in Int /\ pos[head_ptr[p]] >= 0 /\ Len(log) \in Int
        BY <2>1, SMT
      <4>. QED BY <3>1, <4>1, <4>2, SMT
    <3>3. "filled" \in seen[p]
      BY <2>1, <3>2 DEF Reads, EmptyReads
    <3>. QED BY <1>2, <1>4, <2>1, <2>3, <3>3 DEF EmptyLoadNext, EmptyPc, Fill
  <2>. QED BY <2>2, <2>3
<1>. QED BY <1>1, <1>3, <1>4 DEF EmptyStep

LEMMA StepRefines ==
    ASSUME ~MoveClears, Inv, [Next]_vars PROVE [Abs!Next]_(Abs!vars)
<1>. TypeOK
  BY InvParts
<1>1. CASE UNCHANGED vars
  BY <1>1 DEF vars, locals, Abs!vars, absOp, absArg, absRes
<1>2. ASSUME NEW p \in Thread, NEW v \in Value, CallEnqueue(p, v) PROVE Abs!Next
  BY <1>2, CallEnqueueBegins DEF Abs!Next
<1>3. ASSUME NEW p \in Thread, StartDequeue(p), pc[p] = "idle" PROVE Abs!Next
  <2>1. OpOf("d_head") = "deq"
    BY OpFacts DEF DeqPc
  <2>2. Abs!Call(p, "deq", Abs!None)
    BY <1>3, <2>1, CallBegins DEF StartDequeue, locals
  <2>. QED BY <2>2 DEF Abs!Next
<1>4. ASSUME NEW p \in Thread, CallEmpty(p) PROVE Abs!Next
  <2>1. OpOf("m_head") = "empty"
    BY OpFacts DEF EmptyPc
  <2>2. Abs!Call(p, "empty", Abs!None)
    BY <1>4, <2>1, CallBegins DEF CallEmpty, locals
  <2>. QED BY <2>2 DEF Abs!Next
<1>5. ASSUME NEW p \in Thread, CallDequeue(p) \/ Destroy(p) \/ DestroyLoop(p) PROVE Abs!Next
  BY <1>3, <1>5 DEF CallDequeue, Destroy, DestroyLoop, Idle
<1>6. ASSUME NEW p \in Thread, Return(p) PROVE Abs!Next
  <2>1. Abs!Return(p)
    BY <1>6, LeaveReturns DEF Return
  <2>. QED BY <2>1 DEF Abs!Next
<1>7. ASSUME NEW p \in Thread, Step(p) PROVE Abs!Next \/ UNCHANGED Abs!vars
  BY <1>5, <1>6, <1>7, EnqStepRefines, DeqStepRefines, EmptyStepRefines DEF Step
<1>. QED BY <1>1, <1>2, <1>4, <1>5, <1>7 DEF Next

LEMMA InitRefines == Init => Abs!Init
<1>. SUFFICES ASSUME Init PROVE Abs!Init
  OBVIOUS
<1>1. pos[head] = 0
  BY Nodes DEF Init
<1>2. absOp = [p \in Thread |-> "idle"]
  BY OpFacts DEF Init, absOp
<1>3. absArg = [p \in Thread |-> Abs!None] /\ absRes = [p \in Thread |-> Abs!None]
  BY DEF Init, absArg, absRes, EnqPc, Abs!None, None
<1>. QED BY <1>1, <1>2, <1>3 DEF Init, Abs!Init

(* For a T whose move is a copy, LockfreeQueue implements the first-in     *)
(* first-out queue FifoQueue: it is linearizable for any number of threads *)
(* and calls, including empty() and a dequeue that finds nothing.          *)
THEOREM LinearizableCorrect == ASSUME ~MoveClears PROVE Spec => Linearizable
<1>1. Inv /\ [Next]_vars => [Abs!Next]_(Abs!vars)
  BY StepRefines
<1>. QED BY <1>1, InitRefines, Invariance, PTL DEF Spec, Linearizable, Abs!Spec
=============================================================================
