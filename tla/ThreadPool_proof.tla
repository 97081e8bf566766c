-------------------------- MODULE ThreadPool_proof --------------------------
(***************************************************************************)
(* Proofs about ThreadPool for any non-empty finite set of workers and any *)
(* set of tasks.                                                           *)
(***************************************************************************)
EXTENDS ThreadPool, SequenceTheorems, FiniteSetTheorems, TLAPS

(* Taking the front of the queue moves one task from one history to the    *)
(* other; pushing extends both sides alike.                                *)
LEMMA TakeKeepsOrder ==
    ASSUME NEW s \in Seq(Task), NEW t \in Seq(Task), t # <<>>
    PROVE  Append(s, Head(t)) \o Tail(t) = s \o t
<1>1. Head(t) \in Task /\ Tail(t) \in Seq(Task) /\ Len(t) \in Nat \ {0} /\ Len(s) \in Nat
      /\ Len(Tail(t)) = Len(t) - 1 /\ \A i \in 1 .. Len(Tail(t)) : Tail(t)[i] = t[i + 1]
      /\ Head(t) = t[1]
  BY EmptySeq, LenProperties
<1>2. /\ Append(s, Head(t)) \in Seq(Task) /\ Len(Append(s, Head(t))) = Len(s) + 1
      /\ \A i \in 1 .. Len(s) : Append(s, Head(t))[i] = s[i]
      /\ Append(s, Head(t))[Len(s) + 1] = t[1]
  BY <1>1, AppendProperties
<1>. DEFINE left == Append(s, Head(t)) \o Tail(t)
             right == s \o t
<1>4. left \in Seq(Task) /\ right \in Seq(Task) /\ Len(left) = Len(s) + Len(t)
      /\ Len(right) = Len(s) + Len(t)
  BY <1>1, <1>2, ConcatProperties
<1>5. ASSUME NEW i \in 1 .. Len(s) + Len(t) PROVE left[i] = right[i]
  <2>1. left[i] = IF i <= Len(s) + 1 THEN Append(s, Head(t))[i] ELSE Tail(t)[i - (Len(s) + 1)]
    BY <1>1, <1>2, ConcatProperties
  <2>2. right[i] = IF i <= Len(s) THEN s[i] ELSE t[i - Len(s)]
    BY <1>1, ConcatProperties
  <2>3. CASE i <= Len(s)
    BY <1>1, <1>2, <2>1, <2>2, <2>3
  <2>4. CASE i = Len(s) + 1
    BY <1>1, <1>2, <2>1, <2>2, <2>4
  <2>5. CASE i > Len(s) + 1
    <3>1. i - (Len(s) + 1) \in 1 .. Len(Tail(t)) /\ (i - (Len(s) + 1)) + 1 = i - Len(s)
      BY <1>1, <2>5
    <3>2. Tail(t)[i - (Len(s) + 1)] = t[i - Len(s)]
      BY <1>1, <3>1
    <3>. QED BY <1>1, <2>1, <2>2, <2>5, <3>2
  <2>. QED BY <1>1, <2>3, <2>4, <2>5
<1>. QED BY <1>4, <1>5, SeqEqual

LEMMA PushKeepsOrder ==
    ASSUME NEW s \in Seq(Task), NEW t \in Seq(Task), NEW e \in Task
    PROVE  s \o Append(t, e) = Append(s \o t, e)
<1>1. Append(t, e) = t \o <<e>> /\ <<e>> \in Seq(Task)
  BY AppendIsConcat
<1>2. Append(s \o t, e) = (s \o t) \o <<e>>
  BY ConcatProperties, AppendIsConcat
<1>. QED BY <1>1, <1>2, ConcatAssociative

-----------------------------------------------------------------------------
LEMMA InitInv == Init => Inv
<1>. SUFFICES ASSUME Init PROVE Inv
  OBVIOUS
<1>1. <<>> \in Seq(Task) /\ <<>> \o <<>> = <<>> /\ Len(<<>>) = 0
  BY ConcatEmptySeq, EmptySeq
<1>2. TypeOK /\ StartedInOrder
  BY <1>1 DEF Init, TypeOK, StartedInOrder
<1>3. TakenIsRunOrFinished
  BY <1>1 DEF Init, TakenIsRunOrFinished
<1>4. ExitIsFinal
  BY DEF Init, ExitIsFinal
<1>. QED BY <1>2, <1>3, <1>4 DEF Inv

(* Steps that move program counters but neither tasks nor histories. *)
LEMMA PcStep ==
    ASSUME Inv, wpc' \in [Worker -> {"check", "wait", "run", "notify", "exit"}],
           UNCHANGED <<tasks, stop, running, submitted, accepted, started, finished>>,
           \A w \in Worker : wpc[w] \in {"run", "notify"} => wpc'[w] \in {"run", "notify"},
           \A w \in Worker : wpc'[w] = "exit" => stop /\ tasks = <<>>,
           \A w \in Worker : wpc[w] = "exit" => wpc'[w] = "exit",
           owner' \in {"ready", "notify", "notify_all", "join", "gone"},
           owner' \in {"notify_all", "join", "gone"} <=> stop,
           owner' = "gone" => \A w \in Worker : wpc'[w] = "exit"
    PROVE  Inv'
<1>1. TypeOK'
  BY DEF Inv, TypeOK
<1>2. StartedInOrder' /\ TakenIsRunOrFinished' /\ ExitIsFinal'
  BY DEF Inv, TypeOK, StartedInOrder, TakenIsRunOrFinished, ExitIsFinal
<1>. QED BY <1>1, <1>2 DEF Inv

(* notify_one only moves a blocked worker back to its check. *)
LEMMA NotifyOneMoves ==
    ASSUME TypeOK, NEW pcs \in [Worker -> {"check", "wait", "run", "notify", "exit"}],
           \A w \in Waiting : pcs[w] = "wait", NotifyOne(pcs)
    PROVE  /\ wpc' \in [Worker -> {"check", "wait", "run", "notify", "exit"}]
           /\ \A w \in Worker : wpc'[w] = pcs[w] \/ (pcs[w] = "wait" /\ wpc'[w] = "check")
BY DEF NotifyOne, Waiting, TypeOK

LEMMA TakeKeeps == ASSUME Inv, NEW w \in Worker, Take(w) PROVE Inv'
<1>1. tasks # <<>> /\ TypeOK
  BY DEF Inv, Take, MayProceed, MustExit
<1>2. Head(tasks) \in Task /\ Tail(tasks) \in Seq(Task)
  BY <1>1, HeadTailProperties DEF TypeOK
<1>3. /\ started' \in Seq(Task) /\ Len(started) \in Nat /\ Len(started') = Len(started) + 1
      /\ \A i \in 1 .. Len(started) : started'[i] = started[i]
      /\ started'[Len(started) + 1] = Head(tasks)
  BY <1>1, <1>2, AppendProperties DEF TypeOK, Take
<1>4. TypeOK'
  BY <1>1, <1>2, <1>3 DEF Take, TypeOK
<1>5. StartedInOrder'
  BY <1>1, TakeKeepsOrder DEF Inv, TypeOK, StartedInOrder, Take
<1>6. TakenIsRunOrFinished'
  <2>1. ASSUME NEW i \in 1 .. Len(started')
        PROVE  started'[i] \in finished' \/ \E x \in Worker : started'[i] \in running'[x]
    <3>1. CASE i = Len(started) + 1
      BY <1>1, <1>3, <3>1 DEF Take, TypeOK
    <3>2. CASE i \in 1 .. Len(started)
      <4>1. running[w] = {}
        BY DEF Inv, TakenIsRunOrFinished, Take
      <4>. QED BY <1>1, <1>3, <3>2, <4>1 DEF Inv, TakenIsRunOrFinished, Take, TypeOK
    <3>. QED BY <1>3, <3>1, <3>2
  <2>2. \A x \in Worker : running'[x] # {} => wpc'[x] \in {"run", "notify"}
    BY <1>1 DEF Inv, TakenIsRunOrFinished, Take, TypeOK
  <2>. QED BY <2>1, <2>2 DEF TakenIsRunOrFinished
<1>7. ExitIsFinal'
  BY <1>1 DEF Inv, ExitIsFinal, Take, TypeOK
<1>. QED BY <1>4, <1>5, <1>6, <1>7 DEF Inv

LEMMA FinishKeeps == ASSUME Inv, NEW w \in Worker, Finish(w) PROVE Inv'
<1>1. TypeOK'
  BY DEF Inv, Finish, TypeOK
<1>2. TakenIsRunOrFinished'
  BY DEF Inv, Finish, TypeOK, TakenIsRunOrFinished
<1>3. StartedInOrder' /\ ExitIsFinal'
  BY DEF Inv, Finish, TypeOK, StartedInOrder, ExitIsFinal
<1>. QED BY <1>1, <1>2, <1>3 DEF Inv

(* add_task while no worker has left: the pool is not stopping or nothing  *)
(* is pushed.                                                              *)
LEMMA PushKeeps ==
    ASSUME Inv, NEW t \in Task, Push(t),
           wpc' \in [Worker -> {"check", "wait", "run", "notify", "exit"}],
           \A w \in Worker : wpc[w] \in {"run", "notify"} => wpc'[w] \in {"run", "notify"},
           \A w \in Worker : wpc'[w] = "exit" <=> wpc[w] = "exit",
           owner' \in {"ready", "notify", "notify_all", "join", "gone"},
           owner' \in {"notify_all", "join", "gone"} <=> stop,
           owner' = "gone" => owner = "gone"
    PROVE  Inv'
<1>1. TypeOK'
  BY AppendProperties DEF Inv, Push, TypeOK
<1>2. StartedInOrder'
  <2>1. /\ started \in Seq(Task) /\ tasks \in Seq(Task)
        /\ started \o tasks = accepted /\ started' = started
    BY DEF Inv, TypeOK, StartedInOrder, Push
  <2>2. \/ tasks' = tasks /\ accepted' = accepted
        \/ tasks' = Append(tasks, t) /\ accepted' = Append(accepted, t)
    BY DEF Push
  <2>. QED BY <2>1, <2>2, PushKeepsOrder DEF StartedInOrder
<1>3. TakenIsRunOrFinished'
  BY DEF Inv, TypeOK, TakenIsRunOrFinished, Push
<1>4. ExitIsFinal'
  BY DEF Inv, TypeOK, ExitIsFinal, Push, Rejects
<1>. QED BY <1>1, <1>2, <1>3, <1>4 DEF Inv

LEMMA InductiveStep == Inv /\ [Next]_vars => Inv'
<1>. SUFFICES ASSUME Inv, [Next]_vars PROVE Inv'
  OBVIOUS
<1>0. TypeOK /\ ExitIsFinal
  BY DEF Inv
<1>1. CASE UNCHANGED vars
  BY <1>1 DEF vars, Inv, TypeOK, StartedInOrder, TakenIsRunOrFinished, ExitIsFinal
<1>2. ASSUME NEW w \in Worker, Block(w) \/ Exit(w) \/ SpuriousWakeup(w) PROVE Inv'
  BY <1>0, <1>2, PcStep DEF Block, Exit, SpuriousWakeup, TypeOK, ExitIsFinal, MustExit
<1>3. ASSUME NEW w \in Worker, TaskNotify(w) PROVE Inv'
  <2>1. [wpc EXCEPT ![w] = "run"] \in [Worker -> {"check", "wait", "run", "notify", "exit"}]
    BY <1>0 DEF TypeOK
  <2>2. \A x \in Waiting : [wpc EXCEPT ![w] = "run"][x] = "wait"
    BY <1>0, <1>3 DEF TypeOK, Waiting, TaskNotify
  <2>. DEFINE pcs == [wpc EXCEPT ![w] = "run"]
  <2>3. /\ wpc' \in [Worker -> {"check", "wait", "run", "notify", "exit"}]
        /\ \A x \in Worker : wpc'[x] = pcs[x] \/ (pcs[x] = "wait" /\ wpc'[x] = "check")
    <3>. HIDE DEF pcs
    <3>1. NotifyOne(pcs)
      BY <1>3 DEF TaskNotify, pcs
    <3>. QED BY <1>0, <2>1, <2>2, <3>1, NotifyOneMoves DEF pcs
  <2>. QED BY <1>0, <1>3, <2>3, PcStep DEF TaskNotify, TypeOK, ExitIsFinal
<1>4. ASSUME OwnerNotify PROVE Inv'
  <2>1. /\ wpc' \in [Worker -> {"check", "wait", "run", "notify", "exit"}]
        /\ \A x \in Worker : wpc'[x] = wpc[x] \/ (wpc[x] = "wait" /\ wpc'[x] = "check")
    BY <1>0, <1>4, NotifyOneMoves DEF OwnerNotify, TypeOK, Waiting
  <2>. QED BY <1>0, <1>4, <2>1, PcStep DEF OwnerNotify, TypeOK, ExitIsFinal
<1>5. ASSUME NotifyAll \/ Join PROVE Inv'
  BY <1>0, <1>5, PcStep DEF NotifyAll, Join, TypeOK, ExitIsFinal, Woken, Waiting
<1>6. ASSUME SetStop PROVE Inv'
  BY <1>0, <1>6 DEF SetStop, Inv, TypeOK, StartedInOrder, TakenIsRunOrFinished, ExitIsFinal
<1>7. ASSUME NEW t \in Task, OwnerAddTask(t) PROVE Inv'
  BY <1>0, <1>7, PushKeeps DEF OwnerAddTask, TypeOK, ExitIsFinal, Rejects
<1>8. ASSUME NEW w \in Worker, NEW t \in Task, TaskAddTask(w, t) PROVE Inv'
  BY <1>0, <1>8, PushKeeps DEF TaskAddTask, TypeOK, ExitIsFinal
<1>. QED
  BY <1>1, <1>2, <1>3, <1>4, <1>5, <1>6, <1>7, <1>8, TakeKeeps, FinishKeeps
  DEF Next, WorkerStep, OwnerStep

(* The invariant holds in every reachable state. *)
THEOREM Invariance == Spec => []Inv
BY InitInv, InductiveStep, PTL DEF Spec

(* The destructor's promise: when it has returned, every task that         *)
(* add_task accepted has run to its end, whatever the number of workers,   *)
(* the tasks and the interleaving.                                         *)
THEOREM DestructorRunsAllCorrect == Spec => []DestructorRunsAll
<1>1. Inv => DestructorRunsAll
  <2>. SUFFICES ASSUME Inv, owner = "gone", NEW i \in 1 .. Len(accepted)
               PROVE  accepted[i] \in finished
    BY DEF DestructorRunsAll
  <2>1. \A w \in Worker : wpc[w] = "exit"
    BY DEF Inv, ExitIsFinal
  <2>2. tasks = <<>>
    BY <2>1, WorkerAssumption DEF Inv, ExitIsFinal
  <2>3. accepted = started
    BY <2>2, ConcatEmptySeq DEF Inv, StartedInOrder, TypeOK
  <2>. QED BY <2>1, <2>3 DEF Inv, TakenIsRunOrFinished
<1>. QED BY <1>1, Invariance, PTL

(* No worker sleeps once the destructor has notified: together with Inv,   *)
(* join waits only for workers that are on their way out.                  *)
THEOREM NobodySleepsCorrect == Spec => []NobodySleepsThroughStop
<1>1. Init => NobodySleepsThroughStop
  BY DEF Init, NobodySleepsThroughStop
<1>2. Inv /\ NobodySleepsThroughStop /\ [Next]_vars => NobodySleepsThroughStop'
  <2>. SUFFICES ASSUME Inv, NobodySleepsThroughStop, [Next]_vars PROVE NobodySleepsThroughStop'
    OBVIOUS
  <2>0. TypeOK /\ ExitIsFinal
    BY DEF Inv
  <2>1. ASSUME NEW w \in Worker, TaskNotify(w) PROVE NobodySleepsThroughStop'
    BY <2>0, <2>1 DEF TaskNotify, NotifyOne, NobodySleepsThroughStop, Waiting, TypeOK
  <2>2. ASSUME OwnerStep PROVE NobodySleepsThroughStop'
    BY <2>0, <2>2
    DEF OwnerStep, OwnerNotify, NotifyAll, Join, NobodySleepsThroughStop, Waiting, Woken, TypeOK
  <2>3. ASSUME NEW w \in Worker,
               Block(w) \/ Exit(w) \/ Take(w) \/ Finish(w) \/ SpuriousWakeup(w)
        PROVE  NobodySleepsThroughStop'
    BY <2>0, <2>3 DEF Block, Exit, Take, Finish, SpuriousWakeup, MayProceed,
       NobodySleepsThroughStop, Waiting, TypeOK, ExitIsFinal
  <2>4. ASSUME NEW t \in Task, OwnerAddTask(t) \/ \E w \in Worker : TaskAddTask(w, t)
        PROVE  NobodySleepsThroughStop'
    BY <2>0, <2>4 DEF OwnerAddTask, TaskAddTask, NobodySleepsThroughStop, Waiting, TypeOK
  <2>5. CASE SetStop \/ UNCHANGED vars
    BY <2>5 DEF SetStop, vars, NobodySleepsThroughStop, Waiting
  <2>. QED BY <2>1, <2>2, <2>3, <2>4, <2>5 DEF Next, WorkerStep
<1>. QED BY <1>1, <1>2, Invariance, PTL DEF Spec

-----------------------------------------------------------------------------
(* The workers on their way to the queue, and the notify_one the owner owes. *)
Coming == {w \in Worker : wpc[w] \in {"check", "notify"}}
Owed == IF owner = "notify" THEN 1 ELSE 0

LEMMA Counts ==
    /\ Cardinality(Coming) \in Nat /\ Cardinality(Coming') \in Nat
    /\ Coming \subseteq Coming' => Cardinality(Coming) <= Cardinality(Coming')
    /\ \A w \in Worker :
          /\ w \notin Coming /\ Coming' = Coming \union {w}
                => Cardinality(Coming') = Cardinality(Coming) + 1
          /\ w \in Coming /\ Coming' = Coming \ {w}
                => Cardinality(Coming') = Cardinality(Coming) - 1
          /\ \A x \in Worker : /\ w \in Coming /\ x \notin Coming
                               /\ Coming' = (Coming \ {w}) \union {x}
                => Cardinality(Coming') = Cardinality(Coming)
<1>1. Coming \subseteq Worker /\ Coming' \subseteq Worker
  BY DEF Coming
<1>2. IsFiniteSet(Coming) /\ IsFiniteSet(Coming')
  BY <1>1, WorkerAssumption, FS_Subset
<1>3. Cardinality(Coming) \in Nat /\ Cardinality(Coming') \in Nat
  BY <1>2, FS_CardinalityType
<1>4. Coming \subseteq Coming' => Cardinality(Coming) <= Cardinality(Coming')
  BY <1>2, FS_Subset
<1>. HIDE DEF Coming
<1>5. ASSUME NEW w, w \notin Coming, Coming' = Coming \union {w}
      PROVE  Cardinality(Coming') = Cardinality(Coming) + 1
  BY <1>2, <1>5, FS_AddElement
<1>6. ASSUME NEW w, w \in Coming
      PROVE  IsFiniteSet(Coming \ {w}) /\ Cardinality(Coming \ {w}) = Cardinality(Coming) - 1
  BY <1>2, <1>6, FS_RemoveElement
<1>7. ASSUME NEW w, NEW x, w \in Coming, x \notin Coming, Coming' = (Coming \ {w}) \union {x}
      PROVE  Cardinality(Coming') = Cardinality(Coming)
  <2>1. x \notin Coming \ {w}
    BY <1>7
  <2>2. Cardinality((Coming \ {w}) \union {x}) = Cardinality(Coming \ {w}) + 1
    BY <1>6, <1>7, <2>1, FS_AddElement
  <2>3. Cardinality(Coming \ {w}) = Cardinality(Coming) - 1
    BY <1>6, <1>7
  <2>4. Cardinality(Coming') = Cardinality((Coming \ {w}) \union {x})
    BY <1>7
  <2>. QED BY <1>3, <2>2, <2>3, <2>4
<1>. QED BY <1>3, <1>4, <1>5, <1>6, <1>7

LEMMA WakeupStep == ASSUME Inv, NoLostWakeup, [Next]_vars PROVE NoLostWakeup'
<1>. SUFFICES ASSUME Waiting' # {}
             PROVE  Len(tasks') <= Cardinality(Coming') + Owed'
  BY DEF NoLostWakeup, Coming, Owed
<1>1. Waiting # {} => Len(tasks) <= Cardinality(Coming) + Owed
  BY DEF NoLostWakeup, Coming, Owed
<1>2. /\ wpc \in [Worker -> {"check", "wait", "run", "notify", "exit"}]
      /\ tasks \in Seq(Task) /\ Len(tasks) \in Nat /\ Owed \in {0, 1} /\ Owed' \in {0, 1}
  BY DEF Inv, TypeOK, Owed
<1>3. Cardinality(Coming) \in Nat /\ Cardinality(Coming') \in Nat
  BY Counts
<1>4. ASSUME NEW w \in Worker, Block(w) \/ Exit(w) PROVE Len(tasks') <= Cardinality(Coming') + Owed'
  <2>1. tasks' = <<>>
    BY <1>4 DEF Block, Exit, MayProceed, MustExit
  <2>. QED BY <1>2, <1>3, <2>1
<1>5. ASSUME NEW w \in Worker, Take(w) PROVE Len(tasks') <= Cardinality(Coming') + Owed'
  <2>1. tasks # <<>> /\ tasks' = Tail(tasks) /\ Owed' = Owed
        /\ wpc[w] = "check" /\ wpc' = [wpc EXCEPT ![w] = "run"]
    BY <1>5 DEF Take, MayProceed, MustExit, Owed
  <2>2. Len(tasks') = Len(tasks) - 1
    BY <1>2, <2>1, EmptySeq, LenProperties
  <2>3. Waiting # {}
    BY <1>2, <2>1 DEF Waiting
  <2>4. w \in Coming /\ Coming' = Coming \ {w}
    BY <1>2, <2>1 DEF Coming
  <2>5. Cardinality(Coming') = Cardinality(Coming) - 1
    BY <2>4, Counts
  <2>. QED BY <1>1, <1>2, <1>3, <2>1, <2>2, <2>3, <2>5
<1>6. ASSUME NEW w \in Worker, Finish(w) \/ SpuriousWakeup(w)
      PROVE  Len(tasks') <= Cardinality(Coming') + Owed'
  <2>1. tasks' = tasks /\ Owed' = Owed /\ wpc' = [wpc EXCEPT ![w] = "check"]
        /\ wpc[w] \in {"run", "wait"}
    BY <1>6 DEF Finish, SpuriousWakeup, Owed
  <2>2. Waiting # {} /\ Coming \subseteq Coming'
    BY <1>2, <2>1 DEF Waiting, Coming
  <2>3. Cardinality(Coming) <= Cardinality(Coming')
    BY <2>2, Counts
  <2>. QED BY <1>1, <1>2, <1>3, <2>1, <2>2, <2>3
<1>7. ASSUME NEW w \in Worker, TaskNotify(w) PROVE Len(tasks') <= Cardinality(Coming') + Owed'
  <2>1. tasks' = tasks /\ Owed' = Owed /\ wpc[w] = "notify"
    BY <1>7 DEF TaskNotify, Owed
  <2>2. Waiting # {}
    BY <1>2, <1>7 DEF TaskNotify, NotifyOne, Waiting
  <2>3. PICK x \in Waiting : wpc' = [[wpc EXCEPT ![w] = "run"] EXCEPT ![x] = "check"]
    BY <1>7, <2>2 DEF TaskNotify, NotifyOne
  <2>4. w \in Coming /\ x \in Worker /\ x \notin Coming /\ Coming' = (Coming \ {w}) \union {x}
    BY <1>2, <2>1, <2>3 DEF Coming, Waiting
  <2>5. Cardinality(Coming') = Cardinality(Coming)
    BY <2>4, Counts
  <2>. QED BY <1>1, <2>1, <2>2, <2>5
<1>8. ASSUME OwnerNotify PROVE Len(tasks') <= Cardinality(Coming') + Owed'
  <2>1. tasks' = tasks /\ Owed = 1 /\ Owed' = 0
    BY <1>8 DEF OwnerNotify, Owed
  <2>2. Waiting # {}
    BY <1>8 DEF OwnerNotify, NotifyOne, Waiting
  <2>3. PICK x \in Waiting : wpc' = [wpc EXCEPT ![x] = "check"]
    BY <1>8, <2>2 DEF OwnerNotify, NotifyOne
  <2>4. x \in Worker /\ x \notin Coming /\ Coming' = Coming \union {x}
    BY <1>2, <2>3 DEF Coming, Waiting
  <2>5. Cardinality(Coming') = Cardinality(Coming) + 1
    BY <2>4, Counts
  <2>. QED BY <1>1, <1>2, <1>3, <2>1, <2>2, <2>5
<1>9. ASSUME NotifyAll PROVE Len(tasks') <= Cardinality(Coming') + Owed'
  BY <1>2, <1>9 DEF NotifyAll, Woken, Waiting
<1>10. ASSUME Join \/ SetStop \/ UNCHANGED vars PROVE Len(tasks') <= Cardinality(Coming') + Owed'
  <2>1. tasks' = tasks /\ wpc' = wpc /\ Owed' = Owed
    BY <1>10 DEF Join, SetStop, vars, Owed
  <2>. QED BY <1>1, <2>1 DEF Waiting, Coming
<1>11. ASSUME NEW t \in Task, OwnerAddTask(t) PROVE Len(tasks') <= Cardinality(Coming') + Owed'
  <2>1. wpc' = wpc /\ Coming' = Coming /\ Waiting # {} /\ owner = "ready" /\ Owed = 0
    BY <1>11 DEF OwnerAddTask, Coming, Waiting, Owed
  <2>2. CASE Rejects
    BY <1>1, <1>2, <1>3, <1>11, <2>1, <2>2 DEF OwnerAddTask, Push
  <2>3. CASE ~Rejects
    <3>1. tasks' = Append(tasks, t) /\ Owed' = 1
      BY <1>11, <2>3 DEF OwnerAddTask, Push, Owed
    <3>2. Len(tasks') = Len(tasks) + 1
      BY <1>2, <3>1, AppendProperties
    <3>. QED BY <1>1, <1>2, <1>3, <2>1, <3>1, <3>2
  <2>. QED BY <2>2, <2>3
<1>12. ASSUME NEW w \in Worker, NEW t \in Task, TaskAddTask(w, t)
       PROVE  Len(tasks') <= Cardinality(Coming') + Owed'
  <2>1. wpc[w] = "run" /\ Owed' = Owed
    BY <1>12 DEF TaskAddTask, Owed
  <2>2. CASE Rejects
    <3>1. tasks' = tasks /\ wpc' = wpc
      BY <1>12, <2>2 DEF TaskAddTask, Push
    <3>. QED BY <1>1, <2>1, <3>1 DEF Coming, Waiting
  <2>3. CASE ~Rejects
    <3>1. tasks' = Append(tasks, t) /\ wpc' = [wpc EXCEPT ![w] = "notify"]
      BY <1>12, <2>3 DEF TaskAddTask, Push
    <3>2. Len(tasks') = Len(tasks) + 1
      BY <1>2, <3>1, AppendProperties
    <3>3. w \notin Coming /\ Coming' = Coming \union {w} /\ Waiting # {}
      BY <1>2, <2>1, <3>1 DEF Coming, Waiting
    <3>4. Cardinality(Coming') = Cardinality(Coming) + 1
      BY <3>3, Counts
    <3>. QED BY <1>1, <1>2, <1>3, <2>1, <3>2, <3>3, <3>4
  <2>. QED BY <2>2, <2>3
<1>. QED
  BY <1>4, <1>5, <1>6, <1>7, <1>8, <1>9, <1>10, <1>11, <1>12 DEF Next, WorkerStep, OwnerStep

(* No wakeup is lost, for any number of workers and tasks: notify_one may  *)
(* come after the mutex is released (line 72) because while a worker       *)
(* sleeps every queued task has a worker or a notification of its own.     *)
THEOREM NoLostWakeupCorrect == Spec => []NoLostWakeup
<1>1. Init => NoLostWakeup
  BY DEF Init, NoLostWakeup, Waiting
<1>2. Inv /\ NoLostWakeup /\ [Next]_vars => NoLostWakeup'
  BY WakeupStep
<1>. QED BY <1>1, <1>2, Invariance, PTL DEF Spec
=============================================================================
