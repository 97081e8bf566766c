----------------------------- MODULE ThreadPool -----------------------------
(***************************************************************************)
(* src/ThreadPool/Threadpool.cpp: the worker loop, add_task and the        *)
(* destructor.  A critical section of queue_mutex is one action: nothing   *)
(* inside one blocks except condition.wait, which gives the mutex up.      *)
(* What happens outside the mutex (notify_one, notify_all, running a task, *)
(* join) are steps of their own.                                           *)
(*                                                                         *)
(* Tasks are submitted by the thread that owns the pool, which later runs  *)
(* the destructor, and by running tasks, possibly while the destructor     *)
(* waits in join.                                                          *)
(***************************************************************************)
EXTENDS Naturals, Sequences, FiniteSets

CONSTANTS Worker,   \* the threads made by the constructor
          Task      \* the tasks that are ever submitted, each at most once

ASSUME WorkerAssumption == IsFiniteSet(Worker) /\ Worker # {}

VARIABLES
    tasks,      \* std::queue of tasks not yet taken
    stop,       \* the stop flag
    wpc,        \* wpc[w]: "check", "wait", "run", "notify" or "exit"
    running,    \* running[w]: the task w executes, as a set of at most one
    owner,      \* "ready", "notify", "notify_all", "join" or "gone"
    submitted,  \* tasks for which add_task has been called
    accepted,   \* history: the tasks pushed, in order
    started,    \* history: the tasks taken by workers, in order
    finished    \* tasks whose call has returned: their futures are ready

vars == <<tasks, stop, wpc, running, owner, submitted, accepted, started, finished>>

Init ==
    /\ tasks = <<>>
    /\ stop = FALSE
    /\ wpc = [w \in Worker |-> "check"]
    /\ running = [w \in Worker |-> {}]
    /\ owner = "ready"
    /\ submitted = {}
    /\ accepted = <<>>
    /\ started = <<>>
    /\ finished = {}

Waiting == {w \in Worker : wpc[w] = "wait"}

-----------------------------------------------------------------------------
(************************************ workers ******************************)
MayProceed_tasksOnly == tasks # <<>>     \* BUG: the predicate forgets stop
MayProceed == stop \/ tasks # <<>>       \* the predicate of condition.wait

(* BUG: a worker leaves as soon as it sees stop. *)
MustExit_stop == stop
MustExit == stop /\ tasks = <<>>

(* condition.wait with a false predicate: mutex released, thread blocked. *)
Block(w) ==
    /\ wpc[w] = "check"
    /\ ~MayProceed
    /\ wpc' = [wpc EXCEPT ![w] = "wait"]
    /\ UNCHANGED <<tasks, stop, running, owner, submitted, accepted, started, finished>>

Exit(w) ==
    /\ wpc[w] = "check"
    /\ MayProceed
    /\ MustExit
    /\ wpc' = [wpc EXCEPT ![w] = "exit"]
    /\ UNCHANGED <<tasks, stop, running, owner, submitted, accepted, started, finished>>

Take(w) ==
    /\ wpc[w] = "check"
    /\ MayProceed
    /\ ~MustExit
    /\ running' = [running EXCEPT ![w] = {Head(tasks)}]
    /\ tasks' = Tail(tasks)
    /\ started' = Append(started, Head(tasks))
    /\ wpc' = [wpc EXCEPT ![w] = "run"]
    /\ UNCHANGED <<stop, owner, submitted, accepted, finished>>

Finish(w) ==
    /\ wpc[w] = "run"
    /\ finished' = finished \union running[w]
    /\ running' = [running EXCEPT ![w] = {}]
    /\ wpc' = [wpc EXCEPT ![w] = "check"]
    /\ UNCHANGED <<tasks, stop, owner, submitted, accepted, started>>

SpuriousWakeup(w) ==
    /\ wpc[w] = "wait"
    /\ wpc' = [wpc EXCEPT ![w] = "check"]
    /\ UNCHANGED <<tasks, stop, running, owner, submitted, accepted, started, finished>>

(*********************************** add_task ******************************)
(* BUG: the stop flag is not looked at. *)
Rejects_never == FALSE
Rejects == stop

(* Under the mutex: throw when the pool is stopping, otherwise push. *)
Push(t) ==
    /\ t \notin submitted
    /\ submitted' = submitted \union {t}
    /\ tasks' = IF Rejects THEN tasks ELSE Append(tasks, t)
    /\ accepted' = IF Rejects THEN accepted ELSE Append(accepted, t)
    /\ UNCHANGED <<stop, running, started, finished>>

(* BUG: nobody is notified. *)
NotifyOne_none(pcs) == wpc' = pcs

(* condition.notify_one() in the thread that then continues: one of the    *)
(* blocked workers, if there is one, goes back to checking the predicate.  *)
NotifyOne(pcs) ==
    IF Waiting = {} THEN wpc' = pcs
    ELSE \E w \in Waiting : wpc' = [pcs EXCEPT ![w] = "check"]

OwnerAddTask(t) ==
    /\ owner = "ready"
    /\ Push(t)
    /\ owner' = IF Rejects THEN "ready" ELSE "notify"
    /\ UNCHANGED wpc

OwnerNotify ==
    /\ owner = "notify"
    /\ owner' = "ready"
    /\ NotifyOne(wpc)
    /\ UNCHANGED <<tasks, stop, running, submitted, accepted, started, finished>>

TaskAddTask(w, t) ==
    /\ wpc[w] = "run"
    /\ Push(t)
    /\ wpc' = IF Rejects THEN wpc ELSE [wpc EXCEPT ![w] = "notify"]
    /\ UNCHANGED owner

TaskNotify(w) ==
    /\ wpc[w] = "notify"
    /\ NotifyOne([wpc EXCEPT ![w] = "run"])
    /\ UNCHANGED <<tasks, stop, running, owner, submitted, accepted, started, finished>>

(********************************* ~Threadpool *****************************)
SetStop ==
    /\ owner = "ready"
    /\ stop' = TRUE
    /\ owner' = "notify_all"
    /\ UNCHANGED <<tasks, wpc, running, submitted, accepted, started, finished>>

(* BUG: the destructor wakes one worker only. *)
Woken_one == IF Waiting = {} THEN {} ELSE {CHOOSE w \in Waiting : TRUE}
Woken == Waiting

NotifyAll ==
    /\ owner = "notify_all"
    /\ wpc' = [w \in Worker |-> IF w \in Woken THEN "check" ELSE wpc[w]]
    /\ owner' = "join"
    /\ UNCHANGED <<tasks, stop, running, submitted, accepted, started, finished>>

Join ==
    /\ owner = "join"
    /\ \A w \in Worker : wpc[w] = "exit"
    /\ owner' = "gone"
    /\ UNCHANGED <<tasks, stop, wpc, running, submitted, accepted, started, finished>>

-----------------------------------------------------------------------------
WorkerStep(w) == Block(w) \/ Exit(w) \/ Take(w) \/ Finish(w) \/ TaskNotify(w)
OwnerStep == OwnerNotify \/ NotifyAll \/ Join

Next ==
    \/ \E w \in Worker :
          WorkerStep(w) \/ SpuriousWakeup(w) \/ \E t \in Task : TaskAddTask(w, t)
    \/ \E t \in Task : OwnerAddTask(t)
    \/ OwnerStep
    \/ SetStop

Spec == Init /\ [][Next]_vars

(* Threads keep running and tasks terminate.  Nothing makes the owner call *)
(* add_task or the destructor, and no wakeup comes without a notification. *)
Fairness == (\A w \in Worker : WF_vars(WorkerStep(w))) /\ WF_vars(OwnerStep)
FairSpec == Spec /\ Fairness
-----------------------------------------------------------------------------
TypeOK ==
    /\ tasks \in Seq(Task)
    /\ stop \in BOOLEAN
    /\ wpc \in [Worker -> {"check", "wait", "run", "notify", "exit"}]
    /\ running \in [Worker -> SUBSET Task]
    /\ owner \in {"ready", "notify", "notify_all", "join", "gone"}
    /\ submitted \in SUBSET Task
    /\ accepted \in Seq(Task)
    /\ started \in Seq(Task)
    /\ finished \in SUBSET Task

(* Tasks start in the order add_task pushed them: what has been taken,     *)
(* followed by what is still queued, is what was accepted (lines 30-31 and *)
(* 69).  No task is taken twice, skipped or dropped.                       *)
StartedInOrder == started \o tasks = accepted

(* A task that was taken is being run by a worker or has finished.         *)
TakenIsRunOrFinished ==
    /\ \A i \in 1 .. Len(started) :
          started[i] \in finished \/ \E w \in Worker : started[i] \in running[w]
    /\ \A w \in Worker : running[w] # {} => wpc[w] \in {"run", "notify"}

(* A worker leaves only a stopped pool with an empty queue (lines 26-28),  *)
(* and nothing is queued after that (lines 66-68).                         *)
ExitIsFinal ==
    /\ stop <=> owner \in {"notify_all", "join", "gone"}
    /\ \A w \in Worker : wpc[w] = "exit" => stop /\ tasks = <<>>
    /\ owner = "gone" => \A w \in Worker : wpc[w] = "exit"

(* When the destructor returns, every task add_task accepted has been run  *)
(* to its end: no future is left without a value (lines 41-50).            *)
DestructorRunsAll ==
    owner = "gone" => \A i \in 1 .. Len(accepted) : accepted[i] \in finished

(* The inductive invariant that the destructor's promise rests on. *)
Inv == TypeOK /\ StartedInOrder /\ TakenIsRunOrFinished /\ ExitIsFinal

(* No wakeup is lost: while a worker sleeps, every queued task has a       *)
(* worker of its own on the way to the queue or a notify_one still to come *)
(* (it is called outside the mutex, line 72).  A task never waits for a    *)
(* busy worker beside a sleeping one.                                      *)
NoLostWakeup ==
    LET coming == {w \in Worker : wpc[w] \in {"check", "notify"}}
    IN  Waiting # {} => Len(tasks) <= Cardinality(coming) + (IF owner = "notify" THEN 1 ELSE 0)

(* After notify_all nobody sleeps through the stop (line 46). *)
NobodySleepsThroughStop == owner \in {"join", "gone"} => Waiting = {}

(* Every accepted task is eventually run to its end. *)
EveryTaskRuns ==
    \A t \in Task : (\E i \in 1 .. Len(accepted) : accepted[i] = t) ~> (t \in finished)

(* The destructor returns once it has been called. *)
DestructorReturns == stop ~> (owner = "gone")
=============================================================================
