-------------------------- MODULE SchedulerProperties --------------------------
(***************************************************************************)
(* What the scheduler promises: the properties of module Scheduler that    *)
(* the runs check and that SchedulerProofs proves.                         *)
(***************************************************************************)
EXTENDS Scheduler

SchedulerSteps == {"unborn", "boot", "top", "lock", "pass", "post_worker", "wait", "woken",
                   "idle", "exit_worker", "exit_scheduler", "exit_event", "done"}
WorkerSteps == {"unborn", "boot", "top", "wait", "woken", "pickup", "running", "post",
                "post_both", "post_event", "done"}
JniSteps == {"idle", "notify", "post_worker", "post_scheduler", "post_event",
             "join_scheduler", "join_worker", "closed"}

(* Every variable has its type: in particular the queues hold registered   *)
(* tasks only, fit their rings, and priorities stay ints.                  *)
TasksTypeOK ==
  /\ id \in [Idx -> Int]
  /\ base_priority \in [Idx -> Int32]
  /\ effective_priority \in [Idx -> Int32]
  /\ state \in [Idx -> TaskStates]
  /\ remaining_time \in [Idx -> Int]
  /\ required \in [Idx -> SUBSET Resources]
  /\ held \in [Idx -> SUBSET Resources]
  /\ wait_ticks \in [Idx -> Nat]
  /\ assigned_worker_pid \in [Idx -> Pairs \cup {NoPair}]

QueuesTypeOK ==
  /\ task_count \in 0 .. MAX_TASKS
  /\ ready_queue \in Seq(Registered)
  /\ blocked_queue \in Seq(Registered)
  /\ running_task_id \in Int

ControlTypeOK ==
  /\ mutex \in Pairs \cup {Free}
  /\ sem \in [Semaphores -> Nat]
  /\ shutdown_flag \in BOOLEAN
  /\ spc \in [Pairs -> SchedulerSteps]
  /\ blocked_left \in Nat
  /\ globally_held \in SUBSET Resources
  /\ allocation_progress \in BOOLEAN
  /\ wpc \in [Pairs -> WorkerSteps]
  /\ current \in [Pairs -> Idx]
  /\ exec_time \in [Pairs -> Int]
  /\ jpc \in JniSteps
  /\ scheduler_pid \in Pairs \cup {NoPair}
  /\ worker_pid \in Pairs \cup {NoPair}

TypeOK == TasksTypeOK /\ QueuesTypeOK /\ ControlTypeOK

--------------------------------------------------------------------------------
(* Safety, whatever the number of pairs *)

(* No resource is held by two tasks, in particular not while one pass      *)
(* grants resources by a copy of the held ones that it made at its start.  *)
ResourceExclusive ==
  \A t, u \in Registered : t # u => held[t] \cap held[u] = {}

(* What a task holds fits its state: a task that may run holds all that it *)
(* requires, one that has not started or has ended holds nothing, and a    *)
(* blocked one lacks something.                                            *)
HoldsWhatStateSays ==
  \A t \in Registered :
    /\ state[t] \in {"READY", "RUNNING"} => held[t] = required[t]
    /\ state[t] = "NEW" \/ Terminal(t) => held[t] = {}
    /\ state[t] = "BLOCKED" => held[t] \subseteq required[t] /\ held[t] # required[t]

(* Where a task is queued fits its state: the waiting tasks are exactly    *)
(* those of the blocked queue, the ready queue has READY tasks only, and   *)
(* no queue has a task twice.                                              *)
QueuedWhereStateSays ==
  /\ NoRepeats(ready_queue) /\ NoRepeats(blocked_queue)
  /\ \A t \in Registered : state[t] \in {"NEW", "BLOCKED"} <=> t \in Range(blocked_queue)
  /\ \A t \in Range(ready_queue) : state[t] = "READY"

(* A task runs on one worker: RUNNING tasks and sleeping workers match.    *)
RunsOnOneWorker ==
  /\ \A p \in Pairs : wpc[p] = "running" => state[current[p]] = "RUNNING"
  /\ \A p, q \in Pairs : p # q /\ wpc[p] = "running" /\ wpc[q] = "running"
                           => current[p] # current[q]
  /\ \A t \in Registered : state[t] = "RUNNING"
                           => \E p \in Pairs : wpc[p] = "running" /\ current[p] = t

(* A set of tasks each of which waits for what another of them holds.      *)
Stuck(S) ==
  \A t \in S : state[t] = "BLOCKED" /\ \E u \in S : (required[t] \ held[t]) \cap held[u] # {}

(* When no pass is being made there is no deadlock: every one that the     *)
(* pass before created has been resolved.                                  *)
DeadlockFreeBetweenPasses ==
  mutex = Free => \A S \in SUBSET Registered : Stuck(S) => S = {}

(* A task is aborted only out of a deadlock.                               *)
OnlyDeadlockedAborted ==
  [][\A t \in Registered :
       state'[t] = "DEADLOCK_ABORTED" /\ state[t] # "DEADLOCK_ABORTED"
         => \E S \in SUBSET Registered : t \in S /\ Stuck(S)]_vars

(* A task keeps what it was granted until it ends.                         *)
KeepsResources ==
  [][\A t \in Registered : held[t] \subseteq held'[t] \/ Terminal(t)']_vars

(* The task handed to the worker has the highest effective priority of     *)
(* the ready queue, after submissions, priority changes and aging.         *)
HighestFirst ==
  [][\A p \in Pairs : spc[p] = "pass" /\ spc'[p] = "post_worker" =>
       \E t \in Range(ready_queue) :
         /\ running_task_id' = id[t]
         /\ \A u \in Range(ready_queue') : AgedPriority[t] >= effective_priority'[u]]_vars

(* Only changePriority lowers the effective priority of a task that stays  *)
(* in the ready queue.                                                     *)
Changing == jpc = "idle" /\ jpc' = "notify"

AgingOnlyRaises ==
  [][\A t \in Range(ready_queue) \cap Range(ready_queue') :
       effective_priority'[t] >= effective_priority[t] \/ Changing]_vars

(* The owner of the mutex is the scheduler that is in a pass, if any; its  *)
(* copy of the held resources covers all that tasks hold, and the tasks it *)
(* has still to examine are in the blocked queue.                          *)
PassOwnsMutex ==
  /\ \A p \in Pairs : spc[p] = "pass" <=> mutex = p
  /\ mutex # Free => /\ blocked_left <= Len(blocked_queue)
                     /\ \A t \in Registered : held[t] \subseteq globally_held

(* The ready queue is in the order in which its tasks are to be served.    *)
ReadySorted == SortedBy(ready_queue, effective_priority)

(* Every worker that runs runs a registered task. *)
RunningIsRegistered == \A p \in Pairs : wpc[p] = "running" => current[p] \in Registered

(* submitTask keeps the ids apart; no task has the id that names none.     *)
UniqueIds ==
  \A t, u \in Registered : id[t] >= 0 /\ (id[t] = id[u] => t = u)

(* The flag is set from stop() on; schedulers leave only when it is set.   *)
ShutdownIsStop ==
  /\ shutdown_flag <=> jpc \notin {"idle", "notify"}
  /\ \A p \in Pairs : spc[p] \in {"exit_worker", "exit_scheduler", "exit_event"}
                       => shutdown_flag

(* No worker has been woken to look up its task, or is about to be: those  *)
(* that stop() wakes end.                                                  *)
NobodyWoken ==
  /\ \A p \in Pairs : wpc[p] # "pickup"
  /\ shutdown_flag \/ /\ sem["worker"] = 0
                      /\ \A p \in Pairs : spc[p] # "post_worker" /\ wpc[p] # "woken"

(* While a worker may look up running_task_id, it names no task that is in *)
(* a queue: a worker cannot start a queued task, even with two schedulers  *)
(* that overwrite each other's assignment.                                 *)
AssignedIsNotQueued ==
  \/ NobodyWoken
  \/ running_task_id = NoTask
  \/ \E t \in Registered : /\ id[t] = running_task_id
                            /\ state[t] \notin {"NEW", "BLOCKED"}
                            /\ t \notin Range(ready_queue)

(* What is left of these two when processes are killed: a scheduler that is*)
(* gone may own the mutex still, and a worker that is gone leaves its task *)
(* RUNNING, but nobody is in a pass without the mutex, and two workers     *)
(* never run one task.                                                     *)
PassHasMutex ==
  /\ \A p \in Pairs : spc[p] = "pass" => mutex = p
  /\ mutex # Free => /\ blocked_left <= Len(blocked_queue)
                     /\ \A t \in Registered : held[t] \subseteq globally_held

RunsApart ==
  /\ \A p \in Pairs : wpc[p] = "running" => state[current[p]] = "RUNNING"
  /\ \A p, q \in Pairs : p # q /\ wpc[p] = "running" /\ wpc[q] = "running"
                           => current[p] # current[q]

(* The inductive invariant of module SchedulerProofs: SoundInv is about the*)
(* tasks and their queues, AssignmentInv about who may pick up which task; *)
(* SafeInv survives kills too, IInv says more as long as there are none.   *)
SoundInv ==
  /\ TypeOK
  /\ PassHasMutex
  /\ ResourceExclusive
  /\ HoldsWhatStateSays
  /\ QueuedWhereStateSays
  /\ RunningIsRegistered
  /\ RunsApart
  /\ ReadySorted

AssignmentInv == UniqueIds /\ ShutdownIsStop /\ AssignedIsNotQueued

SafeInv == SoundInv /\ AssignmentInv

DataInv ==
  /\ TypeOK
  /\ PassOwnsMutex
  /\ ResourceExclusive
  /\ HoldsWhatStateSays
  /\ QueuedWhereStateSays
  /\ RunningIsRegistered
  /\ RunsOnOneWorker
  /\ ReadySorted

IInv == DataInv /\ AssignmentInv

--------------------------------------------------------------------------------
(* Safety with the one pair that a single start() makes *)

(* The scheduler and the worker take turns: the turn is in one place, with *)
(* one of them or in a semaphore, until a shutdown wakes everybody.        *)
Num(b) == IF b THEN 1 ELSE 0

OneTurn ==
  ~shutdown_flag =>
    \A p \in Pairs :
      Num(spc[p] # "wait") + sem["worker"] + sem["scheduler"]
        + Num(wpc[p] \in {"woken", "pickup", "running", "post", "post_both"}) = 1

(* The tasks out of the scheduler's hands: handed to the worker, or run.   *)
InService(t) ==
  state[t] = "RUNNING" \/ (state[t] = "READY" /\ t \notin Range(ready_queue))

(* A task that may run and is not queued is the one running_task_id names. *)
NoTaskLost == \A t \in Registered : InService(t) => running_task_id = id[t]

(* A worker that wakes finds the task it was given, READY and with time    *)
(* left: its error paths are never taken.                                  *)
WorkerFindsItsTask ==
  \A p \in Pairs : wpc[p] = "pickup" =>
    \E t \in Registered : /\ id[t] = running_task_id /\ state[t] = "READY"
                          /\ remaining_time[t] > 0 /\ t \notin Range(ready_queue)

(* The scheduler sleeps with no event pending only if all tasks have ended.*)
SleepsOnlyWhenDone ==
  \A p \in Pairs :
    spc[p] = "idle" /\ sem["event"] = 0 /\ jpc = "idle" =>
      \A t \in Registered : Terminal(t)

(* stop() destroys the mutex and the semaphores only after every process   *)
(* has left them.                                                          *)
ClosedAfterAll ==
  Closed => mutex = Free /\ \A p \in Pairs : spc[p] \in {"unborn", "done"}
                                          /\ wpc[p] \in {"unborn", "done"}

--------------------------------------------------------------------------------
(* Liveness *)

(* Once the processes are started, every submitted task ends, unless       *)
(* stop() is called first.  (A task that has ended stays so, and there are *)
(* at most MAX_TASKS of them: so there is a moment when all have ended.)   *)
EveryTaskEnds ==
  (\E p \in Pairs : spc[p] # "unborn")
    ~> (shutdown_flag \/ \A t \in Registered : Terminal(t))

(* stop() returns, wherever it finds the processes.                        *)
StopReturns == (jpc = "post_worker") ~> Closed

--------------------------------------------------------------------------------
(* What comments of the source say *)

(* "Scheduler must assign only a READY task to Worker": whenever a worker  *)
(* may look up the task it was given, that task is READY.                  *)
OnlyReadyAssigned ==
  \A p \in Pairs : wpc[p] = "pickup" /\ mutex = Free =>
    \A t \in Registered : id[t] = running_task_id => state[t] = "READY"

(* getRunningTaskId: "the ID of the task that Scheduler has assigned to    *)
(* Worker": the task that running_task_id names is in service.             *)
RunningIdIsAssigned ==
  mutex = Free => \A t \in Registered : id[t] = running_task_id => InService(t)
===============================================================================
