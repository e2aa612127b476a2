------------------------------- MODULE ClientView -------------------------------
(***************************************************************************)
(* The getters of native/src/jni_bridge.c, and what they tell a client: a  *)
(* client sees the tasks by their ids, and each getter reads under the     *)
(* mutex, so that it sees what is there while nobody is in a pass.         *)
(***************************************************************************)
EXTENDS SchedulerProperties

CONSTANT NotFound       \* -1, for an id that no task has

ASSUME NotFoundAssumption == NotFound \notin TaskStates

Ids == {job.id : job \in Jobs}

(* The loop over the tasks that all these getters begin with. *)
Found(i) == {t \in Registered : id[t] = i}

(* field of the first task with the id. *)
Get(field, i) ==
  IF Found(i) = {} THEN NotFound
  ELSE field[CHOOSE t \in Found(i) : \A u \in Found(i) : t <= u]

getTaskCount == task_count
getTaskState(i) == Get(state, i)
getRemainingTime(i) == Get(remaining_time, i)
getBasePriority(i) == Get(base_priority, i)
getEffectivePriority(i) == Get(effective_priority, i)
getHeldResources(i) == Get(held, i)
getWaitTicks(i) == Get(wait_ticks, i)
getRunningTaskId == running_task_id
getReadyQueueSize == Len(ready_queue)
getBlockedQueueSize == Len(blocked_queue)

--------------------------------------------------------------------------------
(* The tasks by their ids, and the task that the worker of each pair runs. *)
Status == [i \in Ids |-> getTaskState(i)]
Needs == [i \in Ids |-> Get(required, i)]
Holding == [i \in Ids |-> getHeldResources(i)]
Remaining == [i \in Ids |-> getRemainingTime(i)]
Runs == [p \in Pairs |-> IF wpc[p] = "running" THEN id[current[p]] ELSE NoTask]

Life == INSTANCE TaskLifecycle WITH
  Times <- {job.time : job \in Jobs},
  Workers <- Pairs,
  count <- getTaskCount,
  status <- Status,
  needs <- Needs,
  holding <- Holding,
  remaining <- Remaining,
  runs <- Runs

(* The scheduler implements the life of the tasks: as the getters show     *)
(* them, tasks take the legal steps only, one at a time, an ended one is   *)
(* never changed again, and only a deadlock aborts one.                    *)
IsLifecycle == Life!Spec

InState(S) == {i \in Ids : getTaskState(i) \in S}

(* The sizes of the queues fit the states that the tasks are in: every     *)
(* waiting task is in the blocked queue, every READY one in the ready      *)
(* queue but the one that the scheduler has selected, and that one is      *)
(* the running task, which is none other.                                  *)
SizesFitStates ==
  mutex = Free =>
    /\ getTaskCount = Cardinality(InState(TaskStates))
    /\ getBlockedQueueSize = Cardinality(InState({"NEW", "BLOCKED"}))
    /\ LET served == InState({"RUNNING", "READY"})
           extra == Cardinality(served) - getReadyQueueSize
       IN  \/ extra = 0
           \/ extra = 1 /\ getRunningTaskId \in served
    /\ InState({"RUNNING"}) \subseteq {getRunningTaskId}

(* Aging is of the tasks in the ready queue only: any other task has its   *)
(* base priority and no ticks, and no ticks outlive an increase.           *)
AgingOfReadyOnly ==
  mutex = Free =>
    \A i \in InState(TaskStates) :
      /\ getEffectivePriority(i) >= getBasePriority(i)
      /\ getWaitTicks(i) < AGING_TICKS
      /\ getEffectivePriority(i) # getBasePriority(i) \/ getWaitTicks(i) # 0
           => getTaskState(i) = "READY"
===============================================================================
