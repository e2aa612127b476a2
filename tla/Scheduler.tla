------------------------------- MODULE Scheduler -------------------------------
(***************************************************************************)
(* The task scheduler of native/src: the shared memory segment, the JNI    *)
(* calls that change it, and the scheduler and worker processes that       *)
(* start() forks and that meet only in that segment, under its mutex and   *)
(* its three semaphores.                                                   *)
(*                                                                         *)
(* A critical section whose state changes are all made between one lock    *)
(* and the next unlock is one action, enabled while the mutex is free.     *)
(* The scheduler's pass over the blocked queue is a loop: it holds the     *)
(* mutex over several actions, one for each task it examines.              *)
(*                                                                         *)
(* The JNI calls are made by one thread of the JVM, as the tests and the   *)
(* class NativeScheduler make them.                                        *)
(*                                                                         *)
(* A definition whose name ends in an underscore and a word, as in         *)
(* Granted_Unchecked, is a mistaken variant of the definition after it: a  *)
(* bug that the properties must notice.  Nothing else uses it.             *)
(***************************************************************************)
EXTENDS Queues

CONSTANTS
  Pairs,            \* the scheduler/worker pairs, one for each call of start()
  NoPair,           \* no process (a pid of 0 or -1)
  Free,             \* the mutex has no owner
  Resources,        \* the bits of a resource mask in use
  Jobs,             \* the arguments of submitTask that a client may pass
  ChangedPriorities,\* the priorities a client may pass to changePriority
  QUANTUM,          \* the time quantum, in the unit of a job's time (50 ms)
  AGING_TICKS,      \* passes a queued task waits for a higher priority (5)
  INT_MAX,          \* the largest int
  MaxEvents,        \* bound: changePriority is called only below this many
                    \* undelivered events
  MayFail           \* whether fork, shm_open and mmap may fail

Int32 == -INT_MAX - 1 .. INT_MAX

ASSUME PairsAssumption == NoPair \notin Pairs /\ Free \notin Pairs
ASSUME ResourcesAssumption == Resources \subseteq Nat
ASSUME NumbersAssumption ==
  /\ QUANTUM \in Nat \ {0}
  /\ AGING_TICKS \in Nat \ {0}
  /\ INT_MAX \in Nat \ {0}
  /\ MaxEvents \in Nat
  /\ MayFail \in BOOLEAN
ASSUME JobsAssumption ==
  Jobs \subseteq [id : Int32, priority : Int32, time : Int, required : SUBSET Resources]
ASSUME ChangedPrioritiesAssumption == ChangedPriorities \subseteq Int32

Idx == 0 .. MAX_TASKS - 1
NoTask == -1

TaskStates == {"NEW", "READY", "RUNNING", "BLOCKED", "FINISHED", "DEADLOCK_ABORTED"}
Semaphores == {"worker", "scheduler", "event"}

VARIABLES
  \* SharedMemorySegment.tasks, a function for each field of a Task
  id, base_priority, effective_priority, state, remaining_time,
  required, held, wait_ticks, assigned_worker_pid,
  \* the rest of SharedMemorySegment
  task_count, ready_queue, blocked_queue, running_task_id,
  mutex, sem, shutdown_flag,
  \* the scheduler processes: where each is, and the locals of the pass that
  \* the owner of the mutex is making
  spc, blocked_left, globally_held, allocation_progress,
  \* the worker processes: where each is, and the task and the time slice it
  \* keeps while it runs without the mutex
  wpc, current, exec_time,
  \* the JNI thread: where it is, and the pids it will wait for
  jpc, scheduler_pid, worker_pid

tasks    == <<id, base_priority, effective_priority, state, remaining_time,
              required, held, wait_ticks, assigned_worker_pid>>
queues   == <<ready_queue, blocked_queue>>
pass     == <<blocked_left, globally_held, allocation_progress>>
locals   == <<current, exec_time>>
handles  == <<scheduler_pid, worker_pid>>
vars     == <<tasks, task_count, queues, running_task_id, mutex, sem,
              shutdown_flag, spc, pass, wpc, locals, jpc, handles>>

Registered == 0 .. task_count - 1
Terminal(t) == state[t] \in {"FINISHED", "DEADLOCK_ABORTED"}

--------------------------------------------------------------------------------
(* A new segment is all zeroes, running_task_id included. *)
Init ==
  /\ id = [t \in Idx |-> 0]
  /\ base_priority = [t \in Idx |-> 0]
  /\ effective_priority = [t \in Idx |-> 0]
  /\ state = [t \in Idx |-> "NEW"]
  /\ remaining_time = [t \in Idx |-> 0]
  /\ required = [t \in Idx |-> {}]
  /\ held = [t \in Idx |-> {}]
  /\ wait_ticks = [t \in Idx |-> 0]
  /\ assigned_worker_pid = [t \in Idx |-> NoPair]
  /\ task_count = 0
  /\ ready_queue = <<>> /\ blocked_queue = <<>>
  /\ running_task_id = 0
  /\ mutex = Free
  /\ sem = [s \in Semaphores |-> 0]
  /\ shutdown_flag = FALSE
  /\ spc = [p \in Pairs |-> "unborn"]
  /\ blocked_left = 0 /\ globally_held = {} /\ allocation_progress = FALSE
  /\ wpc = [p \in Pairs |-> "unborn"]
  /\ current = [p \in Pairs |-> 0]
  /\ exec_time = [p \in Pairs |-> 0]
  /\ jpc = "idle"
  /\ scheduler_pid = NoPair /\ worker_pid = NoPair

Post(s) == sem' = [sem EXCEPT ![s] = @ + 1]
SemWait_Unchecked(s) == sem' = [sem EXCEPT ![s] = @ - 1]
SemWait(s) == sem[s] > 0 /\ sem' = [sem EXCEPT ![s] = @ - 1]

(* A task becomes READY and is queued in the order of the priorities. *)
MakeReady_Forgotten(t) == UNCHANGED ready_queue
MakeReady(t) == ready_queue' = Reorder(PushTail(ready_queue, t), effective_priority)

--------------------------------------------------------------------------------
(* The JNI thread *)

(* submitTask: a job with invalid or known parameters, or one job too many,*)
(* is refused and changes nothing.                                         *)
Acceptable(j) ==
  /\ j.id >= 0 /\ j.priority >= 0 /\ j.time > 0
  /\ \A t \in Registered : id[t] # j.id
  /\ task_count < MAX_TASKS

Submit(j) ==
  /\ jpc = "idle" /\ mutex = Free
  /\ Acceptable(j)
  /\ LET t == task_count
         ready == j.required = {}
         eff == [effective_priority EXCEPT ![t] = j.priority]
     IN  /\ id' = [id EXCEPT ![t] = j.id]
         /\ base_priority' = [base_priority EXCEPT ![t] = j.priority]
         /\ effective_priority' = eff
         /\ state' = [state EXCEPT ![t] = IF ready THEN "READY" ELSE "NEW"]
         /\ remaining_time' = [remaining_time EXCEPT ![t] = j.time]
         /\ required' = [required EXCEPT ![t] = j.required]
         /\ held' = [held EXCEPT ![t] = {}]
         /\ wait_ticks' = [wait_ticks EXCEPT ![t] = 0]
         /\ assigned_worker_pid' = [assigned_worker_pid EXCEPT ![t] = NoPair]
         /\ ready_queue' = IF ready THEN Reorder(PushTail(ready_queue, t), eff)
                                    ELSE ready_queue
         /\ blocked_queue' = IF ready THEN blocked_queue
                                      ELSE PushTail(blocked_queue, t)
  /\ task_count' = task_count + 1
  /\ jpc' = "notify"
  /\ UNCHANGED <<running_task_id, mutex, sem, shutdown_flag, spc, pass, wpc, locals, handles>>

(* changePriority: any int is accepted; the scheduler is notified even of  *)
(* an id that no task has.                                                 *)
ChangePriority(i, priority) ==
  /\ jpc = "idle" /\ mutex = Free
  /\ sem["event"] < MaxEvents
  /\ LET Hit == {t \in Registered : id[t] = i}
         eff == [t \in Idx |-> IF t \in Hit THEN priority ELSE effective_priority[t]]
     IN  /\ base_priority' = [t \in Idx |-> IF t \in Hit THEN priority ELSE base_priority[t]]
         /\ effective_priority' = eff
         /\ wait_ticks' = [t \in Idx |-> IF t \in Hit THEN 0 ELSE wait_ticks[t]]
         /\ ready_queue' = IF Hit \cap Range(ready_queue) # {}
                           THEN Reorder(ready_queue, eff) ELSE ready_queue
  /\ jpc' = "notify"
  /\ UNCHANGED <<id, state, remaining_time, required, held, assigned_worker_pid,
                 task_count, blocked_queue, running_task_id, mutex, sem,
                 shutdown_flag, spc, pass, wpc, locals, handles>>

(* The end of both calls, after the unlock: one event for the scheduler. *)
Notified_Worker == "worker"
Notified_Scheduler == "scheduler"
Notified == "event"

Notify ==
  /\ jpc = "notify"
  /\ Post(Notified)
  /\ jpc' = "idle"
  /\ UNCHANGED <<tasks, task_count, queues, running_task_id, mutex, shutdown_flag,
                 spc, pass, wpc, locals, handles>>

(* spawn_scheduler_process, spawn_worker_process: a fork that fails leaves *)
(* no process.                                                             *)
Forked == IF MayFail THEN {"boot", "done"} ELSE {"boot"}

(* start: clears the flag and forks the two processes of a pair, keeping   *)
(* the pids of this pair only.                                             *)
Start(p) ==
  /\ jpc = "idle"
  /\ spc[p] = "unborn" /\ wpc[p] = "unborn"
  /\ shutdown_flag' = FALSE
  /\ \E s, w \in Forked :
       /\ spc' = [spc EXCEPT ![p] = s]
       /\ wpc' = [wpc EXCEPT ![p] = w]
       /\ scheduler_pid' = IF s = "boot" THEN p ELSE NoPair
       /\ worker_pid' = IF w = "boot" THEN p ELSE NoPair
  /\ UNCHANGED <<tasks, task_count, queues, running_task_id, mutex, sem, pass, locals, jpc>>

(* stop: the flag, one token for each semaphore, the two waitpid calls (of *)
(* the pair started last), the destruction of the segment.                 *)
Stop ==
  /\ jpc = "idle"
  /\ shutdown_flag' = TRUE
  /\ jpc' = "post_worker"
  /\ UNCHANGED <<tasks, task_count, queues, running_task_id, mutex, sem, spc, pass,
                 wpc, locals, handles>>

StopPost_NotWorker(from, s, to) ==
  /\ jpc = from
  /\ IF s = "worker" THEN UNCHANGED sem ELSE Post(s)
  /\ jpc' = to
  /\ UNCHANGED <<tasks, task_count, queues, running_task_id, mutex, shutdown_flag,
                 spc, pass, wpc, locals, handles>>

StopPost(from, s, to) ==
  /\ jpc = from
  /\ Post(s)
  /\ jpc' = to
  /\ UNCHANGED <<tasks, task_count, queues, running_task_id, mutex, shutdown_flag,
                 spc, pass, wpc, locals, handles>>

(* wait_for_process: nothing to wait for, or the process has ended. *)
Joined_NoWait(pid, pc) == pid # NoPair => pc[pid] # "unborn"
Joined(pid, pc) == pid # NoPair => pc[pid] = "done"

JoinScheduler ==
  /\ jpc = "join_scheduler"
  /\ Joined(scheduler_pid, spc)
  /\ scheduler_pid' = NoPair
  /\ jpc' = "join_worker"
  /\ UNCHANGED <<tasks, task_count, queues, running_task_id, mutex, sem, shutdown_flag,
                 spc, pass, wpc, locals, worker_pid>>

JoinWorker ==
  /\ jpc = "join_worker"
  /\ Joined(worker_pid, wpc)
  /\ worker_pid' = NoPair
  /\ jpc' = "closed"
  /\ UNCHANGED <<tasks, task_count, queues, running_task_id, mutex, sem, shutdown_flag,
                 spc, pass, wpc, locals, scheduler_pid>>

(* What the JNI thread does once it has begun a call. *)
JniContinues ==
  \/ Notify
  \/ StopPost("post_worker", "worker", "post_scheduler")
  \/ StopPost("post_scheduler", "scheduler", "post_event")
  \/ StopPost("post_event", "event", "join_scheduler")
  \/ JoinScheduler
  \/ JoinWorker

--------------------------------------------------------------------------------
(* Both kinds of process attach to the segment first (shm_open, mmap), or  *)
(* exit if they cannot.                                                    *)
Attached == IF MayFail THEN {"top", "done"} ELSE {"top"}

SchedulerBoot(p) ==
  /\ spc[p] = "boot"
  /\ \E to \in Attached : spc' = [spc EXCEPT ![p] = to]
  /\ UNCHANGED <<tasks, task_count, queues, running_task_id, mutex, sem, shutdown_flag,
                 pass, wpc, locals, jpc, handles>>

WorkerBoot(p) ==
  /\ wpc[p] = "boot"
  /\ \E to \in Attached : wpc' = [wpc EXCEPT ![p] = to]
  /\ UNCHANGED <<tasks, task_count, queues, running_task_id, mutex, sem, shutdown_flag,
                 spc, pass, locals, jpc, handles>>

--------------------------------------------------------------------------------
(* The scheduler process *)

(* The condition of the main loop, and the same test after a quantum.      *)
SchedulerCheck(p) ==
  /\ spc[p] \in {"top", "woken"}
  /\ spc' = [spc EXCEPT ![p] = IF shutdown_flag THEN "exit_worker"
                               ELSE IF @ = "woken" THEN "top" ELSE "lock"]
  /\ UNCHANGED <<tasks, task_count, queues, running_task_id, mutex, sem, shutdown_flag,
                 pass, wpc, locals, jpc, handles>>

(* Terminal tasks hold nothing. *)
HeldByLive_Blocked == [t \in Idx |-> IF state[t] = "BLOCKED" THEN {} ELSE held[t]]
HeldByLive == [t \in Idx |-> IF t \in Registered /\ Terminal(t) THEN {} ELSE held[t]]

BeginPass(p) ==
  /\ spc[p] = "lock" /\ mutex = Free
  /\ mutex' = p
  /\ spc' = [spc EXCEPT ![p] = "pass"]
  /\ held' = HeldByLive
  /\ globally_held' = UNION {HeldByLive[t] : t \in Registered}
  /\ blocked_left' = Len(blocked_queue)
  /\ allocation_progress' = FALSE
  /\ UNCHANGED <<id, base_priority, effective_priority, state, remaining_time, required,
                 wait_ticks, assigned_worker_pid, task_count, queues, running_task_id,
                 sem, shutdown_flag, wpc, locals, jpc, handles>>

(* The resource that task t is given now: the lowest free one it lacks.    *)
Granted_Unchecked(t) ==
  LET lacking == required[t] \ held[t]
  IN  {r \in lacking : \A s \in lacking : r <= s}

Granted(t) ==
  LET free == (required[t] \ held[t]) \ globally_held
  IN  {r \in free : \A s \in free : r <= s}

(* One iteration over blocked_queue: the head gets at most one resource;   *)
(* with all it requires it becomes READY, else it goes back to the tail.   *)
Allocate(t) ==
  LET got == held[t] \cup Granted(t)
      complete == required[t] \subseteq held[t] \/ got = required[t]
  IN  /\ held' = [held EXCEPT ![t] = got]
      /\ globally_held' = globally_held \cup Granted(t)
      /\ allocation_progress' = (\/ allocation_progress \/ Granted(t) # {}
                                 \/ required[t] \subseteq held[t])
      /\ state' = [state EXCEPT ![t] = IF complete THEN "READY" ELSE "BLOCKED"]
      /\ blocked_queue' = IF complete THEN Tail(blocked_queue)
                                      ELSE PushTail(Tail(blocked_queue), t)
      /\ IF complete THEN MakeReady(t) ELSE UNCHANGED ready_queue

(* A terminal task found in the queue is dropped. *)
DropTerminal(t) ==
  /\ held' = [held EXCEPT ![t] = {}]
  /\ blocked_queue' = Tail(blocked_queue)
  /\ UNCHANGED <<state, ready_queue, globally_held, allocation_progress>>

AllocateNext(p) ==
  /\ spc[p] = "pass" /\ blocked_left > 0
  /\ blocked_left' = blocked_left - 1
  /\ LET t == Head(blocked_queue)
     IN  IF Terminal(t) THEN DropTerminal(t) ELSE Allocate(t)
  /\ UNCHANGED <<id, base_priority, effective_priority, remaining_time, required,
                 wait_ticks, assigned_worker_pid, task_count, running_task_id, mutex,
                 sem, shutdown_flag, spc, wpc, locals, jpc, handles>>

(* is_waiting_for *)
WaitsFor_Required(t, u) ==
  /\ state[t] = "BLOCKED" /\ state[u] \in {"BLOCKED", "RUNNING"}
  /\ required[t] \cap held[u] # {}

WaitsFor(t, u) ==
  /\ state[t] = "BLOCKED" /\ state[u] \in {"BLOCKED", "RUNNING"}
  /\ (required[t] \ held[t]) \cap held[u] # {}

(* The cycles of the wait-for graph.  The depth-first search of            *)
(* detect_and_resolve_deadlocks finds one of them whenever there is one;   *)
(* which one is left open here.                                            *)
WaitCycles_Two ==
  {c \in [1 .. 2 -> Registered] :
     NoRepeats(c) /\ WaitsFor(c[1], c[2]) /\ WaitsFor(c[2], c[1])}

WaitCycles ==
  {c \in UNION {[1 .. n -> Registered] : n \in 1 .. task_count} :
     /\ NoRepeats(c)
     /\ \A k \in DOMAIN c : WaitsFor(c[k], c[(k % Len(c)) + 1])}

(* v is preferred to w as the victim. *)
BetterVictim(v, w) ==
  \/ effective_priority[v] < effective_priority[w]
  \/ /\ effective_priority[v] = effective_priority[w]
     /\ \/ remaining_time[v] > remaining_time[w]
        \/ remaining_time[v] = remaining_time[w] /\ id[v] < id[w]

Victims(c) == {v \in Range(c) : \A w \in Range(c) \ {v} : BetterVictim(v, w)}

(* The victim loses its resources and its place in the queues. *)
Abort(v) ==
  /\ state' = [state EXCEPT ![v] = "DEADLOCK_ABORTED"]
  /\ held' = [held EXCEPT ![v] = {}]
  /\ assigned_worker_pid' = [assigned_worker_pid EXCEPT ![v] = NoPair]
  /\ remaining_time' = [remaining_time EXCEPT ![v] = 0]
  /\ blocked_queue' = RemoveTask(blocked_queue, v)
  /\ ready_queue' = RemoveTask(ready_queue, v)
  /\ running_task_id' = IF running_task_id = id[v] THEN NoTask ELSE running_task_id

(* One round of detect_and_resolve_deadlocks: a victim is aborted. *)
ResolveDeadlock(p) ==
  /\ spc[p] = "pass" /\ blocked_left = 0
  /\ \E c \in WaitCycles : \E v \in Victims(c) : Abort(v)
  /\ allocation_progress' = TRUE
  /\ UNCHANGED <<id, base_priority, effective_priority, required, wait_ticks, task_count,
                 mutex, sem, shutdown_flag, spc, blocked_left, globally_held, wpc,
                 locals, jpc, handles>>

(* apply_aging: with more than one task queued, each has waited one pass   *)
(* more; after AGING_TICKS of them its priority rises by one.              *)
Increment(x) == IF x = INT_MAX THEN -INT_MAX - 1 ELSE x + 1   \* int, wraps around

Aged == {t \in Range(ready_queue) :
           Len(ready_queue) > 1 /\ wait_ticks[t] + 1 >= AGING_TICKS}
AgedTicks == [t \in Idx |-> IF t \in Aged THEN 0
                            ELSE IF t \in Range(ready_queue) /\ Len(ready_queue) > 1
                                 THEN wait_ticks[t] + 1 ELSE wait_ticks[t]]
AgedPriority_Restarted == [t \in Idx |-> IF t \in Aged THEN Increment(effective_priority[t])
                                         ELSE base_priority[t]]
AgedPriority == [t \in Idx |-> IF t \in Aged THEN Increment(effective_priority[t])
                               ELSE effective_priority[t]]
AgedQueue_Unsorted == ready_queue
AgedQueue == IF Aged = {} THEN ready_queue ELSE Reorder(ready_queue, AgedPriority)

(* The task that is served begins to wait anew. *)
ServedTicks_Kept(t) == AgedTicks
ServedTicks(t) == [AgedTicks EXCEPT ![t] = 0]

ReleasePass ==
  /\ mutex' = Free
  /\ blocked_left' = 0 /\ globally_held' = {} /\ allocation_progress' = FALSE

(* The end of a pass that has a task to run: aging, then the head of the   *)
(* queue is handed to the worker.  Its state stays READY.                  *)
HandOver(p) ==
  /\ spc[p] = "pass" /\ blocked_left = 0
  /\ ready_queue # <<>>
  /\ LET t == Head(AgedQueue)
     IN  /\ wait_ticks' = ServedTicks(t)
         /\ effective_priority' = [AgedPriority EXCEPT ![t] = base_priority[t]]
         /\ running_task_id' = id[t]
  /\ ready_queue' = Tail(AgedQueue)
  /\ held' = HeldByLive
  /\ ReleasePass
  /\ spc' = [spc EXCEPT ![p] = "post_worker"]
  /\ UNCHANGED <<id, base_priority, state, remaining_time, required, assigned_worker_pid,
                 task_count, blocked_queue, sem, shutdown_flag, wpc, locals, jpc, handles>>

SelectTask(p) == WaitCycles = {} /\ HandOver(p)

(* The end of a pass with nothing to run: another pass if this one made    *)
(* progress, else the scheduler sleeps until the next event.               *)
AfterIdlePass_Sleeps == "idle"
AfterIdlePass == IF allocation_progress THEN "top" ELSE "idle"

GoIdle(p) ==
  /\ spc[p] = "pass" /\ blocked_left = 0
  /\ ready_queue = <<>>
  /\ held' = HeldByLive
  /\ spc' = [spc EXCEPT ![p] = AfterIdlePass]
  /\ ReleasePass
  /\ UNCHANGED <<id, base_priority, effective_priority, state, remaining_time, required,
                 wait_ticks, assigned_worker_pid, task_count, queues, running_task_id,
                 sem, shutdown_flag, wpc, locals, jpc, handles>>

NothingToRun(p) == WaitCycles = {} /\ GoIdle(p)

(* A step of the scheduler that only posts a semaphore, or takes a token.  *)
SchedulerPosts(p, from, s, to) ==
  /\ spc[p] = from
  /\ Post(s)
  /\ spc' = [spc EXCEPT ![p] = to]
  /\ UNCHANGED <<tasks, task_count, queues, running_task_id, mutex, shutdown_flag, pass,
                 wpc, locals, jpc, handles>>

SchedulerWaits(p, from, s, to) ==
  /\ spc[p] = from
  /\ SemWait(s)
  /\ spc' = [spc EXCEPT ![p] = to]
  /\ UNCHANGED <<tasks, task_count, queues, running_task_id, mutex, shutdown_flag, pass,
                 wpc, locals, jpc, handles>>

SchedulerStep(p) ==
  \/ SchedulerBoot(p)
  \/ SchedulerCheck(p)
  \/ BeginPass(p)
  \/ AllocateNext(p)
  \/ ResolveDeadlock(p)
  \/ SelectTask(p)
  \/ NothingToRun(p)
  \/ SchedulerPosts(p, "post_worker", "worker", "wait")
  \/ SchedulerWaits(p, "wait", "scheduler", "woken")
  \/ SchedulerWaits(p, "idle", "event", "top")
  \/ SchedulerPosts(p, "exit_worker", "worker", "exit_scheduler")
  \/ SchedulerPosts(p, "exit_scheduler", "scheduler", "exit_event")
  \/ SchedulerPosts(p, "exit_event", "event", "done")

--------------------------------------------------------------------------------
(* The worker process *)

(* The condition of the loop, and the same test after the wait.            *)
WorkerCheck_Once(p) ==
  /\ wpc[p] \in {"top", "woken"}
  /\ wpc' = [wpc EXCEPT ![p] = IF @ = "woken" THEN "pickup"
                               ELSE IF shutdown_flag THEN "done" ELSE "wait"]
  /\ UNCHANGED <<tasks, task_count, queues, running_task_id, mutex, sem, shutdown_flag,
                 spc, pass, locals, jpc, handles>>

WorkerCheck(p) ==
  /\ wpc[p] \in {"top", "woken"}
  /\ wpc' = [wpc EXCEPT ![p] = IF shutdown_flag THEN "done"
                               ELSE IF @ = "top" THEN "wait" ELSE "pickup"]
  /\ UNCHANGED <<tasks, task_count, queues, running_task_id, mutex, sem, shutdown_flag,
                 spc, pass, locals, jpc, handles>>

WorkerWaits(p) ==
  /\ wpc[p] = "wait"
  /\ SemWait("worker")
  /\ wpc' = [wpc EXCEPT ![p] = "woken"]
  /\ UNCHANGED <<tasks, task_count, queues, running_task_id, mutex, shutdown_flag,
                 spc, pass, locals, jpc, handles>>

(* The task is no longer assigned to a worker. *)
Released(t) ==
  /\ running_task_id' = NoTask
  /\ assigned_worker_pid' = [assigned_worker_pid EXCEPT ![t] = NoPair]

(* What finishing a task changes, at its pickup or after a quantum. *)
Finish_Keeps(t) ==
  /\ state' = [state EXCEPT ![t] = "FINISHED"]
  /\ Released(t)
  /\ UNCHANGED held

Finish(t) ==
  /\ state' = [state EXCEPT ![t] = "FINISHED"]
  /\ Released(t)
  /\ held' = [held EXCEPT ![t] = {}]

(* The task that the scheduler assigned, and may be run. *)
Assigned(t) == id[t] = running_task_id
Runnable_Unchecked(t) == Assigned(t) /\ state[t] # "FINISHED"
Runnable(t) == Assigned(t) /\ state[t] = "READY"

(* The assigned task starts to run: the worker sleeps for the slice without*)
(* the mutex.  A task with no time left is finished at once.               *)
PickupRun(p) ==
  /\ wpc[p] = "pickup" /\ mutex = Free
  /\ \E t \in Registered :
       /\ Runnable(t)
       /\ IF remaining_time[t] <= 0
          THEN /\ Finish(t)
               /\ wpc' = [wpc EXCEPT ![p] = "post_both"]
               /\ UNCHANGED locals
          ELSE /\ state' = [state EXCEPT ![t] = "RUNNING"]
               /\ assigned_worker_pid' = [assigned_worker_pid EXCEPT ![t] = p]
               /\ current' = [current EXCEPT ![p] = t]
               /\ exec_time' = [exec_time EXCEPT ![p] = IF remaining_time[t] < QUANTUM
                                                        THEN remaining_time[t] ELSE QUANTUM]
               /\ wpc' = [wpc EXCEPT ![p] = "running"]
               /\ UNCHANGED <<held, running_task_id>>
  /\ UNCHANGED <<id, base_priority, effective_priority, remaining_time, required, wait_ticks,
                 task_count, queues, mutex, sem, shutdown_flag, spc, pass, jpc, handles>>

(* The assigned task is not READY: the assignment is dropped. *)
PickupReject(p) ==
  /\ wpc[p] = "pickup" /\ mutex = Free
  /\ \E t \in Registered : Assigned(t) /\ ~Runnable(t) /\ Released(t)
  /\ wpc' = [wpc EXCEPT ![p] = "post_both"]
  /\ UNCHANGED <<id, base_priority, effective_priority, state, remaining_time, required, held,
                 wait_ticks, task_count, queues, mutex, sem, shutdown_flag, spc, pass,
                 locals, jpc, handles>>

(* No task has the assigned id. *)
PickupUnknown(p) ==
  /\ wpc[p] = "pickup" /\ mutex = Free
  /\ \A t \in Registered : ~Assigned(t)
  /\ running_task_id' = NoTask
  /\ wpc' = [wpc EXCEPT ![p] = "post"]
  /\ UNCHANGED <<tasks, task_count, queues, mutex, sem, shutdown_flag, spc, pass, locals,
                 jpc, handles>>

(* The slice is over: the task is finished, or queued again.  The worker's *)
(* locals end with this turn of its loop.                                  *)
FinishQuantum(p) ==
  /\ wpc[p] = "running" /\ mutex = Free
  /\ LET t == current[p]
         left == remaining_time[t] - exec_time[p]
     IN  /\ remaining_time' = [remaining_time EXCEPT ![t] = left]
         /\ IF left <= 0
            THEN Finish(t) /\ UNCHANGED ready_queue
            ELSE /\ state' = [state EXCEPT ![t] = "READY"]
                 /\ MakeReady(t)
                 /\ Released(t)
                 /\ UNCHANGED held
  /\ current' = [current EXCEPT ![p] = 0] /\ exec_time' = [exec_time EXCEPT ![p] = 0]
  /\ wpc' = [wpc EXCEPT ![p] = "post"]
  /\ UNCHANGED <<id, base_priority, effective_priority, required, wait_ticks, task_count,
                 blocked_queue, mutex, sem, shutdown_flag, spc, pass, jpc, handles>>

WorkerPosts(p, from, s, to) ==
  /\ wpc[p] = from
  /\ Post(s)
  /\ wpc' = [wpc EXCEPT ![p] = to]
  /\ UNCHANGED <<tasks, task_count, queues, running_task_id, mutex, shutdown_flag,
                 spc, pass, locals, jpc, handles>>

WorkerStep(p) ==
  \/ WorkerBoot(p)
  \/ WorkerCheck(p)
  \/ WorkerWaits(p)
  \/ PickupRun(p)
  \/ PickupReject(p)
  \/ PickupUnknown(p)
  \/ FinishQuantum(p)
  \/ WorkerPosts(p, "post", "scheduler", "top")
  \/ WorkerPosts(p, "post_both", "scheduler", "post_event")
  \/ WorkerPosts(p, "post_event", "event", "top")

--------------------------------------------------------------------------------
(* stop() has returned.  What a process that is still alive does with the  *)
(* destroyed mutex and semaphores is not modelled.                         *)
Closed == jpc = "closed"
Stopped == Closed /\ UNCHANGED vars

ProcessStep(p) == ~Closed /\ (SchedulerStep(p) \/ WorkerStep(p))

Next ==
  \/ \E j \in Jobs : Submit(j)
  \/ \E i \in {j.id : j \in Jobs}, priority \in ChangedPriorities : ChangePriority(i, priority)
  \/ \E p \in Pairs : Start(p)
  \/ Stop
  \/ JniContinues
  \/ \E p \in Pairs : ProcessStep(p)
  \/ Stopped

(* Every process that can take a step takes one eventually, and so does    *)
(* the JNI thread inside a call.  Nobody has to make a call.               *)
Fairness ==
  /\ WF_vars(JniContinues)
  /\ \A p \in Pairs : WF_vars(~Closed /\ SchedulerStep(p)) /\ WF_vars(~Closed /\ WorkerStep(p))

Spec == Init /\ [][Next]_vars /\ Fairness
===============================================================================
