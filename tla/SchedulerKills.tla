----------------------------- MODULE SchedulerKills -----------------------------
(***************************************************************************)
(* Module Scheduler with processes that are killed from outside: nobody    *)
(* starts them again and nobody releases what they had.  A process can be  *)
(* killed between two critical sections, and inside one, after some of the *)
(* section's stores: then the mutex stays locked for ever.  A scheduler    *)
(* can be killed between two tasks of its pass too.                        *)
(***************************************************************************)
EXTENDS SchedulerProperties

(* Between critical sections, or between two tasks of a pass: the locals   *)
(* of the process mean nothing any more.                                   *)
SchedulerDies(p) ==
  /\ spc' = [spc EXCEPT ![p] = "done"]
  /\ UNCHANGED <<id, base_priority, required, task_count, sem, shutdown_flag, pass, wpc,
                 locals, jpc, handles>>

WorkerDies(p) ==
  /\ wpc' = [wpc EXCEPT ![p] = "done"]
  /\ UNCHANGED <<id, base_priority, effective_priority, required, wait_ticks, task_count,
                 blocked_queue, sem, shutdown_flag, spc, pass, locals, jpc, handles>>

KillScheduler(p) ==
  /\ spc[p] \notin {"unborn", "done"}
  /\ SchedulerDies(p)
  /\ UNCHANGED <<tasks, queues, running_task_id, mutex>>

KillWorker(p) ==
  /\ wpc[p] \notin {"unborn", "done"}
  /\ WorkerDies(p)
  /\ UNCHANGED <<tasks, queues, running_task_id, mutex>>

--------------------------------------------------------------------------------
(* A kill inside a critical section, when n stores of the section have     *)
(* been made: the k-th of them is there or not.                            *)
Stored(n, k, new, old) == IF k <= n THEN new ELSE old

(* The mutex is made without the robust attribute: the system does not     *)
(* take it away from an owner that is gone.  (With it, the next to lock    *)
(* would get the mutex and a result, which no caller looks at.)            *)
StaysLocked_Robust(p) == mutex' = Free
StaysLocked(p) == mutex' = p

(* What queue q is while queue_remove or queue_reorder_priority empties it *)
(* from the head and then fills it with r.                                 *)
Rebuilding(q, r) == {SubSeq(q, k, Len(q)) : k \in 1 .. Len(q) + 1}
                      \cup {SubSeq(r, 1, k) : k \in 0 .. Len(r)}

(* MakeReady, cut short.                                                   *)
Queueing(t) ==
  LET q == PushTail(ready_queue, t)
  IN  Rebuilding(q, Reorder(q, effective_priority))

(* Finish, the section's stores from the k-th on. *)
FinishCut(t, n, k) ==
  /\ state' = Stored(n, k, [state EXCEPT ![t] = "FINISHED"], state)
  /\ held' = Stored(n, k + 1, [held EXCEPT ![t] = {}], held)
  /\ running_task_id' = Stored(n, k + 2, NoTask, running_task_id)
  /\ assigned_worker_pid' = Stored(n, k + 3, [assigned_worker_pid EXCEPT ![t] = NoPair],
                                   assigned_worker_pid)

(* The worker in the section in which it picks up its task: it may have    *)
(* found it and begun to run, finish or reject it.                         *)
KillInPickup(p) ==
  /\ wpc[p] = "pickup" /\ mutex = Free
  /\ \/ /\ running_task_id' \in {running_task_id, IF \E t \in Registered : Assigned(t)
                                                   THEN running_task_id ELSE NoTask}
        /\ UNCHANGED <<state, held, assigned_worker_pid>>
     \/ \E t \in Registered, n \in 1 .. 4 :
          /\ Assigned(t)
          /\ IF ~Runnable(t)
             THEN /\ running_task_id' = NoTask
                  /\ assigned_worker_pid' = Stored(n, 2, [assigned_worker_pid EXCEPT ![t] = NoPair],
                                                   assigned_worker_pid)
                  /\ UNCHANGED <<state, held>>
             ELSE IF remaining_time[t] <= 0 THEN FinishCut(t, n, 1)
             ELSE /\ state' = [state EXCEPT ![t] = "RUNNING"]
                  /\ assigned_worker_pid' = Stored(n, 2, [assigned_worker_pid EXCEPT ![t] = p],
                                                   assigned_worker_pid)
                  /\ UNCHANGED <<held, running_task_id>>
  /\ StaysLocked(p)
  /\ WorkerDies(p)
  /\ UNCHANGED <<remaining_time, ready_queue>>

(* The worker in the section after its slice: the task may be neither      *)
(* running nor queued, or the ready queue be half sorted.                  *)
KillInQuantum(p) ==
  /\ wpc[p] = "running" /\ mutex = Free
  /\ \E n \in 0 .. 5 :
       LET t == current[p]
           left == remaining_time[t] - exec_time[p]
       IN  /\ remaining_time' = Stored(n, 1, [remaining_time EXCEPT ![t] = left], remaining_time)
           /\ \/ left <= 0 /\ FinishCut(t, n, 2) /\ UNCHANGED ready_queue
              \/ /\ left > 0
                 /\ state' = Stored(n, 2, [state EXCEPT ![t] = "READY"], state)
                 /\ ready_queue' \in Stored(n, 3, Queueing(t), {ready_queue})
                 /\ n > 3 => MakeReady(t)
                 /\ running_task_id' = Stored(n, 4, NoTask, running_task_id)
                 /\ assigned_worker_pid' = Stored(n, 5, [assigned_worker_pid EXCEPT ![t] = NoPair],
                                                  assigned_worker_pid)
                 /\ UNCHANGED held
  /\ StaysLocked(p)
  /\ WorkerDies(p)

(* The scheduler between the tasks of a pass is KillScheduler; here it has *)
(* taken the head of the blocked queue out and has not put it back.        *)
KillInAllocation(p) ==
  /\ spc[p] = "pass" /\ blocked_left > 0
  /\ \E n \in 1 .. 4 :
       LET t == Head(blocked_queue)
           got == held[t] \cup Granted(t)
           ready == got = required[t]
       IN  /\ ~Terminal(t)
           /\ held' = Stored(n, 2, [held EXCEPT ![t] = got], held)
           /\ state' = Stored(n, 3, [state EXCEPT ![t] = IF ready THEN "READY" ELSE "BLOCKED"],
                              state)
           /\ ready_queue' \in Stored(n, 4, IF ready THEN Queueing(t) ELSE {ready_queue},
                                      {ready_queue})
           /\ blocked_queue' = IF n = 4 /\ ~ready THEN PushTail(Tail(blocked_queue), t)
                                                 ELSE Tail(blocked_queue)
  /\ StaysLocked(p)
  /\ SchedulerDies(p)
  /\ UNCHANGED <<effective_priority, remaining_time, wait_ticks, assigned_worker_pid,
                 running_task_id>>

(* The scheduler while it aborts a victim. *)
KillInAbort(p) ==
  /\ spc[p] = "pass" /\ blocked_left = 0
  /\ \E c \in WaitCycles : \E v \in Victims(c), n \in 1 .. 6 :
       /\ state' = [state EXCEPT ![v] = "DEADLOCK_ABORTED"]
       /\ held' = Stored(n, 2, [held EXCEPT ![v] = {}], held)
       /\ assigned_worker_pid' = Stored(n, 3, [assigned_worker_pid EXCEPT ![v] = NoPair],
                                        assigned_worker_pid)
       /\ remaining_time' = Stored(n, 4, [remaining_time EXCEPT ![v] = 0], remaining_time)
       /\ blocked_queue' \in Stored(n, 5, Rebuilding(blocked_queue, RemoveTask(blocked_queue, v)),
                                    {blocked_queue})
       /\ n = 6 => blocked_queue' = RemoveTask(blocked_queue, v)
       /\ ready_queue' \in Stored(n, 6, Rebuilding(ready_queue, RemoveTask(ready_queue, v)),
                                  {ready_queue})
  /\ StaysLocked(p)
  /\ SchedulerDies(p)
  /\ UNCHANGED <<effective_priority, wait_ticks, running_task_id>>

(* The scheduler while it ages the ready queue, sorts it and hands over    *)
(* its head: with the first m tasks aged, or with all of them and n of the *)
(* later stores.                                                           *)
KillInSelection(p) ==
  /\ spc[p] = "pass" /\ blocked_left = 0 /\ WaitCycles = {}
  /\ ready_queue # <<>>
  /\ \E m \in 0 .. Len(ready_queue), n \in 0 .. 5 :
       LET done == {ready_queue[k] : k \in 1 .. m}
           t == Head(AgedQueue)
       IN  /\ n > 0 => m = Len(ready_queue)
           /\ wait_ticks' = [u \in Idx |-> IF u = t /\ n > 2 THEN 0
                                          ELSE IF u \in done THEN AgedTicks[u] ELSE wait_ticks[u]]
           /\ effective_priority' =
                [u \in Idx |-> IF u = t /\ n > 3 THEN base_priority[u]
                               ELSE IF u \in done THEN AgedPriority[u] ELSE effective_priority[u]]
           /\ ready_queue' \in IF n = 0 THEN {ready_queue}
                               ELSE IF n = 1 THEN Rebuilding(ready_queue, AgedQueue)
                               ELSE {Tail(AgedQueue)}
           /\ running_task_id' = Stored(n, 5, id[t], running_task_id)
  /\ StaysLocked(p)
  /\ SchedulerDies(p)
  /\ UNCHANGED <<state, remaining_time, held, assigned_worker_pid, blocked_queue>>

--------------------------------------------------------------------------------
Kill(p) ==
  \/ KillScheduler(p)
  \/ KillInAllocation(p)
  \/ KillInAbort(p)
  \/ KillInSelection(p)
  \/ KillWorker(p)
  \/ KillInPickup(p)
  \/ KillInQuantum(p)

KillsNext == Next \/ \E p \in Pairs : ~Closed /\ Kill(p)

KillsSpec == Init /\ [][KillsNext]_vars /\ Fairness

--------------------------------------------------------------------------------
(* A process that gets the mutex never sees what a killed one has left     *)
(* half done: while the mutex is free, no resource is held twice, what a   *)
(* task holds fits its state, and every task but the one that was handed   *)
(* out is in the queue that its state says.                                *)
UnlockedIsSound ==
  mutex = Free => ResourceExclusive /\ HoldsWhatStateSays /\ QueuedWhereStateSays

(* With one pair, no process is stuck, whoever was killed and in whatever  *)
(* step: the mutex is free when a process wants it, and while stop() waits,*)
(* there is a token in every semaphore at which a process still sleeps.    *)
NobodyStuck ==
  \A p \in Pairs :
    /\ spc[p] = "lock" \/ wpc[p] \in {"pickup", "running"} => mutex = Free
    /\ jpc \in {"join_scheduler", "join_worker"} =>
         /\ wpc[p] = "wait" => sem["worker"] > 0
         /\ spc[p] = "wait" => sem["scheduler"] > 0
         /\ spc[p] = "idle" => sem["event"] > 0
===============================================================================
