---------------------------- MODULE SchedulerProofs ----------------------------
(***************************************************************************)
(* Proofs, for every value of the constants and any number of pairs, that  *)
(* the scheduler keeps the inductive invariant SafeInv.                       *)
(*                                                                         *)
(* Most steps move one process and touch no task and no queue (Quiet       *)
(* below); each part of SoundInv is then proved for those steps at once and    *)
(* for each of the other actions, the ones that change data.               *)
(***************************************************************************)
EXTENDS SchedulerKills, QueueLemmas

--------------------------------------------------------------------------------
(* The steps that change neither tasks nor queues, and neither begin nor   *)
(* end a pass or a time slice.                                             *)
Quiet ==
  /\ UNCHANGED <<tasks, task_count, queues, running_task_id, mutex, pass, locals>>
  /\ \A p \in Pairs : /\ spc'[p] = "pass" <=> spc[p] = "pass"
                      /\ wpc'[p] = "running" <=> wpc[p] = "running"

(* The actions that change data. *)
DataStep ==
  \/ \E j \in Jobs : Submit(j)
  \/ \E i \in Int, priority \in ChangedPriorities : ChangePriority(i, priority)
  \/ \E p \in Pairs :
       \/ BeginPass(p) \/ AllocateNext(p) \/ ResolveDeadlock(p)
       \/ SelectTask(p) \/ NothingToRun(p)
       \/ PickupRun(p) \/ PickupReject(p) \/ PickupUnknown(p) \/ FinishQuantum(p)

(* Every step either is quiet or is one of the actions that change data.   *)
LEMMA QuietOrData ==
  ASSUME ControlTypeOK, [Next]_vars
  PROVE  Quiet \/ DataStep
<1>. USE DEF ControlTypeOK, vars, tasks, queues, pass, locals, handles
<1>1. CASE UNCHANGED vars
  BY <1>1 DEF Quiet
<1>2. CASE \E i \in {j.id : j \in Jobs}, priority \in ChangedPriorities :
             ChangePriority(i, priority)
  <2>1. {j.id : j \in Jobs} \subseteq Int
    BY JobsAssumption, NumbersAssumption DEF Int32
  <2>. QED
    BY <1>2, <2>1 DEF DataStep
<1>3. CASE \E p \in Pairs : Start(p)
  <2>. SUFFICES ASSUME NEW p \in Pairs, Start(p)
                PROVE  Quiet
    BY <1>3
  <2>1. PICK s, w \in {"boot", "done"} : spc' = [spc EXCEPT ![p] = s]
                                        /\ wpc' = [wpc EXCEPT ![p] = w]
    BY DEF Start, Forked
  <2>. QED
    BY <2>1 DEF Start, Quiet
<1>4. CASE Stop \/ JniContinues
  BY <1>4 DEF Stop, JniContinues, Notify, StopPost, JoinScheduler, JoinWorker, Quiet
<1>5. ASSUME NEW p \in Pairs, SchedulerStep(p)
      PROVE  Quiet \/ DataStep
  <2>1. CASE SchedulerBoot(p)
    BY <2>1 DEF SchedulerBoot, Attached, Quiet
  <2>2. CASE SchedulerCheck(p)
    BY <2>2 DEF SchedulerCheck, Quiet
  <2>3. ASSUME NEW from, NEW s, NEW to, from # "pass", to # "pass",
               SchedulerPosts(p, from, s, to) \/ SchedulerWaits(p, from, s, to)
        PROVE  Quiet
    BY <2>3 DEF SchedulerPosts, SchedulerWaits, Quiet
  <2>. QED
    BY <1>5, <2>1, <2>2, <2>3 DEF SchedulerStep, DataStep
<1>6. ASSUME NEW p \in Pairs, WorkerStep(p)
      PROVE  Quiet \/ DataStep
  <2>1. CASE WorkerBoot(p)
    BY <2>1 DEF WorkerBoot, Attached, Quiet
  <2>2. CASE WorkerCheck(p)
    BY <2>2 DEF WorkerCheck, Quiet
  <2>3. CASE WorkerWaits(p)
    BY <2>3 DEF WorkerWaits, Quiet
  <2>4. ASSUME NEW from, NEW s, NEW to, from # "running", to # "running",
               WorkerPosts(p, from, s, to)
        PROVE  Quiet
    BY <2>4 DEF WorkerPosts, Quiet
  <2>. QED
    BY <1>6, <2>1, <2>2, <2>3, <2>4 DEF WorkerStep, DataStep
<1>. QED
  BY <1>1, <1>2, <1>3, <1>4, <1>5, <1>6 DEF Next, Stopped, ProcessStep, DataStep

LEMMA StepIsQuietOrData ==
  ASSUME TypeOK, [Next]_vars
  PROVE  Quiet \/ DataStep
BY QuietOrData DEF TypeOK

(* The mutex is lost: its owner has been killed in a critical section.     *)
Abandoned == mutex # Free /\ \A p \in Pairs : spc[p] # "pass"

--------------------------------------------------------------------------------
(* Facts about types that every step below uses. *)
LEMMA Numbers ==
  /\ MAX_TASKS \in Nat /\ MAX_TASKS > 0
  /\ Int32 \subseteq Int /\ 0 \in Int32
  /\ \A x \in Int32 : Increment(x) \in Int32
BY MaxTasksAssumption, NumbersAssumption DEF Int32, Increment

LEMMA RegisteredTasks ==
  ASSUME TypeOK
  PROVE  /\ task_count \in Nat /\ task_count <= MAX_TASKS
         /\ Registered \subseteq Idx /\ Idx \subseteq Nat
         /\ \A t \in Registered : /\ effective_priority[t] \in Int32
                                  /\ effective_priority[t] \in Int
                                  /\ base_priority[t] \in Int32
<1>1. task_count \in Nat /\ task_count <= MAX_TASKS
  BY Numbers DEF TypeOK, QueuesTypeOK
<1>2. Registered \subseteq Idx /\ Idx \subseteq Nat
  BY <1>1, Numbers DEF Registered, Idx
<1>3. \A t \in Idx : effective_priority[t] \in Int32 /\ base_priority[t] \in Int32
  BY DEF TypeOK, TasksTypeOK
<1>. QED
  BY <1>1, <1>2, <1>3, Numbers

(* A queue of tasks without repetitions has room for every task.           *)
LEMMA QueueHasRoom ==
  ASSUME TypeOK, NEW q \in Seq(Registered), NoRepeats(q)
  PROVE  Len(q) \in Nat /\ Len(q) <= task_count
BY RegisteredTasks, LengthBound, LenProperties DEF Registered

(* A pass that has tasks left to examine finds the next one in the queue.  *)
LEMMA PassHasTask ==
  ASSUME TypeOK, PassHasMutex, NEW p \in Pairs, spc[p] = "pass", blocked_left > 0
  PROVE  /\ blocked_queue \in Seq(Registered) /\ blocked_queue # <<>>
         /\ Head(blocked_queue) \in Registered
         /\ blocked_left <= Len(blocked_queue) /\ Len(blocked_queue) \in Nat
<1>1. blocked_left \in Nat /\ blocked_queue \in Seq(Registered) /\ Len(blocked_queue) \in Nat
  BY LenProperties DEF TypeOK, ControlTypeOK, QueuesTypeOK
<1>2. mutex = p /\ p # Free
  BY PairsAssumption DEF PassHasMutex
<1>3. blocked_left <= Len(blocked_queue)
  BY <1>2 DEF PassHasMutex
<1>4. blocked_queue # <<>>
  BY <1>1, <1>3, EmptySeq
<1>. QED
  BY <1>1, <1>3, <1>4, HeadTailProperties

(* No step takes a process, a semaphore or the mutex out of its type.      *)
LEMMA ControlTypeStep ==
  ASSUME ControlTypeOK, (TypeOK /\ PassHasMutex) \/ Abandoned, [Next]_vars
  PROVE  ControlTypeOK'
<1>. USE DEF ControlTypeOK
<1>1. CASE UNCHANGED vars
  BY <1>1 DEF vars, pass, locals, handles
<1>2. ASSUME NEW j \in Jobs, Submit(j) PROVE ControlTypeOK'
  BY <1>2 DEF Submit, JniSteps, pass, locals, handles
<1>3. ASSUME NEW i, NEW priority, ChangePriority(i, priority) PROVE ControlTypeOK'
  BY <1>3 DEF ChangePriority, JniSteps, pass, locals, handles
<1>4. ASSUME NEW p \in Pairs, Start(p) PROVE ControlTypeOK'
  <2>1. PICK s, w \in {"boot", "done"} : /\ spc' = [spc EXCEPT ![p] = s]
                                         /\ wpc' = [wpc EXCEPT ![p] = w]
                                         /\ scheduler_pid' \in {p, NoPair}
                                         /\ worker_pid' \in {p, NoPair}
    BY <1>4 DEF Start, Forked
  <2>. QED
    BY <1>4, <2>1 DEF Start, SchedulerSteps, WorkerSteps, pass, locals
<1>5. CASE Stop \/ JniContinues
  <2>. USE DEF JniSteps, pass, locals, handles
  <2>1. CASE Stop
    BY <2>1 DEF Stop
  <2>2. CASE Notify
    BY <2>2 DEF Notify, Notified, Post, Semaphores
  <2>3. ASSUME NEW from, NEW s \in Semaphores, NEW to \in JniSteps, StopPost(from, s, to)
        PROVE  ControlTypeOK'
    BY <2>3 DEF StopPost, Post
  <2>4. CASE JoinScheduler
    BY <2>4 DEF JoinScheduler
  <2>5. CASE JoinWorker
    BY <2>5 DEF JoinWorker
  <2>. QED
    BY <1>5, <2>1, <2>2, <2>3, <2>4, <2>5 DEF JniContinues, Semaphores
<1>6. ASSUME NEW p \in Pairs, SchedulerStep(p) PROVE ControlTypeOK'
  <2>. USE DEF SchedulerSteps, locals, handles
  <2>1. CASE SchedulerBoot(p)
    BY <2>1 DEF SchedulerBoot, Attached, pass
  <2>2. CASE SchedulerCheck(p)
    BY <2>2 DEF SchedulerCheck, pass
  <2>3. CASE BeginPass(p)
    <3>0. TypeOK
      BY <2>3 DEF BeginPass, Abandoned
    <3>. USE <3>0 DEF TypeOK
    <3>1. UNION {HeldByLive[t] : t \in Registered} \subseteq Resources
      <4>1. \A t \in Registered : HeldByLive[t] \subseteq Resources
        BY RegisteredTasks DEF HeldByLive, TasksTypeOK
      <4>. QED
        BY <4>1
    <3>2. Len(blocked_queue) \in Nat
      BY LenProperties DEF QueuesTypeOK
    <3>. QED
      BY <2>3, <3>1, <3>2 DEF BeginPass
  <2>4. CASE AllocateNext(p)
    <3>0. TypeOK /\ PassHasMutex
      BY <2>4 DEF AllocateNext, Abandoned
    <3>. USE <3>0 DEF TypeOK
    <3>1. blocked_left' \in Nat
      BY <2>4 DEF AllocateNext
    <3>2. globally_held' \subseteq Resources
      <4>1. Head(blocked_queue) \in Idx
        BY <2>4, PassHasTask, RegisteredTasks DEF AllocateNext
      <4>2. Granted(Head(blocked_queue)) \subseteq Resources
        BY <4>1 DEF Granted, TasksTypeOK
      <4>. QED
        BY <2>4, <4>2 DEF AllocateNext, Allocate, DropTerminal
    <3>3. allocation_progress' \in BOOLEAN
      BY <2>4 DEF AllocateNext, Allocate, DropTerminal
    <3>. QED
      BY <2>4, <3>1, <3>2, <3>3 DEF AllocateNext
  <2>5. CASE ResolveDeadlock(p)
    BY <2>5 DEF ResolveDeadlock, Abort
  <2>6. CASE SelectTask(p)
    BY <2>6 DEF SelectTask, HandOver, ReleasePass
  <2>7. CASE NothingToRun(p)
    BY <2>7 DEF NothingToRun, GoIdle, ReleasePass, AfterIdlePass
  <2>8. ASSUME NEW from, NEW s \in Semaphores, NEW to \in SchedulerSteps,
               SchedulerPosts(p, from, s, to) \/ SchedulerWaits(p, from, s, to)
        PROVE  ControlTypeOK'
    BY <2>8 DEF SchedulerPosts, SchedulerWaits, Post, SemWait, pass
  <2>. QED
    BY <1>6, <2>1, <2>2, <2>3, <2>4, <2>5, <2>6, <2>7, <2>8 DEF SchedulerStep, Semaphores
<1>7. ASSUME NEW p \in Pairs, WorkerStep(p) PROVE ControlTypeOK'
  <2>. USE DEF WorkerSteps, pass, handles
  <2>1. CASE WorkerBoot(p) \/ WorkerCheck(p)
    BY <2>1 DEF WorkerBoot, WorkerCheck, Attached, locals
  <2>2. CASE WorkerWaits(p)
    BY <2>2 DEF WorkerWaits, SemWait, Semaphores, locals
  <2>3. CASE PickupRun(p)
    <3>0. TypeOK
      BY <2>3 DEF PickupRun, Abandoned
    <3>. USE <3>0 DEF TypeOK
    <3>1. PICK t \in Registered :
            \/ UNCHANGED locals /\ wpc' = [wpc EXCEPT ![p] = "post_both"]
            \/ /\ current' = [current EXCEPT ![p] = t]
               /\ exec_time' = [exec_time EXCEPT ![p] = IF remaining_time[t] < QUANTUM
                                                        THEN remaining_time[t] ELSE QUANTUM]
               /\ wpc' = [wpc EXCEPT ![p] = "running"]
      BY <2>3 DEF PickupRun
    <3>2. t \in Idx /\ remaining_time[t] \in Int /\ QUANTUM \in Int
      BY RegisteredTasks, NumbersAssumption DEF TasksTypeOK
    <3>. QED
      BY <2>3, <3>1, <3>2 DEF PickupRun, locals
  <2>4. CASE PickupReject(p) \/ PickupUnknown(p)
    BY <2>4 DEF PickupReject, PickupUnknown, locals
  <2>5. CASE FinishQuantum(p)
    <3>1. 0 \in Idx
      BY Numbers DEF Idx
    <3>. QED
      BY <2>5, <3>1 DEF FinishQuantum
  <2>6. ASSUME NEW from, NEW s \in Semaphores, NEW to \in WorkerSteps,
               WorkerPosts(p, from, s, to)
        PROVE  ControlTypeOK'
    BY <2>6 DEF WorkerPosts, Post, locals
  <2>. QED
    BY <1>7, <2>1, <2>2, <2>3, <2>4, <2>5, <2>6 DEF WorkerStep, Semaphores
<1>. QED
  BY <1>1, <1>2, <1>3, <1>4, <1>5, <1>6, <1>7 DEF Next, Stopped, ProcessStep

--------------------------------------------------------------------------------
(* SoundInv is inductive: one lemma for the quiet steps and one for each       *)
(* action that changes data.                                               *)

LEMMA QuietStep ==
  ASSUME SoundInv, ControlTypeOK', Quiet
  PROVE  SoundInv'
<1>. USE DEF SoundInv, Quiet, tasks, queues, pass, locals
<1>1. TypeOK'
  BY DEF TypeOK, TasksTypeOK, QueuesTypeOK, Registered
<1>2. PassHasMutex'
  BY DEF PassHasMutex, Registered
<1>3. ResourceExclusive' /\ HoldsWhatStateSays' /\ QueuedWhereStateSays' /\ ReadySorted'
  BY DEF ResourceExclusive, HoldsWhatStateSays, Terminal, QueuedWhereStateSays, ReadySorted,
         Registered
<1>4. RunningIsRegistered' /\ RunsApart'
  BY DEF RunningIsRegistered, RunsApart, Registered
<1>. QED
  BY <1>1, <1>2, <1>3, <1>4

(* submitTask: the new task is not known to any queue or process.          *)
LEMMA SubmitStep ==
  ASSUME SoundInv, ControlTypeOK', NEW j \in Jobs, Submit(j)
  PROVE  SoundInv'
<1>. DEFINE t == task_count
            ready == j.required = {}
<1>1. /\ j.id \in Int /\ j.priority \in Int32 /\ j.time \in Int /\ j.required \subseteq Resources
  BY JobsAssumption, Numbers
<1>2. /\ t \in Idx /\ t \notin Registered /\ t \in Registered'
      /\ Registered' = Registered \cup {t}
      /\ Registered \subseteq Idx /\ task_count' \in 0 .. MAX_TASKS
  BY RegisteredTasks, Numbers DEF SoundInv, Submit, Acceptable, Registered, Idx
<1>3. /\ id' = [id EXCEPT ![t] = j.id]
      /\ base_priority' = [base_priority EXCEPT ![t] = j.priority]
      /\ effective_priority' = [effective_priority EXCEPT ![t] = j.priority]
      /\ state' = [state EXCEPT ![t] = IF ready THEN "READY" ELSE "NEW"]
      /\ remaining_time' = [remaining_time EXCEPT ![t] = j.time]
      /\ required' = [required EXCEPT ![t] = j.required]
      /\ held' = [held EXCEPT ![t] = {}]
      /\ wait_ticks' = [wait_ticks EXCEPT ![t] = 0]
      /\ assigned_worker_pid' = [assigned_worker_pid EXCEPT ![t] = NoPair]
      /\ ready_queue' = IF ready THEN Reorder(PushTail(ready_queue, t), effective_priority')
                                 ELSE ready_queue
      /\ blocked_queue' = IF ready THEN blocked_queue ELSE PushTail(blocked_queue, t)
      /\ UNCHANGED <<running_task_id, mutex, spc, wpc, current>>
  BY DEF Submit, locals
<1>4. TasksTypeOK'
  BY <1>1, <1>2, <1>3 DEF SoundInv, TypeOK, TasksTypeOK, TaskStates
<1>5. /\ ready_queue \in Seq(Registered') /\ blocked_queue \in Seq(Registered')
      /\ Range(ready_queue) \subseteq Registered /\ Range(blocked_queue) \subseteq Registered
      /\ \A u \in Registered' : effective_priority'[u] \in Int
  <2>1. ready_queue \in Seq(Registered) /\ blocked_queue \in Seq(Registered)
    BY DEF SoundInv, TypeOK, QueuesTypeOK
  <2>2. \A u \in Idx : effective_priority'[u] \in Int
    BY <1>4, Numbers DEF TasksTypeOK
  <2>. QED
    BY <2>1, <2>2, <1>2, SeqMonotonic, RangeIsImage
<1>6. /\ ready_queue' \in Seq(Registered')
      /\ Range(ready_queue) \subseteq Range(ready_queue')
      /\ Range(ready_queue') \subseteq Range(ready_queue) \cup (IF ready THEN {t} ELSE {})
      /\ NoRepeats(ready_queue')
      /\ SortedBy(ready_queue', effective_priority')
  <2>1. NoRepeats(ready_queue) /\ SortedBy(ready_queue, effective_priority)
    BY DEF SoundInv, QueuedWhereStateSays, ReadySorted
  <2>2. CASE ready
    <3>. DEFINE eff == effective_priority'
                r == Reorder(PushTail(ready_queue, t), eff)
    <3>1. /\ ready_queue \in Seq(Registered') /\ t \in Registered'
          /\ \A u \in Registered' : eff[u] \in Int
      BY <1>2, <1>5
    <3>2. ready_queue' = r
      BY <2>2, <1>3
    <3>. HIDE DEF eff, t
    <3>3. /\ r \in Seq(Registered')
          /\ Range(ready_queue) \subseteq Range(r) /\ Range(r) \subseteq Range(ready_queue) \cup {t}
          /\ NoRepeats(ready_queue) => NoRepeats(r)
          /\ SortedBy(r, eff)
      BY <3>1, PushSortedProperties
    <3>. QED
      BY <3>2, <3>3, <2>1, <2>2 DEF eff
  <2>3. CASE ~ready
    <3>1. \A u \in Range(ready_queue) : effective_priority'[u] = effective_priority[u]
      BY <1>2, <1>3, <1>5 DEF SoundInv, TypeOK, TasksTypeOK
    <3>2. SortedBy(ready_queue, effective_priority')
      BY <3>1, <2>1, <1>5, SortedCongruence
    <3>. QED
      BY <3>2, <2>1, <2>3, <1>3, <1>5
  <2>. QED
    BY <2>2, <2>3
<1>7. /\ blocked_queue' \in Seq(Registered')
      /\ Range(blocked_queue') = Range(blocked_queue) \cup (IF ready THEN {} ELSE {t})
      /\ NoRepeats(blocked_queue')
  <2>1. NoRepeats(blocked_queue) /\ blocked_queue \in Seq(Registered)
    BY DEF SoundInv, QueuedWhereStateSays, TypeOK, QueuesTypeOK
  <2>2. Len(blocked_queue) < MAX_TASKS
    BY <2>1, QueueHasRoom, RegisteredTasks, Numbers DEF SoundInv, Submit, Acceptable
  <2>. QED
    BY <2>1, <2>2, <1>2, <1>3, <1>5, PushTailProperties
<1>8. TypeOK'
  BY <1>2, <1>3, <1>4, <1>6, <1>7 DEF SoundInv, TypeOK, QueuesTypeOK
<1>9. PassHasMutex'
  BY <1>3 DEF SoundInv, PassHasMutex, Submit
<1>10. ResourceExclusive'
  BY <1>2, <1>3 DEF SoundInv, ResourceExclusive, TypeOK, TasksTypeOK
<1>11. HoldsWhatStateSays'
  BY <1>2, <1>3 DEF SoundInv, HoldsWhatStateSays, Terminal, TypeOK, TasksTypeOK
<1>12. QueuedWhereStateSays'
  <2>1. \A u \in Registered : state'[u] = state[u]
    BY <1>2, <1>3 DEF SoundInv, TypeOK, TasksTypeOK
  <2>2. state'[t] = IF ready THEN "READY" ELSE "NEW"
    BY <1>2, <1>3 DEF SoundInv, TypeOK, TasksTypeOK
  <2>3. \A u \in Registered' : state'[u] \in {"NEW", "BLOCKED"} <=> u \in Range(blocked_queue')
    BY <2>1, <2>2, <1>2, <1>5, <1>7 DEF SoundInv, QueuedWhereStateSays
  <2>4. \A u \in Range(ready_queue') : state'[u] = "READY"
    BY <2>1, <2>2, <1>5, <1>6 DEF SoundInv, QueuedWhereStateSays
  <2>. QED
    BY <2>3, <2>4, <1>6, <1>7 DEF QueuedWhereStateSays
<1>13. RunningIsRegistered' /\ RunsApart'
  BY <1>2, <1>3 DEF SoundInv, RunningIsRegistered, RunsApart, TypeOK, TasksTypeOK
<1>14. ReadySorted'
  BY <1>6 DEF ReadySorted
<1>. QED
  BY <1>8, <1>9, <1>10, <1>11, <1>12, <1>13, <1>14 DEF SoundInv

(* changePriority: a queued task moves to the place of its new priority.   *)
LEMMA ChangePriorityStep ==
  ASSUME SoundInv, ControlTypeOK', NEW i \in Int, NEW priority \in ChangedPriorities,
         ChangePriority(i, priority)
  PROVE  SoundInv'
<1>. DEFINE Hit == {t \in Registered : id[t] = i}
            eff == [t \in Idx |-> IF t \in Hit THEN priority ELSE effective_priority[t]]
<1>1. /\ base_priority' = [t \in Idx |-> IF t \in Hit THEN priority ELSE base_priority[t]]
      /\ effective_priority' = eff
      /\ wait_ticks' = [t \in Idx |-> IF t \in Hit THEN 0 ELSE wait_ticks[t]]
      /\ ready_queue' = IF Hit \cap Range(ready_queue) # {}
                        THEN Reorder(ready_queue, eff) ELSE ready_queue
      /\ UNCHANGED <<id, state, remaining_time, required, held, assigned_worker_pid, task_count,
                     blocked_queue, running_task_id, mutex, spc, wpc, current,
                     blocked_left, globally_held>>
  BY DEF ChangePriority, locals, pass
<1>2. priority \in Int32 /\ Registered \subseteq Idx /\ Registered' = Registered
  BY <1>1, ChangedPrioritiesAssumption, RegisteredTasks DEF SoundInv, Registered
<1>3. eff \in [Idx -> Int32]
  BY <1>2 DEF SoundInv, TypeOK, TasksTypeOK
<1>4. TasksTypeOK'
  BY <1>1, <1>2, <1>3 DEF SoundInv, TypeOK, TasksTypeOK
<1>. HIDE DEF eff
<1>5. /\ ready_queue' \in Seq(Registered)
      /\ Range(ready_queue') = Range(ready_queue)
      /\ NoRepeats(ready_queue')
      /\ SortedBy(ready_queue', eff)
  <2>1. /\ ready_queue \in Seq(Registered) /\ NoRepeats(ready_queue)
        /\ SortedBy(ready_queue, effective_priority)
    BY DEF SoundInv, TypeOK, QueuesTypeOK, QueuedWhereStateSays, ReadySorted
  <2>2. \A u \in Registered : eff[u] \in Int
    BY <1>2, <1>3, Numbers
  <2>3. CASE Hit \cap Range(ready_queue) # {}
    BY <2>1, <2>2, <2>3, <1>1, ReorderProperties
  <2>4. CASE Hit \cap Range(ready_queue) = {}
    <3>1. \A u \in Range(ready_queue) : effective_priority[u] = eff[u]
      BY <2>1, <2>4, <1>2, RangeIsImage DEF eff
    <3>. QED
      BY <3>1, <2>1, <2>4, <1>1, SortedCongruence
  <2>. QED
    BY <2>3, <2>4
<1>6. TypeOK'
  BY <1>1, <1>2, <1>4, <1>5 DEF SoundInv, TypeOK, QueuesTypeOK
<1>7. PassHasMutex' /\ ResourceExclusive' /\ HoldsWhatStateSays'
  BY <1>1, <1>2 DEF SoundInv, PassHasMutex, ResourceExclusive, HoldsWhatStateSays, Terminal
<1>8. QueuedWhereStateSays'
  BY <1>1, <1>2, <1>5 DEF SoundInv, QueuedWhereStateSays
<1>9. RunningIsRegistered' /\ RunsApart'
  BY <1>1, <1>2 DEF SoundInv, RunningIsRegistered, RunsApart
<1>10. ReadySorted'
  BY <1>1, <1>5 DEF ReadySorted
<1>. QED
  BY <1>6, <1>7, <1>8, <1>9, <1>10 DEF SoundInv

(* Terminal tasks hold nothing already, so clearing them changes nothing.  *)
LEMMA HeldByLiveIsHeld ==
  ASSUME SoundInv
  PROVE  HeldByLive = held
<1>1. \A t \in Idx : HeldByLive[t] = held[t]
  BY RegisteredTasks DEF SoundInv, HoldsWhatStateSays, HeldByLive
<1>. QED
  BY <1>1 DEF HeldByLive, SoundInv, TypeOK, TasksTypeOK

(* A pass begins: the mutex and the locals of the pass. *)
LEMMA BeginPassStep ==
  ASSUME SoundInv, ControlTypeOK', NEW p \in Pairs, BeginPass(p)
  PROVE  SoundInv'
<1>1. /\ spc[p] = "lock" /\ mutex = Free /\ mutex' = p
      /\ spc' = [spc EXCEPT ![p] = "pass"]
      /\ held' = held
      /\ globally_held' = UNION {held[t] : t \in Registered}
      /\ blocked_left' = Len(blocked_queue)
      /\ UNCHANGED <<id, base_priority, effective_priority, state, remaining_time, required,
                     wait_ticks, assigned_worker_pid, task_count, ready_queue, blocked_queue,
                     running_task_id, wpc, current>>
      /\ Registered' = Registered
  BY HeldByLiveIsHeld DEF BeginPass, queues, locals, Registered
<1>2. TypeOK'
  BY <1>1 DEF SoundInv, TypeOK, TasksTypeOK, QueuesTypeOK
<1>3. PassHasMutex'
  <2>1. \A q \in Pairs : spc'[q] = "pass" <=> mutex' = q
    BY <1>1, PairsAssumption DEF SoundInv, PassHasMutex, TypeOK, ControlTypeOK
  <2>2. blocked_left' <= Len(blocked_queue')
    BY <1>1, LenProperties DEF SoundInv, TypeOK, QueuesTypeOK
  <2>3. \A t \in Registered' : held'[t] \subseteq globally_held'
    BY <1>1
  <2>. QED
    BY <2>1, <2>2, <2>3 DEF PassHasMutex
<1>4. ResourceExclusive' /\ HoldsWhatStateSays' /\ QueuedWhereStateSays' /\ ReadySorted'
  BY <1>1 DEF SoundInv, ResourceExclusive, HoldsWhatStateSays, Terminal, QueuedWhereStateSays,
              ReadySorted
<1>5. RunningIsRegistered' /\ RunsApart'
  BY <1>1 DEF SoundInv, RunningIsRegistered, RunsApart
<1>. QED
  BY <1>2, <1>3, <1>4, <1>5 DEF SoundInv

(* One task of the blocked queue is examined.  It is NEW or BLOCKED, so it *)
(* is granted a resource that nobody holds, and leaves the queue only with *)
(* all that it requires.                                                   *)
LEMMA AllocateNextStep ==
  ASSUME SoundInv, ControlTypeOK', NEW p \in Pairs, AllocateNext(p)
  PROVE  SoundInv'
<1>. DEFINE t == Head(blocked_queue)
            rest == Tail(blocked_queue)
            got == held[t] \cup Granted(t)
            complete == required[t] \subseteq held[t] \/ got = required[t]
<1>1. /\ spc[p] = "pass" /\ mutex = p /\ mutex # Free
      /\ t \in Registered /\ t \in Idx /\ Registered \subseteq Idx
      /\ blocked_queue \in Seq(Registered) /\ blocked_queue # <<>>
      /\ blocked_left <= Len(blocked_queue) /\ Len(blocked_queue) \in Nat
      /\ Len(blocked_queue) <= MAX_TASKS
  <2>1. spc[p] = "pass" /\ blocked_left > 0
    BY DEF AllocateNext
  <2>2. mutex = p /\ mutex # Free
    BY <2>1, PairsAssumption DEF SoundInv, PassHasMutex
  <2>3. Len(blocked_queue) <= task_count
    BY QueueHasRoom DEF SoundInv, TypeOK, QueuesTypeOK, QueuedWhereStateSays
  <2>. QED
    BY <2>1, <2>2, <2>3, PassHasTask, RegisteredTasks, Numbers DEF SoundInv
<1>2. /\ rest \in Seq(Registered) /\ Len(rest) = Len(blocked_queue) - 1
      /\ Range(blocked_queue) = Range(rest) \cup {t}
      /\ NoRepeats(rest) /\ t \notin Range(rest)
  BY <1>1, TailProperties DEF SoundInv, QueuedWhereStateSays
<1>3. state[t] \in {"NEW", "BLOCKED"}
  BY <1>1, <1>2 DEF SoundInv, QueuedWhereStateSays
<1>4. /\ held' = [held EXCEPT ![t] = got]
      /\ globally_held' = globally_held \cup Granted(t)
      /\ state' = [state EXCEPT ![t] = IF complete THEN "READY" ELSE "BLOCKED"]
      /\ blocked_queue' = IF complete THEN rest ELSE PushTail(rest, t)
      /\ ready_queue' = IF complete THEN Reorder(PushTail(ready_queue, t), effective_priority)
                                    ELSE ready_queue
      /\ blocked_left' = blocked_left - 1
      /\ UNCHANGED <<id, base_priority, effective_priority, remaining_time, required,
                     wait_ticks, assigned_worker_pid, task_count, running_task_id, mutex,
                     spc, wpc, current>>
      /\ Registered' = Registered
  BY <1>3 DEF AllocateNext, Allocate, Terminal, MakeReady, locals, Registered
<1>5. /\ held[t] \subseteq required[t] /\ Granted(t) \subseteq required[t]
      /\ Granted(t) \cap globally_held = {}
      /\ \A u \in Registered : held[u] \subseteq globally_held
      /\ required[t] \subseteq Resources
  <2>1. held[t] \subseteq required[t]
    BY <1>1, <1>3 DEF SoundInv, HoldsWhatStateSays
  <2>2. required[t] \subseteq Resources
    BY <1>1 DEF SoundInv, TypeOK, TasksTypeOK
  <2>. QED
    BY <1>1, <2>1, <2>2 DEF SoundInv, PassHasMutex, Granted
<1>6. /\ got \subseteq required[t]
      /\ complete => got = required[t]
      /\ ~complete => got # required[t]
  BY <1>5
<1>7. /\ held \in [Idx -> SUBSET Resources] /\ state \in [Idx -> TaskStates]
      /\ ready_queue \in Seq(Registered)
      /\ NoRepeats(ready_queue)
      /\ \A u \in Registered : effective_priority[u] \in Int
  BY RegisteredTasks DEF SoundInv, TypeOK, TasksTypeOK, QueuesTypeOK, QueuedWhereStateSays
<1>. HIDE DEF got, complete, rest
<1>8. /\ held'[t] = got /\ \A u \in Registered \ {t} : held'[u] = held[u]
      /\ state'[t] = (IF complete THEN "READY" ELSE "BLOCKED")
      /\ \A u \in Registered \ {t} : state'[u] = state[u]
  BY <1>1, <1>4, <1>7
<1>9. /\ blocked_queue' \in Seq(Registered)
      /\ Range(blocked_queue') = Range(rest) \cup (IF complete THEN {} ELSE {t})
      /\ NoRepeats(blocked_queue')
      /\ blocked_left' <= Len(blocked_queue')
  <2>1. /\ blocked_left \in Nat /\ Len(rest) \in Nat /\ blocked_left - 1 <= Len(rest)
        /\ Len(rest) < MAX_TASKS
    BY <1>1, <1>2, LenProperties, Numbers DEF SoundInv, TypeOK, ControlTypeOK
  <2>2. CASE complete
    BY <2>1, <2>2, <1>2, <1>4
  <2>3. CASE ~complete
    <3>. DEFINE b == PushTail(rest, t)
    <3>1. /\ b \in Seq(Registered) /\ Range(b) = Range(rest) \cup {t} /\ NoRepeats(b)
          /\ Len(rest) <= Len(b)
      <4>. HIDE DEF t
      <4>1. /\ b \in Seq(Registered) /\ Len(rest) <= Len(b)
            /\ Range(rest) \subseteq Range(b) /\ Range(b) \subseteq Range(rest) \cup {t}
            /\ Len(rest) < MAX_TASKS => t \in Range(b)
            /\ NoRepeats(rest) => NoRepeats(b)
        BY <1>1, <1>2, PushTailProperties
      <4>. HIDE DEF b
      <4>. QED
        BY <4>1, <2>1, <1>2
    <3>2. Len(b) \in Nat
      BY <3>1, LenProperties
    <3>3. blocked_queue' = b /\ blocked_left' = blocked_left - 1
      BY <2>3, <1>4
    <3>. HIDE DEF b
    <3>. QED
      BY <3>1, <3>2, <3>3, <2>1, <2>3
  <2>. QED
    BY <2>2, <2>3
<1>10. /\ ready_queue' \in Seq(Registered)
       /\ Range(ready_queue') \subseteq Range(ready_queue) \cup (IF complete THEN {t} ELSE {})
       /\ NoRepeats(ready_queue')
       /\ SortedBy(ready_queue', effective_priority)
  <2>1. CASE complete
    BY <2>1, <1>1, <1>4, <1>7, PushSortedProperties
  <2>2. CASE ~complete
    BY <2>2, <1>4, <1>7 DEF SoundInv, ReadySorted
  <2>. QED
    BY <2>1, <2>2
<1>11. TypeOK'
  <2>1. TasksTypeOK'
    BY <1>1, <1>4, <1>5, <1>6, <1>7 DEF SoundInv, TypeOK, TasksTypeOK, TaskStates
  <2>2. QueuesTypeOK'
    BY <1>4, <1>9, <1>10 DEF SoundInv, TypeOK, QueuesTypeOK
  <2>. QED
    BY <2>1, <2>2 DEF TypeOK
<1>12. PassHasMutex'
  <2>1. \A u \in Registered : held'[u] \subseteq globally_held'
    BY <1>4, <1>5, <1>8 DEF got
  <2>. QED
    BY <2>1, <1>4, <1>9 DEF SoundInv, PassHasMutex
<1>13. ResourceExclusive'
  BY <1>4, <1>5, <1>8 DEF SoundInv, ResourceExclusive, got
<1>14. HoldsWhatStateSays'
  BY <1>4, <1>6, <1>8 DEF SoundInv, HoldsWhatStateSays, Terminal
<1>15. QueuedWhereStateSays'
  <2>1. \A u \in Registered : state'[u] \in {"NEW", "BLOCKED"} <=> u \in Range(blocked_queue')
    BY <1>2, <1>8, <1>9 DEF SoundInv, QueuedWhereStateSays
  <2>2. \A u \in Range(ready_queue') : state'[u] = "READY"
    BY <1>3, <1>7, <1>8, <1>10, RangeIsImage DEF SoundInv, QueuedWhereStateSays
  <2>. QED
    BY <2>1, <2>2, <1>4, <1>9, <1>10 DEF QueuedWhereStateSays
<1>16. RunningIsRegistered' /\ RunsApart'
  BY <1>1, <1>3, <1>4, <1>8 DEF SoundInv, RunningIsRegistered, RunsApart
<1>17. ReadySorted'
  BY <1>4, <1>10 DEF ReadySorted
<1>. QED
  BY <1>11, <1>12, <1>13, <1>14, <1>15, <1>16, <1>17 DEF SoundInv

(* A deadlock is resolved: the victim is BLOCKED, so it is in the blocked  *)
(* queue, not in the ready queue, and no worker runs it.                   *)
LEMMA ResolveDeadlockStep ==
  ASSUME SoundInv, ControlTypeOK', NEW p \in Pairs, ResolveDeadlock(p)
  PROVE  SoundInv'
<1>0. PICK c \in WaitCycles : \E v \in Victims(c) :
        /\ state' = [state EXCEPT ![v] = "DEADLOCK_ABORTED"]
        /\ held' = [held EXCEPT ![v] = {}]
        /\ assigned_worker_pid' = [assigned_worker_pid EXCEPT ![v] = NoPair]
        /\ remaining_time' = [remaining_time EXCEPT ![v] = 0]
        /\ blocked_queue' = RemoveTask(blocked_queue, v)
        /\ ready_queue' = RemoveTask(ready_queue, v)
        /\ running_task_id' = IF running_task_id = id[v] THEN NoTask ELSE running_task_id
  BY DEF ResolveDeadlock, Abort
<1>1. PICK v \in Victims(c) :
        /\ state' = [state EXCEPT ![v] = "DEADLOCK_ABORTED"]
        /\ held' = [held EXCEPT ![v] = {}]
        /\ assigned_worker_pid' = [assigned_worker_pid EXCEPT ![v] = NoPair]
        /\ remaining_time' = [remaining_time EXCEPT ![v] = 0]
        /\ blocked_queue' = RemoveTask(blocked_queue, v)
        /\ ready_queue' = RemoveTask(ready_queue, v)
        /\ running_task_id' = IF running_task_id = id[v] THEN NoTask ELSE running_task_id
  BY <1>0
<1>2. /\ UNCHANGED <<id, base_priority, effective_priority, required, wait_ticks, task_count,
                     mutex, spc, wpc, current, blocked_left, globally_held>>
      /\ blocked_left = 0 /\ Registered' = Registered
  BY DEF ResolveDeadlock, Abort, locals, Registered
<1>3. v \in Registered /\ state[v] = "BLOCKED"
  <2>1. PICK n \in 1 .. task_count : c \in [1 .. n -> Registered]
    BY DEF WaitCycles
  <2>2. PICK k \in DOMAIN c : v = c[k]
    BY DEF Victims, Range
  <2>3. WaitsFor(c[k], c[(k % Len(c)) + 1])
    BY DEF WaitCycles
  <2>. QED
    BY <2>1, <2>2, <2>3 DEF WaitsFor
<1>4. /\ v \in Idx /\ Registered \subseteq Idx
      /\ held \in [Idx -> SUBSET Resources] /\ state \in [Idx -> TaskStates]
      /\ ready_queue \in Seq(Registered) /\ blocked_queue \in Seq(Registered)
      /\ NoRepeats(ready_queue) /\ NoRepeats(blocked_queue)
      /\ v \notin Range(ready_queue)
  BY <1>3, RegisteredTasks
     DEF SoundInv, TypeOK, TasksTypeOK, QueuesTypeOK, QueuedWhereStateSays
<1>5. ready_queue' = ready_queue
  BY <1>1, <1>4 DEF RemoveTask
<1>6. /\ blocked_queue' \in Seq(Registered)
      /\ NoRepeats(blocked_queue') /\ Range(blocked_queue') = Range(blocked_queue) \ {v}
  BY <1>1, <1>4, RemoveTaskProperties
<1>7. /\ held'[v] = {} /\ state'[v] = "DEADLOCK_ABORTED"
      /\ \A u \in Registered \ {v} : held'[u] = held[u] /\ state'[u] = state[u]
  BY <1>1, <1>4
<1>8. TypeOK'
  <2>1. TasksTypeOK'
    BY <1>1, <1>2, <1>4 DEF SoundInv, TypeOK, TasksTypeOK, TaskStates
  <2>2. running_task_id' \in Int
    BY <1>1, <1>4 DEF SoundInv, TypeOK, TasksTypeOK, QueuesTypeOK, NoTask
  <2>. QED
    BY <2>1, <2>2, <1>2, <1>4, <1>5, <1>6 DEF SoundInv, TypeOK, QueuesTypeOK
<1>9. PassHasMutex'
  <2>1. blocked_left' <= Len(blocked_queue')
    BY <1>2, <1>6, LenProperties
  <2>2. mutex # Free => \A u \in Registered : held'[u] \subseteq globally_held
    BY <1>7 DEF SoundInv, PassHasMutex
  <2>. QED
    BY <2>1, <2>2, <1>2 DEF SoundInv, PassHasMutex
<1>10. ResourceExclusive'
  BY <1>2, <1>7 DEF SoundInv, ResourceExclusive
<1>11. HoldsWhatStateSays'
  BY <1>2, <1>7 DEF SoundInv, HoldsWhatStateSays, Terminal
<1>12. QueuedWhereStateSays'
  <2>1. \A u \in Registered : state'[u] \in {"NEW", "BLOCKED"} <=> u \in Range(blocked_queue')
    BY <1>6, <1>7 DEF SoundInv, QueuedWhereStateSays
  <2>2. \A u \in Range(ready_queue) : state'[u] = "READY"
    BY <1>4, <1>7, RangeIsImage DEF SoundInv, QueuedWhereStateSays
  <2>. QED
    BY <2>1, <2>2, <1>2, <1>4, <1>5, <1>6 DEF QueuedWhereStateSays
<1>13. RunningIsRegistered' /\ RunsApart'
  BY <1>2, <1>3, <1>7 DEF SoundInv, RunningIsRegistered, RunsApart
<1>14. ReadySorted'
  BY <1>2, <1>5 DEF SoundInv, ReadySorted
<1>. QED
  BY <1>8, <1>9, <1>10, <1>11, <1>12, <1>13, <1>14 DEF SoundInv

(* apply_aging rearranges the ready queue, and leaves it sorted by the     *)
(* raised priorities.                                                      *)
LEMMA AgingProperties ==
  ASSUME SoundInv
  PROVE  /\ AgedPriority \in [Idx -> Int32]
         /\ AgedTicks \in [Idx -> Nat]
         /\ AgedQueue \in Seq(Registered)
         /\ Len(AgedQueue) = Len(ready_queue)
         /\ Range(AgedQueue) = Range(ready_queue)
         /\ NoRepeats(AgedQueue)
         /\ SortedBy(AgedQueue, AgedPriority)
<1>1. /\ effective_priority \in [Idx -> Int32] /\ wait_ticks \in [Idx -> Nat]
      /\ ready_queue \in Seq(Registered) /\ NoRepeats(ready_queue)
      /\ SortedBy(ready_queue, effective_priority)
  BY DEF SoundInv, TypeOK, TasksTypeOK, QueuesTypeOK, QueuedWhereStateSays, ReadySorted
<1>2. AgedPriority \in [Idx -> Int32]
  BY <1>1, Numbers DEF AgedPriority
<1>3. AgedTicks \in [Idx -> Nat]
  BY <1>1 DEF AgedTicks
<1>4. CASE Aged = {}
  <2>1. AgedQueue = ready_queue
    BY <1>4 DEF AgedQueue
  <2>2. AgedPriority = effective_priority
    BY <1>1, <1>4 DEF AgedPriority
  <2>. QED
    BY <2>1, <2>2, <1>1, <1>2, <1>3
<1>5. CASE Aged # {}
  <2>1. AgedQueue = Reorder(ready_queue, AgedPriority)
    BY <1>5 DEF AgedQueue
  <2>2. \A u \in Registered : AgedPriority[u] \in Int
    BY <1>2, RegisteredTasks, Numbers DEF SoundInv
  <2>. HIDE DEF AgedPriority
  <2>3. /\ Reorder(ready_queue, AgedPriority) \in Seq(Registered)
        /\ Len(Reorder(ready_queue, AgedPriority)) = Len(ready_queue)
        /\ Range(Reorder(ready_queue, AgedPriority)) = Range(ready_queue)
        /\ NoRepeats(Reorder(ready_queue, AgedPriority))
        /\ SortedBy(Reorder(ready_queue, AgedPriority), AgedPriority)
    BY <2>2, <1>1, ReorderProperties
  <2>. QED
    BY <2>1, <2>3, <1>2, <1>3
<1>. QED
  BY <1>4, <1>5

(* A pass ends with a selection: the head of the aged queue leaves it.     *)
LEMMA SelectTaskStep ==
  ASSUME SoundInv, ControlTypeOK', NEW p \in Pairs, SelectTask(p)
  PROVE  SoundInv'
<1>. DEFINE t == Head(AgedQueue)
            q == Tail(AgedQueue)
<1>1. /\ wait_ticks' = [AgedTicks EXCEPT ![t] = 0]
      /\ effective_priority' = [AgedPriority EXCEPT ![t] = base_priority[t]]
      /\ running_task_id' = id[t]
      /\ ready_queue' = q
      /\ held' = held
      /\ mutex' = Free /\ blocked_left' = 0 /\ globally_held' = {}
      /\ spc[p] = "pass" /\ spc' = [spc EXCEPT ![p] = "post_worker"]
      /\ UNCHANGED <<id, base_priority, state, remaining_time, required, assigned_worker_pid,
                     task_count, blocked_queue, wpc, current>>
      /\ Registered' = Registered
  BY HeldByLiveIsHeld DEF SelectTask, HandOver, ServedTicks, ReleasePass, locals, Registered
<1>2. /\ AgedPriority \in [Idx -> Int32] /\ AgedTicks \in [Idx -> Nat]
      /\ AgedQueue \in Seq(Registered) /\ AgedQueue # <<>>
      /\ Range(AgedQueue) = Range(ready_queue)
      /\ NoRepeats(AgedQueue) /\ SortedBy(AgedQueue, AgedPriority)
  <2>1. ready_queue # <<>> /\ ready_queue \in Seq(Registered)
    BY DEF SelectTask, HandOver, SoundInv, TypeOK, QueuesTypeOK
  <2>. QED
    BY <2>1, AgingProperties, EmptySeq
<1>. HIDE DEF t, q
<1>3. /\ t \in Registered /\ q \in Seq(Registered)
      /\ Range(AgedQueue) = Range(q) \cup {t}
      /\ NoRepeats(q) /\ t \notin Range(q)
      /\ SortedBy(q, AgedPriority)
  BY <1>2, TailProperties, SortedTail DEF t, q
<1>4. TypeOK'
  <2>1. t \in Idx /\ base_priority[t] \in Int32
    BY <1>3, RegisteredTasks DEF SoundInv
  <2>2. TasksTypeOK'
    BY <2>1, <1>1, <1>2 DEF SoundInv, TypeOK, TasksTypeOK
  <2>3. running_task_id' \in Int
    BY <2>1, <1>1 DEF SoundInv, TypeOK, TasksTypeOK
  <2>. QED
    BY <2>2, <2>3, <1>1, <1>3 DEF SoundInv, TypeOK, QueuesTypeOK
<1>5. PassHasMutex'
  <2>1. \A r \in Pairs : spc[r] = "pass" <=> r = p
    BY <1>1, PairsAssumption DEF SoundInv, PassHasMutex
  <2>2. \A r \in Pairs : spc'[r] # "pass" /\ mutex' # r
    BY <2>1, <1>1, PairsAssumption DEF SoundInv, TypeOK, ControlTypeOK
  <2>. QED
    BY <2>2, <1>1 DEF PassHasMutex
<1>6. ResourceExclusive' /\ HoldsWhatStateSays'
  BY <1>1 DEF SoundInv, ResourceExclusive, HoldsWhatStateSays, Terminal
<1>7. QueuedWhereStateSays'
  BY <1>1, <1>2, <1>3 DEF SoundInv, QueuedWhereStateSays
<1>8. RunningIsRegistered' /\ RunsApart'
  BY <1>1 DEF SoundInv, RunningIsRegistered, RunsApart
<1>9. ReadySorted'
  <2>1. \A u \in Range(q) : AgedPriority[u] = effective_priority'[u]
    <3>1. Range(q) \subseteq Idx
      BY <1>3, RangeIsImage, RegisteredTasks DEF SoundInv
    <3>. QED
      BY <3>1, <1>1, <1>2, <1>3
  <2>2. SortedBy(q, effective_priority')
    <3>. DEFINE eff == effective_priority'
    <3>1. \A u \in Range(q) : AgedPriority[u] = eff[u]
      BY <2>1
    <3>. HIDE DEF eff
    <3>2. SortedBy(q, eff)
      BY <3>1, <1>3, SortedCongruence
    <3>. QED
      BY <3>2 DEF eff
  <2>. QED
    BY <2>2, <1>1 DEF ReadySorted
<1>. QED
  BY <1>4, <1>5, <1>6, <1>7, <1>8, <1>9 DEF SoundInv

(* A pass ends with nothing to run. *)
LEMMA NothingToRunStep ==
  ASSUME SoundInv, ControlTypeOK', NEW p \in Pairs, NothingToRun(p)
  PROVE  SoundInv'
<1>1. /\ held' = held
      /\ mutex' = Free /\ blocked_left' = 0 /\ globally_held' = {}
      /\ spc[p] = "pass" /\ spc' = [spc EXCEPT ![p] = AfterIdlePass]
      /\ UNCHANGED <<id, base_priority, effective_priority, state, remaining_time, required,
                     wait_ticks, assigned_worker_pid, task_count, ready_queue, blocked_queue,
                     running_task_id, wpc, current>>
      /\ Registered' = Registered
  BY HeldByLiveIsHeld DEF NothingToRun, GoIdle, ReleasePass, queues, locals, Registered
<1>2. TypeOK'
  BY <1>1 DEF SoundInv, TypeOK, TasksTypeOK, QueuesTypeOK
<1>3. PassHasMutex'
  <2>1. \A r \in Pairs : spc[r] = "pass" <=> r = p
    BY <1>1, PairsAssumption DEF SoundInv, PassHasMutex
  <2>2. \A r \in Pairs : spc'[r] # "pass" /\ mutex' # r
    BY <2>1, <1>1, PairsAssumption DEF SoundInv, TypeOK, ControlTypeOK, AfterIdlePass
  <2>. QED
    BY <2>2, <1>1 DEF PassHasMutex
<1>4. ResourceExclusive' /\ HoldsWhatStateSays' /\ QueuedWhereStateSays' /\ ReadySorted'
  BY <1>1 DEF SoundInv, ResourceExclusive, HoldsWhatStateSays, Terminal, QueuedWhereStateSays,
              ReadySorted
<1>5. RunningIsRegistered' /\ RunsApart'
  BY <1>1 DEF SoundInv, RunningIsRegistered, RunsApart
<1>. QED
  BY <1>2, <1>3, <1>4, <1>5 DEF SoundInv

(* A worker that looks up its assignment has been woken by a selection, so *)
(* a task with the assigned id is not queued.                              *)
LEMMA AssignedTaskIsNotQueued ==
  ASSUME SafeInv, NEW p \in Pairs, wpc[p] = "pickup", NEW t \in Registered, Assigned(t)
  PROVE  t \notin Range(ready_queue) /\ state[t] \notin {"NEW", "BLOCKED"}
<1>1. ~NobodyWoken
  BY DEF NobodyWoken
<1>2. running_task_id # NoTask
  BY DEF Assigned, SafeInv, AssignmentInv, UniqueIds, NoTask, SoundInv, TypeOK, TasksTypeOK
<1>3. PICK u \in Registered : /\ id[u] = running_task_id
                              /\ state[u] \notin {"NEW", "BLOCKED"}
                              /\ u \notin Range(ready_queue)
  BY <1>1, <1>2 DEF SafeInv, AssignmentInv, AssignedIsNotQueued
<1>4. u = t
  BY <1>3 DEF Assigned, SafeInv, AssignmentInv, UniqueIds
<1>. QED
  BY <1>3, <1>4

(* The assigned task is started, or finished at once.                      *)
LEMMA PickupRunStep ==
  ASSUME SafeInv, ControlTypeOK', NEW p \in Pairs, PickupRun(p)
  PROVE  SoundInv'
<1>1. PICK t \in Registered :
        /\ Runnable(t)
        /\ \/ /\ Finish(t)
              /\ wpc' = [wpc EXCEPT ![p] = "post_both"]
              /\ UNCHANGED current
           \/ /\ state' = [state EXCEPT ![t] = "RUNNING"]
              /\ assigned_worker_pid' = [assigned_worker_pid EXCEPT ![t] = p]
              /\ current' = [current EXCEPT ![p] = t]
              /\ wpc' = [wpc EXCEPT ![p] = "running"]
              /\ UNCHANGED <<held, running_task_id>>
  BY DEF PickupRun, locals
<1>2. /\ UNCHANGED <<id, base_priority, effective_priority, remaining_time, required,
                     wait_ticks, task_count, ready_queue, blocked_queue, mutex, spc,
                     blocked_left, globally_held>>
      /\ wpc[p] = "pickup"
      /\ Registered' = Registered
  BY DEF PickupRun, queues, pass, Registered
<1>3. /\ t \in Idx /\ Registered \subseteq Idx /\ state[t] = "READY"
      /\ t \notin Range(ready_queue) /\ t \notin Range(blocked_queue)
  BY <1>1, <1>2, AssignedTaskIsNotQueued, RegisteredTasks
     DEF Runnable, SafeInv, SoundInv, QueuedWhereStateSays
<1>4. /\ held \in [Idx -> SUBSET Resources] /\ state \in [Idx -> TaskStates]
      /\ current \in [Pairs -> Idx] /\ wpc \in [Pairs -> WorkerSteps]
      /\ assigned_worker_pid \in [Idx -> Pairs \cup {NoPair}]
  BY DEF SafeInv, SoundInv, TypeOK, TasksTypeOK, ControlTypeOK
<1>5. /\ state'[t] \in {"RUNNING", "FINISHED"}
      /\ state'[t] = "RUNNING" => held'[t] = held[t]
      /\ state'[t] = "FINISHED" => held'[t] = {}
      /\ held'[t] \subseteq held[t]
      /\ \A u \in Registered \ {t} : state'[u] = state[u] /\ held'[u] = held[u]
  BY <1>1, <1>3, <1>4 DEF Finish, Released
<1>6. TypeOK'
  <2>1. TasksTypeOK'
    BY <1>1, <1>2, <1>3, <1>4
       DEF SafeInv, SoundInv, TypeOK, TasksTypeOK, TaskStates, Finish, Released
  <2>2. running_task_id' \in Int
    BY <1>1 DEF SafeInv, SoundInv, TypeOK, QueuesTypeOK, Finish, Released, NoTask
  <2>. QED
    BY <2>1, <2>2, <1>2 DEF SafeInv, SoundInv, TypeOK, QueuesTypeOK
<1>7. PassHasMutex'
  BY <1>2, <1>5 DEF SafeInv, SoundInv, PassHasMutex
<1>8. ResourceExclusive'
  BY <1>2, <1>5 DEF SafeInv, SoundInv, ResourceExclusive
<1>9. HoldsWhatStateSays'
  BY <1>2, <1>3, <1>5 DEF SafeInv, SoundInv, HoldsWhatStateSays, Terminal
<1>10. QueuedWhereStateSays'
  <2>1. \A u \in Registered : state'[u] \in {"NEW", "BLOCKED"} <=> u \in Range(blocked_queue)
    BY <1>3, <1>5 DEF SafeInv, SoundInv, QueuedWhereStateSays
  <2>2. Range(ready_queue) \subseteq Registered
    BY RangeIsImage DEF SafeInv, SoundInv, TypeOK, QueuesTypeOK
  <2>3. \A u \in Range(ready_queue) : state'[u] = "READY"
    BY <2>2, <1>3, <1>5 DEF SafeInv, SoundInv, QueuedWhereStateSays
  <2>. QED
    BY <2>1, <2>3, <1>2 DEF SafeInv, SoundInv, QueuedWhereStateSays
<1>11. \A r \in Pairs : wpc[r] = "running" => current[r] # t /\ r # p
  BY <1>2, <1>3 DEF SafeInv, SoundInv, RunsApart
<1>12. /\ \A r \in Pairs \ {p} : wpc'[r] = wpc[r] /\ current'[r] = current[r]
       /\ wpc'[p] = "running" <=> state'[t] = "RUNNING"
       /\ wpc'[p] = "running" => current'[p] = t
  BY <1>1, <1>3, <1>4 DEF Finish, Released
<1>13. RunningIsRegistered'
  BY <1>2, <1>12 DEF SafeInv, SoundInv, RunningIsRegistered
<1>14. RunsApart'
  <2>1. \A r \in Pairs : wpc'[r] = "running" => state'[current'[r]] = "RUNNING"
    BY <1>5, <1>11, <1>12 DEF SafeInv, SoundInv, RunsApart, RunningIsRegistered
  <2>2. \A r, q \in Pairs : r # q /\ wpc'[r] = "running" /\ wpc'[q] = "running"
                              => current'[r] # current'[q]
    BY <1>11, <1>12 DEF SafeInv, SoundInv, RunsApart
  <2>. QED
    BY <2>1, <2>2, <1>2 DEF RunsApart
<1>15. ReadySorted'
  BY <1>2 DEF SafeInv, SoundInv, ReadySorted
<1>. QED
  BY <1>6, <1>7, <1>8, <1>9, <1>10, <1>13, <1>14, <1>15 DEF SoundInv

(* An assignment is dropped. *)
LEMMA PickupDropStep ==
  ASSUME SoundInv, ControlTypeOK', NEW p \in Pairs, PickupReject(p) \/ PickupUnknown(p)
  PROVE  SoundInv'
<1>1. /\ UNCHANGED <<id, base_priority, effective_priority, state, remaining_time, required,
                     held, wait_ticks, task_count, ready_queue, blocked_queue, mutex, spc,
                     blocked_left, globally_held, current>>
      /\ running_task_id' = NoTask
      /\ wpc[p] = "pickup"
      /\ wpc' = [wpc EXCEPT ![p] = "post_both"] \/ wpc' = [wpc EXCEPT ![p] = "post"]
      /\ Registered' = Registered
  BY DEF PickupReject, PickupUnknown, Released, tasks, queues, pass, locals, Registered
<1>2. assigned_worker_pid' \in [Idx -> Pairs \cup {NoPair}]
  BY DEF PickupReject, PickupUnknown, Released, tasks, SoundInv, TypeOK, TasksTypeOK
<1>3. TypeOK'
  BY <1>1, <1>2 DEF SoundInv, TypeOK, TasksTypeOK, QueuesTypeOK, NoTask
<1>4. PassHasMutex' /\ ResourceExclusive' /\ HoldsWhatStateSays' /\ QueuedWhereStateSays'
  BY <1>1 DEF SoundInv, PassHasMutex, ResourceExclusive, HoldsWhatStateSays, Terminal,
              QueuedWhereStateSays
<1>5. \A r \in Pairs : wpc'[r] = "running" <=> wpc[r] = "running"
  BY <1>1 DEF SoundInv, TypeOK, ControlTypeOK
<1>6. RunningIsRegistered' /\ RunsApart'
  BY <1>1, <1>5 DEF SoundInv, RunningIsRegistered, RunsApart
<1>7. ReadySorted'
  BY <1>1 DEF SoundInv, ReadySorted
<1>. QED
  BY <1>3, <1>4, <1>6, <1>7 DEF SoundInv

(* A slice is over: the task, which only this worker ran, is finished or   *)
(* queued again with all that it holds.                                    *)
LEMMA FinishQuantumStep ==
  ASSUME SoundInv, ControlTypeOK', NEW p \in Pairs, FinishQuantum(p)
  PROVE  SoundInv'
<1>. DEFINE t == current[p]
            left == remaining_time[t] - exec_time[p]
<1>1. /\ remaining_time' = [remaining_time EXCEPT ![t] = left]
      /\ \/ Finish(t) /\ UNCHANGED ready_queue
         \/ /\ state' = [state EXCEPT ![t] = "READY"]
            /\ ready_queue' = Reorder(PushTail(ready_queue, t), effective_priority)
            /\ running_task_id' = NoTask
            /\ assigned_worker_pid' = [assigned_worker_pid EXCEPT ![t] = NoPair]
            /\ UNCHANGED held
      /\ wpc[p] = "running"
      /\ wpc' = [wpc EXCEPT ![p] = "post"]
      /\ UNCHANGED <<id, base_priority, effective_priority, required, wait_ticks, task_count,
                     blocked_queue, mutex, spc, blocked_left, globally_held>>
      /\ current' = [current EXCEPT ![p] = 0]
      /\ Registered' = Registered
  BY DEF FinishQuantum, Released, MakeReady, pass, Registered
<1>2. /\ t \in Registered /\ t \in Idx /\ Registered \subseteq Idx
      /\ state[t] = "RUNNING"
      /\ left \in Int
  BY <1>1, RegisteredTasks
     DEF SoundInv, TypeOK, TasksTypeOK, ControlTypeOK, RunningIsRegistered, RunsApart
<1>. HIDE DEF t, left
<1>3. /\ held \in [Idx -> SUBSET Resources] /\ state \in [Idx -> TaskStates]
      /\ wpc \in [Pairs -> WorkerSteps] /\ current \in [Pairs -> Idx]
      /\ ready_queue \in Seq(Registered) /\ NoRepeats(ready_queue)
      /\ SortedBy(ready_queue, effective_priority)
      /\ \A u \in Registered : effective_priority[u] \in Int
  BY RegisteredTasks
     DEF SoundInv, TypeOK, TasksTypeOK, QueuesTypeOK, ControlTypeOK, QueuedWhereStateSays,
         ReadySorted
<1>4. /\ state'[t] \in {"READY", "FINISHED"}
      /\ state'[t] = "READY" => held'[t] = held[t]
      /\ state'[t] = "FINISHED" => held'[t] = {}
      /\ held'[t] \subseteq held[t]
      /\ \A u \in Registered \ {t} : state'[u] = state[u] /\ held'[u] = held[u]
  BY <1>1, <1>2, <1>3 DEF Finish, Released
<1>5. /\ ready_queue' \in Seq(Registered)
      /\ Range(ready_queue') \subseteq Range(ready_queue)
                                       \cup (IF state'[t] = "READY" THEN {t} ELSE {})
      /\ NoRepeats(ready_queue')
      /\ SortedBy(ready_queue', effective_priority)
  <2>1. CASE Finish(t) /\ UNCHANGED ready_queue
    BY <2>1, <1>3
  <2>2. CASE /\ state' = [state EXCEPT ![t] = "READY"]
             /\ ready_queue' = Reorder(PushTail(ready_queue, t), effective_priority)
    <3>1. state'[t] = "READY"
      BY <2>2, <1>2, <1>3
    <3>2. /\ Reorder(PushTail(ready_queue, t), effective_priority) \in Seq(Registered)
          /\ Range(Reorder(PushTail(ready_queue, t), effective_priority))
               \subseteq Range(ready_queue) \cup {t}
          /\ NoRepeats(ready_queue)
               => NoRepeats(Reorder(PushTail(ready_queue, t), effective_priority))
          /\ SortedBy(Reorder(PushTail(ready_queue, t), effective_priority), effective_priority)
      BY <1>2, <1>3, PushSortedProperties
    <3>. QED
      BY <3>1, <3>2, <2>2, <1>3
  <2>. QED
    BY <2>1, <2>2, <1>1
<1>6. TypeOK'
  <2>1. TasksTypeOK'
    BY <1>1, <1>2, <1>3 DEF SoundInv, TypeOK, TasksTypeOK, TaskStates, Finish, Released
  <2>2. running_task_id' \in Int
    BY <1>1 DEF Finish, Released, NoTask
  <2>. QED
    BY <2>1, <2>2, <1>1, <1>5 DEF SoundInv, TypeOK, QueuesTypeOK
<1>7. PassHasMutex'
  BY <1>1, <1>4 DEF SoundInv, PassHasMutex
<1>8. ResourceExclusive'
  BY <1>1, <1>4 DEF SoundInv, ResourceExclusive
<1>9. HoldsWhatStateSays'
  BY <1>1, <1>2, <1>4 DEF SoundInv, HoldsWhatStateSays, Terminal
<1>10. QueuedWhereStateSays'
  <2>1. \A u \in Registered : state'[u] \in {"NEW", "BLOCKED"} <=> u \in Range(blocked_queue)
    BY <1>2, <1>4 DEF SoundInv, QueuedWhereStateSays
  <2>2. Range(ready_queue) \subseteq Registered /\ t \notin Range(ready_queue)
    BY <1>2, <1>3, RangeIsImage DEF SoundInv, QueuedWhereStateSays
  <2>3. \A u \in Range(ready_queue') : state'[u] = "READY"
    BY <2>2, <1>4, <1>5 DEF SoundInv, QueuedWhereStateSays
  <2>. QED
    BY <2>1, <2>3, <1>1, <1>5 DEF SoundInv, QueuedWhereStateSays
<1>11. /\ \A r \in Pairs \ {p} : wpc'[r] = wpc[r] /\ current'[r] = current[r]
       /\ wpc'[p] # "running"
       /\ \A r \in Pairs \ {p} : wpc[r] = "running" => current[r] # t
  BY <1>1, <1>3 DEF SoundInv, RunsApart, t
<1>12. RunningIsRegistered' /\ RunsApart'
  <2>1. RunningIsRegistered'
    BY <1>1, <1>11 DEF SoundInv, RunningIsRegistered
  <2>2. \A r \in Pairs : wpc'[r] = "running" => state'[current'[r]] = "RUNNING"
    BY <1>4, <1>11 DEF SoundInv, RunsApart, RunningIsRegistered
  <2>3. \A r, q \in Pairs : r # q /\ wpc'[r] = "running" /\ wpc'[q] = "running"
                              => current'[r] # current'[q]
    BY <1>11 DEF SoundInv, RunsApart
  <2>. QED
    BY <2>1, <2>2, <2>3, <1>1 DEF RunsApart
<1>13. ReadySorted'
  BY <1>1, <1>5 DEF ReadySorted
<1>. QED
  BY <1>6, <1>7, <1>8, <1>9, <1>10, <1>12, <1>13 DEF SoundInv

--------------------------------------------------------------------------------
(* Who may pick up which task: AssignmentInv. *)

(* Only stop() sets the flag, and start() cannot follow stop().            *)
LEMMA ShutdownStep ==
  ASSUME ControlTypeOK, ShutdownIsStop, [Next]_vars
  PROVE  ShutdownIsStop'
<1>. USE DEF ControlTypeOK, ShutdownIsStop
<1>1. CASE UNCHANGED vars
  BY <1>1 DEF vars
<1>2. ASSUME NEW j \in Jobs, Submit(j) PROVE ShutdownIsStop'
  BY <1>2 DEF Submit
<1>3. ASSUME NEW i, NEW priority, ChangePriority(i, priority) PROVE ShutdownIsStop'
  BY <1>3 DEF ChangePriority
<1>4. ASSUME NEW p \in Pairs, Start(p) PROVE ShutdownIsStop'
  <2>1. PICK s \in {"boot", "done"} : spc' = [spc EXCEPT ![p] = s]
    BY <1>4 DEF Start, Forked
  <2>. QED
    BY <1>4, <2>1 DEF Start
<1>5. CASE Stop \/ JniContinues
  BY <1>5 DEF Stop, JniContinues, Notify, StopPost, JoinScheduler, JoinWorker
<1>6. ASSUME NEW p \in Pairs, SchedulerStep(p) PROVE ShutdownIsStop'
  <2>1. CASE SchedulerBoot(p)
    BY <2>1 DEF SchedulerBoot, Attached
  <2>2. CASE SchedulerCheck(p)
    BY <2>2 DEF SchedulerCheck
  <2>3. CASE BeginPass(p) \/ AllocateNext(p) \/ ResolveDeadlock(p)
    BY <2>3 DEF BeginPass, AllocateNext, ResolveDeadlock, Abort
  <2>4. CASE SelectTask(p) \/ NothingToRun(p)
    BY <2>4 DEF SelectTask, HandOver, NothingToRun, GoIdle, AfterIdlePass
  <2>5. ASSUME NEW from, NEW s, NEW to,
               to \in {"exit_scheduler", "exit_event"} => from \in {"exit_worker", "exit_scheduler"},
               to # "exit_worker",
               SchedulerPosts(p, from, s, to) \/ SchedulerWaits(p, from, s, to)
        PROVE  ShutdownIsStop'
    BY <2>5 DEF SchedulerPosts, SchedulerWaits
  <2>. QED
    BY <1>6, <2>1, <2>2, <2>3, <2>4, <2>5 DEF SchedulerStep
<1>7. ASSUME NEW p \in Pairs, WorkerStep(p) PROVE ShutdownIsStop'
  <2>1. shutdown_flag' = shutdown_flag /\ jpc' = jpc /\ spc' = spc
    BY <1>7 DEF WorkerStep, WorkerBoot, WorkerCheck, WorkerWaits, PickupRun, PickupReject,
                PickupUnknown, FinishQuantum, WorkerPosts
  <2>. QED
    BY <2>1
<1>. QED
  BY <1>1, <1>2, <1>3, <1>4, <1>5, <1>6, <1>7 DEF Next, Stopped, ProcessStep

(* Nothing but a selection, and stop(), wakes a worker.                    *)
LEMMA NobodyWokenStep ==
  ASSUME TypeOK, ShutdownIsStop, NobodyWoken, [Next]_vars
  PROVE  NobodyWoken' \/ \E p \in Pairs : SelectTask(p)
<1>. USE DEF TypeOK, ControlTypeOK, NobodyWoken
<1>1. CASE UNCHANGED vars
  BY <1>1 DEF vars
<1>2. ASSUME NEW j \in Jobs, Submit(j) PROVE NobodyWoken'
  BY <1>2 DEF Submit
<1>3. ASSUME NEW i, NEW priority, ChangePriority(i, priority) PROVE NobodyWoken'
  BY <1>3 DEF ChangePriority
<1>4. ASSUME NEW p \in Pairs, Start(p) PROVE NobodyWoken'
  <2>1. PICK s, w \in {"boot", "done"} : /\ spc' = [spc EXCEPT ![p] = s]
                                         /\ wpc' = [wpc EXCEPT ![p] = w]
    BY <1>4 DEF Start, Forked
  <2>2. ~shutdown_flag /\ sem' = sem
    BY <1>4 DEF Start, ShutdownIsStop
  <2>. QED
    BY <2>1, <2>2
<1>5. CASE Stop \/ JniContinues
  <2>1. CASE Stop
    BY <2>1 DEF Stop
  <2>2. CASE Notify
    BY <2>2 DEF Notify, Post, Notified, Semaphores
  <2>3. ASSUME NEW s, NEW to, NEW from \in {"post_worker", "post_scheduler", "post_event"},
               StopPost(from, s, to)
        PROVE  NobodyWoken'
    <3>1. shutdown_flag
      BY <2>3 DEF StopPost, ShutdownIsStop
    <3>. QED
      BY <2>3, <3>1 DEF StopPost
  <2>4. CASE JoinScheduler \/ JoinWorker
    BY <2>4 DEF JoinScheduler, JoinWorker
  <2>. QED
    BY <1>5, <2>1, <2>2, <2>3, <2>4 DEF JniContinues
<1>6. ASSUME NEW p \in Pairs, SchedulerStep(p), ~SelectTask(p) PROVE NobodyWoken'
  <2>1. CASE SchedulerBoot(p)
    BY <2>1 DEF SchedulerBoot, Attached
  <2>2. CASE SchedulerCheck(p)
    BY <2>2 DEF SchedulerCheck
  <2>3. CASE BeginPass(p) \/ AllocateNext(p) \/ ResolveDeadlock(p) \/ NothingToRun(p)
    BY <2>3 DEF BeginPass, AllocateNext, ResolveDeadlock, Abort, NothingToRun, GoIdle, AfterIdlePass
  <2>4. ASSUME NEW from, NEW s \in Semaphores, NEW to, to # "post_worker",
               s = "worker" => from \in {"post_worker", "exit_worker"},
               SchedulerPosts(p, from, s, to)
        PROVE  NobodyWoken'
    <3>1. s = "worker" => shutdown_flag
      BY <2>4 DEF SchedulerPosts, ShutdownIsStop
    <3>. QED
      BY <2>4, <3>1 DEF SchedulerPosts, Post, Semaphores
  <2>5. ASSUME NEW from, NEW s \in {"scheduler", "event"}, NEW to, to # "post_worker",
               SchedulerWaits(p, from, s, to)
        PROVE  NobodyWoken'
    BY <2>5 DEF SchedulerWaits, SemWait, Semaphores
  <2>. QED
    BY <1>6, <2>1, <2>2, <2>3, <2>4, <2>5 DEF SchedulerStep, Semaphores
<1>7. ASSUME NEW p \in Pairs, WorkerStep(p) PROVE NobodyWoken'
  <2>1. CASE WorkerBoot(p)
    BY <2>1 DEF WorkerBoot, Attached
  <2>2. CASE WorkerCheck(p)
    BY <2>2 DEF WorkerCheck
  <2>3. CASE WorkerWaits(p)
    BY <2>3 DEF WorkerWaits, SemWait
  <2>4. CASE PickupRun(p) \/ PickupReject(p) \/ PickupUnknown(p)
    BY <2>4 DEF PickupRun, PickupReject, PickupUnknown
  <2>5. CASE FinishQuantum(p)
    BY <2>5 DEF FinishQuantum
  <2>6. ASSUME NEW from, NEW s \in {"scheduler", "event"}, NEW to \in {"top", "post_event"},
               WorkerPosts(p, from, s, to)
        PROVE  NobodyWoken'
    BY <2>6 DEF WorkerPosts, Post, Semaphores
  <2>. QED
    BY <1>7, <2>1, <2>2, <2>3, <2>4, <2>5, <2>6 DEF WorkerStep
<1>. QED
  BY <1>1, <1>2, <1>3, <1>4, <1>5, <1>6, <1>7 DEF Next, Stopped, ProcessStep

(* Only submitTask gives an id, and none that is in use.                   *)
LEMMA UniqueIdsStep ==
  ASSUME TypeOK, UniqueIds, Quiet \/ DataStep
  PROVE  UniqueIds'
<1>1. CASE \E j \in Jobs : Submit(j)
  <2>. PICK j \in Jobs : Submit(j)
    BY <1>1
  <2>. DEFINE t == task_count
  <2>1. /\ t \in Idx /\ t \notin Registered /\ Registered' = Registered \cup {t}
        /\ Registered \subseteq Idx
    BY RegisteredTasks, Numbers DEF Submit, Acceptable, Registered, Idx
  <2>2. /\ id' = [id EXCEPT ![t] = j.id] /\ id \in [Idx -> Int]
        /\ j.id >= 0 /\ \A u \in Registered : id[u] # j.id
    BY DEF Submit, Acceptable, TypeOK, TasksTypeOK
  <2>3. id'[t] = j.id /\ \A u \in Registered : id'[u] = id[u]
    BY <2>1, <2>2
  <2>. HIDE DEF t
  <2>. QED
    BY <2>1, <2>2, <2>3 DEF UniqueIds
<1>2. CASE ~ \E j \in Jobs : Submit(j)
  <2>1. id' = id /\ task_count' = task_count
    BY <1>2 DEF Quiet, DataStep, ChangePriority, BeginPass, AllocateNext, ResolveDeadlock, Abort,
                SelectTask, HandOver, NothingToRun, GoIdle, PickupRun, PickupReject, PickupUnknown,
                FinishQuantum, tasks
  <2>. QED
    BY <2>1 DEF UniqueIds, Registered
<1>. QED
  BY <1>1, <1>2

(* A task is out of the queues, waiting for a worker or past it.           *)
Unqueued(t) == state[t] \notin {"NEW", "BLOCKED"} /\ t \notin Range(ready_queue)

(* Besides a selection, a step clears running_task_id, or keeps it and     *)
(* queues no task that it names.                                           *)
LEMMA AssignmentKept ==
  ASSUME SafeInv, Quiet \/ DataStep, ~ \E p \in Pairs : SelectTask(p),
         running_task_id' # NoTask,
         NEW t \in Registered, id[t] = running_task_id, Unqueued(t)
  PROVE  /\ running_task_id' = running_task_id
         /\ t \in Registered' /\ id'[t] = id[t] /\ Unqueued(t)'
<1>. USE DEF Unqueued, Registered
<1>1. /\ ready_queue \in Seq(Registered) /\ state \in [Idx -> TaskStates]
      /\ id \in [Idx -> Int] /\ t \in Idx
  BY RegisteredTasks DEF SafeInv, SoundInv, TypeOK, TasksTypeOK, QueuesTypeOK
<1>2. CASE Quiet
  BY <1>2 DEF Quiet, tasks, queues
<1>3. ASSUME NEW j \in Jobs, Submit(j)
      PROVE  /\ running_task_id' = running_task_id
             /\ t \in Registered' /\ id'[t] = id[t] /\ Unqueued(t)'
  <2>. DEFINE n == task_count
              eff == [effective_priority EXCEPT ![n] = j.priority]
  <2>1. /\ n \in Idx /\ n # t /\ n \in Registered' /\ t \in Registered'
        /\ ready_queue \in Seq(Registered')
        /\ \A u \in Registered' : eff[u] \in Int
    <3>1. n \in Nat /\ n < MAX_TASKS
      BY <1>3, RegisteredTasks DEF SafeInv, SoundInv, Submit, Acceptable
    <3>2. n \in Idx /\ n # t /\ Registered' = 0 .. n /\ Registered' \subseteq Idx
          /\ Registered \subseteq Registered'
      BY <1>3, <3>1, Numbers DEF Submit, Idx
    <3>3. j.priority \in Int32
      BY JobsAssumption
    <3>4. eff \in [Idx -> Int32]
      BY <3>2, <3>3 DEF SafeInv, SoundInv, TypeOK, TasksTypeOK
    <3>5. n \in 0 .. n
      BY <3>1
    <3>. HIDE DEF n, eff
    <3>. QED
      BY <3>2, <3>4, <3>5, <1>1, Numbers, SeqMonotonic
  <2>2. ready_queue' = ready_queue \/ ready_queue' = Reorder(PushTail(ready_queue, n), eff)
    BY <1>3 DEF Submit
  <2>3. Range(ready_queue') \subseteq Range(ready_queue) \cup {n}
    <3>. DEFINE R == Registered'
    <3>. HIDE DEF eff, n, R, Registered
    <3>1. Range(Reorder(PushTail(ready_queue, n), eff)) \subseteq Range(ready_queue) \cup {n}
      BY <2>1, PushSortedProperties DEF R
    <3>. QED
      BY <3>1, <2>2
  <2>4. state'[t] = state[t] /\ id'[t] = id[t] /\ running_task_id' = running_task_id
    BY <1>1, <1>3, <2>1 DEF Submit
  <2>. QED
    BY <2>1, <2>3, <2>4
<1>4. ASSUME NEW i \in Int, NEW priority \in ChangedPriorities, ChangePriority(i, priority)
      PROVE  /\ running_task_id' = running_task_id
             /\ t \in Registered' /\ id'[t] = id[t] /\ Unqueued(t)'
  <2>. DEFINE eff == [u \in Idx |-> IF u \in Registered /\ id[u] = i
                                    THEN priority ELSE effective_priority[u]]
  <2>1. \A u \in Registered : eff[u] \in Int
    <3>1. priority \in Int /\ \A u \in Registered : effective_priority[u] \in Int /\ u \in Idx
      BY ChangedPrioritiesAssumption, Numbers, RegisteredTasks DEF SafeInv, SoundInv
    <3>. QED
      BY <3>1
  <2>2. ready_queue' = ready_queue \/ ready_queue' = Reorder(ready_queue, eff)
    <3>1. eff = [u \in Idx |-> IF u \in {v \in Registered : id[v] = i}
                               THEN priority ELSE effective_priority[u]]
      OBVIOUS
    <3>. QED
      BY <1>4, <3>1 DEF ChangePriority
  <2>. HIDE DEF eff, Registered
  <2>3. Range(ready_queue') = Range(ready_queue)
    BY <2>1, <2>2, <1>1, ReorderProperties
  <2>. QED
    BY <1>4, <2>3 DEF ChangePriority, Registered
<1>5. ASSUME NEW p \in Pairs,
             BeginPass(p) \/ NothingToRun(p) \/ PickupReject(p) \/ PickupUnknown(p)
      PROVE  /\ running_task_id' = running_task_id
             /\ t \in Registered' /\ id'[t] = id[t] /\ Unqueued(t)'
  BY <1>5 DEF BeginPass, NothingToRun, GoIdle, PickupReject, PickupUnknown, Released, queues
<1>6. ASSUME NEW p \in Pairs, AllocateNext(p)
      PROVE  /\ running_task_id' = running_task_id
             /\ t \in Registered' /\ id'[t] = id[t] /\ Unqueued(t)'
  <2>. DEFINE h == Head(blocked_queue)
  <2>1. h \in Registered /\ h \in Range(blocked_queue)
    <3>1. spc[p] = "pass" /\ blocked_left > 0
      BY <1>6 DEF AllocateNext
    <3>2. blocked_queue \in Seq(Registered) /\ blocked_queue # <<>>
      BY <3>1, PassHasTask DEF SafeInv, SoundInv
    <3>. QED
      BY <3>2, TailProperties
  <2>2. state[h] \in {"NEW", "BLOCKED"} /\ h # t
    BY <2>1 DEF SafeInv, SoundInv, QueuedWhereStateSays
  <2>3. /\ UNCHANGED <<id, task_count, running_task_id>> /\ state'[t] = state[t]
        /\ \/ ready_queue' = ready_queue
           \/ ready_queue' = Reorder(PushTail(ready_queue, h), effective_priority)
    BY <1>1, <1>6, <2>2 DEF AllocateNext, Allocate, DropTerminal, MakeReady
  <2>. HIDE DEF h
  <2>4. Range(ready_queue') \subseteq Range(ready_queue) \cup {h}
    <3>. HIDE DEF Registered
    <3>1. \A u \in Registered : effective_priority[u] \in Int
      BY RegisteredTasks DEF SafeInv, SoundInv
    <3>2. Range(Reorder(PushTail(ready_queue, h), effective_priority))
            \subseteq Range(ready_queue) \cup {h}
      BY <3>1, <2>1, <1>1, PushSortedProperties
    <3>. QED
      BY <3>2, <2>3
  <2>. QED
    BY <2>2, <2>3, <2>4
<1>7. ASSUME NEW p \in Pairs, ResolveDeadlock(p)
      PROVE  /\ running_task_id' = running_task_id
             /\ t \in Registered' /\ id'[t] = id[t] /\ Unqueued(t)'
  <2>1. PICK v : /\ state' = [state EXCEPT ![v] = "DEADLOCK_ABORTED"]
                 /\ ready_queue' = RemoveTask(ready_queue, v)
                 /\ running_task_id' = IF running_task_id = id[v] THEN NoTask
                                                                 ELSE running_task_id
    BY <1>7 DEF ResolveDeadlock, Abort
  <2>2. Range(ready_queue') \subseteq Range(ready_queue)
    BY <2>1, <1>1, RemoveTaskProperties
  <2>3. UNCHANGED <<id, task_count>>
    BY <1>7 DEF ResolveDeadlock, Abort
  <2>. QED
    BY <2>1, <2>2, <2>3, <1>1
<1>8. ASSUME NEW p \in Pairs, PickupRun(p)
      PROVE  /\ running_task_id' = running_task_id
             /\ t \in Registered' /\ id'[t] = id[t] /\ Unqueued(t)'
  <2>1. PICK u \in Registered : /\ state' = [state EXCEPT ![u] = "RUNNING"]
                                /\ UNCHANGED running_task_id
    BY <1>8 DEF PickupRun, Finish, Released
  <2>2. UNCHANGED <<id, task_count, ready_queue>>
    BY <1>8 DEF PickupRun, queues
  <2>. QED
    BY <2>1, <2>2, <1>1
<1>9. ASSUME NEW p \in Pairs, FinishQuantum(p)
      PROVE  FALSE
  BY <1>9 DEF FinishQuantum, Finish, Released
<1>. QED
  BY <1>2, <1>3, <1>4, <1>5, <1>6, <1>7, <1>8, <1>9 DEF DataStep

(* The assignment invariant survives every step.                          *)
LEMMA AssignedStep ==
  ASSUME SafeInv, [Next]_vars
  PROVE  AssignedIsNotQueued'
<1>1. Quiet \/ DataStep
  BY StepIsQuietOrData DEF SafeInv, SoundInv
<1>2. ASSUME NEW p \in Pairs, SelectTask(p)
      PROVE  AssignedIsNotQueued'
  <2>. DEFINE t == Head(AgedQueue)
  <2>1. /\ AgedQueue \in Seq(Registered) /\ AgedQueue # <<>>
        /\ Range(AgedQueue) = Range(ready_queue) /\ NoRepeats(AgedQueue)
    <3>1. ready_queue # <<>> /\ ready_queue \in Seq(Registered)
      BY <1>2 DEF SelectTask, HandOver, SafeInv, SoundInv, TypeOK, QueuesTypeOK
    <3>. QED
      BY <3>1, AgingProperties, EmptySeq DEF SafeInv
  <2>2. t \in Registered /\ t \in Range(ready_queue) /\ t \notin Range(Tail(AgedQueue))
    BY <2>1, TailProperties
  <2>3. /\ UNCHANGED <<id, state, task_count>> /\ running_task_id' = id[t]
        /\ ready_queue' = Tail(AgedQueue)
    BY <1>2 DEF SelectTask, HandOver
  <2>4. state[t] = "READY"
    BY <2>2 DEF SafeInv, SoundInv, QueuedWhereStateSays
  <2>. HIDE DEF t
  <2>. QED
    BY <2>2, <2>3, <2>4 DEF AssignedIsNotQueued, Registered
<1>3. CASE ~ \E p \in Pairs : SelectTask(p)
  <2>1. CASE NobodyWoken
    BY <2>1, <1>3, NobodyWokenStep
       DEF SafeInv, SoundInv, AssignmentInv, AssignedIsNotQueued
  <2>2. CASE running_task_id = NoTask
    <3>1. running_task_id' = NoTask
      BY <1>1, <1>3, <2>2
         DEF Quiet, DataStep, Submit, ChangePriority, BeginPass, AllocateNext,
             ResolveDeadlock, Abort, NothingToRun, GoIdle, PickupRun, PickupReject, PickupUnknown,
             FinishQuantum, Finish, Released
    <3>. QED
      BY <3>1 DEF AssignedIsNotQueued
  <2>3. ASSUME NEW t \in Registered, id[t] = running_task_id, Unqueued(t)
        PROVE  AssignedIsNotQueued'
    <3>1. CASE running_task_id' = NoTask
      BY <3>1 DEF AssignedIsNotQueued
    <3>2. CASE running_task_id' # NoTask
      BY <3>2, <1>1, <1>3, <2>3, AssignmentKept DEF AssignedIsNotQueued, Unqueued
    <3>. QED
      BY <3>1, <3>2
  <2>. QED
    BY <2>1, <2>2, <2>3 DEF SafeInv, AssignmentInv, AssignedIsNotQueued, Unqueued
<1>. QED
  BY <1>2, <1>3

--------------------------------------------------------------------------------
(* The invariant *)

(* A new segment satisfies the invariant.                                   *)
LEMMA InitSafeInv == Init => SafeInv
<1>. SUFFICES ASSUME Init PROVE SafeInv
  OBVIOUS
<1>. USE DEF Init
<1>1. Registered = {} /\ task_count \in 0 .. MAX_TASKS /\ \A i \in Idx : i \in Int
  BY Numbers DEF Registered, Idx
<1>2. 0 \in Idx /\ 0 \in Int32
  BY Numbers DEF Idx
<1>3. <<>> \in Seq(Registered) /\ Range(<<>>) = {} /\ Len(<<>>) = 0 /\ DOMAIN <<>> = {}
  BY EmptySeq, LenProperties DEF Range
<1>4. TypeOK
  BY <1>1, <1>2, <1>3
     DEF TypeOK, TasksTypeOK, QueuesTypeOK, ControlTypeOK, TaskStates, Semaphores,
         SchedulerSteps, WorkerSteps, JniSteps
<1>5. PassHasMutex
  BY <1>1, PairsAssumption DEF PassHasMutex
<1>6. ResourceExclusive /\ HoldsWhatStateSays
  BY <1>1 DEF ResourceExclusive, HoldsWhatStateSays
<1>7. QueuedWhereStateSays /\ ReadySorted
  BY <1>1, <1>3 DEF QueuedWhereStateSays, NoRepeats, ReadySorted, SortedBy
<1>8. RunningIsRegistered /\ RunsApart
  BY <1>1 DEF RunningIsRegistered, RunsApart
<1>9. AssignmentInv
  BY <1>1 DEF AssignmentInv, UniqueIds, ShutdownIsStop, AssignedIsNotQueued, NobodyWoken,
              Semaphores
<1>. QED
  BY <1>4, <1>5, <1>6, <1>7, <1>8, <1>9 DEF SafeInv, SoundInv

(* Every step keeps the invariant.                                         *)
LEMMA StepSafeInv == SafeInv /\ [Next]_vars => SafeInv'
<1>. SUFFICES ASSUME SafeInv, [Next]_vars PROVE SafeInv'
  OBVIOUS
<1>1. ControlTypeOK'
  BY ControlTypeStep DEF SafeInv, SoundInv, TypeOK
<1>2. Quiet \/ DataStep
  BY StepIsQuietOrData DEF SafeInv, SoundInv
<1>3. SoundInv'
  <2>1. CASE Quiet
    BY <2>1, <1>1, QuietStep DEF SafeInv
  <2>2. ASSUME NEW j \in Jobs, Submit(j) PROVE SoundInv'
    BY <2>2, <1>1, SubmitStep DEF SafeInv
  <2>3. ASSUME NEW i \in Int, NEW priority \in ChangedPriorities, ChangePriority(i, priority)
        PROVE  SoundInv'
    BY <2>3, <1>1, ChangePriorityStep DEF SafeInv
  <2>4. ASSUME NEW p \in Pairs, BeginPass(p) PROVE SoundInv'
    BY <2>4, <1>1, BeginPassStep DEF SafeInv
  <2>5. ASSUME NEW p \in Pairs, AllocateNext(p) PROVE SoundInv'
    BY <2>5, <1>1, AllocateNextStep DEF SafeInv
  <2>6. ASSUME NEW p \in Pairs, ResolveDeadlock(p) PROVE SoundInv'
    BY <2>6, <1>1, ResolveDeadlockStep DEF SafeInv
  <2>7. ASSUME NEW p \in Pairs, SelectTask(p) PROVE SoundInv'
    BY <2>7, <1>1, SelectTaskStep DEF SafeInv
  <2>8. ASSUME NEW p \in Pairs, NothingToRun(p) PROVE SoundInv'
    BY <2>8, <1>1, NothingToRunStep DEF SafeInv
  <2>9. ASSUME NEW p \in Pairs, PickupRun(p) PROVE SoundInv'
    BY <2>9, <1>1, PickupRunStep
  <2>10. ASSUME NEW p \in Pairs, PickupReject(p) \/ PickupUnknown(p) PROVE SoundInv'
    BY <2>10, <1>1, PickupDropStep DEF SafeInv
  <2>11. ASSUME NEW p \in Pairs, FinishQuantum(p) PROVE SoundInv'
    BY <2>11, <1>1, FinishQuantumStep DEF SafeInv
  <2>. QED
    BY <1>2, <2>1, <2>2, <2>3, <2>4, <2>5, <2>6, <2>7, <2>8, <2>9, <2>10, <2>11
       DEF DataStep
<1>4. AssignmentInv'
  <2>1. UniqueIds'
    BY <1>2, UniqueIdsStep DEF SafeInv, SoundInv, AssignmentInv
  <2>2. ShutdownIsStop'
    BY ShutdownStep DEF SafeInv, SoundInv, TypeOK, AssignmentInv
  <2>. QED
    BY <2>1, <2>2, AssignedStep DEF AssignmentInv
<1>. QED
  BY <1>3, <1>4 DEF SafeInv

--------------------------------------------------------------------------------
(* Without kills *)

(* The owner of the mutex is in its pass: it gives it back when it leaves. *)
LEMMA OwnerStep ==
  ASSUME IInv, Quiet \/ DataStep, NEW q \in Pairs, mutex' = q
  PROVE  spc'[q] = "pass"
<1>1. /\ spc[q] = "pass" <=> mutex = q
      /\ spc \in [Pairs -> SchedulerSteps] /\ q # Free
  BY PairsAssumption DEF IInv, DataInv, PassOwnsMutex, TypeOK, ControlTypeOK
<1>2. CASE Quiet
  BY <1>1, <1>2 DEF Quiet
<1>3. CASE UNCHANGED <<mutex, spc>>
  BY <1>1, <1>3
<1>4. ASSUME NEW p \in Pairs, BeginPass(p)  PROVE spc'[q] = "pass"
  BY <1>1, <1>4 DEF BeginPass
<1>5. ASSUME NEW p \in Pairs, SelectTask(p) \/ NothingToRun(p)  PROVE FALSE
  BY <1>1, <1>5 DEF SelectTask, HandOver, NothingToRun, GoIdle, ReleasePass
<1>6. CASE DataStep /\ ~ \E p \in Pairs : BeginPass(p) \/ SelectTask(p) \/ NothingToRun(p)
  BY <1>3, <1>6 DEF DataStep, Submit, ChangePriority, AllocateNext, ResolveDeadlock, PickupRun,
                    PickupReject, PickupUnknown, FinishQuantum
<1>. QED
  BY <1>2, <1>4, <1>5, <1>6

(* A RUNNING task has a worker that runs it.                               *)
LEMMA RunnerStep ==
  ASSUME IInv, Quiet \/ DataStep, NEW u \in Registered', state'[u] = "RUNNING"
  PROVE  \E r \in Pairs : wpc'[r] = "running" /\ current'[r] = u
<1>1. /\ \A t \in Registered : state[t] = "RUNNING"
                               => \E r \in Pairs : wpc[r] = "running" /\ current[r] = t
      /\ Registered \subseteq Idx /\ state \in [Idx -> TaskStates]
      /\ current \in [Pairs -> Idx] /\ wpc \in [Pairs -> WorkerSteps]
  BY RegisteredTasks
     DEF IInv, DataInv, RunsOnOneWorker, TypeOK, TasksTypeOK, ControlTypeOK
<1>2. ASSUME u \in Registered, state[u] = "RUNNING",
             \A r \in Pairs : wpc[r] = "running" /\ current[r] = u
                              => wpc'[r] = "running" /\ current'[r] = u
      PROVE  \E r \in Pairs : wpc'[r] = "running" /\ current'[r] = u
  BY <1>1, <1>2
<1>3. CASE Quiet
  BY <1>2, <1>3 DEF Quiet, tasks, locals, Registered
<1>4. ASSUME NEW j \in Jobs, Submit(j)
      PROVE  u \in Registered /\ state[u] = "RUNNING"
  <2>1. /\ task_count \in Idx /\ Registered' = Registered \cup {task_count}
    BY <1>4, RegisteredTasks, Numbers
       DEF Submit, Acceptable, Registered, Idx, IInv, DataInv
  <2>2. \E x \in {"READY", "NEW"} : state' = [state EXCEPT ![task_count] = x]
    BY <1>4 DEF Submit
  <2>. QED
    BY <1>1, <2>1, <2>2
<1>5. ASSUME NEW p \in Pairs, PickupRun(p)
      PROVE  \E r \in Pairs : wpc'[r] = "running" /\ current'[r] = u
  <2>1. PICK t \in Registered :
          /\ Runnable(t)
          /\ \/ Finish(t)
             \/ /\ state' = [state EXCEPT ![t] = "RUNNING"]
                /\ current' = [current EXCEPT ![p] = t]
                /\ wpc' = [wpc EXCEPT ![p] = "running"]
    BY <1>5 DEF PickupRun
  <2>2. Registered' = Registered /\ wpc[p] # "running"
    BY <1>5 DEF PickupRun, Registered
  <2>3. \A r \in Pairs \ {p} : wpc'[r] = wpc[r] /\ current'[r] = current[r]
    BY <1>1, <1>5 DEF PickupRun, locals
  <2>4. CASE u = t
    <3>1. current'[p] = t /\ wpc'[p] = "running"
      BY <1>1, <2>1, <2>4 DEF Finish
    <3>. QED
      BY <2>4, <3>1
  <2>5. CASE u # t
    <3>1. \E x \in {"FINISHED", "RUNNING"} : state' = [state EXCEPT ![t] = x]
      BY <2>1 DEF Finish
    <3>2. t \in Idx /\ u \in Idx /\ u \in Registered
      BY <1>1, <2>2
    <3>3. state[u] = "RUNNING"
      BY <1>1, <2>5, <3>1, <3>2
    <3>. QED
      BY <1>2, <2>2, <2>3, <3>2, <3>3
  <2>. QED
    BY <2>4, <2>5
<1>6. ASSUME NEW p \in Pairs, FinishQuantum(p)
      PROVE  \E r \in Pairs : wpc'[r] = "running" /\ current'[r] = u
  <2>. DEFINE t == current[p]
  <2>1. /\ t \in Idx
        /\ state' = [state EXCEPT ![t] = "FINISHED"] \/ state' = [state EXCEPT ![t] = "READY"]
        /\ wpc' = [wpc EXCEPT ![p] = "post"] /\ current' = [current EXCEPT ![p] = 0]
        /\ Registered' = Registered
    BY <1>1, <1>6 DEF FinishQuantum, Finish, Registered
  <2>. HIDE DEF t
  <2>2. u # t /\ state[u] = "RUNNING"
    BY <1>1, <2>1
  <2>3. \A r \in Pairs : current[r] = u => r # p
    BY <2>2 DEF t
  <2>. QED
    BY <1>1, <1>2, <2>1, <2>2, <2>3
<1>7. ASSUME NEW p \in Pairs,
             \/ BeginPass(p) \/ AllocateNext(p) \/ ResolveDeadlock(p) \/ SelectTask(p)
             \/ NothingToRun(p) \/ PickupReject(p) \/ PickupUnknown(p)
      PROVE  u \in Registered /\ state[u] = "RUNNING"
  <2>1. Registered' = Registered
    BY <1>7 DEF BeginPass, AllocateNext, ResolveDeadlock, SelectTask, HandOver, NothingToRun,
                GoIdle, PickupReject, PickupUnknown, tasks, Registered
  <2>2. u \in Idx /\ state'[u] = "RUNNING"
    BY <1>1, <2>1
  <2>3. state[u] = "RUNNING"
    <3>1. CASE AllocateNext(p)
      <4>. DEFINE h == Head(blocked_queue)
      <4>1. \/ state' = state
            \/ state' = [state EXCEPT ![h] = "READY"]
            \/ state' = [state EXCEPT ![h] = "BLOCKED"]
        BY <3>1 DEF AllocateNext, Allocate, DropTerminal
      <4>. HIDE DEF h
      <4>. QED
        BY <1>1, <2>2, <4>1
    <3>2. CASE ResolveDeadlock(p)
      <4>1. PICK v : state' = [state EXCEPT ![v] = "DEADLOCK_ABORTED"]
        BY <3>2 DEF ResolveDeadlock, Abort
      <4>. QED
        BY <1>1, <2>2, <4>1
    <3>3. CASE BeginPass(p) \/ SelectTask(p) \/ NothingToRun(p)
      BY <2>2, <3>3 DEF BeginPass, SelectTask, HandOver, NothingToRun, GoIdle, tasks
    <3>4. CASE PickupReject(p) \/ PickupUnknown(p)
      BY <2>2, <3>4 DEF PickupReject, PickupUnknown, tasks
    <3>. QED
      BY <1>7, <3>1, <3>2, <3>3, <3>4
  <2>. QED
    BY <2>1, <2>3
<1>8. ASSUME NEW p \in Pairs, PickupReject(p) \/ PickupUnknown(p), NEW r \in Pairs,
             wpc[r] = "running"
      PROVE  wpc'[r] = "running" /\ current' = current
  BY <1>1, <1>8 DEF PickupReject, PickupUnknown, locals
<1>9. ASSUME DataStep, ~ \E p \in Pairs : \/ PickupRun(p) \/ FinishQuantum(p)
                                          \/ PickupReject(p) \/ PickupUnknown(p)
      PROVE  wpc' = wpc /\ current' = current
  BY <1>9 DEF DataStep, Submit, ChangePriority, BeginPass, AllocateNext, ResolveDeadlock, SelectTask,
              HandOver, NothingToRun, GoIdle, locals
<1>10. ASSUME NEW i, NEW priority, ChangePriority(i, priority)
       PROVE  u \in Registered /\ state[u] = "RUNNING"
  BY <1>10 DEF ChangePriority, Registered
<1>11. CASE DataStep /\ ~ \E p \in Pairs : PickupRun(p) \/ FinishQuantum(p)
  <2>1. u \in Registered /\ state[u] = "RUNNING"
    BY <1>4, <1>7, <1>10, <1>11 DEF DataStep
  <2>2. \A r \in Pairs : wpc[r] = "running" => wpc'[r] = "running" /\ current'[r] = current[r]
    BY <1>8, <1>9, <1>11
  <2>. QED
    BY <1>2, <2>1, <2>2
<1>. QED
  BY <1>3, <1>5, <1>6, <1>11

(* IInv says all that SafeInv does.                                        *)
LEMMA IInvIsSafe == IInv => SafeInv /\ SoundInv /\ PassHasMutex
BY DEF IInv, DataInv, SafeInv, SoundInv, PassOwnsMutex, PassHasMutex, RunsOnOneWorker, RunsApart

(* A new segment satisfies IInv.                                           *)
LEMMA InitIInv == Init => IInv
<1>. SUFFICES ASSUME Init PROVE IInv
  OBVIOUS
<1>1. PassOwnsMutex
  BY PairsAssumption DEF Init, PassOwnsMutex
<1>2. \A t \in Registered : FALSE
  BY DEF Init, Registered
<1>3. RunsOnOneWorker
  BY <1>2 DEF Init, RunsOnOneWorker
<1>. QED
  BY <1>1, <1>3, InitSafeInv DEF SafeInv, SoundInv, IInv, DataInv

(* Every step keeps the invariant.                                         *)
LEMMA StepIInv == IInv /\ [Next]_vars => IInv'
<1>. SUFFICES ASSUME IInv, [Next]_vars PROVE IInv'
  OBVIOUS
<1>1. SafeInv'
  BY IInvIsSafe, StepSafeInv
<1>2. Quiet \/ DataStep
  BY StepIsQuietOrData DEF IInv, DataInv
<1>3. PassOwnsMutex'
  BY <1>1, <1>2, OwnerStep DEF SafeInv, SoundInv, PassHasMutex, PassOwnsMutex
<1>4. RunsOnOneWorker'
  BY <1>1, <1>2, RunnerStep DEF SafeInv, SoundInv, RunsApart, RunsOnOneWorker
<1>. QED
  BY <1>1, <1>3, <1>4 DEF SafeInv, SoundInv, IInv, DataInv

--------------------------------------------------------------------------------
(* With kills *)

(* Sound, or nobody will ever have the mutex again: what the task table    *)
(* is like then matters to no process.                                     *)
KillsInv == SafeInv \/ (ControlTypeOK /\ ShutdownIsStop /\ Abandoned)

LEMMA KillsControl ==
  ASSUME KillsInv
  PROVE  ControlTypeOK /\ ShutdownIsStop /\ \A p \in Pairs : spc[p] = "pass" => mutex = p
BY DEF KillsInv, SafeInv, SoundInv, AssignmentInv, TypeOK, PassHasMutex, Abandoned

(* A process that is killed between two critical sections, or two tasks of *)
(* a pass, takes nothing and gives nothing back.                           *)
LEMMA KillBetween ==
  ASSUME KillsInv, NEW p \in Pairs, KillScheduler(p) \/ KillWorker(p)
  PROVE  KillsInv'
<1>1. /\ UNCHANGED <<tasks, task_count, queues, running_task_id, mutex, sem, shutdown_flag,
                     pass, locals, jpc, handles>>
      /\ Registered' = Registered
  BY DEF KillScheduler, KillWorker, SchedulerDies, WorkerDies, Registered, tasks, queues
<1>2. /\ spc \in [Pairs -> SchedulerSteps] /\ wpc \in [Pairs -> WorkerSteps]
      /\ spc' \in [Pairs -> SchedulerSteps] /\ wpc' \in [Pairs -> WorkerSteps]
      /\ \A r \in Pairs : /\ spc'[r] \in {spc[r], "done"}
                          /\ wpc'[r] \in {wpc[r], "done"}
  BY KillsControl DEF KillScheduler, KillWorker, SchedulerDies, WorkerDies, ControlTypeOK,
                      SchedulerSteps, WorkerSteps
<1>3. ControlTypeOK' /\ ShutdownIsStop'
  BY <1>1, <1>2, KillsControl DEF ControlTypeOK, ShutdownIsStop, pass, locals, handles
<1>4. CASE Abandoned
  BY <1>1, <1>2, <1>3, <1>4 DEF KillsInv, Abandoned
<1>5. CASE SafeInv
  <2>1. TypeOK'
    BY <1>1, <1>3, <1>5 DEF SafeInv, SoundInv, TypeOK, TasksTypeOK, QueuesTypeOK, tasks, queues
  <2>2. PassHasMutex' /\ RunsApart' /\ RunningIsRegistered'
    BY <1>1, <1>2, <1>5 DEF SafeInv, SoundInv, PassHasMutex, RunsApart, RunningIsRegistered,
                            tasks, queues, pass, locals
  <2>3. ResourceExclusive' /\ HoldsWhatStateSays' /\ QueuedWhereStateSays' /\ ReadySorted'
    BY <1>1, <1>5 DEF SafeInv, SoundInv, ResourceExclusive, HoldsWhatStateSays, Terminal,
                      QueuedWhereStateSays, ReadySorted, tasks, queues
  <2>4. UniqueIds'
    BY <1>1, <1>5 DEF SafeInv, AssignmentInv, UniqueIds, tasks
  <2>5. NobodyWoken => NobodyWoken'
    BY <1>1, <1>2 DEF NobodyWoken
  <2>6. AssignedIsNotQueued'
    BY <1>1, <1>5, <2>5 DEF SafeInv, AssignmentInv, AssignedIsNotQueued, tasks, queues
  <2>. QED
    BY <1>3, <2>1, <2>2, <2>3, <2>4, <2>6 DEF KillsInv, SafeInv, SoundInv, AssignmentInv
<1>. QED
  BY <1>4, <1>5 DEF KillsInv

(* What a kill inside a critical section does to the processes.            *)
LEMMA KillInside ==
  ASSUME KillsInv, NEW p \in Pairs,
         \/ KillInAllocation(p) \/ KillInAbort(p) \/ KillInSelection(p)
         \/ KillInPickup(p) \/ KillInQuantum(p)
  PROVE  /\ mutex' = p
         /\ \/ spc[p] = "pass" /\ spc' = [spc EXCEPT ![p] = "done"] /\ wpc' = wpc
            \/ /\ mutex = Free /\ wpc[p] \in {"pickup", "running"}
               /\ wpc' = [wpc EXCEPT ![p] = "done"] /\ spc' = spc
         /\ UNCHANGED <<sem, shutdown_flag, pass, locals, jpc, handles>>
BY DEF KillInAllocation, KillInAbort, KillInSelection, KillInPickup, KillInQuantum, StaysLocked,
       SchedulerDies, WorkerDies

(* The mutex of a process that is killed inside a critical section is lost.*)
LEMMA KillAbandons ==
  ASSUME KillsInv, NEW p \in Pairs,
         \/ KillInAllocation(p) \/ KillInAbort(p) \/ KillInSelection(p)
         \/ KillInPickup(p) \/ KillInQuantum(p)
  PROVE  KillsInv'
<1>1. /\ ControlTypeOK /\ ShutdownIsStop
      /\ \A q \in Pairs : spc[q] = "pass" => mutex = q
  BY KillsControl
<1>2. ControlTypeOK' /\ ShutdownIsStop'
  BY <1>1, KillInside DEF ControlTypeOK, ShutdownIsStop, SchedulerSteps, WorkerSteps, pass,
                          locals, handles
<1>3. Abandoned'
  BY <1>1, KillInside, PairsAssumption DEF ControlTypeOK, Abandoned
<1>. QED
  BY <1>2, <1>3 DEF KillsInv

(* Once the mutex is lost, no step touches the tasks.                      *)
LEMMA StepAbandoned ==
  ASSUME ControlTypeOK, ShutdownIsStop, Abandoned, [Next]_vars
  PROVE  (ControlTypeOK /\ ShutdownIsStop /\ Abandoned)'
<1>1. ~DataStep
  BY DEF DataStep, Abandoned, Submit, ChangePriority, BeginPass, AllocateNext, ResolveDeadlock,
         SelectTask, HandOver, NothingToRun, GoIdle, PickupRun, PickupReject, PickupUnknown,
         FinishQuantum
<1>2. Abandoned'
  BY <1>1, QuietOrData DEF Quiet, Abandoned
<1>. QED
  BY <1>2, ControlTypeStep, ShutdownStep

LEMMA InitKillsInv == Init => KillsInv
BY InitSafeInv DEF KillsInv

LEMMA StepKillsInv == KillsInv /\ [KillsNext]_vars => KillsInv'
<1>. SUFFICES ASSUME KillsInv, [KillsNext]_vars PROVE KillsInv'
  OBVIOUS
<1>1. CASE [Next]_vars
  BY <1>1, StepSafeInv, StepAbandoned DEF KillsInv
<1>2. ASSUME NEW p \in Pairs, Kill(p) PROVE KillsInv'
  BY <1>2, KillBetween, KillAbandons DEF Kill
<1>. QED
  BY <1>1, <1>2 DEF KillsNext

(* Whichever processes are killed, and wherever, between critical sections *)
(* or inside one: as long as the mutex is free, no resource is held twice, *)
(* every task holds what its state says and is in the queue that its state *)
(* says.                                                                   *)
THEOREM KillsKeepUnlockedSound == KillsSpec => []UnlockedIsSound
<1>1. KillsInv => UnlockedIsSound
  BY DEF KillsInv, Abandoned, SafeInv, SoundInv, UnlockedIsSound
<1>. QED
  BY <1>1, InitKillsInv, StepKillsInv, PTL DEF KillsSpec

--------------------------------------------------------------------------------
(* Safety, as theorems *)

(* Every reachable state satisfies the inductive invariant, with any number*)
(* of pairs, tasks and resources.                                          *)
THEOREM Invariance == Spec => []IInv
BY InitIInv, StepIInv, PTL DEF Spec

(* Every variable keeps its type: the queues hold registered tasks only,   *)
(* the priorities stay ints.                                               *)
THEOREM TypeCorrect == Spec => []TypeOK
<1>1. IInv => TypeOK
  BY DEF IInv, DataInv
<1>. QED
  BY <1>1, Invariance, PTL

(* No resource is ever held by two tasks.                                  *)
THEOREM ResourcesAreExclusive == Spec => []ResourceExclusive
<1>1. IInv => ResourceExclusive
  BY DEF IInv, DataInv
<1>. QED
  BY <1>1, Invariance, PTL

(* What a task holds always fits its state.                                *)
THEOREM HoldingsFitStates == Spec => []HoldsWhatStateSays
<1>1. IInv => HoldsWhatStateSays
  BY DEF IInv, DataInv
<1>. QED
  BY <1>1, Invariance, PTL

(* Where a task is queued always fits its state.                           *)
THEOREM QueuesFitStates == Spec => []QueuedWhereStateSays
<1>1. IInv => QueuedWhereStateSays
  BY DEF IInv, DataInv
<1>. QED
  BY <1>1, Invariance, PTL

(* No task is ever run by two workers, however many were started.          *)
THEOREM TasksRunOnOneWorker == Spec => []RunsOnOneWorker
<1>1. IInv => RunsOnOneWorker
  BY DEF IInv, DataInv
<1>. QED
  BY <1>1, Invariance, PTL

(* While a worker may look up its task, no queued task has the id it finds.*)
THEOREM AssignmentsAreNotQueued == Spec => []AssignedIsNotQueued
<1>1. IInv => AssignedIsNotQueued
  BY DEF IInv, AssignmentInv
<1>. QED
  BY <1>1, Invariance, PTL

--------------------------------------------------------------------------------
(* What a step may never do *)

(* A pass that ends with a selection is a SelectTask step.                 *)
LEMMA SelectionStep ==
  ASSUME TypeOK, [Next]_vars, NEW p \in Pairs, spc[p] = "pass", spc'[p] = "post_worker"
  PROVE  SelectTask(p)
<1>. USE DEF TypeOK, ControlTypeOK
<1>1. ~ UNCHANGED vars
  BY DEF vars
<1>2. ASSUME NEW q \in Pairs, Start(q) PROVE FALSE
  <2>1. spc[q] = "unborn" /\ \E s \in {"boot", "done"} : spc' = [spc EXCEPT ![q] = s]
    BY <1>2 DEF Start, Forked
  <2>. QED
    BY <2>1
<1>3. ~(Stop \/ JniContinues)
  BY DEF Stop, JniContinues, Notify, StopPost, JoinScheduler, JoinWorker
<1>4. /\ ~ \E j \in Jobs : Submit(j)
      /\ ~ \E i \in {j.id : j \in Jobs}, priority \in ChangedPriorities :
             ChangePriority(i, priority)
  BY DEF Submit, ChangePriority
<1>5. ASSUME NEW q \in Pairs, WorkerStep(q) PROVE FALSE
  <2>1. spc' = spc
    BY <1>5 DEF WorkerStep, WorkerBoot, WorkerCheck, WorkerWaits, PickupRun, PickupReject,
                PickupUnknown, FinishQuantum, WorkerPosts
  <2>. QED
    BY <2>1
<1>6. ASSUME NEW q \in Pairs, SchedulerStep(q) PROVE SelectTask(p)
  <2>1. \E from, to : spc[q] = from /\ spc' = [spc EXCEPT ![q] = to]
    BY <1>6 DEF SchedulerStep, SchedulerBoot, SchedulerCheck, BeginPass, AllocateNext,
                ResolveDeadlock, Abort, SelectTask, HandOver, NothingToRun, GoIdle, SchedulerPosts, SchedulerWaits
  <2>2. q = p
    BY <2>1
  <2>3. ~(SchedulerBoot(p) \/ SchedulerCheck(p) \/ BeginPass(p) \/ AllocateNext(p)
          \/ ResolveDeadlock(p) \/ NothingToRun(p))
    BY DEF SchedulerBoot, SchedulerCheck, BeginPass, AllocateNext, ResolveDeadlock, Abort,
           NothingToRun, GoIdle, AfterIdlePass
  <2>4. ASSUME NEW from, NEW s, NEW to, from # "pass",
               SchedulerPosts(p, from, s, to) \/ SchedulerWaits(p, from, s, to)
        PROVE  FALSE
    BY <2>4 DEF SchedulerPosts, SchedulerWaits
  <2>. QED
    BY <1>6, <2>2, <2>3, <2>4 DEF SchedulerStep
<1>. QED
  BY <1>1, <1>2, <1>3, <1>4, <1>5, <1>6 DEF Next, Stopped, ProcessStep

(* The task that a pass hands to the worker has the highest priority of    *)
(* all that were ready, after the priorities were raised by aging.         *)
THEOREM HighestIsFirst == Spec => HighestFirst
<1>. DEFINE A == \A p \in Pairs : spc[p] = "pass" /\ spc'[p] = "post_worker" =>
       \E t \in Range(ready_queue) :
         /\ running_task_id' = id[t]
         /\ \A u \in Range(ready_queue') : AgedPriority[t] >= effective_priority'[u]
<1>1. IInv /\ [Next]_vars => A
  <2>. SUFFICES ASSUME IInv, [Next]_vars, NEW p \in Pairs,
                       spc[p] = "pass", spc'[p] = "post_worker"
                PROVE  \E t \in Range(ready_queue) :
                         /\ running_task_id' = id[t]
                         /\ \A u \in Range(ready_queue') :
                              AgedPriority[t] >= effective_priority'[u]
    OBVIOUS
  <2>. DEFINE t == Head(AgedQueue)
              q == Tail(AgedQueue)
  <2>1. SelectTask(p)
    BY SelectionStep DEF IInv, DataInv
  <2>2. /\ running_task_id' = id[t]
        /\ effective_priority' = [AgedPriority EXCEPT ![t] = base_priority[t]]
        /\ ready_queue' = q /\ ready_queue # <<>>
    BY <2>1 DEF SelectTask, HandOver
  <2>3. /\ AgedQueue \in Seq(Registered) /\ AgedQueue # <<>>
        /\ Range(AgedQueue) = Range(ready_queue) /\ NoRepeats(AgedQueue)
        /\ SortedBy(AgedQueue, AgedPriority)
        /\ AgedPriority \in [Idx -> Int32]
    BY <2>2, IInvIsSafe, AgingProperties, EmptySeq DEF IInv, DataInv, TypeOK, QueuesTypeOK
  <2>. HIDE DEF t, q
  <2>4. /\ t \in Range(ready_queue) /\ t \notin Range(q) /\ q \in Seq(Registered)
        /\ \A u \in Range(q) : AgedPriority[t] >= AgedPriority[u]
    BY <2>3, TailProperties, SortedTail DEF t, q
  <2>5. \A u \in Range(q) : effective_priority'[u] = AgedPriority[u]
    <3>1. Range(q) \subseteq Idx
      BY <2>4, RangeIsImage, RegisteredTasks DEF IInv, DataInv
    <3>. QED
      BY <3>1, <2>2, <2>3, <2>4
  <2>. QED
    BY <2>2, <2>4, <2>5
<1>. QED
  BY <1>1, Invariance, PTL DEF Spec, HighestFirst

(* A task keeps what it was granted until it ends: no step takes a         *)
(* resource from a task that is not finished or aborted.                   *)
THEOREM ResourcesAreKept == Spec => KeepsResources
<1>. DEFINE A == \A t \in Registered : held[t] \subseteq held'[t] \/ Terminal(t)'
<1>1. IInv /\ [Next]_vars => A
  <2>. SUFFICES ASSUME IInv, [Next]_vars, NEW t \in Registered
                PROVE  held[t] \subseteq held'[t] \/ state'[t] \in {"FINISHED", "DEADLOCK_ABORTED"}
    BY DEF Terminal
  <2>1. t \in Idx /\ held \in [Idx -> SUBSET Resources] /\ state \in [Idx -> TaskStates]
    BY RegisteredTasks DEF IInv, DataInv, TypeOK, TasksTypeOK
  <2>2. HeldByLive = held
    BY IInvIsSafe, HeldByLiveIsHeld
  <2>3. Quiet \/ DataStep
    BY StepIsQuietOrData DEF IInv, DataInv
  <2>4. CASE Quiet
    BY <2>4 DEF Quiet, tasks
  <2>5. ASSUME NEW j \in Jobs, Submit(j) PROVE held'[t] = held[t]
    <3>1. t # task_count
      BY RegisteredTasks DEF IInv, DataInv, Registered
    <3>. QED
      BY <2>1, <2>5, <3>1 DEF Submit
  <2>6. ASSUME NEW i, NEW priority, ChangePriority(i, priority) PROVE held' = held
    BY <2>6 DEF ChangePriority
  <2>7. ASSUME NEW p \in Pairs, BeginPass(p) \/ SelectTask(p) \/ NothingToRun(p)
        PROVE  held' = held
    BY <2>2, <2>7 DEF BeginPass, SelectTask, HandOver, NothingToRun, GoIdle
  <2>8. ASSUME NEW p \in Pairs, AllocateNext(p)
        PROVE  held[t] \subseteq held'[t] \/ state'[t] \in {"FINISHED", "DEADLOCK_ABORTED"}
    <3>. DEFINE h == Head(blocked_queue)
    <3>1. \/ /\ held' = [held EXCEPT ![h] = held[h] \cup Granted(h)]
          \/ /\ held' = [held EXCEPT ![h] = {}]
             /\ state' = state /\ Terminal(h)
      BY <2>8 DEF AllocateNext, Allocate, DropTerminal
    <3>. QED
      BY <2>1, <3>1 DEF Terminal
  <2>9. ASSUME NEW p \in Pairs, ResolveDeadlock(p)
        PROVE  held[t] \subseteq held'[t] \/ state'[t] \in {"FINISHED", "DEADLOCK_ABORTED"}
    <3>1. PICK v : /\ state' = [state EXCEPT ![v] = "DEADLOCK_ABORTED"]
                   /\ held' = [held EXCEPT ![v] = {}]
      BY <2>9 DEF ResolveDeadlock, Abort
    <3>. QED
      BY <2>1, <3>1
  <2>10. ASSUME NEW u, Finish(u)
         PROVE  held[t] \subseteq held'[t] \/ state'[t] \in {"FINISHED", "DEADLOCK_ABORTED"}
    BY <2>1, <2>10 DEF Finish, Released
  <2>11. ASSUME NEW p \in Pairs, PickupRun(p) \/ FinishQuantum(p)
         PROVE  held' = held \/ \E u : Finish(u)
    BY <2>11 DEF PickupRun, FinishQuantum
  <2>12. ASSUME NEW p \in Pairs, PickupReject(p) \/ PickupUnknown(p)
         PROVE  held' = held
    BY <2>12 DEF PickupReject, PickupUnknown, Released, tasks
  <2>. QED
    BY <2>3, <2>4, <2>5, <2>6, <2>7, <2>8, <2>9, <2>10, <2>11, <2>12 DEF DataStep
<1>. QED
  BY <1>1, Invariance, PTL DEF Spec, KeepsResources

(* Every task of a wait-for cycle waits for what another of them holds.    *)
LEMMA CyclesAreStuck ==
  ASSUME TypeOK, NEW c \in WaitCycles
  PROVE  Range(c) \in SUBSET Registered /\ Stuck(Range(c))
<1>1. PICK n \in 1 .. task_count : c \in [1 .. n -> Registered]
  BY DEF WaitCycles
<1>2. n \in Nat /\ n > 0
  BY <1>1, RegisteredTasks
<1>3. c \in Seq(Registered) /\ Len(c) = n /\ DOMAIN c = 1 .. n
  BY <1>1, <1>2, LenProperties
<1>4. Range(c) = {c[k] : k \in 1 .. n}
  BY <1>3 DEF Range
<1>5. \A k \in 1 .. n : (k % n) + 1 \in 1 .. n
  BY <1>2
<1>6. \A k \in 1 .. n : WaitsFor(c[k], c[(k % n) + 1])
  BY <1>3 DEF WaitCycles
<1>7. \A k \in 1 .. n : state[c[k]] = "BLOCKED"
  BY <1>6 DEF WaitsFor
<1>8. \A k \in 1 .. n : \E u \in Range(c) : (required[c[k]] \ held[c[k]]) \cap held[u] # {}
  <2>1. \A k \in 1 .. n : c[(k % n) + 1] \in Range(c)
    BY <1>4, <1>5
  <2>2. \A k \in 1 .. n :
          (required[c[k]] \ held[c[k]]) \cap held[c[(k % n) + 1]] # {}
    BY <1>6 DEF WaitsFor
  <2>. QED
    BY <2>1, <2>2
<1>9. Range(c) \subseteq Registered
  BY <1>1, <1>4
<1>. QED
  BY <1>4, <1>7, <1>8, <1>9 DEF Stuck

(* A task is aborted only out of a deadlock: it is one of a set of tasks   *)
(* each of which waits for what another of them holds.                     *)
THEOREM AbortsBreakDeadlocks == Spec => OnlyDeadlockedAborted
<1>. DEFINE A == \A t \in Registered :
       state'[t] = "DEADLOCK_ABORTED" /\ state[t] # "DEADLOCK_ABORTED"
         => \E S \in SUBSET Registered : t \in S /\ Stuck(S)
<1>1. IInv /\ [Next]_vars => A
  <2>. SUFFICES ASSUME IInv, [Next]_vars, NEW t \in Registered,
                       state'[t] = "DEADLOCK_ABORTED", state[t] # "DEADLOCK_ABORTED"
                PROVE  \E S \in SUBSET Registered : t \in S /\ Stuck(S)
    OBVIOUS
  <2>1. t \in Idx /\ state \in [Idx -> TaskStates]
    BY RegisteredTasks DEF IInv, DataInv, TypeOK, TasksTypeOK
  <2>2. Quiet \/ DataStep
    BY StepIsQuietOrData DEF IInv, DataInv
  <2>3. ~Quiet
    BY DEF Quiet, tasks
  <2>4. ASSUME NEW u, NEW s, s # "DEADLOCK_ABORTED", state' = [state EXCEPT ![u] = s]
        PROVE  FALSE
    BY <2>1, <2>4
  <2>5. ASSUME NEW j \in Jobs, Submit(j) PROVE FALSE
    BY <2>4, <2>5 DEF Submit
  <2>6. ASSUME NEW i, NEW priority, ChangePriority(i, priority) PROVE FALSE
    BY <2>6 DEF ChangePriority
  <2>7. ASSUME NEW p \in Pairs,
               \/ BeginPass(p) \/ SelectTask(p) \/ NothingToRun(p)
               \/ PickupReject(p) \/ PickupUnknown(p)
        PROVE  FALSE
    BY <2>7 DEF BeginPass, SelectTask, HandOver, NothingToRun, GoIdle, PickupReject, PickupUnknown, tasks
  <2>8. ASSUME NEW p \in Pairs, AllocateNext(p) PROVE FALSE
    BY <2>4, <2>8 DEF AllocateNext, Allocate, DropTerminal
  <2>9. ASSUME NEW p \in Pairs, PickupRun(p) \/ FinishQuantum(p) PROVE FALSE
    <3>1. \E u : \E s \in {"READY", "RUNNING", "FINISHED"} : state' = [state EXCEPT ![u] = s]
      BY <2>9 DEF PickupRun, FinishQuantum, Finish, Released
    <3>. QED
      BY <2>4, <3>1
  <2>10. PICK p \in Pairs : ResolveDeadlock(p)
    BY <2>2, <2>3, <2>5, <2>6, <2>7, <2>8, <2>9 DEF DataStep
  <2>11. PICK c \in WaitCycles : \E v \in Victims(c) :
           state' = [state EXCEPT ![v] = "DEADLOCK_ABORTED"]
    BY <2>10 DEF ResolveDeadlock, Abort
  <2>12. t \in Range(c)
    BY <2>1, <2>11 DEF Victims
  <2>. QED
    BY <2>11, <2>12, CyclesAreStuck DEF IInv, DataInv
<1>. QED
  BY <1>1, Invariance, PTL DEF Spec, OnlyDeadlockedAborted

--------------------------------------------------------------------------------
(* Times: some is left until a task ends, and a worker sleeps for the      *)
(* quantum, or less if less is left.  And the ids are those of jobs.       *)
Distinct(ids, n) == \A t, u \in 0 .. n - 1 : ids[t] = ids[u] => t = u

Slice(x) == IF x < QUANTUM THEN x ELSE QUANTUM

IdsAreKnown == \A t \in Registered : id[t] \in {j.id : j \in Jobs}
TimeIsLeft == \A t \in Registered : ~Terminal(t) => remaining_time[t] > 0
SliceIsMin == \A p \in Pairs : wpc[p] = "running" => exec_time[p] = Slice(remaining_time[current[p]])

TimesInv == IInv /\ IdsAreKnown /\ TimeIsLeft /\ SliceIsMin

LEMMA Basics ==
  ASSUME IInv
  PROVE  /\ task_count \in Nat /\ Registered = 0 .. task_count - 1 /\ Registered \subseteq Idx
         /\ Distinct(id, task_count)
         /\ id \in [Idx -> Int] /\ remaining_time \in [Idx -> Int]
         /\ state \in [Idx -> TaskStates]
         /\ required \in [Idx -> SUBSET Resources] /\ held \in [Idx -> SUBSET Resources]
         /\ wpc \in [Pairs -> WorkerSteps] /\ current \in [Pairs -> Idx]
         /\ exec_time \in [Pairs -> Int]
         /\ QUANTUM \in Int /\ QUANTUM > 0
BY RegisteredTasks, NumbersAssumption
   DEF Registered, Distinct, IInv, DataInv, AssignmentInv, UniqueIds, TypeOK, TasksTypeOK,
       ControlTypeOK

LEMMA InitTimesInv == Init => TimesInv
<1>. SUFFICES ASSUME Init PROVE TimesInv
  OBVIOUS
<1>1. Registered = {}
  BY DEF Init, Registered
<1>2. SliceIsMin
  BY DEF Init, SliceIsMin
<1>. QED
  BY <1>1, <1>2, InitIInv DEF TimesInv, IdsAreKnown, TimeIsLeft

LEMMA StepTimesInv == TimesInv /\ [Next]_vars => TimesInv'
<1>. SUFFICES ASSUME TimesInv, [Next]_vars PROVE TimesInv'
  OBVIOUS
<1>1. IInv /\ IInv'
  BY StepIInv DEF TimesInv
<1>2. Quiet \/ DataStep
  BY StepIsQuietOrData DEF TimesInv, IInv, DataInv
<1>3. /\ task_count \in Nat /\ Registered = 0 .. task_count - 1 /\ Registered \subseteq Idx
      /\ id \in [Idx -> Int] /\ remaining_time \in [Idx -> Int] /\ state \in [Idx -> TaskStates]
      /\ wpc \in [Pairs -> WorkerSteps] /\ current \in [Pairs -> Idx]
      /\ exec_time \in [Pairs -> Int] /\ QUANTUM \in Int /\ QUANTUM > 0
      /\ \A p \in Pairs : wpc[p] = "running" =>
           current[p] \in Registered /\ state[current[p]] = "RUNNING"
      /\ \A p, q \in Pairs : p # q /\ wpc[p] = "running" /\ wpc[q] = "running"
                              => current[p] # current[q]
  BY <1>1, Basics DEF IInv, DataInv, RunsOnOneWorker, RunningIsRegistered
<1>4. ASSUME UNCHANGED <<id, task_count, state, remaining_time, current, exec_time>>,
             \A p \in Pairs : wpc'[p] = "running" => wpc[p] = "running"
      PROVE  (IdsAreKnown /\ TimeIsLeft /\ SliceIsMin)'
  BY <1>4 DEF TimesInv, IdsAreKnown, TimeIsLeft, SliceIsMin, Registered, Terminal
<1>5. CASE Quiet
  <2>1. UNCHANGED <<id, task_count, state, remaining_time, current, exec_time>>
    BY <1>5 DEF Quiet, tasks, locals
  <2>2. \A p \in Pairs : wpc'[p] = "running" => wpc[p] = "running"
    BY <1>5 DEF Quiet
  <2>. QED
    BY <1>1, <1>4, <2>1, <2>2 DEF TimesInv
<1>6. ASSUME NEW j \in Jobs, Submit(j)
      PROVE  (IdsAreKnown /\ TimeIsLeft /\ SliceIsMin)'
  <2>1. /\ task_count \in Idx /\ task_count' = task_count + 1
        /\ Registered' = Registered \cup {task_count} /\ task_count \notin Registered
    BY <1>3, <1>6, Numbers DEF Submit, Acceptable, Registered, Idx
  <2>2. /\ id' = [id EXCEPT ![task_count] = j.id] /\ j.id \in {i.id : i \in Jobs}
        /\ remaining_time' = [remaining_time EXCEPT ![task_count] = j.time] /\ j.time > 0
        /\ \E s \in {"READY", "NEW"} : state' = [state EXCEPT ![task_count] = s]
        /\ UNCHANGED <<wpc, current, exec_time>>
    BY <1>6 DEF Submit, Acceptable, locals
  <2>3. IdsAreKnown'
    BY <1>3, <2>1, <2>2 DEF TimesInv, IdsAreKnown
  <2>4. TimeIsLeft'
    BY <1>3, <2>1, <2>2 DEF TimesInv, TimeIsLeft, Terminal
  <2>5. SliceIsMin'
    BY <1>3, <2>1, <2>2 DEF TimesInv, SliceIsMin
  <2>. QED
    BY <2>3, <2>4, <2>5
<1>7. ASSUME NEW i \in Int, NEW priority \in ChangedPriorities, ChangePriority(i, priority)
      PROVE  (IdsAreKnown /\ TimeIsLeft /\ SliceIsMin)'
  BY <1>4, <1>7 DEF ChangePriority, locals
<1>8. ASSUME NEW p \in Pairs,
             \/ BeginPass(p) \/ SelectTask(p) \/ NothingToRun(p)
             \/ PickupReject(p) \/ PickupUnknown(p)
      PROVE  (IdsAreKnown /\ TimeIsLeft /\ SliceIsMin)'
  <2>1. UNCHANGED <<id, task_count, state, remaining_time, current, exec_time>>
    BY <1>8 DEF BeginPass, SelectTask, HandOver, NothingToRun, GoIdle, PickupReject,
                PickupUnknown, tasks, locals
  <2>2. \A q \in Pairs : wpc'[q] = "running" => wpc[q] = "running"
    BY <1>3, <1>8 DEF BeginPass, SelectTask, HandOver, NothingToRun, GoIdle, PickupReject,
                      PickupUnknown
  <2>. QED
    BY <1>4, <2>1, <2>2
<1>9. ASSUME NEW p \in Pairs, AllocateNext(p)
      PROVE  (IdsAreKnown /\ TimeIsLeft /\ SliceIsMin)'
  <2>1. UNCHANGED <<id, task_count, remaining_time, wpc, current, exec_time>>
    BY <1>9 DEF AllocateNext, locals
  <2>2. \A t \in Registered : Terminal(t) => Terminal(t)'
    <3>1. \/ state' = state
          \/ \E s : state' = [state EXCEPT ![Head(blocked_queue)] = s]
                    /\ ~Terminal(Head(blocked_queue))
      BY <1>9 DEF AllocateNext, Allocate, DropTerminal
    <3>. QED
      BY <1>3, <3>1 DEF Terminal
  <2>. QED
    BY <2>1, <2>2, <1>3 DEF TimesInv, IdsAreKnown, TimeIsLeft, SliceIsMin, Registered
<1>10. ASSUME NEW p \in Pairs, ResolveDeadlock(p)
       PROVE  (IdsAreKnown /\ TimeIsLeft /\ SliceIsMin)'
  <2>0. PICK c \in WaitCycles : \E w \in Victims(c) : Abort(w)
    BY <1>10 DEF ResolveDeadlock
  <2>1. PICK v \in Victims(c) : Abort(v)
    BY <2>0
  <2>2. v \in Registered /\ state[v] = "BLOCKED"
    BY <1>1, <2>1, CyclesAreStuck DEF Victims, Stuck, IInv, DataInv
  <2>3. /\ state' = [state EXCEPT ![v] = "DEADLOCK_ABORTED"]
        /\ remaining_time' = [remaining_time EXCEPT ![v] = 0]
        /\ UNCHANGED <<id, task_count, wpc, current, exec_time>>
    BY <1>10, <2>1 DEF ResolveDeadlock, Abort, locals
  <2>4. TimeIsLeft'
    BY <1>3, <2>2, <2>3 DEF TimesInv, TimeIsLeft, Terminal, Registered
  <2>5. SliceIsMin'
    BY <1>3, <2>2, <2>3 DEF TimesInv, SliceIsMin
  <2>. QED
    BY <2>3, <2>4, <2>5 DEF TimesInv, IdsAreKnown, Registered
<1>11. ASSUME NEW p \in Pairs, PickupRun(p)
       PROVE  (IdsAreKnown /\ TimeIsLeft /\ SliceIsMin)'
  <2>1. PICK t \in Registered :
          /\ state[t] = "READY"
          /\ IF remaining_time[t] <= 0
             THEN wpc' = [wpc EXCEPT ![p] = "post_both"]
             ELSE /\ state' = [state EXCEPT ![t] = "RUNNING"]
                  /\ current' = [current EXCEPT ![p] = t]
                  /\ exec_time' = [exec_time EXCEPT ![p] = Slice(remaining_time[t])]
                  /\ wpc' = [wpc EXCEPT ![p] = "running"]
    BY <1>11 DEF PickupRun, Runnable, Slice
  <2>2. UNCHANGED <<id, task_count, remaining_time>>
    BY <1>11 DEF PickupRun
  <2>3. remaining_time[t] > 0 /\ remaining_time[t] \in Int
    BY <1>3, <2>1 DEF TimesInv, TimeIsLeft, Terminal
  <2>4. /\ state' = [state EXCEPT ![t] = "RUNNING"]
        /\ current' = [current EXCEPT ![p] = t]
        /\ exec_time' = [exec_time EXCEPT ![p] = Slice(remaining_time[t])]
        /\ wpc' = [wpc EXCEPT ![p] = "running"]
    BY <2>1, <2>3
  <2>5. TimeIsLeft'
    BY <1>3, <2>1, <2>2, <2>4 DEF TimesInv, TimeIsLeft, Terminal, Registered
  <2>6. SliceIsMin'
    BY <1>3, <2>2, <2>4 DEF TimesInv, SliceIsMin
  <2>. QED
    BY <2>2, <2>5, <2>6 DEF TimesInv, IdsAreKnown, Registered
<1>12. ASSUME NEW p \in Pairs, FinishQuantum(p)
       PROVE  (IdsAreKnown /\ TimeIsLeft /\ SliceIsMin)'
  <2>. DEFINE t == current[p]
              left == remaining_time[t] - exec_time[p]
  <2>1. /\ wpc[p] = "running"
        /\ remaining_time' = [remaining_time EXCEPT ![t] = left]
        /\ IF left <= 0 THEN state' = [state EXCEPT ![t] = "FINISHED"]
                        ELSE state' = [state EXCEPT ![t] = "READY"]
        /\ current' = [current EXCEPT ![p] = 0] /\ exec_time' = [exec_time EXCEPT ![p] = 0]
        /\ wpc' = [wpc EXCEPT ![p] = "post"]
        /\ UNCHANGED <<id, task_count>>
    BY <1>12 DEF FinishQuantum, Finish
  <2>2. t \in Registered /\ t \in Idx
    BY <1>3, <2>1
  <2>. HIDE DEF t
  <2>3. TimeIsLeft'
    BY <1>3, <2>1, <2>2 DEF TimesInv, TimeIsLeft, Terminal, Registered
  <2>4. \A q \in Pairs \ {p} : wpc[q] = "running" => current[q] # t
    BY <1>3, <2>1 DEF t
  <2>5. SliceIsMin'
    BY <1>3, <2>1, <2>2, <2>4 DEF TimesInv, SliceIsMin
  <2>. QED
    BY <2>1, <2>3, <2>5 DEF TimesInv, IdsAreKnown, Registered
<1>. QED
  BY <1>1, <1>2, <1>5, <1>6, <1>7, <1>8, <1>9, <1>10, <1>11, <1>12 DEF TimesInv, DataStep

LEMMA TimesInvariance == Spec => []TimesInv
BY InitTimesInv, StepTimesInv, PTL DEF Spec

--------------------------------------------------------------------------------
(* Aging *)

(* effective_priority++ does not overflow: no task has the largest int.    *)
NoneAtLimit == \A t \in Registered : effective_priority[t] < INT_MAX

(* Only the tasks of the ready queue age.                                  *)
AgingInv ==
  \A t \in Registered :
    /\ effective_priority[t] >= base_priority[t]
    /\ wait_ticks[t] < AGING_TICKS
    /\ \/ t \in Range(ready_queue)
       \/ effective_priority[t] = base_priority[t] /\ wait_ticks[t] = 0

(* What one end of a pass does to the tasks.                               *)
LEMMA AgingOfTask ==
  ASSUME TypeOK, NEW t \in Registered, effective_priority[t] < INT_MAX
  PROVE  /\ AgedPriority[t] >= effective_priority[t] /\ AgedPriority[t] \in Int
         /\ AgedTicks[t] < AGING_TICKS \/ AgedTicks[t] = wait_ticks[t]
         /\ t \in Range(ready_queue) \/ /\ AgedPriority[t] = effective_priority[t]
                                        /\ AgedTicks[t] = wait_ticks[t]
<1>1. /\ t \in Idx /\ effective_priority[t] \in Int /\ wait_ticks[t] \in Nat
      /\ AGING_TICKS \in Nat /\ AGING_TICKS > 0 /\ INT_MAX \in Nat
  BY RegisteredTasks, NumbersAssumption DEF TypeOK, TasksTypeOK
<1>2. Increment(effective_priority[t]) = effective_priority[t] + 1
  BY <1>1 DEF Increment
<1>3. /\ AgedPriority[t] = IF t \in Aged THEN effective_priority[t] + 1 ELSE effective_priority[t]
      /\ AgedTicks[t] = IF t \in Aged THEN 0
                        ELSE IF t \in Range(ready_queue) /\ Len(ready_queue) > 1
                             THEN wait_ticks[t] + 1 ELSE wait_ticks[t]
  BY <1>1, <1>2 DEF AgedPriority, AgedTicks
<1>4. /\ t \in Aged => t \in Range(ready_queue)
      /\ t \in Range(ready_queue) /\ Len(ready_queue) > 1 /\ t \notin Aged
           => wait_ticks[t] + 1 < AGING_TICKS
  BY <1>1 DEF Aged
<1>. QED
  BY <1>1, <1>3, <1>4

(* The steps that change a priority, a tick or the ready queue's content.  *)
LEMMA AgesOnlyInSelect ==
  ASSUME IInv, DataStep,
         ~ \E j \in Jobs : Submit(j),
         ~ \E i \in Int, priority \in ChangedPriorities : ChangePriority(i, priority),
         ~ \E p \in Pairs : SelectTask(p)
  PROVE  /\ UNCHANGED <<effective_priority, base_priority, wait_ticks, task_count>>
         /\ Range(ready_queue) \subseteq Range(ready_queue')
<1>1. /\ ready_queue \in Seq(Registered) /\ QueuedWhereStateSays /\ TypeOK
      /\ \A u \in Registered : effective_priority[u] \in Int
  BY RegisteredTasks DEF IInv, DataInv, TypeOK, QueuesTypeOK
<1>2. ASSUME NEW t \in Registered, MakeReady(t)
      PROVE  Range(ready_queue) \subseteq Range(ready_queue')
  <2>1. Range(ready_queue) \subseteq Range(Reorder(PushTail(ready_queue, t), effective_priority))
    BY <1>1, PushSortedProperties
  <2>. QED
    BY <1>2, <2>1 DEF MakeReady
<1>3. ASSUME NEW p \in Pairs, BeginPass(p) \/ NothingToRun(p) \/ PickupRun(p)
                              \/ PickupReject(p) \/ PickupUnknown(p)
      PROVE  UNCHANGED <<effective_priority, base_priority, wait_ticks, task_count, ready_queue>>
  BY <1>3 DEF BeginPass, NothingToRun, GoIdle, PickupRun, PickupReject, PickupUnknown, tasks, queues
<1>4. ASSUME NEW p \in Pairs, AllocateNext(p)
      PROVE  /\ UNCHANGED <<effective_priority, base_priority, wait_ticks, task_count>>
             /\ Range(ready_queue) \subseteq Range(ready_queue')
  <2>1. UNCHANGED <<effective_priority, base_priority, wait_ticks, task_count>>
    BY <1>4 DEF AllocateNext
  <2>2. Head(blocked_queue) \in Registered
    BY <1>4, IInvIsSafe, PassHasTask DEF AllocateNext, IInv, DataInv
  <2>3. MakeReady(Head(blocked_queue)) \/ UNCHANGED ready_queue
    BY <1>4 DEF AllocateNext, Allocate, DropTerminal
  <2>. QED
    BY <1>2, <2>1, <2>2, <2>3
<1>5. ASSUME NEW p \in Pairs, ResolveDeadlock(p)
      PROVE  /\ UNCHANGED <<effective_priority, base_priority, wait_ticks, task_count>>
             /\ Range(ready_queue) \subseteq Range(ready_queue')
  <2>1. UNCHANGED <<effective_priority, base_priority, wait_ticks, task_count>>
    BY <1>5 DEF ResolveDeadlock
  <2>2. PICK c \in WaitCycles : \E v \in Victims(c) : ready_queue' = RemoveTask(ready_queue, v)
    BY <1>5 DEF ResolveDeadlock, Abort
  <2>3. PICK v \in Victims(c) : ready_queue' = RemoveTask(ready_queue, v)
    BY <2>2
  <2>4. state[v] = "BLOCKED"
    BY <1>1, <2>2, <2>3, CyclesAreStuck DEF Victims, Stuck
  <2>5. v \notin Range(ready_queue)
    BY <1>1, <2>4 DEF QueuedWhereStateSays
  <2>6. Range(RemoveTask(ready_queue, v)) = Range(ready_queue) \ {v}
    BY <1>1, RemoveTaskProperties DEF QueuedWhereStateSays
  <2>. QED
    BY <2>1, <2>3, <2>5, <2>6
<1>6. ASSUME NEW p \in Pairs, FinishQuantum(p)
      PROVE  /\ UNCHANGED <<effective_priority, base_priority, wait_ticks, task_count>>
             /\ Range(ready_queue) \subseteq Range(ready_queue')
  <2>1. UNCHANGED <<effective_priority, base_priority, wait_ticks, task_count>>
    BY <1>6 DEF FinishQuantum
  <2>2. current[p] \in Registered
    BY <1>6 DEF FinishQuantum, IInv, DataInv, RunningIsRegistered
  <2>3. MakeReady(current[p]) \/ UNCHANGED ready_queue
    BY <1>6 DEF FinishQuantum
  <2>. QED
    BY <1>2, <2>1, <2>2, <2>3
<1>. QED
  BY <1>3, <1>4, <1>5, <1>6 DEF DataStep

(* What a hand-over leaves in the queue, and does to priorities and ticks. *)
LEMMA SelectionAges ==
  ASSUME IInv, NEW p \in Pairs, SelectTask(p)
  PROVE  \E h \in Registered :
           /\ effective_priority' = [AgedPriority EXCEPT ![h] = base_priority[h]]
           /\ wait_ticks' = [AgedTicks EXCEPT ![h] = 0]
           /\ Range(ready_queue') = Range(ready_queue) \ {h}
           /\ UNCHANGED <<base_priority, task_count>>
<1>. DEFINE h == Head(AgedQueue)
<1>1. /\ effective_priority' = [AgedPriority EXCEPT ![h] = base_priority[h]]
      /\ wait_ticks' = [AgedTicks EXCEPT ![h] = 0]
      /\ ready_queue' = Tail(AgedQueue) /\ ready_queue # <<>>
      /\ UNCHANGED <<base_priority, task_count>>
  BY DEF SelectTask, HandOver, ServedTicks
<1>2. /\ AgedQueue \in Seq(Registered) /\ AgedQueue # <<>>
      /\ Range(AgedQueue) = Range(ready_queue) /\ NoRepeats(AgedQueue)
  BY <1>1, IInvIsSafe, AgingProperties, EmptySeq DEF IInv, DataInv, TypeOK, QueuesTypeOK
<1>3. /\ h \in Registered /\ Range(AgedQueue) = Range(Tail(AgedQueue)) \cup {h}
      /\ h \notin Range(Tail(AgedQueue))
  BY <1>2, TailProperties
<1>. HIDE DEF h
<1>. QED
  BY <1>1, <1>2, <1>3

LEMMA StepAgingInv ==
  ASSUME IInv, NoneAtLimit, AgingInv, [Next]_vars
  PROVE  AgingInv'
<1>1. /\ TypeOK /\ task_count \in Nat /\ Registered = 0 .. task_count - 1 /\ Registered \subseteq Idx
      /\ effective_priority \in [Idx -> Int32] /\ base_priority \in [Idx -> Int32]
      /\ wait_ticks \in [Idx -> Nat] /\ ready_queue \in Seq(Registered)
      /\ AGING_TICKS \in Nat /\ AGING_TICKS > 0
      /\ \A t \in Registered : effective_priority[t] \in Int /\ base_priority[t] \in Int
  <2>1. TypeOK
    BY DEF IInv, DataInv
  <2>2. task_count \in Nat /\ Registered = 0 .. task_count - 1 /\ Registered \subseteq Idx
    BY Basics
  <2>3. /\ effective_priority \in [Idx -> Int32] /\ base_priority \in [Idx -> Int32]
        /\ wait_ticks \in [Idx -> Nat] /\ ready_queue \in Seq(Registered)
    BY <2>1 DEF TypeOK, TasksTypeOK, QueuesTypeOK
  <2>4. AGING_TICKS \in Nat /\ AGING_TICKS > 0
    BY NumbersAssumption
  <2>5. \A t \in Registered : effective_priority[t] \in Int /\ base_priority[t] \in Int
    BY <2>2, <2>3, Numbers
  <2>. QED
    BY <2>1, <2>2, <2>3, <2>4, <2>5
<1>2. ASSUME UNCHANGED <<effective_priority, base_priority, wait_ticks, task_count>>,
             Range(ready_queue) \subseteq Range(ready_queue')
      PROVE  AgingInv'
  BY <1>2 DEF AgingInv, Registered
<1>3. CASE Quiet
  BY <1>2, <1>3 DEF Quiet, tasks, queues
<1>4. ASSUME NEW j \in Jobs, Submit(j) PROVE AgingInv'
  <2>. DEFINE n == task_count
  <2>1. /\ n \in Idx /\ Registered' = Registered \cup {n} /\ n \notin Registered
    <3>1. n < MAX_TASKS /\ task_count' = n + 1
      BY <1>4 DEF Submit, Acceptable
    <3>2. Registered' = 0 .. n
      BY <1>1, <3>1 DEF Registered
    <3>. QED
      BY <1>1, <3>1, <3>2, Numbers DEF Idx
  <2>2. /\ base_priority' = [base_priority EXCEPT ![n] = j.priority]
        /\ effective_priority' = [effective_priority EXCEPT ![n] = j.priority]
        /\ wait_ticks' = [wait_ticks EXCEPT ![n] = 0]
    BY <1>4 DEF Submit
  <2>3. j.priority \in Int32 /\ j.priority \in Int
    BY JobsAssumption, Numbers
  <2>4. Range(ready_queue) \subseteq Range(ready_queue')
    <3>1. CASE ready_queue' = ready_queue
      BY <3>1
    <3>2. CASE ready_queue' # ready_queue
      <4>. DEFINE eff == [effective_priority EXCEPT ![n] = j.priority]
                  S == Registered \cup {n}
      <4>1. ready_queue' = Reorder(PushTail(ready_queue, n), eff)
        BY <1>4, <3>2 DEF Submit
      <4>2. ready_queue \in Seq(S) /\ n \in S /\ \A u \in S : eff[u] \in Int
        <5>1. ready_queue \in Seq(S)
          BY <1>1
        <5>2. \A u \in S : eff[u] \in Int
          BY <1>1, <2>1, <2>3
        <5>. QED
          BY <5>1, <5>2
      <4>. HIDE DEF eff, S
      <4>3. Range(ready_queue) \subseteq Range(Reorder(PushTail(ready_queue, n), eff))
        BY <4>2, PushSortedProperties
      <4>. QED
        BY <4>1, <4>3
    <3>. QED
      BY <3>1, <3>2
  <2>. HIDE DEF n
  <2>5. ASSUME NEW t \in Registered'
        PROVE  /\ effective_priority'[t] >= base_priority'[t]
               /\ wait_ticks'[t] < AGING_TICKS
               /\ \/ t \in Range(ready_queue')
                  \/ effective_priority'[t] = base_priority'[t] /\ wait_ticks'[t] = 0
    <3>1. CASE t = n
      BY <1>1, <2>1, <2>2, <2>3, <3>1
    <3>2. CASE t # n
      <4>1. t \in Registered /\ t \in Idx
        BY <1>1, <2>1, <3>2
      <4>2. /\ effective_priority'[t] = effective_priority[t]
            /\ base_priority'[t] = base_priority[t] /\ wait_ticks'[t] = wait_ticks[t]
        BY <1>1, <2>2, <3>2, <4>1
      <4>. QED
        BY <2>4, <4>1, <4>2 DEF AgingInv
    <3>. QED
      BY <3>1, <3>2
  <2>. QED
    BY <2>5 DEF AgingInv
<1>5. ASSUME NEW i \in Int, NEW priority \in ChangedPriorities, ChangePriority(i, priority)
      PROVE  AgingInv'
  <2>. DEFINE Hit == {t \in Registered : id[t] = i}
              eff == [t \in Idx |-> IF t \in Hit THEN priority ELSE effective_priority[t]]
  <2>1. /\ base_priority' = [t \in Idx |-> IF t \in Hit THEN priority ELSE base_priority[t]]
        /\ effective_priority' = eff
        /\ wait_ticks' = [t \in Idx |-> IF t \in Hit THEN 0 ELSE wait_ticks[t]]
        /\ ready_queue' = ready_queue \/ ready_queue' = Reorder(ready_queue, eff)
        /\ task_count' = task_count
    BY <1>5 DEF ChangePriority
  <2>2. priority \in Int
    BY ChangedPrioritiesAssumption, Numbers
  <2>3. \A t \in Registered : eff[t] \in Int
    BY <1>1, <2>2
  <2>4. Range(ready_queue') = Range(ready_queue)
    <3>. HIDE DEF eff
    <3>1. Range(Reorder(ready_queue, eff)) = Range(ready_queue)
      BY <1>1, <2>3, ReorderProperties
    <3>. QED
      BY <2>1, <3>1
  <2>5. Registered' = Registered
    BY <2>1 DEF Registered
  <2>. HIDE DEF Hit
  <2>. QED
    BY <1>1, <2>1, <2>2, <2>4, <2>5 DEF AgingInv
<1>6. ASSUME NEW p \in Pairs, SelectTask(p) PROVE AgingInv'
  <2>1. PICK h \in Registered :
          /\ effective_priority' = [AgedPriority EXCEPT ![h] = base_priority[h]]
          /\ wait_ticks' = [AgedTicks EXCEPT ![h] = 0]
          /\ Range(ready_queue') = Range(ready_queue) \ {h}
          /\ UNCHANGED <<base_priority, task_count>>
    BY <1>6, SelectionAges
  <2>2. AgedPriority \in [Idx -> Int32] /\ AgedTicks \in [Idx -> Nat]
    BY IInvIsSafe, AgingProperties
  <2>3. Registered' = Registered
    BY <2>1 DEF Registered
  <2>4. ASSUME NEW t \in Registered
        PROVE  /\ effective_priority'[t] >= base_priority'[t]
               /\ wait_ticks'[t] < AGING_TICKS
               /\ \/ t \in Range(ready_queue')
                  \/ effective_priority'[t] = base_priority'[t] /\ wait_ticks'[t] = 0
    <3>1. t \in Idx /\ h \in Idx
      BY <1>1, <2>1
    <3>2. CASE t = h
      <4>1. effective_priority'[t] = base_priority[t] /\ wait_ticks'[t] = 0
        BY <2>1, <2>2, <3>1, <3>2
      <4>. QED
        BY <1>1, <2>1, <4>1
    <3>3. CASE t # h
      <4>1. effective_priority'[t] = AgedPriority[t] /\ wait_ticks'[t] = AgedTicks[t]
        BY <2>1, <2>2, <3>1, <3>3
      <4>2. /\ AgedPriority[t] >= effective_priority[t] /\ AgedPriority[t] \in Int
            /\ AgedTicks[t] < AGING_TICKS \/ AgedTicks[t] = wait_ticks[t]
            /\ t \in Range(ready_queue) \/ /\ AgedPriority[t] = effective_priority[t]
                                           /\ AgedTicks[t] = wait_ticks[t]
        BY <1>1, AgingOfTask DEF NoneAtLimit
      <4>3. /\ effective_priority[t] >= base_priority[t] /\ wait_ticks[t] < AGING_TICKS
            /\ \/ t \in Range(ready_queue)
               \/ effective_priority[t] = base_priority[t] /\ wait_ticks[t] = 0
            /\ effective_priority[t] \in Int /\ base_priority[t] \in Int
            /\ base_priority'[t] = base_priority[t]
            /\ t \in Range(ready_queue) => t \in Range(ready_queue')
        BY <1>1, <2>1, <3>3 DEF AgingInv
      <4>. QED
        BY <4>1, <4>2, <4>3
    <3>. QED
      BY <3>2, <3>3
  <2>. QED
    BY <2>3, <2>4 DEF AgingInv
<1>7. Quiet \/ DataStep
  BY <1>1, StepIsQuietOrData
<1>. QED
  BY <1>2, <1>3, <1>4, <1>5, <1>6, <1>7, AgesOnlyInSelect

(* As long as no priority is at the largest int, only the tasks that wait  *)
(* in the ready queue age.                                                 *)
THEOREM AgingOfQueued == Spec /\ []NoneAtLimit => []AgingInv
<1>1. Init => AgingInv
  BY DEF Init, AgingInv, Registered
<1>2. IInv /\ NoneAtLimit /\ AgingInv /\ [Next]_vars => AgingInv'
  BY StepAgingInv
<1>. QED
  BY <1>1, <1>2, Invariance, PTL DEF Spec

(* As long as no priority is at the largest int, where effective_priority++*)
(* overflows, only changePriority lowers the priority of a queued task.    *)
THEOREM AgingRaises == Spec /\ []NoneAtLimit => AgingOnlyRaises
<1>. DEFINE A == \A t \in Range(ready_queue) \cap Range(ready_queue') :
                   effective_priority'[t] >= effective_priority[t] \/ Changing
<1>1. IInv /\ NoneAtLimit /\ [Next]_vars => A
  <2>. SUFFICES ASSUME IInv, NoneAtLimit, [Next]_vars,
                       NEW t \in Range(ready_queue) \cap Range(ready_queue'), ~Changing
                PROVE  effective_priority'[t] >= effective_priority[t]
    OBVIOUS
  <2>1. /\ TypeOK /\ t \in Registered /\ t \in Idx /\ effective_priority[t] \in Int
    <3>1. ready_queue \in Seq(Registered) /\ TypeOK
      BY DEF IInv, DataInv, TypeOK, QueuesTypeOK
    <3>. QED
      BY <3>1, RangeIsImage, RegisteredTasks
  <2>2. CASE effective_priority'[t] = effective_priority[t]
    BY <2>1, <2>2
  <2>3. ASSUME NEW j \in Jobs, Submit(j)
        PROVE  effective_priority'[t] = effective_priority[t]
    <3>1. t # task_count
      BY <2>1, RegisteredTasks DEF Registered
    <3>. QED
      BY <2>1, <2>3, <3>1 DEF Submit, TypeOK, TasksTypeOK
  <2>4. ASSUME NEW i, NEW priority, ChangePriority(i, priority) PROVE FALSE
    BY <2>4 DEF ChangePriority, Changing
  <2>5. ASSUME NEW p \in Pairs, SelectTask(p)
        PROVE  effective_priority'[t] >= effective_priority[t]
    <3>1. PICK h \in Registered :
            /\ effective_priority' = [AgedPriority EXCEPT ![h] = base_priority[h]]
            /\ Range(ready_queue') = Range(ready_queue) \ {h}
      BY <2>5, SelectionAges
    <3>2. AgedPriority \in [Idx -> Int32]
      BY IInvIsSafe, AgingProperties
    <3>3. effective_priority'[t] = AgedPriority[t]
      BY <2>1, <3>1, <3>2
    <3>4. AgedPriority[t] >= effective_priority[t]
      BY <2>1, AgingOfTask DEF NoneAtLimit
    <3>. QED
      BY <3>3, <3>4
  <2>6. CASE Quiet
    BY <2>2, <2>6 DEF Quiet, tasks
  <2>7. Quiet \/ DataStep
    BY <2>1, StepIsQuietOrData
  <2>. QED
    BY <2>2, <2>3, <2>4, <2>5, <2>6, <2>7, AgesOnlyInSelect
<1>. QED
  BY <1>1, Invariance, PTL DEF Spec, AgingOnlyRaises
===============================================================================
