----------------------------- MODULE OnePairProofs -----------------------------
(***************************************************************************)
(* What holds of the one pair that a single start() makes, for any number  *)
(* of tasks, resources and priorities: the scheduler and the worker take   *)
(* turns, the worker finds the task it was given, no task is lost, and     *)
(* stop() closes after both.                                               *)
(***************************************************************************)
EXTENDS SchedulerProofs

--------------------------------------------------------------------------------
(* The turn *)

(* Only its holder passes the turn on, until stop() gives everybody one.   *)
LEMMA OneTurnStep ==
  ASSUME NEW one, Pairs = {one}, TypeOK, ShutdownIsStop, OneTurn, [Next]_vars
  PROVE  OneTurn'
<1>. DEFINE Has(w) == w \in {"woken", "pickup", "running", "post", "post_both"}
            Turn == (IF spc[one] # "wait" THEN 1 ELSE 0) + sem["worker"] + sem["scheduler"]
                      + (IF Has(wpc[one]) THEN 1 ELSE 0) = 1
<1>0. /\ ~shutdown_flag => Turn
      /\ one \in Pairs /\ \A p \in Pairs : p = one
  BY DEF OneTurn, Num
<1>1. /\ sem \in [Semaphores -> Nat] /\ sem["worker"] \in Nat /\ sem["scheduler"] \in Nat
      /\ spc \in [Pairs -> SchedulerSteps] /\ wpc \in [Pairs -> WorkerSteps]
  BY DEF TypeOK, ControlTypeOK, Semaphores
<1>10. sem["worker"] \in Int /\ sem["scheduler"] \in Int
  BY <1>1
<1>. SUFFICES ASSUME ~shutdown_flag'
              PROVE  Turn'
  BY DEF OneTurn, Num
<1>2. ASSUME ~shutdown_flag, UNCHANGED <<spc, wpc>>,
             sem'["worker"] = sem["worker"], sem'["scheduler"] = sem["scheduler"]
      PROVE  Turn'
  BY <1>0, <1>2
<1>3. CASE UNCHANGED vars
  BY <1>2, <1>3 DEF vars
<1>4. ASSUME NEW j, Submit(j) PROVE Turn'
  BY <1>2, <1>4 DEF Submit
<1>5. ASSUME NEW i, NEW priority, ChangePriority(i, priority) PROVE Turn'
  BY <1>2, <1>5 DEF ChangePriority
<1>6. ASSUME NEW p \in Pairs, Start(p) PROVE Turn'
  <2>1. PICK s \in {"boot", "done"}, w \in {"boot", "done"} :
          /\ spc' = [spc EXCEPT ![p] = s] /\ wpc' = [wpc EXCEPT ![p] = w]
    BY <1>6 DEF Start, Forked
  <2>2. ~shutdown_flag /\ sem' = sem /\ spc[p] = "unborn" /\ wpc[p] = "unborn"
    BY <1>6 DEF Start, ShutdownIsStop
  <2>3. /\ spc[one] # "wait" /\ spc'[one] # "wait"
        /\ wpc[one] \notin {"woken", "pickup", "running", "post", "post_both"}
        /\ wpc'[one] \notin {"woken", "pickup", "running", "post", "post_both"}
    BY <1>0, <1>1, <2>1, <2>2
  <2>. QED
    BY <1>0, <2>2, <2>3
<1>7. CASE Stop \/ JniContinues
  <2>1. CASE Stop
    BY <2>1 DEF Stop
  <2>2. CASE Notify
    <3>1. ~shutdown_flag /\ UNCHANGED <<spc, wpc>>
      BY <2>2 DEF Notify
    <3>2. sem'["worker"] = sem["worker"] /\ sem'["scheduler"] = sem["scheduler"]
      BY <1>1, <2>2 DEF Notify, Post, Notified, Semaphores
    <3>. QED
      BY <1>2, <3>1, <3>2
  <2>3. ASSUME NEW s, NEW to, NEW from \in {"post_worker", "post_scheduler", "post_event"},
               StopPost(from, s, to)
        PROVE  FALSE
    BY <2>3 DEF StopPost, ShutdownIsStop
  <2>4. CASE JoinScheduler \/ JoinWorker
    BY <2>4 DEF JoinScheduler, JoinWorker, ShutdownIsStop
  <2>. QED
    BY <1>7, <2>1, <2>2, <2>3, <2>4 DEF JniContinues
<1>8. ASSUME NEW p \in Pairs, SchedulerStep(p) PROVE Turn'
  <2>0. ~shutdown_flag /\ wpc' = wpc
    BY <1>8 DEF SchedulerStep, SchedulerBoot, SchedulerCheck, BeginPass, AllocateNext,
                ResolveDeadlock, Abort, SelectTask, HandOver, NothingToRun, GoIdle,
                SchedulerPosts, SchedulerWaits
  <2>1. ASSUME UNCHANGED sem, spc[p] # "wait", spc'[p] # "wait"
        PROVE  Turn'
    BY <1>0, <2>0, <2>1
  <2>2. CASE SchedulerBoot(p)
    BY <1>1, <2>1, <2>2 DEF SchedulerBoot, Attached
  <2>3. CASE SchedulerCheck(p)
    BY <1>1, <2>1, <2>3 DEF SchedulerCheck
  <2>4. CASE BeginPass(p)
    BY <1>1, <2>1, <2>4 DEF BeginPass
  <2>5. CASE AllocateNext(p)
    BY <1>1, <2>1, <2>5 DEF AllocateNext
  <2>6. CASE ResolveDeadlock(p)
    BY <1>1, <2>1, <2>6 DEF ResolveDeadlock
  <2>7. CASE SelectTask(p)
    BY <1>1, <2>1, <2>7 DEF SelectTask, HandOver
  <2>8. CASE NothingToRun(p)
    BY <1>1, <2>1, <2>8 DEF NothingToRun, GoIdle, AfterIdlePass
  <2>9. CASE SchedulerPosts(p, "post_worker", "worker", "wait")
    <3>1. /\ spc[one] = "post_worker" /\ spc'[one] = "wait"
          /\ sem'["worker"] = sem["worker"] + 1 /\ sem'["scheduler"] = sem["scheduler"]
      BY <1>0, <1>1, <2>9 DEF SchedulerPosts, Post, Semaphores
    <3>. QED
      BY <1>0, <1>10, <2>0, <3>1
  <2>10. CASE SchedulerWaits(p, "wait", "scheduler", "woken")
    <3>1. /\ spc[one] = "wait" /\ spc'[one] = "woken"
          /\ sem'["worker"] = sem["worker"] /\ sem'["scheduler"] = sem["scheduler"] - 1
      BY <1>0, <1>1, <2>10 DEF SchedulerWaits, SemWait, Semaphores
    <3>. QED
      BY <1>0, <1>10, <2>0, <3>1
  <2>11. CASE SchedulerWaits(p, "idle", "event", "top")
    <3>1. /\ spc[one] = "idle" /\ spc'[one] = "top"
          /\ sem'["worker"] = sem["worker"] /\ sem'["scheduler"] = sem["scheduler"]
      BY <1>0, <1>1, <2>11 DEF SchedulerWaits, SemWait, Semaphores
    <3>. QED
      BY <1>0, <2>0, <3>1
  <2>12. ASSUME NEW s, NEW to, NEW from \in {"exit_worker", "exit_scheduler", "exit_event"},
                SchedulerPosts(p, from, s, to)
         PROVE  FALSE
    BY <2>0, <2>12 DEF SchedulerPosts, ShutdownIsStop
  <2>. QED
    BY <1>8, <2>2, <2>3, <2>4, <2>5, <2>6, <2>7, <2>8, <2>9, <2>10, <2>11, <2>12
       DEF SchedulerStep
<1>9. ASSUME NEW p \in Pairs, WorkerStep(p) PROVE Turn'
  <2>0. ~shutdown_flag /\ spc' = spc
    BY <1>9 DEF WorkerStep, WorkerBoot, WorkerCheck, WorkerWaits, PickupRun, PickupReject,
                PickupUnknown, FinishQuantum, WorkerPosts
  <2>1. ASSUME UNCHANGED sem, Has(wpc'[p]) <=> Has(wpc[p])
        PROVE  Turn'
    BY <1>0, <2>0, <2>1
  <2>2. CASE WorkerBoot(p)
    BY <1>1, <2>1, <2>2 DEF WorkerBoot, Attached
  <2>3. CASE WorkerCheck(p)
    BY <1>1, <2>0, <2>1, <2>3 DEF WorkerCheck
  <2>4. CASE WorkerWaits(p)
    <3>1. /\ wpc[one] = "wait" /\ wpc'[one] = "woken"
          /\ sem'["worker"] = sem["worker"] - 1 /\ sem'["scheduler"] = sem["scheduler"]
      BY <1>0, <1>1, <2>4 DEF WorkerWaits, SemWait, Semaphores
    <3>. QED
      BY <1>0, <1>10, <2>0, <3>1
  <2>5. CASE PickupRun(p)
    BY <1>1, <2>1, <2>5 DEF PickupRun
  <2>6. CASE PickupReject(p) \/ PickupUnknown(p)
    BY <1>1, <2>1, <2>6 DEF PickupReject, PickupUnknown
  <2>7. CASE FinishQuantum(p)
    BY <1>1, <2>1, <2>7 DEF FinishQuantum
  <2>8. ASSUME NEW to \in {"top", "post_event"}, NEW from \in {"post", "post_both"},
               WorkerPosts(p, from, "scheduler", to)
        PROVE  Turn'
    <3>1. /\ wpc[one] = from /\ wpc'[one] = to
          /\ sem'["worker"] = sem["worker"] /\ sem'["scheduler"] = sem["scheduler"] + 1
      BY <1>0, <1>1, <2>8 DEF WorkerPosts, Post, Semaphores
    <3>. QED
      BY <1>0, <1>10, <2>0, <3>1
  <2>9. CASE WorkerPosts(p, "post_event", "event", "top")
    <3>1. /\ wpc[one] = "post_event" /\ wpc'[one] = "top"
          /\ sem'["worker"] = sem["worker"] /\ sem'["scheduler"] = sem["scheduler"]
      BY <1>0, <1>1, <2>9 DEF WorkerPosts, Post, Semaphores
    <3>. QED
      BY <1>0, <2>0, <3>1
  <2>. QED
    BY <1>9, <2>2, <2>3, <2>4, <2>5, <2>6, <2>7, <2>8, <2>9 DEF WorkerStep
<1>. QED
  BY <1>3, <1>4, <1>5, <1>6, <1>7, <1>8, <1>9 DEF Next, Stopped, ProcessStep

(* What one turn excludes. *)
LEMMA TurnExcludes ==
  ASSUME NEW one, Pairs = {one}, TypeOK, OneTurn, ~shutdown_flag
  PROVE  /\ spc[one] # "wait" =>
              /\ sem["worker"] = 0
              /\ wpc[one] \notin {"woken", "pickup", "running", "post", "post_both"}
         /\ wpc[one] \in {"woken", "pickup", "running", "post", "post_both"} => sem["worker"] = 0
<1>. DEFINE Has(w) == w \in {"woken", "pickup", "running", "post", "post_both"}
<1>1. (IF spc[one] # "wait" THEN 1 ELSE 0) + sem["worker"] + sem["scheduler"]
        + (IF Has(wpc[one]) THEN 1 ELSE 0) = 1
  BY DEF OneTurn, Num
<1>2. sem["worker"] \in Nat /\ sem["scheduler"] \in Nat
  BY DEF TypeOK, ControlTypeOK, Semaphores
<1>. QED
  BY <1>1, <1>2

--------------------------------------------------------------------------------
(* The hand-over *)

(* The worker has been woken, or is being woken, to look up its task. *)
Offered(p) ==
  \/ wpc[p] = "pickup"
  \/ ~shutdown_flag /\ (spc[p] = "post_worker" \/ sem["worker"] > 0 \/ wpc[p] = "woken")

Serving(p) == shutdown_flag \/ Offered(p) \/ wpc[p] = "running"

(* A pass and a quantum exclude each other, even once stop() has given     *)
(* everybody a turn.                                                       *)
Apart ==
  \A p \in Pairs : spc[p] \in {"lock", "pass", "post_worker"} => wpc[p] \notin {"pickup", "running"}

(* A task in service is the one that running_task_id names, and the worker *)
(* serves it: no pass is being made.                                       *)
ServedIsNamed ==
  \A t \in Registered : InService(t) =>
    /\ running_task_id = id[t]
    /\ \A p \in Pairs : spc[p] \notin {"lock", "pass"} /\ Serving(p)

(* A worker that is woken will find the task READY and in no queue.        *)
TaskToFind ==
  \E t \in Registered : id[t] = running_task_id /\ state[t] = "READY" /\ t \notin Range(ready_queue)

OfferedIsThere == \A p \in Pairs : Offered(p) => TaskToFind

HandInv == Apart /\ ServedIsNamed /\ OfferedIsThere

(* What the steps that change no data do to the control of the pair.       *)
QuietControl(p) ==
  /\ spc'[p] \in {"lock", "pass", "post_worker"}
       => spc'[p] = spc[p] \/ (spc'[p] = "lock" /\ spc[p] = "top" /\ ~shutdown_flag)
  /\ wpc'[p] \in {"pickup", "running"}
       => wpc'[p] = wpc[p] \/ (wpc[p] = "woken" /\ ~shutdown_flag)
  /\ shutdown_flag => shutdown_flag'
  /\ shutdown_flag' # shutdown_flag => UNCHANGED <<spc, wpc>>
  /\ Serving(p) => Serving(p)'
  /\ Offered(p)' => Offered(p)

LEMMA StepIsControlOrData ==
  ASSUME NEW one, Pairs = {one}, TypeOK, ShutdownIsStop, [Next]_vars
  PROVE  QuietControl(one) \/ DataStep
<1>0. /\ one \in Pairs /\ \A p \in Pairs : p = one
  OBVIOUS
<1>1. /\ sem \in [Semaphores -> Nat] /\ sem["worker"] \in Nat
      /\ spc \in [Pairs -> SchedulerSteps] /\ wpc \in [Pairs -> WorkerSteps]
      /\ shutdown_flag \in BOOLEAN
  BY DEF TypeOK, ControlTypeOK, Semaphores
<1>. USE DEF QuietControl, Serving, Offered
<1>2. ASSUME UNCHANGED <<spc, wpc>>, sem'["worker"] = sem["worker"] \/ shutdown_flag,
             shutdown_flag' = shutdown_flag \/ shutdown_flag' = TRUE
      PROVE  QuietControl(one)
  BY <1>1, <1>2
<1>3. CASE UNCHANGED vars
  BY <1>2, <1>3 DEF vars
<1>4. ASSUME NEW j, Submit(j) PROVE QuietControl(one)
  BY <1>2, <1>4 DEF Submit
<1>5. ASSUME NEW i, NEW priority, ChangePriority(i, priority) PROVE QuietControl(one)
  BY <1>2, <1>5 DEF ChangePriority
<1>6. ASSUME NEW p \in Pairs, Start(p) PROVE QuietControl(one)
  <2>1. PICK s \in {"boot", "done"}, w \in {"boot", "done"} :
          /\ spc' = [spc EXCEPT ![p] = s] /\ wpc' = [wpc EXCEPT ![p] = w]
    BY <1>6 DEF Start, Forked
  <2>2. /\ ~shutdown_flag /\ shutdown_flag' = shutdown_flag /\ sem' = sem
        /\ spc[p] = "unborn" /\ wpc[p] = "unborn"
    BY <1>1, <1>6 DEF Start, ShutdownIsStop
  <2>3. /\ spc[one] = "unborn" /\ spc'[one] \in {"boot", "done"}
        /\ wpc[one] = "unborn" /\ wpc'[one] \in {"boot", "done"}
    BY <1>0, <1>1, <2>1, <2>2
  <2>. QED
    BY <2>2, <2>3
<1>7. CASE Stop \/ JniContinues
  <2>1. CASE Stop
    BY <1>2, <2>1 DEF Stop
  <2>2. CASE Notify
    <3>1. UNCHANGED <<spc, wpc, shutdown_flag>> /\ sem'["worker"] = sem["worker"]
      BY <1>1, <2>2 DEF Notify, Post, Notified, Semaphores
    <3>. QED
      BY <1>2, <3>1
  <2>3. ASSUME NEW s, NEW to, NEW from \in {"post_worker", "post_scheduler", "post_event"},
               StopPost(from, s, to)
        PROVE  QuietControl(one)
    <3>1. UNCHANGED <<spc, wpc, shutdown_flag>> /\ shutdown_flag
      BY <2>3 DEF StopPost, ShutdownIsStop
    <3>. QED
      BY <1>2, <3>1
  <2>4. CASE JoinScheduler \/ JoinWorker
    BY <1>2, <2>4 DEF JoinScheduler, JoinWorker
  <2>. QED
    BY <1>7, <2>1, <2>2, <2>3, <2>4 DEF JniContinues
<1>8. ASSUME NEW p \in Pairs, SchedulerStep(p) PROVE QuietControl(one) \/ DataStep
  <2>0. UNCHANGED <<wpc, shutdown_flag>>
    BY <1>8 DEF SchedulerStep, SchedulerBoot, SchedulerCheck, BeginPass, AllocateNext,
                ResolveDeadlock, Abort, SelectTask, HandOver, NothingToRun, GoIdle,
                SchedulerPosts, SchedulerWaits
  <2>1. CASE SchedulerBoot(p)
    <3>1. sem' = sem /\ spc[one] = "boot" /\ spc'[one] \in {"top", "done"}
      BY <1>0, <1>1, <2>1 DEF SchedulerBoot, Attached
    <3>. QED
      BY <2>0, <3>1
  <2>2. CASE SchedulerCheck(p)
    <3>1. /\ sem' = sem /\ spc[one] \in {"top", "woken"}
          /\ spc'[one] \in {"exit_worker", "top", "lock"}
          /\ spc'[one] = "lock" => spc[one] = "top" /\ ~shutdown_flag
      BY <1>0, <1>1, <2>2 DEF SchedulerCheck
    <3>. QED
      BY <2>0, <3>1
  <2>3. CASE SchedulerPosts(p, "post_worker", "worker", "wait")
    <3>1. /\ spc[one] = "post_worker" /\ spc'[one] = "wait"
          /\ sem'["worker"] = sem["worker"] + 1 /\ sem'["worker"] > 0
      BY <1>0, <1>1, <2>3 DEF SchedulerPosts, Post, Semaphores
    <3>. QED
      BY <2>0, <3>1
  <2>4. ASSUME NEW s \in {"scheduler", "event"}, NEW from \in {"wait", "idle"},
               NEW to \in {"woken", "top"}, SchedulerWaits(p, from, s, to)
        PROVE  QuietControl(one)
    <3>1. /\ spc[one] = from /\ spc'[one] = to /\ sem'["worker"] = sem["worker"]
      BY <1>0, <1>1, <2>4 DEF SchedulerWaits, SemWait, Semaphores
    <3>. QED
      BY <2>0, <3>1
  <2>5. ASSUME NEW s, NEW from \in {"exit_worker", "exit_scheduler", "exit_event"},
               NEW to \in {"exit_scheduler", "exit_event", "done"},
               SchedulerPosts(p, from, s, to)
        PROVE  QuietControl(one)
    <3>1. spc[one] = from /\ spc'[one] = to /\ shutdown_flag
      BY <1>0, <1>1, <2>5 DEF SchedulerPosts, ShutdownIsStop
    <3>. QED
      BY <2>0, <3>1
  <2>. QED
    BY <1>8, <2>1, <2>2, <2>3, <2>4, <2>5 DEF SchedulerStep, DataStep
<1>9. ASSUME NEW p \in Pairs, WorkerStep(p) PROVE QuietControl(one) \/ DataStep
  <2>0. UNCHANGED <<spc, shutdown_flag>>
    BY <1>9 DEF WorkerStep, WorkerBoot, WorkerCheck, WorkerWaits, PickupRun, PickupReject,
                PickupUnknown, FinishQuantum, WorkerPosts
  <2>1. CASE WorkerBoot(p)
    <3>1. sem' = sem /\ wpc[one] = "boot" /\ wpc'[one] \in {"top", "done"}
      BY <1>0, <1>1, <2>1 DEF WorkerBoot, Attached
    <3>. QED
      BY <2>0, <3>1
  <2>2. CASE WorkerCheck(p)
    <3>1. /\ sem' = sem
          /\ \/ shutdown_flag /\ wpc'[one] = "done" /\ wpc[one] \in {"top", "woken"}
             \/ ~shutdown_flag /\ wpc[one] = "top" /\ wpc'[one] = "wait"
             \/ ~shutdown_flag /\ wpc[one] = "woken" /\ wpc'[one] = "pickup"
      BY <1>0, <1>1, <2>2 DEF WorkerCheck
    <3>. QED
      BY <2>0, <3>1
  <2>3. CASE WorkerWaits(p)
    <3>1. wpc[one] = "wait" /\ wpc'[one] = "woken" /\ sem["worker"] > 0
      BY <1>0, <1>1, <2>3 DEF WorkerWaits, SemWait, Semaphores
    <3>. QED
      BY <2>0, <3>1
  <2>4. ASSUME NEW s \in {"scheduler", "event"}, NEW to \in {"top", "post_event"},
               NEW from \in {"post", "post_both", "post_event"}, WorkerPosts(p, from, s, to)
        PROVE  QuietControl(one)
    <3>1. wpc[one] = from /\ wpc'[one] = to /\ sem'["worker"] = sem["worker"]
      BY <1>0, <1>1, <2>4 DEF WorkerPosts, Post, Semaphores
    <3>. QED
      BY <2>0, <3>1
  <2>. QED
    BY <1>9, <2>1, <2>2, <2>3, <2>4 DEF WorkerStep, DataStep
<1>. QED
  BY <1>3, <1>4, <1>5, <1>6, <1>7, <1>8, <1>9 DEF Next, Stopped, ProcessStep

(* A task that is in no queue finds room, so that a task made READY is in  *)
(* the ready queue.                                                        *)
LEMMA RoomForMissing ==
  ASSUME NEW n \in Nat, NEW q \in Seq(0 .. n - 1), NoRepeats(q),
         NEW t \in 0 .. n - 1, t \notin Range(q)
  PROVE  Len(q) < n
<1>. DEFINE r == Append(q, t)
<1>1. /\ r \in Seq(0 .. n - 1) /\ Len(r) = Len(q) + 1 /\ Len(q) \in Nat
      /\ \A i \in 1 .. Len(q) : r[i] = q[i]
      /\ r[Len(q) + 1] = t
      /\ DOMAIN r = 1 .. Len(r) /\ DOMAIN q = 1 .. Len(q)
  BY LenProperties, AppendProperties
<1>2. \A i \in 1 .. Len(q) : q[i] # t
  BY <1>1 DEF Range
<1>3. NoRepeats(r)
  BY <1>1, <1>2 DEF NoRepeats
<1>4. Len(r) <= n
  BY <1>1, <1>3, LengthBound
<1>. QED
  BY <1>1, <1>4

LEMMA MadeReady ==
  ASSUME NEW S, NEW q \in Seq(S), NEW t \in S, NEW prio, \A u \in S : prio[u] \in Int,
         Len(q) < MAX_TASKS
  PROVE  Range(Reorder(PushTail(q, t), prio)) = Range(q) \cup {t}
<1>1. PushTail(q, t) \in Seq(S) /\ Range(PushTail(q, t)) = Range(q) \cup {t}
  BY PushTailProperties
<1>. QED
  BY <1>1, ReorderProperties

(* The hand-over is kept by the steps that change no data, and by those    *)
(* that do.                                                                *)
LEMMA HandQuiet ==
  ASSUME NEW one, Pairs = {one}, TypeOK, OneTurn, HandInv, Quiet, QuietControl(one)
  PROVE  HandInv'
<1>1. /\ UNCHANGED <<id, task_count, state, ready_queue, running_task_id>>
      /\ one \in Pairs /\ \A p \in Pairs : p = one
  BY DEF Quiet, tasks, queues
<1>2. TaskToFind' = TaskToFind /\ Registered' = Registered
  BY <1>1 DEF TaskToFind, Registered
<1>3. \A t : InService(t)' = InService(t)
  BY <1>1 DEF InService
<1>4. Apart'
  <2>1. /\ spc[one] = "top" /\ ~shutdown_flag => wpc[one] \notin {"woken", "pickup", "running"}
        /\ spc[one] \in {"lock", "pass", "post_worker"} /\ ~shutdown_flag
             => wpc[one] \notin {"woken", "pickup", "running"}
    BY TurnExcludes
  <2>. QED
    BY <1>1, <2>1 DEF HandInv, Apart, QuietControl
<1>5. ServedIsNamed'
  <2>. SUFFICES ASSUME NEW t \in Registered, InService(t)
                PROVE  /\ running_task_id = id[t]
                       /\ spc'[one] \notin {"lock", "pass"} /\ Serving(one)'
    BY <1>1, <1>2, <1>3 DEF ServedIsNamed
  <2>1. running_task_id = id[t] /\ spc[one] \notin {"lock", "pass"} /\ Serving(one)
    BY <1>1 DEF HandInv, ServedIsNamed
  <2>2. Serving(one)'
    BY <2>1 DEF QuietControl
  <2>3. ~(spc[one] = "top" /\ ~shutdown_flag)
    BY <2>1, TurnExcludes DEF Serving, Offered
  <2>4. spc'[one] \notin {"lock", "pass"}
    BY <2>1, <2>3 DEF QuietControl
  <2>. QED
    BY <2>1, <2>2, <2>4
<1>6. OfferedIsThere'
  BY <1>1, <1>2 DEF HandInv, OfferedIsThere, QuietControl
<1>. QED
  BY <1>4, <1>5, <1>6 DEF HandInv

(* In a pass no task is in service, and nobody is woken. *)
LEMMA NobodyServed ==
  ASSUME NEW one, Pairs = {one}, TypeOK, OneTurn, HandInv, spc[one] \in {"lock", "pass"}
  PROVE  /\ \A t \in Registered : ~InService(t)
         /\ ~Offered(one) /\ wpc[one] # "running"
<1>1. one \in Pairs
  OBVIOUS
<1>2. \A t \in Registered : ~InService(t)
  BY <1>1 DEF HandInv, ServedIsNamed
<1>3. wpc[one] \notin {"pickup", "running"}
  BY <1>1 DEF HandInv, Apart
<1>4. ~shutdown_flag => sem["worker"] = 0 /\ wpc[one] # "woken"
  BY TurnExcludes
<1>5. sem["worker"] \in Nat
  BY DEF TypeOK, ControlTypeOK, Semaphores
<1>. QED
  BY <1>2, <1>3, <1>4, <1>5 DEF Offered

LEMMA HandSubmit ==
  ASSUME NEW one, Pairs = {one}, IInv, HandInv, NEW j \in Jobs, Submit(j)
  PROVE  HandInv'
<1>1. /\ UNCHANGED <<spc, wpc, sem, shutdown_flag, running_task_id>>
      /\ one \in Pairs /\ \A p \in Pairs : p = one
  BY DEF Submit
<1>2. /\ task_count \in Idx /\ Registered' = Registered \cup {task_count}
      /\ task_count \notin Registered /\ Registered \subseteq Idx
      /\ id \in [Idx -> Int] /\ state \in [Idx -> TaskStates]
      /\ ready_queue \in Seq(Registered)
  <2>1. TypeOK
    BY DEF IInv, DataInv
  <2>2. /\ task_count \in Idx /\ Registered' = Registered \cup {task_count}
        /\ task_count \notin Registered /\ Registered \subseteq Idx
    BY <2>1, RegisteredTasks, Numbers DEF Submit, Acceptable, Registered, Idx
  <2>. QED
    BY <2>1, <2>2 DEF TypeOK, TasksTypeOK, QueuesTypeOK
<1>3. \A t \in Registered : id'[t] = id[t] /\ state'[t] = state[t]
  BY <1>2 DEF Submit
<1>4. /\ state'[task_count] = IF j.required = {} THEN "READY" ELSE "NEW"
      /\ Range(ready_queue) \subseteq Range(ready_queue')
      /\ Range(ready_queue') \subseteq Range(ready_queue) \cup {task_count}
      /\ j.required = {} => task_count \in Range(ready_queue')
  <2>. DEFINE t == task_count
              eff == [effective_priority EXCEPT ![t] = j.priority]
              q == Reorder(PushTail(ready_queue, t), eff)
  <2>1. ready_queue' = IF j.required = {} THEN q ELSE ready_queue
    BY DEF Submit
  <2>2. state'[t] = IF j.required = {} THEN "READY" ELSE "NEW"
    BY <1>2 DEF Submit
  <2>3. Len(ready_queue) < MAX_TASKS /\ ready_queue \in Seq(Registered') /\ t \in Registered'
    <3>1. Len(ready_queue) \in Nat /\ Len(ready_queue) <= task_count
      BY <1>2, QueueHasRoom DEF IInv, DataInv, QueuedWhereStateSays
    <3>2. task_count < MAX_TASKS /\ task_count \in Nat /\ MAX_TASKS \in Nat
      BY RegisteredTasks, Numbers DEF IInv, DataInv, Submit, Acceptable
    <3>. QED
      BY <1>2, <3>1, <3>2, SeqMonotonic
  <2>4. \A u \in Registered' : eff[u] \in Int
    BY <1>2, JobsAssumption, Numbers
       DEF IInv, DataInv, TypeOK, TasksTypeOK
  <2>. HIDE DEF eff, t
  <2>5. Range(q) = Range(ready_queue) \cup {t}
    BY <2>3, <2>4, MadeReady
  <2>. QED
    BY <2>1, <2>2, <2>5 DEF t
<1>5. \A t \in Registered : t \in Range(ready_queue') <=> t \in Range(ready_queue)
  BY <1>2, <1>4
<1>6. \A t \in Registered' : InService(t)' => t \in Registered /\ InService(t)
  BY <1>2, <1>3, <1>4, <1>5 DEF InService
<1>7. Serving(one)' = Serving(one) /\ Offered(one)' = Offered(one)
  BY <1>1 DEF Serving, Offered
<1>8. TaskToFind => TaskToFind'
  BY <1>1, <1>2, <1>3, <1>5 DEF TaskToFind
<1>9. Apart'
  BY <1>1 DEF HandInv, Apart
<1>10. ServedIsNamed'
  BY <1>1, <1>3, <1>6, <1>7 DEF HandInv, ServedIsNamed
<1>11. OfferedIsThere'
  BY <1>1, <1>7, <1>8 DEF HandInv, OfferedIsThere
<1>. QED
  BY <1>9, <1>10, <1>11 DEF HandInv

(* What a step keeps that changes neither the control nor the tasks in     *)
(* service.                                                                *)
LEMMA HandSame ==
  ASSUME NEW one, Pairs = {one}, HandInv,
         UNCHANGED <<spc, wpc, sem, shutdown_flag, running_task_id, id, task_count, state>>,
         Range(ready_queue') = Range(ready_queue)
  PROVE  HandInv'
<1>1. Registered' = Registered /\ \A t : InService(t)' = InService(t)
  BY DEF Registered, InService
<1>2. /\ Serving(one)' = Serving(one) /\ Offered(one)' = Offered(one)
      /\ TaskToFind' = TaskToFind
  BY <1>1 DEF Serving, Offered, TaskToFind
<1>3. Apart'
  BY DEF HandInv, Apart
<1>4. ServedIsNamed'
  BY <1>1, <1>2 DEF HandInv, ServedIsNamed
<1>5. OfferedIsThere'
  BY <1>2 DEF HandInv, OfferedIsThere
<1>. QED
  BY <1>3, <1>4, <1>5 DEF HandInv

(* A step of the pass that leaves nobody in service.                       *)
LEMMA HandIdle ==
  ASSUME NEW one, Pairs = {one}, TypeOK, OneTurn, HandInv, spc[one] \in {"lock", "pass"},
         UNCHANGED <<wpc, sem, shutdown_flag>>, spc'[one] # "post_worker",
         \A t \in Registered' : ~InService(t)'
  PROVE  HandInv'
<1>1. ~Offered(one) /\ wpc[one] # "running" /\ \A p \in Pairs : p = one
  BY NobodyServed
<1>2. ~Offered(one)'
  BY <1>1 DEF Offered
<1>3. wpc[one] \notin {"pickup", "running"}
  BY <1>1 DEF Offered
<1>. QED
  BY <1>1, <1>2, <1>3 DEF HandInv, Apart, ServedIsNamed, OfferedIsThere

LEMMA HandChangePriority ==
  ASSUME NEW one, Pairs = {one}, IInv, HandInv, NEW i \in Int,
         NEW priority \in ChangedPriorities, ChangePriority(i, priority)
  PROVE  HandInv'
<1>. DEFINE Hit == {t \in Registered : id[t] = i}
            eff == [t \in Idx |-> IF t \in Hit THEN priority ELSE effective_priority[t]]
<1>1. /\ UNCHANGED <<spc, wpc, sem, shutdown_flag, running_task_id, id, task_count, state>>
      /\ ready_queue' = IF Hit \cap Range(ready_queue) # {}
                        THEN Reorder(ready_queue, eff) ELSE ready_queue
  BY DEF ChangePriority
<1>2. ready_queue \in Seq(Registered) /\ \A t \in Registered : eff[t] \in Int
  BY RegisteredTasks, Numbers, ChangedPrioritiesAssumption
     DEF IInv, DataInv, TypeOK, TasksTypeOK, QueuesTypeOK
<1>. HIDE DEF eff, Hit
<1>3. Range(Reorder(ready_queue, eff)) = Range(ready_queue)
  BY <1>2, ReorderProperties
<1>4. Range(ready_queue') = Range(ready_queue)
  BY <1>1, <1>3
<1>. QED
  BY <1>1, <1>4, HandSame

(* The steps of a pass but the selection leave nobody in service.          *)
LEMMA HandPass ==
  ASSUME NEW one, Pairs = {one}, IInv, OneTurn, HandInv,
         NEW p \in Pairs, BeginPass(p) \/ NothingToRun(p)
  PROVE  HandInv'
<1>0. p = one /\ spc \in [Pairs -> SchedulerSteps]
  BY DEF IInv, DataInv, TypeOK, ControlTypeOK
<1>1. /\ spc[one] \in {"lock", "pass"} /\ UNCHANGED <<wpc, sem, shutdown_flag>>
      /\ spc'[one] # "post_worker"
      /\ UNCHANGED <<id, task_count, state, ready_queue>>
  <2>1. CASE BeginPass(p)
    BY <1>0, <2>1 DEF BeginPass, queues
  <2>2. CASE NothingToRun(p)
    <3>1. /\ spc[one] = "pass" /\ spc' = [spc EXCEPT ![one] = AfterIdlePass]
          /\ UNCHANGED <<wpc, sem, shutdown_flag, id, task_count, state, queues>>
      BY <1>0, <2>2 DEF NothingToRun, GoIdle
    <3>2. AfterIdlePass \in {"top", "idle"}
      BY DEF AfterIdlePass
    <3>3. spc'[one] = AfterIdlePass
      BY <1>0, <3>1
    <3>. QED
      BY <3>1, <3>2, <3>3 DEF queues
  <2>. QED
    BY <2>1, <2>2
<1>2. TypeOK
  BY DEF IInv, DataInv
<1>3. \A t \in Registered : ~InService(t)
  BY <1>1, <1>2, NobodyServed
<1>4. \A t \in Registered' : ~InService(t)'
  BY <1>1, <1>3 DEF InService, Registered
<1>. QED
  BY <1>1, <1>2, <1>4, HandIdle

LEMMA HandAllocate ==
  ASSUME NEW one, Pairs = {one}, IInv, OneTurn, HandInv, NEW p \in Pairs, AllocateNext(p)
  PROVE  HandInv'
<1>. DEFINE t == Head(blocked_queue)
            q == Reorder(PushTail(ready_queue, t), effective_priority)
<1>1. /\ spc[one] = "pass" /\ blocked_left > 0
      /\ UNCHANGED <<wpc, sem, shutdown_flag, spc, id, task_count, effective_priority>>
  BY DEF AllocateNext
<1>2. TypeOK /\ PassHasMutex /\ QueuedWhereStateSays
  BY IInvIsSafe DEF IInv, DataInv
<1>3. /\ blocked_queue \in Seq(Registered) /\ blocked_queue # <<>>
      /\ t \in Registered
  BY <1>1, <1>2, PassHasTask
<1>4. t \in Range(blocked_queue)
  BY <1>3, TailProperties
<1>5. state[t] \in {"NEW", "BLOCKED"} /\ t \notin Range(ready_queue)
  BY <1>2, <1>3, <1>4 DEF QueuedWhereStateSays
<1>6. \E s \in {"READY", "BLOCKED"} :
        /\ state' = [state EXCEPT ![t] = s]
        /\ ready_queue' = IF s = "READY" THEN q ELSE ready_queue
  BY <1>5 DEF AllocateNext, Allocate, MakeReady, Terminal
<1>7. /\ task_count \in Nat /\ Registered = 0 .. task_count - 1 /\ Registered \subseteq Idx
      /\ state \in [Idx -> TaskStates] /\ task_count <= MAX_TASKS
      /\ ready_queue \in Seq(Registered)
      /\ \A u \in Registered : effective_priority[u] \in Int
  BY <1>2, Basics, RegisteredTasks DEF TypeOK, QueuesTypeOK
<1>8. Len(ready_queue) < MAX_TASKS
  <2>. HIDE DEF t
  <2>1. Len(ready_queue) < task_count
    BY <1>2, <1>3, <1>5, <1>7, RoomForMissing DEF QueuedWhereStateSays
  <2>2. Len(ready_queue) \in Nat /\ MAX_TASKS \in Nat
    BY <1>7, LenProperties, Numbers
  <2>. QED
    BY <1>7, <2>1, <2>2
<1>9. Range(q) = Range(ready_queue) \cup {t}
  <2>1. /\ ready_queue \in Seq(Registered) /\ t \in Registered
        /\ \A u \in Registered : effective_priority[u] \in Int
    BY <1>3, <1>7
  <2>. HIDE DEF t
  <2>2. Range(Reorder(PushTail(ready_queue, t), effective_priority))
          = Range(ready_queue) \cup {t}
    BY <1>8, <2>1, MadeReady
  <2>. QED
    BY <2>2
<1>10. \A u \in Registered : ~InService(u)
  BY <1>1, <1>2, NobodyServed
<1>. HIDE DEF t, q
<1>11. \A u \in Registered : ~InService(u)'
  <2>1. PICK s \in {"READY", "BLOCKED"} :
          /\ state' = [state EXCEPT ![t] = s]
          /\ ready_queue' = IF s = "READY" THEN q ELSE ready_queue
    BY <1>6
  <2>. SUFFICES ASSUME NEW u \in Registered
                PROVE  ~InService(u)'
    OBVIOUS
  <2>2. CASE u = t
    BY <1>3, <1>7, <1>9, <2>1, <2>2 DEF InService
  <2>3. CASE u # t
    <3>1. state'[u] = state[u] /\ (u \in Range(ready_queue) => u \in Range(ready_queue'))
      BY <1>3, <1>7, <1>9, <2>1, <2>3
    <3>. QED
      BY <1>10, <3>1 DEF InService
  <2>. QED
    BY <2>2, <2>3
<1>12. Registered' = Registered
  BY <1>1 DEF Registered
<1>. QED
  BY <1>1, <1>2, <1>11, <1>12, HandIdle

LEMMA HandResolve ==
  ASSUME NEW one, Pairs = {one}, IInv, OneTurn, HandInv, NEW p \in Pairs, ResolveDeadlock(p)
  PROVE  HandInv'
<1>1. /\ spc[one] = "pass" /\ UNCHANGED <<wpc, sem, shutdown_flag, spc, id, task_count>>
  BY DEF ResolveDeadlock
<1>2. TypeOK /\ QueuedWhereStateSays
  BY DEF IInv, DataInv
<1>3. PICK c \in WaitCycles : \E w \in Victims(c) : Abort(w)
  BY DEF ResolveDeadlock
<1>4. PICK v \in Victims(c) : Abort(v)
  BY <1>3
<1>5. v \in Registered /\ state[v] = "BLOCKED"
  BY <1>2, CyclesAreStuck DEF Victims, Stuck
<1>6. /\ Registered \subseteq Idx /\ state \in [Idx -> TaskStates]
      /\ ready_queue \in Seq(Registered) /\ NoRepeats(ready_queue)
  BY <1>2, RegisteredTasks DEF TypeOK, TasksTypeOK, QueuesTypeOK, QueuedWhereStateSays
<1>7. /\ state' = [state EXCEPT ![v] = "DEADLOCK_ABORTED"]
      /\ ready_queue' = RemoveTask(ready_queue, v)
  BY <1>4 DEF Abort
<1>8. Range(ready_queue') = Range(ready_queue) \ {v}
  BY <1>6, <1>7, RemoveTaskProperties
<1>9. \A u \in Registered : ~InService(u)
  BY <1>1, <1>2, NobodyServed
<1>10. \A u \in Registered : ~InService(u)'
  BY <1>5, <1>6, <1>7, <1>8, <1>9 DEF InService
<1>11. Registered' = Registered
  BY <1>1 DEF Registered
<1>. QED
  BY <1>1, <1>2, <1>10, <1>11, HandIdle

(* A selection puts the head of the aged queue in service, and no other.   *)
LEMMA HandSelect ==
  ASSUME NEW one, Pairs = {one}, IInv, OneTurn, HandInv, NEW p \in Pairs, SelectTask(p)
  PROVE  HandInv'
<1>. DEFINE t == Head(AgedQueue)
<1>1. /\ spc[one] = "pass" /\ spc' = [spc EXCEPT ![one] = "post_worker"]
      /\ UNCHANGED <<wpc, sem, shutdown_flag, id, task_count, state>>
      /\ running_task_id' = id[t] /\ ready_queue' = Tail(AgedQueue)
      /\ ready_queue # <<>>
      /\ one \in Pairs /\ \A q \in Pairs : q = one
  BY DEF SelectTask, HandOver
<1>2. TypeOK /\ DataInv /\ QueuedWhereStateSays /\ ready_queue \in Seq(Registered)
      /\ spc \in [Pairs -> SchedulerSteps] /\ shutdown_flag \in BOOLEAN
  BY DEF IInv, DataInv, TypeOK, QueuesTypeOK, ControlTypeOK
<1>3. /\ AgedQueue \in Seq(Registered) /\ AgedQueue # <<>>
      /\ Range(AgedQueue) = Range(ready_queue) /\ NoRepeats(AgedQueue)
  BY <1>1, <1>2, IInvIsSafe, AgingProperties, EmptySeq
<1>4. /\ t \in Registered
      /\ Range(ready_queue) = Range(ready_queue') \cup {t} /\ t \notin Range(ready_queue')
  BY <1>1, <1>3, TailProperties
<1>. HIDE DEF t
<1>5. state[t] = "READY"
  BY <1>2, <1>4 DEF QueuedWhereStateSays
<1>6. /\ \A u \in Registered : ~InService(u)
      /\ ~Offered(one) /\ wpc[one] # "running"
  BY <1>1, <1>2, NobodyServed
<1>7. Registered' = Registered /\ \A u \in Registered : InService(u)' => u = t
  BY <1>1, <1>4, <1>6 DEF InService, Registered
<1>8. spc'[one] = "post_worker" /\ Serving(one)'
  BY <1>1, <1>2 DEF Serving, Offered
<1>9. TaskToFind'
  BY <1>1, <1>4, <1>5, <1>7 DEF TaskToFind
<1>10. Apart'
  BY <1>1, <1>6 DEF Apart, Offered
<1>11. ServedIsNamed'
  BY <1>1, <1>7, <1>8 DEF ServedIsNamed
<1>12. OfferedIsThere'
  BY <1>9 DEF OfferedIsThere
<1>. QED
  BY <1>10, <1>11, <1>12 DEF HandInv

(* The woken worker finds its task, READY and with time left: it runs it.  *)
LEMMA HandPickup ==
  ASSUME NEW one, Pairs = {one}, TimesInv, OneTurn, HandInv,
         NEW p \in Pairs, PickupRun(p) \/ PickupReject(p) \/ PickupUnknown(p)
  PROVE  HandInv'
<1>1. /\ wpc[one] = "pickup" /\ UNCHANGED <<spc, sem, shutdown_flag, id, task_count, ready_queue>>
      /\ one \in Pairs /\ p = one /\ \A q \in Pairs : q = one
  BY DEF PickupRun, PickupReject, PickupUnknown, tasks, queues
<1>2. /\ task_count \in Nat /\ Registered \subseteq Idx /\ Distinct(id, task_count)
      /\ Registered = 0 .. task_count - 1
      /\ state \in [Idx -> TaskStates] /\ wpc \in [Pairs -> WorkerSteps]
      /\ remaining_time \in [Idx -> Int]
  BY Basics DEF TimesInv
<1>3. PICK t \in Registered : /\ id[t] = running_task_id /\ state[t] = "READY"
                              /\ t \notin Range(ready_queue)
  BY <1>1 DEF HandInv, OfferedIsThere, Offered, TaskToFind
<1>4. Runnable(t) /\ remaining_time[t] > 0
  BY <1>2, <1>3 DEF Runnable, Assigned, TimesInv, TimeIsLeft, Terminal
<1>5. \A u \in Registered : Assigned(u) => u = t
  BY <1>2, <1>3 DEF Assigned, Distinct
<1>6. PickupRun(one)
  BY <1>1, <1>3, <1>4, <1>5 DEF PickupReject, PickupUnknown, Assigned
<1>7. /\ state' = [state EXCEPT ![t] = "RUNNING"]
      /\ wpc' = [wpc EXCEPT ![one] = "running"]
      /\ running_task_id' = running_task_id
  <2>1. PICK u \in Registered :
          /\ Runnable(u)
          /\ IF remaining_time[u] <= 0
             THEN wpc' = [wpc EXCEPT ![one] = "post_both"]
             ELSE /\ state' = [state EXCEPT ![u] = "RUNNING"]
                  /\ wpc' = [wpc EXCEPT ![one] = "running"]
                  /\ UNCHANGED running_task_id
    BY <1>6 DEF PickupRun
  <2>2. u = t
    BY <1>5, <2>1 DEF Runnable
  <2>. QED
    BY <1>2, <1>4, <2>1, <2>2
<1>8. wpc'[one] = "running" /\ spc[one] \notin {"lock", "pass", "post_worker"}
  BY <1>1, <1>2, <1>7 DEF HandInv, Apart
<1>9. ~Offered(one)'
  <2>1. ~shutdown_flag => ~(sem["worker"] > 0)
    <3>1. ~shutdown_flag => sem["worker"] = 0
      BY <1>1, TurnExcludes DEF TimesInv, IInv, DataInv
    <3>. QED
      BY <3>1
  <2>. QED
    BY <1>1, <1>8, <2>1 DEF Offered
<1>10. \A u \in Registered : InService(u)' => u = t
  <2>. SUFFICES ASSUME NEW u \in Registered, u # t, InService(u)'
                PROVE  FALSE
    OBVIOUS
  <2>1. InService(u)
    BY <1>1, <1>2, <1>3, <1>7 DEF InService
  <2>2. Assigned(u)
    BY <2>1 DEF HandInv, ServedIsNamed, Assigned
  <2>. QED
    BY <1>5, <2>2
<1>11. Apart'
  BY <1>1, <1>8 DEF Apart
<1>12. ServedIsNamed'
  BY <1>1, <1>3, <1>7, <1>8, <1>10 DEF ServedIsNamed, Serving, Registered
<1>13. OfferedIsThere'
  BY <1>1, <1>9 DEF OfferedIsThere
<1>. QED
  BY <1>11, <1>12, <1>13 DEF HandInv

(* The quantum ends the service of the task.                               *)
LEMMA HandFinish ==
  ASSUME NEW one, Pairs = {one}, TimesInv, OneTurn, HandInv, NEW p \in Pairs, FinishQuantum(p)
  PROVE  HandInv'
<1>. DEFINE t == current[one]
            q == Reorder(PushTail(ready_queue, t), effective_priority)
<1>1. /\ wpc[one] = "running" /\ wpc' = [wpc EXCEPT ![one] = "post"]
      /\ UNCHANGED <<spc, sem, shutdown_flag, id, task_count>>
      /\ \/ state' = [state EXCEPT ![t] = "FINISHED"] /\ UNCHANGED ready_queue
         \/ state' = [state EXCEPT ![t] = "READY"] /\ ready_queue' = q
      /\ one \in Pairs /\ \A r \in Pairs : r = one
  BY DEF FinishQuantum, Finish, MakeReady
<1>2. /\ task_count \in Nat /\ Registered \subseteq Idx /\ Distinct(id, task_count)
      /\ Registered = 0 .. task_count - 1
      /\ state \in [Idx -> TaskStates] /\ wpc \in [Pairs -> WorkerSteps]
  BY Basics DEF TimesInv
<1>3. /\ TypeOK /\ QueuedWhereStateSays /\ task_count <= MAX_TASKS
      /\ ready_queue \in Seq(Registered)
      /\ \A u \in Registered : effective_priority[u] \in Int
  BY RegisteredTasks DEF TimesInv, IInv, DataInv, TypeOK, QueuesTypeOK
<1>4. t \in Registered /\ state[t] = "RUNNING"
  BY <1>1 DEF TimesInv, IInv, DataInv, RunningIsRegistered, RunsOnOneWorker
<1>. HIDE DEF t
<1>5. t \notin Range(ready_queue)
  BY <1>3, <1>4 DEF QueuedWhereStateSays
<1>6. Len(ready_queue) < MAX_TASKS
  <2>1. Len(ready_queue) < task_count
    BY <1>2, <1>3, <1>4, <1>5, RoomForMissing DEF QueuedWhereStateSays
  <2>2. Len(ready_queue) \in Nat /\ MAX_TASKS \in Nat
    BY <1>3, LenProperties, Numbers
  <2>. QED
    BY <1>2, <1>3, <2>1, <2>2
<1>7. Range(q) = Range(ready_queue) \cup {t}
  BY <1>3, <1>4, <1>6, MadeReady
<1>8. wpc'[one] = "post"
  BY <1>1, <1>2
<1>9. ~Offered(one)'
  <2>1. ~shutdown_flag => sem["worker"] = 0 /\ spc[one] = "wait"
    BY <1>1, <1>3, TurnExcludes
  <2>2. ~shutdown_flag => ~(sem["worker"] > 0) /\ spc[one] # "post_worker"
    BY <2>1
  <2>. QED
    BY <1>1, <1>8, <2>2 DEF Offered
<1>10. \A u \in Registered : InService(u) => u = t
  <2>1. id[t] = running_task_id
    BY <1>4 DEF HandInv, ServedIsNamed, InService
  <2>. QED
    BY <1>2, <1>4, <2>1 DEF HandInv, ServedIsNamed, Distinct
<1>. HIDE DEF q
<1>11. \A u \in Registered : ~InService(u)'
  <2>. SUFFICES ASSUME NEW u \in Registered PROVE ~InService(u)'
    OBVIOUS
  <2>1. CASE u = t
    BY <1>1, <1>2, <1>4, <1>7, <2>1 DEF InService
  <2>2. CASE u # t
    <3>1. state'[u] = state[u] /\ (u \in Range(ready_queue) => u \in Range(ready_queue'))
      BY <1>1, <1>2, <1>4, <1>7, <2>2
    <3>. QED
      BY <1>10, <2>2, <3>1 DEF InService
  <2>. QED
    BY <2>1, <2>2
<1>12. Registered' = Registered
  BY <1>1 DEF Registered
<1>13. Apart' /\ ServedIsNamed' /\ OfferedIsThere'
  BY <1>1, <1>8, <1>9, <1>11, <1>12 DEF Apart, ServedIsNamed, OfferedIsThere
<1>. QED
  BY <1>13 DEF HandInv

LEMMA HandStep ==
  ASSUME NEW one, Pairs = {one}
  PROVE  TimesInv /\ OneTurn /\ HandInv /\ [Next]_vars => HandInv'
<1>. SUFFICES ASSUME TimesInv, OneTurn, HandInv, [Next]_vars PROVE HandInv'
  OBVIOUS
<1>1. TypeOK /\ ShutdownIsStop /\ IInv
  BY DEF TimesInv, IInv, DataInv, AssignmentInv
<1>2. (Quiet /\ QuietControl(one)) \/ DataStep
  BY <1>1, StepIsQuietOrData, StepIsControlOrData
<1>3. CASE Quiet /\ QuietControl(one)
  BY <1>1, <1>3, HandQuiet
<1>4. ASSUME NEW j \in Jobs, Submit(j) PROVE HandInv'
  BY <1>1, <1>4, HandSubmit
<1>5. ASSUME NEW i \in Int, NEW priority \in ChangedPriorities, ChangePriority(i, priority)
      PROVE  HandInv'
  BY <1>1, <1>5, HandChangePriority
<1>6. ASSUME NEW p \in Pairs, BeginPass(p) \/ NothingToRun(p) PROVE HandInv'
  BY <1>1, <1>6, HandPass
<1>7. ASSUME NEW p \in Pairs, AllocateNext(p) PROVE HandInv'
  BY <1>1, <1>7, HandAllocate
<1>8. ASSUME NEW p \in Pairs, ResolveDeadlock(p) PROVE HandInv'
  BY <1>1, <1>8, HandResolve
<1>9. ASSUME NEW p \in Pairs, SelectTask(p) PROVE HandInv'
  BY <1>1, <1>9, HandSelect
<1>10. ASSUME NEW p \in Pairs, PickupRun(p) \/ PickupReject(p) \/ PickupUnknown(p)
       PROVE  HandInv'
  BY <1>10, HandPickup
<1>11. ASSUME NEW p \in Pairs, FinishQuantum(p) PROVE HandInv'
  BY <1>11, HandFinish
<1>. QED
  BY <1>2, <1>3, <1>4, <1>5, <1>6, <1>7, <1>8, <1>9, <1>10, <1>11 DEF DataStep

--------------------------------------------------------------------------------
(* The end *)

(* A process of the pair that has begun and not ended is one that stop()   *)
(* will wait for.                                                          *)
AwaitedInv ==
  \A p \in Pairs :
    /\ spc[p] \in {"unborn", "done"}
         \/ (scheduler_pid = p /\ jpc \notin {"join_worker", "closed"})
    /\ wpc[p] \in {"unborn", "done"} \/ (worker_pid = p /\ jpc # "closed")

LEMMA ProcessStepShape ==
  ASSUME NEW p \in Pairs, ProcessStep(p)
  PROVE  /\ UNCHANGED <<jpc, scheduler_pid, worker_pid>>
         /\ \/ spc[p] \notin {"unborn", "done"} /\ wpc' = wpc
            \/ wpc[p] \notin {"unborn", "done"} /\ spc' = spc
<1>1. CASE SchedulerStep(p)
  BY <1>1 DEF SchedulerStep, SchedulerBoot, SchedulerCheck, BeginPass, AllocateNext,
              ResolveDeadlock, SelectTask, HandOver, NothingToRun, GoIdle,
              SchedulerPosts, SchedulerWaits, handles
<1>2. CASE WorkerStep(p)
  BY <1>2 DEF WorkerStep, WorkerBoot, WorkerCheck, WorkerWaits, PickupRun, PickupReject,
              PickupUnknown, FinishQuantum, WorkerPosts, handles
<1>. QED
  BY <1>1, <1>2 DEF ProcessStep

LEMMA AwaitedStep ==
  ASSUME NEW one, Pairs = {one}, TypeOK, AwaitedInv, [Next]_vars
  PROVE  AwaitedInv'
<1>1. one \in Pairs /\ \A p \in Pairs : p = one
  OBVIOUS
<1>2. spc \in [Pairs -> SchedulerSteps] /\ wpc \in [Pairs -> WorkerSteps]
  BY DEF TypeOK, ControlTypeOK
<1>3. ASSUME UNCHANGED <<spc, wpc, scheduler_pid, worker_pid>>,
             jpc' = jpc \/ jpc' \notin {"join_worker", "closed"}
      PROVE  AwaitedInv'
  BY <1>3 DEF AwaitedInv
<1>4. CASE UNCHANGED vars
  BY <1>3, <1>4 DEF vars, handles
<1>5. ASSUME NEW j, Submit(j) PROVE AwaitedInv'
  BY <1>3, <1>5 DEF Submit, handles
<1>6. ASSUME NEW i, NEW priority, ChangePriority(i, priority) PROVE AwaitedInv'
  BY <1>3, <1>6 DEF ChangePriority, handles
<1>7. ASSUME NEW p \in Pairs, Start(p) PROVE AwaitedInv'
  <2>1. PICK s \in {"boot", "done"}, w \in {"boot", "done"} :
          /\ spc' = [spc EXCEPT ![p] = s] /\ wpc' = [wpc EXCEPT ![p] = w]
          /\ scheduler_pid' = IF s = "boot" THEN p ELSE NoPair
          /\ worker_pid' = IF w = "boot" THEN p ELSE NoPair
    BY <1>7 DEF Start, Forked
  <2>2. jpc' = "idle"
    BY <1>7 DEF Start
  <2>3. spc'[one] = s /\ wpc'[one] = w /\ p = one
    BY <1>1, <1>2, <2>1
  <2>. QED
    BY <1>1, <2>1, <2>2, <2>3 DEF AwaitedInv
<1>8. CASE Stop \/ Notify
  BY <1>3, <1>8 DEF Stop, Notify, handles
<1>9. ASSUME NEW from, NEW s, NEW to \in {"post_scheduler", "post_event", "join_scheduler"},
             StopPost(from, s, to)
      PROVE  AwaitedInv'
  BY <1>3, <1>9 DEF StopPost, handles
<1>10. CASE JoinScheduler
  BY <1>1, <1>10, PairsAssumption DEF JoinScheduler, Joined, AwaitedInv
<1>11. CASE JoinWorker
  BY <1>1, <1>11, PairsAssumption DEF JoinWorker, Joined, AwaitedInv
<1>12. ASSUME NEW p \in Pairs, ProcessStep(p) PROVE AwaitedInv'
  <2>1. /\ UNCHANGED <<jpc, scheduler_pid, worker_pid>> /\ p = one
        /\ \/ spc[p] \notin {"unborn", "done"} /\ wpc' = wpc
           \/ wpc[p] \notin {"unborn", "done"} /\ spc' = spc
    BY <1>1, <1>12, ProcessStepShape
  <2>2. jpc \notin {"closed"}
    BY <1>12 DEF ProcessStep, Closed
  <2>. QED
    BY <1>1, <2>1, <2>2 DEF AwaitedInv
<1>13. CASE JniContinues
  BY <1>8, <1>9, <1>10, <1>11, <1>13 DEF JniContinues
<1>. QED
  BY <1>4, <1>5, <1>6, <1>7, <1>8, <1>12, <1>13 DEF Next, Stopped

--------------------------------------------------------------------------------
(* The theorems *)

(* The inductive invariant of one pair.                                    *)
PairInv == TimesInv /\ OneTurn /\ HandInv /\ AwaitedInv

LEMMA InitPairInv == Init => PairInv
<1>. SUFFICES ASSUME Init PROVE PairInv
  OBVIOUS
<1>1. Registered = {}
  BY DEF Init, Registered
<1>2. OneTurn
  BY DEF Init, OneTurn, Num, Semaphores
<1>3. HandInv
  BY <1>1 DEF Init, HandInv, Apart, ServedIsNamed, OfferedIsThere, Offered, Semaphores
<1>4. AwaitedInv
  BY DEF Init, AwaitedInv
<1>. QED
  BY <1>2, <1>3, <1>4, InitTimesInv DEF PairInv

LEMMA StepPairInv ==
  ASSUME NEW one, Pairs = {one}, PairInv, [Next]_vars
  PROVE  PairInv'
<1>1. TypeOK /\ ShutdownIsStop
  BY DEF PairInv, TimesInv, IInv, DataInv, AssignmentInv
<1>2. TimesInv'
  BY StepTimesInv DEF PairInv
<1>3. OneTurn'
  BY <1>1, OneTurnStep DEF PairInv
<1>4. HandInv'
  BY HandStep DEF PairInv
<1>5. AwaitedInv'
  BY <1>1, AwaitedStep DEF PairInv
<1>. QED
  BY <1>2, <1>3, <1>4, <1>5 DEF PairInv

THEOREM PairInvariance ==
  ASSUME NEW one, Pairs = {one}
  PROVE  Spec => []PairInv
<1>1. PairInv /\ [Next]_vars => PairInv'
  BY StepPairInv
<1>. QED
  BY <1>1, InitPairInv, PTL DEF Spec

(* The scheduler and the worker of a single start() take turns: until      *)
(* stop(), exactly one of them, or one semaphore, has the turn.            *)
THEOREM OnePairTakesTurns ==
  ASSUME NEW one, Pairs = {one}
  PROVE  Spec => []OneTurn
<1>1. PairInv => OneTurn
  BY DEF PairInv
<1>. QED
  BY <1>1, PairInvariance, PTL

(* A task that may run is in the ready queue, or is the one assigned.      *)
THEOREM OnePairLosesNoTask ==
  ASSUME NEW one, Pairs = {one}
  PROVE  Spec => []NoTaskLost
<1>1. PairInv => NoTaskLost
  BY DEF PairInv, HandInv, ServedIsNamed, NoTaskLost
<1>. QED
  BY <1>1, PairInvariance, PTL

(* The worker that looks up its task finds it READY, in no queue, and with *)
(* time left.                                                              *)
THEOREM OnePairWorkerFindsItsTask ==
  ASSUME NEW one, Pairs = {one}
  PROVE  Spec => []WorkerFindsItsTask
<1>1. PairInv => WorkerFindsItsTask
  <2>. SUFFICES ASSUME PairInv, NEW p \in Pairs, wpc[p] = "pickup"
                PROVE  \E t \in Registered :
                         /\ id[t] = running_task_id /\ state[t] = "READY"
                         /\ remaining_time[t] > 0 /\ t \notin Range(ready_queue)
    BY DEF WorkerFindsItsTask
  <2>1. TaskToFind
    BY DEF PairInv, HandInv, OfferedIsThere, Offered
  <2>2. PICK t \in Registered : /\ id[t] = running_task_id /\ state[t] = "READY"
                                /\ t \notin Range(ready_queue)
    BY <2>1 DEF TaskToFind
  <2>3. remaining_time[t] > 0
    BY <2>2 DEF PairInv, TimesInv, TimeIsLeft, Terminal
  <2>. QED
    BY <2>2, <2>3
<1>. QED
  BY <1>1, PairInvariance, PTL

(* stop() destroys the mutex and the semaphores after both processes of    *)
(* the pair have ended, whatever they were doing when it was called.       *)
THEOREM OnePairClosesLast ==
  ASSUME NEW one, Pairs = {one}
  PROVE  Spec => []ClosedAfterAll
<1>1. PairInv => ClosedAfterAll
  <2>. SUFFICES ASSUME PairInv, jpc = "closed"
                PROVE  mutex = Free /\ \A p \in Pairs : /\ spc[p] \in {"unborn", "done"}
                                                        /\ wpc[p] \in {"unborn", "done"}
    BY DEF ClosedAfterAll, Closed
  <2>1. \A p \in Pairs : spc[p] \in {"unborn", "done"} /\ wpc[p] \in {"unborn", "done"}
    BY DEF PairInv, AwaitedInv
  <2>2. mutex \in Pairs \cup {Free} /\ \A p \in Pairs : spc[p] = "pass" <=> mutex = p
    BY DEF PairInv, TimesInv, IInv, DataInv, TypeOK, ControlTypeOK, PassOwnsMutex
  <2>. QED
    BY <2>1, <2>2
<1>. QED
  BY <1>1, PairInvariance, PTL
--------------------------------------------------------------------------------
(* Nobody is stuck, with killed processes too *)

(* The turn is with somebody alive, in a semaphore, with a mutex that a    *)
(* killed process has left locked, or it is lost.                          *)
TurnLeft ==
  ~shutdown_flag => \A p \in Pairs :
    Num(spc[p] \notin {"wait", "done"} \/ mutex = p) + sem["worker"] + sem["scheduler"]
      + Num(wpc[p] \in {"woken", "pickup", "running", "post", "post_both"}) <= 1

(* The owner of the mutex is a scheduler in its pass; or it was killed, and*)
(* the scheduler is not on its way to the mutex.                           *)
OwnerInPass ==
  \A p \in Pairs : mutex = p => \/ spc[p] \in {"pass", "wait", "done"}
                                \/ shutdown_flag /\ spc[p] # "lock"

LockApart ==
  \A p \in Pairs : wpc[p] \in {"pickup", "running"} => mutex # p /\ spc[p] # "lock"

(* stop() has posted the semaphore of each wait that is still ahead of a   *)
(* process: there is one such wait at most, for the flag is tested after it.*)
TokensLeft ==
  \A p \in Pairs :
    /\ jpc \in {"post_scheduler", "post_event", "join_scheduler", "join_worker"} =>
         (wpc[p] = "wait" => sem["worker"] > 0)
    /\ jpc \in {"post_event", "join_scheduler", "join_worker"} =>
         (spc[p] \in {"lock", "pass", "post_worker", "wait"} => sem["scheduler"] > 0)
    /\ jpc \in {"join_scheduler", "join_worker"} =>
         (spc[p] \in {"lock", "pass", "idle"} => sem["event"] > 0)

WakeInv == TurnLeft /\ OwnerInPass /\ LockApart /\ TokensLeft

(* The same of one pair: where its scheduler and its worker are (s, w),    *)
(* the number of mutexes they have locked (m), the tokens of the three     *)
(* semaphores (a, b, e), the JNI thread (j) and the flag (f).              *)
Awake(s, w, m, a, b, e, j, f) ==
  /\ ~f => (IF s \notin {"wait", "done"} \/ m = 1 THEN 1 ELSE 0) + a + b
             + (IF w \in {"woken", "pickup", "running", "post", "post_both"} THEN 1 ELSE 0) <= 1
  /\ m = 1 => s \in {"pass", "wait", "done"} \/ (f /\ s # "lock")
  /\ w \in {"pickup", "running"} => m = 0 /\ s # "lock"
  /\ j \in {"post_scheduler", "post_event", "join_scheduler", "join_worker"} =>
       (w = "wait" => a > 0)
  /\ j \in {"post_event", "join_scheduler", "join_worker"} =>
       (s \in {"lock", "pass", "post_worker", "wait"} => b > 0)
  /\ j \in {"join_scheduler", "join_worker"} =>
       (s \in {"lock", "pass", "idle"} => e > 0)

Locked(p) == IF mutex = p THEN 1 ELSE 0

LEMMA WakeOfOne ==
  ASSUME NEW one, Pairs = {one}
  PROVE  WakeInv <=> Awake(spc[one], wpc[one], Locked(one), sem["worker"], sem["scheduler"],
                           sem["event"], jpc, shutdown_flag)
BY DEF WakeInv, TurnLeft, OwnerInPass, LockApart, TokensLeft, Awake, Locked, Num

(* A step of the JNI thread moves no process, and takes no token.          *)
LEMMA WakeCalls ==
  ASSUME NEW one, Pairs = {one}, KillsInv, WakeInv,
         \/ \E j \in Jobs : Submit(j)
         \/ \E i \in {j.id : j \in Jobs}, priority \in ChangedPriorities : ChangePriority(i, priority)
         \/ \E p \in Pairs : Start(p)
         \/ Stop
         \/ JniContinues
  PROVE  WakeInv'
<1>. DEFINE A == Awake(spc[one], wpc[one], Locked(one), sem["worker"], sem["scheduler"],
                       sem["event"], jpc, shutdown_flag)
<1>0. A /\ (A' => WakeInv')
  BY WakeOfOne, WakeOfOne, PTL
<1>1. /\ one \in Pairs /\ \A p \in Pairs : p = one
      /\ sem \in [Semaphores -> Nat] /\ Semaphores = {"worker", "scheduler", "event"}
      /\ sem["worker"] \in Nat /\ sem["scheduler"] \in Nat /\ sem["event"] \in Nat
      /\ spc \in [Pairs -> SchedulerSteps] /\ wpc \in [Pairs -> WorkerSteps]
      /\ shutdown_flag \in BOOLEAN /\ (shutdown_flag <=> jpc \notin {"idle", "notify"})
  BY KillsControl DEF ControlTypeOK, ShutdownIsStop, Semaphores
<1>2. ASSUME UNCHANGED <<spc, wpc, mutex, sem>>,
             \/ jpc' \in {"idle", "notify", "post_worker", "closed"}
             \/ jpc = "join_scheduler" /\ jpc' = "join_worker",
             shutdown_flag' = shutdown_flag \/ shutdown_flag' = TRUE
      PROVE  WakeInv'
  <2>1. Locked(one)' = Locked(one)
    BY <1>2 DEF Locked
  <2>. QED
    BY <1>0, <1>1, <1>2, <2>1 DEF Awake
<1>3. ASSUME NEW j, Submit(j) PROVE WakeInv'
  <2>1. UNCHANGED <<spc, wpc, mutex, sem, shutdown_flag>> /\ jpc' = "notify"
    BY <1>3 DEF Submit
  <2>. QED
    BY <1>2, <2>1
<1>4. ASSUME NEW i, NEW priority, ChangePriority(i, priority) PROVE WakeInv'
  <2>1. UNCHANGED <<spc, wpc, mutex, sem, shutdown_flag>> /\ jpc' = "notify"
    BY <1>4 DEF ChangePriority
  <2>. QED
    BY <1>2, <2>1
<1>5. ASSUME NEW p \in Pairs, Start(p) PROVE WakeInv'
  <2>1. PICK s \in {"boot", "done"}, w \in {"boot", "done"} :
          /\ spc' = [spc EXCEPT ![p] = s] /\ wpc' = [wpc EXCEPT ![p] = w]
    BY <1>5 DEF Start, Forked
  <2>2. /\ spc[one] = "unborn" /\ wpc[one] = "unborn" /\ ~shutdown_flag
        /\ spc'[one] \in {"boot", "done"} /\ wpc'[one] \in {"boot", "done"}
        /\ sem' = sem /\ jpc' = "idle"
    BY <1>1, <1>5, <2>1 DEF Start
  <2>3. Locked(one) = 0 /\ Locked(one)' = 0
    <3>1. Locked(one) # 1
      BY <1>0, <2>2 DEF Awake
    <3>. QED
      BY <1>5, <3>1 DEF Locked, Start
  <2>. QED
    BY <1>0, <1>1, <2>2, <2>3 DEF Awake
<1>6. CASE Stop
  BY <1>2, <1>6 DEF Stop
<1>7. CASE Notify
  <2>1. /\ UNCHANGED <<spc, wpc, mutex, shutdown_flag>> /\ jpc' = "idle" /\ jpc = "notify"
        /\ sem'["worker"] = sem["worker"] /\ sem'["scheduler"] = sem["scheduler"]
    BY <1>1, <1>7 DEF Notify, Post, Notified
  <2>2. Locked(one)' = Locked(one)
    BY <2>1 DEF Locked
  <2>. QED
    BY <1>0, <1>1, <2>1, <2>2 DEF Awake
<1>8. ASSUME NEW s \in Semaphores, NEW from, NEW to, StopPost(from, s, to)
      PROVE  /\ UNCHANGED <<spc, wpc, shutdown_flag>> /\ Locked(one)' = Locked(one)
             /\ jpc = from /\ jpc' = to
             /\ \A r \in Semaphores : sem'[r] = IF r = s THEN sem[r] + 1 ELSE sem[r]
  BY <1>1, <1>8 DEF StopPost, Post, Locked
<1>9. CASE StopPost("post_worker", "worker", "post_scheduler")
  <2>1. /\ sem'["worker"] = sem["worker"] + 1 /\ sem'["scheduler"] = sem["scheduler"]
        /\ sem'["event"] = sem["event"]
    BY <1>1, <1>8, <1>9
  <2>. QED
    BY <1>0, <1>1, <1>8, <1>9, <2>1 DEF Awake
<1>10. CASE StopPost("post_scheduler", "scheduler", "post_event")
  <2>1. /\ sem'["worker"] = sem["worker"] /\ sem'["scheduler"] = sem["scheduler"] + 1
        /\ sem'["event"] = sem["event"]
    BY <1>1, <1>8, <1>10
  <2>. QED
    BY <1>0, <1>1, <1>8, <1>10, <2>1 DEF Awake
<1>11. CASE StopPost("post_event", "event", "join_scheduler")
  <2>1. /\ sem'["worker"] = sem["worker"] /\ sem'["scheduler"] = sem["scheduler"]
        /\ sem'["event"] = sem["event"] + 1
    BY <1>1, <1>8, <1>11
  <2>. QED
    BY <1>0, <1>1, <1>8, <1>11, <2>1 DEF Awake
<1>12. CASE JoinScheduler \/ JoinWorker
  <2>1. /\ UNCHANGED <<spc, wpc, mutex, sem, shutdown_flag>>
        /\ \/ jpc = "join_scheduler" /\ jpc' = "join_worker"
           \/ jpc' = "closed"
    BY <1>12 DEF JoinScheduler, JoinWorker
  <2>. QED
    BY <1>2, <2>1
<1>. QED
  BY <1>3, <1>4, <1>5, <1>6, <1>7, <1>9, <1>10, <1>11, <1>12 DEF JniContinues

(* A step of the scheduler: it waits for a token only if it had not read   *)
(* the flag before, and locks the mutex only with the turn.                *)
LEMMA WakeScheduler ==
  ASSUME NEW one, Pairs = {one}, KillsInv, WakeInv, SchedulerStep(one)
  PROVE  WakeInv'
<1>. DEFINE A == Awake(spc[one], wpc[one], Locked(one), sem["worker"], sem["scheduler"],
                       sem["event"], jpc, shutdown_flag)
<1>0. A /\ (A' => WakeInv')
  BY WakeOfOne, WakeOfOne, PTL
<1>1. /\ one \in Pairs /\ \A p \in Pairs : p = one
      /\ sem \in [Semaphores -> Nat] /\ Semaphores = {"worker", "scheduler", "event"}
      /\ sem["worker"] \in Nat /\ sem["scheduler"] \in Nat /\ sem["event"] \in Nat
      /\ spc \in [Pairs -> SchedulerSteps]
      /\ mutex \in Pairs \cup {Free} /\ one # Free
      /\ shutdown_flag \in BOOLEAN /\ (shutdown_flag <=> jpc \notin {"idle", "notify"})
      /\ spc[one] \in {"exit_worker", "exit_scheduler", "exit_event"} => shutdown_flag
      /\ spc[one] = "pass" => mutex = one
  BY KillsControl, PairsAssumption DEF ControlTypeOK, ShutdownIsStop, Semaphores
<1>2. UNCHANGED <<wpc, jpc, shutdown_flag>>
  BY DEF SchedulerStep, SchedulerBoot, SchedulerCheck, BeginPass, AllocateNext, ResolveDeadlock,
         Abort, SelectTask, HandOver, NothingToRun, GoIdle, SchedulerPosts, SchedulerWaits
<1>3. ASSUME sem' = sem, Locked(one)' = Locked(one), spc'[one] = spc[one]
      PROVE  WakeInv'
  BY <1>0, <1>2, <1>3 DEF Awake
<1>4. CASE SchedulerBoot(one)
  <2>1. sem' = sem /\ Locked(one)' = Locked(one) /\ spc[one] = "boot" /\ spc'[one] \in {"top", "done"}
    BY <1>1, <1>4 DEF SchedulerBoot, Attached, Locked
  <2>. QED
    BY <1>0, <1>1, <1>2, <2>1 DEF Awake, Locked
<1>5. CASE SchedulerCheck(one)
  <2>1. /\ sem' = sem /\ Locked(one)' = Locked(one) /\ Locked(one) \in {0, 1}
        /\ \/ shutdown_flag /\ spc'[one] = "exit_worker"
           \/ ~shutdown_flag /\ spc'[one] \in {"top", "lock"}
        /\ spc[one] \in {"top", "woken"}
    BY <1>1, <1>5 DEF SchedulerCheck, Locked
  <2>2. Locked(one) = 0 \/ shutdown_flag
    BY <1>0, <2>1 DEF Awake
  <2>3. ~shutdown_flag => jpc \notin {"post_scheduler", "post_event", "join_scheduler", "join_worker"}
    BY <1>1
  <2>. QED
    BY <1>0, <1>1, <1>2, <2>1, <2>2, <2>3 DEF Awake
<1>6. CASE BeginPass(one)
  <2>1. /\ sem' = sem /\ Locked(one)' = 1 /\ spc[one] = "lock" /\ spc'[one] = "pass"
    BY <1>1, <1>6 DEF BeginPass, Locked
  <2>. QED
    BY <1>0, <1>1, <1>2, <2>1 DEF Awake
<1>7. CASE AllocateNext(one) \/ ResolveDeadlock(one)
  BY <1>3, <1>7 DEF AllocateNext, ResolveDeadlock, Locked
<1>8. CASE SelectTask(one) \/ NothingToRun(one)
  <2>1. /\ sem' = sem /\ mutex' = Free /\ spc[one] = "pass"
        /\ spc'[one] \in {"post_worker", "top", "idle"}
    BY <1>1, <1>8 DEF SelectTask, HandOver, NothingToRun, GoIdle, AfterIdlePass, ReleasePass
  <2>2. Locked(one) = 1 /\ Locked(one)' = 0
    BY <1>1, <2>1 DEF Locked
  <2>. QED
    BY <1>0, <1>1, <1>2, <2>1, <2>2 DEF Awake
<1>9. ASSUME NEW s \in Semaphores, NEW from, NEW to, SchedulerPosts(one, from, s, to)
      PROVE  /\ Locked(one)' = Locked(one) /\ spc[one] = from /\ spc'[one] = to
             /\ \A r \in Semaphores : sem'[r] = IF r = s THEN sem[r] + 1 ELSE sem[r]
  BY <1>1, <1>9 DEF SchedulerPosts, Post, Locked
<1>10. CASE SchedulerPosts(one, "post_worker", "worker", "wait")
  <2>1. /\ sem'["worker"] = sem["worker"] + 1 /\ sem'["scheduler"] = sem["scheduler"]
        /\ sem'["event"] = sem["event"] /\ Locked(one)' = Locked(one)
        /\ spc[one] = "post_worker" /\ spc'[one] = "wait" /\ Locked(one) \in {0, 1}
    BY <1>1, <1>9, <1>10 DEF Locked
  <2>2. Locked(one) = 0 \/ shutdown_flag
    BY <1>0, <2>1 DEF Awake
  <2>. QED
    BY <1>0, <1>1, <1>2, <2>1, <2>2 DEF Awake
<1>11. ASSUME NEW s \in Semaphores, NEW from \in {"exit_worker", "exit_scheduler", "exit_event"},
              NEW to \in {"exit_scheduler", "exit_event", "done"}, SchedulerPosts(one, from, s, to)
       PROVE  WakeInv'
  <2>1. /\ sem'["worker"] >= sem["worker"] /\ sem'["scheduler"] >= sem["scheduler"]
        /\ sem'["event"] >= sem["event"] /\ Locked(one)' = Locked(one)
        /\ spc[one] = from /\ spc'[one] = to /\ shutdown_flag /\ Locked(one) \in {0, 1}
        /\ sem'["worker"] \in Nat /\ sem'["scheduler"] \in Nat /\ sem'["event"] \in Nat
    BY <1>1, <1>9, <1>11 DEF Locked
  <2>. QED
    BY <1>0, <1>1, <1>2, <2>1 DEF Awake
<1>12. ASSUME NEW s \in Semaphores, NEW from, NEW to, SchedulerWaits(one, from, s, to)
       PROVE  /\ Locked(one)' = Locked(one) /\ spc[one] = from /\ spc'[one] = to
              /\ \A r \in Semaphores : sem'[r] = IF r = s THEN sem[r] - 1 ELSE sem[r]
              /\ Locked(one) \in {0, 1} /\ sem[s] > 0
  BY <1>1, <1>12 DEF SchedulerWaits, SemWait, Locked
<1>13. CASE SchedulerWaits(one, "wait", "scheduler", "woken")
  <2>1. /\ sem'["worker"] = sem["worker"] /\ sem'["scheduler"] = sem["scheduler"] - 1
        /\ sem'["event"] = sem["event"] /\ Locked(one)' = Locked(one)
        /\ spc[one] = "wait" /\ spc'[one] = "woken" /\ Locked(one) \in {0, 1}
        /\ sem["scheduler"] > 0
    BY <1>1, <1>12, <1>13
  <2>2. Locked(one) = 0 \/ shutdown_flag
    BY <1>0, <1>1, <2>1 DEF Awake
  <2>. QED
    BY <1>0, <1>1, <1>2, <2>1, <2>2 DEF Awake
<1>14. CASE SchedulerWaits(one, "idle", "event", "top")
  <2>1. /\ sem'["worker"] = sem["worker"] /\ sem'["scheduler"] = sem["scheduler"]
        /\ Locked(one)' = Locked(one)
        /\ spc[one] = "idle" /\ spc'[one] = "top" /\ Locked(one) \in {0, 1}
    BY <1>1, <1>12, <1>14
  <2>2. Locked(one) = 0 \/ shutdown_flag
    BY <1>0, <2>1 DEF Awake
  <2>. QED
    BY <1>0, <1>1, <1>2, <2>1, <2>2 DEF Awake
<1>. QED
  BY <1>1, <1>4, <1>5, <1>6, <1>7, <1>8, <1>10, <1>11, <1>13, <1>14 DEF SchedulerStep

(* A step of the worker: only with the turn, and not after the flag is set,*)
(* does it go to look up a task.                                           *)
LEMMA WakeWorker ==
  ASSUME NEW one, Pairs = {one}, KillsInv, WakeInv, WorkerStep(one)
  PROVE  WakeInv'
<1>. DEFINE A == Awake(spc[one], wpc[one], Locked(one), sem["worker"], sem["scheduler"],
                       sem["event"], jpc, shutdown_flag)
<1>0. A /\ (A' => WakeInv')
  BY WakeOfOne, WakeOfOne, PTL
<1>1. /\ one \in Pairs
      /\ sem \in [Semaphores -> Nat] /\ Semaphores = {"worker", "scheduler", "event"}
      /\ sem["worker"] \in Nat /\ sem["scheduler"] \in Nat /\ sem["event"] \in Nat
      /\ wpc \in [Pairs -> WorkerSteps]
      /\ shutdown_flag \in BOOLEAN /\ (shutdown_flag <=> jpc \notin {"idle", "notify"})
  BY KillsControl DEF ControlTypeOK, ShutdownIsStop, Semaphores
<1>2. UNCHANGED <<spc, mutex, jpc, shutdown_flag>>
  BY DEF WorkerStep, WorkerBoot, WorkerCheck, WorkerWaits, PickupRun, PickupReject,
         PickupUnknown, FinishQuantum, WorkerPosts
<1>3. Locked(one)' = Locked(one) /\ Locked(one) \in {0, 1}
  BY <1>2 DEF Locked
<1>4. CASE WorkerBoot(one)
  <2>1. sem' = sem /\ wpc[one] = "boot" /\ wpc'[one] \in {"top", "done"}
    BY <1>1, <1>4 DEF WorkerBoot, Attached
  <2>. QED
    BY <1>0, <1>2, <1>3, <2>1 DEF Awake
<1>5. CASE WorkerCheck(one)
  <2>1. /\ sem' = sem
        /\ \/ shutdown_flag /\ wpc'[one] = "done"
           \/ ~shutdown_flag /\ wpc[one] = "top" /\ wpc'[one] = "wait"
           \/ ~shutdown_flag /\ wpc[one] = "woken" /\ wpc'[one] = "pickup"
    BY <1>1, <1>5 DEF WorkerCheck
  <2>2. ~shutdown_flag => jpc \notin {"post_scheduler", "post_event", "join_scheduler", "join_worker"}
    BY <1>1
  <2>. QED
    BY <1>0, <1>1, <1>2, <1>3, <2>1, <2>2 DEF Awake
<1>6. CASE WorkerWaits(one)
  <2>1. /\ wpc[one] = "wait" /\ wpc'[one] = "woken"
        /\ sem'["worker"] = sem["worker"] - 1 /\ sem'["scheduler"] = sem["scheduler"]
        /\ sem'["event"] = sem["event"]
    BY <1>1, <1>6 DEF WorkerWaits, SemWait
  <2>. QED
    BY <1>0, <1>1, <1>2, <1>3, <2>1 DEF Awake
<1>7. CASE PickupRun(one) \/ PickupReject(one) \/ PickupUnknown(one)
  <2>1. /\ wpc[one] = "pickup" /\ sem' = sem
        /\ wpc'[one] \in {"running", "post", "post_both"}
    BY <1>1, <1>7 DEF PickupRun, PickupReject, PickupUnknown
  <2>. QED
    BY <1>0, <1>1, <1>2, <1>3, <2>1 DEF Awake
<1>8. CASE FinishQuantum(one)
  <2>1. wpc[one] = "running" /\ wpc'[one] = "post" /\ sem' = sem
    BY <1>1, <1>8 DEF FinishQuantum
  <2>. QED
    BY <1>0, <1>1, <1>2, <1>3, <2>1 DEF Awake
<1>9. ASSUME NEW from \in {"post", "post_both"}, NEW to \in {"top", "post_event"},
             WorkerPosts(one, from, "scheduler", to)
      PROVE  WakeInv'
  <2>1. /\ wpc[one] = from /\ wpc'[one] = to
        /\ sem'["worker"] = sem["worker"] /\ sem'["scheduler"] = sem["scheduler"] + 1
        /\ sem'["event"] = sem["event"]
    BY <1>1, <1>9 DEF WorkerPosts, Post
  <2>. QED
    BY <1>0, <1>1, <1>2, <1>3, <2>1 DEF Awake
<1>10. CASE WorkerPosts(one, "post_event", "event", "top")
  <2>1. /\ wpc[one] = "post_event" /\ wpc'[one] = "top"
        /\ sem'["worker"] = sem["worker"] /\ sem'["scheduler"] = sem["scheduler"]
        /\ sem'["event"] = sem["event"] + 1
    BY <1>1, <1>10 DEF WorkerPosts, Post
  <2>. QED
    BY <1>0, <1>1, <1>2, <1>3, <2>1 DEF Awake
<1>. QED
  BY <1>4, <1>5, <1>6, <1>7, <1>8, <1>9, <1>10 DEF WorkerStep

(* A kill ends a process: it takes the turn away, or leaves it in a mutex. *)
LEMMA WakeKill ==
  ASSUME NEW one, Pairs = {one}, KillsInv, WakeInv, Kill(one)
  PROVE  WakeInv'
<1>. DEFINE A == Awake(spc[one], wpc[one], Locked(one), sem["worker"], sem["scheduler"],
                       sem["event"], jpc, shutdown_flag)
<1>0. A /\ (A' => WakeInv')
  BY WakeOfOne, WakeOfOne, PTL
<1>1. /\ sem["worker"] \in Nat /\ sem["scheduler"] \in Nat /\ sem["event"] \in Nat
      /\ spc \in [Pairs -> SchedulerSteps] /\ wpc \in [Pairs -> WorkerSteps]
      /\ (spc[one] = "pass" => mutex = one) /\ one # Free
  BY KillsControl, PairsAssumption DEF ControlTypeOK, Semaphores
<1>2. CASE KillScheduler(one) \/ KillWorker(one)
  <2>1. /\ UNCHANGED <<sem, jpc, shutdown_flag>>
        /\ Locked(one)' = Locked(one) /\ Locked(one) \in {0, 1}
        /\ \/ spc'[one] = "done" /\ wpc' = wpc
           \/ wpc'[one] = "done" /\ spc' = spc
    BY <1>1, <1>2 DEF KillScheduler, KillWorker, SchedulerDies, WorkerDies, Locked
  <2>. QED
    BY <1>0, <1>1, <2>1 DEF Awake
<1>3. CASE \/ KillInAllocation(one) \/ KillInAbort(one) \/ KillInSelection(one)
           \/ KillInPickup(one) \/ KillInQuantum(one)
  <2>1. /\ UNCHANGED <<sem, jpc, shutdown_flag>> /\ mutex' = one
        /\ \/ spc[one] = "pass" /\ spc' = [spc EXCEPT ![one] = "done"] /\ wpc' = wpc
           \/ /\ mutex = Free /\ wpc[one] \in {"pickup", "running"}
              /\ wpc' = [wpc EXCEPT ![one] = "done"] /\ spc' = spc
    BY <1>3, KillInside
  <2>2. Locked(one)' = 1
    BY <2>1 DEF Locked
  <2>3. CASE spc[one] = "pass" /\ spc' = [spc EXCEPT ![one] = "done"] /\ wpc' = wpc
    <3>1. Locked(one) = 1 /\ spc'[one] = "done"
      BY <1>1, <2>3 DEF Locked
    <3>. QED
      BY <1>0, <1>1, <2>1, <2>2, <2>3, <3>1 DEF Awake
  <2>4. CASE /\ mutex = Free /\ wpc[one] \in {"pickup", "running"}
             /\ wpc' = [wpc EXCEPT ![one] = "done"] /\ spc' = spc
    <3>1. Locked(one) = 0 /\ wpc'[one] = "done"
      BY <1>1, <2>4 DEF Locked
    <3>. QED
      BY <1>0, <1>1, <2>1, <2>2, <2>4, <3>1 DEF Awake
  <2>. QED
    BY <2>1, <2>3, <2>4
<1>. QED
  BY <1>2, <1>3 DEF Kill

LEMMA WakeStep ==
  ASSUME NEW one, Pairs = {one}, KillsInv, WakeInv, [KillsNext]_vars
  PROVE  WakeInv'
<1>1. CASE UNCHANGED vars
  BY <1>1 DEF vars, WakeInv, TurnLeft, OwnerInPass, LockApart, TokensLeft
<1>2. CASE \E p \in Pairs : SchedulerStep(p)
  BY <1>2, WakeScheduler
<1>3. CASE \E p \in Pairs : WorkerStep(p)
  BY <1>3, WakeWorker
<1>4. CASE \E p \in Pairs : Kill(p)
  BY <1>4, WakeKill
<1>. QED
  BY <1>1, <1>2, <1>3, <1>4, WakeCalls DEF KillsNext, Next, Stopped, ProcessStep

(* The safety half of the return of stop(): with the pair of a single      *)
(* start(), whichever processes are killed and wherever, nobody wants a    *)
(* mutex that is locked for ever, and when stop() waits, each process that *)
(* sleeps at a semaphore finds a token there.                              *)
THEOREM OnePairNeverStuck ==
  ASSUME NEW one, Pairs = {one}
  PROVE  KillsSpec => []NobodyStuck
<1>1. Init => KillsInv /\ WakeInv
  <2>. SUFFICES ASSUME Init PROVE WakeInv
    BY InitKillsInv
  <2>. QED
    BY PairsAssumption DEF Init, WakeInv, TurnLeft, OwnerInPass, LockApart, TokensLeft, Num,
                           Semaphores
<1>2. KillsInv /\ WakeInv /\ [KillsNext]_vars => (KillsInv /\ WakeInv)'
  BY WakeStep, StepKillsInv
<1>3. KillsInv /\ WakeInv => NobodyStuck
  <2>. SUFFICES ASSUME KillsInv, WakeInv PROVE NobodyStuck
    OBVIOUS
  <2>1. mutex \in {one, Free} /\ \A p \in Pairs : p = one
    BY KillsControl DEF ControlTypeOK
  <2>2. \A p \in Pairs : spc[p] = "lock" \/ wpc[p] \in {"pickup", "running"} => mutex = Free
    BY <2>1 DEF WakeInv, OwnerInPass, LockApart
  <2>. QED
    BY <2>2 DEF NobodyStuck, WakeInv, TokensLeft
<1>. QED
  BY <1>1, <1>2, <1>3, PTL DEF KillsSpec
===============================================================================
