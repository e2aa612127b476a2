------------------------------- MODULE TaskQueue -------------------------------
(***************************************************************************)
(* What the scheduler relies on in a TaskQueue: a sequence of task         *)
(* indices, each operation one step.  Module TaskRing implements it, and   *)
(* module Scheduler uses the same operators on its two queues.             *)
(***************************************************************************)
EXTENDS Queues

CONSTANT Priorities     \* the effective priorities that tasks may have

Idx == 0 .. MAX_TASKS - 1
Failed == -1            \* what a refused push and an empty pop return
Done == 0

VARIABLES queue, returned

vars == <<queue, returned>>

Init == queue = <<>> /\ returned = Done

(* queue_push_tail, queue_push_head: a queue that is full refuses, one that *)
(* has the task already keeps it where it is.                               *)
Enter(q, t, longer) ==
  /\ queue' = IF Len(q) >= MAX_TASKS \/ t \in Range(q) THEN q ELSE longer
  /\ returned' = IF Len(q) >= MAX_TASKS THEN Failed ELSE Done

EnterAtTail(t) == Enter(queue, t, Append(queue, t))
EnterAtHead(t) == Enter(queue, t, <<t>> \o queue)

Leave ==
  /\ queue' = IF queue = <<>> THEN queue ELSE Tail(queue)
  /\ returned' = IF queue = <<>> THEN Failed ELSE Head(queue)

Withdraw(t) == queue' = RemoveTask(queue, t) /\ UNCHANGED returned

Sort(prio) == queue' = Reorder(queue, prio) /\ UNCHANGED returned

Next ==
  \/ \E t \in Idx : EnterAtTail(t) \/ EnterAtHead(t) \/ Withdraw(t)
  \/ Leave
  \/ \E prio \in [Idx -> Priorities] : Sort(prio)

Spec == Init /\ [][Next]_vars
===============================================================================
