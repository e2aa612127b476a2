-------------------------------- MODULE Queues --------------------------------
(***************************************************************************)
(* The task queues of native/src/scheduler_core.c as values.               *)
(*                                                                         *)
(* A TaskQueue is a ring of at most MAX_TASKS task indices.  Here it is    *)
(* the sequence of the indices it holds, head first; the ring's layout     *)
(* (head, tail, the slots) is abstracted away.  Every operation of the     *)
(* code is a function from the old sequence to the new one.                *)
(***************************************************************************)
EXTENDS Integers, Sequences, FiniteSets, Functions

CONSTANT MAX_TASKS      \* capacity of a queue and of the task table (256)

ASSUME MaxTasksAssumption == MAX_TASKS \in Nat \ {0}

(* queue_push_tail: a full queue and a queue that already holds the task   *)
(* are left as they are; otherwise the task becomes the last element.      *)
PushTail(q, t) ==
  IF Len(q) >= MAX_TASKS \/ t \in Range(q) THEN q ELSE Append(q, t)

(* queue_remove: the queue without task t, the other elements in order.    *)
(* No queue holds a task twice, so removing the occurrence removes all.    *)
RemoveTask_OffByOne(q, t) ==
  IF t \in Range(q)
  THEN LET k == CHOOSE k \in DOMAIN q : q[k] = t
       IN  SubSeq(q, 1, k) \o SubSeq(q, k + 1, Len(q))
  ELSE q

RemoveTask(q, t) ==
  IF t \in Range(q)
  THEN LET k == CHOOSE k \in DOMAIN q : q[k] = t
       IN  SubSeq(q, 1, k - 1) \o SubSeq(q, k + 1, Len(q))
  ELSE q

(* The final position of the element at position i when q is sorted by     *)
(* descending prio and equal priorities keep their order.                  *)
Precedes(q, prio, j, i) ==
  \/ prio[q[j]] > prio[q[i]]
  \/ prio[q[j]] = prio[q[i]] /\ j <= i

Rank(q, prio, i) == Cardinality({j \in DOMAIN q : Precedes(q, prio, j, i)})

(* queue_reorder_priority: the stable sort of q by descending priority     *)
(* (the code's bubble sort exchanges neighbours only when strictly out of  *)
(* order).                                                                 *)
Reorder(q, prio) ==
  [k \in DOMAIN q |-> q[CHOOSE i \in DOMAIN q : Rank(q, prio, i) = k]]

(* No index occurs twice in q. *)
NoRepeats(q) == \A a, b \in DOMAIN q : q[a] = q[b] => a = b

(* q is in the order in which the scheduler must serve it. *)
SortedBy(q, prio) == \A a, b \in DOMAIN q : a < b => prio[q[a]] >= prio[q[b]]
===============================================================================
