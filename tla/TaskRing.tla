------------------------------- MODULE TaskRing -------------------------------
(***************************************************************************)
(* The TaskQueue of native/src/scheduler_core.c as it is laid out: a ring  *)
(* of MAX_TASKS slots with the positions of its head and its tail, which   *)
(* wrap around, and its size.                                              *)
(*                                                                         *)
(* Pushes and pops are one step.  queue_remove and queue_reorder_priority  *)
(* are loops: they pop every element into a local array, leave one out or  *)
(* sort the array, and push the array back.  Each turn of a loop is one    *)
(* step here, so that what the code computes with these loops is not       *)
(* taken for granted.                                                      *)
(***************************************************************************)
EXTENDS Queues

CONSTANT Priorities     \* the effective priorities that tasks may have

ASSUME PrioritiesAssumption == Priorities \subseteq Int

Idx == 0 .. MAX_TASKS - 1
Empty == -1             \* an unused slot; what a failed push or pop returns
NoTask == -1            \* the loop sorts: no task is to be left out

VARIABLES
  task_indices, size, head, tail,   \* the TaskQueue
  returned,                         \* the result of the last push or pop
  pc,                               \* the loop that is being executed
  elems,                            \* the local array of that loop
  left,                             \* elements that it has still to pop
  leave_out,                        \* the task queue_remove is to remove
  effective_priority,               \* what queue_reorder_priority sorts by,
                                    \* the priorities in tasks[] at its call
  i, j                              \* the counters of the later loops

Unread == <<>>          \* no call reads the priorities

ring == <<task_indices, size, head, tail>>
loop == <<elems, left, leave_out, effective_priority, i, j>>
vars == <<ring, returned, pc, loop>>

(* queue_init *)
Init ==
  /\ task_indices = [s \in Idx |-> Empty]
  /\ size = 0 /\ head = 0 /\ tail = 0
  /\ returned = 0
  /\ pc = "idle"
  /\ elems = <<>> /\ left = 0 /\ leave_out = NoTask /\ i = 0 /\ j = 0
  /\ effective_priority = Unread

(* The next and the last position of the ring. *)
After_Unwrapped(s) == s + 1
After_OneSlotShort(s) == IF s >= MAX_TASKS - 2 THEN 0 ELSE s + 1
After(s) == (s + 1) % MAX_TASKS
Before(s) == (s - 1 + MAX_TASKS) % MAX_TASKS

(* The elements of the ring, head first. *)
Contents == [k \in 1 .. size |-> task_indices[(head + k - 1) % MAX_TASKS]]

(* queue_contains *)
Contains_Unwrapped(t) == \E s \in Idx : head <= s /\ s < tail /\ task_indices[s] = t
Contains(t) == \E k \in 0 .. size - 1 : task_indices[(head + k) % MAX_TASKS] = t

Full == size >= MAX_TASKS

PutAtTail(t) ==
  IF Full \/ Contains(t)
  THEN UNCHANGED ring
  ELSE /\ task_indices' = [task_indices EXCEPT ![tail] = t]
       /\ tail' = After(tail)
       /\ size' = size + 1
       /\ UNCHANGED head

TakeFromHead ==
  /\ task_indices' = [task_indices EXCEPT ![head] = Empty]
  /\ head' = After(head)
  /\ size' = size - 1
  /\ UNCHANGED tail

--------------------------------------------------------------------------------
(* queue_push_tail *)
PushTailStep(t) ==
  /\ pc = "idle"
  /\ PutAtTail(t)
  /\ returned' = IF Full THEN Empty ELSE 0
  /\ UNCHANGED <<pc, loop>>

(* queue_push_head *)
PushHeadStep(t) ==
  /\ pc = "idle"
  /\ IF Full \/ Contains(t)
     THEN UNCHANGED ring
     ELSE /\ task_indices' = [task_indices EXCEPT ![Before(head)] = t]
          /\ head' = Before(head)
          /\ size' = size + 1
          /\ UNCHANGED tail
  /\ returned' = IF Full THEN Empty ELSE 0
  /\ UNCHANGED <<pc, loop>>

(* queue_pop_head *)
PopHeadStep ==
  /\ pc = "idle"
  /\ IF size = 0 THEN UNCHANGED ring ELSE TakeFromHead
  /\ returned' = IF size = 0 THEN Empty ELSE task_indices[head]
  /\ UNCHANGED <<pc, loop>>

(* queue_remove and queue_reorder_priority begin by emptying the ring,     *)
(* unless there is nothing to remove from, or nothing to sort.             *)
StartDraining(t) ==
  /\ pc = "idle" /\ pc' = "drain"
  /\ left' = size /\ elems' = <<>> /\ leave_out' = t
  /\ UNCHANGED <<ring, returned, i, j>>

BeginRemove(t) ==
  /\ size > 0
  /\ StartDraining(t)
  /\ UNCHANGED effective_priority

BeginSort ==
  /\ size > 1
  /\ StartDraining(NoTask)
  /\ effective_priority' \in [Idx -> Priorities]

Collected_All(t) == Append(elems, t)
Collected(t) == IF t = leave_out THEN elems ELSE Append(elems, t)

Drain ==
  /\ pc = "drain" /\ left > 0
  /\ left' = left - 1
  /\ elems' = Collected(task_indices[head])
  /\ TakeFromHead
  /\ UNCHANGED <<returned, pc, leave_out, effective_priority, i, j>>

Drained ==
  /\ pc = "drain" /\ left = 0
  /\ pc' = IF leave_out = NoTask THEN "sort" ELSE "refill"
  /\ UNCHANGED <<ring, returned, loop>>

(* One turn of the inner loop: neighbours that are strictly out of order   *)
(* are exchanged.                                                          *)
OutOfOrder_NotStrict(t, u) == effective_priority[t] <= effective_priority[u]
OutOfOrder(t, u) == effective_priority[t] < effective_priority[u]

Exchange(q, a) == [q EXCEPT ![a] = q[a + 1], ![a + 1] = q[a]]

Turns(n) == n - 1

Compare ==
  /\ pc = "sort" /\ i < Turns(Len(elems)) /\ j < Turns(Len(elems)) - i
  /\ elems' = IF OutOfOrder(elems[j + 1], elems[j + 2]) THEN Exchange(elems, j + 1) ELSE elems
  /\ j' = j + 1
  /\ UNCHANGED <<ring, returned, pc, left, leave_out, effective_priority, i>>

NextRound ==
  /\ pc = "sort" /\ i < Turns(Len(elems)) /\ j >= Turns(Len(elems)) - i
  /\ i' = i + 1 /\ j' = 0
  /\ UNCHANGED <<ring, returned, pc, elems, left, leave_out, effective_priority>>

Sorted ==
  /\ pc = "sort" /\ i >= Turns(Len(elems))
  /\ pc' = "refill" /\ i' = 0
  /\ UNCHANGED <<ring, returned, elems, left, leave_out, effective_priority, j>>

Refill ==
  /\ pc = "refill" /\ i < Len(elems)
  /\ PutAtTail(elems[i + 1])
  /\ i' = i + 1
  /\ UNCHANGED <<returned, pc, elems, left, leave_out, effective_priority, j>>

(* The locals end with the call. *)
Refilled ==
  /\ pc = "refill" /\ i >= Len(elems)
  /\ pc' = "idle" /\ elems' = <<>> /\ leave_out' = NoTask
  /\ effective_priority' = Unread /\ i' = 0 /\ j' = 0
  /\ UNCHANGED <<ring, returned, left>>

Next ==
  \/ \E t \in Idx : PushTailStep(t) \/ PushHeadStep(t) \/ BeginRemove(t)
  \/ PopHeadStep
  \/ BeginSort
  \/ Drain \/ Drained
  \/ Compare \/ NextRound \/ Sorted
  \/ Refill \/ Refilled

Spec == Init /\ [][Next]_vars

--------------------------------------------------------------------------------
TypeOK ==
  /\ task_indices \in [Idx -> Idx \cup {Empty}]
  /\ size \in 0 .. MAX_TASKS /\ head \in Idx /\ tail \in Idx
  /\ returned \in Idx \cup {Empty}
  /\ pc \in {"idle", "drain", "sort", "refill"}
  /\ elems \in Seq(Idx) /\ left \in Nat /\ leave_out \in Idx \cup {NoTask}
  /\ effective_priority \in [Idx -> Priorities] \cup {Unread}
  /\ i \in Nat /\ j \in Nat

(* head, tail and size describe one arc of the ring: it has no repetition  *)
(* and no hole, and every other slot is unused.                            *)
RingIsAnArc ==
  /\ tail = (head + size) % MAX_TASKS
  /\ \A k \in 1 .. size : Contents[k] \in Idx
  /\ NoRepeats(Contents)
  /\ \A s \in Idx : task_indices[s] # Empty
                      => \E k \in 0 .. size - 1 : s = (head + k) % MAX_TASKS

(* The queue that the ring stands for.  Inside queue_remove and            *)
(* queue_reorder_priority part of it is in the local array: the task is    *)
(* removed when it is left out, and the queue is sorted from the beginning *)
(* of the call, since nobody else sees it before the end.                  *)
Represented ==
  CASE pc = "idle"   -> Contents
    [] pc = "drain"  -> IF leave_out = NoTask
                        THEN Reorder(elems \o Contents, effective_priority)
                        ELSE elems \o Contents
    [] pc = "sort"   -> Reorder(elems, effective_priority)
    [] pc = "refill" -> Contents \o SubSeq(elems, i + 1, Len(elems))

Queue == INSTANCE TaskQueue WITH queue <- Represented

(* The ring with its loops is a TaskQueue. *)
IsTaskQueue == Queue!Spec

(* The loops of queue_remove and queue_reorder_priority change the queue   *)
(* only where a task is left out: emptying the ring, sorting the array and *)
(* pushing it back lose, repeat and misplace nothing.                      *)
LeavesOut == pc = "drain" /\ task_indices[head] = leave_out

LoopsKeepQueue ==
  [][pc # "idle" /\ ~LeavesOut => Represented' = Represented]_vars

(* Once queue_remove has emptied the ring, the task it removes is in       *)
(* neither the array nor the ring.                                         *)
RemovedIsGone ==
  pc = "refill" /\ leave_out # NoTask => leave_out \notin Range(Represented)
===============================================================================
