------------------------------ MODULE MCScheduler ------------------------------
(* The jobs and the priorities of the runs of module Scheduler. *)
EXTENDS SchedulerProperties, TLC

CONSTANTS p1, p2

Job(i, priority, time, masks) ==
  [id |-> i, priority |-> priority, time |-> time, required |-> masks]

(* Two tasks that deadlock over two resources (each is granted one of them *)
(* in the first pass), one that needs none, and calls that are refused: an *)
(* invalid id, priority or time, an id in use.                             *)
Refused == {Job(-1, 1, 1, {}), Job(4, -1, 1, {}), Job(5, 1, 0, {0})}
CoreJobs == {Job(1, 1, 3, {0, 1}), Job(2, 2, 1, {0, 1}), Job(3, 1, 3, {}),
             Job(3, 2, 1, {1})} \cup Refused

(* Three of these can wait for one another in a cycle of three, or two in  *)
(* a cycle with the third one behind it.                                   *)
CycleJobs == {Job(1, 1, 1, {0, 1}), Job(2, 1, 1, {1, 2}), Job(3, 1, 2, {0, 2}),
              Job(4, 0, 1, {1})}

(* A task with the id 0, which a new segment already has as running_task_id. *)
ZeroJobs == {Job(0, 1, 1, {}), Job(1, 1, 1, {0})}

(* Few tasks, for the runs with two pairs. *)
SharedJobs == {Job(1, 1, 1, {0}), Job(2, 2, 1, {})}
TwoReady == {Job(1, 1, 3, {}), Job(2, 2, 1, {})}

SymmetricPairs == Permutations(Pairs)
===============================================================================
