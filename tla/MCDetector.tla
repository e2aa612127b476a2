------------------------------ MODULE MCDetector ------------------------------
(* The jobs of the runs of module DeadlockDetector. *)
EXTENDS DeadlockDetector

CONSTANT p1

Job(i, priority, time, masks) ==
  [id |-> i, priority |-> priority, time |-> time, required |-> masks]

(* Three of these can wait for one another in a cycle of three, or two in  *)
(* a cycle that the third waits for from outside; the first, alone, waits  *)
(* for nobody and is in a cycle later.                                     *)
CycleJobs == {Job(1, 1, 1, {0, 1, 2}), Job(2, 1, 1, {1, 2}), Job(3, 0, 1, {1, 2}),
              Job(4, 1, 1, {0, 2})}
===============================================================================
