-------------------------------- MODULE MCKills --------------------------------
(* The jobs of the run of module SchedulerKills. *)
EXTENDS SchedulerKills

CONSTANT p1

Job(i, priority, time, masks) ==
  [id |-> i, priority |-> priority, time |-> time, required |-> masks]

(* Two tasks that deadlock, and one that competes with the other's rest.   *)
KillJobs == {Job(1, 1, 3, {0, 1}), Job(2, 2, 1, {0, 1}), Job(3, 1, 1, {})}
===============================================================================
