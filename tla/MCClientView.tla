----------------------------- MODULE MCClientView -----------------------------
(* The jobs of the runs of module ClientView. *)
EXTENDS ClientView

CONSTANT p1

Job(i, priority, time, masks) ==
  [id |-> i, priority |-> priority, time |-> time, required |-> masks]

(* Two tasks that deadlock, and one with the id 0, which unused slots have *)
(* too; what is left of the first one competes with it for the worker.     *)
ViewJobs == {Job(1, 1, 3, {0, 1}), Job(2, 2, 1, {0, 1}), Job(0, 1, 1, {})}

(* Tasks that compete for the worker only. *)
ReadyJobs == {Job(1, 0, 1, {}), Job(2, 1, 3, {}), Job(3, 2, 3, {})}
===============================================================================
