----------------------------- MODULE TaskLifecycle -----------------------------
(***************************************************************************)
(* What a client of NativeScheduler may rely on: the life of each task it  *)
(* submitted, by its id, as the getters of the JNI bridge report it.       *)
(* There are no queues here, no semaphores and no processes but the        *)
(* workers; module ClientView shows that the scheduler implements it.      *)
(***************************************************************************)
EXTENDS Integers

CONSTANTS
  Ids,          \* the ids a client may pass
  Times,        \* the times a task may be submitted with
  Resources,
  Workers,
  MAX_TASKS,
  QUANTUM,
  NotFound      \* what a getter returns for an id that no task has (-1)

Nobody == -1    \* the worker runs no task

VARIABLES
  count,        \* how many tasks were accepted
  status,       \* the state of each task
  needs,        \* the resources it was submitted with
  holding,      \* those of them it has now
  remaining,    \* the time it has still to run
  runs          \* the task that each worker runs

vars == <<count, status, needs, holding, remaining, runs>>

Init ==
  /\ count = 0
  /\ status = [i \in Ids |-> NotFound]
  /\ needs = [i \in Ids |-> NotFound]
  /\ holding = [i \in Ids |-> NotFound]
  /\ remaining = [i \in Ids |-> NotFound]
  /\ runs = [w \in Workers |-> Nobody]

Known == {i \in Ids : status[i] # NotFound}

Submit(i) ==
  /\ i \notin Known /\ i >= 0 /\ count < MAX_TASKS
  /\ count' = count + 1
  /\ \E need \in SUBSET Resources : \E time \in Times :
       /\ needs' = [needs EXCEPT ![i] = need]
       /\ status' = [status EXCEPT ![i] = IF need = {} THEN "READY" ELSE "NEW"]
       /\ remaining' = [remaining EXCEPT ![i] = time]
  /\ holding' = [holding EXCEPT ![i] = {}]
  /\ UNCHANGED runs

(* A task that waits is looked at: it gets at most one resource that it    *)
(* lacks and nobody has, and is READY once it lacks none.                  *)
Grantable(i) == {r \in needs[i] \ holding[i] : \A u \in Known : r \notin holding[u]}

Examine(i) ==
  /\ i \in Known /\ status[i] \in {"NEW", "BLOCKED"}
  /\ \E got \in {holding[i]} \cup {holding[i] \cup {r} : r \in Grantable(i)} :
       /\ holding' = [holding EXCEPT ![i] = got]
       /\ status' = [status EXCEPT ![i] = IF got = needs[i] THEN "READY" ELSE "BLOCKED"]
  /\ UNCHANGED <<count, needs, remaining, runs>>

Run(i, w) ==
  /\ i \in Known /\ status[i] = "READY" /\ runs[w] = Nobody
  /\ status' = [status EXCEPT ![i] = "RUNNING"]
  /\ runs' = [runs EXCEPT ![w] = i]
  /\ UNCHANGED <<count, needs, holding, remaining>>

(* A quantum is over: the task has run for it, or to its end. *)
EndQuantum(i, w) ==
  /\ i \in Known /\ status[i] = "RUNNING" /\ runs[w] = i
  /\ runs' = [runs EXCEPT ![w] = Nobody]
  /\ IF remaining[i] <= QUANTUM
     THEN /\ remaining' = [remaining EXCEPT ![i] = 0]
          /\ status' = [status EXCEPT ![i] = "FINISHED"]
          /\ holding' = [holding EXCEPT ![i] = {}]
     ELSE /\ remaining' = [remaining EXCEPT ![i] = @ - QUANTUM]
          /\ status' = [status EXCEPT ![i] = "READY"]
          /\ UNCHANGED holding
  /\ UNCHANGED <<count, needs>>

(* Each task of S is blocked and lacks what another one of S holds. *)
Deadlocked(S) ==
  \A i \in S : status[i] = "BLOCKED" /\ \E u \in S : (needs[i] \ holding[i]) \cap holding[u] # {}

Abort(i) ==
  /\ \E S \in SUBSET Known : i \in S /\ Deadlocked(S)
  /\ status' = [status EXCEPT ![i] = "DEADLOCK_ABORTED"]
  /\ holding' = [holding EXCEPT ![i] = {}]
  /\ remaining' = [remaining EXCEPT ![i] = 0]
  /\ UNCHANGED <<count, needs, runs>>

Next ==
  \/ \E i \in Ids : Submit(i) \/ Examine(i) \/ Abort(i)
  \/ \E i \in Ids, w \in Workers : Run(i, w) \/ EndQuantum(i, w)

Spec == Init /\ [][Next]_vars
===============================================================================
