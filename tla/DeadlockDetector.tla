---------------------------- MODULE DeadlockDetector ----------------------------
(***************************************************************************)
(* detect_and_resolve_deadlocks of native/src/deadlock_detector.c as it    *)
(* searches: the depth-first search of the wait-for graph with its stack   *)
(* and its marks, the scan of the cycle for a victim, and the restart of   *)
(* the search after every abort.                                           *)
(*                                                                         *)
(* Module Scheduler takes this for granted: it aborts a victim of some     *)
(* cycle as long as there is one (ResolveDeadlock), and ends the pass when *)
(* there is none.  Here the scheduler ends its pass when the search is     *)
(* over, whatever the graph is like, and aborts what the scan has chosen.  *)
(***************************************************************************)
EXTENDS SchedulerProperties

VARIABLES
  start_idx,      \* the next task that the search may start from
  state_arr,      \* the mark of each task: not seen, on the stack, done with
  stack,          \* the path from the start to the task being visited
  edge_ptr,       \* for each of these, the next task to test for an edge
  cycle_nodes,    \* the cycle found, or empty
  best_victim_idx,\* the best victim among the tasks of the cycle seen so far
  scanned         \* how many of them have been seen

search == <<start_idx, state_arr, stack, edge_ptr, cycle_nodes, best_victim_idx, scanned>>
detectorVars == <<vars, search>>

Unseen == 0
OnPath == 1
DoneWith == 2

Top == Len(stack)

(* Every call begins with all marks cleared. *)
Cleared == [t \in Idx |-> Unseen]

DetectorInit ==
  /\ Init
  /\ start_idx = 0 /\ state_arr = Cleared
  /\ stack = <<>> /\ edge_ptr = <<>>
  /\ cycle_nodes = <<>> /\ best_victim_idx = 0 /\ scanned = 0

(* The allocation loop of the pass is over: the detector has been called.  *)
Detecting(p) == spc[p] = "pass" /\ blocked_left = 0

--------------------------------------------------------------------------------
(* The outer loop: only a blocked task that was not seen is a start. *)
MoreStarts_OneMore == start_idx <= task_count
MoreStarts == start_idx < task_count

IsStart(t) == state[t] = "BLOCKED" /\ state_arr[t] = Unseen

NextStart(p) ==
  /\ Detecting(p) /\ stack = <<>> /\ MoreStarts
  /\ IF IsStart(start_idx)
     THEN /\ stack' = <<start_idx>> /\ edge_ptr' = <<0>>
          /\ state_arr' = [state_arr EXCEPT ![start_idx] = OnPath]
          /\ UNCHANGED start_idx
     ELSE /\ start_idx' = start_idx + 1
          /\ UNCHANGED <<stack, edge_ptr, state_arr>>
  /\ UNCHANGED <<vars, cycle_nodes, best_victim_idx, scanned>>

(* The tasks that the visited task waits for, from edge_ptr on, and that   *)
(* are not done with.                                                      *)
Neighbours_SkipPath ==
  {t \in edge_ptr[Top] .. task_count - 1 : WaitsFor(stack[Top], t) /\ state_arr[t] = Unseen}

Neighbours ==
  {t \in edge_ptr[Top] .. task_count - 1 : WaitsFor(stack[Top], t) /\ state_arr[t] # DoneWith}

Searching(p) == Detecting(p) /\ stack # <<>> /\ cycle_nodes = <<>>

(* No neighbour is left: the visited task is done with.                    *)
Explored_Unmarked == Unseen
Explored == DoneWith

Backtrack(p) ==
  /\ Searching(p) /\ Neighbours = {}
  /\ state_arr' = [state_arr EXCEPT ![stack[Top]] = Explored]
  /\ stack' = SubSeq(stack, 1, Top - 1) /\ edge_ptr' = SubSeq(edge_ptr, 1, Top - 1)
  /\ UNCHANGED <<vars, start_idx, cycle_nodes, best_victim_idx, scanned>>

First(T) == {t \in T : \A u \in T : t <= u}

(* The first neighbour was not seen: it is visited next.                   *)
Descend(p) ==
  /\ Searching(p)
  /\ \E t \in First(Neighbours) :
       /\ state_arr[t] = Unseen
       /\ state_arr' = [state_arr EXCEPT ![t] = OnPath]
       /\ stack' = Append(stack, t)
       /\ edge_ptr' = Append([edge_ptr EXCEPT ![Top] = t + 1], 0)
  /\ UNCHANGED <<vars, start_idx, cycle_nodes, best_victim_idx, scanned>>

(* The first neighbour is on the stack: the path from there on is a cycle. *)
CycleAt_Whole(k) == stack
CycleAt(k) == SubSeq(stack, k, Top)

CloseCycle(p) ==
  /\ Searching(p)
  /\ \E t \in First(Neighbours) : \E k \in 1 .. Top :
       /\ state_arr[t] = OnPath /\ stack[k] = t
       /\ edge_ptr' = [edge_ptr EXCEPT ![Top] = t + 1]
       /\ cycle_nodes' = CycleAt(k)
       /\ best_victim_idx' = CycleAt(k)[1] /\ scanned' = 1
  /\ UNCHANGED <<vars, start_idx, state_arr, stack>>

(* One turn of the scan for the victim. *)
Scan(p) ==
  /\ Detecting(p) /\ cycle_nodes # <<>> /\ scanned < Len(cycle_nodes)
  /\ LET t == cycle_nodes[scanned + 1]
     IN  best_victim_idx' = IF BetterVictim(t, best_victim_idx) THEN t ELSE best_victim_idx
  /\ scanned' = scanned + 1
  /\ UNCHANGED <<vars, start_idx, state_arr, stack, edge_ptr, cycle_nodes>>

(* The victim is aborted, and the search begins again: without a cycle     *)
(* there is still another one, or the tasks behind it now wait for none.   *)
Restarted_KeepsDone == [t \in Idx |-> IF state_arr[t] = DoneWith THEN DoneWith ELSE Unseen]
Restarted == Cleared

NewSearch ==
  /\ start_idx' = 0 /\ state_arr' = Restarted
  /\ stack' = <<>> /\ edge_ptr' = <<>>
  /\ cycle_nodes' = <<>> /\ best_victim_idx' = 0 /\ scanned' = 0

AbortVictim(p) ==
  /\ Detecting(p) /\ cycle_nodes # <<>> /\ scanned = Len(cycle_nodes)
  /\ Abort(best_victim_idx)
  /\ allocation_progress' = TRUE
  /\ NewSearch
  /\ UNCHANGED <<id, base_priority, effective_priority, required, wait_ticks, task_count,
                 mutex, sem, shutdown_flag, spc, blocked_left, globally_held, wpc,
                 locals, jpc, handles>>

SearchStep(p) ==
  NextStart(p) \/ Backtrack(p) \/ Descend(p) \/ CloseCycle(p) \/ Scan(p)

--------------------------------------------------------------------------------
(* The call returns when the outer loop is over, and the pass goes on.     *)
SearchOver(p) == Detecting(p) /\ stack = <<>> /\ ~MoreStarts

EndOfPass(p) ==
  /\ SearchOver(p)
  /\ HandOver(p) \/ GoIdle(p)
  /\ NewSearch

(* The steps of the scheduler that this module does not refine. *)
OtherSchedulerStep(p) ==
  \/ SchedulerBoot(p) \/ SchedulerCheck(p) \/ BeginPass(p) \/ AllocateNext(p)
  \/ SchedulerPosts(p, "post_worker", "worker", "wait")
  \/ SchedulerWaits(p, "wait", "scheduler", "woken")
  \/ SchedulerWaits(p, "idle", "event", "top")
  \/ SchedulerPosts(p, "exit_worker", "worker", "exit_scheduler")
  \/ SchedulerPosts(p, "exit_scheduler", "scheduler", "exit_event")
  \/ SchedulerPosts(p, "exit_event", "event", "done")

DetailedSchedulerStep(p) ==
  \/ SearchStep(p) \/ AbortVictim(p) \/ EndOfPass(p)
  \/ OtherSchedulerStep(p) /\ UNCHANGED search

ClientStep ==
  \/ \E job \in Jobs : Submit(job)
  \/ \E i \in {job.id : job \in Jobs}, priority \in ChangedPriorities :
       ChangePriority(i, priority)
  \/ \E p \in Pairs : Start(p)
  \/ Stop

DetectorNext ==
  \/ \E p \in Pairs : ~Closed /\ DetailedSchedulerStep(p)
  \/ \E p \in Pairs : ~Closed /\ WorkerStep(p) /\ UNCHANGED search
  \/ (ClientStep \/ JniContinues \/ Stopped) /\ UNCHANGED search

DetectorFairness ==
  /\ WF_detectorVars(JniContinues /\ UNCHANGED search)
  /\ \A p \in Pairs : /\ WF_detectorVars(~Closed /\ DetailedSchedulerStep(p))
                      /\ WF_detectorVars(~Closed /\ WorkerStep(p) /\ UNCHANGED search)

DetectorSpec == DetectorInit /\ [][DetectorNext]_detectorVars /\ DetectorFairness

--------------------------------------------------------------------------------
(* The search, with the marks of the tasks that it is done with. *)
DetectorTypeOK ==
  /\ start_idx \in 0 .. task_count
  /\ state_arr \in [Idx -> {Unseen, OnPath, DoneWith}]
  /\ stack \in Seq(Registered)
  /\ edge_ptr \in Seq(0 .. task_count) /\ Len(edge_ptr) = Top
  /\ cycle_nodes \in Seq(Registered)
  /\ best_victim_idx \in Idx
  /\ scanned \in 0 .. Len(cycle_nodes)

(* What the search has found is a cycle of tasks that wait for one another,*)
(* and the victim is the one of it to abort.                               *)
FoundIsCycle ==
  cycle_nodes # <<>> =>
    /\ cycle_nodes \in WaitCycles
    /\ scanned = Len(cycle_nodes) => best_victim_idx \in Victims(cycle_nodes)

(* When the search is over, no tasks wait for one another: no cycle was    *)
(* missed, by the marks kept from one start to the next either.            *)
NothingMissed ==
  \A p \in Pairs : SearchOver(p) => \A S \in SUBSET Registered : Stuck(S) => S = {}

(* How far the search is: tasks passed over as starts, tasks on the path   *)
(* once and tasks that it is done with twice, and the scan of the cycle.   *)
Progress ==
  start_idx + Cardinality({t \in Idx : state_arr[t] = OnPath})
            + 2 * Cardinality({t \in Idx : state_arr[t] = DoneWith}) + scanned

(* The search ends, although it starts anew after every abort: each of its *)
(* steps takes it further, it can only go so far, and a step that sets it  *)
(* back leaves fewer tasks that can be blocked.                            *)
SearchEnds ==
  [][/\ vars' = vars => Progress < Progress' /\ Progress' <= 4 * MAX_TASKS
     /\ \A p \in Pairs : Detecting(p) /\ Detecting(p)' /\ Progress' < Progress =>
          \E t \in Registered : Terminal(t)' /\ ~Terminal(t)]_detectorVars

(* The scheduler with its search does what module Scheduler says: each     *)
(* abort is one of a victim of a cycle, and each end of a pass comes when  *)
(* no cycle is left.                                                       *)
SearchImplementsScheduler == Init /\ [][Next]_vars
===============================================================================
