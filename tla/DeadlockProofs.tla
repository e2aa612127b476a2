----------------------------- MODULE DeadlockProofs -----------------------------
(***************************************************************************)
(* No deadlock is left when no pass is being made, and the scheduler never *)
(* goes to sleep while a task has not ended.  Both rest on a fact about    *)
(* graphs: where every node of a finite set has a successor in the set,    *)
(* there is a cycle, so the search of a pass finds one.                    *)
(***************************************************************************)
EXTENDS OnePairProofs, WellFoundedInduction

--------------------------------------------------------------------------------
(* Cycles of finite graphs *)

LEMMA LeastOfNaturals ==
  ASSUME NEW T \in SUBSET Nat, T # {}
  PROVE  \E x \in T : \A y \in T : x <= y
<1>1. PICK x \in T : \A y \in T : <<y, x>> \notin OpToRel(<, Nat)
  BY NatLessThanWellFounded, WFMin
<1>2. \A y \in T : ~(y < x)
  BY <1>1 DEF OpToRel
<1>. QED
  BY <1>2

(* c is a path of the graph R without a node twice.                        *)
Path(c, R) == NoRepeats(c) /\ \A k \in 1 .. Len(c) - 1 : <<c[k], c[k + 1]>> \in R

LEMMA LongestPath ==
  ASSUME NEW n \in Nat, NEW S \in SUBSET (0 .. n - 1), S # {}, NEW R
  PROVE  \E c \in Seq(S) : /\ Path(c, R) /\ Len(c) > 0
                           /\ \A d \in Seq(S) : Path(d, R) => Len(d) <= Len(c)
<1>. DEFINE T == {x \in 0 .. n - 1 : \E c \in Seq(S) : Len(c) = n - x /\ Path(c, R)}
<1>1. T # {}
  <2>1. PICK s \in S : TRUE
    OBVIOUS
  <2>2. <<s>> \in Seq(S) /\ Len(<<s>>) = 1 /\ DOMAIN <<s>> = 1 .. 1
    OBVIOUS
  <2>3. Path(<<s>>, R)
    BY <2>2 DEF Path, NoRepeats
  <2>4. n - 1 \in 0 .. n - 1 /\ n - (n - 1) = 1
    BY <2>1
  <2>. QED
    BY <2>2, <2>3, <2>4
<1>2. PICK x \in T : \A y \in T : x <= y
  <2>1. T \in SUBSET Nat
    OBVIOUS
  <2>. QED
    BY <1>1, <2>1, LeastOfNaturals
<1>3. PICK c \in Seq(S) : Len(c) = n - x /\ Path(c, R)
  OBVIOUS
<1>4. \A d \in Seq(S) : Path(d, R) => Len(d) <= Len(c)
  <2>. SUFFICES ASSUME NEW d \in Seq(S), Path(d, R)
                PROVE  Len(d) <= Len(c)
    OBVIOUS
  <2>0. x \in Int
    OBVIOUS
  <2>. HIDE DEF T
  <2>1. d \in Seq(0 .. n - 1) /\ Len(d) \in Nat /\ Len(c) \in Nat
    BY SeqMonotonic, LenProperties
  <2>2. Len(d) <= n
    BY <2>1, LengthBound DEF Path
  <2>3. CASE Len(d) = 0
    BY <2>1, <2>3
  <2>4. CASE Len(d) > 0
    <3>1. n - Len(d) \in 0 .. n - 1 /\ n - (n - Len(d)) = Len(d)
      BY <2>1, <2>2, <2>4
    <3>2. n - Len(d) \in T
      BY <3>1 DEF T
    <3>3. x <= n - Len(d)
      BY <1>2, <3>2
    <3>. QED
      BY <1>3, <2>0, <2>1, <3>3
  <2>. QED
    BY <2>1, <2>3, <2>4
<1>. QED
  BY <1>3, <1>4

(* A finite graph in which every node has a successor has a cycle.         *)
LEMMA SuccessorsMakeCycle ==
  ASSUME NEW n \in Nat, NEW S \in SUBSET (0 .. n - 1), S # {}, NEW R,
         \A t \in S : \E u \in S : <<t, u>> \in R
  PROVE  \E m \in 1 .. n : \E c \in [1 .. m -> S] :
           NoRepeats(c) /\ \A k \in 1 .. m : <<c[k], c[(k % m) + 1]>> \in R
<1>1. PICK c \in Seq(S) : /\ Path(c, R) /\ Len(c) > 0
                          /\ \A d \in Seq(S) : Path(d, R) => Len(d) <= Len(c)
  BY LongestPath
<1>. DEFINE m == Len(c)
<1>2. m = Len(c) /\ m \in Nat /\ m > 0 /\ c \in [1 .. m -> S] /\ DOMAIN c = 1 .. m
  BY <1>1, LenProperties
<1>. HIDE DEF m
<1>3. PICK u \in S : <<c[m], u>> \in R
  <2>1. c[m] \in S
    BY <1>2
  <2>. QED
    BY <2>1
<1>4. u \in Range(c)
  <2>. SUFFICES ASSUME u \notin Range(c)
                PROVE  FALSE
    OBVIOUS
  <2>. DEFINE d == Append(c, u)
  <2>1. /\ d \in Seq(S) /\ Len(d) = m + 1 /\ DOMAIN d = 1 .. m + 1
        /\ \A i \in 1 .. m : d[i] = c[i]
        /\ d[m + 1] = u
    BY <1>2, AppendProperties, LenProperties
  <2>. HIDE DEF d
  <2>2. \A i \in 1 .. m : c[i] # u
    BY <1>2 DEF Range
  <2>3. NoRepeats(d)
    BY <1>1, <1>2, <2>1, <2>2 DEF NoRepeats, Path
  <2>4. \A k \in 1 .. Len(d) - 1 : <<d[k], d[k + 1]>> \in R
    <3>. SUFFICES ASSUME NEW k \in 1 .. m
                  PROVE  <<d[k], d[k + 1]>> \in R
      BY <1>2, <2>1
    <3>1. CASE k = m
      BY <1>2, <1>3, <2>1, <3>1
    <3>2. CASE k < m
      <4>1. k \in 1 .. Len(c) - 1 /\ k \in 1 .. m /\ k + 1 \in 1 .. m
        BY <1>2, <3>2
      <4>. QED
        BY <1>1, <2>1, <4>1 DEF Path
    <3>3. k = m \/ k < m
      <4>1. m \in Int /\ k \in Int /\ k <= m
        BY <1>2
      <4>. QED
        BY <4>1
    <3>. QED
      BY <3>1, <3>2, <3>3
  <2>. QED
    BY <1>1, <1>2, <2>1, <2>3, <2>4 DEF Path
<1>5. PICK k \in 1 .. m : c[k] = u
  BY <1>2, <1>4 DEF Range
<1>. DEFINE e == SubSeq(c, k, m)
<1>6. /\ e \in Seq(S) /\ Len(e) \in 1 .. n /\ NoRepeats(e)
      /\ \A i \in 1 .. Len(e) : <<e[i], e[(i % Len(e)) + 1]>> \in R
  <2>1. /\ NoRepeats(c) /\ <<c[Len(c)], c[k]>> \in R /\ k \in 1 .. Len(c)
        /\ \A i \in 1 .. Len(c) - 1 : <<c[i], c[i + 1]>> \in R
    BY <1>1, <1>2, <1>3, <1>5 DEF Path
  <2>. QED
    BY <1>2, <2>1, PathCloses
<1>. HIDE DEF e
<1>7. e \in [1 .. Len(e) -> S]
  BY <1>6, LenProperties
<1>. QED
  BY <1>6, <1>7

(* Tasks each of which waits for what another of them holds are on a cycle *)
(* that the search sees.                                                   *)
LEMMA StuckHasCycle ==
  ASSUME TypeOK, NEW S \in SUBSET Registered, Stuck(S), S # {}
  PROVE  WaitCycles # {}
<1>. DEFINE R == {e \in S \X S : WaitsFor(e[1], e[2])}
<1>1. task_count \in Nat /\ Registered = 0 .. task_count - 1
  BY RegisteredTasks DEF Registered
<1>2. \A t \in S : \E u \in S : <<t, u>> \in R
  BY DEF Stuck, WaitsFor
<1>. HIDE DEF R
<1>3. PICK m \in 1 .. task_count : \E c \in [1 .. m -> S] :
        NoRepeats(c) /\ \A k \in 1 .. m : <<c[k], c[(k % m) + 1]>> \in R
  BY <1>1, <1>2, SuccessorsMakeCycle
<1>30. PICK c \in [1 .. m -> S] :
         NoRepeats(c) /\ \A k \in 1 .. m : <<c[k], c[(k % m) + 1]>> \in R
  BY <1>3
<1>4. c \in Seq(Registered) /\ Len(c) = m /\ DOMAIN c = 1 .. m /\ c \in [1 .. m -> Registered]
  <2>1. m \in Nat
    BY <1>1
  <2>. QED
    BY <2>1, LenProperties
<1>5. \A k \in DOMAIN c : WaitsFor(c[k], c[(k % Len(c)) + 1])
  BY <1>30, <1>4 DEF R
<1>. QED
  BY <1>30, <1>4, <1>5 DEF WaitCycles

--------------------------------------------------------------------------------
(* No deadlock outlives a pass *)

LEMMA StuckBefore ==
  ASSUME NEW S, Stuck(S)',
         \A u \in S : state'[u] = "BLOCKED" =>
           state[u] = "BLOCKED" /\ held'[u] = held[u] /\ required'[u] = required[u]
  PROVE  Stuck(S)
BY DEF Stuck

LEMMA StuckStep ==
  ASSUME IInv, DeadlockFreeBetweenPasses, [Next]_vars, mutex' = Free,
         NEW S \in SUBSET Registered', Stuck(S)'
  PROVE  S = {}
<1>1. TypeOK /\ PassOwnsMutex
  BY DEF IInv, DataInv
<1>2. /\ task_count \in Nat /\ Registered = 0 .. task_count - 1 /\ Registered \subseteq Idx
      /\ state \in [Idx -> TaskStates]
      /\ required \in [Idx -> SUBSET Resources] /\ held \in [Idx -> SUBSET Resources]
  BY Basics
<1>3. Quiet \/ DataStep
  BY <1>1, StepIsQuietOrData
<1>4. ASSUME mutex = Free, S \subseteq Registered,
             \A u \in S : state'[u] = "BLOCKED" =>
               state[u] = "BLOCKED" /\ held'[u] = held[u] /\ required'[u] = required[u]
      PROVE  S = {}
  BY <1>4, StuckBefore DEF DeadlockFreeBetweenPasses
<1>5. CASE Quiet
  BY <1>4, <1>5 DEF Quiet, tasks, Registered
<1>6. ASSUME NEW j \in Jobs, Submit(j) PROVE S = {}
  <2>. DEFINE t == task_count
  <2>1. /\ mutex = Free /\ task_count' = task_count + 1 /\ task_count < MAX_TASKS
        /\ state' = [state EXCEPT ![t] = IF j.required = {} THEN "READY" ELSE "NEW"]
        /\ required' = [required EXCEPT ![t] = j.required]
        /\ held' = [held EXCEPT ![t] = {}]
    BY <1>6 DEF Submit, Acceptable
  <2>2. t \in Idx /\ MAX_TASKS \in Nat
    BY <1>2, <2>1, Numbers DEF Idx
  <2>3. state'[t] # "BLOCKED"
    BY <1>2, <2>1, <2>2
  <2>4. t \notin S
    BY <2>3 DEF Stuck
  <2>5. Registered' = Registered \cup {t}
    BY <1>2, <2>1 DEF Registered
  <2>6. S \subseteq Registered
    BY <2>4, <2>5
  <2>7. \A u \in S : state'[u] = state[u] /\ held'[u] = held[u] /\ required'[u] = required[u]
    BY <1>2, <2>1, <2>4, <2>6
  <2>. QED
    BY <1>4, <2>1, <2>6, <2>7
<1>7. ASSUME NEW i \in Int, NEW priority \in ChangedPriorities, ChangePriority(i, priority)
      PROVE  S = {}
  BY <1>4, <1>7 DEF ChangePriority, Registered
<1>8. ASSUME NEW p \in Pairs, BeginPass(p) \/ AllocateNext(p) \/ ResolveDeadlock(p)
      PROVE  FALSE
  <2>1. mutex' = p
    BY <1>1, <1>8 DEF BeginPass, AllocateNext, ResolveDeadlock, PassOwnsMutex
  <2>. QED
    BY <2>1, PairsAssumption
<1>9. ASSUME NEW p \in Pairs, SelectTask(p) \/ NothingToRun(p)
      PROVE  S = {}
  <2>1. WaitCycles = {} /\ held' = HeldByLive /\ UNCHANGED <<state, required, task_count>>
    BY <1>9 DEF SelectTask, HandOver, NothingToRun, GoIdle
  <2>2. S \subseteq Registered
    BY <2>1 DEF Registered
  <2>3. \A u \in S : state'[u] = "BLOCKED" => held'[u] = held[u]
    BY <1>2, <2>1, <2>2 DEF HeldByLive, Terminal
  <2>4. Stuck(S)
    BY <2>1, <2>3, StuckBefore
  <2>. QED
    BY <1>1, <2>1, <2>2, <2>4, StuckHasCycle
<1>10. ASSUME NEW t \in Registered, UNCHANGED <<mutex, required, task_count>>,
              held' = held \/ held' = [held EXCEPT ![t] = {}],
              state' = state \/ \E s \in {"READY", "RUNNING", "FINISHED"} :
                                  state' = [state EXCEPT ![t] = s],
              held' = held \/ state'[t] # "BLOCKED"
       PROVE  S = {}
  <2>1. S \subseteq Registered
    BY <1>10 DEF Registered
  <2>2. \A u \in S : state'[u] = "BLOCKED" => state[u] = "BLOCKED" /\ held'[u] = held[u]
    BY <1>2, <1>10, <2>1
  <2>. QED
    BY <1>4, <1>10, <2>1, <2>2
<1>11. ASSUME NEW p \in Pairs, PickupRun(p) PROVE S = {}
  <2>1. PICK t \in Registered :
          /\ Runnable(t)
          /\ \/ Finish(t)
             \/ state' = [state EXCEPT ![t] = "RUNNING"] /\ held' = held
    BY <1>11 DEF PickupRun
  <2>2. /\ held' = held \/ held' = [held EXCEPT ![t] = {}]
        /\ \E s \in {"READY", "RUNNING", "FINISHED"} : state' = [state EXCEPT ![t] = s]
        /\ UNCHANGED <<mutex, required, task_count>>
    BY <1>11, <2>1 DEF PickupRun, Finish
  <2>3. state'[t] # "BLOCKED"
    BY <1>2, <2>2
  <2>. QED
    BY <1>10, <2>2, <2>3
<1>12. ASSUME NEW p \in Pairs, PickupReject(p) \/ PickupUnknown(p) PROVE S = {}
  <2>1. UNCHANGED <<mutex, required, task_count, state, held>>
    BY <1>12 DEF PickupReject, PickupUnknown, tasks
  <2>. QED
    BY <1>4, <2>1 DEF Registered
<1>13. ASSUME NEW p \in Pairs, FinishQuantum(p) PROVE S = {}
  <2>. DEFINE t == current[p]
  <2>1. t \in Registered
    BY <1>13 DEF FinishQuantum, IInv, DataInv, RunningIsRegistered
  <2>2. /\ held' = held \/ held' = [held EXCEPT ![t] = {}]
        /\ \E s \in {"READY", "RUNNING", "FINISHED"} : state' = [state EXCEPT ![t] = s]
        /\ UNCHANGED <<mutex, required, task_count>>
    BY <1>13 DEF FinishQuantum, Finish
  <2>. HIDE DEF t
  <2>3. state'[t] # "BLOCKED"
    BY <1>2, <2>1, <2>2
  <2>. QED
    BY <1>10, <2>1, <2>2, <2>3
<1>. QED
  BY <1>3, <1>5, <1>6, <1>7, <1>8, <1>9, <1>11, <1>12, <1>13 DEF DataStep

LEMMA InitDeadlockFree == Init => DeadlockFreeBetweenPasses
<1>. SUFFICES ASSUME Init PROVE DeadlockFreeBetweenPasses
  OBVIOUS
<1>1. Registered = {}
  BY DEF Init, Registered
<1>. QED
  BY <1>1 DEF DeadlockFreeBetweenPasses

(* No deadlock is left whenever the mutex is free, however many schedulers *)
(* were started: every pass ends only once no cycle is left, and nothing   *)
(* that happens between passes makes a task wait.                          *)
THEOREM NoDeadlockOutlivesAPass == Spec => []DeadlockFreeBetweenPasses
<1>1. IInv /\ DeadlockFreeBetweenPasses /\ [Next]_vars => DeadlockFreeBetweenPasses'
  <2>. SUFFICES ASSUME IInv, DeadlockFreeBetweenPasses, [Next]_vars, mutex' = Free,
                       NEW S \in SUBSET Registered', Stuck(S)'
                PROVE  S = {}
    BY DEF DeadlockFreeBetweenPasses
  <2>. QED
    BY StuckStep
<1>. QED
  BY <1>1, InitDeadlockFree, Invariance, PTL DEF Spec

--------------------------------------------------------------------------------
(* What a pass without progress has seen *)

(* Task t lacks resources, all of them held by some task.                  *)
Starved(t) ==
  /\ state[t] = "BLOCKED"
  /\ required[t] \ held[t] # {} /\ required[t] \ held[t] \subseteq globally_held

(* As long as a pass makes no progress its copy of the held resources is   *)
(* exact, and the tasks it has examined, behind those it has not in the    *)
(* blocked queue, are starved.                                             *)
ExaminedStarve ==
  mutex # Free /\ ~allocation_progress =>
    /\ \A r \in globally_held : \E u \in Registered : r \in held[u]
    /\ \A k \in blocked_left + 1 .. Len(blocked_queue) : Starved(blocked_queue[k])

(* What an iteration without progress does.                                *)
LEMMA NothingGranted ==
  ASSUME IInv, NEW p \in Pairs, AllocateNext(p), ~allocation_progress'
  PROVE  /\ ~allocation_progress
         /\ UNCHANGED <<held, globally_held>>
         /\ blocked_queue' = PushTail(Tail(blocked_queue), Head(blocked_queue))
         /\ state' = [state EXCEPT ![Head(blocked_queue)] = "BLOCKED"]
         /\ required[Head(blocked_queue)] \ held[Head(blocked_queue)] # {}
         /\ required[Head(blocked_queue)] \ held[Head(blocked_queue)] \subseteq globally_held
<1>. DEFINE t == Head(blocked_queue)
            free == (required[t] \ held[t]) \ globally_held
<1>1. /\ TypeOK /\ PassHasMutex /\ QueuedWhereStateSays
      /\ required \in [Idx -> SUBSET Resources] /\ held \in [Idx -> SUBSET Resources]
      /\ state \in [Idx -> TaskStates] /\ Registered \subseteq Idx
  BY IInvIsSafe, Basics DEF IInv, DataInv
<1>2. spc[p] = "pass" /\ blocked_left > 0
  BY DEF AllocateNext
<1>3. blocked_queue \in Seq(Registered) /\ blocked_queue # <<>> /\ t \in Registered
  BY <1>1, <1>2, PassHasTask
<1>4. t \in Range(blocked_queue)
  BY <1>3, TailProperties
<1>5. state[t] \in {"NEW", "BLOCKED"}
  BY <1>1, <1>3, <1>4 DEF QueuedWhereStateSays
<1>6. Allocate(t)
  BY <1>5 DEF AllocateNext, Terminal
<1>. HIDE DEF t
<1>7. ~allocation_progress /\ Granted(t) = {} /\ ~(required[t] \subseteq held[t])
  BY <1>6 DEF Allocate
<1>8. free = {}
  <2>1. free \in SUBSET Nat
    BY <1>1, <1>3, ResourcesAssumption
  <2>2. Granted(t) = {r \in free : \A s \in free : r <= s}
    BY DEF Granted
  <2>. HIDE DEF free
  <2>. QED
    BY <1>7, <2>1, <2>2, LeastOfNaturals
<1>9. held[t] \cup Granted(t) = held[t] /\ globally_held \cup Granted(t) = globally_held
  BY <1>7
<1>10. held[t] # required[t]
  BY <1>7
<1>11. /\ held' = [held EXCEPT ![t] = held[t]] /\ globally_held' = globally_held
       /\ state' = [state EXCEPT ![t] = "BLOCKED"]
       /\ blocked_queue' = PushTail(Tail(blocked_queue), t)
  BY <1>6, <1>7, <1>9, <1>10 DEF Allocate
<1>12. held' = held
  BY <1>1, <1>11
<1>. QED
  BY <1>7, <1>8, <1>11, <1>12 DEF t

(* The head of a queue moves to its end.                                   *)
LEMMA Rotation ==
  ASSUME NEW S, NEW q \in Seq(S), q # <<>>, NoRepeats(q), Len(q) <= MAX_TASKS
  PROVE  /\ Len(PushTail(Tail(q), Head(q))) = Len(q) /\ Len(q) \in Nat
         /\ \A k \in 1 .. Len(q) - 1 : PushTail(Tail(q), Head(q))[k] = q[k + 1]
         /\ PushTail(Tail(q), Head(q))[Len(q)] = Head(q)
<1>. DEFINE r == Tail(q)
<1>1. /\ r \in Seq(S) /\ Len(r) = Len(q) - 1 /\ Len(q) \in Nat /\ Len(r) \in Nat
      /\ Head(q) \in S /\ Head(q) \notin Range(r)
      /\ \A k \in 1 .. Len(r) : r[k] = q[k + 1]
  BY TailProperties, HeadTailProperties, LenProperties
<1>. HIDE DEF r
<1>2. MAX_TASKS \in Nat
  BY MaxTasksAssumption
<1>3. PushTail(r, Head(q)) = Append(r, Head(q))
  BY <1>1, <1>2 DEF PushTail
<1>4. /\ Len(Append(r, Head(q))) = Len(r) + 1
      /\ \A k \in 1 .. Len(r) : Append(r, Head(q))[k] = r[k]
      /\ Append(r, Head(q))[Len(r) + 1] = Head(q)
  BY <1>1, AppendProperties
<1>5. Len(r) + 1 = Len(q)
  BY <1>1
<1>6. /\ Len(PushTail(r, Head(q))) = Len(q) /\ Len(q) \in Nat
      /\ \A k \in 1 .. Len(q) - 1 : PushTail(r, Head(q))[k] = q[k + 1]
      /\ PushTail(r, Head(q))[Len(q)] = Head(q)
  BY <1>1, <1>3, <1>4, <1>5
<1>. QED
  BY <1>6 DEF r

LEMMA ExaminedStep ==
  ASSUME IInv, ExaminedStarve, [Next]_vars
  PROVE  ExaminedStarve'
<1>1. TypeOK /\ PassOwnsMutex /\ QueuedWhereStateSays
  BY DEF IInv, DataInv
<1>2. /\ task_count \in Nat /\ Registered = 0 .. task_count - 1 /\ Registered \subseteq Idx
      /\ state \in [Idx -> TaskStates] /\ held \in [Idx -> SUBSET Resources]
      /\ task_count <= MAX_TASKS
  BY <1>1, Basics, RegisteredTasks
<1>3. Quiet \/ DataStep
  BY <1>1, StepIsQuietOrData
<1>4. CASE Quiet
  BY <1>4 DEF Quiet, tasks, queues, pass, Registered, ExaminedStarve, Starved
<1>5. ASSUME mutex' = Free \/ allocation_progress' = TRUE
      PROVE  ExaminedStarve'
  BY <1>5 DEF ExaminedStarve
<1>6. ASSUME NEW j \in Jobs, Submit(j) PROVE ExaminedStarve'
  BY <1>5, <1>6 DEF Submit
<1>7. ASSUME NEW i \in Int, NEW priority \in ChangedPriorities, ChangePriority(i, priority)
      PROVE  ExaminedStarve'
  BY <1>5, <1>7 DEF ChangePriority
<1>8. ASSUME NEW p \in Pairs, \/ ResolveDeadlock(p) \/ SelectTask(p) \/ NothingToRun(p)
                              \/ PickupRun(p) \/ PickupReject(p) \/ PickupUnknown(p)
                              \/ FinishQuantum(p)
      PROVE  ExaminedStarve'
  <2>1. mutex' = Free \/ allocation_progress' = TRUE
    BY <1>8 DEF ResolveDeadlock, SelectTask, HandOver, NothingToRun, GoIdle, ReleasePass,
                PickupRun, PickupReject, PickupUnknown, FinishQuantum
  <2>. QED
    BY <1>5, <2>1
<1>9. ASSUME NEW p \in Pairs, BeginPass(p) PROVE ExaminedStarve'
  <2>1. /\ held' = HeldByLive /\ globally_held' = UNION {HeldByLive[t] : t \in Registered}
        /\ blocked_left' = Len(blocked_queue)
        /\ UNCHANGED <<blocked_queue, task_count>>
    BY <1>9 DEF BeginPass, queues
  <2>2. \A r \in globally_held' : \E u \in Registered' : r \in held'[u]
    BY <2>1 DEF Registered
  <2>3. Len(blocked_queue) \in Nat
    BY <1>1, LenProperties DEF TypeOK, QueuesTypeOK
  <2>4. \A k \in blocked_left' + 1 .. Len(blocked_queue') : FALSE
    BY <2>1, <2>3
  <2>. QED
    BY <2>2, <2>4 DEF ExaminedStarve
<1>10. ASSUME NEW p \in Pairs, AllocateNext(p), ~allocation_progress'
       PROVE  ExaminedStarve'
  <2>. DEFINE q == blocked_queue
              t == Head(q)
              After(u) == /\ state'[u] = "BLOCKED"
                          /\ required'[u] \ held'[u] # {}
                          /\ required'[u] \ held'[u] \subseteq globally_held'
  <2>1. /\ spc[p] = "pass" /\ blocked_left > 0 /\ blocked_left' = blocked_left - 1
        /\ UNCHANGED <<required, task_count>>
    BY <1>10 DEF AllocateNext
  <2>2. /\ ~allocation_progress /\ UNCHANGED <<held, globally_held>>
        /\ blocked_queue' = PushTail(Tail(q), t)
        /\ state' = [state EXCEPT ![t] = "BLOCKED"]
        /\ required[t] \ held[t] # {} /\ required[t] \ held[t] \subseteq globally_held
    BY <1>10, NothingGranted
  <2>3. mutex # Free /\ PassHasMutex
    BY <1>1, <2>1, PairsAssumption DEF PassOwnsMutex, PassHasMutex
  <2>4. /\ q \in Seq(Registered) /\ q # <<>> /\ t \in Registered
        /\ blocked_left <= Len(q) /\ blocked_left \in Nat /\ NoRepeats(q)
    BY <1>1, <2>1, <2>3, PassHasTask DEF QueuedWhereStateSays, TypeOK, ControlTypeOK
  <2>5. Len(q) <= MAX_TASKS
    <3>1. Len(q) <= task_count /\ Len(q) \in Nat
      BY <1>2, <2>4, LengthBound, LenProperties
    <3>. QED
      BY <1>2, <3>1, MaxTasksAssumption
  <2>6. /\ Len(blocked_queue') = Len(q) /\ Len(q) \in Nat
        /\ \A k \in 1 .. Len(q) - 1 : blocked_queue'[k] = q[k + 1]
        /\ blocked_queue'[Len(q)] = t
    BY <2>2, <2>4, <2>5, Rotation
  <2>7. /\ \A r \in globally_held : \E u \in Registered : r \in held[u]
        /\ \A k \in blocked_left + 1 .. Len(q) : Starved(q[k])
    BY <2>2, <2>3 DEF ExaminedStarve
  <2>8. \A k \in 1 .. Len(q) : q[k] \in Idx
    BY <1>2, <2>4, LenProperties
  <2>. HIDE DEF q, t
  <2>9. \A u \in Idx : Starved(u) => After(u)
    BY <1>2, <2>1, <2>2 DEF Starved
  <2>10. After(t)
    BY <1>2, <2>1, <2>2, <2>4
  <2>. HIDE DEF After
  <2>11. \A k \in blocked_left' + 1 .. Len(blocked_queue') : After(blocked_queue'[k])
    <3>. SUFFICES ASSUME NEW k \in blocked_left' + 1 .. Len(blocked_queue')
                  PROVE  After(blocked_queue'[k])
      OBVIOUS
    <3>1. CASE k = Len(q)
      BY <2>6, <2>10, <3>1
    <3>2. CASE k # Len(q)
      <4>1. /\ k \in 1 .. Len(q) - 1 /\ k + 1 \in blocked_left + 1 .. Len(q)
            /\ k + 1 \in 1 .. Len(q)
        BY <2>1, <2>4, <2>6, <3>2
      <4>. QED
        BY <2>6, <2>7, <2>8, <2>9, <4>1
    <3>. QED
      BY <3>1, <3>2
  <2>12. \A r \in globally_held' : \E u \in Registered' : r \in held'[u]
    BY <2>1, <2>2, <2>7 DEF Registered
  <2>. QED
    BY <2>11, <2>12 DEF ExaminedStarve, Starved, After
<1>11. ASSUME NEW p \in Pairs, AllocateNext(p) PROVE ExaminedStarve'
  BY <1>10, <1>11 DEF ExaminedStarve
<1>. QED
  BY <1>3, <1>4, <1>6, <1>7, <1>8, <1>9, <1>11 DEF DataStep

--------------------------------------------------------------------------------
(* Sleep *)

(* How the scheduler comes to be asleep with no event pending: it falls    *)
(* asleep, or it slept before.                                             *)
LEMMA AsleepBefore ==
  ASSUME NEW one, Pairs = {one}, TypeOK, ShutdownIsStop, [Next]_vars,
         spc'[one] = "idle", sem'["event"] = 0, jpc' = "idle"
  PROVE  NothingToRun(one) \/ (spc[one] = "idle" /\ sem["event"] = 0 /\ jpc = "idle")
<1>1. /\ one \in Pairs /\ \A p \in Pairs : p = one
      /\ spc \in [Pairs -> SchedulerSteps] /\ sem \in [Semaphores -> Nat]
      /\ sem["event"] \in Nat /\ Semaphores = {"worker", "scheduler", "event"}
  BY DEF TypeOK, ControlTypeOK, Semaphores
<1>2. ASSUME NEW s \in Semaphores, Post(s) PROVE s # "event" /\ sem["event"] = 0
  <2>1. sem' = [sem EXCEPT ![s] = sem[s] + 1]
    BY <1>2 DEF Post
  <2>2. CASE s = "event"
    <3>1. sem'["event"] = sem["event"] + 1
      BY <1>1, <2>1, <2>2
    <3>. QED
      BY <1>1, <3>1
  <2>3. CASE s # "event"
    <3>1. sem'["event"] = sem["event"]
      BY <1>1, <2>1, <2>3
    <3>. QED
      BY <2>3, <3>1
  <2>. QED
    BY <2>2, <2>3
<1>3. CASE UNCHANGED vars
  BY <1>3 DEF vars
<1>4. ASSUME NEW j, Submit(j) PROVE FALSE
  BY <1>4 DEF Submit
<1>5. ASSUME NEW i, NEW priority, ChangePriority(i, priority) PROVE FALSE
  BY <1>5 DEF ChangePriority
<1>6. ASSUME NEW p \in Pairs, Start(p) PROVE FALSE
  <2>1. \E s, w \in {"boot", "done"} : spc' = [spc EXCEPT ![p] = s]
    BY <1>6 DEF Start, Forked
  <2>. QED
    BY <1>1, <2>1
<1>7. CASE Stop \/ JniContinues
  <2>1. CASE Notify
    BY <1>1, <1>2, <2>1 DEF Notify, Notified
  <2>2. ASSUME NEW from, NEW s, NEW to \in {"post_scheduler", "post_event", "join_scheduler"},
               StopPost(from, s, to)
        PROVE  FALSE
    BY <2>2 DEF StopPost
  <2>3. CASE Stop \/ JoinScheduler \/ JoinWorker
    BY <2>3 DEF Stop, JoinScheduler, JoinWorker
  <2>. QED
    BY <1>7, <2>1, <2>2, <2>3 DEF JniContinues
<1>8. ASSUME NEW p \in Pairs, SchedulerStep(p) PROVE NothingToRun(one)
  <2>0. p = one
    BY <1>1
  <2>1. CASE SchedulerBoot(p)
    BY <1>1, <2>0, <2>1 DEF SchedulerBoot, Attached
  <2>2. CASE SchedulerCheck(p)
    BY <1>1, <2>0, <2>2 DEF SchedulerCheck
  <2>3. CASE BeginPass(p)
    BY <1>1, <2>0, <2>3 DEF BeginPass
  <2>4. CASE AllocateNext(p) \/ ResolveDeadlock(p)
    BY <2>0, <2>4 DEF AllocateNext, ResolveDeadlock
  <2>5. CASE SelectTask(p)
    BY <1>1, <2>0, <2>5 DEF SelectTask, HandOver
  <2>6. ASSUME NEW from, NEW s, NEW to \in {"wait", "exit_scheduler", "exit_event", "done"},
               SchedulerPosts(p, from, s, to)
        PROVE  FALSE
    <3>1. spc'[one] = to
      BY <1>1, <2>0, <2>6 DEF SchedulerPosts
    <3>. QED
      BY <3>1
  <2>7. ASSUME NEW from, NEW s, NEW to \in {"woken", "top"}, SchedulerWaits(p, from, s, to)
        PROVE  FALSE
    <3>1. spc'[one] = to
      BY <1>1, <2>0, <2>7 DEF SchedulerWaits
    <3>. QED
      BY <3>1
  <2>. QED
    BY <1>8, <2>0, <2>1, <2>2, <2>3, <2>4, <2>5, <2>6, <2>7 DEF SchedulerStep
<1>9. ASSUME NEW p \in Pairs, WorkerStep(p)
      PROVE  spc[one] = "idle" /\ sem["event"] = 0 /\ jpc = "idle"
  <2>1. spc' = spc /\ jpc' = jpc
    BY <1>9 DEF WorkerStep, WorkerBoot, WorkerCheck, WorkerWaits, PickupRun, PickupReject,
                PickupUnknown, FinishQuantum, WorkerPosts
  <2>2. ASSUME sem' = sem PROVE sem["event"] = 0
    BY <2>2
  <2>3. CASE \/ WorkerBoot(p) \/ WorkerCheck(p) \/ PickupRun(p) \/ PickupReject(p)
             \/ PickupUnknown(p) \/ FinishQuantum(p)
    BY <2>2, <2>3 DEF WorkerBoot, WorkerCheck, PickupRun, PickupReject, PickupUnknown,
                      FinishQuantum
  <2>4. CASE WorkerWaits(p)
    BY <1>1, <2>4 DEF WorkerWaits, SemWait
  <2>5. ASSUME NEW from, NEW s \in Semaphores, NEW to, WorkerPosts(p, from, s, to)
        PROVE  sem["event"] = 0
    BY <1>2, <2>5 DEF WorkerPosts
  <2>6. sem["event"] = 0
    BY <1>1, <1>9, <2>3, <2>4, <2>5 DEF WorkerStep
  <2>. QED
    BY <2>1, <2>6
<1>. QED
  BY <1>3, <1>4, <1>5, <1>6, <1>7, <1>8, <1>9 DEF Next, Stopped, ProcessStep

(* The scheduler falls asleep only when all tasks have ended: those that   *)
(* have not are all starved, by one another, and that is a deadlock.       *)
LEMMA FallsAsleep ==
  ASSUME NEW one, Pairs = {one}, IInv, OneTurn, HandInv, ExaminedStarve,
         NothingToRun(one), spc'[one] = "idle"
  PROVE  \A t \in Registered : Terminal(t)
<1>1. /\ TypeOK /\ PassOwnsMutex /\ QueuedWhereStateSays /\ HoldsWhatStateSays
      /\ one \in Pairs /\ spc \in [Pairs -> SchedulerSteps]
  BY DEF IInv, DataInv, TypeOK, ControlTypeOK
<1>2. /\ WaitCycles = {} /\ spc[one] = "pass" /\ blocked_left = 0 /\ ready_queue = <<>>
      /\ spc' = [spc EXCEPT ![one] = AfterIdlePass]
  BY DEF NothingToRun, GoIdle
<1>3. ~allocation_progress
  <2>1. spc'[one] = AfterIdlePass
    BY <1>1, <1>2
  <2>. QED
    BY <2>1 DEF AfterIdlePass
<1>4. mutex # Free
  BY <1>1, <1>2, PairsAssumption DEF PassOwnsMutex
<1>5. /\ \A r \in globally_held : \E u \in Registered : r \in held[u]
      /\ \A k \in 1 .. Len(blocked_queue) : Starved(blocked_queue[k])
  BY <1>2, <1>3, <1>4 DEF ExaminedStarve
<1>6. \A t \in Range(blocked_queue) : Starved(t)
  <2>1. blocked_queue \in Seq(Registered)
    BY <1>1 DEF TypeOK, QueuesTypeOK
  <2>2. Range(blocked_queue) = {blocked_queue[k] : k \in 1 .. Len(blocked_queue)}
    BY <2>1, RangeIsImage
  <2>. QED
    BY <1>5, <2>2
<1>7. \A t \in Registered : ~InService(t)
  BY <1>1, <1>2, NobodyServed
<1>8. Range(ready_queue) = {}
  BY <1>2 DEF Range
<1>. DEFINE S == {t \in Registered : ~Terminal(t)}
<1>9. \A t \in S : Starved(t)
  <2>. SUFFICES ASSUME NEW t \in Registered, ~Terminal(t)
                PROVE  Starved(t)
    OBVIOUS
  <2>1. state[t] \in TaskStates
    BY Basics
  <2>2. state[t] \in {"NEW", "BLOCKED"}
    BY <1>7, <1>8, <2>1 DEF Terminal, InService, TaskStates
  <2>. QED
    BY <1>1, <1>6, <2>2 DEF QueuedWhereStateSays
<1>10. \A t \in S : \E u \in S : (required[t] \ held[t]) \cap held[u] # {}
  <2>. SUFFICES ASSUME NEW t \in S
                PROVE  \E u \in S : (required[t] \ held[t]) \cap held[u] # {}
    OBVIOUS
  <2>1. PICK r \in required[t] \ held[t] : r \in globally_held
    BY <1>9 DEF Starved
  <2>2. PICK u \in Registered : r \in held[u]
    BY <1>5, <2>1
  <2>3. u \in S
    BY <1>1, <2>2 DEF HoldsWhatStateSays
  <2>. QED
    BY <2>1, <2>2, <2>3
<1>11. Stuck(S)
  BY <1>9, <1>10 DEF Stuck, Starved
<1>12. S = {}
  <2>1. S \in SUBSET Registered
    OBVIOUS
  <2>. HIDE DEF S
  <2>. QED
    BY <1>1, <1>2, <1>11, <2>1, StuckHasCycle
<1>. QED
  BY <1>12

(* While the scheduler sleeps with no event pending, nothing changes.      *)
LEMMA SleepStep ==
  ASSUME NEW one, Pairs = {one}, IInv, OneTurn, HandInv, ExaminedStarve, SleepsOnlyWhenDone,
         [Next]_vars
  PROVE  SleepsOnlyWhenDone'
<1>1. /\ TypeOK /\ ShutdownIsStop /\ RunsOnOneWorker /\ RunningIsRegistered
      /\ one \in Pairs /\ \A p \in Pairs : p = one
  BY DEF IInv, DataInv, AssignmentInv
<1>. SUFFICES ASSUME spc'[one] = "idle", sem'["event"] = 0, jpc' = "idle"
              PROVE  \A t \in Registered' : Terminal(t)'
  BY <1>1 DEF SleepsOnlyWhenDone
<1>2. NothingToRun(one) \/ (spc[one] = "idle" /\ sem["event"] = 0 /\ jpc = "idle")
  BY <1>1, AsleepBefore
<1>3. \A t \in Registered : Terminal(t)
  BY <1>2, FallsAsleep DEF SleepsOnlyWhenDone
<1>4. UNCHANGED <<state, task_count>>
  <2>1. Quiet \/ DataStep
    BY <1>1, StepIsQuietOrData
  <2>2. CASE Quiet
    BY <2>2 DEF Quiet, tasks
  <2>3. ASSUME NEW j \in Jobs, Submit(j) PROVE FALSE
    BY <2>3 DEF Submit
  <2>4. ASSUME NEW i \in Int, NEW priority \in ChangedPriorities, ChangePriority(i, priority)
        PROVE  FALSE
    BY <2>4 DEF ChangePriority
  <2>5. ASSUME NEW p \in Pairs, BeginPass(p) \/ AllocateNext(p) \/ ResolveDeadlock(p)
                                  \/ SelectTask(p)
        PROVE  FALSE
    <3>1. p = one /\ spc[one] \in {"lock", "pass"} /\ ~NothingToRun(one)
      <4>1. p = one
        BY <1>1
      <4>2. spc[p] = "lock" \/ (AllocateNext(p) \/ ResolveDeadlock(p) \/ SelectTask(p))
        BY <2>5 DEF BeginPass
      <4>3. CASE BeginPass(p)
        BY <4>1, <4>3 DEF BeginPass, NothingToRun, GoIdle
      <4>4. CASE AllocateNext(p)
        BY <4>1, <4>4 DEF AllocateNext, NothingToRun, GoIdle
      <4>5. CASE ResolveDeadlock(p)
        BY <4>1, <4>5 DEF ResolveDeadlock, NothingToRun
      <4>6. CASE SelectTask(p)
        BY <4>1, <4>6 DEF SelectTask, HandOver, NothingToRun, GoIdle
      <4>. QED
        BY <2>5, <4>1, <4>3, <4>4, <4>5, <4>6
    <3>. QED
      BY <1>2, <3>1
  <2>6. ASSUME NEW p \in Pairs, NothingToRun(p) PROVE UNCHANGED <<state, task_count>>
    BY <2>6 DEF NothingToRun, GoIdle
  <2>7. ASSUME NEW p \in Pairs, PickupReject(p) \/ PickupUnknown(p)
        PROVE  UNCHANGED <<state, task_count>>
    BY <2>7 DEF PickupReject, PickupUnknown, tasks
  <2>8. ASSUME NEW p \in Pairs, PickupRun(p) PROVE FALSE
    BY <1>3, <2>8 DEF PickupRun, Runnable, Terminal
  <2>9. ASSUME NEW p \in Pairs, FinishQuantum(p) PROVE FALSE
    <3>1. wpc[p] = "running"
      BY <2>9 DEF FinishQuantum
    <3>. QED
      BY <1>1, <1>3, <3>1 DEF RunsOnOneWorker, RunningIsRegistered, Terminal
  <2>. QED
    BY <2>1, <2>2, <2>3, <2>4, <2>5, <2>6, <2>7, <2>8, <2>9 DEF DataStep
<1>. QED
  BY <1>3, <1>4 DEF Registered, Terminal

SleepInv == PairInv /\ ExaminedStarve /\ SleepsOnlyWhenDone

LEMMA InitSleepInv == Init => SleepInv
<1>. SUFFICES ASSUME Init PROVE SleepInv
  OBVIOUS
<1>1. ExaminedStarve
  BY DEF Init, ExaminedStarve
<1>2. SleepsOnlyWhenDone
  BY DEF Init, SleepsOnlyWhenDone
<1>. QED
  BY <1>1, <1>2, InitPairInv DEF SleepInv

(* The scheduler of a single start() sleeps with no event pending only     *)
(* when every submitted task has ended: no task waits for a wake-up that   *)
(* never comes.                                                            *)
THEOREM OnePairSleepsOnlyWhenDone ==
  ASSUME NEW one, Pairs = {one}
  PROVE  Spec => []SleepsOnlyWhenDone
<1>1. SleepInv /\ [Next]_vars => SleepInv'
  <2>. SUFFICES ASSUME SleepInv, [Next]_vars PROVE SleepInv'
    OBVIOUS
  <2>1. IInv /\ OneTurn /\ HandInv
    BY DEF SleepInv, PairInv, TimesInv
  <2>2. PairInv'
    BY StepPairInv DEF SleepInv
  <2>3. ExaminedStarve'
    BY <2>1, ExaminedStep DEF SleepInv
  <2>4. SleepsOnlyWhenDone'
    BY <2>1, SleepStep DEF SleepInv
  <2>. QED
    BY <2>2, <2>3, <2>4 DEF SleepInv
<1>2. SleepInv => SleepsOnlyWhenDone
  BY DEF SleepInv
<1>. QED
  BY <1>1, <1>2, InitSleepInv, PTL DEF Spec
===============================================================================
