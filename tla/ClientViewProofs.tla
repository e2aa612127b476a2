--------------------------- MODULE ClientViewProofs ---------------------------
(***************************************************************************)
(* The scheduler implements TaskLifecycle, for every value of the          *)
(* constants: each of its steps is a step in the life of one task as the   *)
(* getters show it, or changes nothing that they show.                     *)
(***************************************************************************)
EXTENDS ClientView, OnePairProofs

--------------------------------------------------------------------------------
(* What a getter returns, as a function of the field, the ids and the size *)
(* of the table, so that it can be spoken of before and after a step.      *)
At(f, ids, n, i) ==
  LET T == {t \in 0 .. n - 1 : ids[t] = i}
  IN  IF T = {} THEN NotFound ELSE f[CHOOSE t \in T : \A u \in T : t <= u]

Has(ids, n, t, i) == t \in 0 .. n - 1 /\ ids[t] = i

LEMMA AtTask ==
  ASSUME NEW n \in Nat, NEW ids, NEW f, NEW t, NEW i, Distinct(ids, n), Has(ids, n, t, i)
  PROVE  At(f, ids, n, i) = f[t]
<1>. USE DEF Has
<1>. DEFINE T == {u \in 0 .. n - 1 : ids[u] = i}
<1>1. T = {t}
  BY DEF Distinct
<1>2. (CHOOSE u \in T : \A v \in T : u <= v) = t
  BY <1>1
<1>. QED
  BY <1>1, <1>2 DEF At

LEMMA AtNone ==
  ASSUME NEW n \in Nat, NEW ids, NEW f, NEW i, \A t \in 0 .. n - 1 : ids[t] # i
  PROVE  At(f, ids, n, i) = NotFound
BY DEF At

--------------------------------------------------------------------------------
(* The mapped variables, by At. *)
Put(f, i, v) == [f EXCEPT ![i] = v]
Agree(f, g, S) == \A t \in S : g[t] = f[t]

View(f, ids, n) == [i \in Ids |-> At(f, ids, n, i)]

LEMMA Views ==
  /\ Status = View(state, id, task_count) /\ Needs = View(required, id, task_count)
  /\ Holding = View(held, id, task_count) /\ Remaining = View(remaining_time, id, task_count)
BY DEF Status, Needs, Holding, Remaining, getTaskState, getHeldResources, getRemainingTime,
       Get, Found, Registered, View, At

LEMMA ViewsAfter ==
  /\ Status' = View(state', id', task_count') /\ Needs' = View(required', id', task_count')
  /\ Holding' = View(held', id', task_count')
  /\ Remaining' = View(remaining_time', id', task_count')
BY DEF Status, Needs, Holding, Remaining, getTaskState, getHeldResources, getRemainingTime,
       Get, Found, Registered, View, At

(* When the entry of one task changes, so does what is returned for its id.*)
LEMMA ViewChanged ==
  ASSUME NEW n \in Nat, NEW ids, NEW f, NEW g, NEW t \in 0 .. n - 1, Distinct(ids, n),
         Agree(f, g, (0 .. n - 1) \ {t}),
         ids[t] \in Ids
  PROVE  View(g, ids, n) = Put(View(f, ids, n), ids[t], g[t])
<1>1. ASSUME NEW i \in Ids
      PROVE  At(g, ids, n, i) = IF i = ids[t] THEN g[t] ELSE At(f, ids, n, i)
  <2>1. CASE \E u \in 0 .. n - 1 : ids[u] = i
    <3>1. PICK u \in 0 .. n - 1 : ids[u] = i
      BY <2>1
    <3>2. Has(ids, n, u, i)
      BY <3>1 DEF Has
    <3>3. At(g, ids, n, i) = g[u] /\ At(f, ids, n, i) = f[u]
      BY <3>2, AtTask
    <3>. QED
      BY <3>1, <3>3 DEF Distinct, Agree
  <2>2. CASE \A u \in 0 .. n - 1 : ids[u] # i
    BY <2>2, AtNone
  <2>. QED
    BY <2>1, <2>2
<1>. QED
  BY <1>1 DEF View, Put

(* A task that is added is returned for its id, and no other one differs.  *)
LEMMA ViewAdded ==
  ASSUME NEW n \in Nat, NEW ids, NEW newIds, NEW f, NEW g, NEW k \in Ids, NEW v,
         Distinct(ids, n), \A t \in 0 .. n - 1 : ids[t] # k,
         Agree(ids, newIds, 0 .. n - 1), Agree(f, g, 0 .. n - 1),
         newIds[n] = k, g[n] = v
  PROVE  View(g, newIds, n + 1) = Put(View(f, ids, n), k, v)
<1>1. ASSUME NEW i \in Ids
      PROVE  At(g, newIds, n + 1, i) = IF i = k THEN v ELSE At(f, ids, n, i)
  <2>1. 0 .. (n + 1) - 1 = (0 .. n - 1) \cup {n}
    OBVIOUS
  <2>2. Distinct(newIds, n + 1)
    BY <2>1 DEF Distinct, Agree
  <2>3. CASE i = k
    <3>1. n + 1 \in Nat /\ Has(newIds, n + 1, n, k)
      BY DEF Has
    <3>2. At(g, newIds, n + 1, k) = g[n]
      BY <2>2, <3>1, AtTask
    <3>. QED
      BY <2>3, <3>2
  <2>4. CASE i # k /\ \E u \in 0 .. n - 1 : ids[u] = i
    <3>1. PICK u \in 0 .. n - 1 : ids[u] = i
      BY <2>4
    <3>2. n + 1 \in Nat /\ u \in 0 .. (n + 1) - 1
      BY <2>1
    <3>3. Has(newIds, n + 1, u, i) /\ Has(ids, n, u, i)
      BY <3>1, <3>2 DEF Has, Agree
    <3>4. At(g, newIds, n + 1, i) = g[u] /\ At(f, ids, n, i) = f[u]
      BY <2>2, <3>2, <3>3, AtTask
    <3>. QED
      BY <2>4, <3>1, <3>4 DEF Agree
  <2>5. CASE i # k /\ \A u \in 0 .. n - 1 : ids[u] # i
    <3>1. \A u \in 0 .. (n + 1) - 1 : newIds[u] # i
      BY <2>1, <2>5 DEF Agree
    <3>2. At(g, newIds, n + 1, i) = NotFound
      BY <3>1, AtNone
    <3>3. At(f, ids, n, i) = NotFound
      BY <2>5, AtNone
    <3>. QED
      BY <2>5, <3>2, <3>3
  <2>. QED
    BY <2>3, <2>4, <2>5
<1>. QED
  BY <1>1 DEF View, Put

--------------------------------------------------------------------------------
(* What the getters show of a registered task, and of which ids.           *)
LEMMA Shown ==
  ASSUME IInv, IdsAreKnown, NEW t \in Registered
  PROVE  /\ Status[id[t]] = state[t] /\ Needs[id[t]] = required[t]
         /\ Holding[id[t]] = held[t] /\ Remaining[id[t]] = remaining_time[t]
         /\ id[t] \in Ids /\ id[t] \in Life!Known
<1>1. /\ task_count \in Nat /\ t \in 0 .. task_count - 1 /\ Distinct(id, task_count)
      /\ id[t] \in Ids
  BY Basics DEF IdsAreKnown, Ids
<1>2. Has(id, task_count, t, id[t])
  BY <1>1 DEF Has
<1>3. \A f : At(f, id, task_count, id[t]) = f[t]
  BY <1>1, <1>2, AtTask
<1>4. /\ Status[id[t]] = state[t] /\ Needs[id[t]] = required[t]
      /\ Holding[id[t]] = held[t] /\ Remaining[id[t]] = remaining_time[t]
  BY <1>1, <1>3, Views DEF View
<1>5. state[t] # NotFound
  BY Basics, NotFoundAssumption
<1>. QED
  BY <1>1, <1>4, <1>5 DEF Life!Known

LEMMA KnownIsTask ==
  ASSUME IInv, NEW i \in Life!Known
  PROVE  \E t \in Registered : i = id[t]
<1>1. task_count \in Nat /\ Registered = 0 .. task_count - 1
  BY Basics
<1>2. i \in Ids /\ Status[i] # NotFound
  BY DEF Life!Known
<1>3. Status[i] = At(state, id, task_count, i)
  BY <1>2, Views DEF View
<1>. QED
  BY <1>1, <1>2, <1>3, AtNone

(* A step that changes the entries of one task changes what is shown of    *)
(* its id.                                                                 *)
LEMMA OneShown ==
  ASSUME IInv, IdsAreKnown, NEW t \in Registered, UNCHANGED <<id, task_count>>,
         \A u \in Registered \ {t} : /\ state'[u] = state[u] /\ required'[u] = required[u]
                                     /\ held'[u] = held[u]
                                     /\ remaining_time'[u] = remaining_time[u]
  PROVE  /\ Status' = [Status EXCEPT ![id[t]] = state'[t]]
         /\ Needs' = [Needs EXCEPT ![id[t]] = required'[t]]
         /\ Holding' = [Holding EXCEPT ![id[t]] = held'[t]]
         /\ Remaining' = [Remaining EXCEPT ![id[t]] = remaining_time'[t]]
<1>1. /\ task_count \in Nat /\ Registered = 0 .. task_count - 1 /\ t \in 0 .. task_count - 1
      /\ Distinct(id, task_count) /\ id[t] \in Ids
  BY Basics DEF IdsAreKnown, Ids
<1>2. /\ Agree(state, state', (0 .. task_count - 1) \ {t})
      /\ Agree(required, required', (0 .. task_count - 1) \ {t})
      /\ Agree(held, held', (0 .. task_count - 1) \ {t})
      /\ Agree(remaining_time, remaining_time', (0 .. task_count - 1) \ {t})
  BY <1>1 DEF Agree
<1>3. /\ View(state', id, task_count) = Put(View(state, id, task_count), id[t], state'[t])
      /\ View(required', id, task_count)
           = Put(View(required, id, task_count), id[t], required'[t])
      /\ View(held', id, task_count) = Put(View(held, id, task_count), id[t], held'[t])
      /\ View(remaining_time', id, task_count)
           = Put(View(remaining_time, id, task_count), id[t], remaining_time'[t])
  BY <1>1, <1>2, ViewChanged
<1>. QED
  BY <1>3, Views, ViewsAfter DEF Put

(* An entry that stays the same is shown the same. *)
LEMMA SameShown ==
  ASSUME UNCHANGED <<id, task_count>>
  PROVE  /\ state' = state => Status' = Status
         /\ required' = required => Needs' = Needs
         /\ held' = held => Holding' = Holding
         /\ remaining_time' = remaining_time => Remaining' = Remaining
BY Views, ViewsAfter

LEMMA NothingShown ==
  ASSUME UNCHANGED <<id, task_count, state, required, held, remaining_time>>,
         Runs' = Runs
  PROVE  UNCHANGED Life!vars
BY SameShown DEF Life!vars, getTaskCount

--------------------------------------------------------------------------------
(* The steps *)
LEMMA SubmitIsSubmit ==
  ASSUME TimesInv, NEW j \in Jobs, Submit(j)
  PROVE  Life!Submit(j.id)
<1>1. /\ task_count \in Nat /\ Registered = 0 .. task_count - 1 /\ Registered \subseteq Idx
      /\ Distinct(id, task_count)
      /\ id \in [Idx -> Int] /\ remaining_time \in [Idx -> Int] /\ state \in [Idx -> TaskStates]
      /\ required \in [Idx -> SUBSET Resources] /\ held \in [Idx -> SUBSET Resources]
  BY Basics DEF TimesInv
<1>2. /\ task_count \in Idx /\ task_count < MAX_TASKS /\ task_count' = task_count + 1
      /\ j.id >= 0 /\ j.id \in Ids /\ j.required \in SUBSET Resources
      /\ \A t \in 0 .. task_count - 1 : id[t] # j.id
      /\ id' = [id EXCEPT ![task_count] = j.id]
      /\ state' = [state EXCEPT ![task_count] = IF j.required = {} THEN "READY" ELSE "NEW"]
      /\ remaining_time' = [remaining_time EXCEPT ![task_count] = j.time]
      /\ required' = [required EXCEPT ![task_count] = j.required]
      /\ held' = [held EXCEPT ![task_count] = {}]
  BY <1>1, Numbers, JobsAssumption DEF Submit, Acceptable, Idx, Ids
<1>3. \A t \in 0 .. task_count - 1 :
        /\ id'[t] = id[t] /\ state'[t] = state[t] /\ required'[t] = required[t]
        /\ held'[t] = held[t] /\ remaining_time'[t] = remaining_time[t]
  BY <1>1, <1>2
<1>4. /\ id'[task_count] = j.id /\ held'[task_count] = {}
      /\ state'[task_count] = IF j.required = {} THEN "READY" ELSE "NEW"
      /\ required'[task_count] = j.required /\ remaining_time'[task_count] = j.time
  BY <1>1, <1>2
<1>5. /\ Status' = Put(Status, j.id, IF j.required = {} THEN "READY" ELSE "NEW")
      /\ Needs' = Put(Needs, j.id, j.required)
      /\ Holding' = Put(Holding, j.id, {})
      /\ Remaining' = Put(Remaining, j.id, j.time)
  <2>1. /\ task_count \in Nat /\ Distinct(id, task_count) /\ j.id \in Ids
        /\ \A t \in 0 .. task_count - 1 : id[t] # j.id
        /\ id'[task_count] = j.id
    BY <1>1, <1>2, <1>4
  <2>2. /\ Agree(id, id', 0 .. task_count - 1) /\ Agree(state, state', 0 .. task_count - 1)
        /\ Agree(required, required', 0 .. task_count - 1)
        /\ Agree(held, held', 0 .. task_count - 1)
        /\ Agree(remaining_time, remaining_time', 0 .. task_count - 1)
    BY <1>3 DEF Agree
  <2>3. /\ View(state', id', task_count + 1) = Put(View(state, id, task_count), j.id, state'[task_count])
        /\ View(required', id', task_count + 1)
             = Put(View(required, id, task_count), j.id, required'[task_count])
        /\ View(held', id', task_count + 1)
             = Put(View(held, id, task_count), j.id, held'[task_count])
        /\ View(remaining_time', id', task_count + 1)
             = Put(View(remaining_time, id, task_count), j.id, remaining_time'[task_count])
    BY <2>1, <2>2, ViewAdded
  <2>. QED
    BY <1>2, <1>4, <2>3, Views, ViewsAfter
<1>6. j.id \notin Life!Known
  BY <1>1, <1>2, KnownIsTask DEF TimesInv
<1>7. Runs' = Runs
  <2>1. /\ UNCHANGED <<wpc, current>>
        /\ \A p \in Pairs : wpc[p] = "running" => current[p] \in Registered
    BY DEF Submit, locals, TimesInv, IInv, DataInv, RunningIsRegistered
  <2>. QED
    BY <1>1, <1>3, <2>1 DEF Runs
<1>8. j.time \in {job.time : job \in Jobs}
  OBVIOUS
<1>. QED
  BY <1>2, <1>5, <1>6, <1>7, <1>8 DEF Life!Submit, getTaskCount, Put

LEMMA AllocateIsExamine ==
  ASSUME TimesInv, NEW p \in Pairs, AllocateNext(p)
  PROVE  \E t \in Registered : Life!Examine(id[t])
<1>. DEFINE t == Head(blocked_queue)
            got == held[t] \cup Granted(t)
            after == IF required[t] \subseteq held[t] \/ got = required[t]
                     THEN "READY" ELSE "BLOCKED"
<1>1. /\ task_count \in Nat /\ Registered = 0 .. task_count - 1 /\ Registered \subseteq Idx
      /\ state \in [Idx -> TaskStates]
      /\ required \in [Idx -> SUBSET Resources] /\ held \in [Idx -> SUBSET Resources]
  BY Basics DEF TimesInv
<1>2. /\ t \in Registered
      /\ \A u \in Registered : held[u] \subseteq globally_held
      /\ state[t] \in {"NEW", "BLOCKED"}
  <2>1. spc[p] = "pass" /\ blocked_left > 0
    BY DEF AllocateNext
  <2>2. mutex # Free
    BY <2>1, PairsAssumption DEF TimesInv, IInv, DataInv, PassOwnsMutex
  <2>3. blocked_queue \in Seq(Registered) /\ blocked_queue # <<>> /\ t \in Registered
    BY <2>1, IInvIsSafe, PassHasTask DEF TimesInv, IInv, DataInv
  <2>4. t \in Range(blocked_queue)
    BY <2>3, TailProperties
  <2>. QED
    BY <2>2, <2>3, <2>4 DEF TimesInv, IInv, DataInv, PassOwnsMutex, QueuedWhereStateSays
<1>3. /\ held' = [held EXCEPT ![t] = got]
      /\ state' = [state EXCEPT ![t] = after]
      /\ UNCHANGED <<id, task_count, required, remaining_time, wpc, current>>
  BY <1>2 DEF AllocateNext, Allocate, Terminal, locals
<1>4. held[t] \subseteq required[t]
  BY <1>2 DEF TimesInv, IInv, DataInv, HoldsWhatStateSays
<1>5. \/ Granted(t) = {}
      \/ \E r \in required[t] \ held[t] : Granted(t) = {r} /\ r \notin globally_held
  <2>1. Granted(t) \subseteq Nat
    BY <1>1, <1>2, ResourcesAssumption DEF Granted
  <2>2. \A r, s \in Granted(t) : r <= s
    BY DEF Granted
  <2>3. \A r, s \in Granted(t) : r = s
    BY <2>1, <2>2
  <2>4. \A r \in Granted(t) : r \in required[t] \ held[t] /\ r \notin globally_held
    BY DEF Granted
  <2>. QED
    BY <2>3, <2>4
<1>6. after = IF got = required[t] THEN "READY" ELSE "BLOCKED"
  BY <1>4, <1>5
<1>. HIDE DEF t, got, after
<1>7. /\ Status' = [Status EXCEPT ![id[t]] = after]
      /\ Holding' = [Holding EXCEPT ![id[t]] = got]
      /\ UNCHANGED <<Needs, Remaining>>
  <2>1. state'[t] = after /\ held'[t] = got
    BY <1>1, <1>2, <1>3
  <2>2. \A u \in Registered \ {t} : /\ state'[u] = state[u] /\ required'[u] = required[u]
                                     /\ held'[u] = held[u]
                                     /\ remaining_time'[u] = remaining_time[u]
    BY <1>1, <1>2, <1>3
  <2>3. /\ Status' = [Status EXCEPT ![id[t]] = state'[t]]
        /\ Holding' = [Holding EXCEPT ![id[t]] = held'[t]]
    BY <1>2, <1>3, <2>2, OneShown DEF TimesInv
  <2>4. UNCHANGED <<Needs, Remaining>>
    BY <1>3, SameShown
  <2>. QED
    BY <2>1, <2>3, <2>4
<1>8. /\ Status[id[t]] = state[t] /\ Needs[id[t]] = required[t] /\ Holding[id[t]] = held[t]
      /\ id[t] \in Life!Known
  BY <1>2, Shown DEF TimesInv
<1>9. got \in {held[t]} \cup {held[t] \cup {r} : r \in Life!Grantable(id[t])}
  <2>1. CASE Granted(t) = {}
    BY <2>1 DEF got
  <2>2. CASE Granted(t) # {}
    <3>1. PICK r \in required[t] \ held[t] : Granted(t) = {r} /\ r \notin globally_held
      BY <1>5, <2>2
    <3>2. \A i \in Life!Known : r \notin Holding[i]
      <4>. SUFFICES ASSUME NEW i \in Life!Known
                    PROVE  r \notin Holding[i]
        OBVIOUS
      <4>1. PICK u \in Registered : i = id[u]
        BY KnownIsTask DEF TimesInv
      <4>2. Holding[i] = held[u]
        BY <4>1, Shown DEF TimesInv
      <4>. QED
        BY <1>2, <3>1, <4>2
    <3>3. r \in Life!Grantable(id[t])
      BY <1>8, <3>1, <3>2 DEF Life!Grantable
    <3>. QED
      BY <3>1, <3>3 DEF got
  <2>. QED
    BY <2>1, <2>2
<1>10. Runs' = Runs /\ getTaskCount' = getTaskCount
  BY <1>3 DEF Runs, getTaskCount
<1>11. Life!Examine(id[t])
  BY <1>2, <1>6, <1>7, <1>8, <1>9, <1>10 DEF Life!Examine
<1>. QED
  BY <1>2, <1>11

LEMMA ResolveIsAbort ==
  ASSUME TimesInv, NEW p \in Pairs, ResolveDeadlock(p)
  PROVE  \E v \in Registered : Life!Abort(id[v])
<1>0. PICK c \in WaitCycles : \E w \in Victims(c) : Abort(w)
  BY DEF ResolveDeadlock
<1>1. PICK v \in Victims(c) : Abort(v)
  BY <1>0
<1>2. /\ Range(c) \in SUBSET Registered /\ Stuck(Range(c))
      /\ v \in Range(c) /\ v \in Registered
  BY CyclesAreStuck DEF Victims, TimesInv, IInv, DataInv
<1>3. /\ task_count \in Nat /\ Registered = 0 .. task_count - 1 /\ Registered \subseteq Idx
      /\ state \in [Idx -> TaskStates] /\ remaining_time \in [Idx -> Int]
      /\ held \in [Idx -> SUBSET Resources]
  BY Basics DEF TimesInv
<1>4. /\ state' = [state EXCEPT ![v] = "DEADLOCK_ABORTED"]
      /\ held' = [held EXCEPT ![v] = {}]
      /\ remaining_time' = [remaining_time EXCEPT ![v] = 0]
      /\ UNCHANGED <<id, task_count, required, wpc, current>>
  BY <1>1 DEF ResolveDeadlock, Abort, locals
<1>5. /\ Status' = [Status EXCEPT ![id[v]] = "DEADLOCK_ABORTED"]
      /\ Holding' = [Holding EXCEPT ![id[v]] = {}]
      /\ Remaining' = [Remaining EXCEPT ![id[v]] = 0]
      /\ Needs' = Needs
  <2>1. state'[v] = "DEADLOCK_ABORTED" /\ held'[v] = {} /\ remaining_time'[v] = 0
    BY <1>2, <1>3, <1>4
  <2>2. \A u \in Registered \ {v} : /\ state'[u] = state[u] /\ required'[u] = required[u]
                                     /\ held'[u] = held[u]
                                     /\ remaining_time'[u] = remaining_time[u]
    BY <1>2, <1>3, <1>4
  <2>3. /\ Status' = [Status EXCEPT ![id[v]] = state'[v]]
        /\ Holding' = [Holding EXCEPT ![id[v]] = held'[v]]
        /\ Remaining' = [Remaining EXCEPT ![id[v]] = remaining_time'[v]]
    BY <1>2, <1>4, <2>2, OneShown DEF TimesInv
  <2>4. Needs' = Needs
    BY <1>4, SameShown
  <2>. QED
    BY <2>1, <2>3, <2>4
<1>. DEFINE S == {id[t] : t \in Range(c)}
<1>6. S \in SUBSET Life!Known /\ id[v] \in S /\ id[v] \in Ids
  BY <1>2, Shown DEF TimesInv
<1>7. Life!Deadlocked(S)
  <2>. SUFFICES ASSUME NEW t \in Range(c)
                PROVE  /\ Status[id[t]] = "BLOCKED"
                       /\ \E u \in S : (Needs[id[t]] \ Holding[id[t]]) \cap Holding[u] # {}
    BY DEF Life!Deadlocked
  <2>1. /\ t \in Registered /\ state[t] = "BLOCKED"
        /\ \E u \in Range(c) : (required[t] \ held[t]) \cap held[u] # {}
    BY <1>2 DEF Stuck
  <2>2. PICK u \in Range(c) : (required[t] \ held[t]) \cap held[u] # {}
    BY <2>1
  <2>3. /\ Status[id[t]] = state[t] /\ Needs[id[t]] = required[t] /\ Holding[id[t]] = held[t]
    BY <2>1, Shown DEF TimesInv
  <2>4. Holding[id[u]] = held[u]
    BY <1>2, Shown DEF TimesInv
  <2>5. id[u] \in S
    OBVIOUS
  <2>. QED
    BY <2>1, <2>2, <2>3, <2>4, <2>5
<1>8. Runs' = Runs /\ getTaskCount' = getTaskCount
  BY <1>4 DEF Runs, getTaskCount
<1>. HIDE DEF S
<1>9. Life!Abort(id[v])
  BY <1>5, <1>6, <1>7, <1>8 DEF Life!Abort
<1>. QED
  BY <1>2, <1>9

LEMMA PickupIsRun ==
  ASSUME TimesInv, NEW p \in Pairs, PickupRun(p)
  PROVE  \E t \in Registered : Life!Run(id[t], p)
<1>1. PICK t \in Registered :
        /\ Runnable(t)
        /\ IF remaining_time[t] <= 0
           THEN wpc' = [wpc EXCEPT ![p] = "post_both"]
           ELSE /\ state' = [state EXCEPT ![t] = "RUNNING"]
                /\ current' = [current EXCEPT ![p] = t]
                /\ wpc' = [wpc EXCEPT ![p] = "running"]
                /\ UNCHANGED held
  BY DEF PickupRun
<1>2. /\ task_count \in Nat /\ Registered = 0 .. task_count - 1 /\ Registered \subseteq Idx
      /\ state \in [Idx -> TaskStates] /\ remaining_time \in [Idx -> Int]
      /\ wpc \in [Pairs -> WorkerSteps] /\ current \in [Pairs -> Idx]
  BY Basics DEF TimesInv
<1>3. /\ wpc[p] = "pickup" /\ state[t] = "READY" /\ remaining_time[t] > 0
      /\ UNCHANGED <<id, task_count, required, remaining_time>>
  <2>1. wpc[p] = "pickup" /\ UNCHANGED <<id, task_count, required, remaining_time>>
    BY DEF PickupRun
  <2>2. state[t] = "READY"
    BY <1>1 DEF Runnable
  <2>. QED
    BY <2>1, <2>2 DEF TimesInv, TimeIsLeft, Terminal
<1>4. /\ state' = [state EXCEPT ![t] = "RUNNING"]
      /\ current' = [current EXCEPT ![p] = t]
      /\ wpc' = [wpc EXCEPT ![p] = "running"]
      /\ UNCHANGED held
  BY <1>1, <1>2, <1>3
<1>5. /\ Status' = [Status EXCEPT ![id[t]] = "RUNNING"]
      /\ UNCHANGED <<Needs, Holding, Remaining>>
  <2>1. state'[t] = "RUNNING"
    BY <1>2, <1>4
  <2>2. \A u \in Registered \ {t} : /\ state'[u] = state[u] /\ required'[u] = required[u]
                                     /\ held'[u] = held[u]
                                     /\ remaining_time'[u] = remaining_time[u]
    BY <1>2, <1>3, <1>4
  <2>3. Status' = [Status EXCEPT ![id[t]] = state'[t]]
    BY <1>3, <2>2, OneShown DEF TimesInv
  <2>4. UNCHANGED <<Needs, Holding, Remaining>>
    BY <1>3, <1>4, SameShown
  <2>. QED
    BY <2>1, <2>3, <2>4
<1>6. Status[id[t]] = "READY" /\ id[t] \in Life!Known
  BY <1>3, Shown DEF TimesInv
<1>7. Runs[p] = NoTask /\ Runs' = [Runs EXCEPT ![p] = id[t]]
  BY <1>2, <1>3, <1>4 DEF Runs
<1>. QED
  BY <1>3, <1>5, <1>6, <1>7 DEF Life!Run, Life!Nobody, NoTask, getTaskCount

LEMMA FinishIsEndQuantum ==
  ASSUME TimesInv, NEW p \in Pairs, FinishQuantum(p)
  PROVE  \E t \in Registered : Life!EndQuantum(id[t], p)
<1>. DEFINE t == current[p]
            left == remaining_time[t] - exec_time[p]
<1>1. /\ task_count \in Nat /\ Registered = 0 .. task_count - 1 /\ Registered \subseteq Idx
      /\ state \in [Idx -> TaskStates] /\ remaining_time \in [Idx -> Int]
      /\ held \in [Idx -> SUBSET Resources]
      /\ wpc \in [Pairs -> WorkerSteps] /\ current \in [Pairs -> Idx]
      /\ QUANTUM \in Int /\ QUANTUM > 0
  BY Basics DEF TimesInv
<1>2. /\ wpc[p] = "running"
      /\ remaining_time' = [remaining_time EXCEPT ![t] = left]
      /\ IF left <= 0
         THEN state' = [state EXCEPT ![t] = "FINISHED"] /\ held' = [held EXCEPT ![t] = {}]
         ELSE state' = [state EXCEPT ![t] = "READY"] /\ held' = held
      /\ current' = [current EXCEPT ![p] = 0]
      /\ wpc' = [wpc EXCEPT ![p] = "post"]
      /\ UNCHANGED <<id, task_count, required>>
  BY DEF FinishQuantum, Finish
<1>3. t \in Registered /\ state[t] = "RUNNING" /\ exec_time[p] = Slice(remaining_time[t])
  BY <1>2 DEF TimesInv, IInv, DataInv, RunningIsRegistered, RunsOnOneWorker, SliceIsMin
<1>4. Runs[p] = id[t] /\ Runs' = [Runs EXCEPT ![p] = NoTask]
  BY <1>1, <1>2 DEF Runs
<1>. HIDE DEF t
<1>5. /\ Status' = [Status EXCEPT ![id[t]] = state'[t]]
      /\ Holding' = [Holding EXCEPT ![id[t]] = held'[t]]
      /\ Remaining' = [Remaining EXCEPT ![id[t]] = remaining_time'[t]]
      /\ Needs' = Needs
  <2>1. \A u \in Registered \ {t} : /\ state'[u] = state[u] /\ required'[u] = required[u]
                                     /\ held'[u] = held[u]
                                     /\ remaining_time'[u] = remaining_time[u]
    BY <1>1, <1>2, <1>3
  <2>2. /\ Status' = [Status EXCEPT ![id[t]] = state'[t]]
        /\ Holding' = [Holding EXCEPT ![id[t]] = held'[t]]
        /\ Remaining' = [Remaining EXCEPT ![id[t]] = remaining_time'[t]]
    BY <1>2, <1>3, <2>1, OneShown DEF TimesInv
  <2>3. Needs' = Needs
    BY <1>2, SameShown
  <2>. QED
    BY <2>2, <2>3
<1>6. /\ Status[id[t]] = state[t] /\ Remaining[id[t]] = remaining_time[t]
      /\ id[t] \in Life!Known
  BY <1>3, Shown DEF TimesInv
<1>7. CASE remaining_time[t] <= QUANTUM
  <2>1. left = 0
    BY <1>1, <1>3, <1>7 DEF Slice
  <2>2. state'[t] = "FINISHED" /\ held'[t] = {} /\ remaining_time'[t] = 0
    BY <1>1, <1>2, <1>3, <2>1
  <2>3. /\ Status' = [Status EXCEPT ![id[t]] = "FINISHED"]
        /\ Holding' = [Holding EXCEPT ![id[t]] = {}]
        /\ Remaining' = [Remaining EXCEPT ![id[t]] = 0]
    BY <1>5, <2>2
  <2>4. Remaining[id[t]] <= QUANTUM
    BY <1>6, <1>7
  <2>5. Life!EndQuantum(id[t], p)
    BY <1>2, <1>3, <1>4, <1>5, <1>6, <2>3, <2>4
       DEF Life!EndQuantum, Life!Nobody, NoTask, getTaskCount
  <2>. QED
    BY <1>3, <2>5
<1>8. CASE ~ remaining_time[t] <= QUANTUM
  <2>1. left = remaining_time[t] - QUANTUM /\ left > 0
    BY <1>1, <1>3, <1>8 DEF Slice
  <2>2. state'[t] = "READY" /\ held' = held /\ remaining_time'[t] = Remaining[id[t]] - QUANTUM
    BY <1>1, <1>2, <1>3, <1>6, <2>1
  <2>3. /\ Status' = [Status EXCEPT ![id[t]] = "READY"]
        /\ Holding' = Holding
        /\ Remaining' = [Remaining EXCEPT ![id[t]] = Remaining[id[t]] - QUANTUM]
    BY <1>2, <1>5, <2>2, SameShown
  <2>4. ~ Remaining[id[t]] <= QUANTUM
    BY <1>6, <1>8
  <2>5. Life!EndQuantum(id[t], p)
    BY <1>2, <1>3, <1>4, <1>5, <1>6, <2>3, <2>4
       DEF Life!EndQuantum, Life!Nobody, NoTask, getTaskCount
  <2>. QED
    BY <1>3, <2>5
<1>. QED
  BY <1>7, <1>8

(* Every other step changes nothing that the getters show. *)
LEMMA OthersShowNothing ==
  ASSUME TimesInv,
         \/ Quiet
         \/ \E i \in Int, priority \in ChangedPriorities : ChangePriority(i, priority)
         \/ \E p \in Pairs : \/ BeginPass(p) \/ SelectTask(p) \/ NothingToRun(p)
                             \/ PickupReject(p) \/ PickupUnknown(p)
  PROVE  UNCHANGED Life!vars
<1>1. HeldByLive = held
  BY IInvIsSafe, HeldByLiveIsHeld DEF TimesInv
<1>2. wpc \in [Pairs -> WorkerSteps]
  BY Basics DEF TimesInv
<1>3. UNCHANGED <<id, task_count, state, required, held, remaining_time, current>>
  <2>1. CASE Quiet
    BY <2>1 DEF Quiet, tasks, locals
  <2>2. ASSUME NEW i, NEW priority, ChangePriority(i, priority)
        PROVE  UNCHANGED <<id, task_count, state, required, held, remaining_time, current>>
    BY <2>2 DEF ChangePriority, locals
  <2>3. ASSUME NEW p, \/ BeginPass(p) \/ SelectTask(p) \/ NothingToRun(p)
                      \/ PickupReject(p) \/ PickupUnknown(p)
        PROVE  UNCHANGED <<id, task_count, state, required, held, remaining_time, current>>
    BY <1>1, <2>3 DEF BeginPass, SelectTask, HandOver, NothingToRun, GoIdle, PickupReject,
                      PickupUnknown, tasks, locals
  <2>. QED
    BY <2>1, <2>2, <2>3
<1>4. \A p \in Pairs : wpc'[p] = "running" <=> wpc[p] = "running"
  <2>1. CASE Quiet
    BY <2>1 DEF Quiet
  <2>2. ASSUME NEW i, NEW priority, ChangePriority(i, priority)
        PROVE  wpc' = wpc
    BY <2>2 DEF ChangePriority
  <2>3. ASSUME NEW p, BeginPass(p) \/ SelectTask(p) \/ NothingToRun(p)
        PROVE  wpc' = wpc
    BY <2>3 DEF BeginPass, SelectTask, HandOver, NothingToRun, GoIdle
  <2>4. ASSUME NEW p \in Pairs, PickupReject(p) \/ PickupUnknown(p)
        PROVE  \A q \in Pairs : wpc'[q] = "running" <=> wpc[q] = "running"
    BY <1>2, <2>4 DEF PickupReject, PickupUnknown
  <2>. QED
    BY <2>1, <2>2, <2>3, <2>4
<1>5. Runs' = Runs
  BY <1>3, <1>4 DEF Runs
<1>. QED
  BY <1>3, <1>5, NothingShown

LEMMA InitIsInit == Init => Life!Init
<1>. SUFFICES ASSUME Init PROVE Life!Init
  OBVIOUS
<1>1. task_count = 0 /\ \A p \in Pairs : wpc[p] = "unborn"
  BY DEF Init
<1>2. \A f, i : At(f, id, task_count, i) = NotFound
  BY <1>1 DEF At
<1>3. /\ Status = [i \in Ids |-> NotFound] /\ Needs = [i \in Ids |-> NotFound]
      /\ Holding = [i \in Ids |-> NotFound] /\ Remaining = [i \in Ids |-> NotFound]
  BY <1>2, Views DEF View
<1>4. Runs = [p \in Pairs |-> NoTask]
  BY <1>1 DEF Runs
<1>. QED
  BY <1>1, <1>3, <1>4 DEF Life!Init, Life!Nobody, NoTask, getTaskCount

LEMMA StepIsStep == TimesInv /\ [Next]_vars => [Life!Next]_(Life!vars)
<1>. SUFFICES ASSUME TimesInv, [Next]_vars PROVE Life!Next \/ UNCHANGED Life!vars
  OBVIOUS
<1>1. Quiet \/ DataStep
  BY StepIsQuietOrData DEF TimesInv, IInv, DataInv
<1>2. \A t \in Registered : id[t] \in Ids
  BY DEF TimesInv, IdsAreKnown, Ids
<1>3. ASSUME NEW j \in Jobs, Submit(j)
      PROVE  Life!Next
  <2>1. Life!Submit(j.id)
    BY <1>3, SubmitIsSubmit
  <2>2. j.id \in Ids
    BY DEF Ids
  <2>. QED
    BY <2>1, <2>2 DEF Life!Next
<1>4. ASSUME NEW p \in Pairs, AllocateNext(p) \/ ResolveDeadlock(p)
      PROVE  Life!Next
  BY <1>2, <1>4, AllocateIsExamine, ResolveIsAbort DEF Life!Next
<1>5. ASSUME NEW p \in Pairs, PickupRun(p) \/ FinishQuantum(p)
      PROVE  Life!Next
  BY <1>2, <1>5, PickupIsRun, FinishIsEndQuantum DEF Life!Next
<1>6. \/ Quiet
      \/ \E j \in Jobs : Submit(j)
      \/ \E p \in Pairs : AllocateNext(p) \/ ResolveDeadlock(p)
      \/ \E p \in Pairs : PickupRun(p) \/ FinishQuantum(p)
      \/ \E i \in Int, priority \in ChangedPriorities : ChangePriority(i, priority)
      \/ \E p \in Pairs : \/ BeginPass(p) \/ SelectTask(p) \/ NothingToRun(p)
                          \/ PickupReject(p) \/ PickupUnknown(p)
  BY <1>1 DEF DataStep
<1>. QED
  BY <1>3, <1>4, <1>5, <1>6, OthersShowNothing

(* As the getters show it, the scheduler takes each task through its life: *)
(* the legal steps only, one task at a time, no step for an ended one, and *)
(* only a deadlock aborts.                                                 *)
THEOREM ImplementsLifecycle == Spec => IsLifecycle
<1>1. Spec => []TimesInv
  BY TimesInvariance
<1>2. Init => Life!Init
  BY InitIsInit
<1>3. TimesInv /\ [Next]_vars => [Life!Next]_(Life!vars)
  BY StepIsStep
<1>. QED
  BY <1>1, <1>2, <1>3, PTL DEF Spec, IsLifecycle, Life!Spec

--------------------------------------------------------------------------------
(* The sizes of the queues *)

(* A sequence without repeats has as many elements as places. *)
LEMMA CountedByRange ==
  ASSUME NEW S, NEW q \in Seq(S), NoRepeats(q)
  PROVE  IsFiniteSet(Range(q)) /\ Cardinality(Range(q)) = Len(q)
<1>1. Len(q) \in Nat /\ DOMAIN q = 1 .. Len(q) /\ q \in [1 .. Len(q) -> S]
  BY LenProperties
<1>2. Range(q) = {q[k] : k \in 1 .. Len(q)}
  BY <1>1 DEF Range
<1>3. q \in Bijection(1 .. Len(q), Range(q))
  <2>1. q \in [1 .. Len(q) -> Range(q)]
    BY <1>1, <1>2
  <2>2. \A a, b \in 1 .. Len(q) : q[a] = q[b] => a = b
    BY <1>1 DEF NoRepeats
  <2>3. \A x \in Range(q) : \E k \in 1 .. Len(q) : q[k] = x
    BY <1>2
  <2>. QED
    BY <2>1, <2>2, <2>3, Fun_IsBij
<1>4. IsFiniteSet(1 .. Len(q)) /\ Cardinality(1 .. Len(q)) = Len(q)
  BY <1>1, FS_Interval
<1>. QED
  BY <1>3, <1>4, FS_Bijection DEF ExistsBijection

(* The tasks, and not their ids, that are in a state of S. *)
Tasks(S) == {t \in Registered : state[t] \in S}

(* There are as many ids in a state as tasks. *)
LEMMA CountedById ==
  ASSUME IInv, IdsAreKnown, NEW S \in SUBSET TaskStates
  PROVE  /\ InState(S) = {id[t] : t \in Tasks(S)}
         /\ IsFiniteSet(Tasks(S)) /\ Cardinality(InState(S)) = Cardinality(Tasks(S))
<1>1. /\ task_count \in Nat /\ Registered = 0 .. task_count - 1
      /\ \A t, u \in Registered : id[t] = id[u] => t = u
  BY Basics DEF IInv, AssignmentInv, UniqueIds
<1>2. \A t \in Registered : id[t] \in Ids /\ getTaskState(id[t]) = state[t]
  BY Shown DEF Status
<1>3. \A i \in InState(S) : \E t \in Tasks(S) : i = id[t]
  <2>. SUFFICES ASSUME NEW i \in InState(S) PROVE \E t \in Tasks(S) : i = id[t]
    OBVIOUS
  <2>1. i \in Ids /\ getTaskState(i) \in S
    BY DEF InState
  <2>2. i \in Life!Known
    BY <2>1, NotFoundAssumption DEF Life!Known, Status
  <2>3. PICK t \in Registered : i = id[t]
    BY <2>2, KnownIsTask
  <2>. QED
    BY <1>2, <2>1, <2>3 DEF Tasks
<1>4. \A t \in Tasks(S) : t \in Registered /\ id[t] \in InState(S)
  BY <1>2 DEF Tasks, InState
<1>5. InState(S) = {id[t] : t \in Tasks(S)}
  BY <1>3, <1>4
<1>. DEFINE f == [t \in Tasks(S) |-> id[t]]
<1>6. f \in Bijection(Tasks(S), InState(S))
  <2>1. f \in [Tasks(S) -> InState(S)]
    BY <1>4
  <2>2. \A t, u \in Tasks(S) : f[t] = f[u] => t = u
    BY <1>1, <1>4
  <2>3. \A i \in InState(S) : \E t \in Tasks(S) : f[t] = i
    BY <1>3
  <2>. HIDE DEF f
  <2>. QED
    BY <2>1, <2>2, <2>3, Fun_IsBij
<1>7. IsFiniteSet(Tasks(S))
  <2>1. IsFiniteSet(Registered)
    BY <1>1, FS_Interval
  <2>2. Tasks(S) \in SUBSET Registered
    BY DEF Tasks
  <2>. QED
    BY <2>1, <2>2, FS_Subset
<1>8. ExistsBijection(Tasks(S), InState(S))
  BY <1>6 DEF ExistsBijection
<1>. QED
  BY <1>5, <1>7, <1>8, FS_Bijection

(* With the one pair of a single start(), the sizes of the queues that the *)
(* getters return fit the states that they return: what a client counts    *)
(* in one agrees with what it counts in the other.                         *)
THEOREM SizesTell ==
  ASSUME NEW one, Pairs = {one}
  PROVE  Spec => []SizesFitStates
<1>1. ASSUME PairInv PROVE SizesFitStates
  <2>1. /\ IInv /\ IdsAreKnown /\ QueuedWhereStateSays /\ UniqueIds /\ NoTaskLost
    BY <1>1 DEF PairInv, TimesInv, IInv, DataInv, AssignmentInv, HandInv, ServedIsNamed, NoTaskLost
  <2>2. /\ task_count \in Nat /\ Registered = 0 .. task_count - 1
        /\ ready_queue \in Seq(Registered) /\ blocked_queue \in Seq(Registered)
        /\ \A t \in Registered : state[t] \in TaskStates
    BY <2>1, Basics DEF IInv, DataInv, TypeOK, QueuesTypeOK
  <2>3. Range(ready_queue) \subseteq Registered /\ Range(blocked_queue) \subseteq Registered
    BY <2>2, RangeIsImage
  <2>4. getTaskCount = Cardinality(InState(TaskStates))
    <3>1. Tasks(TaskStates) = Registered
      BY <2>2 DEF Tasks
    <3>2. Cardinality(Registered) = task_count
      <4>1. Cardinality(0 .. task_count - 1)
              = IF 0 > task_count - 1 THEN 0 ELSE (task_count - 1) - 0 + 1
        BY <2>2, FS_Interval
      <4>. QED
        BY <2>2, <4>1
    <3>. QED
      BY <2>1, <3>1, <3>2, CountedById DEF getTaskCount
  <2>5. getBlockedQueueSize = Cardinality(InState({"NEW", "BLOCKED"}))
    <3>1. Tasks({"NEW", "BLOCKED"}) = Range(blocked_queue)
      BY <2>1, <2>3 DEF Tasks, QueuedWhereStateSays
    <3>2. Cardinality(Range(blocked_queue)) = Len(blocked_queue)
      BY <2>1, <2>2, CountedByRange DEF QueuedWhereStateSays
    <3>3. {"NEW", "BLOCKED"} \in SUBSET TaskStates
      BY DEF TaskStates
    <3>. QED
      BY <2>1, <3>1, <3>2, <3>3, CountedById DEF getBlockedQueueSize
  <2>. DEFINE served == InState({"RUNNING", "READY"})
              extra == Cardinality(served) - getReadyQueueSize
              mine == Tasks({"RUNNING", "READY"})
              queued == Range(ready_queue)
  <2>6. /\ served = {id[t] : t \in mine} /\ IsFiniteSet(mine)
        /\ Cardinality(served) = Cardinality(mine)
    <3>1. {"RUNNING", "READY"} \in SUBSET TaskStates
      BY DEF TaskStates
    <3>. QED
      BY <2>1, <3>1, CountedById
  <2>7. IsFiniteSet(queued) /\ Cardinality(queued) = getReadyQueueSize /\ getReadyQueueSize \in Nat
    BY <2>1, <2>2, CountedByRange, LenProperties DEF QueuedWhereStateSays, getReadyQueueSize
  <2>8. queued \subseteq mine /\ \A t \in mine \ queued : id[t] = running_task_id
    BY <2>1, <2>3 DEF Tasks, QueuedWhereStateSays, NoTaskLost, InService
  <2>9. \A t \in mine : t \in Registered
    BY DEF Tasks
  <2>10. extra = 0 \/ (extra = 1 /\ getRunningTaskId \in served)
    <3>. HIDE DEF served, mine, queued
    <3>1. CASE mine = queued
      BY <2>6, <2>7, <3>1
    <3>2. CASE mine # queued
      <4>1. PICK t \in mine : t \notin queued
        BY <2>8, <3>2
      <4>2. mine = queued \cup {t}
        BY <2>1, <2>8, <2>9, <4>1 DEF UniqueIds
      <4>3. Cardinality(mine) = getReadyQueueSize + 1
        BY <2>7, <4>1, <4>2, FS_AddElement
      <4>4. running_task_id = id[t] /\ id[t] \in served
        BY <2>6, <2>8, <4>1
      <4>. QED
        BY <2>6, <2>7, <4>3, <4>4 DEF getRunningTaskId
    <3>. QED
      BY <3>1, <3>2
  <2>11. InState({"RUNNING"}) \subseteq {getRunningTaskId}
    <3>1. {"RUNNING"} \in SUBSET TaskStates
      BY DEF TaskStates
    <3>2. InState({"RUNNING"}) = {id[t] : t \in Tasks({"RUNNING"})}
      BY <2>1, <3>1, CountedById
    <3>. QED
      BY <2>1, <3>2 DEF Tasks, NoTaskLost, InService, getRunningTaskId
  <2>. HIDE DEF served, extra
  <2>. QED
    BY <2>4, <2>5, <2>10, <2>11 DEF SizesFitStates, served, extra
<1>. QED
  BY <1>1, PairInvariance, PTL

(* As long as no priority is at the largest int, the getters show aging of *)
(* READY tasks only, and no ticks that outlive an increase.                *)
THEOREM AgingShown == Spec /\ []NoneAtLimit => []AgingOfReadyOnly
<1>1. ASSUME TimesInv, AgingInv PROVE AgingOfReadyOnly
  <2>1. /\ IInv /\ IdsAreKnown /\ QueuedWhereStateSays
        /\ task_count \in Nat /\ Registered = 0 .. task_count - 1 /\ Distinct(id, task_count)
    BY <1>1, Basics DEF TimesInv, IInv, DataInv
  <2>. SUFFICES ASSUME NEW i \in InState(TaskStates)
                PROVE  /\ getEffectivePriority(i) >= getBasePriority(i)
                       /\ getWaitTicks(i) < AGING_TICKS
                       /\ getEffectivePriority(i) # getBasePriority(i) \/ getWaitTicks(i) # 0
                            => getTaskState(i) = "READY"
    BY DEF AgingOfReadyOnly
  <2>2. PICK t \in Tasks(TaskStates) : i = id[t]
    BY <2>1, CountedById
  <2>3. t \in Registered /\ Has(id, task_count, t, i)
    BY <2>1, <2>2 DEF Tasks, Has
  <2>4. \A f : Get(f, i) = f[t]
    <3>1. \A f : At(f, id, task_count, i) = f[t]
      BY <2>1, <2>3, AtTask
    <3>2. \A f : Get(f, i) = At(f, id, task_count, i)
      BY DEF Get, Found, At, Registered
    <3>. QED
      BY <3>1, <3>2
  <2>5. /\ getEffectivePriority(i) = effective_priority[t] /\ getBasePriority(i) = base_priority[t]
        /\ getWaitTicks(i) = wait_ticks[t] /\ getTaskState(i) = state[t]
    BY <2>4 DEF getEffectivePriority, getBasePriority, getWaitTicks, getTaskState
  <2>6. /\ effective_priority[t] >= base_priority[t] /\ wait_ticks[t] < AGING_TICKS
        /\ \/ t \in Range(ready_queue)
           \/ effective_priority[t] = base_priority[t] /\ wait_ticks[t] = 0
    BY <1>1, <2>3 DEF AgingInv
  <2>7. t \in Range(ready_queue) => state[t] = "READY"
    BY <2>1 DEF QueuedWhereStateSays
  <2>. QED
    BY <2>5, <2>6, <2>7
<1>. QED
  BY <1>1, TimesInvariance, AgingOfQueued, PTL
===============================================================================
