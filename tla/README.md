# A verification of acos_scheduler

TLA+ modules for the task scheduler of this repository: a Java library whose
native part keeps up to 256 tasks in POSIX shared memory and serves them with
one scheduler process and one worker process, forked by `start()`. The modules
are checked by TLC on small instances; the safety properties are proved by
TLAPS for every value of the constants.

All paths below are relative to `src/`, the repository.

## The system

| Part | Source | State | Operations |
|---|---|---|---|
| JNI calls | `native/src/jni_bridge.c` | `scheduler_pid`, `worker_pid`, `current_shm`, `current_shm_name` (globals of the JVM) | `initialize`, `start`, `stop`, `submitTask`, `changePriority`, ten getters |
| Shared segment | `native/src/scheduler_shm.c`, `include/scheduler_shm.h` | the table `tasks[256]`, `task_count`, two queues, `running_task_id`, mutex, three semaphores, `shutdown_flag`; `shm_fd` | create, open, initialise, close, destroy |
| Scheduler process | `native/src/scheduler_loop.c:40-296` | program counter; the locals of a pass | the loop: passes over the blocked queue, selection, waiting |
| Worker process | `native/src/scheduler_loop.c:302-501` | program counter; the task and the slice while it sleeps | the loop: pickup, quantum, requeue or finish |
| Task queues | `native/src/scheduler_core.c:12-216` | ring of task indices with `head`, `tail`, `size` | push, pop, remove, contains, sort by priority |
| Aging | `native/src/scheduler_core.c:222-292` | `wait_ticks`, `effective_priority` | `apply_aging` |
| Deadlock detector | `native/src/deadlock_detector.c` | during a call: stack, marks, edge pointers | find a cycle, choose and abort a victim, repeat |
| Synchronisation | `native/src/ipc_sync.c` | mutex, semaphores | make (with the undoing of a failure), destroy |
| Process management | `native/src/process_mgmt.c` | none | fork, waitpid, kill (never called) |
| Logger | `native/src/logger.c` | a log file | formatting and output |

### How the parts meet

Everything meets in the segment, under one process-shared mutex.

* `submitTask` and `changePriority` change the table and the queues under the
  mutex, and after the unlock post the *event* semaphore.
* The scheduler makes a *pass* with the mutex held from its beginning to its
  end. It clears what ended tasks hold, collects the resources that tasks hold
  into a local copy, gives each task of the blocked queue at most one resource
  it lacks, aborts victims until no deadlock is left, ages the ready queue, pops
  its head and writes its id to `running_task_id`. It then posts *worker* and
  waits for *scheduler*. A pass with nothing to run is followed by another one
  if it made progress; otherwise the scheduler waits for *event*.
* The worker waits for *worker*, looks the id up, marks the task RUNNING,
  sleeps for one slice **without the mutex**, then finishes the task or queues
  it again, and posts *scheduler*.
* `stop` sets the flag without the mutex, posts all three semaphores, waits for
  the two pids it knows and destroys the segment. A scheduler that leaves
  posts the three semaphores too.
* `initialize` removes the name, creates the segment anew, maps it and makes its
  primitives. The processes find the segment by its name, some time after the
  fork.

### What is hard here

* The selected task is in no queue between the scheduler's unlock and the
  worker's lock; only `running_task_id` remembers it.
* One turn passes back and forth through two counting semaphores that `stop`
  and the exits post as well.
* The grants of a pass rest on a copy of the held resources, updated by hand.
* One resource per task and pass *creates* deadlocks, of any length; the
  detector must find all of them and abort nobody else. Its search keeps its
  marks from one start to the next and restarts after each abort.
* The scheduler may sleep only when nothing can happen without a new event; a
  missed event or a forgotten progress flag leaves tasks waiting for ever.
* Removal and sorting empty a ring and fill it again through a push that
  refuses what it believes to have.
* `start` may be called twice, and forks a second pair on the same segment.
* `fork`, `shm_open`, `mmap` and the making of each primitive may fail; a
  process, or the JVM, may be killed.
* A process attaches by a name that may be gone or used again.
* The JNI calls read the global `current_shm` several times.

`PROJECT.json` lists each of these hazards at its line, with the properties
that would notice it going wrong, and those that no property covers.

### What makes each part correct

| Part | It is correct if |
|---|---|
| Scheduler | it selects a READY task of the highest effective priority (`HighestFirst`); it leaves no deadlock behind (`DeadlockFreeBetweenPasses`); it sleeps only when all tasks have ended (`SleepsOnlyWhenDone`) |
| Worker | it finds the task it was given (`WorkerFindsItsTask`) and is the only one that runs it (`RunsOnOneWorker`) |
| Both | they take turns (`OneTurn`) and no task is lost between them (`NoTaskLost`) |
| Resources | held by one task at a time (`ResourceExclusive`), kept until the end (`KeepsResources`), and what a task holds fits its state (`HoldsWhatStateSays`) |
| Queues | a task is queued where its state says, once (`QueuedWhereStateSays`); no task that a worker may look up is queued (`AssignedIsNotQueued`); the ring implements a queue (`IsTaskQueue`, `RingIsAnArc`, `LoopsKeepQueue`, `RemovedIsGone`) |
| Aging | it raises priorities (`AgingOnlyRaises`), of READY tasks only, which lose it when they are served (`AgingOfReadyOnly`) |
| Detector | it aborts only deadlocked tasks (`OnlyDeadlockedAborted`); the search finds cycles only (`FoundIsCycle`), misses none (`NothingMissed`), ends (`SearchEnds`) and does what the scheduler expects (`SearchImplementsScheduler`) |
| start, stop | `stop` waits only for processes it has told to end (`AwaitedAreTold`), returns (`StopReturns`) and destroys nothing in use (`ClosedAfterAll`, `SyncKeptWhileUsed`) |
| Segment | a pair works in the segment it was started for, alone (`OwnSegment`); calls use a mapped segment (`CallsUseMapped`); nothing is left over (`NothingLeft`) |
| Getters | they show each task living a legal life (`IsLifecycle`), and sizes that fit the states (`SizesFitStates`) |
| A killed process | leaves either consistent tasks or a locked mutex behind (`UnlockedIsSound`), no process stuck (`NobodyStuck`), and `stop` returns |
| The whole | every submitted task ends (`EveryTaskEnds`) |

## The modules

| Module | Contents |
|---|---|
| `Queues` | the operations of a task queue as functions on sequences |
| `TaskQueue` | abstract specification of one queue; `TaskRing` implements it |
| `TaskRing` | the ring with its positions, the loops of removal and sorting turn by turn |
| `Scheduler` | the core: JNI thread, scheduler and worker processes, content of the segment |
| `SchedulerProperties` | type invariant, safety, action and liveness properties, the inductive invariants `SafeInv` and `IInv` |
| `SchedulerKills` | `Scheduler` with processes killed from outside, between their steps and inside their critical sections |
| `DeadlockDetector` | `Scheduler` with the detector's search step by step; it implements `Scheduler` |
| `TaskLifecycle` | abstract specification of what a client may rely on |
| `ClientView` | the getters; through them `Scheduler` implements `TaskLifecycle` |
| `SegmentLifecycle` | names, segments, primitives, the JVM's static variables, attaching processes, crashes |
| `MCScheduler`, `MCKills`, `MCDetector`, `MCClientView`, `MCSegmentLifecycle` | the jobs and model values of the runs |
| `QueueLemmas` | what the queue operators return and preserve; paths that close into cycles |
| `RingProofs` | the ring implements `TaskQueue`, for every `MAX_TASKS` |
| `SchedulerProofs` | the invariants and their theorems, for any number of pairs, with and without killed processes |
| `OnePairProofs` | the theorems that hold for the pair of a single `start()`, killed processes included |
| `DeadlockProofs` | deadlock freedom, and the sleep of the scheduler |
| `DetectorProofs` | the search is right, ends, and implements `Scheduler` |
| `ClientViewProofs` | `Scheduler` implements `TaskLifecycle`; the sizes and the aging that a client reads |
| `SegmentProofs` | the segment, its primitives and its pairs through `initialize`, `start`, `stop` and crashes |

    TaskQueue <== TaskRing          TaskLifecycle
        |  same operators                 ^ implemented by, through the getters
      Queues  <-------- Scheduler -- ClientView
                           ^  implemented by
                    DeadlockDetector        SegmentLifecycle (around all of it)

### How `Scheduler` corresponds to the code

*Tasks.* A `Task` of the code is an index; each of its fields is a function
from indices (`state`, `held`, `remaining_time`, ...). Resource masks are sets
of bits. Times are in units of a job's time; `QUANTUM` is the slice. `pid`s are
the pair a process belongs to.

*Processes.* `spc[p]` and `wpc[p]` say where the scheduler and the worker of
pair `p` are, `jpc` where the JNI thread is. A critical section that makes all
its changes between one lock and the next unlock is one action, enabled while
`mutex = Free`. The scheduler's pass is a loop, so it is several actions with
the mutex held:

| Action | Code |
|---|---|
| `Submit`, `Notify` | `submitTask` until its unlock; the post after it |
| `ChangePriority`, `Notify` | `changePriority` likewise |
| `Start` | `start`, both forks with their failures |
| `Stop`, `StopPost`, `JoinScheduler`, `JoinWorker` | `stop`: flag, three posts, two `waitpid`s, destruction |
| `SchedulerBoot`, `WorkerBoot` | opening the segment, or leaving because it cannot |
| `SchedulerCheck`, `WorkerCheck` | the tests of `shutdown_flag`, read without the mutex |
| `BeginPass` | lock, clearing of ended tasks, the copy of the held resources |
| `AllocateNext` | one iteration over the blocked queue, pop and push included |
| `ResolveDeadlock` | one round of the detector: a cycle, its victim, the abort |
| `SelectTask` | aging with its sort, the pop, `running_task_id`, unlock |
| `NothingToRun` | the other end of a pass |
| `SchedulerPosts`, `SchedulerWaits` | each semaphore call of the scheduler, those of its exit too |
| `WorkerWaits`, `WorkerPosts` | each semaphore call of the worker |
| `PickupRun` | the assigned task is started, or finished if no time is left |
| `PickupReject`, `PickupUnknown` | the worker's two error paths |
| `FinishQuantum` | the lock after the slice: finished, or queued and sorted again |

`Scheduler` abstracts the detector's search to *some* cycle of the wait-for
graph, the bubble sort to the stable sort it computes, the ring to a sequence.
The next two modules are about what that takes for granted.

### `TaskRing`

`task_indices`, `head`, `tail` and `size` are the `TaskQueue` of the code. A push
or a pop is one action. `queue_remove` and `queue_reorder_priority` are loops, one
action for each turn: `Drain` pops an element into the local array `elems` (or
leaves it out), `Compare`, `NextRound` are the turns of the bubble sort's two
loops, `Refill` pushes an element back. `Represented` is the refinement mapping:
the sequence that the ring and the local array stand for together. During a sort
it is the sorted queue from the beginning of the call, during a removal the task
disappears at the turn that leaves it out. (`queue_remove` returns `found`, 1 or
0; neither caller reads it, and it is left out.)

### `DeadlockDetector`

`stack`, `edge_ptr`, `state_arr`, `start_idx` are those of
`detect_and_resolve_deadlocks`; `cycle_nodes`, `best_victim_idx` and `scanned` its
scan for a victim. `NextStart`, `Descend`, `CloseCycle`, `Backtrack` and `Scan` are
the turns of its loops, `AbortVictim` the abort and the restart. Its end is
`EndOfPass`, which, unlike in `Scheduler`, has no condition on the graph. The
search leaves the variables of `Scheduler` alone, so the refinement mapping is
the identity on them.

### `ClientView` and `TaskLifecycle`

The getters are operators: each reads one field of the first task with the id,
under the mutex. `TaskLifecycle` has no queues, semaphores or processes: a task
is submitted, examined (it gets at most one resource that nobody has), run by a
worker for a quantum, and ends, or is aborted out of a set of deadlocked tasks.

### `SegmentLifecycle`

A POSIX name maps to at most one segment; an object lives on without a name
while somebody has it mapped. `initialize`, `stop` and their parts are one
action for each system call that can fail or that others can see: `Initialize`
(the unlink), `Create`, `Map`, `InitContent`, with `NotCreated`, `NotMapped` and the
paths of `init_shared_memory_sync` (`Unwound`); `Stop`, `StopPosts`,
`JoinScheduler`, `JoinWorker`, `Destroy`, `Close`. `Check`, `Put`, `Notify` are the
three places where `submitTask` and `changePriority` read `current_shm`. `Boot` is
what a process finds under the name it inherited. What processes do once
attached is `Scheduler`'s matter; here they may leave after the flag is set.

### `SchedulerKills`

A kill takes a process out of the system and releases nothing. `KillScheduler` and
`KillWorker` strike between two of the steps of `Scheduler`, which for the scheduler
includes the middle of its pass. The other kills strike inside what is one action
of `Scheduler`, after the first `n` of its stores, in the order of the code: in the
worker's pickup (`KillInPickup`) and after its slice (`KillInQuantum`), while the
scheduler has a task out of the blocked queue (`KillInAllocation`), while it aborts
a victim (`KillInAbort`), and while it ages, sorts, pops and hands over
(`KillInSelection`). A queue that is being emptied and filled again is left with
any part of its old or its new contents (`Rebuilding`). After each of them the
mutex stays locked (`StaysLocked`), because `init_shared_memory_sync` does not make
it robust.

A definition whose name ends in an underscore and a word (`Granted_Unchecked`)
is a mistaken variant of the definition after it. Nothing uses it except
`PROJECT.json`, under `mutants`: substituted for the definition, it makes the
named property fail, which shows that the property says something about the code.

## The runs

| Run | Module | Shows |
|---|---|---|
| `core` | `MCScheduler` | the hand-over between the two processes and the bookkeeping of one pair, with a deadlock of two tasks, preemption, refused submissions, a duplicate id, and forks and attachments that fail |
| `priorities` | `MCClientView` | order of service, and the ticks and raised priorities that the getters show, under submissions, priority changes at any moment and aging |
| `cycles` | `MCScheduler` | allocation and detection with cycles of two and of three tasks and one task behind them |
| `two_pairs` | `MCScheduler` | `start()` called twice: two schedulers and two workers on one segment, and the inductive invariant of the proofs |
| `faults` | `MCKills` | processes that cannot be forked, cannot attach or are killed, also between the stores of a critical section: whoever gets the mutex finds consistent tasks, no process is stuck, `stop` returns |
| `ring` | `TaskRing` | every sequence of operations on a ring implements the queue of `TaskQueue` |
| `search` | `MCDetector` | the search ends, finds cycles only, misses none, and implements `Scheduler` |
| `client_view` | `MCClientView` | the getters show lives of tasks as `TaskLifecycle` has them; every task ends |
| `segments` | `MCSegmentLifecycle` | `initialize`, `start`, `stop` in turn, all failures, a killed JVM: who is in which segment, what is left of it, and whom `stop` waits for |
| `zero_id`, `start_twice_lost` | `MCScheduler` | findings, see below |

Deadlock is checked in every run: the only state in which nothing happens is
the one after `stop` (`Stopped`), and in `SegmentLifecycle` and `TaskRing` something
can always be called.

### Bounds, and why they are enough

`MAX_TASKS` is 2 to 4 instead of 256, `QUANTUM` 2, `AGING_TICKS` 2 (1 in
`client_view`) instead of 5. Submission order, the moments of `start` and `stop` and
every interleaving are left open, so runs include states with no process, with
the table full, and with a shutdown in the middle of anything.

Three tasks are the fewest for which a deadlock of two and a third task that
runs meanwhile coexist, and for which the ready queue keeps more than one task
(aging's condition) while a third is in service. The jobs of `cycles` and
`search` contain cycles of three, and cycles of two with a task that waits for
them without being part of them; such a task tells a cycle from what merely
waits, and in `search` the table is filled in every order, so that the search
also enters a cycle from outside. A job of 3 with a quantum of 2 is preempted
once and finishes in a shorter slice. Two passes of aging are the fewest that
tell a counter that counts from one that does not; with them, in `priorities`, a
task has ticks left when it is served, which is what its reset is for. The
properties of `client_view` are not about ticks. `MaxEvents` bounds the
calls of `changePriority`, which nothing else bounds: it is called only while
fewer events are pending. It is 2 in `priorities`, so that a client can change a
priority twice before an event is taken; the other passing runs make no
priority changes.

The ring of `ring` has four slots: head and tail wrap around at every offset,
with the ring empty, full and between, and the bubble sort has two rounds that
exchange. Two priorities tell a stable sort from one that is not.

`segments` has two segments, two names and two pairs: a name can be used again
by the next segment and by the next JVM, and a process of the first pair can
still be on its way. `MaxSegments` bounds `initialize`, `MaxPairs` bounds `start`.

Symmetry under exchanging the two pairs is used in `two_pairs` only, where no
liveness property is checked.

### Findings

Two runs show a disagreement between the code and what its comments say;
each checks one property and is expected to fail.

| Run | What happens |
|---|---|
| `zero_id` | a new segment has `running_task_id` 0, a valid id: `getRunningTaskId` reports a task 0 that was only submitted |
| `start_twice_lost` | two schedulers overwrite one `running_task_id`: a worker is woken for a task that is RUNNING, and another task stays READY in no queue |

### Limits that the model shows when a constant is changed

These are not runs of their own; each takes one change of a configuration.

* `effective_priority++` overflows: with a job whose priority is `INT_MAX`,
  `AgingOnlyRaises` fails in `priorities`. (Signed overflow is undefined in C; the
  model takes the wrap-around that the increment of a memory cell makes.) The
  theorems about aging assume `NoneAtLimit`, that this does not happen.
* The pids of the first pair are overwritten by a second `start()`: with two
  pairs `ClosedAfterAll` fails, `stop` destroys the segment under the first one.
* `initialize()` called while a pair runs: with `InTurn = FALSE`, `AwaitedAreTold`
  fails. The flag is set in a segment that the processes do not have, and
  `waitpid` blocks.
* Two threads that call the native methods at once: with two elements in
  `Threads`, `CallsUseMapped` fails. `stop` in one unmaps the segment between two
  places where `submitTask` in the other reads `current_shm`. Nothing in the
  repository says that the methods may be called so.
* `initialize()` does not report that the primitives could not be made, so that
  later calls and processes use a mutex that is not there. The model has the
  processes attach all the same; it does not say what such a mutex does.
* A segment that could not be mapped keeps its name until it is initialised
  again; `NothingLeft` says so.
* A JVM that is killed while a process has still to attach: with
  `LateBoot = TRUE`, `OwnSegment` fails, the process may attach to the next JVM's
  segment of the same name.
* A selected task is READY in no queue until the worker has locked the mutex,
  although `native/include/scheduler_shm.h:38` says that READY tasks are in
  `ready_queue`.

## Fairness

`Scheduler` has weak fairness for the JNI thread inside a call (`JniContinues`)
and for each process as a whole (`SchedulerStep(p)`, `WorkerStep(p)`), which is
what an operating system gives to a process that can run. Nobody has to call
anything: no fairness on `Submit`, `ChangePriority`, `Start` or `Stop`. Two
things need a word. A process that waits for the mutex is enabled only while
it is free, and weak fairness suffices because with one pair a pass is the
scheduler's own and the worker's critical sections are single steps; the mutex is
free again and stays free while the scheduler waits for its turn or its event.
A semaphore wait is enabled while a token is there, and with one pair each
semaphore has one waiter. `StopReturns` and `EveryTaskEnds` are therefore
checked with one pair only.

In `SchedulerKills` the fairness is the same; a killed process has no step left.
`StopReturns` holds there because `waitpid` for a killed process returns, and
because a process that is killed with the mutex, a scheduler in its pass or a
worker in a critical section, had the turn: its partner waits for a semaphore that
`stop` posts, not for the mutex. A client that calls `submitTask`, `changePriority`
or a getter after such a kill waits for the mutex for ever; the model leaves such
a call out (it is never enabled), and `NobodyStuck` speaks of the processes only.
What is shown is that `stop`, which does not lock, still works.

`SegmentLifecycle` has no fairness and no liveness property. A process that has
been told to end leaves according to `StopReturns` of `Scheduler`; what
`SegmentLifecycle` adds is that `stop` tells the right ones (`AwaitedAreTold`): it
sets the flag and posts in the segment in which the processes it waits for work,
or which they will find. Of a segment whose primitives could not be made nothing
more is claimed, neither that a post wakes anybody there nor that `stop` returns.

`SearchEnds` needs no fairness: it bounds the number of steps of the search.
The refinements (`IsTaskQueue`, `SearchImplementsScheduler`, `IsLifecycle`) are of
safety: the abstract specifications have no fairness.

## The proofs

Everything below holds for every table size, set of resources, set of jobs and
priorities that satisfy the assumptions of `Queues`, `Scheduler` and `ClientView`.
They are few: the table has room for a task, quantum and aging period are
positive, jobs and changed priorities are ints, resources are numbers, and the
markers for "no process", "no owner" and "not found" are no pairs or states. The
theorems of `SchedulerProofs`, `NoDeadlockOutlivesAPass`, those of `DetectorProofs`
and, but for `SizesTell`, those of `ClientViewProofs` are also for any number of
pairs; those of `RingProofs` are for a ring of any capacity and any set of int
priorities. `SegmentProofs` is for any numbers of names, segments and pairs, and
any choice of the calls that may fail; that there is a name is its assumption.

Some theorems have a hypothesis beyond the specification; each is a condition
on the client or the environment without which the property is false, and each
is met by the passing runs.

| Hypothesis | Says | Without it |
|---|---|---|
| `Pairs = {one}` | `start()` was called once | `start_twice_lost`; with two pairs `ClosedAfterAll` fails |
| `[]NoneAtLimit` | no task has the effective priority `INT_MAX` | `effective_priority++` overflows |
| `OneThread` | one thread of the JVM makes the calls | `CallsUseMapped` fails, see the limits above |
| `InTurn` | `initialize` is called without a segment only, `start` once for each | the segment of a running pair is replaced |
| `NoLateBoot` | when a JVM is killed, its processes have attached | one may attach to a later segment of the same name |

| Module | Theorem | States |
|---|---|---|
| `SchedulerProofs` | `Invariance` | `Spec => []IInv` |
| | `TypeCorrect` | `Spec => []TypeOK` |
| | `ResourcesAreExclusive` | `Spec => []ResourceExclusive` |
| | `HoldingsFitStates` | `Spec => []HoldsWhatStateSays` |
| | `QueuesFitStates` | `Spec => []QueuedWhereStateSays` |
| | `TasksRunOnOneWorker` | `Spec => []RunsOnOneWorker` |
| | `AssignmentsAreNotQueued` | `Spec => []AssignedIsNotQueued` |
| | `HighestIsFirst` | `Spec => HighestFirst` |
| | `ResourcesAreKept` | `Spec => KeepsResources` |
| | `AbortsBreakDeadlocks` | `Spec => OnlyDeadlockedAborted` |
| | `KillsKeepUnlockedSound` | `KillsSpec => []UnlockedIsSound` |
| | `AgingRaises` | `Spec /\ []NoneAtLimit => AgingOnlyRaises` |
| `OnePairProofs` | `OnePairTakesTurns` | `Pairs = {one}`: `Spec => []OneTurn` |
| | `OnePairLosesNoTask` | `Pairs = {one}`: `Spec => []NoTaskLost` |
| | `OnePairWorkerFindsItsTask` | `Pairs = {one}`: `Spec => []WorkerFindsItsTask` |
| | `OnePairClosesLast` | `Pairs = {one}`: `Spec => []ClosedAfterAll` |
| | `OnePairNeverStuck` | `Pairs = {one}`: `KillsSpec => []NobodyStuck` |
| `DeadlockProofs` | `NoDeadlockOutlivesAPass` | `Spec => []DeadlockFreeBetweenPasses` |
| | `OnePairSleepsOnlyWhenDone` | `Pairs = {one}`: `Spec => []SleepsOnlyWhenDone` |
| `DetectorProofs` | `SearchFindsCycles` | `DetectorSpec => []FoundIsCycle` |
| | `SearchMissesNone` | `DetectorSpec => []NothingMissed` |
| | `SearchTyping` | `DetectorSpec => []DetectorTypeOK` |
| | `SearchTerminates` | `DetectorSpec => SearchEnds` |
| | `SearchRefinesScheduler` | `DetectorSpec => SearchImplementsScheduler` |
| `ClientViewProofs` | `ImplementsLifecycle` | `Spec => IsLifecycle` |
| | `SizesTell` | `Pairs = {one}`: `Spec => []SizesFitStates` |
| | `AgingShown` | `Spec /\ []NoneAtLimit => []AgingOfReadyOnly` |
| `SegmentProofs` | `SegmentTyping` | `Spec => []TypeOK` |
| | `SegmentCallsUseMapped` | `OneThread`: `Spec => []CallsUseMapped` |
| | `SegmentNothingLeft` | `OneThread`, `InTurn`: `Spec => []NothingLeft` |
| | `SegmentOwn` | `OneThread`, `InTurn`, `NoLateBoot`: `Spec => []OwnSegment` |
| | `SegmentSyncKept` | the same: `Spec => SyncKeptWhileUsed` |
| | `SegmentAwaitedAreTold` | the same: `Spec => []AwaitedAreTold` |
| `RingProofs` | `RingTypes` | `Spec => []TypeOK` |
| | `RingStaysAnArc` | `Spec => []RingIsAnArc` |
| | `RingRemoves` | `Spec => []RemovedIsGone` |
| | `RingLoops` | `Spec => LoopsKeepQueue` |
| | `RingImplementsTaskQueue` | `Spec => IsTaskQueue` |

*Why `IInv` is what it is.* `ResourceExclusive` is not inductive: a grant is
checked against the copy made at the start of the pass, so one needs that the
copy covers what tasks hold and that nobody else changes tasks meanwhile
(`PassOwnsMutex`). The tasks that `AllocateNext` examines must wait for
resources, which is `QueuedWhereStateSays`; so must the deadlocked ones. A task
returning to a queue is not dropped by a full ring because the queue repeats
nothing and holds registered tasks only (`QueueHasRoom`). `FinishQuantum` writes
through an index kept from before the sleep: `RunsOnOneWorker` says that the
task is still RUNNING and nobody else's. And `PickupRun` starts whatever READY
task has the id: it must not be in the ready queue. That needs the history of
`running_task_id` (`AssignedIsNotQueued`), which in turn needs that ids are
unique, that `stop` is final and that workers are woken by selections or by
`stop` only (`ShutdownIsStop`, `NobodyWoken`). `ReadySorted` makes the head of
the queue the highest.

*How that proof goes.* `StepIsQuietOrData` splits the steps into those that move
a process only (`Quiet`) and the eleven that change data. `ControlTypeStep`
keeps program counters and semaphores in their types. One lemma for the quiet
steps and one for each data step prove `DataInv'`, conjunct by conjunct; three
more prove the parts of `AssignmentInv'`. The facts about queues come from
`QueueLemmas`; the sort is treated there through ranks, an injection of the
positions into themselves, hence a permutation. `TimesInv` adds that time is left
until a task ends and that a slice is the quantum or what is left of it.

*Killed processes.* Two parts of `IInv` do not survive a kill: a scheduler that
is gone owns the mutex without being in a pass (`PassOwnsMutex` fails), and a
worker that is gone leaves a RUNNING task that no worker has (`RunsOnOneWorker`
fails). `SafeInv` has in their place what the steps really use: who is in a pass
has the mutex (`PassHasMutex`), and two workers never have the same task
(`RunsApart`). It is kept by the steps of `Scheduler` and by a kill between them
(`KillBetween`); `IInv` is `SafeInv` with the two stronger parts, which `OwnerStep`
and `RunnerStep` add. A kill inside a critical section breaks nearly all of
`SafeInv`, and `KillsInv` says what is left then: the mutex has an owner and nobody
is in a pass (`Abandoned`). Every step that reads or changes tasks needs a free
mutex or a pass, so none is enabled any more (`StepAbandoned`), and the half-made
change stays behind the mutex. With a robust mutex (`StaysLocked_Robust`), whose
next owner would be told and goes on all the same, `UnlockedIsSound` fails.

*Aging.* `AgingInv` says that ticks stay below the period, that the effective
priority is not below the base priority, and that tasks outside the ready queue
have neither ticks nor a raised priority. Every path out of the ready queue, and
only `SelectTask` is one, resets both; without the reset of the ticks
(`ServedTicks_Kept`) a task that runs still shows those of its last wait. That the increment is not a decrease is
where `NoneAtLimit` is used: it cannot be derived, because a submission accepts
`INT_MAX` and aging reaches it from below if a task waits long enough.

*One pair.* `PairInv` counts the turn: outside a shutdown exactly one of the
scheduler's program counter, the worker's and the tokens of the two semaphores
has it; with it goes what is known of `running_task_id` at each place of the turn
(`HandInv`), so that a task in service is always the one it names. After the flag
is set the counting ends, and what remains is that each process only moves
towards its exit and that `stop` waits for both. 

*Nobody is stuck.* With kills the count of the turn becomes an inequality: a turn
may be lost, and a scheduler killed in its pass keeps it together with the mutex
(`TurnLeft`), so that its worker never comes to want that mutex (`LockApart`); likewise a worker
killed in a critical section keeps the turn from its scheduler. Once
the flag is set, each process waits at most once more at each semaphore, because
it tests the flag after every wait; `TokensLeft` says that each token `stop` has
posted is still there while that wait is ahead. Without the worker's second test
(`WorkerCheck_Once`) a worker woken by `stop` locks a mutex that a killed scheduler
has left locked. What `StopReturns` adds to `NobodyStuck` is that the processes
take the steps they can take.

*Deadlock freedom.* A pass ends when there is no cycle in the wait-for graph;
the property is about sets of tasks that wait for one another. That such a set
contains a cycle is a fact of finite graphs: take a longest path within the set,
by the least number principle; its last task waits for one of the set, which
must be on the path, and the path from there on is a cycle (`StuckHasCycle`).
Between passes nothing makes a task wait: a task becomes BLOCKED in a pass only.
The sleep of the scheduler needs more: that a pass without progress has found
each blocked task starved (`ExaminedStarve`: everything it lacks is held), and
that with no ready task, none in service and no deadlock some blocked task must
have been granted something.

*The search.* The first part of `DetectorProofs` is about depth-first search of
any graph: the tasks done with are closed under the edges and contain no cycle;
the tasks on the stack are those marked so, a path without repetitions; the
successors below an edge pointer are done with, or next on the path. Each
operation of the search keeps this (`StartTaken`, `NodeEntered`, `NodeDone`), a
successor on the path closes a cycle (`CycleFound`), and at the end all blocked
tasks are done with (`NoCycleLeft`). The second part ties it to the state of the
scheduler: the mutex is held, so the graph does not change during a search
(`OthersAreQuiet`), and an abort starts it anew.

*The end of the search.* `Progress` weighs a task on the stack once, a task done
with twice, and adds the position of the outer loop and that of the scan. Each
step of the search adds exactly one (`SearchAdvances`): it enters a task, leaves
one, moves a loop on. At most twice the table size of marks, once of starts and
once of scanned nodes bound the sum (`SearchIsBounded`); the cycle that is scanned
repeats nothing, so it is not longer than the table. Only `AbortVictim` sets the
marks back, and it makes a blocked task a finished one.

*The life of tasks.* Each action of `Scheduler` is mapped to a step of
`TaskLifecycle` on the task with the id, or to a stutter; unique ids turn the
update of one index into the update of one id.

*The sizes.* Ids and tasks correspond one to one, so counting the ids in a state
is counting tasks (`CountedById`), and a queue that repeats nothing is as long as
the set of its elements is large (`CountedByRange`). The rest is
`QueuedWhereStateSays` and, for the one task that may be missing from the ready
queue, `NoTaskLost` and `RunsOnOneWorker`.

*The ring.* With `Slot` the `%` of the code becomes one comparison (`Wrap`), and
positions are linear from there on: `ArcPut`, `ArcTake` and `ArcPush` say what a
push or a pop does to the sequence the ring holds. The invariant `Inv` adds, loop
by loop, that the array and the ring together are the queue (`Locals`), which
needs that the array repeats nothing, so that no element is refused when it is
pushed back, and that bubble sort has the smallest elements at the end in order
(`Bubbled`). That bubble sort computes `Reorder` is shown through ranks:
exchanging neighbours that are strictly out of order changes no rank
(`ExchangeKeepsReorder`), and a sorted array is its own reordering
(`ReorderSorted`).

*The segment.* `MappedInv` follows one thread through its calls: from the check to
the post nobody clears `current_shm`. `JvmInv` adds, for each place of a call, what
the JVM has: one descriptor and one mapping, or none (`Holds`), the name of its
segment as long as it has one (`Named`), pids only between `start` and the
`waitpid` that takes them (`PidsKept`), and no two names for one segment, none of a
segment that a `stop` has ended but the one it is at (`NamesInv`). `PairsInv` is
about the processes: each segment has one pair (`PairsApart`); a process of the
JVM's segment that has not ended has its pid in the JVM's variables
(`PairKnown`), which is why `stop` waits for it before it destroys anything; one
that has still to attach belongs to the segment and the name that the JVM has
now (`BootOwn`), so that what it finds under its name is its own segment
(`AttachedOwn`). A crash forgets the pids and keeps the processes: `NamesInv` and
`Named` therefore speak of segments made since, and `BootOwn` is where
`NoLateBoot` is needed. `PidsOwn` and `StopTold` are the last step: the pids are of
the pair of the segment that the JVM has, and a `stop` that has come to a wait has
set the flag and posted there; with `AttachedOwn` and `BootOwn` that is where the
awaited processes are (`ToldThere`).

*Model-checked only.* The two liveness properties, `StopReturns` (in `faults`) and
`EveryTaskEnds` (in `client_view`): they rest on fairness, and so on `ENABLED`, which
the proof system does not reach. `EveryTaskEnds` would need a well-founded measure
over the whole table besides. The safety half of the first, `NobodyStuck`, is
proved. Every other property of a passing run is stated by a theorem.

## Not modelled

* What a process does with a destroyed or never made mutex or semaphore.
  `Scheduler` ends when `stop` returns.
* Processes that outlive a killed JVM run for ever in their segment, as in the
  code; `SegmentLifecycle` shows only that nobody else meets them.
* A JVM that is killed inside a call that `Scheduler` has as one action; in
  `SegmentLifecycle` it can be killed between the steps of a call.
* In `SchedulerKills`, stores that the compiler or the machine has put into another
  order than the code, and a kill between the stores by which aging changes
  one task.
* A client that calls while a killed process has the mutex: it blocks for ever.
* Calls of several threads at once. `SegmentLifecycle` can have several threads; its
  run has one, as the class `NativeScheduler` and the tests do.
* The result of `waitpid`, which `wait_for_process` does not look at: it is taken to
  return when the process has ended, and not before, say for a signal.
* `sem_wait` returning early (`EINTR`): `safe_sem_wait` retries, and other errors
  need a destroyed semaphore.
* `active_algorithm`: priority scheduling is its only value and its initial one.
* `terminate_process`, which has no caller.
* The logger: nothing reads what it writes, and its failures are ignored. Two
  things about it are worth knowing all the same: `log_queues` adds up
  what `snprintf` would have written, so that from about 36 queued tasks on its
  offset passes the end of its buffer, and what follows is undefined; and a
  process that has not opened its log file writes to `logs/fallback.log`.
* The Java classes, which declare the native methods and have no behaviour, and
  the time that passes.

## Plan

What is left is the composition of `SegmentLifecycle` with two instances of
`Scheduler`, one for each segment, so that the return of `stop` is one property of
the whole: `AwaitedAreTold` and `NobodyStuck` are the two halves that are proved
so far.
