---------------------------- MODULE SegmentLifecycle ----------------------------
(***************************************************************************)
(* The shared memory segment from initialize() to stop(): its POSIX name,  *)
(* its creation and its primitives with their failures, the static         *)
(* variables of the JNI bridge that every call of the JVM goes through,    *)
(* the processes that attach by name, and a JVM that is killed and         *)
(* started again.                                                          *)
(*                                                                         *)
(* What the processes do once attached is in module Scheduler.  Here they  *)
(* may leave once stop() has set the flag of their segment.                *)
(***************************************************************************)
EXTENDS Integers, FiniteSets

CONSTANTS
  Names,        \* the names a client may pass to initialize
  Threads,      \* the threads of the JVM that call the native methods
  MaxSegments,  \* bound: segments created
  MaxPairs,     \* bound: calls of start
  Failing,      \* the calls that may fail, of "open", "map", "sync", "fork", "attach"
  InTurn,       \* whether the client calls initialize only when it has no
                \* segment, and start once for each initialize
  MayCrash,     \* whether the JVM may be killed and started again
  LateBoot      \* whether a process may then still have to attach

ASSUME BoundsAssumption == MaxSegments \in Nat /\ MaxPairs \in Nat
ASSUME NamesAssumption == Names # {}      \* initialize takes one
ASSUME FlagsAssumption ==
  /\ InTurn \in BOOLEAN /\ MayCrash \in BOOLEAN /\ LateBoot \in BOOLEAN
  /\ Failing \subseteq {"open", "map", "sync", "fork", "attach"}

Segments == 1 .. MaxSegments
NoSegment == 0          \* NULL, a closed descriptor, or a name of nothing
Pairs == 1 .. MaxPairs
NoPair == 0             \* a pid of -1
Kinds == {"scheduler", "worker"}

(* What init_shared_memory_sync makes, in this order. *)
Primitive == <<"mutex", "worker_sem", "scheduler_sem", "scheduler_event_sem">>
Primitives == {Primitive[k] : k \in DOMAIN Primitive}

VARIABLES
  \* the system: the segments created, the name of each, and what is in it
  created, names, sync, shutdown_flag, posted,
  \* static variables of the JVM, its mappings and descriptors
  current_shm, current_shm_name, shm_fd, scheduler_pid, worker_pid, mapped, fds,
  tpc,          \* where each thread of the JVM is
  started,      \* whether this JVM has called start since its last initialize
  crashed_at,   \* how many segments there were when the JVM was killed last
  \* the processes: how many pairs, where each process is, the name it got and
  \* the segment its JVM had at the fork, the one it is attached to
  forked, ppc, pname, forked_for, pseg

segment   == <<created, names, sync, shutdown_flag, posted>>
statics   == <<current_shm, current_shm_name, shm_fd, scheduler_pid, worker_pid>>
resources == <<mapped, fds>>
client    == <<started, crashed_at>>
processes == <<forked, ppc, pname, forked_for, pseg>>
vars == <<segment, statics, resources, tpc, client, processes>>

AnyName == CHOOSE n \in Names : TRUE

Init ==
  /\ created = 0
  /\ names = [n \in Names |-> NoSegment]
  /\ sync = [s \in Segments |-> {}]
  /\ shutdown_flag = [s \in Segments |-> FALSE]
  /\ posted = [s \in Segments |-> FALSE]
  /\ current_shm = NoSegment /\ current_shm_name = AnyName /\ shm_fd = NoSegment
  /\ scheduler_pid = NoPair /\ worker_pid = NoPair
  /\ mapped = {} /\ fds = {}
  /\ tpc = [t \in Threads |-> "idle"]
  /\ started = FALSE /\ crashed_at = 0
  /\ forked = 0
  /\ ppc = [p \in Pairs |-> [k \in Kinds |-> "unborn"]]
  /\ pname = [p \in Pairs |-> AnyName]
  /\ forked_for = [p \in Pairs |-> NoSegment]
  /\ pseg = [p \in Pairs |-> [k \in Kinds |-> NoSegment]]

Go(t, from, to) == tpc[t] = from /\ tpc' = [tpc EXCEPT ![t] = to]

--------------------------------------------------------------------------------
(* initialize *)

(* The name is kept, and removed from an object that has it still. *)
Unlink_Not(n) == UNCHANGED names
Unlink(n) == names' = [names EXCEPT ![n] = NoSegment]

Initialize(t, n) ==
  /\ Go(t, "idle", "create")
  /\ created < MaxSegments
  /\ InTurn => current_shm = NoSegment
  /\ current_shm_name' = n
  /\ Unlink(n)
  /\ UNCHANGED <<created, sync, shutdown_flag, posted, current_shm, shm_fd, scheduler_pid,
                 worker_pid, resources, client, processes>>

(* create_or_open_shm: a new object, or one that got the name meanwhile.   *)
Create(t) ==
  /\ Go(t, "create", "map")
  /\ created < MaxSegments
  /\ LET there == names[current_shm_name]
         s == IF there = NoSegment THEN created + 1 ELSE there
     IN  /\ created' = IF there = NoSegment THEN created + 1 ELSE created
         /\ names' = [names EXCEPT ![current_shm_name] = s]
         /\ shm_fd' = s
         /\ fds' = fds \cup {s}
  /\ UNCHANGED <<sync, shutdown_flag, posted, current_shm, current_shm_name, scheduler_pid,
                 worker_pid, mapped, client, processes>>

(* The failures leave the JVM without a segment: what it had before is no  *)
(* longer known to it, and an object created keeps its name.               *)
NotCreated(t) ==
  /\ Go(t, "create", "idle")
  /\ "open" \in Failing
  /\ shm_fd' = NoSegment /\ current_shm' = NoSegment
  /\ UNCHANGED <<segment, current_shm_name, scheduler_pid, worker_pid, resources, client,
                 processes>>

NotMapped(t) ==
  /\ Go(t, "map", "idle")
  /\ "map" \in Failing
  /\ fds' = fds \ {shm_fd}
  /\ shm_fd' = NoSegment /\ current_shm' = NoSegment
  /\ UNCHANGED <<segment, current_shm_name, scheduler_pid, worker_pid, mapped, client,
                 processes>>

Map(t) ==
  /\ Go(t, "map", "init")
  /\ shm_fd # NoSegment
  /\ mapped' = mapped \cup {shm_fd}
  /\ current_shm' = shm_fd
  /\ UNCHANGED <<segment, current_shm_name, shm_fd, scheduler_pid, worker_pid, fds, client,
                 processes>>

(* init_shared_memory_sync: if the k-th primitive cannot be made, its path *)
(* destroys these, of those made before it.                                *)
Destroyed_KeepsWorker ==
  <<{}, {"mutex"}, {"mutex"}, {"scheduler_sem", "worker_sem", "mutex"}>>
Destroyed ==
  <<{}, {"mutex"}, {"worker_sem", "mutex"}, {"scheduler_sem", "worker_sem", "mutex"}>>

Unwound(k) == {Primitive[m] : m \in 1 .. k - 1} \ Destroyed[k]

Made == {Primitives} \cup
        (IF "sync" \in Failing THEN {Unwound(k) : k \in DOMAIN Primitive} ELSE {})

(* init_shm_content, and the end of initialize: all zeroes, and the        *)
(* primitives; their failure is not reported.                              *)
InitContent(t) ==
  /\ Go(t, "init", "idle")
  /\ current_shm # NoSegment
  /\ \E made \in Made : sync' = [sync EXCEPT ![current_shm] = made]
  /\ shutdown_flag' = [shutdown_flag EXCEPT ![current_shm] = FALSE]
  /\ posted' = [posted EXCEPT ![current_shm] = FALSE]
  /\ started' = FALSE
  /\ UNCHANGED <<created, names, statics, resources, crashed_at, processes>>

--------------------------------------------------------------------------------
(* start: two processes that attach by the name; without a segment it      *)
(* returns at once.                                                        *)
Forked == IF "fork" \in Failing THEN {"boot", "done"} ELSE {"boot"}

Start(t) ==
  /\ tpc[t] = "idle" /\ current_shm # NoSegment
  /\ forked < MaxPairs
  /\ InTurn => ~started
  /\ started' = TRUE
  /\ shutdown_flag' = [shutdown_flag EXCEPT ![current_shm] = FALSE]
  /\ LET p == forked + 1
     IN  \E s, w \in Forked :
           /\ ppc' = [ppc EXCEPT ![p] = [k \in Kinds |-> IF k = "scheduler" THEN s ELSE w]]
           /\ scheduler_pid' = IF s = "boot" THEN p ELSE NoPair
           /\ worker_pid' = IF w = "boot" THEN p ELSE NoPair
           /\ pname' = [pname EXCEPT ![p] = current_shm_name]
           /\ forked_for' = [forked_for EXCEPT ![p] = current_shm]
           /\ forked' = p
  /\ UNCHANGED <<created, names, sync, posted, current_shm, current_shm_name, shm_fd, resources,
                 tpc, crashed_at, pseg>>

--------------------------------------------------------------------------------
(* stop *)
Stop(t) ==
  /\ Go(t, "idle", IF current_shm = NoSegment THEN "join_scheduler" ELSE "post")
  /\ shutdown_flag' = IF current_shm = NoSegment THEN shutdown_flag
                      ELSE [shutdown_flag EXCEPT ![current_shm] = TRUE]
  /\ UNCHANGED <<created, names, sync, posted, statics, resources, client, processes>>

Posted_Nothing(s) == UNCHANGED posted
Posted(s) == posted' = [posted EXCEPT ![s] = TRUE]

StopPosts(t) ==
  /\ Go(t, "post", "join_scheduler")
  /\ current_shm # NoSegment
  /\ Posted(current_shm)
  /\ UNCHANGED <<created, names, sync, shutdown_flag, statics, resources, client, processes>>

Ended_NoWait(pid, k) == TRUE
Ended(pid, k) == pid # NoPair => ppc[pid][k] = "done"

JoinScheduler(t) ==
  /\ Go(t, "join_scheduler", "join_worker")
  /\ Ended(scheduler_pid, "scheduler")
  /\ scheduler_pid' = NoPair
  /\ UNCHANGED <<segment, current_shm, current_shm_name, shm_fd, worker_pid, resources,
                 client, processes>>

JoinWorker(t) ==
  /\ Go(t, "join_worker", IF current_shm = NoSegment THEN "idle" ELSE "destroy")
  /\ Ended(worker_pid, "worker")
  /\ worker_pid' = NoPair
  /\ UNCHANGED <<segment, current_shm, current_shm_name, shm_fd, scheduler_pid, resources,
                 client, processes>>

(* destroy_shared_memory_sync *)
SyncDestroyed(s) == sync' = [sync EXCEPT ![s] = @ \ Primitives]

(* close_and_unlink_shm: first the primitives and the mapping ... *)
Destroy(t) ==
  /\ Go(t, "destroy", "close")
  /\ current_shm # NoSegment
  /\ SyncDestroyed(current_shm)
  /\ mapped' = mapped \ {current_shm}
  /\ UNCHANGED <<created, names, shutdown_flag, posted, statics, fds, client, processes>>

(* ... then the descriptor and the name, and stop() returns.               *)
Closed_KeepsName == UNCHANGED names
Closed == Unlink(current_shm_name)

Forgotten_Not == UNCHANGED current_shm
Forgotten == current_shm' = NoSegment

Close(t) ==
  /\ Go(t, "close", "idle")
  /\ fds' = fds \ {shm_fd} /\ shm_fd' = NoSegment
  /\ Closed
  /\ Forgotten
  /\ UNCHANGED <<created, sync, shutdown_flag, posted, current_shm_name, scheduler_pid,
                 worker_pid, mapped, client, processes>>

--------------------------------------------------------------------------------
(* submitTask and changePriority, by what they use of the segment: a test  *)
(* that there is one, a critical section, and a post after it.  Each of    *)
(* the three reads current_shm again.                                      *)
Check(t) ==
  /\ Go(t, "idle", "put")
  /\ current_shm # NoSegment
  /\ UNCHANGED <<segment, statics, resources, client, processes>>

Put(t) ==
  /\ Go(t, "put", "notify")
  /\ current_shm # NoSegment
  /\ UNCHANGED <<segment, statics, resources, client, processes>>

Notify(t) ==
  /\ Go(t, "notify", "idle")
  /\ current_shm # NoSegment
  /\ UNCHANGED <<segment, statics, resources, client, processes>>

--------------------------------------------------------------------------------
(* A process attaches to the segment that has the name now, or ends.       *)
Boot(p, k) ==
  /\ ppc[p][k] = "boot"
  /\ names[pname[p]] # NoSegment
  /\ ppc' = [ppc EXCEPT ![p][k] = "attached"]
  /\ pseg' = [pseg EXCEPT ![p][k] = names[pname[p]]]
  /\ UNCHANGED <<segment, statics, resources, tpc, client, forked, pname, forked_for>>

BootFails(p, k) ==
  /\ ppc[p][k] = "boot"
  /\ names[pname[p]] = NoSegment \/ "attach" \in Failing
  /\ ppc' = [ppc EXCEPT ![p][k] = "done"]
  /\ UNCHANGED <<segment, statics, resources, tpc, client, forked, pname, forked_for, pseg>>

Leave(p, k) ==
  /\ ppc[p][k] = "attached" /\ shutdown_flag[pseg[p][k]]
  /\ ppc' = [ppc EXCEPT ![p][k] = "done"]
  /\ UNCHANGED <<segment, statics, resources, tpc, client, forked, pname, forked_for, pseg>>

(* The JVM is killed, and another one started: the processes and the names *)
(* stay, its memory does not.                                              *)
Crash ==
  /\ MayCrash
  /\ created > crashed_at
  /\ LateBoot \/ \A p \in Pairs, k \in Kinds : ppc[p][k] # "boot"
  /\ current_shm' = NoSegment /\ current_shm_name' = AnyName /\ shm_fd' = NoSegment
  /\ scheduler_pid' = NoPair /\ worker_pid' = NoPair
  /\ mapped' = {} /\ fds' = {}
  /\ tpc' = [t \in Threads |-> "idle"]
  /\ started' = FALSE
  /\ crashed_at' = created
  /\ UNCHANGED <<segment, processes>>

(* What a thread does once it has begun a call. *)
Continues(t) ==
  \/ Create(t) \/ NotCreated(t) \/ Map(t) \/ NotMapped(t) \/ InitContent(t)
  \/ StopPosts(t) \/ JoinScheduler(t) \/ JoinWorker(t) \/ Destroy(t) \/ Close(t)
  \/ Put(t) \/ Notify(t)

Next ==
  \/ \E t \in Threads : \/ \E n \in Names : Initialize(t, n)
                        \/ Start(t) \/ Stop(t) \/ Check(t)
                        \/ Continues(t)
  \/ \E p \in Pairs, k \in Kinds : Boot(p, k) \/ BootFails(p, k) \/ Leave(p, k)
  \/ Crash

Spec == Init /\ [][Next]_vars

--------------------------------------------------------------------------------
(* Every variable has its type; the primitives of a segment are all there  *)
(* or none is, also when one of them could not be made.                    *)
TypeOK ==
  /\ created \in 0 .. MaxSegments
  /\ names \in [Names -> Segments \cup {NoSegment}]
  /\ sync \in [Segments -> {{}, Primitives}]
  /\ shutdown_flag \in [Segments -> BOOLEAN] /\ posted \in [Segments -> BOOLEAN]
  /\ current_shm \in Segments \cup {NoSegment} /\ shm_fd \in Segments \cup {NoSegment}
  /\ current_shm_name \in Names
  /\ scheduler_pid \in Pairs \cup {NoPair} /\ worker_pid \in Pairs \cup {NoPair}
  /\ mapped \subseteq Segments /\ fds \subseteq Segments
  /\ tpc \in [Threads -> {"idle", "create", "map", "init", "post", "join_scheduler",
                          "join_worker", "destroy", "close", "put", "notify"}]
  /\ started \in BOOLEAN /\ crashed_at \in 0 .. created
  /\ forked \in 0 .. MaxPairs
  /\ ppc \in [Pairs -> [Kinds -> {"unborn", "boot", "attached", "done"}]]
  /\ pname \in [Pairs -> Names]
  /\ forked_for \in [Pairs -> Segments \cup {NoSegment}]
  /\ pseg \in [Pairs -> [Kinds -> Segments \cup {NoSegment}]]

Attached(p, k) == ppc[p][k] = "attached"

(* Both processes of a pair work in the segment that their JVM had when it *)
(* started them, although they find it by a name that is used again, and   *)
(* no other pair works there.                                              *)
OwnSegment ==
  \A p \in Pairs, k \in Kinds : Attached(p, k) =>
    /\ pseg[p][k] = forked_for[p]
    /\ \A q \in Pairs \ {p}, l \in Kinds : Attached(q, l) => pseg[q][l] # pseg[p][k]

(* No step takes the primitives of a segment away from a process that works*)
(* there, or makes them anew under it.                                     *)
SyncKeptWhileUsed ==
  [][\A p \in Pairs, k \in Kinds :
       Attached(p, k) /\ Attached(p, k)' => sync'[pseg[p][k]] = sync[pseg[p][k]]]_vars

(* A call that puts a task into the segment finds it mapped until it has   *)
(* woken the scheduler.                                                    *)
CallsUseMapped ==
  \A t \in Threads : tpc[t] \in {"put", "notify"} => current_shm \in mapped

(* When the JVM has no segment, nothing that it made is left: no mapping,  *)
(* no descriptor, no process to wait for, and no name but that of an object*)
(* that could not be mapped, which no stop() has ended.                    *)
NothingLeft ==
  (\A t \in Threads : tpc[t] = "idle") /\ current_shm = NoSegment =>
    /\ \A n \in Names : names[n] > crashed_at => ~shutdown_flag[names[n]]
    /\ mapped = {} /\ fds = {}
    /\ scheduler_pid = NoPair /\ worker_pid = NoPair

Pid(k) == IF k = "scheduler" THEN scheduler_pid ELSE worker_pid

(* A process that stop() waits for has been told to end: the flag is set   *)
(* and the semaphores are posted in the segment it works in, or in the one *)
(* it will find if it has still to attach.                                 *)
Told(s) == s # NoSegment => shutdown_flag[s] /\ posted[s]

AwaitedAreTold ==
  \A t \in Threads, k \in Kinds :
    tpc[t] \in {"join_scheduler", "join_worker"} /\ Pid(k) # NoPair =>
      /\ Attached(Pid(k), k) => Told(pseg[Pid(k)][k])
      /\ ppc[Pid(k)][k] = "boot" => Told(names[pname[Pid(k)]])
===============================================================================
