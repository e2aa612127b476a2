----------------------------- MODULE SegmentProofs -----------------------------
(***************************************************************************)
(* Theorems about module SegmentLifecycle: the typing of its variables for *)
(* every value of the constants, what a JVM with one calling thread holds  *)
(* between its calls, and the segment and the primitives that the          *)
(* processes of a pair have, also after the JVM was killed and started     *)
(* again.                                                                  *)
(***************************************************************************)
EXTENDS SegmentLifecycle, TLAPS

(* The client of the tests: one thread makes the calls ...                 *)
OneThread == \E t : Threads = {t}

(* ... and no process of a JVM that was killed has still to attach.        *)
NoLateBoot == MayCrash => ~LateBoot

--------------------------------------------------------------------------------
(* What the names are for: of a segment that exists, each of another one,  *)
(* and of none that a stop() of this JVM has ended, but the one it is at.  *)
NamesInv ==
  /\ \A n \in Names : names[n] <= created
  /\ \A n, m \in Names : names[n] = names[m] /\ names[n] # NoSegment => n = m
  /\ \A n \in Names : names[n] > crashed_at /\ names[n] # current_shm
                        => ~shutdown_flag[names[n]]
  /\ \A s \in Segments : s > created => ~shutdown_flag[s]

(* What the JVM has of its segment at each place of a call.                *)
Holds(t) ==
  /\ fds = {shm_fd} \ {NoSegment}
  /\ mapped = IF tpc[t] = "close" THEN {} ELSE {current_shm} \ {NoSegment}
  /\ tpc[t] # "map" => shm_fd = current_shm
  /\ tpc[t] \in {"init", "post", "destroy", "close"} => current_shm # NoSegment
  /\ tpc[t] \in {"create", "map"} => current_shm = NoSegment
  /\ tpc[t] = "create" => names[current_shm_name] = NoSegment
  /\ tpc[t] = "map" => shm_fd # NoSegment

(* The name of the segment it has is that segment's.                       *)
Named == shm_fd # NoSegment =>
  /\ names[current_shm_name] = shm_fd
  /\ crashed_at < shm_fd /\ shm_fd <= created

(* The processes it would wait for are those of its segment.               *)
PidsKept(t) ==
  /\ current_shm = NoSegment \/ tpc[t] \in {"init", "destroy", "close"}
       => scheduler_pid = NoPair /\ worker_pid = NoPair
  /\ tpc[t] = "join_worker" => scheduler_pid = NoPair

JvmInv == NamesInv /\ Named /\ \A t \in Threads : Holds(t) /\ PidsKept(t)

--------------------------------------------------------------------------------
(* A pair belongs to one segment, a segment has at most one pair ...       *)
PairsApart ==
  /\ \A p \in Pairs : p > forked => \A k \in Kinds : ppc[p][k] = "unborn"
  /\ \A p \in 1 .. forked : 1 <= forked_for[p] /\ forked_for[p] <= created
  /\ \A p, q \in 1 .. forked : forked_for[p] = forked_for[q] => p = q

(* ... the one of the JVM's segment was started since its initialize, and  *)
(* the JVM knows the pid of a process of it that has not ended ...         *)
PairKnown(p) ==
  /\ forked_for[p] = shm_fd =>
       started /\ \A t \in Threads : tpc[t] \notin {"map", "init"}
  /\ \A k \in Kinds : forked_for[p] = shm_fd /\ ppc[p][k] # "done" => Pid(k) = p

(* ... a process that has still to attach is of that pair, and one that has*)
(* attached found its own segment.                                         *)
BootOwn(p) == \A k \in Kinds :
  ppc[p][k] = "boot" => forked_for[p] = current_shm /\ pname[p] = current_shm_name
AttachedOwn(p) == \A k \in Kinds : ppc[p][k] = "attached" => pseg[p][k] = forked_for[p]

PairsInv == PairsApart /\ \A p \in 1 .. forked : PairKnown(p) /\ BootOwn(p) /\ AttachedOwn(p)

--------------------------------------------------------------------------------
(* Of the primitives all are left, or none is, also when one of them could *)
(* not be made.                                                            *)
LEMMA MadeAllOrNone == Made \subseteq {{}, Primitives}
<1>1. DOMAIN Primitive = 1 .. 4
  BY DEF Primitive
<1>2. ASSUME NEW k \in 1 .. 4  PROVE Unwound(k) = {}
  <2>1. CASE k = 1
    BY <2>1 DEF Unwound
  <2>2. CASE k = 2
    BY <2>2 DEF Unwound, Destroyed, Primitive
  <2>3. CASE k = 3
    BY <2>3 DEF Unwound, Destroyed, Primitive
  <2>4. CASE k = 4
    BY <2>4 DEF Unwound, Destroyed, Primitive
  <2> QED
    BY <2>1, <2>2, <2>3, <2>4
<1> QED
  BY <1>1, <1>2 DEF Made

(* Init gives every variable its type.                                     *)
LEMMA InitTyped == Init => TypeOK
<1>1. AnyName \in Names
  BY NamesAssumption DEF AnyName
<1>2. ASSUME Init  PROVE created \in 0 .. MaxSegments /\ crashed_at \in 0 .. created
                           /\ forked \in 0 .. MaxPairs
  BY <1>2, BoundsAssumption DEF Init
<1>3. ASSUME Init  PROVE started \in BOOLEAN /\ mapped = {} /\ fds = {}
                           /\ shutdown_flag \in [Segments -> BOOLEAN]
                           /\ posted \in [Segments -> BOOLEAN]
  BY <1>3 DEF Init
<1>4. ASSUME Init
      PROVE  /\ ppc \in [Pairs -> [Kinds -> {"unborn", "boot", "attached", "done"}]]
             /\ pseg \in [Pairs -> [Kinds -> Segments \cup {NoSegment}]]
             /\ tpc \in [Threads -> {"idle"}]
             /\ sync \in [Segments -> {{}, Primitives}]
  BY <1>4 DEF Init
<1>5. ASSUME Init
      PROVE  /\ names \in [Names -> Segments \cup {NoSegment}]
             /\ pname \in [Pairs -> Names]
             /\ forked_for \in [Pairs -> Segments \cup {NoSegment}]
  BY <1>1, <1>5 DEF Init
<1> QED
  BY <1>1, <1>2, <1>3, <1>4, <1>5 DEF Init, TypeOK

(* Every step of a call keeps the types.                                   *)
LEMMA CallTyped ==
  ASSUME TypeOK, NEW t \in Threads,
         (\E n \in Names : Initialize(t, n)) \/ Start(t) \/ Stop(t) \/ Check(t) \/ Continues(t)
  PROVE  TypeOK'
<1> USE BoundsAssumption DEF segment, statics, resources, client, processes
<1>1. ASSUME NEW n \in Names, Initialize(t, n)  PROVE TypeOK'
  BY <1>1 DEF Initialize, Go, Unlink, TypeOK
<1>2. CASE Create(t)
  <2> DEFINE there == names[current_shm_name]
             s == IF there = NoSegment THEN created + 1 ELSE there
  <2>1. /\ s \in Segments
        /\ created' \in 0 .. MaxSegments
        /\ created <= created'
    BY <1>2 DEF Create, TypeOK, Segments, NoSegment
  <2>2. /\ names' = [names EXCEPT ![current_shm_name] = s]
        /\ shm_fd' = s /\ fds' = fds \cup {s}
    BY <1>2 DEF Create
  <2> HIDE DEF s
  <2>3. crashed_at' \in 0 .. created'
    BY <1>2, <2>1 DEF Create, TypeOK
  <2>4. names' \in [Names -> Segments \cup {NoSegment}]
    BY <2>1, <2>2 DEF TypeOK
  <2>5. shm_fd' \in Segments \cup {NoSegment} /\ fds' \subseteq Segments
    BY <2>1, <2>2 DEF TypeOK
  <2>6. tpc' \in [Threads -> {"idle", "create", "map", "init", "post", "join_scheduler",
                             "join_worker", "destroy", "close", "put", "notify"}]
    BY <1>2 DEF Create, Go, TypeOK
  <2> HIDE DEF there
  <2> QED
    BY <1>2, <2>1, <2>3, <2>4, <2>5, <2>6 DEF Create, TypeOK
<1>3. CASE NotCreated(t)
  BY <1>3 DEF NotCreated, Go, TypeOK
<1>4. CASE Map(t)
  BY <1>4 DEF Map, Go, TypeOK
<1>5. CASE NotMapped(t)
  BY <1>5 DEF NotMapped, Go, TypeOK
<1>6. CASE InitContent(t)
  <2>1. PICK made \in Made : sync' = [sync EXCEPT ![current_shm] = made]
    BY <1>6 DEF InitContent
  <2>2. sync' \in [Segments -> {{}, Primitives}]
    BY <2>1, MadeAllOrNone DEF TypeOK
  <2> QED
    BY <1>6, <2>2 DEF InitContent, Go, TypeOK
<1>7. CASE Start(t)
  <2> DEFINE p == forked + 1
  <2>1. p \in Pairs /\ p \in 0 .. MaxPairs
    BY <1>7 DEF Start, TypeOK, Pairs
  <2>2. PICK s \in Forked, w \in Forked :
          /\ ppc' = [ppc EXCEPT ![p] = [k \in Kinds |-> IF k = "scheduler" THEN s ELSE w]]
          /\ scheduler_pid' = IF s = "boot" THEN p ELSE NoPair
          /\ worker_pid' = IF w = "boot" THEN p ELSE NoPair
          /\ pname' = [pname EXCEPT ![p] = current_shm_name]
          /\ forked_for' = [forked_for EXCEPT ![p] = current_shm]
          /\ forked' = p
    BY <1>7 DEF Start
  <2> HIDE DEF p
  <2>3. s \in {"boot", "done"} /\ w \in {"boot", "done"}
    BY DEF Forked
  <2>4. ppc' \in [Pairs -> [Kinds -> {"unborn", "boot", "attached", "done"}]]
    BY <2>1, <2>2, <2>3 DEF TypeOK
  <2> QED
    BY <1>7, <2>1, <2>2, <2>4 DEF Start, TypeOK
<1>8. CASE Stop(t)
  BY <1>8 DEF Stop, Go, TypeOK
<1>9. CASE StopPosts(t)
  BY <1>9 DEF StopPosts, Go, Posted, TypeOK
<1>10. CASE JoinScheduler(t)
  BY <1>10 DEF JoinScheduler, Go, TypeOK
<1>11. CASE JoinWorker(t)
  BY <1>11 DEF JoinWorker, Go, TypeOK
<1>12. CASE Destroy(t)
  <2>1. sync' \in [Segments -> {{}, Primitives}]
    BY <1>12 DEF Destroy, SyncDestroyed, TypeOK
  <2> QED
    BY <1>12, <2>1 DEF Destroy, Go, TypeOK
<1>13. CASE Close(t)
  BY <1>13 DEF Close, Closed, Forgotten, Unlink, Go, TypeOK
<1>14. CASE Check(t) \/ Put(t) \/ Notify(t)
  BY <1>14 DEF Check, Put, Notify, Go, TypeOK
<1> QED
  BY <1>1, <1>2, <1>3, <1>4, <1>5, <1>6, <1>7, <1>8, <1>9, <1>10, <1>11, <1>12, <1>13, <1>14
     DEF Continues

(* So does every step of a process, and the end of the JVM.                *)
LEMMA ProcessTyped ==
  ASSUME TypeOK, NEW p \in Pairs, NEW k \in Kinds,
         Boot(p, k) \/ BootFails(p, k) \/ Leave(p, k)
  PROVE  TypeOK'
<1> USE BoundsAssumption DEF segment, statics, resources, client, processes
<1>1. CASE Boot(p, k)
  <2>1. /\ ppc' \in [Pairs -> [Kinds -> {"unborn", "boot", "attached", "done"}]]
        /\ pseg' \in [Pairs -> [Kinds -> Segments \cup {NoSegment}]]
    BY <1>1 DEF Boot, TypeOK
  <2> QED
    BY <1>1, <2>1 DEF Boot, TypeOK
<1>2. CASE BootFails(p, k) \/ Leave(p, k)
  <2>1. ppc' = [ppc EXCEPT ![p][k] = "done"]
    BY <1>2 DEF BootFails, Leave
  <2>2. ppc' \in [Pairs -> [Kinds -> {"unborn", "boot", "attached", "done"}]]
    BY <2>1 DEF TypeOK
  <2> QED
    BY <1>2, <2>2 DEF BootFails, Leave, TypeOK
<1> QED
  BY <1>1, <1>2

(* The end of the JVM too.                                                 *)
LEMMA CrashTyped == ASSUME TypeOK, Crash  PROVE TypeOK'
<1>1. AnyName \in Names
  BY NamesAssumption DEF AnyName
<1>2. created' \in 0 .. MaxSegments /\ crashed_at' \in 0 .. created'
  BY DEF Crash, segment, TypeOK
<1>3. /\ tpc' = [t \in Threads |-> "idle"] /\ started' = FALSE
      /\ current_shm' = NoSegment /\ current_shm_name' \in Names /\ shm_fd' = NoSegment
      /\ scheduler_pid' = NoPair /\ worker_pid' = NoPair /\ mapped' = {} /\ fds' = {}
  BY <1>1 DEF Crash
<1>4. UNCHANGED <<names, sync, shutdown_flag, posted, processes>>
  BY DEF Crash, segment
<1> QED
  BY <1>2, <1>3, <1>4 DEF TypeOK, processes

(* Every step keeps the types.                                             *)
LEMMA StepTyped == TypeOK /\ [Next]_vars => TypeOK'
<1> SUFFICES ASSUME TypeOK, [Next]_vars  PROVE TypeOK'
  OBVIOUS
<1>1. CASE UNCHANGED vars
  BY <1>1 DEF vars, segment, statics, resources, client, processes, TypeOK
<1> QED
  BY <1>1, CallTyped, ProcessTyped, CrashTyped DEF Next

(* Every variable has its type, and a segment has all of its primitives or *)
(* none (init_shared_memory_sync's paths of failure), whoever calls.       *)
THEOREM SegmentTyping == Spec => []TypeOK
BY InitTyped, StepTyped, PTL DEF Spec

--------------------------------------------------------------------------------
(* A call of the only thread that has found a segment keeps it, mapped.    *)
MappedInv == \A t \in Threads :
  /\ tpc[t] # "close" /\ current_shm # NoSegment => current_shm \in mapped
  /\ tpc[t] \in {"put", "notify"} => current_shm # NoSegment

(* Nothing is mapped at first, and no call has begun.                      *)
LEMMA InitMapped == Init => MappedInv
BY DEF Init, MappedInv

(* Only the thread itself takes its segment away, in another call.         *)
LEMMA StepMapped == TypeOK /\ MappedInv /\ OneThread /\ [Next]_vars => MappedInv'
<1> SUFFICES ASSUME TypeOK, MappedInv, OneThread, [Next]_vars  PROVE MappedInv'
  OBVIOUS
<1> USE DEF segment, statics, resources, client, processes
<1>1. ASSUME NEW t \in Threads,
             (\E n \in Names : Initialize(t, n)) \/ Start(t) \/ Stop(t) \/ Check(t)
             \/ Create(t) \/ Put(t) \/ Notify(t) \/ StopPosts(t) \/ JoinScheduler(t)
             \/ JoinWorker(t) \/ InitContent(t)
      PROVE  MappedInv'
  <2>1. UNCHANGED mapped /\ UNCHANGED current_shm
    BY <1>1 DEF Initialize, Start, Stop, Check, Create, Put, Notify,
                StopPosts, JoinScheduler, JoinWorker, InitContent
  <2>2. tpc[t] # "close"
    BY <1>1 DEF Initialize, Start, Stop, Check, Create, Put, Notify,
                StopPosts, JoinScheduler, JoinWorker, InitContent, Go
  <2>3. tpc'[t] \in {"put", "notify"} => current_shm # NoSegment
    BY <1>1 DEF Initialize, Start, Stop, Check, Create, Put, Notify,
                StopPosts, JoinScheduler, JoinWorker, InitContent, Go, TypeOK
  <2> QED
    BY <2>1, <2>2, <2>3 DEF MappedInv, OneThread
<1>2. ASSUME NEW t \in Threads,
             NotCreated(t) \/ NotMapped(t) \/ Map(t) \/ Destroy(t) \/ Close(t)
      PROVE  MappedInv'
  <2>1. tpc' = [tpc EXCEPT ![t] = "idle"] \/ tpc' = [tpc EXCEPT ![t] = "init"]
        \/ tpc' = [tpc EXCEPT ![t] = "close"]
    BY <1>2 DEF NotCreated, NotMapped, Map, Destroy, Close, Go
  <2>2. \A u \in Threads : tpc'[u] \in {"idle", "init", "close"}
    BY <2>1 DEF OneThread, TypeOK
  <2>3. tpc'[t] = "close" \/ current_shm' = NoSegment \/ current_shm' \in mapped'
    BY <1>2, <2>2 DEF NotCreated, NotMapped, Map, Destroy, Close, Forgotten, Go, TypeOK
  <2> QED
    BY <2>2, <2>3 DEF MappedInv, OneThread
<1>3. ASSUME NEW p \in Pairs, NEW k \in Kinds, Boot(p, k) \/ BootFails(p, k) \/ Leave(p, k)
      PROVE  MappedInv'
  BY <1>3 DEF Boot, BootFails, Leave, MappedInv
<1>4. CASE Crash
  BY <1>4 DEF Crash, MappedInv
<1>5. CASE UNCHANGED vars
  BY <1>5 DEF vars, MappedInv
<1> QED
  BY <1>1, <1>2, <1>3, <1>4, <1>5 DEF Next, Continues

(* A submitTask or changePriority of the only thread finds the segment     *)
(* mapped until it has woken the scheduler, in whatever order that thread  *)
(* calls initialize, start and stop.                                       *)
THEOREM SegmentCallsUseMapped == OneThread => (Spec => []CallsUseMapped)
<1>1. ASSUME OneThread  PROVE TypeOK /\ MappedInv /\ [Next]_vars => MappedInv'
  BY <1>1, StepMapped
<1>2. MappedInv => CallsUseMapped
  BY DEF MappedInv, CallsUseMapped
<1>3. ASSUME OneThread  PROVE Spec => []CallsUseMapped
  BY <1>1, <1>3, <1>2, InitMapped, InitTyped, StepTyped, PTL DEF Spec
<1> QED
  BY <1>3

--------------------------------------------------------------------------------
(* What the JVM holds: at first nothing.                                   *)
LEMMA InitJvm == Init => JvmInv
<1> SUFFICES ASSUME Init  PROVE JvmInv
  OBVIOUS
<1>1. NamesInv
  BY DEF Init, NamesInv, NoSegment
<1>2. Named /\ \A t \in Threads : Holds(t) /\ PidsKept(t)
  BY DEF Init, Named, Holds, PidsKept
<1> QED
  BY <1>1, <1>2 DEF JvmInv

(* The segments and the numbers of the segments are apart from NULL.       *)
LEMMA SegmentsAbove == \A s \in Segments : s \in Int /\ s > NoSegment
BY BoundsAssumption DEF Segments, NoSegment

(* initialize and its failures: a new object has a number of its own, and  *)
(* the name that was removed before is its.                                *)
LEMMA InitializeJvm ==
  ASSUME TypeOK, JvmInv, InTurn, NEW t \in Threads,
         (\E n \in Names : Initialize(t, n)) \/ Create(t) \/ NotCreated(t) \/ NotMapped(t)
         \/ Map(t) \/ InitContent(t)
  PROVE  NamesInv' /\ Named' /\ Holds(t)' /\ PidsKept(t)'
<1> USE DEF segment, statics, resources, client, processes
<1>1. NamesInv /\ Named /\ Holds(t) /\ PidsKept(t)
  BY DEF JvmInv
<1>2. ASSUME NEW n \in Names, Initialize(t, n)
      PROVE  NamesInv' /\ Named' /\ Holds(t)' /\ PidsKept(t)'
  <2>1. /\ tpc[t] = "idle" /\ tpc'[t] = "create"
        /\ current_shm = NoSegment /\ current_shm_name' = n
        /\ names' = [names EXCEPT ![n] = NoSegment]
        /\ UNCHANGED <<created, sync, shutdown_flag, posted, current_shm, shm_fd, scheduler_pid,
                       worker_pid, mapped, fds, started, crashed_at>>
    BY <1>2 DEF Initialize, Go, Unlink, TypeOK
  <2>2. NamesInv'
    BY <1>1, <2>1 DEF NamesInv, TypeOK, NoSegment
  <2>3. Named' /\ Holds(t)' /\ PidsKept(t)'
    BY <1>1, <2>1 DEF Named, Holds, PidsKept, TypeOK
  <2> QED
    BY <2>2, <2>3
<1>3. CASE Create(t)
  <2>1. /\ tpc[t] = "create" /\ tpc'[t] = "map"
        /\ created < MaxSegments /\ created' = created + 1
        /\ names' = [names EXCEPT ![current_shm_name] = created + 1]
        /\ shm_fd' = created + 1 /\ fds' = {created + 1}
        /\ UNCHANGED <<sync, shutdown_flag, posted, current_shm, current_shm_name,
                       scheduler_pid, worker_pid, mapped, started, crashed_at>>
    BY <1>1, <1>3 DEF Create, Go, TypeOK, Holds
  <2>2. created + 1 \in Segments /\ current_shm = NoSegment
    BY <1>1, <2>1, BoundsAssumption DEF TypeOK, Segments, Holds
  <2>3. NamesInv'
    <3> DEFINE s == created + 1
    <3>1. \A n \in Names : names'[n] = IF n = current_shm_name THEN s ELSE names[n]
      BY <2>1 DEF TypeOK
    <3>2. \A n \in Names : names[n] \in Int /\ names[n] <= created
      BY <1>1 DEF NamesInv, TypeOK, Segments, NoSegment
    <3>3. s \in Int /\ s > created /\ created \in Int /\ ~shutdown_flag[s]
      BY <1>1, <2>2 DEF NamesInv, TypeOK
    <3>4. \A n \in Names : names'[n] <= created' /\ names'[n] \in Int
      BY <2>1, <3>1, <3>2, <3>3
    <3>5. \A n, m \in Names : names'[n] = names'[m] /\ names'[n] # NoSegment => n = m
      BY <1>1, <3>1, <3>2, <3>3 DEF NamesInv
    <3>6. \A n \in Names : names'[n] > crashed_at /\ names'[n] # current_shm
                             => ~shutdown_flag[names'[n]]
      BY <1>1, <3>1, <3>3 DEF NamesInv
    <3>7. \A u \in Segments : u > created + 1 => ~shutdown_flag[u]
      BY <1>1, SegmentsAbove DEF NamesInv, TypeOK
    <3> QED
      BY <2>1, <3>4, <3>5, <3>6, <3>7 DEF NamesInv
  <2>4. Named'
    BY <1>1, <2>1, <2>2 DEF Named, TypeOK
  <2>5. Holds(t)' /\ PidsKept(t)'
    BY <1>1, <2>1, <2>2, SegmentsAbove DEF Holds, PidsKept
  <2> QED
    BY <2>3, <2>4, <2>5
<1>4. CASE NotCreated(t) \/ NotMapped(t)
  <2>1. /\ tpc[t] \in {"create", "map"} /\ tpc'[t] = "idle"
        /\ fds' = {} /\ shm_fd' = NoSegment /\ current_shm' = NoSegment
        /\ UNCHANGED <<created, names, sync, shutdown_flag, posted, current_shm_name,
                       scheduler_pid, worker_pid, mapped, started, crashed_at>>
    BY <1>1, <1>4 DEF NotCreated, NotMapped, Go, TypeOK, Holds
  <2>2. current_shm = NoSegment
    BY <1>1, <2>1 DEF Holds
  <2>3. NamesInv'
    BY <1>1, <2>1, <2>2 DEF NamesInv
  <2>4. Named' /\ Holds(t)' /\ PidsKept(t)'
    BY <1>1, <2>1, <2>2 DEF Named, Holds, PidsKept
  <2> QED
    BY <2>3, <2>4
<1>5. CASE Map(t)
  <2>1. /\ tpc[t] = "map" /\ tpc'[t] = "init"
        /\ shm_fd # NoSegment /\ current_shm' = shm_fd /\ current_shm = NoSegment
        /\ mapped' = {shm_fd}
        /\ UNCHANGED <<created, names, sync, shutdown_flag, posted, current_shm_name, shm_fd,
                       scheduler_pid, worker_pid, fds, started, crashed_at>>
    BY <1>1, <1>5 DEF Map, Go, TypeOK, Holds
  <2>2. NamesInv'
    BY <1>1, <2>1, SegmentsAbove DEF NamesInv, TypeOK, NoSegment
  <2>3. Named' /\ Holds(t)' /\ PidsKept(t)'
    BY <1>1, <2>1 DEF Named, Holds, PidsKept
  <2> QED
    BY <2>2, <2>3
<1>6. CASE InitContent(t)
  <2>1. /\ tpc[t] = "init" /\ tpc'[t] = "idle"
        /\ current_shm # NoSegment
        /\ shutdown_flag' = [shutdown_flag EXCEPT ![current_shm] = FALSE]
        /\ UNCHANGED <<created, names, current_shm, current_shm_name, shm_fd,
                       scheduler_pid, worker_pid, mapped, fds, crashed_at>>
    BY <1>1, <1>6 DEF InitContent, Go, TypeOK
  <2>2. NamesInv'
    BY <1>1, <2>1, SegmentsAbove DEF NamesInv, TypeOK, NoSegment
  <2>3. Named' /\ Holds(t)' /\ PidsKept(t)'
    BY <1>1, <2>1 DEF Named, Holds, PidsKept
  <2> QED
    BY <2>2, <2>3
<1> QED
  BY <1>2, <1>3, <1>4, <1>5, <1>6

(* start and stop: the flag is that of the JVM's own segment, and stop()   *)
(* leaves its name to nothing.                                             *)
LEMMA StopJvm ==
  ASSUME TypeOK, JvmInv, NEW t \in Threads,
         Start(t) \/ Stop(t) \/ StopPosts(t) \/ JoinScheduler(t) \/ JoinWorker(t)
         \/ Destroy(t) \/ Close(t) \/ Check(t) \/ Put(t) \/ Notify(t)
  PROVE  NamesInv' /\ Named' /\ Holds(t)' /\ PidsKept(t)'
<1> USE DEF segment, statics, resources, client, processes
<1>1. NamesInv /\ Named /\ Holds(t) /\ PidsKept(t)
  BY DEF JvmInv
<1>2. ASSUME Start(t) \/ Stop(t), NEW b \in BOOLEAN, current_shm # NoSegment,
             shutdown_flag' = [shutdown_flag EXCEPT ![current_shm] = b]
      PROVE  NamesInv'
  <2>1. UNCHANGED <<created, names, current_shm, crashed_at>>
    BY <1>2 DEF Start, Stop
  <2>2. current_shm \in Segments /\ current_shm <= created
    BY <1>1, <1>2 DEF Named, Holds, TypeOK, Start, Stop, Go
  <2>3. \A s \in Segments : s # current_shm => shutdown_flag'[s] = shutdown_flag[s]
    BY <1>2 DEF TypeOK
  <2>4. \A n \in Names : names[n] > crashed_at => names[n] \in Segments
    BY DEF TypeOK, NoSegment
  <2>5. \A n \in Names : names[n] > crashed_at /\ names[n] # current_shm
                           => ~shutdown_flag'[names[n]]
    BY <1>1, <2>3, <2>4 DEF NamesInv
  <2>6. \A s \in Segments : s > created => ~shutdown_flag'[s]
    BY <1>1, <2>2, <2>3, SegmentsAbove DEF NamesInv, TypeOK
  <2> QED
    BY <1>1, <2>1, <2>5, <2>6 DEF NamesInv
<1>3. CASE Start(t)
  <2>1. /\ tpc[t] = "idle" /\ current_shm # NoSegment
        /\ shutdown_flag' = [shutdown_flag EXCEPT ![current_shm] = FALSE]
        /\ UNCHANGED <<created, names, current_shm, current_shm_name, shm_fd, mapped, fds, tpc,
                       crashed_at>>
    BY <1>3 DEF Start
  <2>2. NamesInv'
    BY <1>2, <1>3, <2>1
  <2>3. Named' /\ Holds(t)' /\ PidsKept(t)'
    BY <1>1, <2>1 DEF Named, Holds, PidsKept
  <2> QED
    BY <2>2, <2>3
<1>4. CASE Stop(t)
  <2>1. /\ tpc[t] = "idle"
        /\ tpc'[t] = IF current_shm = NoSegment THEN "join_scheduler" ELSE "post"
        /\ UNCHANGED <<created, names, current_shm, current_shm_name, shm_fd, mapped, fds,
                       scheduler_pid, worker_pid, crashed_at>>
    BY <1>4 DEF Stop, Go, TypeOK
  <2>2. NamesInv'
    <3>1. CASE current_shm = NoSegment
      BY <1>1, <1>4, <2>1, <3>1 DEF Stop, NamesInv
    <3>2. CASE current_shm # NoSegment
      BY <1>2, <1>4, <3>2 DEF Stop
    <3> QED
      BY <3>1, <3>2
  <2>3. Named' /\ Holds(t)' /\ PidsKept(t)'
    BY <1>1, <2>1 DEF Named, Holds, PidsKept
  <2> QED
    BY <2>2, <2>3
<1>5. CASE StopPosts(t) \/ Check(t) \/ Put(t) \/ Notify(t)
  <2>1. /\ tpc[t] \in {"post", "idle", "put", "notify"}
        /\ tpc'[t] \in {"join_scheduler", "idle", "put", "notify"}
        /\ current_shm # NoSegment
        /\ UNCHANGED <<created, names, shutdown_flag, current_shm, current_shm_name, shm_fd,
                       mapped, fds, scheduler_pid, worker_pid, crashed_at>>
    BY <1>5 DEF StopPosts, Check, Put, Notify, Go, TypeOK
  <2>2. NamesInv'
    BY <1>1, <2>1 DEF NamesInv
  <2>3. Named' /\ Holds(t)' /\ PidsKept(t)'
    BY <1>1, <2>1 DEF Named, Holds, PidsKept
  <2> QED
    BY <2>2, <2>3
<1>6. CASE JoinScheduler(t) \/ JoinWorker(t)
  <2>1. /\ \/ /\ tpc[t] = "join_scheduler" /\ tpc'[t] = "join_worker"
              /\ scheduler_pid' = NoPair /\ UNCHANGED worker_pid
           \/ /\ tpc[t] = "join_worker"
              /\ tpc'[t] = IF current_shm = NoSegment THEN "idle" ELSE "destroy"
              /\ worker_pid' = NoPair /\ UNCHANGED scheduler_pid
        /\ UNCHANGED <<created, names, shutdown_flag, current_shm, current_shm_name, shm_fd,
                       mapped, fds, crashed_at>>
    BY <1>6 DEF JoinScheduler, JoinWorker, Go, TypeOK
  <2>2. NamesInv'
    BY <1>1, <2>1 DEF NamesInv
  <2>3. Named' /\ Holds(t)'
    BY <1>1, <2>1 DEF Named, Holds
  <2>4. PidsKept(t)'
    BY <1>1, <2>1 DEF PidsKept
  <2> QED
    BY <2>2, <2>3, <2>4
<1>7. CASE Destroy(t)
  <2>1. /\ tpc[t] = "destroy" /\ tpc'[t] = "close"
        /\ current_shm # NoSegment /\ mapped' = {}
        /\ UNCHANGED <<created, names, shutdown_flag, current_shm, current_shm_name, shm_fd,
                       fds, scheduler_pid, worker_pid, crashed_at>>
    BY <1>1, <1>7 DEF Destroy, Go, TypeOK, Holds
  <2>2. NamesInv'
    BY <1>1, <2>1 DEF NamesInv
  <2>3. Named' /\ Holds(t)' /\ PidsKept(t)'
    BY <1>1, <2>1 DEF Named, Holds, PidsKept
  <2> QED
    BY <2>2, <2>3
<1>8. CASE Close(t)
  <2>1. /\ tpc[t] = "close" /\ tpc'[t] = "idle"
        /\ current_shm # NoSegment /\ shm_fd = current_shm /\ names[current_shm_name] = current_shm
        /\ names' = [names EXCEPT ![current_shm_name] = NoSegment]
        /\ current_shm' = NoSegment /\ shm_fd' = NoSegment /\ fds' = {} /\ mapped' = {}
        /\ UNCHANGED <<created, shutdown_flag, current_shm_name, scheduler_pid, worker_pid,
                       crashed_at>>
    BY <1>1, <1>8 DEF Close, Closed, Unlink, Forgotten, Go, TypeOK, Holds, Named
  <2>2. NamesInv'
    <3>1. \A n \in Names : \/ names'[n] = names[n] /\ names[n] # current_shm
                           \/ names'[n] = NoSegment
      BY <1>1, <2>1 DEF NamesInv, TypeOK
    <3> QED
      BY <1>1, <2>1, <3>1 DEF NamesInv, TypeOK, NoSegment
  <2>3. Named' /\ Holds(t)' /\ PidsKept(t)'
    BY <1>1, <2>1 DEF Named, Holds, PidsKept
  <2> QED
    BY <2>2, <2>3
<1> QED
  BY <1>3, <1>4, <1>5, <1>6, <1>7, <1>8

(* Every step keeps what the JVM holds in order; one that is killed holds  *)
(* nothing, and what is left of it is from before.                         *)
LEMMA StepJvm == TypeOK /\ JvmInv /\ OneThread /\ InTurn /\ [Next]_vars => JvmInv'
<1> SUFFICES ASSUME TypeOK, JvmInv, OneThread, InTurn, [Next]_vars  PROVE JvmInv'
  OBVIOUS
<1> USE DEF segment, statics, resources, client, processes
<1>1. ASSUME NEW t \in Threads, NamesInv' /\ Named' /\ Holds(t)' /\ PidsKept(t)'
      PROVE  JvmInv'
  <2>1. \A u \in Threads : u = t
    BY DEF OneThread
  <2>2. \A u \in Threads : Holds(u)' /\ PidsKept(u)'
    BY <1>1, <2>1
  <2> QED
    BY <1>1, <2>2 DEF JvmInv
<1>2. ASSUME NEW t \in Threads,
             (\E n \in Names : Initialize(t, n)) \/ Start(t) \/ Stop(t) \/ Check(t)
             \/ Continues(t)
      PROVE  JvmInv'
  BY <1>1, <1>2, InitializeJvm, StopJvm DEF Continues
<1>3. CASE (\E p \in Pairs, k \in Kinds : Boot(p, k) \/ BootFails(p, k) \/ Leave(p, k))
           \/ UNCHANGED vars
  <2>1. UNCHANGED <<segment, statics, resources, tpc, client>>
    BY <1>3 DEF Boot, BootFails, Leave, vars
  <2> QED
    BY <2>1 DEF JvmInv, NamesInv, Named, Holds, PidsKept
<1>4. CASE Crash
  <2>1. /\ current_shm' = NoSegment /\ shm_fd' = NoSegment
        /\ scheduler_pid' = NoPair /\ worker_pid' = NoPair /\ mapped' = {} /\ fds' = {}
        /\ crashed_at' = created
        /\ UNCHANGED <<created, names, shutdown_flag>>
        /\ \A t \in Threads : tpc'[t] = "idle"
    BY <1>4 DEF Crash
  <2>2. NamesInv'
    BY <2>1, SegmentsAbove DEF JvmInv, NamesInv, TypeOK, NoSegment
  <2>3. Named' /\ \A t \in Threads : Holds(t)' /\ PidsKept(t)'
    BY <2>1 DEF Named, Holds, PidsKept
  <2> QED
    BY <2>2, <2>3 DEF JvmInv
<1> QED
  BY <1>2, <1>3, <1>4 DEF Next

(* When a JVM that calls in turn has no segment, nothing of the one it had *)
(* is left: close_and_unlink_shm has given back what create_or_open_shm,   *)
(* map_shm and start took, also over failures and over a JVM before it that*)
(* was killed.                                                             *)
THEOREM SegmentNothingLeft == OneThread /\ InTurn => (Spec => []NothingLeft)
<1>1. ASSUME OneThread, TypeOK, JvmInv  PROVE NothingLeft
  <2> SUFFICES ASSUME \A t \in Threads : tpc[t] = "idle", current_shm = NoSegment
               PROVE  /\ \A n \in Names : names[n] > crashed_at => ~shutdown_flag[names[n]]
                      /\ mapped = {} /\ fds = {}
                      /\ scheduler_pid = NoPair /\ worker_pid = NoPair
    BY DEF NothingLeft
  <2>1. PICK t \in Threads : tpc[t] = "idle"
    BY <1>1 DEF OneThread
  <2>2. NamesInv /\ Holds(t) /\ PidsKept(t)
    BY <1>1 DEF JvmInv
  <2>3. /\ mapped = {} /\ fds = {} /\ scheduler_pid = NoPair /\ worker_pid = NoPair
    BY <2>1, <2>2 DEF Holds, PidsKept
  <2>4. ASSUME NEW n \in Names, names[n] > crashed_at  PROVE ~shutdown_flag[names[n]]
    <3>1. CASE names[n] = NoSegment
      BY <1>1, <2>4, <3>1 DEF NoSegment, TypeOK
    <3>2. CASE names[n] # NoSegment
      BY <2>2, <2>4, <3>2 DEF NamesInv
    <3> QED
      BY <3>1, <3>2
  <2> QED
    BY <2>3, <2>4
<1>2. ASSUME OneThread, InTurn  PROVE Spec => []NothingLeft
  <2>1. TypeOK /\ JvmInv /\ [Next]_vars => JvmInv'
    BY <1>2, StepJvm
  <2>2. JvmInv /\ TypeOK => NothingLeft
    BY <1>1, <1>2
  <2> QED
    BY <2>1, <2>2, InitJvm, InitTyped, StepTyped, PTL DEF Spec
<1> QED
  BY <1>2

--------------------------------------------------------------------------------
(* No pair at first.                                                       *)
LEMMA InitPairs == Init => PairsInv
<1> SUFFICES ASSUME Init  PROVE PairsInv
  OBVIOUS
<1>1. forked = 0 /\ \A p \in Pairs : \A k \in Kinds : ppc[p][k] = "unborn"
  BY DEF Init
<1>2. \A p \in 1 .. forked : FALSE
  BY <1>1
<1> QED
  BY <1>1, <1>2 DEF PairsInv, PairsApart

(* The pairs that were started are among those that may be.                *)
LEMMA ForkedPairs == TypeOK => forked \in Nat /\ 1 .. forked \subseteq Pairs
BY BoundsAssumption DEF TypeOK, Pairs

(* A step of the JVM that starts no pair leaves the pairs apart.           *)
LEMMA QuietPairs ==
  ASSUME TypeOK, TypeOK', PairsApart, created <= created', UNCHANGED processes
  PROVE  PairsApart'
<1>1. created \in Int /\ created' \in Int /\ \A p \in 1 .. forked : forked_for[p] \in Int
  BY ForkedPairs, BoundsAssumption DEF TypeOK, Segments, NoSegment
<1> QED
  BY <1>1 DEF PairsApart, processes

(* initialize: no pair has the number of a new segment, and there is none  *)
(* of the JVM's segment when it has none.                                  *)
LEMMA InitializePairs ==
  ASSUME TypeOK, TypeOK', JvmInv, PairsInv, OneThread, InTurn, NEW t \in Threads,
         (\E n \in Names : Initialize(t, n)) \/ Create(t) \/ NotCreated(t) \/ NotMapped(t)
         \/ Map(t) \/ InitContent(t)
  PROVE  PairsInv'
<1> USE DEF segment, statics, resources, client
<1>1. Holds(t) /\ Named /\ PairsApart
  BY DEF JvmInv, PairsInv
<1>2. UNCHANGED processes
  BY DEF Initialize, Create, NotCreated, NotMapped, Map, InitContent
<1>3. created \in Int /\ created' \in Int /\ created <= created'
  BY DEF Initialize, Create, NotCreated, NotMapped, Map, InitContent, TypeOK
<1>4. PairsApart'
  BY <1>1, <1>2, <1>3, QuietPairs
<1>5. \A u \in Threads : u = t
  BY DEF OneThread
<1>6. ASSUME NEW p \in 1 .. forked  PROVE PairKnown(p)' /\ BootOwn(p)' /\ AttachedOwn(p)'
  <2>1. /\ PairKnown(p) /\ BootOwn(p) /\ AttachedOwn(p)
        /\ forked_for[p] \in Int /\ forked_for[p] # NoSegment /\ forked_for[p] <= created
        /\ p # NoPair
    BY <1>1, ForkedPairs, BoundsAssumption
       DEF PairsInv, PairsApart, TypeOK, Segments, NoSegment, NoPair
  <2>2. AttachedOwn(p)'
    BY <1>2, <2>1 DEF AttachedOwn, processes
  <2>3. ASSUME tpc[t] \in {"idle", "create", "map"}, current_shm = NoSegment
        PROVE  BootOwn(p)'
    BY <1>2, <2>1, <2>3 DEF BootOwn, processes
  <2>4. ASSUME shm_fd' = NoSegment \/ shm_fd' > created  PROVE PairKnown(p)'
    <3>1. shm_fd' \in Int
      BY <2>4 DEF TypeOK, Segments, NoSegment
    <3>2. forked_for'[p] # shm_fd'
      BY <1>2, <1>3, <2>1, <2>4, <3>1 DEF processes
    <3> QED
      BY <3>2 DEF PairKnown
  <2>5. ASSUME NEW n \in Names, Initialize(t, n)  PROVE PairKnown(p)' /\ BootOwn(p)'
    BY <1>1, <2>3, <2>4, <2>5 DEF Initialize, Go, Holds
  <2>6. CASE Create(t)
    <3>1. shm_fd' = created + 1 /\ current_shm = NoSegment /\ tpc[t] = "create"
      BY <1>1, <2>6 DEF Create, Go, Holds
    <3> QED
      BY <1>3, <2>2, <2>3, <2>4, <3>1
  <2>7. CASE NotCreated(t) \/ NotMapped(t)
    <3>1. shm_fd' = NoSegment /\ current_shm = NoSegment /\ tpc[t] \in {"create", "map"}
      BY <1>1, <2>7 DEF NotCreated, NotMapped, Go, Holds
    <3> QED
      BY <2>2, <2>3, <2>4, <3>1
  <2>8. CASE Map(t)
    <3>1. /\ tpc[t] = "map" /\ current_shm = NoSegment
          /\ UNCHANGED <<shm_fd, started, scheduler_pid, worker_pid>>
      BY <1>1, <2>8 DEF Map, Go, Holds
    <3>2. forked_for[p] # shm_fd
      BY <2>1, <3>1 DEF PairKnown
    <3>3. PairKnown(p)'
      BY <1>2, <3>1, <3>2 DEF PairKnown, processes
    <3> QED
      BY <2>2, <2>3, <3>1, <3>3
  <2>9. CASE InitContent(t)
    <3>1. /\ tpc[t] = "init"
          /\ UNCHANGED <<shm_fd, current_shm, current_shm_name, scheduler_pid, worker_pid>>
      BY <2>9 DEF InitContent, Go
    <3>2. forked_for[p] # shm_fd
      BY <2>1, <3>1 DEF PairKnown
    <3>3. PairKnown(p)'
      BY <1>2, <3>1, <3>2 DEF PairKnown, processes
    <3>4. BootOwn(p)'
      BY <1>2, <2>1, <3>1 DEF BootOwn, processes
    <3> QED
      BY <2>2, <3>3, <3>4
  <2> QED
    BY <2>2, <2>5, <2>6, <2>7, <2>8, <2>9
<1>7. forked' = forked
  BY <1>2 DEF processes
<1> QED
  BY <1>4, <1>6, <1>7 DEF PairsInv

(* stop(): a pid is forgotten when its process has ended, and the segment  *)
(* when both have; the other calls touch none of this.                     *)
LEMMA StopPairs ==
  ASSUME TypeOK, TypeOK', JvmInv, PairsInv, OneThread, NEW t \in Threads,
         Stop(t) \/ StopPosts(t) \/ JoinScheduler(t) \/ JoinWorker(t)
         \/ Destroy(t) \/ Close(t) \/ Check(t) \/ Put(t) \/ Notify(t)
  PROVE  PairsInv'
<1> USE DEF segment, statics, resources, client
<1>1. Holds(t) /\ PidsKept(t) /\ PairsApart
  BY DEF JvmInv, PairsInv
<1>2. UNCHANGED <<processes, created, started>>
  BY DEF Stop, StopPosts, JoinScheduler, JoinWorker, Destroy, Close, Check, Put, Notify
<1>3. PairsApart'
  BY <1>1, <1>2, QuietPairs DEF TypeOK
<1>4. \A u \in Threads : tpc'[u] \notin {"map", "init"}
  <2>1. tpc'[t] \notin {"map", "init"}
    BY DEF Stop, StopPosts, JoinScheduler, JoinWorker, Destroy, Close, Check, Put, Notify, Go,
           TypeOK
  <2> QED
    BY <2>1 DEF OneThread
<1>5. ASSUME NEW p \in 1 .. forked  PROVE PairKnown(p)' /\ BootOwn(p)' /\ AttachedOwn(p)'
  <2>1. /\ PairKnown(p) /\ BootOwn(p) /\ AttachedOwn(p)
        /\ forked_for[p] # NoSegment /\ p # NoPair
    BY <1>1, ForkedPairs DEF PairsInv, PairsApart, TypeOK, NoSegment, NoPair
  <2>2. AttachedOwn(p)'
    BY <1>2, <2>1 DEF AttachedOwn, processes
  <2>3. ASSUME UNCHANGED <<shm_fd, current_shm, current_shm_name>>,
               \A k \in Kinds : Pid(k) = p => ppc[p][k] = "done" \/ Pid(k)' = Pid(k)
        PROVE  PairKnown(p)' /\ BootOwn(p)'
    <3>1. PairKnown(p)'
      BY <1>2, <1>4, <2>1, <2>3 DEF PairKnown, processes
    <3>2. BootOwn(p)'
      BY <1>2, <2>1, <2>3 DEF BootOwn, processes
    <3> QED
      BY <3>1, <3>2
  <2>4. CASE Stop(t) \/ StopPosts(t) \/ Destroy(t) \/ Check(t) \/ Put(t) \/ Notify(t)
    BY <2>2, <2>3, <2>4 DEF Stop, StopPosts, Destroy, Check, Put, Notify, Pid
  <2>5. CASE JoinScheduler(t) \/ JoinWorker(t)
    <3>1. UNCHANGED <<shm_fd, current_shm, current_shm_name>>
      BY <2>5 DEF JoinScheduler, JoinWorker
    <3>2. \A k \in Kinds : Pid(k) = p => ppc[p][k] = "done" \/ Pid(k)' = Pid(k)
      BY <2>1, <2>5 DEF JoinScheduler, JoinWorker, Ended, Pid, Kinds
    <3> QED
      BY <2>2, <2>3, <3>1, <3>2
  <2>6. CASE Close(t)
    <3>1. /\ shm_fd' = NoSegment /\ current_shm' = NoSegment /\ shm_fd = current_shm
          /\ scheduler_pid = NoPair /\ worker_pid = NoPair
      BY <1>1, <2>6 DEF Close, Forgotten, Go, Holds, PidsKept
    <3>2. PairKnown(p)'
      BY <1>2, <2>1, <3>1 DEF PairKnown, processes
    <3>3. \A k \in Kinds : Pid(k) = NoPair
      BY <3>1 DEF Pid
    <3>4. \A k \in Kinds : ppc[p][k] # "boot"
      BY <2>1, <3>1, <3>3 DEF PairKnown, BootOwn
    <3>5. BootOwn(p)'
      BY <1>2, <3>4 DEF BootOwn, processes
    <3> QED
      BY <2>2, <3>2, <3>5
  <2> QED
    BY <2>2, <2>4, <2>5, <2>6
<1>6. forked' = forked
  BY <1>2 DEF processes
<1> QED
  BY <1>3, <1>5, <1>6 DEF PairsInv

(* start: the first pair of a segment, since the JVM has started none since*)
(* its initialize.                                                         *)
LEMMA StartPairs ==
  ASSUME TypeOK, TypeOK', JvmInv, PairsInv, OneThread, InTurn, NEW t \in Threads, Start(t)
  PROVE  PairsInv'
<1> DEFINE q == forked + 1
<1>1. Holds(t) /\ Named /\ PairsApart
  BY DEF JvmInv, PairsInv
<1>2. forked \in Nat /\ 1 .. forked \subseteq Pairs /\ q \in Pairs /\ q \in Nat
      /\ forked < q /\ q # NoPair
  BY ForkedPairs, BoundsAssumption DEF Start, Pairs, NoPair
<1>3. PICK s \in Forked, w \in Forked :
        /\ ppc' = [ppc EXCEPT ![q] = [k \in Kinds |-> IF k = "scheduler" THEN s ELSE w]]
        /\ scheduler_pid' = IF s = "boot" THEN q ELSE NoPair
        /\ worker_pid' = IF w = "boot" THEN q ELSE NoPair
        /\ pname' = [pname EXCEPT ![q] = current_shm_name]
        /\ forked_for' = [forked_for EXCEPT ![q] = current_shm]
        /\ forked' = q
  BY DEF Start
<1>4. /\ tpc[t] = "idle" /\ ~started /\ started' = TRUE
      /\ current_shm = shm_fd /\ current_shm # NoSegment
      /\ UNCHANGED <<created, current_shm, current_shm_name, shm_fd, tpc, pseg>>
  BY <1>1 DEF Start, Holds
<1> HIDE DEF q
<1>5. s \in {"boot", "done"} /\ w \in {"boot", "done"}
  BY DEF Forked
<1>6. /\ ppc'[q] = [k \in Kinds |-> IF k = "scheduler" THEN s ELSE w]
      /\ pname'[q] = current_shm_name /\ forked_for'[q] = current_shm
  BY <1>2, <1>3 DEF TypeOK
<1>7. \A p \in Pairs \ {q} : /\ ppc'[p] = ppc[p] /\ pname'[p] = pname[p]
                             /\ forked_for'[p] = forked_for[p]
  BY <1>2, <1>3 DEF TypeOK
<1>8. \A p \in 1 .. q : (p \in 1 .. forked /\ p \in Pairs \ {q}) \/ p = q
  BY <1>2 DEF q
<1>9. \A p \in 1 .. forked : forked_for[p] # shm_fd
  BY <1>4 DEF PairsInv, PairKnown
<1>10. PairsApart'
  <2>1. \A p \in Pairs : p > q => \A k \in Kinds : ppc'[p][k] = "unborn"
    BY <1>1, <1>2, <1>7 DEF PairsApart, Pairs
  <2>2. \A p \in 1 .. q : 1 <= forked_for'[p] /\ forked_for'[p] <= created
    <3>1. 1 <= current_shm /\ current_shm <= created
      BY <1>1, <1>4 DEF Named, TypeOK, Segments, NoSegment
    <3> QED
      BY <1>1, <1>6, <1>7, <1>8, <3>1 DEF PairsApart
  <2>3. \A p, r \in 1 .. q : forked_for'[p] = forked_for'[r] => p = r
    BY <1>1, <1>4, <1>6, <1>7, <1>8, <1>9 DEF PairsApart
  <2> QED
    BY <1>3, <1>4, <2>1, <2>2, <2>3 DEF PairsApart
<1>11. \A u \in Threads : tpc'[u] \notin {"map", "init"}
  BY <1>4 DEF OneThread
<1>12. ASSUME NEW p \in 1 .. forked  PROVE PairKnown(p)' /\ BootOwn(p)' /\ AttachedOwn(p)'
  <2>1. p \in Pairs \ {q} /\ forked_for'[p] # shm_fd'
    BY <1>2, <1>4, <1>7, <1>9
  <2>2. PairKnown(p)'
    BY <2>1 DEF PairKnown
  <2>3. BootOwn(p)' /\ AttachedOwn(p)'
    BY <1>4, <1>7, <2>1 DEF PairsInv, BootOwn, AttachedOwn
  <2> QED
    BY <2>2, <2>3
<1>13. ASSUME NEW p \in Pairs, p = q  PROVE PairKnown(p)' /\ BootOwn(p)' /\ AttachedOwn(p)'
  <2>1. \A k \in Kinds : ppc'[p][k] # "done" => Pid(k)' = p
    BY <1>3, <1>5, <1>6, <1>13 DEF Pid, Kinds
  <2>2. PairKnown(p)'
    BY <1>4, <1>11, <2>1 DEF PairKnown
  <2>3. \A k \in Kinds : ppc'[p][k] # "attached"
    BY <1>5, <1>6, <1>13
  <2>4. BootOwn(p)'
    BY <1>4, <1>6, <1>13 DEF BootOwn
  <2> QED
    BY <2>2, <2>3, <2>4 DEF AttachedOwn
<1> QED
  BY <1>2, <1>3, <1>8, <1>10, <1>12, <1>13 DEF PairsInv

(* The processes: one that attaches finds by the name the segment that its *)
(* JVM has still.                                                          *)
LEMMA ProcessPairs ==
  ASSUME TypeOK, JvmInv, PairsInv, OneThread, NEW q \in Pairs, NEW l \in Kinds,
         Boot(q, l) \/ BootFails(q, l) \/ Leave(q, l)
  PROVE  PairsInv'
<1> USE DEF segment, statics, resources, client
<1>1. PairsApart /\ Named /\ \A t \in Threads : Holds(t)
  BY DEF JvmInv, PairsInv
<1>2. /\ UNCHANGED <<created, current_shm, current_shm_name, shm_fd, scheduler_pid, worker_pid,
                     tpc, started, forked, pname, forked_for>>
      /\ ppc[q][l] \in {"boot", "attached"} /\ ppc'[q][l] \in {"attached", "done"}
      /\ \A p \in Pairs, k \in Kinds : p # q \/ k # l => ppc'[p][k] = ppc[p][k]
                                                         /\ pseg'[p][k] = pseg[p][k]
  <2>1. CASE Boot(q, l)
    BY <2>1 DEF Boot, TypeOK
  <2>2. CASE BootFails(q, l) \/ Leave(q, l)
    BY <2>2 DEF BootFails, Leave, TypeOK
  <2> QED
    BY <2>1, <2>2
<1>3. forked \in Nat /\ 1 .. forked \subseteq Pairs /\ q \in 1 .. forked
  BY <1>1, <1>2, ForkedPairs DEF PairsApart, Pairs
<1>4. PairsApart'
  BY <1>1, <1>2, <1>3 DEF PairsApart, Pairs
<1>5. ASSUME NEW p \in 1 .. forked  PROVE PairKnown(p)' /\ BootOwn(p)' /\ AttachedOwn(p)'
  <2>1. PairKnown(p) /\ BootOwn(p) /\ AttachedOwn(p) /\ p \in Pairs
    BY <1>3 DEF PairsInv
  <2>2. PairKnown(p)'
    <3>1. \A k \in Kinds : ppc'[p][k] # "done" => ppc[p][k] # "done"
      BY <1>2, <2>1
    <3>2. \A k \in Kinds : Pid(k)' = Pid(k)
      BY <1>2 DEF Pid
    <3> QED
      BY <1>2, <2>1, <3>1, <3>2 DEF PairKnown
  <2>3. BootOwn(p)'
    BY <1>2, <2>1 DEF BootOwn
  <2>4. AttachedOwn(p)'
    <3>1. ASSUME p = q, Boot(q, l)  PROVE pseg'[q][l] = forked_for[q]
      <4>1. forked_for[q] = current_shm /\ pname[q] = current_shm_name
        BY <2>1, <3>1 DEF Boot, BootOwn
      <4>2. current_shm # NoSegment
        BY <1>1, <1>3, <4>1 DEF PairsApart, NoSegment
      <4>3. shm_fd = current_shm
        BY <1>1, <4>2 DEF OneThread, Holds
      <4>4. pseg'[q][l] = names[pname[q]]
        BY <3>1 DEF Boot, TypeOK
      <4> QED
        BY <1>1, <4>1, <4>2, <4>3, <4>4 DEF Named
    <3>2. ASSUME p = q, ~Boot(q, l)  PROVE ppc'[q][l] = "done"
      BY <3>2 DEF BootFails, Leave, TypeOK
    <3> QED
      BY <1>2, <2>1, <3>1, <3>2 DEF AttachedOwn
  <2> QED
    BY <2>2, <2>3, <2>4
<1> QED
  BY <1>2, <1>4, <1>5 DEF PairsInv

(* The end of the JVM leaves the processes to themselves.                  *)
LEMMA CrashPairs == ASSUME TypeOK, PairsInv, NoLateBoot, Crash  PROVE PairsInv'
<1>1. /\ shm_fd' = NoSegment
      /\ UNCHANGED <<created, processes>>
      /\ \A p \in Pairs, k \in Kinds : ppc[p][k] # "boot"
  BY DEF Crash, NoLateBoot, segment
<1>2. PairsApart'
  BY <1>1 DEF PairsInv, PairsApart, processes
<1>3. ASSUME NEW p \in 1 .. forked  PROVE PairKnown(p)' /\ BootOwn(p)' /\ AttachedOwn(p)'
  <2>1. p \in Pairs /\ forked_for[p] # NoSegment /\ AttachedOwn(p)
    BY ForkedPairs DEF PairsInv, PairsApart, NoSegment
  <2> QED
    BY <1>1, <2>1 DEF PairKnown, BootOwn, AttachedOwn, processes
<1> QED
  BY <1>1, <1>2, <1>3 DEF PairsInv, processes

(* Every step keeps the pairs in order.                                    *)
LEMMA StepPairs ==
  TypeOK /\ TypeOK' /\ JvmInv /\ PairsInv /\ OneThread /\ InTurn /\ NoLateBoot /\ [Next]_vars
    => PairsInv'
<1> SUFFICES ASSUME TypeOK, TypeOK', JvmInv, PairsInv, OneThread, InTurn, NoLateBoot,
                    [Next]_vars
             PROVE  PairsInv'
  OBVIOUS
<1>1. CASE UNCHANGED vars
  BY <1>1 DEF vars, segment, statics, resources, client, processes, PairsInv, PairsApart,
              PairKnown, Pid, BootOwn, AttachedOwn
<1> QED
  BY <1>1, InitializePairs, StopPairs, StartPairs, ProcessPairs, CrashPairs DEF Next, Continues

(* What holds of every behaviour of such a client.                         *)
LEMMA PairsAlways ==
  ASSUME OneThread, InTurn, NoLateBoot  PROVE Spec => [](TypeOK /\ JvmInv /\ PairsInv)
<1>1. TypeOK /\ JvmInv /\ PairsInv /\ [Next]_vars => (TypeOK /\ JvmInv /\ PairsInv)'
  BY StepTyped, StepJvm, StepPairs
<1> QED
  BY <1>1, InitTyped, InitJvm, InitPairs, PTL DEF Spec

(* A process that has attached is of a pair that was started.              *)
LEMMA AttachedForked ==
  ASSUME TypeOK, PairsInv, NEW p \in Pairs, NEW k \in Kinds, Attached(p, k)
  PROVE  p \in 1 .. forked /\ pseg[p][k] = forked_for[p]
<1>1. p \in 1 .. forked
  BY ForkedPairs DEF PairsInv, PairsApart, Attached, Pairs
<1> QED
  BY <1>1 DEF PairsInv, AttachedOwn, Attached

(* Both processes of a pair work in the segment that their JVM had when it *)
(* started them, although they find it by a name that initialize and stop  *)
(* give and take away again, and no other pair works there, also after the *)
(* JVM was killed and started again, if every process had attached by then.*)
THEOREM SegmentOwn == OneThread /\ InTurn /\ NoLateBoot => (Spec => []OwnSegment)
<1>1. TypeOK /\ PairsInv => OwnSegment
  BY AttachedForked DEF OwnSegment, PairsInv, PairsApart
<1>2. ASSUME OneThread, InTurn, NoLateBoot  PROVE Spec => []OwnSegment
  BY <1>1, <1>2, PairsAlways, PTL
<1> QED
  BY <1>2

(* No step takes the primitives of a segment away from a process that works*)
(* there, or makes them anew under it: stop() destroys them when it has    *)
(* waited for both processes, initialize makes them in a new segment.      *)
THEOREM SegmentSyncKept == OneThread /\ InTurn /\ NoLateBoot => (Spec => SyncKeptWhileUsed)
<1>1. ASSUME TypeOK, JvmInv, PairsInv, [Next]_vars,
             NEW p \in Pairs, NEW k \in Kinds, Attached(p, k)
      PROVE  sync'[pseg[p][k]] = sync[pseg[p][k]]
  <2>1. p \in 1 .. forked /\ pseg[p][k] = forked_for[p] /\ PairKnown(p) /\ p # NoPair
        /\ ppc[p][k] = "attached" /\ \A t \in Threads : Holds(t) /\ PidsKept(t)
    BY <1>1, AttachedForked DEF PairsInv, JvmInv, NoPair, Attached
  <2>2. ASSUME NEW t \in Threads, InitContent(t) \/ Destroy(t)
        PROVE  forked_for[p] # current_shm
    <3>1. shm_fd = current_shm /\ tpc[t] \in {"init", "destroy"}
      BY <2>1, <2>2 DEF InitContent, Destroy, Go, Holds
    <3>2. tpc[t] = "destroy" => Pid(k) # p
      BY <2>1 DEF PidsKept, Pid
    <3> QED
      BY <2>1, <3>1, <3>2 DEF PairKnown
  <2>3. ASSUME NEW t \in Threads, InitContent(t) \/ Destroy(t)
        PROVE  sync'[pseg[p][k]] = sync[pseg[p][k]]
    <3>1. pseg[p][k] # current_shm /\ pseg[p][k] \in Segments
      BY <1>1, <2>1, <2>2, <2>3 DEF TypeOK, PairsInv, PairsApart, NoSegment
    <3>2. \E x : sync' = [sync EXCEPT ![current_shm] = x]
      BY <2>3 DEF InitContent, Destroy, SyncDestroyed
    <3> QED
      BY <1>1, <3>1, <3>2 DEF TypeOK
  <2>4. UNCHANGED sync \/ \E t \in Threads : InitContent(t) \/ Destroy(t)
    BY <1>1 DEF Next, Continues, vars, segment, Initialize, Create, NotCreated, Map, NotMapped,
                Start, Stop, StopPosts, JoinScheduler, JoinWorker, Close, Check, Put, Notify,
                Boot, BootFails, Leave, Crash
  <2> QED
    BY <2>3, <2>4
<1>2. TypeOK /\ JvmInv /\ PairsInv /\ [Next]_vars =>
        [\A p \in Pairs, k \in Kinds :
           Attached(p, k) /\ Attached(p, k)' => sync'[pseg[p][k]] = sync[pseg[p][k]]]_vars
  BY <1>1
<1>3. ASSUME OneThread, InTurn, NoLateBoot  PROVE Spec => SyncKeptWhileUsed
  BY <1>2, <1>3, PairsAlways, PTL DEF Spec, SyncKeptWhileUsed
<1> QED
  BY <1>3

--------------------------------------------------------------------------------
(* A pid that the JVM has is of a pair it started for its segment, and a   *)
(* stop() that has come to a wait has set the flag and posted there.       *)
PidsOwn == \A k \in Kinds :
  Pid(k) # NoPair => Pid(k) \in 1 .. forked /\ forked_for[Pid(k)] = current_shm

StopTold == \A t \in Threads : current_shm # NoSegment =>
  /\ tpc[t] = "post" => shutdown_flag[current_shm]
  /\ tpc[t] \in {"join_scheduler", "join_worker"} => Told(current_shm)

(* No pid at first.                                                        *)
LEMMA InitPids == Init => PidsOwn /\ StopTold
BY DEF Init, PidsOwn, StopTold, Pid

(* The JVM has no pids when it changes its segment, and start gives it     *)
(* those of the pair it starts.                                            *)
LEMMA StepPids ==
  TypeOK /\ JvmInv /\ PidsOwn /\ OneThread /\ InTurn /\ [Next]_vars => PidsOwn'
<1> SUFFICES ASSUME TypeOK, JvmInv, PidsOwn, OneThread, InTurn, [Next]_vars  PROVE PidsOwn'
  OBVIOUS
<1> USE DEF segment, statics, resources, client
<1>1. ASSUME UNCHANGED <<forked, forked_for>>,
             current_shm' = current_shm \/ (scheduler_pid = NoPair /\ worker_pid = NoPair),
             scheduler_pid' \in {scheduler_pid, NoPair}, worker_pid' \in {worker_pid, NoPair}
      PROVE  PidsOwn'
  <2>1. \A k \in Kinds : Pid(k)' \in {Pid(k), NoPair}
    BY <1>1 DEF Pid
  <2>2. (\A k \in Kinds : Pid(k) = NoPair) \/ current_shm' = current_shm
    BY <1>1 DEF Pid
  <2>3. forked' = forked /\ forked_for' = forked_for
    BY <1>1
  <2> QED
    BY <2>1, <2>2, <2>3 DEF PidsOwn
<1>2. ASSUME NEW t \in Threads, Start(t)  PROVE PidsOwn'
  <2> DEFINE q == forked + 1
  <2>1. forked \in Nat /\ q \in Pairs
    BY <1>2, ForkedPairs, BoundsAssumption DEF Start, Pairs
  <2>2. /\ scheduler_pid' \in {q, NoPair} /\ worker_pid' \in {q, NoPair}
        /\ forked' = q /\ forked_for' = [forked_for EXCEPT ![q] = current_shm]
        /\ UNCHANGED current_shm
    BY <1>2 DEF Start
  <2>3. forked_for'[q] = current_shm /\ q \in 1 .. forked'
    BY <2>1, <2>2 DEF TypeOK
  <2> HIDE DEF q
  <2> QED
    BY <2>2, <2>3 DEF PidsOwn, Pid
<1>3. ASSUME NEW t \in Threads,
             Stop(t) \/ StopPosts(t) \/ JoinScheduler(t) \/ JoinWorker(t) \/ Destroy(t)
             \/ Check(t) \/ Put(t) \/ Notify(t) \/ InitContent(t)
             \/ (\E n \in Names : Initialize(t, n)) \/ Create(t)
      PROVE  PidsOwn'
  <2>1. UNCHANGED <<forked, forked_for, current_shm>>
    BY <1>3 DEF Stop, StopPosts, JoinScheduler, JoinWorker, Destroy, Check, Put, Notify,
                InitContent, Initialize, Create, processes
  <2>2. scheduler_pid' \in {scheduler_pid, NoPair} /\ worker_pid' \in {worker_pid, NoPair}
    BY <1>3 DEF Stop, StopPosts, JoinScheduler, JoinWorker, Destroy, Check, Put, Notify,
                InitContent, Initialize, Create
  <2> QED
    BY <1>1, <2>1, <2>2
<1>4. ASSUME NEW t \in Threads, Map(t) \/ NotMapped(t) \/ NotCreated(t) \/ Close(t)
      PROVE  PidsOwn'
  <2>1. Holds(t) /\ PidsKept(t)
    BY DEF JvmInv
  <2>2. tpc[t] \in {"map", "create", "close"} /\ UNCHANGED <<forked, forked_for>>
        /\ UNCHANGED <<scheduler_pid, worker_pid>>
    BY <1>4 DEF Map, NotMapped, NotCreated, Close, Go, processes
  <2>3. scheduler_pid = NoPair /\ worker_pid = NoPair
    BY <2>1, <2>2 DEF Holds, PidsKept
  <2> QED
    BY <1>1, <2>2, <2>3
<1>5. ASSUME NEW p \in Pairs, NEW k \in Kinds, Boot(p, k) \/ BootFails(p, k) \/ Leave(p, k)
      PROVE  PidsOwn'
  BY <1>1, <1>5 DEF Boot, BootFails, Leave
<1>6. CASE Crash
  BY <1>6 DEF Crash, PidsOwn, Pid
<1>7. CASE UNCHANGED vars
  BY <1>1, <1>7 DEF vars, processes
<1> QED
  BY <1>2, <1>3, <1>4, <1>5, <1>6, <1>7 DEF Next, Continues

(* stop() sets the flag and posts before it waits, and the only thread     *)
(* that could take either back is the one that waits.                      *)
LEMMA StepTold == TypeOK /\ StopTold /\ OneThread /\ [Next]_vars => StopTold'
<1> SUFFICES ASSUME TypeOK, StopTold, OneThread, [Next]_vars  PROVE StopTold'
  OBVIOUS
<1> USE DEF segment, statics, resources, client, processes
<1>1. ASSUME NEW t \in Threads, tpc'[t] \notin {"post", "join_scheduler", "join_worker"}
      PROVE  StopTold'
  BY <1>1 DEF OneThread, StopTold
<1>2. ASSUME NEW t \in Threads,
             (\E n \in Names : Initialize(t, n)) \/ Start(t) \/ Check(t) \/ Create(t)
             \/ NotCreated(t) \/ Map(t) \/ NotMapped(t) \/ InitContent(t) \/ JoinWorker(t)
             \/ Destroy(t) \/ Close(t) \/ Put(t) \/ Notify(t)
      PROVE  StopTold'
  <2>1. tpc'[t] \notin {"post", "join_scheduler", "join_worker"}
    BY <1>2 DEF Initialize, Start, Check, Create, NotCreated, Map, NotMapped, InitContent,
                JoinWorker, Destroy, Close, Put, Notify, Go, TypeOK
  <2> QED
    BY <1>1, <2>1
<1>3. ASSUME NEW t \in Threads, Stop(t) \/ StopPosts(t) \/ JoinScheduler(t)
      PROVE  StopTold'
  <2>1. current_shm' = current_shm /\ \A u \in Threads : u = t
    BY <1>3 DEF Stop, StopPosts, JoinScheduler, OneThread
  <2>2. CASE Stop(t)
    <3>1. current_shm # NoSegment =>
            tpc'[t] = "post" /\ shutdown_flag' = [shutdown_flag EXCEPT ![current_shm] = TRUE]
      BY <2>2 DEF Stop, Go, TypeOK
    <3>2. current_shm # NoSegment => shutdown_flag'[current_shm]
      BY <3>1 DEF TypeOK
    <3> QED
      BY <2>1, <3>1, <3>2 DEF StopTold
  <2>3. CASE StopPosts(t)
    <3>1. /\ tpc[t] = "post" /\ tpc'[t] = "join_scheduler" /\ UNCHANGED shutdown_flag
          /\ posted' = [posted EXCEPT ![current_shm] = TRUE] /\ current_shm # NoSegment
      BY <2>3 DEF StopPosts, Posted, Go, TypeOK
    <3>2. posted'[current_shm] /\ shutdown_flag'[current_shm]
      BY <3>1 DEF TypeOK, StopTold
    <3> QED
      BY <2>1, <3>1, <3>2 DEF StopTold, Told
  <2>4. CASE JoinScheduler(t)
    <3>1. /\ tpc[t] = "join_scheduler" /\ tpc'[t] = "join_worker"
          /\ UNCHANGED <<shutdown_flag, posted>>
      BY <2>4 DEF JoinScheduler, Go, TypeOK
    <3> QED
      BY <2>1, <3>1 DEF StopTold, Told
  <2> QED
    BY <1>3, <2>2, <2>3, <2>4
<1>4. CASE UNCHANGED <<segment, statics, tpc>>
  BY <1>4 DEF StopTold, Told
<1>5. ASSUME NEW p \in Pairs, NEW k \in Kinds, Boot(p, k) \/ BootFails(p, k) \/ Leave(p, k)
      PROVE  StopTold'
  BY <1>4, <1>5 DEF Boot, BootFails, Leave
<1>6. CASE Crash
  BY <1>6 DEF Crash, StopTold
<1>7. CASE UNCHANGED vars
  BY <1>4, <1>7 DEF vars
<1> QED
  BY <1>2, <1>3, <1>5, <1>6, <1>7 DEF Next, Continues

(* The wait of stop() is for processes of the JVM's own segment: the one   *)
(* they work in, or will find by its name.                                 *)
LEMMA ToldThere == TypeOK /\ JvmInv /\ PairsInv /\ PidsOwn /\ StopTold => AwaitedAreTold
<1> SUFFICES ASSUME TypeOK, JvmInv, PairsInv, PidsOwn, StopTold, NEW t \in Threads,
                    NEW k \in Kinds, tpc[t] \in {"join_scheduler", "join_worker"},
                    Pid(k) # NoPair
             PROVE  /\ Attached(Pid(k), k) => Told(pseg[Pid(k)][k])
                    /\ ppc[Pid(k)][k] = "boot" => Told(names[pname[Pid(k)]])
  BY DEF AwaitedAreTold
<1>1. Pid(k) \in 1 .. forked /\ forked_for[Pid(k)] = current_shm
  BY DEF PidsOwn
<1>2. Holds(t) /\ PidsKept(t) /\ Named /\ AttachedOwn(Pid(k)) /\ BootOwn(Pid(k))
  BY <1>1 DEF JvmInv, PairsInv
<1>3. current_shm # NoSegment
  BY <1>2 DEF PidsKept, Pid
<1>4. Told(current_shm)
  BY <1>3 DEF StopTold
<1>5. names[current_shm_name] = current_shm
  BY <1>2, <1>3 DEF Holds, Named
<1>6. Attached(Pid(k), k) => pseg[Pid(k)][k] = current_shm
  BY <1>1, <1>2 DEF AttachedOwn, Attached
<1>7. ppc[Pid(k)][k] = "boot" => pname[Pid(k)] = current_shm_name
  BY <1>2 DEF BootOwn
<1> QED
  BY <1>4, <1>5, <1>6, <1>7

(* A process that stop() waits for has its flag set and its semaphores     *)
(* posted, in the segment it works in or will find, whatever names were    *)
(* used before and after how many JVMs: stop() sets and posts in the       *)
(* segment it has then, and that is the one of the processes it waits for. *)
THEOREM SegmentAwaitedAreTold ==
  OneThread /\ InTurn /\ NoLateBoot => (Spec => []AwaitedAreTold)
<1>1. ASSUME OneThread, InTurn, NoLateBoot  PROVE Spec => []AwaitedAreTold
  <2>1. TypeOK /\ JvmInv /\ PidsOwn /\ StopTold /\ [Next]_vars => (PidsOwn /\ StopTold)'
    BY <1>1, StepPids, StepTold
  <2> QED
    BY <1>1, <2>1, PairsAlways, InitPids, ToldThere, PTL DEF Spec
<1> QED
  BY <1>1
================================================================================
