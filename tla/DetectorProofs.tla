----------------------------- MODULE DetectorProofs -----------------------------
(***************************************************************************)
(* The search of the deadlock detector is right for every number of tasks  *)
(* and resources: what it finds is a cycle, it misses none, and the        *)
(* scheduler with it implements module Scheduler.                          *)
(*                                                                         *)
(* The first part is about a depth-first search of any graph; it does not  *)
(* mention the state of the scheduler.                                     *)
(***************************************************************************)
EXTENDS DeadlockDetector, SchedulerProofs

--------------------------------------------------------------------------------
(* Depth-first search *)

(* The edges E are between the nodes 0 .. n - 1, and from no node to itself*)
IsGraph(E, n) ==
  /\ n \in Nat /\ n <= MAX_TASKS
  /\ E \subseteq (0 .. n - 1) \X (0 .. n - 1)
  /\ \A t \in 0 .. n - 1 : <<t, t>> \notin E

(* Every node of some S has a successor in S only if S has no node: there  *)
(* is no cycle among the nodes of D.                                       *)
NoCycleIn(D, E) == \A S \in SUBSET D : (\A t \in S : \E u \in S : <<t, u>> \in E) => S = {}

(* The marks and the stack of a search that has tried as starts the nodes  *)
(* of B below start.                                                       *)
Marked(E, n, B, start, mark, stk) ==
  /\ start \in 0 .. n
  /\ mark \in [Idx -> {Unseen, OnPath, DoneWith}]
  /\ stk \in Seq(0 .. n - 1) /\ NoRepeats(stk)
  /\ \A t \in Idx : mark[t] = OnPath <=> t \in Range(stk)
  /\ \A t \in Idx : mark[t] = DoneWith => t \in 0 .. n - 1
  /\ \A t \in B : t < start => mark[t] = DoneWith
  /\ \A t, u \in 0 .. n - 1 : mark[t] = DoneWith /\ <<t, u>> \in E => mark[u] = DoneWith
  /\ NoCycleIn({t \in 0 .. n - 1 : mark[t] = DoneWith}, E)

(* The stack is a path, and of the successors of each of its nodes those   *)
(* below the edge pointer have been tried.                                 *)
Tried(E, n, mark, stk, ptr) ==
  /\ ptr \in Seq(0 .. n) /\ Len(ptr) = Len(stk)
  /\ \A k \in 1 .. Len(stk) - 1 : <<stk[k], stk[k + 1]>> \in E
  /\ \A k \in 1 .. Len(stk) : \A u \in 0 .. n - 1 :
       <<stk[k], u>> \in E /\ u < ptr[k] =>
         mark[u] = DoneWith \/ (k < Len(stk) /\ u = stk[k + 1])

LEMMA MarksDiffer == Unseen # OnPath /\ Unseen # DoneWith /\ OnPath # DoneWith
BY DEF Unseen, OnPath, DoneWith

LEMMA NodesAreIdx ==
  ASSUME NEW E, NEW n, IsGraph(E, n)
  PROVE  /\ 0 .. n - 1 \subseteq Idx /\ n \in Nat
         /\ \A t \in 0 .. n - 1 : t \in Int
BY MaxTasksAssumption DEF IsGraph, Idx

LEMMA SearchBegins ==
  ASSUME NEW E, NEW n, IsGraph(E, n), NEW B, B \subseteq 0 .. n - 1
  PROVE  Marked(E, n, B, 0, Cleared, <<>>) /\ Tried(E, n, Cleared, <<>>, <<>>)
<1>1. Range(<<>>) = {} /\ NoRepeats(<<>>) /\ Len(<<>>) = 0 /\ <<>> \in Seq(0 .. n - 1)
  BY DEF Range, NoRepeats
<1>2. /\ n \in Nat /\ 0 .. n - 1 \subseteq Idx
      /\ Cleared \in [Idx -> {Unseen, OnPath, DoneWith}]
      /\ \A t \in Idx : Cleared[t] # OnPath /\ Cleared[t] # DoneWith
  BY NodesAreIdx, MarksDiffer DEF Cleared
<1>3. {t \in 0 .. n - 1 : Cleared[t] = DoneWith} = {}
  BY <1>2
<1>4. \A t \in B : ~(t < 0) \/ Cleared[t] = DoneWith
  BY <1>1, <1>2
<1>5. NoCycleIn({}, E)
  BY DEF NoCycleIn
<1>6. 0 \in 0 .. n
  BY <1>2
<1>7. Tried(E, n, Cleared, <<>>, <<>>)
  BY <1>1, <1>2 DEF Tried
<1>8. Marked(E, n, B, 0, Cleared, <<>>)
  BY <1>1, <1>2, <1>3, <1>4, <1>5, <1>6 DEF Marked
<1>. QED
  BY <1>7, <1>8

(* A node that is no start, or was tried.                                  *)
LEMMA StartPassed ==
  ASSUME NEW E, NEW n, IsGraph(E, n), NEW B, NEW start, NEW mark, NEW ptr,
         Marked(E, n, B, start, mark, <<>>), start < n, B \subseteq 0 .. n - 1,
         start \notin B \/ mark[start] # Unseen
  PROVE  Marked(E, n, B, start + 1, mark, <<>>)
<1>1. Range(<<>>) = {}
  BY DEF Range
<1>2. start \in Idx /\ start + 1 \in 0 .. n /\ \A t \in B : t < start + 1 => t < start \/ t = start
  <2>1. start \in 0 .. n
    BY DEF Marked
  <2>2. 0 .. n - 1 \subseteq Idx /\ n \in Nat
    BY NodesAreIdx
  <2>3. start \in 0 .. n - 1 /\ start + 1 \in 0 .. n
    BY <2>1, <2>2
  <2>4. \A t \in B : t < start + 1 => t < start \/ t = start
    <3>. SUFFICES ASSUME NEW t \in B, t < start + 1
                  PROVE  t < start \/ t = start
      OBVIOUS
    <3>1. t \in Int /\ start \in Int
      BY <2>2, <2>3
    <3>. QED
      BY <3>1
  <2>. QED
    BY <2>2, <2>3, <2>4
<1>3. start \in B => mark[start] = DoneWith
  BY <1>1, <1>2 DEF Marked
<1>. QED
  BY <1>2, <1>3 DEF Marked

LEMMA StartTaken ==
  ASSUME NEW E, NEW n, IsGraph(E, n), NEW B, NEW start, NEW mark,
         Marked(E, n, B, start, mark, <<>>), start < n, mark[start] = Unseen
  PROVE  /\ Marked(E, n, B, start, [mark EXCEPT ![start] = OnPath], <<start>>)
         /\ Tried(E, n, [mark EXCEPT ![start] = OnPath], <<start>>, <<0>>)
<1>. DEFINE after == [mark EXCEPT ![start] = OnPath]
<1>1. Range(<<>>) = {} /\ Range(<<start>>) = {start} /\ Len(<<start>>) = 1 /\ Len(<<0>>) = 1
  BY DEF Range
<1>2. start \in Idx /\ start \in 0 .. n - 1 /\ n \in Nat
  <2>1. start \in 0 .. n
    BY DEF Marked
  <2>2. 0 .. n - 1 \subseteq Idx /\ n \in Nat
    BY NodesAreIdx
  <2>3. start \in 0 .. n - 1
    BY <2>1, <2>2
  <2>. QED
    BY <2>2, <2>3
<1>3. <<start>> \in Seq(0 .. n - 1) /\ <<0>> \in Seq(0 .. n) /\ NoRepeats(<<start>>)
  BY <1>2 DEF NoRepeats
<1>4. /\ mark \in [Idx -> {Unseen, OnPath, DoneWith}]
      /\ \A t \in Idx : mark[t] # OnPath
  BY <1>1 DEF Marked
<1>5. /\ after \in [Idx -> {Unseen, OnPath, DoneWith}]
      /\ \A t \in Idx : after[t] = OnPath <=> t = start
      /\ \A t \in Idx : after[t] = DoneWith <=> mark[t] = DoneWith
  BY <1>2, <1>4, MarksDiffer
<1>6. 0 .. n - 1 \subseteq Idx
  BY NodesAreIdx
<1>7. {t \in 0 .. n - 1 : after[t] = DoneWith} = {t \in 0 .. n - 1 : mark[t] = DoneWith}
  BY <1>5, <1>6
<1>. HIDE DEF after
<1>8. Marked(E, n, B, start, after, <<start>>)
  <2>1. \A t \in B : t < start => after[t] = DoneWith
    <3>. SUFFICES ASSUME NEW t \in B, t < start
                  PROVE  after[t] = DoneWith
      OBVIOUS
    <3>1. mark[t] = DoneWith
      BY DEF Marked
    <3>. QED
      BY <3>1, <1>2, MarksDiffer DEF after
  <2>2. \A t, u \in 0 .. n - 1 : after[t] = DoneWith /\ <<t, u>> \in E => after[u] = DoneWith
    BY <1>5, <1>6 DEF Marked
  <2>. QED
    BY <1>1, <1>2, <1>3, <1>5, <1>7, <2>1, <2>2 DEF Marked
<1>9. Tried(E, n, after, <<start>>, <<0>>)
  BY <1>1, <1>2, <1>3 DEF Tried
<1>. QED
  BY <1>8, <1>9 DEF after

LEMMA MarkedFacts ==
  ASSUME NEW E, NEW n, NEW B, NEW start, NEW mark, NEW stk, IsGraph(E, n),
         Marked(E, n, B, start, mark, stk)
  PROVE  /\ n \in Nat /\ 0 .. n - 1 \subseteq Idx
         /\ mark \in [Idx -> {Unseen, OnPath, DoneWith}]
         /\ stk \in Seq(0 .. n - 1) /\ Len(stk) \in Nat /\ DOMAIN stk = 1 .. Len(stk)
         /\ \A k \in 1 .. Len(stk) : stk[k] \in 0 .. n - 1 /\ mark[stk[k]] = OnPath
         /\ \A k, l \in 1 .. Len(stk) : stk[k] = stk[l] => k = l
<1>1. stk \in Seq(0 .. n - 1) /\ Len(stk) \in Nat /\ DOMAIN stk = 1 .. Len(stk)
  BY LenProperties DEF Marked
<1>2. \A k \in 1 .. Len(stk) : stk[k] \in 0 .. n - 1
  BY <1>1, ElementOfSeq
<1>3. 0 .. n - 1 \subseteq Idx /\ n \in Nat
  BY NodesAreIdx
<1>4. \A k \in 1 .. Len(stk) : mark[stk[k]] = OnPath
  BY <1>1, <1>2, <1>3 DEF Marked, Range
<1>. QED
  BY <1>1, <1>2, <1>3, <1>4 DEF Marked, NoRepeats

(* The successors of the top of the stack that are still to be tried.      *)
Untried(E, n, mark, stk, ptr) ==
  {u \in ptr[Len(stk)] .. n - 1 : <<stk[Len(stk)], u>> \in E /\ mark[u] # DoneWith}

(* A node all of whose successors lie behind is added behind.              *)
LEMMA SinkAdded ==
  ASSUME NEW D, NEW E, NEW top, NoCycleIn(D, E), top \notin D, <<top, top>> \notin E,
         \A u \in D : <<u, top>> \notin E
  PROVE  NoCycleIn(D \cup {top}, E)
<1>. SUFFICES ASSUME NEW S \in SUBSET (D \cup {top}), \A t \in S : \E u \in S : <<t, u>> \in E
              PROVE  S = {}
  BY DEF NoCycleIn
<1>1. \A t \in S \ {top} : \E u \in S \ {top} : <<t, u>> \in E
  OBVIOUS
<1>2. S \ {top} \in SUBSET D
  OBVIOUS
<1>3. S \ {top} = {}
  BY <1>1, <1>2 DEF NoCycleIn
<1>. QED
  BY <1>3

(* The pointers and marks of the rest of the path stay right when its last *)
(* node is done with.                                                      *)
LEMMA NodeDone ==
  ASSUME NEW E, NEW n, IsGraph(E, n), NEW B, NEW start, NEW mark, NEW stk, NEW ptr,
         B \subseteq 0 .. n - 1,
         Marked(E, n, B, start, mark, stk), Tried(E, n, mark, stk, ptr),
         stk # <<>>, Untried(E, n, mark, stk, ptr) = {}
  PROVE  LET after == [mark EXCEPT ![stk[Len(stk)]] = DoneWith]
             rest == SubSeq(stk, 1, Len(stk) - 1)
         IN  /\ Marked(E, n, B, start, after, rest)
             /\ Tried(E, n, after, rest, SubSeq(ptr, 1, Len(stk) - 1))
<1>. DEFINE m == Len(stk)
            top == stk[m]
            after == [mark EXCEPT ![top] = DoneWith]
            rest == SubSeq(stk, 1, m - 1)
            ptrs == SubSeq(ptr, 1, m - 1)
<1>1. /\ n \in Nat /\ 0 .. n - 1 \subseteq Idx
      /\ mark \in [Idx -> {Unseen, OnPath, DoneWith}]
      /\ stk \in Seq(0 .. n - 1) /\ m \in Nat /\ DOMAIN stk = 1 .. m
      /\ \A k \in 1 .. m : stk[k] \in 0 .. n - 1 /\ mark[stk[k]] = OnPath
      /\ \A k, l \in 1 .. m : stk[k] = stk[l] => k = l
  BY MarkedFacts
<1>2. m > 0 /\ m \in 1 .. m
  BY <1>1, EmptySeq
<1>3. top \in 0 .. n - 1 /\ top \in Idx /\ mark[top] = OnPath
  BY <1>1, <1>2
<1>4. ptr \in Seq(0 .. n) /\ Len(ptr) = m /\ \A k \in 1 .. m : ptr[k] \in 0 .. n
  <2>1. ptr \in Seq(0 .. n) /\ Len(ptr) = m
    BY DEF Tried
  <2>. QED
    BY <2>1, ElementOfSeq
<1>5. /\ rest \in Seq(0 .. n - 1) /\ Len(rest) = m - 1
      /\ \A k \in 1 .. m - 1 : rest[k] = stk[k]
  <2>1. \A k \in 1 .. m - 1 : stk[k] \in 0 .. n - 1
    BY <1>1
  <2>2. /\ rest \in Seq(0 .. n - 1) /\ Len(rest) = IF 1 <= m - 1 THEN (m - 1) - 1 + 1 ELSE 0
        /\ \A k \in 1 .. (m - 1) - 1 + 1 : rest[k] = stk[1 + k - 1]
    BY <1>1, <2>1, SubSeqProperties
  <2>3. \A k \in 1 .. m - 1 : k \in 1 .. (m - 1) - 1 + 1 /\ 1 + k - 1 = k
    BY <1>1
  <2>. QED
    BY <1>1, <1>2, <2>2, <2>3
<1>6. /\ ptrs \in Seq(0 .. n) /\ Len(ptrs) = m - 1
      /\ \A k \in 1 .. m - 1 : ptrs[k] = ptr[k]
  <2>1. \A k \in 1 .. m - 1 : ptr[k] \in 0 .. n
    BY <1>1, <1>4
  <2>2. /\ ptrs \in Seq(0 .. n) /\ Len(ptrs) = IF 1 <= m - 1 THEN (m - 1) - 1 + 1 ELSE 0
        /\ \A k \in 1 .. (m - 1) - 1 + 1 : ptrs[k] = ptr[1 + k - 1]
    BY <1>1, <2>1, SubSeqProperties
  <2>3. \A k \in 1 .. m - 1 : k \in 1 .. (m - 1) - 1 + 1 /\ 1 + k - 1 = k
    BY <1>1
  <2>. QED
    BY <1>1, <1>2, <2>2, <2>3
<1>7. /\ after \in [Idx -> {Unseen, OnPath, DoneWith}]
      /\ after[top] = DoneWith /\ \A t \in Idx : t # top => after[t] = mark[t]
  BY <1>1, <1>3
<1>8. \A u \in 0 .. n - 1 : <<top, u>> \in E => mark[u] = DoneWith
  <2>. SUFFICES ASSUME NEW u \in 0 .. n - 1, <<top, u>> \in E, mark[u] # DoneWith
                PROVE  FALSE
    OBVIOUS
  <2>1. CASE u < ptr[m]
    BY <1>1, <1>2, <2>1 DEF Tried
  <2>2. CASE ~(u < ptr[m])
    <3>1. u \in ptr[m] .. n - 1
      BY <1>1, <1>2, <1>4, <2>2
    <3>. QED
      BY <3>1 DEF Untried
  <2>. QED
    BY <2>1, <2>2
<1>. HIDE DEF m, top, after, rest, ptrs
<1>9. NoRepeats(rest) /\ DOMAIN rest = 1 .. m - 1
  <2>1. DOMAIN rest = 1 .. m - 1
    BY <1>5, LenProperties
  <2>. QED
    BY <1>1, <1>5, <2>1 DEF NoRepeats
<1>10. \A k \in 1 .. m - 1 : stk[k] # top
  BY <1>1, <1>2 DEF top
<1>11. \A t \in Idx : after[t] = OnPath <=> t \in Range(rest)
  <2>1. Range(stk) = {stk[k] : k \in 1 .. m} /\ Range(rest) = {rest[k] : k \in 1 .. m - 1}
    BY <1>1, <1>9 DEF Range
  <2>2. \A t : t \in Range(rest) <=> t \in Range(stk) /\ t # top
    <3>1. \A k \in 1 .. m : k \in 1 .. m - 1 \/ k = m
      BY <1>1
    <3>2. \A k \in 1 .. m - 1 : k \in 1 .. m
      BY <1>1
    <3>. QED
      BY <1>5, <1>10, <2>1, <3>1, <3>2 DEF top
  <2>3. \A t \in Idx : mark[t] = OnPath <=> t \in Range(stk)
    BY DEF Marked
  <2>. QED
    BY <1>7, <2>2, <2>3, MarksDiffer
<1>12. <<top, top>> \notin E
  BY <1>3 DEF IsGraph
<1>13. \A t, u \in 0 .. n - 1 : mark[t] = DoneWith /\ <<t, u>> \in E => mark[u] = DoneWith
  BY DEF Marked
<1>14. \A t, u \in 0 .. n - 1 : after[t] = DoneWith /\ <<t, u>> \in E => after[u] = DoneWith
  BY <1>1, <1>3, <1>7, <1>8, <1>13
<1>15. NoCycleIn({t \in 0 .. n - 1 : after[t] = DoneWith}, E)
  <2>. DEFINE D == {t \in 0 .. n - 1 : mark[t] = DoneWith}
  <2>1. NoCycleIn(D, E)
    BY DEF Marked
  <2>2. top \notin D /\ \A u \in D : <<u, top>> \notin E
    BY <1>3, <1>13, MarksDiffer
  <2>3. {t \in 0 .. n - 1 : after[t] = DoneWith} = D \cup {top}
    BY <1>1, <1>3, <1>7
  <2>. HIDE DEF D
  <2>4. NoCycleIn(D \cup {top}, E)
    BY <1>12, <2>1, <2>2, SinkAdded
  <2>. QED
    BY <2>3, <2>4
<1>16. \A t \in B : t < start => after[t] = DoneWith
  BY <1>1, <1>7 DEF Marked
<1>17. Marked(E, n, B, start, after, rest)
  <2>1. start \in 0 .. n /\ \A t \in Idx : after[t] = DoneWith => t \in 0 .. n - 1
    BY <1>3, <1>7 DEF Marked
  <2>. QED
    BY <1>5, <1>7, <1>9, <1>11, <1>14, <1>15, <1>16, <2>1 DEF Marked
<1>18. Tried(E, n, after, rest, ptrs)
  <2>1. \A k \in 1 .. Len(rest) - 1 : <<rest[k], rest[k + 1]>> \in E
    <3>. SUFFICES ASSUME NEW k \in 1 .. Len(rest) - 1
                  PROVE  <<rest[k], rest[k + 1]>> \in E
      OBVIOUS
    <3>1. k \in 1 .. m - 1 /\ k + 1 \in 1 .. m - 1
      BY <1>1, <1>5
    <3>2. <<stk[k], stk[k + 1]>> \in E
      BY <3>1 DEF Tried, m
    <3>. QED
      BY <1>5, <3>1, <3>2
  <2>2. ASSUME NEW k \in 1 .. Len(rest), NEW u \in 0 .. n - 1, <<rest[k], u>> \in E, u < ptrs[k]
        PROVE  after[u] = DoneWith \/ (k < Len(rest) /\ u = rest[k + 1])
    <3>1. k \in 1 .. m /\ k \in 1 .. m - 1 /\ rest[k] = stk[k] /\ ptrs[k] = ptr[k]
      BY <1>1, <1>5, <1>6
    <3>2. mark[u] = DoneWith \/ u = stk[k + 1]
      BY <2>2, <3>1 DEF Tried, m
    <3>3. CASE mark[u] = DoneWith
      BY <1>1, <1>7, <3>3
    <3>4. CASE u = stk[k + 1]
      <4>1. k + 1 = m \/ k + 1 \in 1 .. m - 1
        BY <1>1, <3>1
      <4>2. CASE k + 1 = m
        BY <1>7, <3>4, <4>2 DEF top
      <4>3. CASE k + 1 \in 1 .. m - 1
        BY <1>1, <1>5, <3>4, <4>3
      <4>. QED
        BY <4>1, <4>2, <4>3
    <3>. QED
      BY <3>2, <3>3, <3>4
  <2>. QED
    BY <1>5, <1>6, <2>1, <2>2 DEF Tried
<1>. QED
  BY <1>17, <1>18 DEF m, top, after, rest, ptrs

(* The first successor left to try is new: the path goes on with it.       *)
LEMMA NodeEntered ==
  ASSUME NEW E, NEW n, IsGraph(E, n), NEW B, NEW start, NEW mark, NEW stk, NEW ptr,
         Marked(E, n, B, start, mark, stk), Tried(E, n, mark, stk, ptr), stk # <<>>,
         NEW t \in Untried(E, n, mark, stk, ptr), mark[t] = Unseen,
         \A u \in Untried(E, n, mark, stk, ptr) : t <= u
  PROVE  LET after == [mark EXCEPT ![t] = OnPath]
             longer == Append(stk, t)
         IN  /\ Marked(E, n, B, start, after, longer)
             /\ Tried(E, n, after, longer, Append([ptr EXCEPT ![Len(stk)] = t + 1], 0))
<1>. DEFINE m == Len(stk)
            after == [mark EXCEPT ![t] = OnPath]
            longer == Append(stk, t)
            moved == [ptr EXCEPT ![m] = t + 1]
            ptrs == Append(moved, 0)
<1>1. /\ n \in Nat /\ 0 .. n - 1 \subseteq Idx
      /\ mark \in [Idx -> {Unseen, OnPath, DoneWith}]
      /\ stk \in Seq(0 .. n - 1) /\ m \in Nat /\ DOMAIN stk = 1 .. m
      /\ \A k \in 1 .. m : stk[k] \in 0 .. n - 1 /\ mark[stk[k]] = OnPath
      /\ \A k, l \in 1 .. m : stk[k] = stk[l] => k = l
  BY MarkedFacts
<1>2. m > 0 /\ m \in 1 .. m
  BY <1>1, EmptySeq
<1>3. ptr \in Seq(0 .. n) /\ Len(ptr) = m /\ \A k \in 1 .. m : ptr[k] \in 0 .. n
  <2>1. ptr \in Seq(0 .. n) /\ Len(ptr) = m
    BY DEF Tried
  <2>. QED
    BY <2>1, ElementOfSeq
<1>4. /\ t \in ptr[m] .. n - 1 /\ <<stk[m], t>> \in E /\ t \in 0 .. n - 1 /\ t \in Idx
      /\ t + 1 \in 0 .. n
  <2>1. t \in ptr[m] .. n - 1 /\ <<stk[m], t>> \in E
    BY DEF Untried
  <2>2. ptr[m] \in 0 .. n
    BY <1>2, <1>3
  <2>3. t \in 0 .. n - 1 /\ t + 1 \in 0 .. n
    BY <1>1, <2>1, <2>2
  <2>. QED
    BY <1>1, <2>1, <2>3
<1>5. /\ longer \in Seq(0 .. n - 1) /\ Len(longer) = m + 1 /\ DOMAIN longer = 1 .. m + 1
      /\ \A k \in 1 .. m : longer[k] = stk[k]
      /\ longer[m + 1] = t
  BY <1>1, <1>4, AppendProperties, LenProperties
<1>6. /\ ptrs \in Seq(0 .. n) /\ Len(ptrs) = m + 1
      /\ \A k \in 1 .. m : k # m => ptrs[k] = ptr[k]
      /\ ptrs[m] = t + 1 /\ ptrs[m + 1] = 0
  <2>1. /\ moved \in Seq(0 .. n) /\ Len(moved) = m
        /\ \A k \in 1 .. m : moved[k] = IF k = m THEN t + 1 ELSE ptr[k]
    BY <1>2, <1>3, <1>4, ExceptSeq
  <2>2. 0 \in 0 .. n
    BY <1>1
  <2>. HIDE DEF moved
  <2>3. /\ ptrs \in Seq(0 .. n) /\ Len(ptrs) = m + 1
        /\ \A k \in 1 .. m : ptrs[k] = moved[k]
        /\ ptrs[m + 1] = 0
    BY <2>1, <2>2, AppendProperties
  <2>. QED
    BY <1>2, <2>1, <2>3
<1>7. /\ after \in [Idx -> {Unseen, OnPath, DoneWith}]
      /\ after[t] = OnPath /\ \A u \in Idx : u # t => after[u] = mark[u]
  BY <1>1, <1>4
<1>. HIDE DEF m, after, longer, moved, ptrs
<1>8. \A u \in Idx : after[u] = DoneWith <=> mark[u] = DoneWith
  BY <1>4, <1>7, MarksDiffer
<1>9. \A k \in 1 .. m : stk[k] # t
  BY <1>1, MarksDiffer
<1>10. \A k \in 1 .. m + 1 : k \in 1 .. m \/ k = m + 1
  BY <1>1
<1>11. NoRepeats(longer)
  <2>. SUFFICES ASSUME NEW a \in 1 .. m + 1, NEW b \in 1 .. m + 1, longer[a] = longer[b]
                PROVE  a = b
    BY <1>5 DEF NoRepeats
  <2>. QED
    BY <1>1, <1>5, <1>9, <1>10
<1>12. \A u \in Idx : after[u] = OnPath <=> u \in Range(longer)
  <2>1. Range(stk) = {stk[k] : k \in 1 .. m} /\ Range(longer) = {longer[k] : k \in 1 .. m + 1}
    BY <1>1, <1>5 DEF Range
  <2>2. Range(longer) = Range(stk) \cup {t}
    <3>1. m + 1 \in 1 .. m + 1 /\ \A k \in 1 .. m : k \in 1 .. m + 1
      BY <1>1
    <3>. QED
      BY <1>5, <1>10, <2>1, <3>1
  <2>3. \A u \in Idx : mark[u] = OnPath <=> u \in Range(stk)
    BY DEF Marked
  <2>. QED
    BY <1>7, <2>2, <2>3
<1>13. {u \in 0 .. n - 1 : after[u] = DoneWith} = {u \in 0 .. n - 1 : mark[u] = DoneWith}
  BY <1>1, <1>8
<1>14. Marked(E, n, B, start, after, longer)
  <2>1. /\ start \in 0 .. n
        /\ \A u \in Idx : mark[u] = DoneWith => u \in 0 .. n - 1
        /\ \A u, v \in 0 .. n - 1 : mark[u] = DoneWith /\ <<u, v>> \in E => mark[v] = DoneWith
        /\ NoCycleIn({u \in 0 .. n - 1 : mark[u] = DoneWith}, E)
    BY DEF Marked
  <2>2. \A u \in B : u < start => after[u] = DoneWith
    <3>. SUFFICES ASSUME NEW u \in B, u < start
                  PROVE  after[u] = DoneWith
      OBVIOUS
    <3>1. mark[u] = DoneWith
      BY DEF Marked
    <3>2. u # t
      BY <3>1, MarksDiffer
    <3>. QED
      BY <1>1, <3>1, <3>2 DEF after
  <2>3. \A u, v \in 0 .. n - 1 : after[u] = DoneWith /\ <<u, v>> \in E => after[v] = DoneWith
    BY <1>1, <1>8, <2>1
  <2>4. \A u \in Idx : after[u] = DoneWith => u \in 0 .. n - 1
    BY <1>8, <2>1
  <2>. QED
    BY <1>5, <1>7, <1>11, <1>12, <1>13, <2>1, <2>2, <2>3, <2>4 DEF Marked
<1>15. Tried(E, n, after, longer, ptrs)
  <2>1. \A k \in 1 .. Len(longer) - 1 : <<longer[k], longer[k + 1]>> \in E
    <3>. SUFFICES ASSUME NEW k \in 1 .. m
                  PROVE  <<longer[k], longer[k + 1]>> \in E
      BY <1>1, <1>5
    <3>1. CASE k = m
      BY <1>2, <1>4, <1>5, <3>1
    <3>2. CASE k # m
      <4>1. k \in 1 .. m - 1 /\ k + 1 \in 1 .. m
        BY <1>1, <3>2
      <4>2. <<stk[k], stk[k + 1]>> \in E
        BY <4>1 DEF Tried, m
      <4>. QED
        BY <1>5, <4>1, <4>2
    <3>. QED
      BY <3>1, <3>2
  <2>2. ASSUME NEW k \in 1 .. Len(longer), NEW u \in 0 .. n - 1,
               <<longer[k], u>> \in E, u < ptrs[k]
        PROVE  after[u] = DoneWith \/ (k < Len(longer) /\ u = longer[k + 1])
    <3>1. k = m + 1 \/ k = m \/ (k \in 1 .. m /\ k < m)
      BY <1>1, <1>5
    <3>2. CASE k = m + 1
      BY <1>1, <1>6, <2>2, <3>2
    <3>3. CASE k = m
      <4>1. k < Len(longer) /\ longer[k + 1] = t /\ longer[k] = stk[m] /\ u < t + 1
        BY <1>1, <1>2, <1>5, <1>6, <2>2, <3>3
      <4>2. SUFFICES ASSUME u # t
                     PROVE  mark[u] = DoneWith
        BY <1>1, <1>8, <4>1
      <4>3. ~(t <= u) /\ u \in Int /\ ptr[m] \in 0 .. n
        BY <1>1, <1>2, <1>3, <1>4, <4>1, <4>2
      <4>4. u \notin Untried(E, n, mark, stk, ptr)
        BY <4>3
      <4>5. CASE u < ptr[m]
        BY <1>1, <1>2, <2>2, <4>1, <4>5 DEF Tried, m
      <4>6. CASE ~(u < ptr[m])
        <5>1. u \in ptr[m] .. n - 1
          BY <1>1, <4>3, <4>6
        <5>. QED
          BY <2>2, <4>1, <4>4, <5>1 DEF Untried, m
      <4>. QED
        BY <4>5, <4>6
    <3>4. CASE k \in 1 .. m /\ k < m
      <4>1. /\ longer[k] = stk[k] /\ ptrs[k] = ptr[k] /\ k + 1 \in 1 .. m
            /\ longer[k + 1] = stk[k + 1] /\ k < Len(longer)
        BY <1>1, <1>5, <1>6, <3>4
      <4>2. mark[u] = DoneWith \/ u = stk[k + 1]
        BY <2>2, <3>4, <4>1 DEF Tried, m
      <4>. QED
        BY <1>1, <1>8, <4>1, <4>2
    <3>. QED
      BY <3>1, <3>2, <3>3, <3>4
  <2>. QED
    BY <1>5, <1>6, <2>1, <2>2 DEF Tried
<1>. QED
  BY <1>14, <1>15 DEF m, after, longer, moved, ptrs

(* The first successor left to try is on the path: the path from there on  *)
(* is a cycle.                                                             *)
LEMMA CycleFound ==
  ASSUME NEW E, NEW n, IsGraph(E, n), NEW B, NEW start, NEW mark, NEW stk, NEW ptr,
         Marked(E, n, B, start, mark, stk), Tried(E, n, mark, stk, ptr), stk # <<>>,
         NEW t \in Untried(E, n, mark, stk, ptr), NEW k \in 1 .. Len(stk), stk[k] = t
  PROVE  LET c == SubSeq(stk, k, Len(stk))
         IN  /\ c \in Seq(0 .. n - 1) /\ Len(c) \in 1 .. n /\ NoRepeats(c)
             /\ \A i \in 1 .. Len(c) : <<c[i], c[(i % Len(c)) + 1]>> \in E
<1>1. /\ stk \in Seq(0 .. n - 1) /\ NoRepeats(stk) /\ n \in Nat
      /\ \A i \in 1 .. Len(stk) - 1 : <<stk[i], stk[i + 1]>> \in E
      /\ <<stk[Len(stk)], stk[k]>> \in E
  BY DEF Marked, Tried, Untried, IsGraph
<1>2. 0 .. n - 1 \in SUBSET (0 .. n - 1)
  OBVIOUS
<1>. QED
  BY <1>1, <1>2, PathCloses

(* The search is over, and all nodes with a successor were starts: the     *)
(* graph has no cycle.                                                     *)
LEMMA NoCycleLeft ==
  ASSUME NEW E, NEW n, IsGraph(E, n), NEW B, NEW mark, B \subseteq 0 .. n - 1,
         Marked(E, n, B, n, mark, <<>>)
  PROVE  NoCycleIn(B, E)
<1>1. \A t \in B : t \in 0 .. n - 1 /\ mark[t] = DoneWith
  <2>1. \A t \in 0 .. n - 1 : t < n
    BY DEF IsGraph
  <2>. QED
    BY <2>1 DEF Marked
<1>2. B \subseteq {t \in 0 .. n - 1 : mark[t] = DoneWith}
  BY <1>1
<1>3. NoCycleIn({t \in 0 .. n - 1 : mark[t] = DoneWith}, E)
  BY DEF Marked
<1>. QED
  BY <1>2, <1>3 DEF NoCycleIn

--------------------------------------------------------------------------------
(* The search of the wait-for graph *)

Graph == {e \in Registered \X Registered : WaitsFor(e[1], e[2])}
BlockedTasks == {t \in Registered : state[t] = "BLOCKED"}

(* The detector is not running, or has just been called. *)
Fresh ==
  /\ start_idx = 0 /\ state_arr = Cleared
  /\ stack = <<>> /\ edge_ptr = <<>>
  /\ cycle_nodes = <<>> /\ best_victim_idx = 0 /\ scanned = 0

IsCycle(c) ==
  /\ c \in Seq(Registered) /\ Len(c) \in 1 .. task_count /\ NoRepeats(c)
  /\ \A k \in 1 .. Len(c) : WaitsFor(c[k], c[(k % Len(c)) + 1])

BestSoFar ==
  /\ scanned \in 1 .. Len(cycle_nodes)
  /\ \E k \in 1 .. scanned : best_victim_idx = cycle_nodes[k]
  /\ \A k \in 1 .. scanned :
       cycle_nodes[k] = best_victim_idx \/ BetterVictim(best_victim_idx, cycle_nodes[k])

GraphMarked == Marked(Graph, task_count, BlockedTasks, start_idx, state_arr, stack)
GraphTried == Tried(Graph, task_count, state_arr, stack, edge_ptr)

(* The invariant of the search. *)
SearchInv ==
  /\ GraphMarked
  /\ cycle_nodes = <<>> => GraphTried
  /\ cycle_nodes # <<>> => stack # <<>> /\ IsCycle(cycle_nodes) /\ BestSoFar
  /\ Fresh \/ \E p \in Pairs : Detecting(p)

LEMMA GraphIsGraph ==
  ASSUME TypeOK
  PROVE  /\ IsGraph(Graph, task_count) /\ BlockedTasks \subseteq 0 .. task_count - 1
         /\ Registered = 0 .. task_count - 1
         /\ \A t, u : <<t, u>> \in Graph <=> t \in Registered /\ u \in Registered /\ WaitsFor(t, u)
<1>1. /\ task_count \in Nat /\ task_count <= MAX_TASKS
      /\ Registered = 0 .. task_count - 1
  BY RegisteredTasks DEF Registered
<1>2. \A t, u : <<t, u>> \in Graph <=> t \in Registered /\ u \in Registered /\ WaitsFor(t, u)
  BY DEF Graph
<1>3. \A t : ~WaitsFor(t, t)
  BY DEF WaitsFor
<1>4. Graph \subseteq Registered \X Registered
  BY DEF Graph
<1>5. BlockedTasks \subseteq Registered
  BY DEF BlockedTasks
<1>. QED
  BY <1>1, <1>2, <1>3, <1>4, <1>5 DEF IsGraph

LEMMA FreshSearch == TypeOK /\ Fresh => SearchInv
<1>. SUFFICES ASSUME TypeOK, Fresh PROVE SearchInv
  OBVIOUS
<1>1. /\ Marked(Graph, task_count, BlockedTasks, 0, Cleared, <<>>)
      /\ Tried(Graph, task_count, Cleared, <<>>, <<>>)
  BY GraphIsGraph, SearchBegins
<1>. QED
  BY <1>1 DEF SearchInv, GraphMarked, GraphTried, Fresh

LEMMA SameGraph ==
  ASSUME UNCHANGED <<state, required, held, task_count>>
  PROVE  /\ Graph' = Graph /\ BlockedTasks' = BlockedTasks /\ task_count' = task_count
         /\ Registered' = Registered
BY DEF Graph, BlockedTasks, Registered, WaitsFor

LEMMA NextStartStep ==
  ASSUME TypeOK, SearchInv, NEW p \in Pairs, NextStart(p)
  PROVE  SearchInv'
<1>1. /\ stack = <<>> /\ start_idx < task_count /\ Detecting(p) /\ cycle_nodes = <<>>
      /\ cycle_nodes' = <<>> /\ Detecting(p)'
  BY DEF NextStart, MoreStarts, SearchInv, Detecting, vars, pass
<1>2. /\ Graph' = Graph /\ BlockedTasks' = BlockedTasks /\ task_count' = task_count
      /\ IsGraph(Graph, task_count) /\ BlockedTasks \subseteq 0 .. task_count - 1
      /\ Registered = 0 .. task_count - 1
  BY SameGraph, GraphIsGraph DEF NextStart, vars, tasks
<1>3. /\ Marked(Graph, task_count, BlockedTasks, start_idx, state_arr, <<>>)
      /\ Tried(Graph, task_count, state_arr, stack, edge_ptr)
  BY <1>1 DEF SearchInv, GraphMarked, GraphTried
<1>4. GraphMarked' /\ GraphTried'
  <2>1. CASE IsStart(start_idx)
    <3>1. /\ stack' = <<start_idx>> /\ edge_ptr' = <<0>> /\ start_idx' = start_idx
          /\ state_arr' = [state_arr EXCEPT ![start_idx] = OnPath]
          /\ state_arr[start_idx] = Unseen
      BY <2>1 DEF NextStart, IsStart
    <3>2. /\ Marked(Graph, task_count, BlockedTasks, start_idx,
                    [state_arr EXCEPT ![start_idx] = OnPath], <<start_idx>>)
          /\ Tried(Graph, task_count, [state_arr EXCEPT ![start_idx] = OnPath],
                   <<start_idx>>, <<0>>)
      BY <1>1, <1>2, <1>3, <3>1, StartTaken
    <3>. QED
      BY <1>2, <3>1, <3>2 DEF GraphMarked, GraphTried
  <2>2. CASE ~IsStart(start_idx)
    <3>1. /\ stack' = stack /\ edge_ptr' = edge_ptr /\ start_idx' = start_idx + 1
          /\ state_arr' = state_arr
      BY <2>2 DEF NextStart
    <3>2. start_idx \notin BlockedTasks \/ state_arr[start_idx] # Unseen
      BY <2>2 DEF IsStart, BlockedTasks
    <3>3. Marked(Graph, task_count, BlockedTasks, start_idx + 1, state_arr, <<>>)
      BY <1>1, <1>2, <1>3, <3>2, StartPassed
    <3>. QED
      BY <1>1, <1>2, <1>3, <3>1, <3>3 DEF GraphMarked, GraphTried
  <2>. QED
    BY <2>1, <2>2
<1>. QED
  BY <1>1, <1>4 DEF SearchInv

(* The neighbours of the visited task are those that are still to be tried.*)
LEMMA NeighboursAreUntried ==
  ASSUME TypeOK, GraphMarked, GraphTried, stack # <<>>
  PROVE  Neighbours = Untried(Graph, task_count, state_arr, stack, edge_ptr)
<1>1. /\ Top \in 1 .. Top /\ stack[Top] \in Registered
      /\ edge_ptr[Top] \in 0 .. task_count /\ task_count \in Nat
  <2>1. IsGraph(Graph, task_count) /\ Registered = 0 .. task_count - 1 /\ task_count \in Nat
    BY GraphIsGraph, RegisteredTasks
  <2>2. Top \in Nat /\ \A k \in 1 .. Top : stack[k] \in 0 .. task_count - 1
    BY <2>1, MarkedFacts DEF GraphMarked, Top
  <2>3. stack \in Seq(0 .. task_count - 1) /\ edge_ptr \in Seq(0 .. task_count)
        /\ Len(edge_ptr) = Top
    BY DEF GraphMarked, Marked, GraphTried, Tried, Top
  <2>4. Top \in 1 .. Top
    BY <2>2, <2>3, EmptySeq DEF Top
  <2>. QED
    BY <2>1, <2>2, <2>3, <2>4, ElementOfSeq
<1>2. \A u \in edge_ptr[Top] .. task_count - 1 : u \in Registered
  BY <1>1 DEF Registered
<1>3. \A u \in edge_ptr[Top] .. task_count - 1 :
        WaitsFor(stack[Top], u) <=> <<stack[Top], u>> \in Graph
  BY <1>1, <1>2, GraphIsGraph
<1>. QED
  BY <1>3 DEF Neighbours, Untried, Top

LEMMA BacktrackStep ==
  ASSUME TypeOK, SearchInv, NEW p \in Pairs, Backtrack(p)
  PROVE  SearchInv'
<1>1. /\ stack # <<>> /\ cycle_nodes = <<>> /\ cycle_nodes' = <<>> /\ Detecting(p)'
      /\ Neighbours = {} /\ start_idx' = start_idx
      /\ state_arr' = [state_arr EXCEPT ![stack[Len(stack)]] = DoneWith]
      /\ stack' = SubSeq(stack, 1, Len(stack) - 1)
      /\ edge_ptr' = SubSeq(edge_ptr, 1, Len(stack) - 1)
  BY DEF Backtrack, Searching, Detecting, vars, pass, Top, Explored
<1>2. /\ Graph' = Graph /\ BlockedTasks' = BlockedTasks /\ task_count' = task_count
      /\ IsGraph(Graph, task_count) /\ BlockedTasks \subseteq 0 .. task_count - 1
  BY SameGraph, GraphIsGraph DEF Backtrack, vars, tasks
<1>3. GraphMarked /\ GraphTried
  BY <1>1 DEF SearchInv
<1>4. Untried(Graph, task_count, state_arr, stack, edge_ptr) = {}
  BY <1>1, <1>3, NeighboursAreUntried
<1>5. LET after == [state_arr EXCEPT ![stack[Len(stack)]] = DoneWith]
          rest == SubSeq(stack, 1, Len(stack) - 1)
      IN  /\ Marked(Graph, task_count, BlockedTasks, start_idx, after, rest)
          /\ Tried(Graph, task_count, after, rest, SubSeq(edge_ptr, 1, Len(stack) - 1))
  BY <1>1, <1>2, <1>3, <1>4, NodeDone DEF GraphMarked, GraphTried
<1>. QED
  BY <1>1, <1>2, <1>5 DEF SearchInv, GraphMarked, GraphTried

LEMMA DescendStep ==
  ASSUME TypeOK, SearchInv, NEW p \in Pairs, Descend(p)
  PROVE  SearchInv'
<1>1. /\ stack # <<>> /\ cycle_nodes = <<>> /\ cycle_nodes' = <<>> /\ Detecting(p)'
      /\ start_idx' = start_idx
  BY DEF Descend, Searching, Detecting, vars, pass
<1>2. /\ Graph' = Graph /\ BlockedTasks' = BlockedTasks /\ task_count' = task_count
      /\ IsGraph(Graph, task_count)
  BY SameGraph, GraphIsGraph DEF Descend, vars, tasks
<1>3. GraphMarked /\ GraphTried
  BY <1>1 DEF SearchInv
<1>4. PICK t \in First(Neighbours) :
        /\ state_arr[t] = Unseen
        /\ state_arr' = [state_arr EXCEPT ![t] = OnPath]
        /\ stack' = Append(stack, t)
        /\ edge_ptr' = Append([edge_ptr EXCEPT ![Len(stack)] = t + 1], 0)
  BY DEF Descend, Top
<1>5. /\ t \in Untried(Graph, task_count, state_arr, stack, edge_ptr)
      /\ \A u \in Untried(Graph, task_count, state_arr, stack, edge_ptr) : t <= u
  BY <1>1, <1>3, NeighboursAreUntried DEF First
<1>6. LET after == [state_arr EXCEPT ![t] = OnPath]
          longer == Append(stack, t)
      IN  /\ Marked(Graph, task_count, BlockedTasks, start_idx, after, longer)
          /\ Tried(Graph, task_count, after, longer,
                   Append([edge_ptr EXCEPT ![Len(stack)] = t + 1], 0))
  BY <1>1, <1>2, <1>3, <1>4, <1>5, NodeEntered DEF GraphMarked, GraphTried
<1>. QED
  BY <1>1, <1>2, <1>4, <1>6 DEF SearchInv, GraphMarked, GraphTried

LEMMA CloseCycleStep ==
  ASSUME TypeOK, SearchInv, NEW p \in Pairs, CloseCycle(p)
  PROVE  SearchInv'
<1>1. /\ stack # <<>> /\ cycle_nodes = <<>> /\ Detecting(p)'
      /\ start_idx' = start_idx /\ state_arr' = state_arr /\ stack' = stack
  BY DEF CloseCycle, Searching, Detecting, vars, pass
<1>2. /\ Graph' = Graph /\ BlockedTasks' = BlockedTasks /\ task_count' = task_count
      /\ Registered' = Registered /\ IsGraph(Graph, task_count)
      /\ Registered = 0 .. task_count - 1
      /\ \A t, u : WaitsFor(t, u)' <=> WaitsFor(t, u)
      /\ \A t, u : <<t, u>> \in Graph <=> t \in Registered /\ u \in Registered /\ WaitsFor(t, u)
  <2>1. UNCHANGED <<state, required, held, task_count>>
    BY DEF CloseCycle, vars, tasks
  <2>. QED
    BY <2>1, SameGraph, GraphIsGraph DEF WaitsFor
<1>3. GraphMarked /\ GraphTried
  BY <1>1 DEF SearchInv
<1>4. PICK t \in First(Neighbours) : \E k \in 1 .. Top :
        /\ stack[k] = t /\ cycle_nodes' = CycleAt(k)
        /\ best_victim_idx' = CycleAt(k)[1] /\ scanned' = 1
  BY DEF CloseCycle
<1>5. PICK k \in 1 .. Top :
        /\ stack[k] = t /\ cycle_nodes' = CycleAt(k)
        /\ best_victim_idx' = CycleAt(k)[1] /\ scanned' = 1
  BY <1>4
<1>6. t \in Untried(Graph, task_count, state_arr, stack, edge_ptr)
  BY <1>1, <1>3, NeighboursAreUntried DEF First
<1>. DEFINE c == SubSeq(stack, k, Len(stack))
<1>7. /\ c \in Seq(0 .. task_count - 1) /\ Len(c) \in 1 .. task_count /\ NoRepeats(c)
      /\ \A i \in 1 .. Len(c) : <<c[i], c[(i % Len(c)) + 1]>> \in Graph
  BY <1>1, <1>2, <1>3, <1>5, <1>6, CycleFound DEF GraphMarked, GraphTried, Top
<1>8. cycle_nodes' = c /\ best_victim_idx' = c[1] /\ scanned' = 1
  BY <1>5 DEF CycleAt, Top
<1>. HIDE DEF c
<1>9. c # <<>> /\ Len(c) \in Nat /\ 1 \in 1 .. Len(c)
  <2>1. task_count \in Nat
    BY RegisteredTasks
  <2>. QED
    BY <1>7, <2>1
<1>10. IsCycle(cycle_nodes)'
  BY <1>2, <1>7, <1>8 DEF IsCycle
<1>11. BestSoFar'
  <2>1. \A i \in 1 .. 1 : i = 1
    OBVIOUS
  <2>. QED
    BY <1>8, <1>9, <2>1 DEF BestSoFar
<1>12. GraphMarked'
  BY <1>1, <1>2, <1>3 DEF GraphMarked
<1>. QED
  BY <1>1, <1>8, <1>9, <1>10, <1>11, <1>12 DEF SearchInv

(* The preference between victims is a total order of the tasks.           *)
LEMMA VictimOrder ==
  ASSUME TypeOK, UniqueIds, NEW u \in Registered, NEW v \in Registered, NEW w \in Registered
  PROVE  /\ u = v \/ BetterVictim(u, v) \/ BetterVictim(v, u)
         /\ BetterVictim(u, v) /\ BetterVictim(v, w) => BetterVictim(u, w)
<1>1. /\ effective_priority[u] \in Int /\ effective_priority[v] \in Int
      /\ effective_priority[w] \in Int
  BY RegisteredTasks
<1>2. \A t \in Registered : remaining_time[t] \in Int /\ id[t] \in Int
  BY RegisteredTasks DEF TypeOK, TasksTypeOK
<1>3. id[u] = id[v] => u = v
  BY DEF UniqueIds
<1>4. u = v \/ BetterVictim(u, v) \/ BetterVictim(v, u)
  BY <1>1, <1>2, <1>3 DEF BetterVictim
<1>5. BetterVictim(u, v) /\ BetterVictim(v, w) => BetterVictim(u, w)
  BY <1>1, <1>2 DEF BetterVictim
<1>. QED
  BY <1>4, <1>5

LEMMA ScanStep ==
  ASSUME TypeOK, UniqueIds, SearchInv, NEW p \in Pairs, Scan(p)
  PROVE  SearchInv'
<1>1. /\ cycle_nodes # <<>> /\ scanned < Len(cycle_nodes) /\ Detecting(p)'
      /\ scanned' = scanned + 1
      /\ start_idx' = start_idx /\ state_arr' = state_arr /\ stack' = stack
      /\ cycle_nodes' = cycle_nodes
  BY DEF Scan, Detecting, vars, pass
<1>2. /\ UNCHANGED <<state, required, held, task_count>>
      /\ UNCHANGED <<effective_priority, remaining_time, id>>
  BY DEF Scan, vars, tasks
<1>3. /\ Graph' = Graph /\ BlockedTasks' = BlockedTasks /\ task_count' = task_count
      /\ Registered' = Registered
      /\ \A t, u : WaitsFor(t, u)' <=> WaitsFor(t, u)
      /\ \A t, u : BetterVictim(t, u)' <=> BetterVictim(t, u)
  BY <1>2, SameGraph DEF WaitsFor, BetterVictim
<1>4. GraphMarked /\ IsCycle(cycle_nodes) /\ BestSoFar /\ stack # <<>>
  BY <1>1 DEF SearchInv
<1>5. GraphMarked'
  BY <1>1, <1>3, <1>4 DEF GraphMarked
<1>6. IsCycle(cycle_nodes)'
  BY <1>1, <1>3, <1>4 DEF IsCycle
<1>. DEFINE t == cycle_nodes[scanned + 1]
            best == best_victim_idx
<1>7. /\ scanned \in 1 .. Len(cycle_nodes) /\ Len(cycle_nodes) \in Nat
      /\ scanned + 1 \in 1 .. Len(cycle_nodes)
      /\ \A k \in 1 .. Len(cycle_nodes) : cycle_nodes[k] \in Registered
      /\ \A k \in 1 .. scanned : k \in 1 .. Len(cycle_nodes)
      /\ \A k \in 1 .. scanned + 1 : k \in 1 .. scanned \/ k = scanned + 1
      /\ \A k \in 1 .. scanned : k \in 1 .. scanned + 1
      /\ scanned + 1 \in 1 .. scanned + 1
  <2>1. cycle_nodes \in Seq(Registered) /\ Len(cycle_nodes) \in Nat
    BY <1>4, LenProperties DEF IsCycle
  <2>2. scanned \in 1 .. Len(cycle_nodes)
    BY <1>4 DEF BestSoFar
  <2>3. \A k \in 1 .. Len(cycle_nodes) : cycle_nodes[k] \in Registered
    BY <2>1, ElementOfSeq
  <2>. QED
    BY <1>1, <2>1, <2>2, <2>3
<1>8. best_victim_idx' = IF BetterVictim(t, best) THEN t ELSE best
  BY DEF Scan
<1>9. t \in Registered /\ best \in Registered
  BY <1>4, <1>7 DEF BestSoFar
<1>. HIDE DEF t, best
<1>10. BestSoFar'
  <2>1. ASSUME BetterVictim(t, best)
        PROVE  \A k \in 1 .. scanned + 1 : cycle_nodes[k] = t \/ BetterVictim(t, cycle_nodes[k])
    <3>. SUFFICES ASSUME NEW k \in 1 .. scanned + 1
                  PROVE  cycle_nodes[k] = t \/ BetterVictim(t, cycle_nodes[k])
      OBVIOUS
    <3>1. CASE k = scanned + 1
      BY <3>1 DEF t
    <3>2. CASE k \in 1 .. scanned
      <4>1. cycle_nodes[k] \in Registered
        BY <1>7, <3>2
      <4>2. cycle_nodes[k] = best \/ BetterVictim(best, cycle_nodes[k])
        BY <1>4, <3>2 DEF BestSoFar, best
      <4>. QED
        BY <1>9, <2>1, <4>1, <4>2, VictimOrder
    <3>. QED
      BY <1>7, <3>1, <3>2
  <2>2. ASSUME ~BetterVictim(t, best)
        PROVE  \A k \in 1 .. scanned + 1 :
                 cycle_nodes[k] = best \/ BetterVictim(best, cycle_nodes[k])
    <3>. SUFFICES ASSUME NEW k \in 1 .. scanned + 1
                  PROVE  cycle_nodes[k] = best \/ BetterVictim(best, cycle_nodes[k])
      OBVIOUS
    <3>1. CASE k = scanned + 1
      BY <1>9, <2>2, <3>1, VictimOrder DEF t
    <3>2. CASE k \in 1 .. scanned
      BY <1>4, <3>2 DEF BestSoFar, best
    <3>. QED
      BY <1>7, <3>1, <3>2
  <2>3. \E k \in 1 .. scanned + 1 : t = cycle_nodes[k]
    BY <1>7 DEF t
  <2>4. \E k \in 1 .. scanned + 1 : best = cycle_nodes[k]
    BY <1>4, <1>7 DEF BestSoFar, best
  <2>. QED
    BY <1>1, <1>3, <1>7, <1>8, <2>1, <2>2, <2>3, <2>4 DEF BestSoFar
<1>. QED
  BY <1>1, <1>4, <1>5, <1>6, <1>10 DEF SearchInv

(* What has been found is a cycle, and its victim is known once all of it  *)
(* has been seen.                                                          *)
LEMMA CycleIsFound ==
  ASSUME TypeOK, SearchInv, cycle_nodes # <<>>
  PROVE  /\ cycle_nodes \in WaitCycles
         /\ scanned = Len(cycle_nodes) => best_victim_idx \in Victims(cycle_nodes)
<1>1. IsCycle(cycle_nodes) /\ BestSoFar
  BY DEF SearchInv
<1>. DEFINE n == Len(cycle_nodes)
<1>2. /\ cycle_nodes \in Seq(Registered) /\ n \in 1 .. task_count /\ NoRepeats(cycle_nodes)
      /\ \A k \in 1 .. n : WaitsFor(cycle_nodes[k], cycle_nodes[(k % n) + 1])
  BY <1>1 DEF IsCycle
<1>3. DOMAIN cycle_nodes = 1 .. n /\ cycle_nodes \in [1 .. n -> Registered]
  BY <1>2, LenProperties
<1>4. Range(cycle_nodes) = {cycle_nodes[k] : k \in 1 .. n}
  BY <1>3 DEF Range
<1>5. cycle_nodes \in WaitCycles
  BY <1>2, <1>3 DEF WaitCycles
<1>6. scanned = n => best_victim_idx \in Victims(cycle_nodes)
  BY <1>1, <1>4 DEF BestSoFar, Victims
<1>. QED
  BY <1>5, <1>6

(* A search that is over has missed no cycle. *)
LEMMA NoneIsMissed ==
  ASSUME TypeOK, SearchInv, NEW p \in Pairs, SearchOver(p)
  PROVE  (\A S \in SUBSET Registered : Stuck(S) => S = {}) /\ WaitCycles = {}
<1>1. /\ IsGraph(Graph, task_count) /\ BlockedTasks \subseteq 0 .. task_count - 1
      /\ \A t, u : <<t, u>> \in Graph <=> t \in Registered /\ u \in Registered /\ WaitsFor(t, u)
      /\ task_count \in Nat
  BY GraphIsGraph, RegisteredTasks
<1>2. start_idx = task_count /\ stack = <<>>
  <2>1. start_idx \in 0 .. task_count
    BY DEF SearchInv, GraphMarked, Marked
  <2>. QED
    BY <1>1, <2>1 DEF SearchOver, MoreStarts
<1>3. Marked(Graph, task_count, BlockedTasks, task_count, state_arr, <<>>)
  BY <1>2 DEF SearchInv, GraphMarked
<1>4. NoCycleIn(BlockedTasks, Graph)
  BY <1>1, <1>3, NoCycleLeft
<1>5. ASSUME NEW S \in SUBSET Registered, Stuck(S)
      PROVE  S = {}
  <2>1. S \in SUBSET BlockedTasks
    BY <1>5 DEF Stuck, BlockedTasks
  <2>2. \A t \in S : \E u \in S : WaitsFor(t, u)
    BY <1>5 DEF Stuck, WaitsFor
  <2>3. \A t \in S : \E u \in S : <<t, u>> \in Graph
    BY <1>1, <2>2
  <2>. QED
    BY <1>4, <2>1, <2>3 DEF NoCycleIn
<1>6. ASSUME NEW c \in WaitCycles
      PROVE  FALSE
  <2>1. Range(c) \in SUBSET Registered /\ Stuck(Range(c))
    BY CyclesAreStuck
  <2>2. Range(c) = {}
    BY <1>5, <2>1
  <2>3. PICK n \in 1 .. task_count : c \in [1 .. n -> Registered]
    BY DEF WaitCycles
  <2>4. 1 \in DOMAIN c
    BY <1>1, <2>3
  <2>. QED
    BY <2>2, <2>4 DEF Range
<1>. QED
  BY <1>5, <1>6

--------------------------------------------------------------------------------
(* The steps of the scheduler with its search *)

LEMMA SearchStepInv ==
  ASSUME TypeOK, UniqueIds, SearchInv, NEW p \in Pairs, SearchStep(p)
  PROVE  SearchInv' /\ UNCHANGED vars
<1>1. CASE NextStart(p)
  BY <1>1, NextStartStep DEF NextStart
<1>2. CASE Backtrack(p)
  BY <1>2, BacktrackStep DEF Backtrack
<1>3. CASE Descend(p)
  BY <1>3, DescendStep DEF Descend
<1>4. CASE CloseCycle(p)
  BY <1>4, CloseCycleStep DEF CloseCycle
<1>5. CASE Scan(p)
  BY <1>5, ScanStep DEF Scan
<1>. QED
  BY <1>1, <1>2, <1>3, <1>4, <1>5 DEF SearchStep

(* What is aborted is a victim of a cycle.                                 *)
LEMMA AbortIsAllowed ==
  ASSUME TypeOK, SearchInv, NEW p \in Pairs, AbortVictim(p)
  PROVE  ResolveDeadlock(p) /\ Fresh'
<1>1. cycle_nodes \in WaitCycles /\ best_victim_idx \in Victims(cycle_nodes)
  BY CycleIsFound DEF AbortVictim
<1>2. ResolveDeadlock(p)
  BY <1>1 DEF AbortVictim, ResolveDeadlock, Detecting
<1>3. Fresh'
  BY DEF AbortVictim, NewSearch, Fresh, Restarted, Cleared
<1>. QED
  BY <1>2, <1>3

(* The pass ends when no cycle is left. *)
LEMMA EndIsAllowed ==
  ASSUME TypeOK, SearchInv, NEW p \in Pairs, EndOfPass(p)
  PROVE  (SelectTask(p) \/ NothingToRun(p)) /\ Fresh'
<1>1. WaitCycles = {}
  BY NoneIsMissed DEF EndOfPass
<1>2. Fresh'
  BY DEF EndOfPass, NewSearch, Fresh, Restarted, Cleared
<1>. QED
  BY <1>1, <1>2 DEF EndOfPass, SelectTask, NothingToRun

(* While the detector runs it has the mutex, and nobody else changes a     *)
(* task or a queue.                                                        *)
OtherStep ==
  \/ \E p \in Pairs : ~Closed /\ (OtherSchedulerStep(p) \/ WorkerStep(p))
  \/ ClientStep \/ JniContinues \/ Stopped

LEMMA OthersAreQuiet ==
  ASSUME TypeOK, PassOwnsMutex, NEW p \in Pairs, Detecting(p), OtherStep
  PROVE  Quiet
<1>. USE DEF TypeOK, ControlTypeOK, tasks, queues, pass, locals, handles
<1>1. mutex # Free /\ \A q \in Pairs : spc[q] = "pass" => ~(blocked_left > 0)
  BY PairsAssumption DEF PassOwnsMutex, Detecting
<1>2. CASE ClientStep
  <2>1. \A job \in Jobs : ~Submit(job)
    BY <1>1 DEF Submit
  <2>2. \A i, priority : ~ChangePriority(i, priority)
    BY <1>1 DEF ChangePriority
  <2>3. ASSUME NEW q \in Pairs, Start(q)
        PROVE  Quiet
    <3>1. PICK s, w \in {"boot", "done"} : spc' = [spc EXCEPT ![q] = s]
                                          /\ wpc' = [wpc EXCEPT ![q] = w]
      BY <2>3 DEF Start, Forked
    <3>. QED
      BY <2>3, <3>1 DEF Start, Quiet
  <2>4. CASE Stop
    BY <2>4 DEF Stop, Quiet
  <2>. QED
    BY <1>2, <2>1, <2>2, <2>3, <2>4 DEF ClientStep
<1>3. CASE JniContinues
  BY <1>3 DEF JniContinues, Notify, StopPost, JoinScheduler, JoinWorker, Quiet
<1>4. CASE Stopped
  BY <1>4 DEF Stopped, Quiet, vars
<1>5. ASSUME NEW q \in Pairs, OtherSchedulerStep(q)
      PROVE  Quiet
  <2>1. CASE SchedulerBoot(q)
    BY <2>1 DEF SchedulerBoot, Attached, Quiet
  <2>2. CASE SchedulerCheck(q)
    BY <2>2 DEF SchedulerCheck, Quiet
  <2>3. ~BeginPass(q) /\ ~AllocateNext(q)
    BY <1>1 DEF BeginPass, AllocateNext
  <2>4. ASSUME NEW from, NEW s, NEW to, from # "pass", to # "pass",
               SchedulerPosts(q, from, s, to) \/ SchedulerWaits(q, from, s, to)
        PROVE  Quiet
    BY <2>4 DEF SchedulerPosts, SchedulerWaits, Quiet
  <2>. QED
    BY <1>5, <2>1, <2>2, <2>3, <2>4 DEF OtherSchedulerStep
<1>6. ASSUME NEW q \in Pairs, WorkerStep(q)
      PROVE  Quiet
  <2>1. CASE WorkerBoot(q)
    BY <2>1 DEF WorkerBoot, Attached, Quiet
  <2>2. CASE WorkerCheck(q)
    BY <2>2 DEF WorkerCheck, Quiet
  <2>3. CASE WorkerWaits(q)
    BY <2>3 DEF WorkerWaits, Quiet
  <2>4. ASSUME NEW from, NEW s, NEW to, from # "running", to # "running",
               WorkerPosts(q, from, s, to)
        PROVE  Quiet
    BY <2>4 DEF WorkerPosts, Quiet
  <2>5. ~PickupRun(q) /\ ~PickupReject(q) /\ ~PickupUnknown(q) /\ ~FinishQuantum(q)
    BY <1>1 DEF PickupRun, PickupReject, PickupUnknown, FinishQuantum
  <2>. QED
    BY <1>6, <2>1, <2>2, <2>3, <2>4, <2>5 DEF WorkerStep
<1>. QED
  BY <1>2, <1>3, <1>4, <1>5, <1>6 DEF OtherStep

LEMMA OthersKeepSearch ==
  ASSUME TypeOK, PassOwnsMutex, SearchInv, ~Fresh, OtherStep, UNCHANGED search
  PROVE  SearchInv'
<1>1. PICK p \in Pairs : Detecting(p)
  BY DEF SearchInv
<1>2. Quiet
  BY <1>1, OthersAreQuiet
<1>3. Detecting(p)'
  BY <1>1, <1>2 DEF Quiet, Detecting, pass
<1>4. /\ UNCHANGED <<state, required, held, task_count>>
      /\ UNCHANGED <<effective_priority, remaining_time, id>>
  BY <1>2 DEF Quiet, tasks
<1>5. /\ Graph' = Graph /\ BlockedTasks' = BlockedTasks /\ task_count' = task_count
      /\ Registered' = Registered
      /\ \A t, u : WaitsFor(t, u)' <=> WaitsFor(t, u)
      /\ \A t, u : BetterVictim(t, u)' <=> BetterVictim(t, u)
  BY <1>4, SameGraph DEF WaitsFor, BetterVictim
<1>6. UNCHANGED search
  OBVIOUS
<1>7. GraphMarked' /\ (cycle_nodes' = <<>> => GraphTried')
  BY <1>5, <1>6 DEF SearchInv, GraphMarked, GraphTried, search
<1>8. cycle_nodes' # <<>> => stack' # <<>> /\ IsCycle(cycle_nodes)' /\ BestSoFar'
  BY <1>5, <1>6 DEF SearchInv, IsCycle, BestSoFar, search
<1>. QED
  BY <1>3, <1>7, <1>8 DEF SearchInv

(* A step of the scheduler with its search is one of module Scheduler, or  *)
(* it is one of the search, which changes no variable of that module.      *)
LEMMA StepIsScheduled ==
  ASSUME IInv, SearchInv, [DetectorNext]_detectorVars
  PROVE  /\ [Next]_vars
         /\ SearchInv' \/ Fresh'
<1>1. TypeOK /\ PassOwnsMutex /\ UniqueIds
  BY DEF IInv, DataInv, AssignmentInv
<1>2. CASE UNCHANGED detectorVars
  <2>1. UNCHANGED vars /\ UNCHANGED search
    BY <1>2 DEF detectorVars
  <2>2. CASE Fresh
    BY <2>1, <2>2 DEF Fresh, search
  <2>3. CASE ~Fresh
    <3>1. PICK p \in Pairs : Detecting(p)
      BY <2>3 DEF SearchInv
    <3>2. Detecting(p)'
      BY <2>1, <3>1 DEF Detecting, vars, pass
    <3>3. UNCHANGED <<state, required, held, task_count, effective_priority,
                      remaining_time, id>>
      BY <2>1 DEF vars, tasks
    <3>4. /\ Graph' = Graph /\ BlockedTasks' = BlockedTasks /\ task_count' = task_count
          /\ Registered' = Registered
          /\ \A t, u : WaitsFor(t, u)' <=> WaitsFor(t, u)
          /\ \A t, u : BetterVictim(t, u)' <=> BetterVictim(t, u)
      BY <3>3, SameGraph DEF WaitsFor, BetterVictim
    <3>5. GraphMarked' /\ (cycle_nodes' = <<>> => GraphTried')
      BY <2>1, <3>4 DEF SearchInv, GraphMarked, GraphTried, search
    <3>6. cycle_nodes' # <<>> => stack' # <<>> /\ IsCycle(cycle_nodes)' /\ BestSoFar'
      BY <2>1, <3>4 DEF SearchInv, IsCycle, BestSoFar, search
    <3>. QED
      BY <2>1, <3>2, <3>5, <3>6 DEF SearchInv
  <2>. QED
    BY <2>1, <2>2, <2>3
<1>3. ASSUME OtherStep, UNCHANGED search
      PROVE  [Next]_vars /\ (SearchInv' \/ Fresh')
  <2>1. [Next]_vars
    <3>1. ASSUME NEW p \in Pairs, ~Closed, OtherSchedulerStep(p) \/ WorkerStep(p)
          PROVE  ProcessStep(p)
      BY <3>1 DEF OtherSchedulerStep, ProcessStep, SchedulerStep
    <3>2. ClientStep \/ JniContinues \/ Stopped => Next
      BY DEF ClientStep, Next
    <3>. QED
      BY <1>3, <3>1, <3>2 DEF OtherStep, Next
  <2>2. CASE Fresh
    BY <1>3, <2>1, <2>2 DEF Fresh, search
  <2>3. CASE ~Fresh
    BY <1>1, <1>3, <2>1, <2>3, OthersKeepSearch
  <2>. QED
    BY <2>1, <2>2, <2>3
<1>4. ASSUME NEW p \in Pairs, ~Closed, SearchStep(p)
      PROVE  [Next]_vars /\ (SearchInv' \/ Fresh')
  BY <1>1, <1>4, SearchStepInv
<1>5. ASSUME NEW p \in Pairs, ~Closed, AbortVictim(p) \/ EndOfPass(p)
      PROVE  [Next]_vars /\ (SearchInv' \/ Fresh')
  <2>1. SchedulerStep(p) /\ Fresh'
    BY <1>1, <1>5, AbortIsAllowed, EndIsAllowed DEF SchedulerStep
  <2>. QED
    BY <1>5, <2>1 DEF Next, ProcessStep
<1>6. DetectorNext => \/ OtherStep /\ UNCHANGED search
                      \/ \E p \in Pairs : ~Closed /\ SearchStep(p)
                      \/ \E p \in Pairs : ~Closed /\ (AbortVictim(p) \/ EndOfPass(p))
  BY DEF DetectorNext, DetailedSchedulerStep, OtherStep
<1>. QED
  BY <1>2, <1>3, <1>4, <1>5, <1>6

DetectorInv == IInv /\ SearchInv

LEMMA InitDetectorInv == DetectorInit => DetectorInv
<1>. SUFFICES ASSUME DetectorInit PROVE DetectorInv
  OBVIOUS
<1>1. IInv
  BY InitIInv DEF DetectorInit
<1>2. TypeOK /\ Fresh
  BY <1>1 DEF IInv, DataInv, DetectorInit, Fresh
<1>. QED
  BY <1>1, <1>2, FreshSearch DEF DetectorInv

LEMMA StepDetectorInv == DetectorInv /\ [DetectorNext]_detectorVars => DetectorInv'
<1>1. DetectorInv /\ [DetectorNext]_detectorVars => IInv' /\ (SearchInv' \/ Fresh')
  BY StepIsScheduled, StepIInv DEF DetectorInv
<1>2. (TypeOK /\ Fresh => SearchInv)'
  BY FreshSearch, PTL
<1>3. IInv' => TypeOK'
  BY DEF IInv, DataInv
<1>4. (TypeOK' /\ Fresh' => SearchInv')
  BY <1>2
<1>. QED
  BY <1>1, <1>3, <1>4 DEF DetectorInv

LEMMA DetectorInvariance == DetectorSpec => []DetectorInv
BY InitDetectorInv, StepDetectorInv, PTL DEF DetectorSpec

(* What the search has found is a cycle of tasks that wait for one another,*)
(* and the task that it aborts is the victim of it by the order of         *)
(* priority, remaining time and id.                                        *)
THEOREM SearchFindsCycles == DetectorSpec => []FoundIsCycle
<1>1. DetectorInv => FoundIsCycle
  BY CycleIsFound DEF DetectorInv, IInv, DataInv, FoundIsCycle
<1>. QED
  BY <1>1, DetectorInvariance, PTL

(* A search that is over has missed no cycle: no set of tasks is left in   *)
(* which each waits for what another one holds.                            *)
THEOREM SearchMissesNone == DetectorSpec => []NothingMissed
<1>1. DetectorInv => NothingMissed
  BY NoneIsMissed DEF DetectorInv, IInv, DataInv, NothingMissed
<1>. QED
  BY <1>1, DetectorInvariance, PTL

(* The scheduler with its search implements module Scheduler: every step   *)
(* is one of that module, or leaves its variables alone.                   *)
THEOREM SearchRefinesScheduler == DetectorSpec => SearchImplementsScheduler
<1>1. DetectorInit => Init
  BY DEF DetectorInit
<1>2. DetectorInv /\ [DetectorNext]_detectorVars => [Next]_vars
  BY StepIsScheduled DEF DetectorInv
<1>. QED
  BY <1>1, <1>2, DetectorInvariance, PTL DEF DetectorSpec, SearchImplementsScheduler

--------------------------------------------------------------------------------
(* The search ends *)

(* The counters of the search: nothing is scanned before a cycle is found, *)
(* and the edge pointers are kept while it is scanned.                     *)
SearchCounters ==
  /\ cycle_nodes = <<>> => scanned = 0 /\ best_victim_idx = 0
  /\ cycle_nodes # <<>> => edge_ptr \in Seq(0 .. task_count) /\ Len(edge_ptr) = Len(stack)

LEMMA StepSearchCounters ==
  ASSUME DetectorInv, SearchCounters, [DetectorNext]_detectorVars
  PROVE  SearchCounters'
<1>1. /\ TypeOK /\ PassOwnsMutex /\ UniqueIds /\ SearchInv
      /\ task_count \in Nat /\ Registered = 0 .. task_count - 1
  BY RegisteredTasks, GraphIsGraph DEF DetectorInv, IInv, DataInv, AssignmentInv
<1>2. ASSUME UNCHANGED <<edge_ptr, stack, cycle_nodes, scanned, best_victim_idx>>,
             cycle_nodes # <<>> => task_count' = task_count
      PROVE  SearchCounters'
  BY <1>2 DEF SearchCounters
<1>3. ASSUME Fresh' PROVE SearchCounters'
  BY <1>3 DEF Fresh, SearchCounters
<1>4. CASE UNCHANGED detectorVars
  BY <1>2, <1>4 DEF detectorVars, vars, search
<1>5. ASSUME OtherStep, UNCHANGED search PROVE SearchCounters'
  <2>1. UNCHANGED <<edge_ptr, stack, cycle_nodes, scanned, best_victim_idx>>
    BY <1>5 DEF search
  <2>2. ASSUME cycle_nodes # <<>> PROVE task_count' = task_count
    <3>1. PICK p \in Pairs : Detecting(p)
      BY <1>1, <2>2 DEF SearchInv, Fresh
    <3>2. Quiet
      BY <1>1, <1>5, <3>1, OthersAreQuiet
    <3>. QED
      BY <3>2 DEF Quiet
  <2>. QED
    BY <1>2, <2>1, <2>2
<1>6. ASSUME NEW p \in Pairs, NextStart(p) \/ Backtrack(p) \/ Descend(p) PROVE SearchCounters'
  <2>1. /\ cycle_nodes = <<>> /\ UNCHANGED <<cycle_nodes, scanned, best_victim_idx>>
    BY <1>1, <1>6 DEF NextStart, Backtrack, Descend, Searching, SearchInv
  <2>. QED
    BY <2>1 DEF SearchCounters
<1>7. ASSUME NEW p \in Pairs, CloseCycle(p) PROVE SearchCounters'
  <2>1. /\ stack # <<>> /\ cycle_nodes = <<>> /\ stack' = stack /\ task_count' = task_count
    BY <1>7 DEF CloseCycle, Searching, vars
  <2>2. PICK t \in Neighbours : edge_ptr' = [edge_ptr EXCEPT ![Top] = t + 1] /\ scanned' = 1
    BY <1>7 DEF CloseCycle, First
  <2>3. GraphTried
    BY <1>1, <2>1 DEF SearchInv
  <2>4. edge_ptr \in Seq(0 .. task_count) /\ Len(edge_ptr) = Len(stack)
    BY <2>3 DEF GraphTried, Tried
  <2>5. t \in Int /\ edge_ptr[Top] <= t /\ t <= task_count - 1
    BY DEF Neighbours
  <2>6. Len(stack) \in 1 .. Len(stack)
    <3>1. stack \in Seq(0 .. task_count - 1)
      BY <1>1 DEF SearchInv, GraphMarked, Marked
    <3>. QED
      BY <2>1, <3>1, EmptySeq, LenProperties
  <2>7. t + 1 \in 0 .. task_count
    <3>1. edge_ptr[Top] \in 0 .. task_count
      BY <2>4, <2>6, ElementOfSeq DEF Top
    <3>. QED
      BY <1>1, <2>5, <3>1
  <2>8. edge_ptr' \in Seq(0 .. task_count) /\ Len(edge_ptr') = Len(edge_ptr)
    <3>1. \A i \in 1 .. Len(edge_ptr), e \in 0 .. task_count :
            /\ [edge_ptr EXCEPT ![i] = e] \in Seq(0 .. task_count)
            /\ Len([edge_ptr EXCEPT ![i] = e]) = Len(edge_ptr)
      BY <2>4, ExceptSeq
    <3>2. Top \in 1 .. Len(edge_ptr)
      BY <2>4, <2>6 DEF Top
    <3>. QED
      BY <2>2, <2>7, <3>1, <3>2
  <2>9. cycle_nodes' # <<>>
    <3>1. PICK k \in 1 .. Len(stack) : cycle_nodes' = SubSeq(stack, k, Len(stack))
      BY <1>7 DEF CloseCycle, CycleAt, Top
    <3>2. stack \in Seq(0 .. task_count - 1)
      BY <1>1 DEF SearchInv, GraphMarked, Marked
    <3>3. /\ Len(SubSeq(stack, k, Len(stack))) = Len(stack) - k + 1
          /\ Len(stack) \in Nat
      BY <3>2, LenProperties
    <3>4. Len(cycle_nodes') # 0
      BY <3>1, <3>3
    <3>. QED
      BY <3>4
  <2>. QED
    BY <2>1, <2>4, <2>8, <2>9 DEF SearchCounters
<1>8. ASSUME NEW p \in Pairs, Scan(p) PROVE SearchCounters'
  BY <1>8 DEF Scan, SearchCounters, vars
<1>9. ASSUME NEW p \in Pairs, AbortVictim(p) \/ EndOfPass(p) PROVE SearchCounters'
  BY <1>1, <1>3, <1>9, AbortIsAllowed, EndIsAllowed
<1>10. DetectorNext => \/ OtherStep /\ UNCHANGED search
                       \/ \E p \in Pairs : SearchStep(p)
                       \/ \E p \in Pairs : AbortVictim(p) \/ EndOfPass(p)
  BY DEF DetectorNext, DetailedSchedulerStep, OtherStep
<1>. QED
  BY <1>4, <1>5, <1>6, <1>7, <1>8, <1>9, <1>10 DEF SearchStep

CountersInv == DetectorInv /\ SearchCounters

LEMMA CountersInvariance == DetectorSpec => []CountersInv
<1>1. DetectorInit => SearchCounters
  BY DEF DetectorInit, SearchCounters
<1>. QED
  BY <1>1, InitDetectorInv, StepDetectorInv, StepSearchCounters, PTL DEF DetectorSpec, CountersInv

LEMMA SearchIsTyped == CountersInv => DetectorTypeOK
<1>. SUFFICES ASSUME CountersInv PROVE DetectorTypeOK
  OBVIOUS
<1>1. /\ TypeOK /\ SearchInv /\ SearchCounters
      /\ Registered = 0 .. task_count - 1 /\ Registered \subseteq Idx
  BY RegisteredTasks, GraphIsGraph DEF CountersInv, DetectorInv, IInv, DataInv
<1>2. /\ start_idx \in 0 .. task_count /\ state_arr \in [Idx -> {Unseen, OnPath, DoneWith}]
      /\ stack \in Seq(Registered)
  BY <1>1 DEF SearchInv, GraphMarked, Marked
<1>3. edge_ptr \in Seq(0 .. task_count) /\ Len(edge_ptr) = Top
  BY <1>1 DEF SearchInv, GraphTried, Tried, SearchCounters, Top
<1>4. CASE cycle_nodes = <<>>
  <2>1. Len(<<>>) = 0 /\ 0 \in 0 .. 0 /\ <<>> \in Seq(Registered)
    OBVIOUS
  <2>2. 0 \in Idx
    BY MaxTasksAssumption DEF Idx
  <2>. QED
    BY <1>1, <1>2, <1>3, <1>4, <2>1, <2>2 DEF SearchCounters, DetectorTypeOK
<1>5. CASE cycle_nodes # <<>>
  <2>1. IsCycle(cycle_nodes) /\ BestSoFar
    BY <1>1, <1>5 DEF SearchInv
  <2>2. cycle_nodes \in Seq(Registered) /\ Len(cycle_nodes) \in Nat
    BY <2>1, LenProperties DEF IsCycle
  <2>3. scanned \in 1 .. Len(cycle_nodes)
    BY <2>1 DEF BestSoFar
  <2>4. best_victim_idx \in Idx
    <3>1. PICK k \in 1 .. scanned : best_victim_idx = cycle_nodes[k]
      BY <2>1 DEF BestSoFar
    <3>2. k \in 1 .. Len(cycle_nodes)
      BY <2>2, <2>3
    <3>. QED
      BY <1>1, <2>2, <3>1, <3>2, ElementOfSeq
  <2>5. scanned \in 0 .. Len(cycle_nodes)
    BY <2>2, <2>3
  <2>. QED
    BY <1>2, <1>3, <2>2, <2>4, <2>5 DEF DetectorTypeOK
<1>. QED
  BY <1>4, <1>5

(* Every mark, every pointer and every counter of the search has its type: *)
(* the arrays that the detector indexes are large enough.                  *)
THEOREM SearchTyping == DetectorSpec => []DetectorTypeOK
BY SearchIsTyped, CountersInvariance, PTL

(* How many steps the marks of a search stand for. *)
Weight(mark) == Cardinality({t \in Idx : mark[t] = OnPath})
                + 2 * Cardinality({t \in Idx : mark[t] = DoneWith})

Marks == [Idx -> {Unseen, OnPath, DoneWith}]

(* A task is on the path or done with, not both: the marks of all tasks    *)
(* stand for at most two steps each.                                       *)
LEMMA WeightBound ==
  ASSUME NEW mark \in Marks
  PROVE  Weight(mark) \in Nat /\ Weight(mark) <= 2 * MAX_TASKS
<1>. DEFINE P == {t \in Idx : mark[t] = OnPath}
            D == {t \in Idx : mark[t] = DoneWith}
<1>1. IsFiniteSet(Idx) /\ Cardinality(Idx) = MAX_TASKS
  BY MaxTasksAssumption, FS_Interval DEF Idx
<1>2. P \subseteq Idx /\ D \subseteq Idx /\ P \cap D = {}
  BY MarksDiffer
<1>. HIDE DEF P, D
<1>3. /\ IsFiniteSet(P) /\ IsFiniteSet(D)
      /\ Cardinality(P) \in Nat /\ Cardinality(D) \in Nat
  BY <1>1, <1>2, FS_Subset, FS_CardinalityType
<1>4. /\ Cardinality(P \cup D) = Cardinality(P) + Cardinality(D) - Cardinality(P \cap D)
      /\ Cardinality(P \cup D) <= MAX_TASKS
  <2>1. P \cup D \in SUBSET Idx
    BY <1>2
  <2>. QED
    BY <1>1, <1>3, <2>1, FS_Union, FS_Subset
<1>5. Cardinality(P \cap D) = 0
  BY <1>2, FS_EmptySet
<1>6. Cardinality(P) + Cardinality(D) <= MAX_TASKS
  BY <1>3, <1>4, <1>5
<1>7. Weight(mark) = Cardinality(P) + 2 * Cardinality(D)
  BY DEF Weight, P, D
<1>. QED
  BY <1>3, <1>6, <1>7, MaxTasksAssumption

(* A task enters the path: one step. *)
LEMMA WeightOfPath ==
  ASSUME NEW mark \in Marks, NEW t \in Idx, mark[t] = Unseen
  PROVE  Weight([mark EXCEPT ![t] = OnPath]) = Weight(mark) + 1
<1>. DEFINE P == {u \in Idx : mark[u] = OnPath}
            D == {u \in Idx : mark[u] = DoneWith}
            after == [mark EXCEPT ![t] = OnPath]
            AP == {u \in Idx : after[u] = OnPath}
            AD == {u \in Idx : after[u] = DoneWith}
<1>1. IsFiniteSet(P) /\ Cardinality(P) \in Nat /\ Cardinality(D) \in Nat
  <2>1. IsFiniteSet(Idx) /\ P \subseteq Idx /\ D \subseteq Idx
    BY MaxTasksAssumption, FS_Interval DEF Idx
  <2>. HIDE DEF P, D
  <2>. QED
    BY <2>1, FS_Subset, FS_CardinalityType
<1>2. \A u \in Idx : after[u] = IF u = t THEN OnPath ELSE mark[u]
  BY DEF Marks
<1>. HIDE DEF after
<1>3. t \notin P /\ AP = P \cup {t} /\ AD = D
  BY <1>2, MarksDiffer
<1>4. Weight(mark) = Cardinality(P) + 2 * Cardinality(D)
      /\ Weight(after) = Cardinality(AP) + 2 * Cardinality(AD)
  BY DEF Weight
<1>. HIDE DEF P, D, AP, AD
<1>5. Cardinality(AP) = Cardinality(P) + 1
  BY <1>1, <1>3, FS_AddElement
<1>6. Weight(after) = Weight(mark) + 1
  BY <1>1, <1>3, <1>4, <1>5
<1>. QED
  BY <1>6 DEF after

(* A task of the path is done with: one step more. *)
LEMMA WeightOfDone ==
  ASSUME NEW mark \in Marks, NEW t \in Idx, mark[t] = OnPath
  PROVE  Weight([mark EXCEPT ![t] = DoneWith]) = Weight(mark) + 1
<1>. DEFINE P == {u \in Idx : mark[u] = OnPath}
            D == {u \in Idx : mark[u] = DoneWith}
            after == [mark EXCEPT ![t] = DoneWith]
            AP == {u \in Idx : after[u] = OnPath}
            AD == {u \in Idx : after[u] = DoneWith}
<1>1. /\ IsFiniteSet(P) /\ IsFiniteSet(D)
      /\ Cardinality(P) \in Nat /\ Cardinality(D) \in Nat
  <2>1. IsFiniteSet(Idx) /\ P \subseteq Idx /\ D \subseteq Idx
    BY MaxTasksAssumption, FS_Interval DEF Idx
  <2>. HIDE DEF P, D
  <2>. QED
    BY <2>1, FS_Subset, FS_CardinalityType
<1>2. \A u \in Idx : after[u] = IF u = t THEN DoneWith ELSE mark[u]
  BY DEF Marks
<1>. HIDE DEF after
<1>3. t \in P /\ t \notin D /\ AP = P \ {t} /\ AD = D \cup {t}
  BY <1>2, MarksDiffer
<1>4. Weight(mark) = Cardinality(P) + 2 * Cardinality(D)
      /\ Weight(after) = Cardinality(AP) + 2 * Cardinality(AD)
  BY DEF Weight
<1>. HIDE DEF P, D, AP, AD
<1>5. Cardinality(AP) = Cardinality(P) - 1
  BY <1>1, <1>3, FS_RemoveElement
<1>6. Cardinality(AD) = Cardinality(D) + 1
  BY <1>1, <1>3, FS_AddElement
<1>7. Weight(after) = Weight(mark) + 1
  BY <1>1, <1>3, <1>4, <1>5, <1>6
<1>. QED
  BY <1>7 DEF after

(* The search can only go so far. *)
LEMMA ProgressBound ==
  ASSUME DetectorTypeOK, Len(cycle_nodes) <= task_count, task_count \in 0 .. MAX_TASKS
  PROVE  /\ Progress \in Nat /\ Progress <= 4 * MAX_TASKS
         /\ Progress = start_idx + Weight(state_arr) + scanned
<1>1. /\ start_idx \in 0 .. task_count /\ state_arr \in Marks
      /\ scanned \in 0 .. Len(cycle_nodes) /\ Len(cycle_nodes) \in Nat
  BY LenProperties DEF DetectorTypeOK, Marks
<1>2. Weight(state_arr) \in Nat /\ Weight(state_arr) <= 2 * MAX_TASKS
  BY <1>1, WeightBound
<1>3. Progress = start_idx + Weight(state_arr) + scanned
  <2>. DEFINE P == Cardinality({t \in Idx : state_arr[t] = OnPath})
              D == Cardinality({t \in Idx : state_arr[t] = DoneWith})
  <2>1. P \in Nat /\ D \in Nat
    <3>. DEFINE PS == {t \in Idx : state_arr[t] = OnPath}
                DS == {t \in Idx : state_arr[t] = DoneWith}
    <3>1. IsFiniteSet(Idx) /\ PS \subseteq Idx /\ DS \subseteq Idx
      BY MaxTasksAssumption, FS_Interval DEF Idx
    <3>2. P = Cardinality(PS) /\ D = Cardinality(DS)
      OBVIOUS
    <3>. HIDE DEF P, D, PS, DS
    <3>3. Cardinality(PS) \in Nat /\ Cardinality(DS) \in Nat
      BY <3>1, FS_Subset, FS_CardinalityType
    <3>. QED
      BY <3>2, <3>3
  <2>2. Progress = start_idx + P + 2 * D + scanned /\ Weight(state_arr) = P + 2 * D
    BY DEF Progress, Weight
  <2>. HIDE DEF P, D
  <2>. QED
    BY <1>1, <2>1, <2>2
<1>. QED
  BY <1>1, <1>2, <1>3, MaxTasksAssumption

(* What the bound needs holds in every state that the search can be in.    *)
Bounded == /\ Progress \in Nat /\ Progress <= 4 * MAX_TASKS
           /\ Progress = start_idx + Weight(state_arr) + scanned

LEMMA SearchIsBounded == CountersInv => Bounded
<1>. SUFFICES ASSUME CountersInv
              PROVE  Len(cycle_nodes) <= task_count /\ task_count \in 0 .. MAX_TASKS
  BY SearchIsTyped, ProgressBound DEF Bounded
<1>1. SearchInv /\ task_count \in 0 .. MAX_TASKS
  BY RegisteredTasks, MaxTasksAssumption DEF CountersInv, DetectorInv, IInv, DataInv
<1>2. CASE cycle_nodes = <<>>
  BY <1>1, <1>2
<1>3. CASE cycle_nodes # <<>>
  BY <1>1, <1>3 DEF SearchInv, IsCycle
<1>. QED
  BY <1>2, <1>3

(* Every step of the search takes it one further. *)
LEMMA SearchAdvances ==
  ASSUME CountersInv, CountersInv', NEW p \in Pairs, SearchStep(p)
  PROVE  /\ Progress \in Nat /\ Progress' = Progress + 1
         /\ Progress' <= 4 * MAX_TASKS
<1>1. /\ Progress \in Nat /\ Progress = start_idx + Weight(state_arr) + scanned
      /\ TypeOK /\ SearchInv /\ SearchCounters
      /\ start_idx \in Nat /\ scanned \in Nat /\ state_arr \in Marks
      /\ Registered \subseteq Idx /\ Registered = 0 .. task_count - 1 /\ task_count \in Nat
  <2>1. DetectorTypeOK /\ Bounded
    BY SearchIsTyped, SearchIsBounded
  <2>2. /\ start_idx \in Nat /\ scanned \in Nat /\ state_arr \in Marks
    BY <2>1, LenProperties DEF DetectorTypeOK, Marks
  <2>3. TypeOK /\ SearchInv /\ SearchCounters
    BY DEF CountersInv, DetectorInv, IInv, DataInv
  <2>. QED
    BY <2>1, <2>2, <2>3, GraphIsGraph, RegisteredTasks DEF Bounded
<1>2. /\ Progress' <= 4 * MAX_TASKS
      /\ Progress' = start_idx' + Weight(state_arr') + scanned'
  <2>1. (CountersInv => Bounded)'
    BY SearchIsBounded, PTL
  <2>. QED
    BY <2>1 DEF Bounded
<1>3. Weight(state_arr) \in Nat
  BY <1>1, WeightBound
<1>4. ASSUME start_idx' = start_idx, scanned' = scanned,
             Weight(state_arr') = Weight(state_arr) + 1
      PROVE  Progress' = Progress + 1
  BY <1>1, <1>2, <1>3, <1>4
<1>5. CASE NextStart(p)
  <2>1. CASE IsStart(start_idx)
    <3>1. /\ start_idx' = start_idx /\ scanned' = scanned
          /\ state_arr' = [state_arr EXCEPT ![start_idx] = OnPath]
          /\ state_arr[start_idx] = Unseen /\ start_idx < task_count
      BY <1>5, <2>1 DEF NextStart, IsStart, MoreStarts
    <3>2. start_idx \in Idx
      BY <1>1, <3>1
    <3>3. Weight(state_arr') = Weight(state_arr) + 1
      BY <1>1, <3>1, <3>2, WeightOfPath
    <3>. QED
      BY <1>1, <1>2, <1>4, <3>1, <3>3
  <2>2. CASE ~IsStart(start_idx)
    <3>1. start_idx' = start_idx + 1 /\ state_arr' = state_arr /\ scanned' = scanned
      BY <1>5, <2>2 DEF NextStart
    <3>. QED
      BY <1>1, <1>2, <1>3, <3>1
  <2>. QED
    BY <2>1, <2>2
<1>6. ASSUME Backtrack(p) \/ Descend(p) \/ CloseCycle(p)
      PROVE  /\ stack # <<>> /\ cycle_nodes = <<>> /\ start_idx' = start_idx
             /\ GraphMarked /\ GraphTried /\ stack[Top] \in Idx /\ state_arr[stack[Top]] = OnPath
  <2>1. stack # <<>> /\ cycle_nodes = <<>> /\ start_idx' = start_idx
    BY <1>6 DEF Backtrack, Descend, CloseCycle, Searching
  <2>2. GraphMarked /\ GraphTried
    BY <1>1, <2>1 DEF SearchInv
  <2>3. stack \in Seq(Registered)
    BY <1>1, <2>2 DEF GraphMarked, Marked
  <2>4. Top \in 1 .. Len(stack)
    BY <2>1, <2>3, LenProperties, EmptySeq DEF Top
  <2>5. stack[Top] \in Registered /\ stack[Top] \in Range(stack)
    BY <2>3, <2>4, ElementOfSeq, LenProperties DEF Range
  <2>6. state_arr[stack[Top]] = OnPath
    BY <1>1, <2>2, <2>5 DEF GraphMarked, Marked
  <2>. QED
    BY <1>1, <2>1, <2>2, <2>5, <2>6
<1>7. CASE Backtrack(p)
  <2>1. /\ scanned' = scanned
        /\ state_arr' = [state_arr EXCEPT ![stack[Top]] = DoneWith]
    BY <1>7 DEF Backtrack, Explored
  <2>. DEFINE t == stack[Top]
  <2>2. t \in Idx /\ state_arr[t] = OnPath /\ state_arr' = [state_arr EXCEPT ![t] = DoneWith]
    BY <1>6, <1>7, <2>1
  <2>. HIDE DEF t
  <2>3. Weight(state_arr') = Weight(state_arr) + 1
    BY <1>1, <2>2, WeightOfDone
  <2>. QED
    BY <1>1, <1>2, <1>4, <1>6, <1>7, <2>1, <2>3
<1>8. CASE Descend(p)
  <2>1. PICK t \in Neighbours : /\ state_arr[t] = Unseen
                                /\ state_arr' = [state_arr EXCEPT ![t] = OnPath]
    BY <1>8 DEF Descend, First
  <2>2. t \in Idx
    <3>1. Neighbours = Untried(Graph, task_count, state_arr, stack, edge_ptr)
      BY <1>1, <1>6, <1>8, NeighboursAreUntried
    <3>2. <<stack[Len(stack)], t>> \in Graph
      BY <2>1, <3>1 DEF Untried
    <3>. QED
      BY <1>1, <3>2 DEF Graph
  <2>3. scanned' = scanned
    BY <1>8 DEF Descend
  <2>4. Weight(state_arr') = Weight(state_arr) + 1
    BY <1>1, <2>1, <2>2, WeightOfPath
  <2>. QED
    BY <1>1, <1>2, <1>4, <1>6, <1>8, <2>3, <2>4
<1>9. CASE CloseCycle(p)
  <2>1. state_arr' = state_arr /\ scanned' = 1 /\ scanned = 0
    BY <1>1, <1>6, <1>9 DEF CloseCycle, SearchCounters
  <2>. QED
    BY <1>1, <1>2, <1>3, <1>6, <1>9, <2>1
<1>10. CASE Scan(p)
  <2>1. state_arr' = state_arr /\ scanned' = scanned + 1 /\ start_idx' = start_idx
    BY <1>10 DEF Scan
  <2>. QED
    BY <1>1, <1>2, <1>3, <2>1
<1>. QED
  BY <1>1, <1>2, <1>5, <1>7, <1>8, <1>9, <1>10 DEF SearchStep

(* The search that the detector makes ends: each of its steps takes it     *)
(* further, which it can do at most 4 * MAX_TASKS times, and it begins     *)
(* again only after it has aborted a task, which never runs again.         *)
THEOREM SearchTerminates == DetectorSpec => SearchEnds
<1>. DEFINE Advances == /\ vars' = vars => Progress < Progress' /\ Progress' <= 4 * MAX_TASKS
                        /\ \A p \in Pairs : Detecting(p) /\ Detecting(p)' /\ Progress' < Progress =>
                             \E t \in Registered : Terminal(t)' /\ ~Terminal(t)
<1>1. ASSUME CountersInv, CountersInv', DetectorNext, detectorVars' # detectorVars
      PROVE  Advances
  <2>1. /\ TypeOK /\ PassOwnsMutex /\ SearchInv /\ Progress \in Nat
    BY <1>1, SearchIsBounded DEF Bounded, CountersInv, DetectorInv, IInv, DataInv
  <2>2. CASE UNCHANGED search
    <3>1. vars' # vars
      BY <1>1, <2>2 DEF detectorVars
    <3>2. Progress' = Progress
      BY <2>2 DEF Progress, search
    <3>3. ~(Progress' < Progress)
      BY <2>1, <3>2
    <3>. QED
      BY <3>1, <3>3
  <2>3. ASSUME NEW p \in Pairs, SearchStep(p) PROVE Advances
    <3>1. Progress' = Progress + 1 /\ Progress' <= 4 * MAX_TASKS
      BY <1>1, <2>3, SearchAdvances
    <3>2. Progress < Progress' /\ ~(Progress' < Progress)
      BY <2>1, <3>1
    <3>. QED
      BY <3>1, <3>2
  <2>4. ASSUME NEW p \in Pairs, AbortVictim(p) PROVE Advances
    <3>1. /\ cycle_nodes # <<>> /\ scanned = Len(cycle_nodes)
          /\ state' = [state EXCEPT ![best_victim_idx] = "DEADLOCK_ABORTED"]
      BY <2>4 DEF AbortVictim, Abort
    <3>2. PICK v \in Registered : v = best_victim_idx /\ state[v] = "BLOCKED"
      <4>1. IsCycle(cycle_nodes) /\ BestSoFar
        BY <2>1, <3>1 DEF SearchInv
      <4>2. cycle_nodes \in Seq(Registered)
        BY <4>1 DEF IsCycle
      <4>3. PICK k \in 1 .. Len(cycle_nodes) : best_victim_idx = cycle_nodes[k]
        BY <3>1, <4>1 DEF BestSoFar
      <4>. QED
        BY <4>1, <4>2, <4>3, ElementOfSeq DEF IsCycle, WaitsFor
    <3>3. state \in [Idx -> TaskStates] /\ Registered \subseteq Idx
      BY <2>1, RegisteredTasks DEF TypeOK, TasksTypeOK
    <3>4. state'[v] = "DEADLOCK_ABORTED"
      BY <3>1, <3>2, <3>3
    <3>5. Terminal(v)' /\ ~Terminal(v)
      BY <3>2, <3>4 DEF Terminal
    <3>6. vars' # vars
      BY <3>2, <3>4 DEF vars, tasks
    <3>. QED
      BY <3>2, <3>5, <3>6
  <2>5. ASSUME NEW p \in Pairs, EndOfPass(p) PROVE Advances
    <3>1. spc[p] = "pass" /\ \E x : x # "pass" /\ spc' = [spc EXCEPT ![p] = x]
      BY <2>5 DEF EndOfPass, HandOver, GoIdle, AfterIdlePass
    <3>2. spc \in [Pairs -> SchedulerSteps]
      BY <2>1 DEF TypeOK, ControlTypeOK
    <3>3. spc'[p] # "pass"
      BY <3>1, <3>2
    <3>4. vars' # vars
      BY <3>1, <3>3 DEF vars
    <3>5. \A q \in Pairs : Detecting(q) => q = p
      BY <2>1, <3>1 DEF Detecting, PassOwnsMutex
    <3>6. ~Detecting(p)'
      BY <3>3 DEF Detecting
    <3>. QED
      BY <3>4, <3>5, <3>6
  <2>6. \/ UNCHANGED search
        \/ \E p \in Pairs : SearchStep(p) \/ AbortVictim(p) \/ EndOfPass(p)
    BY <1>1 DEF DetectorNext, DetailedSchedulerStep
  <2>. QED
    BY <2>2, <2>3, <2>4, <2>5, <2>6
<1>2. CountersInv /\ CountersInv' /\ [DetectorNext]_detectorVars => [Advances]_detectorVars
  BY <1>1
<1>. QED
  BY <1>2, CountersInvariance, PTL DEF DetectorSpec, SearchEnds
===============================================================================
