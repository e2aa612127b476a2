------------------------------ MODULE QueueLemmas ------------------------------
(***************************************************************************)
(* What the queue operators of module Queues return and preserve.          *)
(***************************************************************************)
EXTENDS Queues, FiniteSetTheorems, FunctionTheorems, SequenceTheorems, TLAPS

(* The elements of a sequence are those at its positions. *)
LEMMA RangeIsImage ==
  ASSUME NEW S, NEW q \in Seq(S)
  PROVE  /\ Range(q) = {q[i] : i \in 1 .. Len(q)}
         /\ Range(q) \subseteq S
BY LenProperties DEF Range

(* queue_push_tail keeps the type of the queue, adds at most the task, and *)
(* adds it whenever the queue is not full.                                 *)
LEMMA PushTailProperties ==
  ASSUME NEW S, NEW q \in Seq(S), NEW t \in S
  PROVE  /\ PushTail(q, t) \in Seq(S)
         /\ Range(q) \subseteq Range(PushTail(q, t))
         /\ Range(PushTail(q, t)) \subseteq Range(q) \cup {t}
         /\ Len(q) < MAX_TASKS => t \in Range(PushTail(q, t))
         /\ Len(q) <= Len(PushTail(q, t))
         /\ NoRepeats(q) => NoRepeats(PushTail(q, t))
<1>1. CASE Len(q) >= MAX_TASKS \/ t \in Range(q)
  <2>1. PushTail(q, t) = q
    BY <1>1 DEF PushTail
  <2>2. Len(q) < MAX_TASKS => t \in Range(q)
    BY <1>1, MaxTasksAssumption, LenProperties
  <2>. QED
    BY <2>1, <2>2
<1>2. CASE ~(Len(q) >= MAX_TASKS \/ t \in Range(q))
  <2>. DEFINE r == Append(q, t)
  <2>1. PushTail(q, t) = r
    BY <1>2 DEF PushTail
  <2>2. /\ r \in Seq(S) /\ Len(q) \in Nat
        /\ Len(r) = Len(q) + 1
        /\ \A i \in 1 .. Len(q) : r[i] = q[i]
        /\ r[Len(q) + 1] = t
    BY AppendProperties, LenProperties
  <2>3. Range(q) = {q[i] : i \in 1 .. Len(q)} /\ Range(r) = {r[i] : i \in 1 .. Len(r)}
    BY <2>2, RangeIsImage
  <2>4. Range(r) = Range(q) \cup {t}
    <3>1. \A i \in 1 .. Len(r) : i \in 1 .. Len(q) \/ i = Len(q) + 1
      BY <2>2
    <3>2. Range(r) \subseteq Range(q) \cup {t}
      BY <3>1, <2>2, <2>3
    <3>3. 1 .. Len(q) \subseteq 1 .. Len(r) /\ Len(q) + 1 \in 1 .. Len(r)
      BY <2>2
    <3>. QED
      BY <3>2, <3>3, <2>2, <2>3
  <2>5. NoRepeats(q) => NoRepeats(r)
    <3>. SUFFICES ASSUME NoRepeats(q), NEW a \in 1 .. Len(r), NEW b \in 1 .. Len(r),
                         r[a] = r[b]
                  PROVE  a = b
      BY <2>2, LenProperties DEF NoRepeats
    <3>1. \A i \in 1 .. Len(q) : r[i] # t
      BY <1>2, <2>2, <2>3
    <3>2. CASE a = Len(q) + 1 \/ b = Len(q) + 1
      BY <3>1, <3>2, <2>2
    <3>3. CASE a # Len(q) + 1 /\ b # Len(q) + 1
      <4>1. a \in 1 .. Len(q) /\ b \in 1 .. Len(q)
        BY <3>3, <2>2
      <4>2. q[a] = q[b]
        BY <4>1, <2>2
      <4>. QED
        BY <4>1, <4>2, LenProperties DEF NoRepeats
    <3>. QED
      BY <3>2, <3>3
  <2>. QED
    BY <2>1, <2>2, <2>4, <2>5
<1>. QED
  BY <1>1, <1>2

(* Taking the head off a queue without repetitions takes it away.          *)
LEMMA TailProperties ==
  ASSUME NEW S, NEW q \in Seq(S), q # <<>>
  PROVE  /\ Head(q) \in Range(q) /\ Head(q) \in S
         /\ Tail(q) \in Seq(S)
         /\ Len(Tail(q)) = Len(q) - 1 /\ Len(q) > 0
         /\ Range(q) = Range(Tail(q)) \cup {Head(q)}
         /\ NoRepeats(q) => NoRepeats(Tail(q)) /\ Head(q) \notin Range(Tail(q))
<1>. DEFINE r == Tail(q)
<1>1. /\ Head(q) \in S /\ r \in Seq(S)
      /\ Len(r) = Len(q) - 1 /\ Len(q) \in Nat /\ Len(r) \in Nat
      /\ \A i \in 1 .. Len(r) : r[i] = q[i + 1]
  BY HeadTailProperties, LenProperties
<1>2. Head(q) = q[1] /\ 1 \in 1 .. Len(q) /\ Len(q) > 0
  BY <1>1
<1>3. Range(q) = {q[i] : i \in 1 .. Len(q)} /\ Range(r) = {r[i] : i \in 1 .. Len(r)}
  BY <1>1, RangeIsImage
<1>4. \A i \in 1 .. Len(r) : i + 1 \in 1 .. Len(q) /\ i + 1 # 1
  BY <1>1
<1>5. \A i \in 1 .. Len(q) : i = 1 \/ (i - 1 \in 1 .. Len(r) /\ r[i - 1] = q[i])
  BY <1>1
<1>6. Range(q) = Range(r) \cup {Head(q)}
  <2>1. Range(q) \subseteq Range(r) \cup {Head(q)}
    BY <1>2, <1>3, <1>5
  <2>2. Range(r) \subseteq Range(q)
    BY <1>1, <1>3, <1>4
  <2>. QED
    BY <2>1, <2>2, <1>2, <1>3
<1>7. ASSUME NoRepeats(q) PROVE NoRepeats(r) /\ Head(q) \notin Range(r)
  <2>1. \A a, b \in 1 .. Len(q) : q[a] = q[b] => a = b
    BY <1>7, LenProperties DEF NoRepeats
  <2>2. \A a, b \in 1 .. Len(r) : r[a] = r[b] => a = b
    BY <2>1, <1>1, <1>4
  <2>3. \A a \in 1 .. Len(r) : r[a] # q[1]
    BY <2>1, <1>1, <1>2, <1>4
  <2>. QED
    BY <2>2, <2>3, <1>1, <1>2, <1>3, LenProperties DEF NoRepeats
<1>. QED
  BY <1>1, <1>2, <1>3, <1>6, <1>7

(* queue_remove keeps the type of the queue, and takes the task out of a   *)
(* queue without repetitions.                                              *)
LEMMA RemoveTaskProperties ==
  ASSUME NEW S, NEW q \in Seq(S), NEW t
  PROVE  /\ RemoveTask(q, t) \in Seq(S)
         /\ Len(RemoveTask(q, t)) <= Len(q)
         /\ Range(RemoveTask(q, t)) \subseteq Range(q)
         /\ NoRepeats(q) => /\ NoRepeats(RemoveTask(q, t))
                            /\ Range(RemoveTask(q, t)) = Range(q) \ {t}
<1>0. Len(q) \in Nat /\ DOMAIN q = 1 .. Len(q) /\ q \in [1 .. Len(q) -> S]
  BY LenProperties
<1>1. CASE t \notin Range(q)
  <2>1. RemoveTask(q, t) = q
    BY <1>1 DEF RemoveTask
  <2>. QED
    BY <2>1, <1>1, <1>0
<1>2. CASE t \in Range(q)
  <2>. DEFINE k == CHOOSE k \in DOMAIN q : q[k] = t
              a == SubSeq(q, 1, k - 1)
              b == SubSeq(q, k + 1, Len(q))
              r == a \o b
  <2>1. k \in 1 .. Len(q) /\ q[k] = t
    BY <1>0, <1>2 DEF Range
  <2>2. RemoveTask(q, t) = r
    BY <1>2 DEF RemoveTask
  <2>. HIDE DEF k
  <2>3. /\ a \in Seq(S) /\ Len(a) = k - 1
        /\ \A i \in 1 .. k - 1 : a[i] = q[i]
    <3>1. \A i \in 1 .. k - 1 : q[i] \in S
      BY <1>0, <2>1
    <3>2. /\ a \in Seq(S)
          /\ Len(a) = IF 1 <= k - 1 THEN (k - 1) - 1 + 1 ELSE 0
          /\ \A i \in 1 .. (k - 1) - 1 + 1 : a[i] = q[1 + i - 1]
      BY <3>1, <2>1, <1>0, SubSeqProperties
    <3>3. \A i \in 1 .. k - 1 : i \in 1 .. (k - 1) - 1 + 1 /\ 1 + i - 1 = i
      BY <2>1
    <3>. QED
      BY <3>2, <3>3, <2>1
  <2>4. /\ b \in Seq(S) /\ Len(b) = Len(q) - k
        /\ \A i \in 1 .. Len(q) - k : b[i] = q[k + i]
    <3>1. \A i \in k + 1 .. Len(q) : q[i] \in S
      BY <1>0, <2>1
    <3>2. /\ b \in Seq(S)
          /\ Len(b) = IF k + 1 <= Len(q) THEN Len(q) - (k + 1) + 1 ELSE 0
          /\ \A i \in 1 .. Len(q) - (k + 1) + 1 : b[i] = q[(k + 1) + i - 1]
      BY <3>1, <2>1, <1>0, SubSeqProperties
    <3>3. \A i \in 1 .. Len(q) - k : /\ i \in 1 .. Len(q) - (k + 1) + 1
                                     /\ (k + 1) + i - 1 = k + i
      BY <2>1, <1>0
    <3>. HIDE DEF b
    <3>4. Len(b) = Len(q) - k
      <4>1. CASE k + 1 <= Len(q)
        BY <4>1, <3>2, <2>1, <1>0
      <4>2. CASE ~(k + 1 <= Len(q))
        <5>1. Len(b) = 0
          BY <4>2, <3>2
        <5>2. k \in Int /\ Len(q) \in Int /\ k <= Len(q)
          BY <2>1, <1>0
        <5>3. k = Len(q)
          BY <4>2, <5>2
        <5>. QED
          BY <5>1, <5>2, <5>3
      <4>. QED
        BY <4>1, <4>2
    <3>. QED
      BY <3>2, <3>3, <3>4
  <2>. HIDE DEF a, b
  <2>5. /\ r \in Seq(S) /\ Len(r) = Len(q) - 1
        /\ \A i \in 1 .. Len(r) : r[i] = IF i < k THEN q[i] ELSE q[i + 1]
    <3>1. /\ r \in Seq(S) /\ Len(r) = Len(a) + Len(b)
          /\ \A i \in 1 .. Len(a) + Len(b) :
               r[i] = IF i <= Len(a) THEN a[i] ELSE b[i - Len(a)]
      BY <2>3, <2>4, ConcatProperties
    <3>2. Len(r) = Len(q) - 1
      BY <3>1, <2>3, <2>4, <2>1, <1>0
    <3>3. ASSUME NEW i \in 1 .. Len(r)
          PROVE  r[i] = IF i < k THEN q[i] ELSE q[i + 1]
      <4>1. CASE i < k
        <5>1. i \in 1 .. Len(a) + Len(b) /\ i <= Len(a) /\ i \in 1 .. k - 1
          BY <4>1, <3>1, <3>2, <2>1, <2>3, <2>4
        <5>. QED
          BY <5>1, <4>1, <3>1, <2>3
      <4>2. CASE ~(i < k)
        <5>1. /\ i \in 1 .. Len(a) + Len(b) /\ ~(i <= Len(a))
              /\ i - Len(a) \in 1 .. Len(q) - k
              /\ k + (i - Len(a)) = i + 1
          BY <4>2, <3>1, <3>2, <2>1, <2>3, <2>4, <1>0
        <5>. QED
          BY <5>1, <4>2, <3>1, <2>4
      <4>. QED
        BY <4>1, <4>2
    <3>. QED
      BY <3>1, <3>2, <3>3
  <2>. HIDE DEF r
  <2>6. Range(q) = {q[i] : i \in 1 .. Len(q)} /\ Range(r) = {r[i] : i \in 1 .. Len(r)}
    BY <2>5, RangeIsImage
  <2>7. \A i \in 1 .. Len(r) : \E j \in 1 .. Len(q) : r[i] = q[j] /\ j # k
    BY <2>5, <2>1, <1>0
  <2>8. Range(r) \subseteq Range(q)
    BY <2>6, <2>7
  <2>9. ASSUME NoRepeats(q) PROVE NoRepeats(r) /\ Range(r) = Range(q) \ {t}
    <3>1. \A i, j \in 1 .. Len(q) : q[i] = q[j] => i = j
      BY <2>9, <1>0 DEF NoRepeats
    <3>2. t \notin Range(r)
      BY <3>1, <2>1, <2>6, <2>7
    <3>3. ASSUME NEW j \in 1 .. Len(q), q[j] # t PROVE q[j] \in Range(r)
      <4>1. CASE j < k
        <5>1. j \in 1 .. Len(r) /\ r[j] = q[j]
          BY <4>1, <2>1, <2>5, <1>0
        <5>. QED
          BY <5>1, <2>6
      <4>2. CASE ~(j < k)
        <5>1. j - 1 \in 1 .. Len(r) /\ ~(j - 1 < k) /\ (j - 1) + 1 = j
          BY <4>2, <3>3, <2>1, <2>5, <1>0
        <5>2. r[j - 1] = q[j]
          BY <5>1, <2>5
        <5>. QED
          BY <5>1, <5>2, <2>6
      <4>. QED
        BY <4>1, <4>2
    <3>4. NoRepeats(r)
      <4>. SUFFICES ASSUME NEW i \in 1 .. Len(r), NEW j \in 1 .. Len(r), r[i] = r[j]
                    PROVE  i = j
        BY <2>5, LenProperties DEF NoRepeats
      <4>. DEFINE up(x) == IF x < k THEN x ELSE x + 1
      <4>1. up(i) \in 1 .. Len(q) /\ up(j) \in 1 .. Len(q)
        BY <2>1, <2>5, <1>0
      <4>2. r[i] = q[up(i)] /\ r[j] = q[up(j)]
        BY <2>5
      <4>3. up(i) = up(j)
        BY <4>1, <4>2, <3>1
      <4>. QED
        BY <4>3, <2>1
    <3>. QED
      BY <3>2, <3>3, <3>4, <2>6, <2>8
  <2>. QED
    BY <2>2, <2>5, <2>8, <2>9, <1>0
<1>. QED
  BY <1>1, <1>2

(* The sort order is total and antisymmetric on positions, and a position  *)
(* that precedes another has the smaller rank.                             *)
LEMMA RankProperties ==
  ASSUME NEW S, NEW q \in Seq(S), NEW prio, \A t \in S : prio[t] \in Int
  PROVE  /\ \A i \in 1 .. Len(q) : Rank(q, prio, i) \in 1 .. Len(q)
         /\ \A i, k \in 1 .. Len(q) : i # k =>
              \/ Precedes(q, prio, i, k) /\ Rank(q, prio, i) < Rank(q, prio, k)
              \/ Precedes(q, prio, k, i) /\ Rank(q, prio, k) < Rank(q, prio, i)
<1>. DEFINE D == 1 .. Len(q)
            P(i) == {j \in D : Precedes(q, prio, j, i)}
<1>1. Len(q) \in Nat /\ DOMAIN q = D /\ q \in [D -> S]
  BY LenProperties
<1>2. \A i \in D : prio[q[i]] \in Int
  BY <1>1
<1>3. IsFiniteSet(D) /\ Cardinality(D) = Len(q)
  BY <1>1, FS_Interval
<1>4. \A i \in D : Rank(q, prio, i) = Cardinality(P(i))
  BY <1>1 DEF Rank
<1>5. ASSUME NEW i \in D
      PROVE  /\ IsFiniteSet(P(i)) /\ Cardinality(P(i)) \in 1 .. Len(q)
             /\ i \in P(i)
  <2>1. i \in P(i)
    BY <1>2 DEF Precedes
  <2>2. IsFiniteSet(P(i)) /\ Cardinality(P(i)) <= Len(q)
    BY <1>3, FS_Subset, P(i) \in SUBSET D
  <2>3. Cardinality(P(i)) \in Nat /\ Cardinality(P(i)) # 0
    BY <2>1, <2>2, FS_CardinalityType, FS_EmptySet
  <2>. QED
    BY <2>1, <2>2, <2>3, <1>1
<1>6. ASSUME NEW i \in D, NEW k \in D, i # k, Precedes(q, prio, i, k)
      PROVE  Cardinality(P(i)) < Cardinality(P(k))
  <2>1. P(i) \subseteq P(k)
    BY <1>6, <1>2 DEF Precedes
  <2>2. k \notin P(i)
    BY <1>6, <1>2 DEF Precedes
  <2>3. P(i) # P(k)
    BY <2>2, <1>5
  <2>4. /\ Cardinality(P(i)) <= Cardinality(P(k))
        /\ Cardinality(P(i)) # Cardinality(P(k))
    <3>. HIDE DEF P
    <3>. QED
      BY <2>1, <2>3, <1>5, FS_Subset
  <2>. HIDE DEF P
  <2>. QED
    BY <2>4, <1>5
<1>7. ASSUME NEW i \in D, NEW k \in D, i # k
      PROVE  Precedes(q, prio, i, k) \/ Precedes(q, prio, k, i)
  BY <1>7, <1>2 DEF Precedes
<1>. QED
  <2>. HIDE DEF P
  <2>. QED
    BY <1>4, <1>5, <1>6, <1>7

(* Every position is the rank of an element.                                *)
LEMMA RankOnto ==
  ASSUME NEW S, NEW q \in Seq(S), NEW prio, \A t \in S : prio[t] \in Int
  PROVE  \A m \in 1 .. Len(q) : \E i \in 1 .. Len(q) : Rank(q, prio, i) = m
<1>. DEFINE D == 1 .. Len(q)
            R == [i \in D |-> Rank(q, prio, i)]
<1>1. Len(q) \in Nat
  BY LenProperties
<1>2. \A i \in D : R[i] \in D
  BY RankProperties
<1>3. \A i, k \in D : R[i] = R[k] => i = k
  <2>1. \A i \in D : Rank(q, prio, i) \in Int
    BY <1>1, <1>2
  <2>2. \A i, k \in D : i # k => \/ Rank(q, prio, i) < Rank(q, prio, k)
                                 \/ Rank(q, prio, k) < Rank(q, prio, i)
    BY RankProperties
  <2>. QED
    BY <2>1, <2>2
<1>4. \A m \in D : \E i \in D : R[i] = m
  <2>1. R \in Injection(D, D)
    <3>1. R \in [D -> D]
      BY <1>2
    <3>. QED
      BY <3>1, <1>3, Fun_IsInj
  <2>2. IsFiniteSet(D)
    BY <1>1, FS_Interval
  <2>3. R \in Surjection(D, D)
    BY <2>1, <2>2, FS_Injection
  <2>. HIDE DEF R
  <2>. QED
    BY <2>3, Fun_SurjectionProperties
<1>. QED
  BY <1>4

(* queue_reorder_priority rearranges the queue, and leaves it sorted.      *)
LEMMA ReorderProperties ==
  ASSUME NEW S, NEW q \in Seq(S), NEW prio, \A t \in S : prio[t] \in Int
  PROVE  /\ Reorder(q, prio) \in Seq(S)
         /\ Len(Reorder(q, prio)) = Len(q)
         /\ Range(Reorder(q, prio)) = Range(q)
         /\ NoRepeats(q) => NoRepeats(Reorder(q, prio))
         /\ SortedBy(Reorder(q, prio), prio)
<1>. DEFINE D == 1 .. Len(q)
            R == [i \in D |-> Rank(q, prio, i)]
            pick == [m \in DOMAIN q |-> CHOOSE i \in DOMAIN q : Rank(q, prio, i) = m]
            r == Reorder(q, prio)
<1>1. Len(q) \in Nat /\ DOMAIN q = D /\ q \in [D -> S]
  BY LenProperties
<1>2. \A i \in D : R[i] \in D /\ prio[q[i]] \in Int
  BY <1>1, RankProperties
<1>3. \A i, k \in D : i # k => \/ Precedes(q, prio, i, k) /\ R[i] < R[k]
                               \/ Precedes(q, prio, k, i) /\ R[k] < R[i]
  BY RankProperties
<1>4. \A m \in D : \E i \in D : R[i] = m
  BY RankOnto
<1>5. \A m \in D : pick[m] \in D /\ R[pick[m]] = m
  <2>1. \A m \in D : \E i \in DOMAIN q : Rank(q, prio, i) = m
    BY <1>1, <1>4
  <2>2. \A m \in D : pick[m] \in DOMAIN q /\ Rank(q, prio, pick[m]) = m
    BY <2>1, <1>1
  <2>. QED
    BY <2>2, <1>1
<1>6. \A i \in D : pick[R[i]] = i
  BY <1>2, <1>3, <1>5
<1>7. r = [m \in D |-> q[pick[m]]]
  <2>1. r = [m \in DOMAIN q |-> q[pick[m]]]
    BY DEF Reorder
  <2>. HIDE DEF r, pick
  <2>. QED
    BY <2>1, <1>1
<1>. HIDE DEF R, pick, r
<1>8. r \in Seq(S) /\ Len(r) = Len(q)
  <2>1. \A m \in D : q[pick[m]] \in S
    BY <1>1, <1>5
  <2>2. [m \in 1 .. Len(q) |-> q[pick[m]]] \in Seq(S)
    BY <2>1, <1>1
  <2>3. Len([m \in 1 .. Len(q) |-> q[pick[m]]]) = Len(q)
    BY <1>1
  <2>. QED
    BY <2>2, <2>3, <1>7
<1>9. \A m \in D : r[m] = q[pick[m]]
  BY <1>7
<1>10. Range(q) = {q[i] : i \in D} /\ Range(r) = {r[m] : m \in D}
  BY <1>8, RangeIsImage
<1>11. Range(r) = Range(q)
  <2>1. \A i \in D : q[i] = r[R[i]] /\ R[i] \in D
    BY <1>2, <1>6, <1>9
  <2>. QED
    BY <2>1, <1>5, <1>9, <1>10
<1>12. ASSUME NoRepeats(q) PROVE NoRepeats(r)
  <2>1. \A i, k \in D : q[i] = q[k] => i = k
    BY <1>12, <1>1 DEF NoRepeats
  <2>2. \A m, n \in D : r[m] = r[n] => m = n
    BY <2>1, <1>5, <1>9
  <2>. QED
    BY <2>2, <1>8, LenProperties DEF NoRepeats
<1>13. SortedBy(r, prio)
  <2>. SUFFICES ASSUME NEW a \in D, NEW b \in D, a < b
                PROVE  prio[r[a]] >= prio[r[b]]
    BY <1>8, LenProperties DEF SortedBy
  <2>1. ~(R[pick[b]] < R[pick[a]]) /\ pick[a] # pick[b]
    BY <1>5
  <2>2. Precedes(q, prio, pick[a], pick[b])
    BY <2>1, <1>3, <1>5
  <2>. QED
    BY <2>2, <1>2, <1>5, <1>9 DEF Precedes
<1>. QED
  BY <1>8, <1>11, <1>12, <1>13 DEF r

(* Queueing a task by priority: push to the tail, then sort.               *)
LEMMA PushSortedProperties ==
  ASSUME NEW S, NEW q \in Seq(S), NEW t \in S,
         NEW prio, \A u \in S : prio[u] \in Int
  PROVE  /\ Reorder(PushTail(q, t), prio) \in Seq(S)
         /\ Range(q) \subseteq Range(Reorder(PushTail(q, t), prio))
         /\ Range(Reorder(PushTail(q, t), prio)) \subseteq Range(q) \cup {t}
         /\ NoRepeats(q) => NoRepeats(Reorder(PushTail(q, t), prio))
         /\ SortedBy(Reorder(PushTail(q, t), prio), prio)
<1>. DEFINE r == PushTail(q, t)
<1>1. /\ r \in Seq(S)
      /\ Range(q) \subseteq Range(r) /\ Range(r) \subseteq Range(q) \cup {t}
      /\ NoRepeats(q) => NoRepeats(r)
  BY PushTailProperties
<1>. HIDE DEF r
<1>2. /\ Reorder(r, prio) \in Seq(S)
      /\ Range(Reorder(r, prio)) = Range(r)
      /\ NoRepeats(r) => NoRepeats(Reorder(r, prio))
      /\ SortedBy(Reorder(r, prio), prio)
  BY <1>1, ReorderProperties
<1>. QED
  BY <1>1, <1>2 DEF r

(* A queue of distinct elements of a set of n is no longer than n.         *)
LEMMA LengthBound ==
  ASSUME NEW n \in Nat, NEW q \in Seq(0 .. n - 1), NoRepeats(q)
  PROVE  Len(q) <= n
<1>1. Len(q) \in Nat /\ q \in [1 .. Len(q) -> 0 .. n - 1]
  BY LenProperties
<1>2. \A a, b \in 1 .. Len(q) : q[a] = q[b] => a = b
  BY LenProperties DEF NoRepeats
<1>3. q \in Injection(1 .. Len(q), 0 .. n - 1)
  BY <1>1, <1>2, Fun_IsInj
<1>4. IsFiniteSet(0 .. n - 1) /\ Cardinality(0 .. n - 1) = n
  <2>1. n - 1 \in Int /\ 0 \in Int
    OBVIOUS
  <2>2. IsFiniteSet(0 .. n - 1)
        /\ Cardinality(0 .. n - 1) = IF 0 > n - 1 THEN 0 ELSE (n - 1) - 0 + 1
    BY <2>1, FS_Interval
  <2>. QED
    BY <2>2
<1>5. Cardinality(1 .. Len(q)) <= Cardinality(0 .. n - 1)
  BY <1>3, <1>4, FS_Injection
<1>6. Cardinality(1 .. Len(q)) = Len(q)
  <2>1. Cardinality(1 .. Len(q)) = IF 1 > Len(q) THEN 0 ELSE Len(q) - 1 + 1
    BY <1>1, FS_Interval
  <2>. QED
    BY <2>1, <1>1
<1>. QED
  BY <1>4, <1>5, <1>6

(* A sorted queue starts with a highest priority, and stays sorted without *)
(* its head.                                                               *)
LEMMA SortedTail ==
  ASSUME NEW S, NEW q \in Seq(S), q # <<>>, NEW prio, SortedBy(q, prio)
  PROVE  /\ \A u \in Range(Tail(q)) : prio[Head(q)] >= prio[u]
         /\ SortedBy(Tail(q), prio)
<1>1. /\ Tail(q) \in Seq(S) /\ Len(q) \in Nat /\ Len(Tail(q)) \in Nat
      /\ Len(Tail(q)) = Len(q) - 1
      /\ \A i \in 1 .. Len(Tail(q)) : Tail(q)[i] = q[i + 1]
      /\ Head(q) = q[1]
  BY HeadTailProperties, LenProperties
<1>2. \A a, b \in 1 .. Len(q) : a < b => prio[q[a]] >= prio[q[b]]
  BY LenProperties DEF SortedBy
<1>3. \A i \in 1 .. Len(Tail(q)) : i + 1 \in 1 .. Len(q) /\ 1 \in 1 .. Len(q) /\ 1 < i + 1
  BY <1>1
<1>4. \A i \in 1 .. Len(Tail(q)) : prio[q[1]] >= prio[Tail(q)[i]]
  BY <1>1, <1>2, <1>3
<1>5. \A i, j \in 1 .. Len(Tail(q)) : i < j => i + 1 < j + 1
  BY <1>1
<1>6. \A i, j \in 1 .. Len(Tail(q)) : i < j => prio[Tail(q)[i]] >= prio[Tail(q)[j]]
  BY <1>1, <1>2, <1>3, <1>5
<1>7. Range(Tail(q)) = {Tail(q)[i] : i \in 1 .. Len(Tail(q))}
  BY <1>1, RangeIsImage
<1>8. \A u \in Range(Tail(q)) : prio[Head(q)] >= prio[u]
  BY <1>1, <1>4, <1>7
<1>9. SortedBy(Tail(q), prio)
  BY <1>1, <1>6, LenProperties DEF SortedBy
<1>. QED
  BY <1>8, <1>9

(* The order of a queue depends on the priorities of its elements only.    *)
LEMMA SortedCongruence ==
  ASSUME NEW S, NEW q \in Seq(S), NEW f, NEW g, SortedBy(q, f),
         \A t \in Range(q) : f[t] = g[t]
  PROVE  SortedBy(q, g)
<1>1. \A a \in DOMAIN q : q[a] \in Range(q)
  BY DEF Range
<1>. QED
  BY <1>1 DEF SortedBy


--------------------------------------------------------------------------------
(* Paths in a graph R, as sequences of tasks *)

(* Where the last task of a path has an edge back to one on it, the part   *)
(* of the path from there on is a cycle.                                   *)
LEMMA PathCloses ==
  ASSUME NEW n \in Nat, NEW S \in SUBSET (0 .. n - 1), NEW R,
         NEW c \in Seq(S), NoRepeats(c),
         \A i \in 1 .. Len(c) - 1 : <<c[i], c[i + 1]>> \in R,
         NEW k \in 1 .. Len(c), <<c[Len(c)], c[k]>> \in R
  PROVE  LET e == SubSeq(c, k, Len(c))
         IN  /\ e \in Seq(S) /\ Len(e) = Len(c) - k + 1 /\ Len(e) \in 1 .. n /\ NoRepeats(e)
             /\ \A i \in 1 .. Len(e) : e[i] = c[k + i - 1]
             /\ \A i \in 1 .. Len(e) : <<e[i], e[(i % Len(e)) + 1]>> \in R
<1>. DEFINE m == Len(c)
            e == SubSeq(c, k, m)
            l == m - k + 1
<1>1. m \in Nat /\ m > 0 /\ k \in Int /\ DOMAIN c = 1 .. m /\ \A i \in 1 .. m : c[i] \in S
  BY LenProperties
<1>2. m <= n
  <2>1. c \in Seq(0 .. n - 1)
    BY SeqMonotonic
  <2>. QED
    BY <2>1, LengthBound
<1>3. l \in 1 .. n /\ l \in Nat /\ l > 0
  BY <1>1, <1>2
<1>4. e \in Seq(S) /\ Len(e) = l /\ \A i \in 1 .. l : e[i] = c[k + i - 1]
  <2>1. \A i \in k .. m : c[i] \in S
    BY <1>1
  <2>2. /\ e \in Seq(S) /\ Len(e) = IF k <= m THEN m - k + 1 ELSE 0
        /\ \A i \in 1 .. m - k + 1 : e[i] = c[k + i - 1]
    BY <1>1, <2>1, SubSeqProperties
  <2>. QED
    BY <1>1, <2>2
<1>5. DOMAIN e = 1 .. l
  BY <1>4, LenProperties
<1>6. /\ l = m - k + 1 /\ \A i \in 1 .. l : i \in Int /\ k + i - 1 \in 1 .. m
      /\ <<c[m], c[k]>> \in R /\ \A i \in 1 .. m - 1 : <<c[i], c[i + 1]>> \in R
  BY <1>1
<1>. HIDE DEF e, l, m
<1>7. NoRepeats(e)
  <2>. SUFFICES ASSUME NEW a \in 1 .. l, NEW b \in 1 .. l, e[a] = e[b]
                PROVE  a = b
    BY <1>5 DEF NoRepeats
  <2>1. c[k + a - 1] = c[k + b - 1] /\ k + a - 1 \in DOMAIN c /\ k + b - 1 \in DOMAIN c
    BY <1>1, <1>4, <1>6
  <2>2. k + a - 1 = k + b - 1
    BY <2>1 DEF NoRepeats
  <2>. QED
    BY <1>1, <1>6, <2>2
<1>8. \A i \in 1 .. l : <<e[i], e[(i % l) + 1]>> \in R
  <2>. SUFFICES ASSUME NEW i \in 1 .. l
                PROVE  <<e[i], e[(i % l) + 1]>> \in R
    OBVIOUS
  <2>1. CASE i = l
    <3>1. (i % l) + 1 = 1
      BY <1>3, <2>1
    <3>2. e[1] = c[k + 1 - 1] /\ e[l] = c[k + l - 1] /\ k + 1 - 1 = k /\ k + l - 1 = m
      BY <1>1, <1>3, <1>4, <1>6
    <3>3. e[i] = c[m] /\ e[(i % l) + 1] = c[k]
      BY <2>1, <3>1, <3>2
    <3>. QED
      BY <1>6, <3>3
  <2>2. CASE i < l
    <3>1. i % l = i
      BY <1>3, <2>2
    <3>2. i + 1 \in 1 .. l /\ k + i - 1 \in 1 .. m - 1
      BY <1>1, <1>3, <1>6, <2>2
    <3>3. e[i + 1] = c[k + (i + 1) - 1] /\ k + (i + 1) - 1 = (k + i - 1) + 1
      BY <1>1, <1>4, <1>6, <3>2
    <3>. QED
      BY <1>4, <1>6, <3>1, <3>2, <3>3
  <2>. QED
    BY <1>3, <1>6, <2>1, <2>2
<1>. QED
  BY <1>3, <1>4, <1>6, <1>7, <1>8 DEF e, m
===============================================================================
