------------------------------ MODULE RingProofs ------------------------------
(***************************************************************************)
(* The ring of module TaskRing is a TaskQueue, for every MAX_TASKS: its    *)
(* positions wrap around without losing or mixing up a task, and the loops *)
(* of queue_remove and queue_reorder_priority compute what TaskQueue says. *)
(***************************************************************************)
EXTENDS TaskRing, QueueLemmas

--------------------------------------------------------------------------------
(* Positions: the ring as a value *)

(* The slot that is k places behind slot h. *)
Slot(h, k) == IF h + k < MAX_TASKS THEN h + k ELSE h + k - MAX_TASKS

(* RingIsAnArc, of ring r with head h, tail t and n elements. *)
Arc(r, h, n) == [k \in 1 .. n |-> r[(h + k - 1) % MAX_TASKS]]

IsArc(r, h, t, n) ==
  /\ t = (h + n) % MAX_TASKS
  /\ \A k \in 1 .. n : Arc(r, h, n)[k] \in Idx
  /\ NoRepeats(Arc(r, h, n))
  /\ \A s \in Idx : r[s] # Empty => \E k \in 0 .. n - 1 : s = (h + k) % MAX_TASKS

Slots == [Idx -> Idx \cup {Empty}]

(* One turn around the ring is a subtraction.                              *)
LEMMA Wrap ==
  ASSUME NEW m \in Nat \ {0}, NEW x \in 0 .. 2 * m - 1
  PROVE  x % m = IF x < m THEN x ELSE x - m
<1>1. CASE x < m
  BY <1>1
<1>2. CASE x >= m
  BY <1>2
<1>. QED
  BY <1>1, <1>2

(* What the code computes with % is the slot; different places have        *)
(* different slots, and every slot has a place.                            *)
LEMMA SlotProperties ==
  ASSUME NEW h \in Idx
  PROVE  /\ \A k \in 0 .. MAX_TASKS : (h + k) % MAX_TASKS = Slot(h, k)
         /\ \A k \in 1 .. MAX_TASKS : (h + k - 1) % MAX_TASKS = Slot(h, k - 1)
         /\ \A k \in 0 .. MAX_TASKS : Slot(h, k) \in Idx
         /\ \A k, l \in 0 .. MAX_TASKS - 1 : Slot(h, k) = Slot(h, l) => k = l
         /\ After(h) = Slot(h, 1)
         /\ Before(h) = Slot(h, MAX_TASKS - 1)
         /\ Before(h) \in Idx
<1>1. MAX_TASKS \in Nat \ {0}
  BY MaxTasksAssumption
<1>2. \A x \in 0 .. 2 * MAX_TASKS - 1 :
        x % MAX_TASKS = IF x < MAX_TASKS THEN x ELSE x - MAX_TASKS
  BY <1>1, Wrap
<1>3. \A k \in 0 .. MAX_TASKS : (h + k) % MAX_TASKS = Slot(h, k)
  <2>. SUFFICES ASSUME NEW k \in 0 .. MAX_TASKS
                PROVE  (h + k) % MAX_TASKS = Slot(h, k)
    OBVIOUS
  <2>. DEFINE x == h + k
  <2>1. x \in 0 .. 2 * MAX_TASKS - 1
    BY <1>1 DEF Idx
  <2>2. x % MAX_TASKS = IF x < MAX_TASKS THEN x ELSE x - MAX_TASKS
    <3>. HIDE DEF x
    <3>. QED
      BY <2>1, <1>2
  <2>3. Slot(h, k) = IF x < MAX_TASKS THEN x ELSE x - MAX_TASKS
    BY <1>1 DEF Slot, Idx
  <2>. QED
    BY <2>2, <2>3
<1>4. \A k \in 1 .. MAX_TASKS : (h + k - 1) % MAX_TASKS = Slot(h, k - 1)
  <2>. SUFFICES ASSUME NEW k \in 1 .. MAX_TASKS
                PROVE  (h + k - 1) % MAX_TASKS = Slot(h, k - 1)
    OBVIOUS
  <2>1. k - 1 \in 0 .. MAX_TASKS /\ h + k - 1 = h + (k - 1)
    BY <1>1 DEF Idx
  <2>. QED
    BY <2>1, <1>3
<1>5. \A k \in 0 .. MAX_TASKS : Slot(h, k) \in Idx
  BY <1>1 DEF Slot, Idx
<1>6. \A k, l \in 0 .. MAX_TASKS - 1 : Slot(h, k) = Slot(h, l) => k = l
  BY <1>1 DEF Slot, Idx
<1>7. After(h) = Slot(h, 1)
  BY <1>1, <1>3 DEF After
<1>8. Before(h) = Slot(h, MAX_TASKS - 1)
  <2>1. MAX_TASKS - 1 \in 0 .. MAX_TASKS /\ h - 1 + MAX_TASKS = h + (MAX_TASKS - 1)
    BY <1>1 DEF Idx
  <2>. QED
    BY <2>1, <1>3 DEF Before
<1>9. Before(h) \in Idx
  BY <1>1, <1>5, <1>8
<1>. QED
  BY <1>3, <1>4, <1>5, <1>6, <1>7, <1>8, <1>9

(* IsArc in terms of slots. *)
LEMMA ArcBySlots ==
  ASSUME NEW r \in Slots, NEW h \in Idx, NEW t, NEW n \in 0 .. MAX_TASKS
  PROVE  /\ Len(Arc(r, h, n)) = n /\ DOMAIN Arc(r, h, n) = 1 .. n
         /\ \A k \in 1 .. n : Arc(r, h, n)[k] = r[Slot(h, k - 1)]
         /\ Arc(r, h, n) \in Seq(Idx \cup {Empty})
         /\ IsArc(r, h, t, n) <=>
              /\ t = Slot(h, n)
              /\ \A k \in 0 .. n - 1 : r[Slot(h, k)] \in Idx
              /\ \A k, l \in 0 .. n - 1 : r[Slot(h, k)] = r[Slot(h, l)] => k = l
              /\ \A s \in Idx : r[s] # Empty => \E k \in 0 .. n - 1 : s = Slot(h, k)
         /\ IsArc(r, h, t, n) => Arc(r, h, n) \in Seq(Idx)
<1>. DEFINE q == Arc(r, h, n)
<1>1. n \in Nat /\ MAX_TASKS \in Nat \ {0} /\ n <= MAX_TASKS
  BY MaxTasksAssumption
<1>2. /\ \A k \in 0 .. MAX_TASKS : (h + k) % MAX_TASKS = Slot(h, k)
      /\ \A k \in 1 .. MAX_TASKS : (h + k - 1) % MAX_TASKS = Slot(h, k - 1)
      /\ \A k \in 0 .. MAX_TASKS : Slot(h, k) \in Idx
  BY SlotProperties
<1>3. \A k \in 1 .. n : k \in 1 .. MAX_TASKS /\ k - 1 \in 0 .. MAX_TASKS /\ k - 1 \in 0 .. n - 1
  BY <1>1
<1>4. \A k \in 0 .. n - 1 : k \in 0 .. MAX_TASKS /\ k + 1 \in 1 .. n /\ (k + 1) - 1 = k
  BY <1>1
<1>5. DOMAIN q = 1 .. n /\ \A k \in 1 .. n : q[k] = r[Slot(h, k - 1)]
  BY <1>2, <1>3 DEF Arc
<1>6. \A k \in 1 .. n : q[k] \in Idx \cup {Empty}
  BY <1>2, <1>3, <1>5 DEF Slots
<1>7. q \in [1 .. n -> Idx \cup {Empty}]
  BY <1>5, <1>6 DEF Arc
<1>8. q \in Seq(Idx \cup {Empty}) /\ Len(q) = n
  BY <1>7, <1>1
<1>9. t = (h + n) % MAX_TASKS <=> t = Slot(h, n)
  BY <1>2, <1>1
<1>10. (\A k \in 1 .. n : q[k] \in Idx) <=> (\A k \in 0 .. n - 1 : r[Slot(h, k)] \in Idx)
  BY <1>3, <1>4, <1>5
<1>11. NoRepeats(q) <=> (\A k, l \in 0 .. n - 1 : r[Slot(h, k)] = r[Slot(h, l)] => k = l)
  <2>1. ASSUME NoRepeats(q), NEW k \in 0 .. n - 1, NEW l \in 0 .. n - 1, r[Slot(h, k)] = r[Slot(h, l)]
        PROVE  k = l
    <3>1. q[k + 1] = q[l + 1]
      BY <2>1, <1>4, <1>5
    <3>2. k + 1 = l + 1
      BY <3>1, <2>1, <1>4, <1>5 DEF NoRepeats
    <3>. QED
      BY <3>2
  <2>2. ASSUME \A k, l \in 0 .. n - 1 : r[Slot(h, k)] = r[Slot(h, l)] => k = l,
               NEW a \in 1 .. n, NEW b \in 1 .. n, q[a] = q[b]
        PROVE  a = b
    <3>1. a - 1 = b - 1
      BY <2>2, <1>3, <1>5
    <3>. QED
      BY <3>1
  <2>. QED
    BY <2>1, <2>2, <1>5 DEF NoRepeats
<1>12. \A s \in Idx : (\E k \in 0 .. n - 1 : s = (h + k) % MAX_TASKS)
                        <=> (\E k \in 0 .. n - 1 : s = Slot(h, k))
  BY <1>2, <1>4
<1>13. ASSUME \A k \in 1 .. n : q[k] \in Idx PROVE q \in Seq(Idx)
  <2>1. q \in [1 .. n -> Idx]
    BY <1>13, <1>5 DEF Arc
  <2>. QED
    BY <2>1, <1>1
<1>. QED
  BY <1>5, <1>8, <1>9, <1>10, <1>11, <1>12, <1>13 DEF IsArc

(* How the next three lemmas show that a ring is an arc.                   *)
LEMMA ArcFromSlots ==
  ASSUME NEW r \in Slots, NEW h \in Idx, NEW t, NEW n \in 0 .. MAX_TASKS,
         t = Slot(h, n),
         \A k \in 0 .. n - 1 : r[Slot(h, k)] \in Idx,
         \A k, l \in 0 .. n - 1 : r[Slot(h, k)] = r[Slot(h, l)] => k = l,
         \A s \in Idx : r[s] # Empty => \E k \in 0 .. n - 1 : s = Slot(h, k)
  PROVE  /\ IsArc(r, h, t, n)
         /\ Len(Arc(r, h, n)) = n /\ Arc(r, h, n) \in Seq(Idx)
<1>1. IsArc(r, h, t, n)
  BY ArcBySlots
<1>. QED
  BY <1>1, ArcBySlots

(* Putting task u behind the tail appends it. *)
LEMMA ArcPut ==
  ASSUME NEW r \in Slots, NEW h \in Idx, NEW t \in Idx, NEW n \in 0 .. MAX_TASKS - 1,
         NEW u \in Idx, IsArc(r, h, t, n), u \notin Range(Arc(r, h, n))
  PROVE  /\ [r EXCEPT ![t] = u] \in Slots
         /\ IsArc([r EXCEPT ![t] = u], h, After(t), n + 1)
         /\ Arc([r EXCEPT ![t] = u], h, n + 1) = Append(Arc(r, h, n), u)
<1>. DEFINE w == [r EXCEPT ![t] = u]
            q == Arc(r, h, n)
            p == Arc(w, h, n + 1)
<1>1. /\ MAX_TASKS \in Nat \ {0} /\ n \in Nat /\ n < MAX_TASKS
      /\ n \in 0 .. MAX_TASKS /\ n + 1 \in 0 .. MAX_TASKS
  BY MaxTasksAssumption
<1>2. /\ t = Slot(h, n)
      /\ \A k \in 0 .. n - 1 : r[Slot(h, k)] \in Idx
      /\ \A k, l \in 0 .. n - 1 : r[Slot(h, k)] = r[Slot(h, l)] => k = l
      /\ \A s \in Idx : r[s] # Empty => \E k \in 0 .. n - 1 : s = Slot(h, k)
      /\ Len(q) = n /\ DOMAIN q = 1 .. n /\ q \in Seq(Idx)
      /\ \A k \in 1 .. n : q[k] = r[Slot(h, k - 1)]
  BY <1>1, ArcBySlots
<1>3. /\ \A k \in 0 .. MAX_TASKS : Slot(h, k) \in Idx
      /\ \A k, l \in 0 .. MAX_TASKS - 1 : Slot(h, k) = Slot(h, l) => k = l
  BY SlotProperties
<1>4. After(t) = Slot(h, n + 1) /\ After(t) \in Idx
  <2>1. After(t) = Slot(t, 1)
    BY SlotProperties
  <2>2. Slot(t, 1) = Slot(h, n + 1)
    BY <1>1, <1>2 DEF Slot, Idx
  <2>. QED
    BY <2>1, <2>2, <1>1, <1>3
<1>5. w \in Slots /\ w[t] = u /\ \A s \in Idx : s # t => w[s] = r[s]
  BY DEF Slots
<1>6. \A k \in 0 .. n - 1 : Slot(h, k) \in Idx /\ Slot(h, k) # t
  <2>1. \A k \in 0 .. n - 1 : k \in 0 .. MAX_TASKS /\ k \in 0 .. MAX_TASKS - 1 /\ k # n
    BY <1>1
  <2>. QED
    BY <2>1, <1>1, <1>2, <1>3
<1>7. \A k \in 0 .. n - 1 : w[Slot(h, k)] = r[Slot(h, k)]
  BY <1>5, <1>6
<1>8. \A k \in 0 .. n : k \in 0 .. n - 1 \/ k = n
  BY <1>1
<1>9. \A k \in 0 .. n - 1 : r[Slot(h, k)] # u
  <2>1. \A k \in 0 .. n - 1 : k + 1 \in 1 .. n /\ (k + 1) - 1 = k
    BY <1>1
  <2>2. \A k \in 1 .. n : q[k] # u
    BY <1>2 DEF Range
  <2>. QED
    BY <2>1, <2>2, <1>2
<1>10. \A k \in 0 .. n : w[Slot(h, k)] \in Idx
  BY <1>2, <1>5, <1>7, <1>8
<1>11. \A k, l \in 0 .. n : w[Slot(h, k)] = w[Slot(h, l)] => k = l
  BY <1>2, <1>5, <1>7, <1>8, <1>9
<1>12. \A s \in Idx : w[s] # Empty => \E k \in 0 .. n : s = Slot(h, k)
  <2>1. \A k \in 0 .. n - 1 : k \in 0 .. n
    BY <1>1
  <2>2. n \in 0 .. n
    BY <1>1
  <2>. QED
    BY <2>1, <2>2, <1>2, <1>5
<1>. HIDE DEF w
<1>13. /\ IsArc(w, h, After(t), n + 1)
       /\ Len(p) = n + 1 /\ p \in Seq(Idx)
       /\ \A k \in 1 .. n + 1 : p[k] = w[Slot(h, k - 1)]
  <2>. DEFINE m == n + 1
  <2>1. m - 1 = n /\ m \in 0 .. MAX_TASKS
    BY <1>1
  <2>. HIDE DEF m, p, q
  <2>2. /\ After(t) = Slot(h, m)
        /\ \A k \in 0 .. m - 1 : w[Slot(h, k)] \in Idx
        /\ \A k, l \in 0 .. m - 1 : w[Slot(h, k)] = w[Slot(h, l)] => k = l
        /\ \A s \in Idx : w[s] # Empty => \E k \in 0 .. m - 1 : s = Slot(h, k)
    BY <2>1, <1>4, <1>10, <1>11, <1>12 DEF m
  <2>3. w \in Slots /\ h \in Idx
    BY <1>5
  <2>4. IsArc(w, h, After(t), m)
    BY <2>1, <2>2, <2>3, ArcFromSlots
  <2>5. Len(Arc(w, h, m)) = m /\ Arc(w, h, m) \in Seq(Idx)
    BY <2>1, <2>2, <2>3, ArcFromSlots
  <2>6. \A k \in 1 .. m : Arc(w, h, m)[k] = w[Slot(h, k - 1)]
    <3>1. \A k \in 1 .. m : Arc(w, h, m)[k] = w[(h + k - 1) % MAX_TASKS]
      BY DEF Arc
    <3>2. \A k \in 1 .. m : k \in 1 .. MAX_TASKS
      BY <2>1, <1>1
    <3>. QED
      BY <3>1, <3>2, <2>3, SlotProperties
  <2>. QED
    BY <2>4, <2>5, <2>6 DEF m, p
<1>. HIDE DEF p, q
<1>14. p = Append(q, u)
  <2>1. /\ Append(q, u) \in Seq(Idx) /\ Len(Append(q, u)) = n + 1
        /\ \A k \in 1 .. n : Append(q, u)[k] = q[k]
        /\ Append(q, u)[n + 1] = u
    BY <1>2, AppendProperties
  <2>2. ASSUME NEW k \in 1 .. n + 1 PROVE p[k] = Append(q, u)[k]
    <3>1. CASE k = n + 1
      BY <3>1, <2>1, <1>1, <1>2, <1>5, <1>13
    <3>2. CASE k # n + 1
      <4>1. k \in 1 .. n /\ k - 1 \in 0 .. n - 1
        BY <3>2, <1>1
      <4>. QED
        BY <4>1, <2>1, <1>2, <1>7, <1>13
    <3>. QED
      BY <3>1, <3>2
  <2>. QED
    BY <2>1, <2>2, <1>13, SeqEqual
<1>. QED
  BY <1>4, <1>5, <1>13, <1>14 DEF w, p, q

(* Taking the element at the head leaves the tail of the queue. *)
LEMMA ArcTake ==
  ASSUME NEW r \in Slots, NEW h \in Idx, NEW t \in Idx, NEW n \in 1 .. MAX_TASKS,
         IsArc(r, h, t, n)
  PROVE  /\ [r EXCEPT ![h] = Empty] \in Slots
         /\ After(h) \in Idx
         /\ IsArc([r EXCEPT ![h] = Empty], After(h), t, n - 1)
         /\ Arc(r, h, n) # <<>> /\ Head(Arc(r, h, n)) = r[h] /\ r[h] \in Idx
         /\ Arc([r EXCEPT ![h] = Empty], After(h), n - 1) = Tail(Arc(r, h, n))
<1>. DEFINE w == [r EXCEPT ![h] = Empty]
            g == After(h)
            q == Arc(r, h, n)
            p == Arc(w, g, n - 1)
<1>1. /\ MAX_TASKS \in Nat \ {0} /\ n \in Nat /\ n > 0 /\ n <= MAX_TASKS
      /\ n \in 0 .. MAX_TASKS /\ n - 1 \in 0 .. MAX_TASKS
  BY MaxTasksAssumption
<1>2. /\ t = Slot(h, n)
      /\ \A k \in 0 .. n - 1 : r[Slot(h, k)] \in Idx
      /\ \A k, l \in 0 .. n - 1 : r[Slot(h, k)] = r[Slot(h, l)] => k = l
      /\ \A s \in Idx : r[s] # Empty => \E k \in 0 .. n - 1 : s = Slot(h, k)
      /\ Len(q) = n /\ DOMAIN q = 1 .. n /\ q \in Seq(Idx)
      /\ \A k \in 1 .. n : q[k] = r[Slot(h, k - 1)]
  BY <1>1, ArcBySlots
<1>3. /\ \A k \in 0 .. MAX_TASKS : Slot(h, k) \in Idx
      /\ \A k, l \in 0 .. MAX_TASKS - 1 : Slot(h, k) = Slot(h, l) => k = l
  BY SlotProperties
<1>4. g = Slot(h, 1) /\ g \in Idx
  BY <1>1, <1>3, SlotProperties
<1>5. Slot(h, 0) = h
  BY <1>1 DEF Slot, Idx
<1>6. \A k \in 0 .. n - 1 : Slot(g, k) = Slot(h, k + 1)
  BY <1>1, <1>4 DEF Slot, Idx
<1>7. w \in Slots /\ w[h] = Empty /\ \A s \in Idx : s # h => w[s] = r[s]
  BY DEF Slots
<1>8. Empty \notin Idx
  BY <1>1 DEF Empty, Idx
<1>9. \A k \in 0 .. n - 2 : k \in 0 .. n - 1 /\ k + 1 \in 0 .. n - 1 /\ k + 1 \in 0 .. MAX_TASKS
                            /\ k + 1 \in 0 .. MAX_TASKS - 1 /\ k + 1 # 0
  BY <1>1
<1>10. \A k \in 0 .. n - 2 : Slot(g, k) \in Idx /\ w[Slot(g, k)] = r[Slot(h, k + 1)]
  <2>1. 0 \in 0 .. MAX_TASKS - 1
    BY <1>1
  <2>2. \A k \in 0 .. n - 2 : Slot(h, k + 1) # h
    BY <2>1, <1>3, <1>5, <1>9
  <2>. QED
    BY <2>2, <1>3, <1>6, <1>7, <1>9
<1>11. \A k \in 0 .. n - 2 : w[Slot(g, k)] \in Idx
  BY <1>2, <1>9, <1>10
<1>12. \A k, l \in 0 .. n - 2 : w[Slot(g, k)] = w[Slot(g, l)] => k = l
  <2>. SUFFICES ASSUME NEW k \in 0 .. n - 2, NEW l \in 0 .. n - 2,
                       w[Slot(g, k)] = w[Slot(g, l)]
                PROVE  k = l
    OBVIOUS
  <2>1. k + 1 = l + 1
    BY <1>2, <1>9, <1>10
  <2>. QED
    BY <2>1
<1>13. ASSUME NEW s \in Idx, w[s] # Empty PROVE \E k \in 0 .. n - 2 : s = Slot(g, k)
  <2>1. s # h /\ r[s] # Empty
    BY <1>13, <1>7
  <2>2. PICK k \in 0 .. n - 1 : s = Slot(h, k)
    BY <2>1, <1>2
  <2>3. k # 0
    BY <2>1, <2>2, <1>5
  <2>4. k - 1 \in 0 .. n - 2 /\ k - 1 \in 0 .. n - 1 /\ (k - 1) + 1 = k
    BY <2>3, <1>1
  <2>5. s = Slot(g, k - 1)
    BY <2>2, <2>4, <1>6
  <2>. QED
    BY <2>4, <2>5
<1>14. t = Slot(g, n - 1)
  BY <1>1, <1>2, <1>6
<1>15. q # <<>> /\ Head(q) = r[h] /\ r[h] \in Idx
  <2>1. 1 \in 1 .. n /\ 1 - 1 = 0 /\ 0 \in 0 .. n - 1
    BY <1>1
  <2>2. q[1] = r[h] /\ r[h] \in Idx
    BY <2>1, <1>2, <1>5
  <2>3. q # <<>>
    BY <1>1, <1>2, EmptySeq
  <2>. HIDE DEF q
  <2>. QED
    BY <2>2, <2>3, <1>2
<1>. HIDE DEF w, g
<1>16. /\ IsArc(w, g, t, n - 1)
       /\ Len(p) = n - 1 /\ p \in Seq(Idx)
       /\ \A k \in 1 .. n - 1 : p[k] = w[Slot(g, k - 1)]
  <2>. DEFINE m == n - 1
  <2>1. m - 1 = n - 2 /\ m \in 0 .. MAX_TASKS
    BY <1>1
  <2>. HIDE DEF m, p, q
  <2>2. /\ t = Slot(g, m)
        /\ \A k \in 0 .. m - 1 : w[Slot(g, k)] \in Idx
        /\ \A k, l \in 0 .. m - 1 : w[Slot(g, k)] = w[Slot(g, l)] => k = l
        /\ \A s \in Idx : w[s] # Empty => \E k \in 0 .. m - 1 : s = Slot(g, k)
    BY <2>1, <1>11, <1>12, <1>13, <1>14 DEF m
  <2>3. w \in Slots /\ g \in Idx
    BY <1>4, <1>7
  <2>4. IsArc(w, g, t, m)
    BY <2>1, <2>2, <2>3, ArcFromSlots
  <2>5. Len(Arc(w, g, m)) = m /\ Arc(w, g, m) \in Seq(Idx)
    BY <2>1, <2>2, <2>3, ArcFromSlots
  <2>6. \A k \in 1 .. m : Arc(w, g, m)[k] = w[Slot(g, k - 1)]
    <3>1. \A k \in 1 .. m : Arc(w, g, m)[k] = w[(g + k - 1) % MAX_TASKS]
      BY DEF Arc
    <3>2. \A k \in 1 .. m : k \in 1 .. MAX_TASKS
      BY <2>1, <1>1
    <3>. QED
      BY <3>1, <3>2, <2>3, SlotProperties
  <2>. QED
    BY <2>4, <2>5, <2>6 DEF m, p
<1>. HIDE DEF p, q
<1>17. p = Tail(q)
  <2>1. /\ Tail(q) \in Seq(Idx) /\ Len(Tail(q)) = n - 1
        /\ \A k \in 1 .. n - 1 : Tail(q)[k] = q[k + 1]
    BY <1>2, <1>15, HeadTailProperties
  <2>2. ASSUME NEW k \in 1 .. n - 1 PROVE p[k] = Tail(q)[k]
    <3>1. k - 1 \in 0 .. n - 2 /\ k + 1 \in 1 .. n /\ (k - 1) + 1 = (k + 1) - 1
      BY <1>1
    <3>2. p[k] = r[Slot(h, (k + 1) - 1)]
      BY <3>1, <1>10, <1>16
    <3>. QED
      BY <3>1, <3>2, <2>1, <1>2
  <2>. QED
    BY <2>1, <2>2, <1>16, SeqEqual
<1>. QED
  BY <1>4, <1>7, <1>15, <1>16, <1>17 DEF w, g, p, q

(* Putting task u in front of the head prepends it. *)
LEMMA ArcPush ==
  ASSUME NEW r \in Slots, NEW h \in Idx, NEW t \in Idx, NEW n \in 0 .. MAX_TASKS - 1,
         NEW u \in Idx, IsArc(r, h, t, n), u \notin Range(Arc(r, h, n))
  PROVE  /\ [r EXCEPT ![Before(h)] = u] \in Slots
         /\ IsArc([r EXCEPT ![Before(h)] = u], Before(h), t, n + 1)
         /\ Arc([r EXCEPT ![Before(h)] = u], Before(h), n + 1) = <<u>> \o Arc(r, h, n)
<1>. DEFINE g == Before(h)
            w == [r EXCEPT ![g] = u]
            q == Arc(r, h, n)
            p == Arc(w, g, n + 1)
<1>1. /\ MAX_TASKS \in Nat \ {0} /\ n \in Nat /\ n < MAX_TASKS
      /\ n \in 0 .. MAX_TASKS /\ n + 1 \in 0 .. MAX_TASKS
  BY MaxTasksAssumption
<1>2. /\ t = Slot(h, n)
      /\ \A k \in 0 .. n - 1 : r[Slot(h, k)] \in Idx
      /\ \A k, l \in 0 .. n - 1 : r[Slot(h, k)] = r[Slot(h, l)] => k = l
      /\ \A s \in Idx : r[s] # Empty => \E k \in 0 .. n - 1 : s = Slot(h, k)
      /\ Len(q) = n /\ DOMAIN q = 1 .. n /\ q \in Seq(Idx)
      /\ \A k \in 1 .. n : q[k] = r[Slot(h, k - 1)]
  BY <1>1, ArcBySlots
<1>3. g = Slot(h, MAX_TASKS - 1) /\ g \in Idx
  BY SlotProperties
<1>4. /\ \A k \in 0 .. MAX_TASKS : Slot(g, k) \in Idx
      /\ \A k, l \in 0 .. MAX_TASKS - 1 : Slot(g, k) = Slot(g, l) => k = l
  BY <1>3, SlotProperties
<1>5. Slot(g, 0) = g
  BY <1>1, <1>3 DEF Slot, Idx
<1>6. \A k \in 0 .. n : Slot(h, k) = Slot(g, k + 1)
  BY <1>1, <1>3 DEF Slot, Idx
<1>7. w \in Slots /\ w[g] = u /\ \A s \in Idx : s # g => w[s] = r[s]
  BY <1>3 DEF Slots
<1>. HIDE DEF w, g
<1>8. \A k \in 0 .. n : k = 0 \/ (k - 1 \in 0 .. n - 1 /\ k - 1 \in 0 .. n /\ (k - 1) + 1 = k
                                  /\ k \in 0 .. MAX_TASKS - 1 /\ k # 0)
  BY <1>1
<1>9. \A k \in 0 .. n : k # 0 => Slot(g, k) # g /\ Slot(g, k) \in Idx
                                 /\ w[Slot(g, k)] = r[Slot(h, k - 1)]
  <2>1. 0 \in 0 .. MAX_TASKS - 1 /\ \A k \in 0 .. n : k \in 0 .. MAX_TASKS
    BY <1>1
  <2>2. \A k \in 0 .. n : k # 0 => Slot(g, k) # g /\ Slot(g, k) \in Idx
    BY <2>1, <1>4, <1>5, <1>8
  <2>3. \A k \in 0 .. n : k # 0 => Slot(h, k - 1) = Slot(g, k)
    BY <1>6, <1>8
  <2>. QED
    BY <2>2, <2>3, <1>7
<1>10. \A k \in 0 .. n - 1 : r[Slot(h, k)] # u
  <2>1. \A k \in 0 .. n - 1 : k + 1 \in 1 .. n /\ (k + 1) - 1 = k
    BY <1>1
  <2>2. \A k \in 1 .. n : q[k] # u
    BY <1>2 DEF Range
  <2>. QED
    BY <2>1, <2>2, <1>2
<1>11. \A k \in 0 .. n : w[Slot(g, k)] \in Idx
  BY <1>2, <1>5, <1>7, <1>8, <1>9
<1>12. \A k, l \in 0 .. n : w[Slot(g, k)] = w[Slot(g, l)] => k = l
  <2>. SUFFICES ASSUME NEW k \in 0 .. n, NEW l \in 0 .. n, w[Slot(g, k)] = w[Slot(g, l)]
                PROVE  k = l
    OBVIOUS
  <2>1. CASE k = 0 \/ l = 0
    BY <2>1, <1>5, <1>7, <1>8, <1>9, <1>10
  <2>2. CASE k # 0 /\ l # 0
    <3>1. k - 1 = l - 1
      BY <2>2, <1>2, <1>8, <1>9
    <3>. QED
      BY <3>1
  <2>. QED
    BY <2>1, <2>2
<1>13. ASSUME NEW s \in Idx, w[s] # Empty PROVE \E k \in 0 .. n : s = Slot(g, k)
  <2>1. CASE s = g
    <3>1. 0 \in 0 .. n
      BY <1>1
    <3>. QED
      BY <3>1, <2>1, <1>5
  <2>2. CASE s # g
    <3>1. PICK k \in 0 .. n - 1 : s = Slot(h, k)
      BY <2>2, <1>2, <1>7, <1>13
    <3>2. k + 1 \in 0 .. n /\ k \in 0 .. n
      BY <1>1
    <3>. QED
      BY <3>1, <3>2, <1>6
  <2>. QED
    BY <2>1, <2>2
<1>14. t = Slot(g, n + 1)
  BY <1>1, <1>2, <1>6
<1>15. /\ IsArc(w, g, t, n + 1)
       /\ Len(p) = n + 1 /\ p \in Seq(Idx)
       /\ \A k \in 1 .. n + 1 : p[k] = w[Slot(g, k - 1)]
  <2>. DEFINE m == n + 1
  <2>1. m - 1 = n /\ m \in 0 .. MAX_TASKS
    BY <1>1
  <2>. HIDE DEF m, p, q
  <2>2. /\ t = Slot(g, m)
        /\ \A k \in 0 .. m - 1 : w[Slot(g, k)] \in Idx
        /\ \A k, l \in 0 .. m - 1 : w[Slot(g, k)] = w[Slot(g, l)] => k = l
        /\ \A s \in Idx : w[s] # Empty => \E k \in 0 .. m - 1 : s = Slot(g, k)
    BY <2>1, <1>11, <1>12, <1>13, <1>14 DEF m
  <2>3. w \in Slots /\ g \in Idx
    BY <1>3, <1>7
  <2>4. IsArc(w, g, t, m)
    BY <2>1, <2>2, <2>3, ArcFromSlots
  <2>5. Len(Arc(w, g, m)) = m /\ Arc(w, g, m) \in Seq(Idx)
    BY <2>1, <2>2, <2>3, ArcFromSlots
  <2>6. \A k \in 1 .. m : Arc(w, g, m)[k] = w[Slot(g, k - 1)]
    <3>1. \A k \in 1 .. m : Arc(w, g, m)[k] = w[(g + k - 1) % MAX_TASKS]
      BY DEF Arc
    <3>2. \A k \in 1 .. m : k \in 1 .. MAX_TASKS
      BY <2>1, <1>1
    <3>. QED
      BY <3>1, <3>2, <2>3, SlotProperties
  <2>. QED
    BY <2>4, <2>5, <2>6 DEF m, p
<1>. HIDE DEF p, q
<1>16. p = <<u>> \o q
  <2>1. <<u>> \in Seq(Idx) /\ Len(<<u>>) = 1 /\ <<u>>[1] = u
    OBVIOUS
  <2>2. /\ <<u>> \o q \in Seq(Idx) /\ Len(<<u>> \o q) = n + 1
        /\ \A k \in 1 .. n + 1 : (<<u>> \o q)[k] = IF k <= 1 THEN u ELSE q[k - 1]
    <3>. DEFINE v == <<u>>
    <3>. HIDE DEF v
    <3>1. v \in Seq(Idx) /\ Len(v) = 1 /\ v[1] = u
      BY <2>1 DEF v
    <3>0. q \in Seq(Idx)
      BY <1>2
    <3>2. /\ v \o q \in Seq(Idx) /\ Len(v \o q) = Len(v) + Len(q)
          /\ \A k \in 1 .. Len(v) + Len(q) :
               (v \o q)[k] = IF k <= Len(v) THEN v[k] ELSE q[k - Len(v)]
      BY <3>0, <3>1, ConcatProperties
    <3>3. 1 + n = n + 1 /\ \A k \in 1 .. n + 1 : k <= 1 => k = 1
      BY <1>1
    <3>4. /\ v \o q \in Seq(Idx) /\ Len(v \o q) = n + 1
          /\ \A k \in 1 .. n + 1 : (v \o q)[k] = IF k <= 1 THEN u ELSE q[k - 1]
      BY <3>1, <3>2, <3>3, <1>2
    <3>. QED
      BY <3>4 DEF v
  <2>3. ASSUME NEW k \in 1 .. n + 1 PROVE p[k] = (<<u>> \o q)[k]
    <3>1. CASE k = 1
      <4>1. p[k] = u
        BY <3>1, <1>1, <1>5, <1>7, <1>15
      <4>. QED
        BY <4>1, <3>1, <2>2
    <3>2. CASE k # 1
      <4>1. k - 1 \in 0 .. n /\ k - 1 # 0 /\ k - 1 \in 1 .. n /\ ~(k <= 1)
        BY <3>2, <1>1
      <4>2. p[k] = r[Slot(h, (k - 1) - 1)]
        BY <4>1, <1>9, <1>15
      <4>. QED
        BY <4>1, <4>2, <2>2, <1>2
    <3>. QED
      BY <3>1, <3>2
  <2>. QED
    BY <2>2, <2>3, <1>15, SeqEqual
<1>. QED
  BY <1>3, <1>7, <1>15, <1>16 DEF w, g, p, q

--------------------------------------------------------------------------------
(* Sorting: bubble sort computes Reorder *)

(* Reorder takes every element to its rank. *)
LEMMA ReorderAt ==
  ASSUME NEW S, NEW q \in Seq(S), NEW prio, \A t \in S : prio[t] \in Int,
         NEW a \in 1 .. Len(q)
  PROVE  Reorder(q, prio)[Rank(q, prio, a)] = q[a]
<1>. DEFINE m == Rank(q, prio, a)
            b == CHOOSE b \in DOMAIN q : Rank(q, prio, b) = m
<1>1. DOMAIN q = 1 .. Len(q) /\ m \in 1 .. Len(q)
  BY LenProperties, RankProperties
<1>2. Reorder(q, prio)[m] = q[b]
  BY <1>1 DEF Reorder
<1>3. b \in 1 .. Len(q) /\ Rank(q, prio, b) = m
  BY <1>1
<1>4. b = a
  <2>. HIDE DEF b
  <2>1. \A x \in 1 .. Len(q) : Rank(q, prio, x) \in 1 .. Len(q)
    BY RankProperties
  <2>2. a # b => Rank(q, prio, a) < Rank(q, prio, b) \/ Rank(q, prio, b) < Rank(q, prio, a)
    BY <1>3, RankProperties
  <2>. QED
    BY <2>1, <2>2, <1>3
<1>. QED
  BY <1>2, <1>4

(* A sequence that is in order already is its own reordering. *)
LEMMA ReorderSorted ==
  ASSUME NEW S, NEW q \in Seq(S), NEW prio, \A t \in S : prio[t] \in Int,
         SortedBy(q, prio)
  PROVE  Reorder(q, prio) = q
<1>1. Len(q) \in Nat /\ DOMAIN q = 1 .. Len(q) /\ \A a \in 1 .. Len(q) : prio[q[a]] \in Int
  BY LenProperties
<1>2. ASSUME NEW a \in 1 .. Len(q) PROVE Rank(q, prio, a) = a
  <2>1. \A b \in 1 .. Len(q) : Precedes(q, prio, b, a) <=> b <= a
    <3>. SUFFICES ASSUME NEW b \in 1 .. Len(q)
                  PROVE  Precedes(q, prio, b, a) <=> b <= a
      OBVIOUS
    <3>1. CASE b < a
      <4>1. prio[q[b]] >= prio[q[a]]
        BY <3>1, <1>1 DEF SortedBy
      <4>. QED
        BY <4>1, <3>1, <1>1 DEF Precedes
    <3>2. CASE b = a
      BY <3>2, <1>1 DEF Precedes
    <3>3. CASE b > a
      <4>1. prio[q[a]] >= prio[q[b]]
        BY <3>3, <1>1 DEF SortedBy
      <4>. QED
        BY <4>1, <3>3, <1>1 DEF Precedes
    <3>. QED
      BY <3>1, <3>2, <3>3
  <2>2. {b \in 1 .. Len(q) : Precedes(q, prio, b, a)} = 1 .. a
    BY <2>1, <1>1
  <2>3. Cardinality(1 .. a) = a
    BY <1>1, FS_Interval
  <2>. QED
    BY <2>2, <2>3, <1>1 DEF Rank
<1>3. /\ Reorder(q, prio) \in Seq(S)
      /\ Len(Reorder(q, prio)) = Len(q)
  BY ReorderProperties
<1>4. \A a \in 1 .. Len(q) : Reorder(q, prio)[a] = q[a]
  BY <1>2, ReorderAt
<1>. QED
  BY <1>3, <1>4, SeqEqual

(* Exchanging neighbours rearranges the sequence.                          *)
LEMMA ExchangeProperties ==
  ASSUME NEW S, NEW q \in Seq(S), NEW a \in 1 .. Len(q) - 1
  PROVE  /\ Exchange(q, a) \in Seq(S)
         /\ Len(Exchange(q, a)) = Len(q)
         /\ \A b \in 1 .. Len(q) : Exchange(q, a)[b] = CASE b = a -> q[a + 1]
                                                         [] b = a + 1 -> q[a]
                                                         [] OTHER -> q[b]
         /\ Range(Exchange(q, a)) = Range(q)
         /\ NoRepeats(q) => NoRepeats(Exchange(q, a))
<1>. DEFINE x == Exchange(q, a)
            D == 1 .. Len(q)
            swap(b) == CASE b = a -> a + 1 [] b = a + 1 -> a [] OTHER -> b
<1>1. Len(q) \in Nat /\ DOMAIN q = D /\ q \in [D -> S] /\ a \in D /\ a + 1 \in D
  BY LenProperties
<1>2. x \in [D -> S]
  BY <1>1 DEF Exchange
<1>3. x \in Seq(S) /\ Len(x) = Len(q)
  <2>. HIDE DEF x
  <2>. QED
    BY <1>1, <1>2
<1>4. \A b \in D : x[b] = CASE b = a -> q[a + 1] [] b = a + 1 -> q[a] [] OTHER -> q[b]
  BY <1>1 DEF Exchange
<1>. HIDE DEF x
<1>5. \A b \in D : swap(b) \in D /\ swap(swap(b)) = b /\ x[b] = q[swap(b)]
  BY <1>1, <1>4
<1>. HIDE DEF swap
<1>6. Range(x) = Range(q)
  <2>1. Range(q) = {q[b] : b \in D} /\ Range(x) = {x[b] : b \in D}
    BY <1>3, RangeIsImage
  <2>. QED
    BY <2>1, <1>5
<1>7. NoRepeats(q) => NoRepeats(x)
  <2>. SUFFICES ASSUME NoRepeats(q), NEW b \in D, NEW c \in D, x[b] = x[c]
                PROVE  b = c
    BY <1>1, <1>2 DEF NoRepeats
  <2>1. swap(b) = swap(c)
    BY <1>1, <1>5 DEF NoRepeats
  <2>. QED
    BY <2>1, <1>5
<1>. QED
  BY <1>3, <1>4, <1>6, <1>7 DEF x

(* Exchanging neighbours that are strictly out of order does not change    *)
(* where the sort takes each element.                                      *)
LEMMA ExchangeKeepsReorder ==
  ASSUME NEW S, NEW q \in Seq(S), NEW prio, \A t \in S : prio[t] \in Int,
         NEW a \in 1 .. Len(q) - 1, prio[q[a]] < prio[q[a + 1]]
  PROVE  Reorder(Exchange(q, a), prio) = Reorder(q, prio)
<1>. DEFINE x == Exchange(q, a)
            D == 1 .. Len(q)
            swap(b) == CASE b = a -> a + 1 [] b = a + 1 -> a [] OTHER -> b
<1>1. Len(q) \in Nat /\ DOMAIN q = D /\ a \in D /\ a + 1 \in D /\ \A b \in D : prio[q[b]] \in Int
  BY LenProperties
<1>2. x \in Seq(S) /\ Len(x) = Len(q) /\ DOMAIN x = D
  BY ExchangeProperties, LenProperties
<1>3. \A b \in D : x[b] = CASE b = a -> q[a + 1] [] b = a + 1 -> q[a] [] OTHER -> q[b]
  BY ExchangeProperties
<1>. HIDE DEF x
<1>4. \A b \in D : swap(b) \in D /\ swap(swap(b)) = b /\ x[b] = q[swap(b)]
  BY <1>1, <1>3
<1>5. \A b, c \in D : prio[q[swap(b)]] = prio[q[swap(c)]] => (b <= c <=> swap(b) <= swap(c))
  BY <1>1
<1>. HIDE DEF swap
<1>6. \A b, c \in D : Precedes(x, prio, b, c) <=> Precedes(q, prio, swap(b), swap(c))
  BY <1>4, <1>5 DEF Precedes
<1>7. ASSUME NEW c \in D PROVE Rank(x, prio, c) = Rank(q, prio, swap(c))
  <2>. DEFINE X == {b \in D : Precedes(x, prio, b, c)}
              Q == {b \in D : Precedes(q, prio, b, swap(c))}
              f == [b \in X |-> swap(b)]
  <2>1. \A b \in X : swap(b) \in Q
    BY <1>4, <1>6
  <2>2. \A b \in Q : swap(b) \in X /\ swap(swap(b)) = b
    BY <1>4, <1>6
  <2>3. \A b \in X : swap(swap(b)) = b
    BY <1>4
  <2>4. IsFiniteSet(X)
    <3>1. IsFiniteSet(D) /\ X \in SUBSET D
      BY <1>1, FS_Interval
    <3>. QED
      BY <3>1, FS_Subset
  <2>5. f \in Bijection(X, Q)
    <3>1. f \in [X -> Q] /\ \A b \in X : f[b] = swap(b)
      BY <2>1
    <3>. HIDE DEF X, Q, f
    <3>2. \A b, d \in X : f[b] = f[d] => b = d
      BY <3>1, <2>3
    <3>3. \A b \in Q : \E d \in X : f[d] = b
      BY <3>1, <2>2
    <3>. QED
      BY <3>1, <3>2, <3>3, Fun_IsBij
  <2>. HIDE DEF f, X, Q
  <2>6. Cardinality(X) = Cardinality(Q)
    BY <2>4, <2>5, FS_Bijection DEF ExistsBijection
  <2>. QED
    BY <2>6, <1>1, <1>2 DEF Rank, X, Q
<1>8. /\ Reorder(x, prio) \in Seq(S) /\ Len(Reorder(x, prio)) = Len(q)
      /\ Reorder(q, prio) \in Seq(S) /\ Len(Reorder(q, prio)) = Len(q)
  BY <1>2, ReorderProperties
<1>9. ASSUME NEW m \in D PROVE Reorder(x, prio)[m] = Reorder(q, prio)[m]
  <2>1. PICK c \in D : Rank(x, prio, c) = m
    <3>1. \A l \in 1 .. Len(x) : \E c \in 1 .. Len(x) : Rank(x, prio, c) = l
      BY <1>2, RankOnto
    <3>. QED
      BY <3>1, <1>2
  <2>2. Reorder(x, prio)[m] = x[c]
    BY <2>1, <1>2, ReorderAt
  <2>3. Reorder(q, prio)[m] = q[swap(c)]
    BY <2>1, <1>4, <1>7, ReorderAt
  <2>. QED
    BY <2>2, <2>3, <1>4
<1>. QED
  BY <1>8, <1>9, SeqEqual DEF x

--------------------------------------------------------------------------------
(* A sequence that is moved from one place to another *)

(* Moving the head of c behind p leaves the sequence p \o c as it is.      *)
LEMMA MoveHead ==
  ASSUME NEW S, NEW p \in Seq(S), NEW c \in Seq(S), c # <<>>
  PROVE  Append(p, Head(c)) \o Tail(c) = p \o c
<1>. DEFINE a == Append(p, Head(c))
            l == a \o Tail(c)
            r == p \o c
<1>1. /\ Head(c) \in S /\ Tail(c) \in Seq(S)
      /\ Len(Tail(c)) = Len(c) - 1
      /\ \A k \in 1 .. Len(Tail(c)) : Tail(c)[k] = c[k + 1]
      /\ Head(c) = c[1]
  BY HeadTailProperties
<1>2. /\ a \in Seq(S) /\ Len(a) = Len(p) + 1
      /\ \A k \in 1 .. Len(p) : a[k] = p[k]
      /\ a[Len(p) + 1] = c[1]
  BY <1>1, AppendProperties
<1>3. Len(p) \in Nat /\ Len(c) \in Nat
  BY LenProperties
<1>. HIDE DEF a
<1>4. /\ l \in Seq(S) /\ Len(l) = Len(p) + Len(c)
      /\ \A k \in 1 .. Len(p) + Len(c) :
           l[k] = IF k <= Len(p) + 1 THEN a[k] ELSE Tail(c)[k - (Len(p) + 1)]
  <2>1. /\ l \in Seq(S) /\ Len(l) = Len(a) + Len(Tail(c))
        /\ \A k \in 1 .. Len(a) + Len(Tail(c)) :
             l[k] = IF k <= Len(a) THEN a[k] ELSE Tail(c)[k - Len(a)]
    BY <1>1, <1>2, ConcatProperties
  <2>. HIDE DEF l
  <2>2. Len(a) + Len(Tail(c)) = Len(p) + Len(c)
    BY <1>1, <1>2, <1>3
  <2>. QED
    BY <2>1, <2>2, <1>2
<1>5. /\ r \in Seq(S) /\ Len(r) = Len(p) + Len(c)
      /\ \A k \in 1 .. Len(p) + Len(c) : r[k] = IF k <= Len(p) THEN p[k] ELSE c[k - Len(p)]
  BY ConcatProperties
<1>. HIDE DEF l, r
<1>6. ASSUME NEW k \in 1 .. Len(p) + Len(c) PROVE l[k] = r[k]
  <2>1. CASE k <= Len(p)
    <3>1. k \in 1 .. Len(p) /\ k <= Len(p) + 1
      BY <2>1, <1>3
    <3>. QED
      BY <3>1, <2>1, <1>2, <1>4, <1>5
  <2>2. CASE k = Len(p) + 1
    <3>1. ~(k <= Len(p)) /\ k <= Len(p) + 1 /\ k - Len(p) = 1
      BY <2>2, <1>3
    <3>. QED
      BY <3>1, <2>2, <1>2, <1>4, <1>5
  <2>3. CASE k > Len(p) + 1
    <3>1. /\ ~(k <= Len(p)) /\ ~(k <= Len(p) + 1)
          /\ k - (Len(p) + 1) \in 1 .. Len(c) - 1
          /\ (k - (Len(p) + 1)) + 1 = k - Len(p)
      BY <2>3, <1>3
    <3>2. Tail(c)[k - (Len(p) + 1)] = c[k - Len(p)]
      BY <3>1, <1>1
    <3>. QED
      BY <3>1, <3>2, <1>4, <1>5
  <2>. QED
    BY <2>1, <2>2, <2>3, <1>3
<1>. QED
  BY <1>4, <1>5, <1>6, SeqEqual DEF l, r

(* Leaving the head of c out of the sequence p \o c removes it. *)
LEMMA DropHead ==
  ASSUME NEW S, NEW p \in Seq(S), NEW c \in Seq(S), c # <<>>, NoRepeats(p \o c)
  PROVE  /\ RemoveTask(p \o c, Head(c)) = p \o Tail(c)
         /\ Head(c) \notin Range(p)
<1>. DEFINE r == p \o c
            t == Head(c)
            k == CHOOSE k \in DOMAIN r : r[k] = t
            n == Len(p)
<1>1. Len(p) \in Nat /\ Len(c) \in Nat \ {0} /\ Head(c) = c[1]
  BY LenProperties, EmptySeq
<1>2. /\ r \in Seq(S) /\ Len(r) = n + Len(c)
      /\ \A x \in 1 .. n + Len(c) : r[x] = IF x <= n THEN p[x] ELSE c[x - n]
  BY ConcatProperties
<1>3. DOMAIN r = 1 .. n + Len(c)
  BY <1>2, LenProperties
<1>4. \A x, y \in 1 .. n + Len(c) : r[x] = r[y] => x = y
  BY <1>3 DEF NoRepeats
<1>. HIDE DEF r
<1>5. n + 1 \in 1 .. n + Len(c) /\ r[n + 1] = t
  <2>1. n + 1 \in 1 .. n + Len(c) /\ ~(n + 1 <= n) /\ n + 1 - n = 1
    BY <1>1
  <2>. QED
    BY <2>1, <1>1, <1>2
<1>6. k = n + 1
  BY <1>3, <1>4, <1>5
<1>7. t \in Range(r)
  BY <1>3, <1>5 DEF Range
<1>8. RemoveTask(r, t) = SubSeq(r, 1, k - 1) \o SubSeq(r, k + 1, Len(r))
  BY <1>7 DEF RemoveTask
<1>. HIDE DEF k
<1>9. SubSeq(r, 1, k - 1) = p
  <2>. DEFINE b == SubSeq(r, 1, k - 1)
  <2>1. \A x \in 1 .. n : r[x] = p[x] /\ r[x] \in S
    <3>1. \A x \in 1 .. n : x \in 1 .. n + Len(c) /\ x <= n
      BY <1>1
    <3>. QED
      BY <3>1, <1>2, LenProperties
  <2>2. k - 1 = n /\ k - 1 \in Int /\ 1 \in Int
    BY <1>1, <1>6
  <2>3. /\ b \in Seq(S)
        /\ Len(b) = IF 1 <= k - 1 THEN (k - 1) - 1 + 1 ELSE 0
        /\ \A x \in 1 .. (k - 1) - 1 + 1 : b[x] = r[1 + x - 1]
    BY <2>1, <2>2, SubSeqProperties
  <2>. HIDE DEF b
  <2>4. Len(b) = n
    BY <2>2, <2>3, <1>1
  <2>5. ASSUME NEW x \in 1 .. n PROVE b[x] = p[x]
    <3>1. x \in 1 .. (k - 1) - 1 + 1 /\ 1 + x - 1 = x
      BY <2>2, <1>1
    <3>. QED
      BY <3>1, <2>1, <2>3
  <2>. QED
    BY <2>3, <2>4, <2>5, SeqEqual DEF b
<1>10. SubSeq(r, k + 1, Len(r)) = Tail(c)
  <2>. DEFINE b == SubSeq(r, k + 1, Len(r))
              m == Len(c) - 1
  <2>1. \A x \in k + 1 .. Len(r) : r[x] \in S
    <3>1. \A x \in k + 1 .. Len(r) : x \in 1 .. Len(r)
      BY <1>1, <1>2, <1>6
    <3>. QED
      BY <3>1, <1>2, ElementOfSeq
  <2>2. k + 1 \in Int /\ Len(r) \in Int /\ k + 1 = n + 2 /\ m \in Nat
    BY <1>1, <1>2, <1>6
  <2>3. /\ b \in Seq(S)
        /\ Len(b) = IF k + 1 <= Len(r) THEN Len(r) - (k + 1) + 1 ELSE 0
        /\ \A x \in 1 .. Len(r) - (k + 1) + 1 : b[x] = r[(k + 1) + x - 1]
    BY <2>1, <2>2, SubSeqProperties
  <2>4. /\ Tail(c) \in Seq(S) /\ Len(Tail(c)) = m
        /\ \A x \in 1 .. Len(Tail(c)) : Tail(c)[x] = c[x + 1]
    BY HeadTailProperties
  <2>5. Len(r) - (k + 1) + 1 = m
    BY <2>2, <1>1, <1>2
  <2>. HIDE DEF b
  <2>6. Len(b) = m
    BY <2>2, <2>3, <2>5, <1>1, <1>2
  <2>7. ASSUME NEW x \in 1 .. m PROVE b[x] = Tail(c)[x]
    <3>1. /\ (k + 1) + x - 1 = n + 1 + x
          /\ n + 1 + x \in 1 .. n + Len(c) /\ ~(n + 1 + x <= n)
          /\ (n + 1 + x) - n = x + 1
      BY <2>2, <1>1
    <3>2. b[x] = r[n + 1 + x]
      BY <3>1, <2>3, <2>5
    <3>3. r[n + 1 + x] = c[x + 1]
      BY <3>1, <1>2
    <3>. QED
      BY <3>2, <3>3, <2>4
  <2>. QED
    BY <2>3, <2>4, <2>6, <2>7, SeqEqual DEF b
<1>11. t \notin Range(p)
  <2>1. \A x \in 1 .. n : p[x] # t
    <3>1. \A x \in 1 .. n : x \in 1 .. n + Len(c) /\ x <= n /\ x # n + 1
      BY <1>1
    <3>. QED
      BY <3>1, <1>2, <1>4, <1>5
  <2>. QED
    BY <2>1, RangeIsImage
<1>. QED
  BY <1>8, <1>9, <1>10, <1>11 DEF r

(* The first k elements and the rest of a sequence. *)
LEMMA PrefixProperties ==
  ASSUME NEW S, NEW q \in Seq(S), NEW k \in 0 .. Len(q)
  PROVE  /\ SubSeq(q, 1, k) \o SubSeq(q, k + 1, Len(q)) = q
         /\ Len(SubSeq(q, 1, k)) = k
         /\ k < Len(q) => SubSeq(q, 1, k + 1) = Append(SubSeq(q, 1, k), q[k + 1])
         /\ NoRepeats(q) /\ k < Len(q) => q[k + 1] \notin Range(SubSeq(q, 1, k))
<1>. DEFINE a == SubSeq(q, 1, k)
<1>1. Len(q) \in Nat /\ k \in Nat /\ k <= Len(q) /\ DOMAIN q = 1 .. Len(q)
  BY LenProperties
<1>2. /\ a \in Seq(S) /\ Len(a) = k
      /\ \A x \in 1 .. k : a[x] = q[x] /\ x \in 1 .. Len(q)
  <2>1. \A x \in 1 .. k : q[x] \in S /\ x \in 1 .. Len(q)
    BY <1>1, LenProperties
  <2>2. /\ a \in Seq(S) /\ Len(a) = IF 1 <= k THEN k - 1 + 1 ELSE 0
        /\ \A x \in 1 .. k - 1 + 1 : a[x] = q[1 + x - 1]
    BY <2>1, <1>1, SubSeqProperties
  <2>. HIDE DEF a
  <2>3. Len(a) = k /\ k - 1 + 1 = k /\ \A x \in 1 .. k : 1 + x - 1 = x
    BY <2>2, <1>1
  <2>. QED
    BY <2>1, <2>2, <2>3
<1>3. a \o SubSeq(q, k + 1, Len(q)) = q
  <2>1. /\ 1 \in 1 .. Len(q) + 1 /\ k \in 1 - 1 .. Len(q) /\ Len(q) \in k .. Len(q)
    BY <1>1
  <2>2. a \o SubSeq(q, k + 1, Len(q)) = SubSeq(q, 1, Len(q))
    BY <2>1, ConcatAdjacentSubSeq
  <2>. QED
    BY <2>2, SubSeqFull
<1>4. ASSUME k < Len(q) PROVE SubSeq(q, 1, k + 1) = Append(a, q[k + 1])
  <2>1. /\ 1 \in 1 .. Len(q) /\ k + 1 \in 1 .. Len(q) /\ (k + 1) - 1 = k
    BY <1>1, <1>4
  <2>2. SubSeq(q, 1, k + 1) = SubSeq(q, 1, (k + 1) - 1) \o <<q[k + 1]>>
    BY <2>1, SubSeqRecursiveSecond
  <2>3. q[k + 1] \in S
    BY <2>1, ElementOfSeq
  <2>4. Append(a, q[k + 1]) = a \o <<q[k + 1]>>
    BY <2>3, <1>2, AppendIsConcat
  <2>. QED
    BY <2>1, <2>2, <2>4
<1>5. ASSUME NoRepeats(q), k < Len(q) PROVE q[k + 1] \notin Range(a)
  <2>1. k + 1 \in 1 .. Len(q) /\ \A x \in 1 .. k : x # k + 1
    BY <1>1, <1>5
  <2>2. \A x \in 1 .. k : a[x] # q[k + 1]
    BY <2>1, <1>1, <1>2, <1>5 DEF NoRepeats
  <2>. HIDE DEF a
  <2>. QED
    BY <2>2, <1>2, RangeIsImage
<1>. QED
  BY <1>2, <1>3, <1>4, <1>5

--------------------------------------------------------------------------------
(* The invariant *)

(* Bubble sort: the last i elements of the array are the smallest ones, in *)
(* order, and the element at j + 1 is the smallest of the first j + 1.     *)
Bubbled ==
  /\ \A a, b \in 1 .. Len(elems) :
       a < b /\ b > Len(elems) - i
         => effective_priority[elems[a]] >= effective_priority[elems[b]]
  /\ \A a \in 1 .. j : effective_priority[elems[a]] >= effective_priority[elems[j + 1]]
  /\ j = 0 \/ j + i < Len(elems)

(* What the locals of the loops hold, loop by loop: the array and the ring *)
(* together are the queue.                                                 *)
Locals ==
  /\ pc = "idle" => /\ elems = <<>> /\ left = 0 /\ leave_out = NoTask /\ i = 0 /\ j = 0
                    /\ effective_priority = Unread
  /\ pc = "drain" => /\ left = size /\ i = 0 /\ j = 0
                     /\ NoRepeats(elems \o Contents)
  /\ pc = "sort" => /\ left = 0 /\ size = 0 /\ leave_out = NoTask
                    /\ NoRepeats(elems) /\ Bubbled
  /\ pc = "refill" => /\ left = 0 /\ size = i /\ i <= Len(elems) /\ NoRepeats(elems)
                      /\ Contents = SubSeq(elems, 1, i)
  /\ leave_out \notin Range(elems)
  /\ pc # "idle" /\ leave_out = NoTask => effective_priority \in [Idx -> Priorities]

Inv == TypeOK /\ RingIsAnArc /\ Locals

RingTyped ==
  /\ task_indices \in Slots
  /\ size \in 0 .. MAX_TASKS /\ head \in Idx /\ tail \in Idx

(* What the operations of the ring see of it. *)
LEMMA RingValues ==
  ASSUME RingTyped, RingIsAnArc
  PROVE  /\ Contents = Arc(task_indices, head, size)
         /\ IsArc(task_indices, head, tail, size)
         /\ Contents \in Seq(Idx) /\ Len(Contents) = size
         /\ NoRepeats(Contents)
         /\ Full <=> Len(Contents) >= MAX_TASKS
         /\ \A t \in Idx : Contains(t) <=> t \in Range(Contents)
         /\ Full => size = MAX_TASKS
         /\ ~Full => size \in 0 .. MAX_TASKS - 1
         /\ size = 0 <=> Contents = <<>>
<1>0. /\ task_indices \in Slots /\ size \in 0 .. MAX_TASKS /\ head \in Idx /\ tail \in Idx
      /\ MAX_TASKS \in Nat \ {0} /\ size \in Nat
  BY MaxTasksAssumption DEF RingTyped
<1>1. Contents = Arc(task_indices, head, size)
  BY DEF Contents, Arc
<1>2. IsArc(task_indices, head, tail, size)
  BY <1>1 DEF RingIsAnArc, IsArc
<1>3. /\ Contents \in Seq(Idx) /\ Len(Contents) = size
      /\ DOMAIN Contents = 1 .. size
      /\ \A k \in 1 .. size : Contents[k] = task_indices[Slot(head, k - 1)]
  BY <1>0, <1>1, <1>2, ArcBySlots
<1>4. NoRepeats(Contents)
  BY DEF RingIsAnArc
<1>5. Full <=> Len(Contents) >= MAX_TASKS
  BY <1>3 DEF Full
<1>6. /\ Full => size = MAX_TASKS
      /\ ~Full => size \in 0 .. MAX_TASKS - 1
  BY <1>0 DEF Full
<1>7. ASSUME NEW t \in Idx PROVE Contains(t) <=> t \in Range(Contents)
  <2>1. \A k \in 0 .. size - 1 : (head + k) % MAX_TASKS = Slot(head, k)
    <3>1. \A k \in 0 .. size - 1 : k \in 0 .. MAX_TASKS
      BY <1>0
    <3>. QED
      BY <3>1, <1>0, SlotProperties
  <2>2. Contains(t) <=> \E k \in 0 .. size - 1 : task_indices[Slot(head, k)] = t
    BY <2>1 DEF Contains
  <2>3. /\ \A k \in 0 .. size - 1 : k + 1 \in 1 .. size /\ (k + 1) - 1 = k
        /\ \A k \in 1 .. size : k - 1 \in 0 .. size - 1
    BY <1>0
  <2>4. t \in Range(Contents) <=> \E k \in 1 .. size : task_indices[Slot(head, k - 1)] = t
    BY <1>3 DEF Range
  <2>. QED
    BY <2>2, <2>3, <2>4
<1>8. size = 0 <=> Contents = <<>>
  BY <1>3, EmptySeq
<1>. QED
  BY <1>1, <1>2, <1>3, <1>4, <1>5, <1>6, <1>7, <1>8

(* The same of the next state, for a ring that is an arc again. *)
LEMMA NextRing ==
  ASSUME NEW r, NEW h, NEW t, NEW n,
         task_indices' = r, head' = h, tail' = t, size' = n,
         IsArc(r, h, t, n)
  PROVE  RingIsAnArc' /\ Contents' = Arc(r, h, n)
<1>1. Contents' = Arc(r, h, n)
  BY DEF Contents, Arc
<1>. QED
  BY <1>1 DEF RingIsAnArc, IsArc

(* queue_push_tail, as pushes and the last loops of the other operations use *)
(* it.                                                                     *)
LEMMA PutProperties ==
  ASSUME RingTyped, RingIsAnArc, NEW t \in Idx, PutAtTail(t)
  PROVE  /\ RingTyped' /\ RingIsAnArc'
         /\ Contents' = IF Full \/ t \in Range(Contents) THEN Contents ELSE Append(Contents, t)
         /\ size' = IF Full \/ t \in Range(Contents) THEN size ELSE size + 1
<1>1. /\ Contents = Arc(task_indices, head, size)
      /\ IsArc(task_indices, head, tail, size)
      /\ Contains(t) <=> t \in Range(Contents)
      /\ ~Full => size \in 0 .. MAX_TASKS - 1
  BY RingValues
<1>2. /\ task_indices \in Slots /\ head \in Idx /\ tail \in Idx /\ size \in 0 .. MAX_TASKS
      /\ MAX_TASKS \in Nat \ {0}
  BY MaxTasksAssumption DEF RingTyped
<1>3. CASE Full \/ t \in Range(Contents)
  <2>1. UNCHANGED ring
    BY <1>1, <1>3 DEF PutAtTail
  <2>. QED
    BY <2>1, <1>3 DEF ring, RingTyped, RingIsAnArc, Contents
<1>4. CASE ~(Full \/ t \in Range(Contents))
  <2>. DEFINE r == [task_indices EXCEPT ![tail] = t]
  <2>1. task_indices' = r /\ tail' = After(tail) /\ size' = size + 1 /\ head' = head
    BY <1>1, <1>4 DEF PutAtTail
  <2>0. /\ size \in 0 .. MAX_TASKS - 1 /\ t \notin Range(Arc(task_indices, head, size))
        /\ IsArc(task_indices, head, tail, size)
    BY <1>1, <1>4
  <2>2. /\ r \in Slots /\ After(tail) \in Idx
        /\ IsArc(r, head, After(tail), size + 1)
        /\ Arc(r, head, size + 1) = Append(Arc(task_indices, head, size), t)
    <3>1. task_indices \in Slots /\ head \in Idx /\ tail \in Idx
      BY <1>2
    <3>2. After(tail) \in Idx
      <4>1. After(tail) = Slot(tail, 1) /\ 1 \in 0 .. MAX_TASKS
        BY <3>1, <1>2, SlotProperties
      <4>. QED
        BY <3>1, <4>1, SlotProperties
    <3>3. r \in Slots /\ IsArc(r, head, After(tail), size + 1)
      BY <2>0, <3>1, ArcPut
    <3>4. Arc(r, head, size + 1) = Append(Arc(task_indices, head, size), t)
      BY <2>0, <3>1, ArcPut
    <3>. QED
      BY <3>2, <3>3, <3>4
  <2>. HIDE DEF r
  <2>3. RingIsAnArc' /\ Contents' = Append(Contents, t)
    BY <2>1, <2>2, <1>1, NextRing
  <2>4. size + 1 \in 0 .. MAX_TASKS
    BY <1>1, <1>2, <1>4
  <2>5. RingTyped'
    BY <2>1, <2>2, <2>4, <1>2 DEF RingTyped, Slots, Idx
  <2>. QED
    BY <2>1, <2>3, <2>5, <1>4
<1>. QED
  BY <1>3, <1>4

(* The part of queue_pop_head that changes the ring.                       *)
LEMMA TakeProperties ==
  ASSUME RingTyped, RingIsAnArc, size > 0, TakeFromHead
  PROVE  /\ RingTyped' /\ RingIsAnArc'
         /\ Contents # <<>>
         /\ Head(Contents) = task_indices[head] /\ task_indices[head] \in Idx
         /\ Contents' = Tail(Contents)
         /\ size' = size - 1
<1>1. /\ Contents = Arc(task_indices, head, size)
      /\ IsArc(task_indices, head, tail, size)
  BY RingValues
<1>2. /\ task_indices \in Slots /\ head \in Idx /\ tail \in Idx /\ size \in 0 .. MAX_TASKS
      /\ size \in 1 .. MAX_TASKS /\ MAX_TASKS \in Nat \ {0}
  BY MaxTasksAssumption DEF RingTyped
<1>. DEFINE r == [task_indices EXCEPT ![head] = Empty]
<1>3. task_indices' = r /\ head' = After(head) /\ size' = size - 1 /\ tail' = tail
  BY DEF TakeFromHead
<1>4. /\ r \in Slots /\ After(head) \in Idx
      /\ IsArc(r, After(head), tail, size - 1)
      /\ Arc(r, After(head), size - 1) = Tail(Contents)
      /\ Contents # <<>> /\ Head(Contents) = task_indices[head] /\ task_indices[head] \in Idx
  BY <1>1, <1>2, ArcTake
<1>. HIDE DEF r
<1>5. RingIsAnArc' /\ Contents' = Tail(Contents)
  BY <1>3, <1>4, NextRing
<1>6. RingTyped'
  <2>1. size - 1 \in 0 .. MAX_TASKS
    BY <1>2
  <2>. QED
    BY <2>1, <1>2, <1>3, <1>4 DEF RingTyped, Slots, Idx
<1>. QED
  BY <1>3, <1>4, <1>5, <1>6

(* queue_push_head.                                                        *)
LEMMA PushHeadProperties ==
  ASSUME RingTyped, RingIsAnArc, NEW t \in Idx, PushHeadStep(t)
  PROVE  /\ RingTyped' /\ RingIsAnArc'
         /\ Contents' = IF Full \/ t \in Range(Contents) THEN Contents ELSE <<t>> \o Contents
<1>1. /\ Contents = Arc(task_indices, head, size)
      /\ IsArc(task_indices, head, tail, size)
      /\ Contains(t) <=> t \in Range(Contents)
      /\ ~Full => size \in 0 .. MAX_TASKS - 1
  BY RingValues
<1>2. /\ task_indices \in Slots /\ head \in Idx /\ tail \in Idx /\ size \in 0 .. MAX_TASKS
      /\ MAX_TASKS \in Nat \ {0}
  BY MaxTasksAssumption DEF RingTyped
<1>3. CASE Full \/ t \in Range(Contents)
  <2>1. UNCHANGED ring
    BY <1>1, <1>3 DEF PushHeadStep
  <2>. QED
    BY <2>1, <1>3 DEF ring, RingTyped, RingIsAnArc, Contents
<1>4. CASE ~(Full \/ t \in Range(Contents))
  <2>. DEFINE r == [task_indices EXCEPT ![Before(head)] = t]
  <2>1. task_indices' = r /\ head' = Before(head) /\ size' = size + 1 /\ tail' = tail
    BY <1>1, <1>4 DEF PushHeadStep
  <2>0. /\ size \in 0 .. MAX_TASKS - 1 /\ t \notin Range(Arc(task_indices, head, size))
        /\ IsArc(task_indices, head, tail, size)
    BY <1>1, <1>4
  <2>2. /\ r \in Slots /\ Before(head) \in Idx
        /\ IsArc(r, Before(head), tail, size + 1)
        /\ Arc(r, Before(head), size + 1) = <<t>> \o Arc(task_indices, head, size)
    <3>1. task_indices \in Slots /\ head \in Idx /\ tail \in Idx
      BY <1>2
    <3>2. Before(head) \in Idx
      BY <3>1, SlotProperties
    <3>3. r \in Slots /\ IsArc(r, Before(head), tail, size + 1)
      BY <2>0, <3>1, ArcPush
    <3>4. Arc(r, Before(head), size + 1) = <<t>> \o Arc(task_indices, head, size)
      BY <2>0, <3>1, ArcPush
    <3>. QED
      BY <3>2, <3>3, <3>4
  <2>. HIDE DEF r
  <2>3. RingIsAnArc' /\ Contents' = <<t>> \o Contents
    BY <2>1, <2>2, <1>1, NextRing
  <2>4. size + 1 \in 0 .. MAX_TASKS
    BY <1>1, <1>2, <1>4
  <2>5. RingTyped'
    BY <2>1, <2>2, <2>4, <1>2 DEF RingTyped, Slots, Idx
  <2>. QED
    BY <2>3, <2>5, <1>4
<1>. QED
  BY <1>3, <1>4

(* A step that leaves the ring alone.                                      *)
LEMMA RingUnchanged ==
  ASSUME RingTyped, RingIsAnArc, UNCHANGED ring
  PROVE  RingTyped' /\ RingIsAnArc' /\ Contents' = Contents /\ size' = size
BY DEF ring, RingTyped, RingIsAnArc, Contents

(* The types of the locals. *)
LoopTyped ==
  /\ pc \in {"idle", "drain", "sort", "refill"}
  /\ elems \in Seq(Idx) /\ left \in Nat /\ leave_out \in Idx \cup {NoTask}
  /\ effective_priority \in [Idx -> Priorities] \cup {Unread}
  /\ i \in Nat /\ j \in Nat

(* TypeOK is about the ring, the loops and the result.                     *)
LEMMA TypeParts ==
  TypeOK <=> RingTyped /\ LoopTyped /\ returned \in Idx \cup {Empty}
BY DEF TypeOK, RingTyped, LoopTyped, Slots

(* The parts of the invariant.                                             *)
LEMMA InvParts ==
  ASSUME Inv
  PROVE  /\ RingTyped /\ RingIsAnArc /\ LoopTyped /\ returned \in Idx \cup {Empty}
         /\ Locals
BY TypeParts DEF Inv

(* The parts make the next state's invariant.                              *)
LEMMA InvFromParts ==
  ASSUME RingTyped', RingIsAnArc', LoopTyped', (returned \in Idx \cup {Empty})', Locals'
  PROVE  Inv'
<1>1. TypeOK'
  <2>1. (TypeOK <=> RingTyped /\ LoopTyped /\ returned \in Idx \cup {Empty})'
    BY TypeParts, PTL
  <2>. QED
    BY <2>1
<1>. QED
  BY <1>1 DEF Inv

(* The priorities that are sorted by are numbers.                          *)
LEMMA EffectivePriorities ==
  ASSUME NEW prio \in [Idx -> Priorities]
  PROVE  \A t \in Idx : prio[t] \in Int
BY PrioritiesAssumption

(* The two marks are no task.                                              *)
LEMMA NoTaskIsNone == NoTask \notin Idx /\ Empty \notin Idx
BY MaxTasksAssumption DEF NoTask, Empty, Idx

(* While the array is pushed back, it holds the whole queue. *)
LEMMA RefillValue ==
  Inv /\ pc = "refill" => Represented = elems
<1>. SUFFICES ASSUME Inv, pc = "refill" PROVE Represented = elems
  OBVIOUS
<1>1. i \in Nat /\ i <= Len(elems) /\ Contents = SubSeq(elems, 1, i) /\ elems \in Seq(Idx)
  BY InvParts DEF Locals, LoopTyped
<1>2. i \in 0 .. Len(elems)
  BY <1>1, LenProperties
<1>3. SubSeq(elems, 1, i) \o SubSeq(elems, i + 1, Len(elems)) = elems
  BY <1>1, <1>2, PrefixProperties
<1>4. Represented = Contents \o SubSeq(elems, i + 1, Len(elems))
  BY DEF Represented
<1>. QED
  BY <1>1, <1>3, <1>4

(* queue_init.                                                             *)
LEMMA InitInv == Init => Inv
<1>. SUFFICES ASSUME Init PROVE Inv
  OBVIOUS
<1>1. MAX_TASKS \in Nat \ {0}
  BY MaxTasksAssumption
<1>2. 0 \in Idx /\ 0 \in 0 .. MAX_TASKS
  BY <1>1 DEF Idx
<1>3. RingTyped
  BY <1>2 DEF Init, RingTyped, Slots
<1>4. LoopTyped
  BY EmptySeq DEF Init, LoopTyped
<1>5. RingIsAnArc
  <2>1. Contents = <<>> /\ DOMAIN Contents = {}
    BY DEF Init, Contents
  <2>2. 0 % MAX_TASKS = 0 /\ 0 + 0 = 0
    BY <1>1
  <2>3. \A s \in Idx : task_indices[s] = Empty
    BY DEF Init
  <2>. QED
    BY <2>1, <2>2, <2>3 DEF Init, RingIsAnArc, NoRepeats
<1>6. Locals
  <2>1. Range(<<>>) = {}
    BY DEF Range
  <2>. QED
    BY <2>1 DEF Init, Locals
<1>7. TypeOK
  BY <1>2, <1>3, <1>4, TypeParts DEF Init
<1>. QED
  BY <1>5, <1>6, <1>7 DEF Inv

(* Nothing changes.                                                        *)
LEMMA StutterInv == Inv /\ UNCHANGED vars => Inv' /\ Represented' = Represented
<1>. SUFFICES ASSUME Inv, UNCHANGED vars PROVE Inv' /\ Represented' = Represented
  OBVIOUS
<1>1. UNCHANGED ring /\ UNCHANGED <<returned, pc, elems, left, leave_out, effective_priority, i, j>>
  BY DEF vars, loop
<1>2. RingTyped' /\ RingIsAnArc' /\ Contents' = Contents /\ size' = size
  BY <1>1, InvParts, RingUnchanged
<1>3. LoopTyped' /\ (returned \in Idx \cup {Empty})'
  BY <1>1, InvParts DEF LoopTyped
<1>4. Locals'
  BY <1>1, <1>2, InvParts DEF Locals, Bubbled
<1>5. Represented' = Represented
  BY <1>1, <1>2 DEF Represented
<1>. QED
  BY <1>2, <1>3, <1>4, <1>5, InvFromParts

--------------------------------------------------------------------------------
(* Operations of one step *)

(* An operation without a loop.                                            *)
LEMMA IdleStep ==
  ASSUME Inv, pc = "idle", UNCHANGED <<pc, loop>>,
         RingTyped', RingIsAnArc', returned' \in Idx \cup {Empty}
  PROVE  Inv' /\ Represented = Contents /\ Represented' = Contents'
<1>1. pc' = pc /\ UNCHANGED <<elems, left, leave_out, effective_priority, i, j>>
  BY DEF loop
<1>2. LoopTyped'
  BY <1>1, InvParts DEF LoopTyped
<1>3. Locals'
  BY <1>1, InvParts DEF Locals
<1>4. Represented = Contents /\ Represented' = Contents'
  BY <1>1 DEF Represented
<1>. QED
  BY <1>2, <1>3, <1>4, InvFromParts

(* queue_push_tail.                                                        *)
LEMMA PushTailStepInv ==
  ASSUME Inv, NEW t \in Idx, PushTailStep(t)
  PROVE  /\ Inv'
         /\ Represented' = IF Len(Represented) >= MAX_TASKS \/ t \in Range(Represented)
                           THEN Represented ELSE Append(Represented, t)
         /\ returned' = IF Len(Represented) >= MAX_TASKS THEN Empty ELSE 0
<1>1. RingTyped /\ RingIsAnArc
  BY InvParts
<1>2. pc = "idle" /\ PutAtTail(t) /\ UNCHANGED <<pc, loop>> /\ returned' = IF Full THEN Empty ELSE 0
  BY DEF PushTailStep
<1>3. /\ RingTyped' /\ RingIsAnArc'
      /\ Contents' = IF Full \/ t \in Range(Contents) THEN Contents ELSE Append(Contents, t)
  BY <1>1, <1>2, PutProperties
<1>4. returned' \in Idx \cup {Empty}
  BY <1>2, MaxTasksAssumption DEF Idx
<1>5. Inv' /\ Represented = Contents /\ Represented' = Contents'
  BY <1>2, <1>3, <1>4, IdleStep
<1>6. Full <=> Len(Contents) >= MAX_TASKS
  BY <1>1, RingValues
<1>. QED
  BY <1>2, <1>3, <1>5, <1>6

(* queue_push_head.                                                        *)
LEMMA PushHeadStepInv ==
  ASSUME Inv, NEW t \in Idx, PushHeadStep(t)
  PROVE  /\ Inv'
         /\ Represented' = IF Len(Represented) >= MAX_TASKS \/ t \in Range(Represented)
                           THEN Represented ELSE <<t>> \o Represented
         /\ returned' = IF Len(Represented) >= MAX_TASKS THEN Empty ELSE 0
<1>1. RingTyped /\ RingIsAnArc
  BY InvParts
<1>2. pc = "idle" /\ UNCHANGED <<pc, loop>> /\ returned' = IF Full THEN Empty ELSE 0
  BY DEF PushHeadStep
<1>3. /\ RingTyped' /\ RingIsAnArc'
      /\ Contents' = IF Full \/ t \in Range(Contents) THEN Contents ELSE <<t>> \o Contents
  BY <1>1, PushHeadProperties
<1>4. returned' \in Idx \cup {Empty}
  BY <1>2, MaxTasksAssumption DEF Idx
<1>5. Inv' /\ Represented = Contents /\ Represented' = Contents'
  BY <1>2, <1>3, <1>4, IdleStep
<1>6. Full <=> Len(Contents) >= MAX_TASKS
  BY <1>1, RingValues
<1>. QED
  BY <1>2, <1>3, <1>5, <1>6

(* queue_pop_head.                                                         *)
LEMMA PopHeadStepInv ==
  ASSUME Inv, PopHeadStep
  PROVE  /\ Inv'
         /\ Represented' = IF Represented = <<>> THEN Represented ELSE Tail(Represented)
         /\ returned' = IF Represented = <<>> THEN Empty ELSE Head(Represented)
<1>1. RingTyped /\ RingIsAnArc
  BY InvParts
<1>2. size = 0 <=> Contents = <<>>
  BY <1>1, RingValues
<1>3. pc = "idle" /\ UNCHANGED <<pc, loop>>
  BY DEF PopHeadStep
<1>4. CASE size = 0
  <2>1. UNCHANGED ring /\ returned' = Empty
    BY <1>4 DEF PopHeadStep
  <2>2. RingTyped' /\ RingIsAnArc' /\ Contents' = Contents
    BY <2>1, <1>1, RingUnchanged
  <2>3. Inv' /\ Represented = Contents /\ Represented' = Contents'
    BY <2>1, <2>2, <1>3, IdleStep
  <2>. QED
    BY <2>1, <2>2, <2>3, <1>2, <1>4
<1>5. CASE size # 0
  <2>1. TakeFromHead /\ returned' = task_indices[head]
    BY <1>5 DEF PopHeadStep
  <2>2. size > 0
    BY <1>1, <1>5 DEF RingTyped
  <2>3. /\ RingTyped' /\ RingIsAnArc' /\ Contents # <<>>
        /\ Head(Contents) = task_indices[head] /\ task_indices[head] \in Idx
        /\ Contents' = Tail(Contents)
    BY <2>1, <2>2, <1>1, TakeProperties
  <2>4. returned' \in Idx \cup {Empty}
    BY <2>1, <2>3
  <2>5. Inv' /\ Represented = Contents /\ Represented' = Contents'
    BY <2>3, <2>4, <1>3, IdleStep
  <2>. QED
    BY <2>1, <2>3, <2>5
<1>. QED
  BY <1>4, <1>5

--------------------------------------------------------------------------------
(* Emptying the ring into the array *)

(* The first step of queue_remove and queue_reorder_priority.              *)
LEMMA StartDrainingInv ==
  ASSUME Inv, NEW t \in Idx \cup {NoTask}, StartDraining(t),
         t = NoTask => effective_priority' \in [Idx -> Priorities],
         t # NoTask => UNCHANGED effective_priority
  PROVE  /\ Inv' /\ returned' = returned
         /\ Represented = Contents
         /\ Represented' = IF t = NoTask THEN Reorder(Contents, effective_priority')
                                         ELSE Contents
<1>1. /\ RingTyped /\ RingIsAnArc /\ LoopTyped /\ Locals
      /\ returned \in Idx \cup {Empty}
  BY InvParts
<1>2. /\ pc = "idle" /\ pc' = "drain" /\ left' = size /\ elems' = <<>> /\ leave_out' = t
      /\ UNCHANGED ring /\ returned' = returned /\ i' = i /\ j' = j
  BY DEF StartDraining
<1>3. RingTyped' /\ RingIsAnArc' /\ Contents' = Contents /\ size' = size
  BY <1>1, <1>2, RingUnchanged
<1>4. Contents \in Seq(Idx) /\ NoRepeats(Contents) /\ size \in Nat
  BY <1>1, RingValues DEF RingTyped
<1>5. <<>> \o Contents = Contents /\ <<>> \in Seq(Idx)
  BY <1>4, ConcatEmptySeq, EmptySeq
<1>6. LoopTyped'
  <2>1. effective_priority' \in [Idx -> Priorities] \cup {Unread}
    BY <1>1 DEF LoopTyped
  <2>. QED
    BY <2>1, <1>1, <1>2, <1>4, <1>5 DEF LoopTyped
<1>7. Locals'
  <2>1. t \notin Range(<<>>)
    BY DEF Range
  <2>2. i = 0 /\ j = 0
    BY <1>1, <1>2 DEF Locals
  <2>3. NoRepeats(elems' \o Contents')
    BY <1>2, <1>3, <1>4, <1>5
  <2>. QED
    BY <2>1, <2>2, <2>3, <1>2, <1>3 DEF Locals
<1>8. Inv'
  BY <1>1, <1>2, <1>3, <1>6, <1>7, InvFromParts
<1>9. Represented = Contents
  BY <1>2 DEF Represented
<1>10. Represented' = IF t = NoTask THEN Reorder(Contents, effective_priority') ELSE Contents
  <2>1. elems' \o Contents' = Contents
    BY <1>2, <1>3, <1>5
  <2>. QED
    BY <2>1, <1>2 DEF Represented
<1>. QED
  BY <1>2, <1>8, <1>9, <1>10

(* One element goes from the ring to the array, unless it is the one that  *)
(* queue_remove leaves out: this is where the queue loses it.              *)
LEMMA DrainInv ==
  ASSUME Inv, Drain
  PROVE  /\ Inv' /\ returned' = returned /\ pc = "drain"
         /\ leave_out' = leave_out
         /\ IF LeavesOut
            THEN leave_out \in Idx /\ Represented' = RemoveTask(Represented, leave_out)
            ELSE Represented' = Represented
<1>. DEFINE t == task_indices[head]
            r == elems \o Contents
<1>1. /\ RingTyped /\ RingIsAnArc /\ LoopTyped /\ Locals
      /\ returned \in Idx \cup {Empty}
  BY InvParts
<1>2. /\ pc = "drain" /\ pc' = pc /\ left > 0 /\ left' = left - 1
      /\ elems' = Collected(t) /\ TakeFromHead
      /\ returned' = returned /\ leave_out' = leave_out
      /\ effective_priority' = effective_priority /\ i' = i /\ j' = j
  BY DEF Drain
<1>3. /\ left = size /\ i = 0 /\ j = 0 /\ NoRepeats(r)
      /\ leave_out \notin Range(elems)
      /\ leave_out = NoTask => effective_priority \in [Idx -> Priorities]
  BY <1>1, <1>2 DEF Locals
<1>4. elems \in Seq(Idx) /\ Contents \in Seq(Idx)
  BY <1>1, RingValues DEF LoopTyped
<1>5. /\ RingTyped' /\ RingIsAnArc'
      /\ Contents # <<>> /\ Head(Contents) = t /\ t \in Idx
      /\ Contents' = Tail(Contents) /\ size' = size - 1
  BY <1>1, <1>2, <1>3, TakeProperties
<1>6. Append(elems, t) \o Tail(Contents) = r
  BY <1>4, <1>5, MoveHead
<1>7. RemoveTask(r, t) = elems \o Tail(Contents) /\ t \notin Range(elems)
  BY <1>3, <1>4, <1>5, DropHead
<1>8. leave_out = NoTask => t # leave_out
  BY <1>5, NoTaskIsNone
<1>9. left' \in Nat /\ left' = size'
  BY <1>1, <1>2, <1>3, <1>5 DEF LoopTyped
<1>. HIDE DEF t
<1>10. CASE t = leave_out
  <2>1. elems' = elems
    BY <1>2, <1>10 DEF Collected
  <2>2. elems' \o Contents' = RemoveTask(r, t)
    BY <2>1, <1>5, <1>7
  <2>3. NoRepeats(elems' \o Contents')
    <3>1. r \in Seq(Idx)
      BY <1>4, ConcatProperties
    <3>. HIDE DEF r
    <3>. QED
      BY <2>2, <3>1, <1>3, RemoveTaskProperties
  <2>4. LoopTyped'
    BY <2>1, <1>1, <1>2, <1>9 DEF LoopTyped
  <2>5. Locals'
    BY <2>1, <2>3, <1>2, <1>3, <1>9 DEF Locals
  <2>6. Inv'
    BY <2>4, <2>5, <1>1, <1>2, <1>5, InvFromParts
  <2>7. leave_out # NoTask /\ leave_out \in Idx
    BY <1>5, <1>8, <1>10
  <2>8. Represented = r /\ Represented' = elems' \o Contents'
    BY <2>7, <1>2 DEF Represented
  <2>9. LeavesOut
    BY <1>2, <1>10 DEF LeavesOut, t
  <2>. QED
    BY <2>2, <2>6, <2>7, <2>8, <2>9, <1>2, <1>10
<1>11. CASE t # leave_out
  <2>1. elems' = Append(elems, t)
    BY <1>2, <1>11 DEF Collected
  <2>2. elems' \o Contents' = r
    BY <2>1, <1>5, <1>6
  <2>3. /\ Append(elems, t) \in Seq(Idx)
        /\ leave_out \notin Range(Append(elems, t))
    <3>1. /\ Append(elems, t) \in Seq(Idx) /\ Len(Append(elems, t)) = Len(elems) + 1
          /\ \A k \in 1 .. Len(elems) : Append(elems, t)[k] = elems[k]
          /\ Append(elems, t)[Len(elems) + 1] = t
      BY <1>4, <1>5, AppendProperties
    <3>. DEFINE a == Append(elems, t)
    <3>. HIDE DEF a
    <3>2. Len(elems) \in Nat /\ Range(elems) = {elems[k] : k \in 1 .. Len(elems)}
      BY <1>4, LenProperties, RangeIsImage
    <3>3. Range(a) = {a[k] : k \in 1 .. Len(a)}
      BY <3>1, RangeIsImage DEF a
    <3>4. \A k \in 1 .. Len(elems) + 1 : k \in 1 .. Len(elems) \/ k = Len(elems) + 1
      BY <3>2
    <3>5. leave_out \notin Range(a)
      BY <3>1, <3>2, <3>3, <3>4, <1>3, <1>11 DEF a
    <3>. QED
      BY <3>1, <3>5 DEF a
  <2>4. LoopTyped'
    BY <2>1, <2>3, <1>1, <1>2, <1>9 DEF LoopTyped
  <2>5. Locals'
    <3>1. NoRepeats(elems' \o Contents') /\ leave_out' \notin Range(elems')
      BY <2>1, <2>2, <2>3, <1>2, <1>3
    <3>. QED
      BY <3>1, <1>2, <1>3, <1>9 DEF Locals
  <2>6. Inv'
    BY <2>4, <2>5, <1>1, <1>2, <1>5, InvFromParts
  <2>7. Represented' = Represented
    BY <2>2, <1>2 DEF Represented
  <2>8. ~LeavesOut
    BY <1>11 DEF LeavesOut, t
  <2>. QED
    BY <2>6, <2>7, <2>8, <1>2
<1>. QED
  BY <1>10, <1>11

(* The ring is empty, the array holds the queue.                           *)
LEMMA DrainedInv ==
  ASSUME Inv, Drained
  PROVE  Inv' /\ Represented' = Represented /\ returned' = returned /\ pc = "drain"
<1>1. /\ RingTyped /\ RingIsAnArc /\ LoopTyped /\ Locals
      /\ returned \in Idx \cup {Empty}
  BY InvParts
<1>2. /\ pc = "drain" /\ pc' = (IF leave_out = NoTask THEN "sort" ELSE "refill") /\ left = 0
      /\ UNCHANGED ring /\ returned' = returned
      /\ UNCHANGED <<elems, left, leave_out, effective_priority, i, j>>
  BY DEF Drained, loop
<1>3. /\ size = 0 /\ i = 0 /\ j = 0 /\ NoRepeats(elems \o Contents)
      /\ leave_out \notin Range(elems)
      /\ leave_out = NoTask => effective_priority \in [Idx -> Priorities]
  BY <1>1, <1>2 DEF Locals
<1>4. RingTyped' /\ RingIsAnArc' /\ Contents' = Contents /\ size' = size
  BY <1>1, <1>2, RingUnchanged
<1>5. elems \in Seq(Idx) /\ Contents = <<>> /\ elems \o Contents = elems /\ Len(elems) \in Nat
  <2>1. elems \in Seq(Idx) /\ Contents = <<>>
    BY <1>1, <1>3, RingValues DEF LoopTyped
  <2>. QED
    BY <2>1, ConcatEmptySeq, LenProperties
<1>6. NoRepeats(elems)
  BY <1>3, <1>5
<1>7. LoopTyped'
  BY <1>1, <1>2 DEF LoopTyped
<1>8. SubSeq(elems, 1, 0) = <<>>
  BY SubSeqEmpty
<1>9. Locals'
  <2>1. pc' = "sort" => Bubbled'
    BY <1>2, <1>3, <1>5 DEF Bubbled
  <2>. QED
    BY <2>1, <1>2, <1>3, <1>4, <1>5, <1>6, <1>8 DEF Locals
<1>10. Inv'
  BY <1>1, <1>2, <1>4, <1>7, <1>9, InvFromParts
<1>11. Represented' = Represented
  <2>1. CASE leave_out = NoTask
    BY <2>1, <1>2, <1>5 DEF Represented
  <2>2. CASE leave_out # NoTask
    <3>1. Represented = elems
      BY <2>2, <1>2, <1>5 DEF Represented
    <3>2. (Inv /\ pc = "refill" => Represented = elems)'
      BY RefillValue, PTL
    <3>. QED
      BY <3>1, <3>2, <2>2, <1>2, <1>10
  <2>. QED
    BY <2>1, <2>2
<1>. QED
  BY <1>2, <1>10, <1>11

--------------------------------------------------------------------------------
(* Sorting the array *)

(* One turn of the inner loop of bubble sort.                              *)
LEMMA CompareInv ==
  ASSUME Inv, Compare
  PROVE  Inv' /\ Represented' = Represented /\ returned' = returned /\ pc = "sort"
<1>. DEFINE n == Len(elems)
            p == j + 1
<1>1. /\ RingTyped /\ RingIsAnArc /\ LoopTyped /\ Locals
      /\ returned \in Idx \cup {Empty}
  BY InvParts
<1>2. /\ pc = "sort" /\ pc' = pc /\ i < n - 1 /\ j < n - 1 - i
      /\ j' = j + 1 /\ UNCHANGED ring /\ returned' = returned
      /\ UNCHANGED <<left, leave_out, effective_priority, i>>
      /\ elems' = IF OutOfOrder(elems[j + 1], elems[j + 2]) THEN Exchange(elems, j + 1) ELSE elems
  BY DEF Compare, Turns
<1>3. /\ left = 0 /\ size = 0 /\ leave_out = NoTask /\ NoRepeats(elems) /\ Bubbled
      /\ leave_out \notin Range(elems) /\ effective_priority \in [Idx -> Priorities]
  BY <1>1, <1>2 DEF Locals
<1>4. /\ elems \in Seq(Idx) /\ n \in Nat /\ i \in Nat /\ j \in Nat
      /\ \A t \in Idx : effective_priority[t] \in Int
      /\ \A a \in 1 .. n : elems[a] \in Idx
  BY <1>1, <1>3, EffectivePriorities, LenProperties DEF LoopTyped
<1>5. p \in 1 .. n - 1 /\ p \in 1 .. n /\ p + 1 \in 1 .. n /\ p + 1 = j + 2 /\ p + 1 <= n - i
  BY <1>2, <1>4
<1>6. RingTyped' /\ RingIsAnArc' /\ Contents' = Contents /\ size' = size
  BY <1>1, <1>2, RingUnchanged
<1>. DEFINE f(a) == effective_priority[elems[a]]
            g(a) == effective_priority[elems'[a]]
<1>7. \A a \in 1 .. n : f(a) \in Int
  BY <1>4
<1>8. /\ \A a, b \in 1 .. n : a < b /\ b > n - i => f(a) >= f(b)
      /\ \A a \in 1 .. j : f(a) >= f(p)
  BY <1>3 DEF Bubbled
<1>9. /\ elems' \in Seq(Idx) /\ Len(elems') = n
      /\ NoRepeats(elems') /\ Range(elems') = Range(elems)
      /\ Reorder(elems', effective_priority) = Reorder(elems, effective_priority)
      /\ \A a \in 1 .. n : a # p /\ a # p + 1 => g(a) = f(a)
      /\ \/ g(p) = f(p) /\ g(p + 1) = f(p + 1) /\ f(p) >= f(p + 1)
         \/ g(p) = f(p + 1) /\ g(p + 1) = f(p) /\ f(p) < f(p + 1)
  <2>1. CASE OutOfOrder(elems[p], elems[p + 1])
    <3>1. elems' = Exchange(elems, p) /\ f(p) < f(p + 1)
      BY <2>1, <1>2, <1>5 DEF OutOfOrder
    <3>2. /\ elems' \in Seq(Idx) /\ Len(elems') = n /\ Range(elems') = Range(elems)
          /\ NoRepeats(elems')
          /\ \A b \in 1 .. n : elems'[b] = CASE b = p -> elems[p + 1]
                                             [] b = p + 1 -> elems[p]
                                             [] OTHER -> elems[b]
      <4>. DEFINE x == Exchange(elems, p)
      <4>. HIDE DEF p
      <4>1. elems \in Seq(Idx) /\ p \in 1 .. Len(elems) - 1 /\ NoRepeats(elems)
        BY <1>3, <1>4, <1>5
      <4>2. /\ x \in Seq(Idx) /\ Len(x) = n /\ Range(x) = Range(elems)
            /\ NoRepeats(x)
        BY <4>1, ExchangeProperties
      <4>3. \A b \in 1 .. n : x[b] = CASE b = p -> elems[p + 1]
                                        [] b = p + 1 -> elems[p]
                                        [] OTHER -> elems[b]
        BY <4>1, ExchangeProperties
      <4>4. elems' = x
        BY <3>1
      <4>. HIDE DEF x
      <4>. QED
        BY <4>2, <4>3, <4>4
    <3>3. Reorder(Exchange(elems, p), effective_priority) = Reorder(elems, effective_priority)
      <4>. HIDE DEF p
      <4>. QED
        BY <3>1, <1>4, <1>5, ExchangeKeepsReorder
    <3>4. /\ elems'[p] = elems[p + 1] /\ elems'[p + 1] = elems[p]
          /\ \A b \in 1 .. n : b # p /\ b # p + 1 => elems'[b] = elems[b]
      <4>1. p + 1 # p
        BY <1>5
      <4>. HIDE DEF p
      <4>. QED
        BY <4>1, <3>2, <1>5
    <3>. QED
      BY <3>1, <3>2, <3>3, <3>4
  <2>2. CASE ~OutOfOrder(elems[p], elems[p + 1])
    <3>1. elems' = elems
      BY <2>2, <1>2, <1>5
    <3>2. f(p) >= f(p + 1)
      BY <2>2, <1>5, <1>7 DEF OutOfOrder
    <3>. QED
      BY <3>1, <3>2, <1>3, <1>4
  <2>. QED
    BY <2>1, <2>2
<1>10. Bubbled'
  <2>. HIDE DEF f, g
  <2>1. \A a \in 1 .. n : a # p /\ a # p + 1 => g(a) = f(a)
    BY <1>9
  <2>2. \/ g(p) = f(p) /\ g(p + 1) = f(p + 1) /\ f(p) >= f(p + 1)
        \/ g(p) = f(p + 1) /\ g(p + 1) = f(p) /\ f(p) < f(p + 1)
    BY <1>9
  <2>3. \A a, b \in 1 .. n : a < b /\ b > n - i => g(a) >= g(b)
    <3>. SUFFICES ASSUME NEW a \in 1 .. n, NEW b \in 1 .. n, a < b, b > n - i
                  PROVE  g(a) >= g(b)
      OBVIOUS
    <3>1. b # p /\ b # p + 1 /\ p < b /\ p + 1 < b
      BY <1>4, <1>5
    <3>2. g(b) = f(b)
      BY <3>1, <2>1
    <3>3. f(a) >= f(b) /\ f(p) >= f(b) /\ f(p + 1) >= f(b)
      BY <3>1, <1>5, <1>8
    <3>4. g(a) = f(a) \/ g(a) = f(p) \/ g(a) = f(p + 1)
      BY <2>1, <2>2
    <3>. QED
      BY <3>2, <3>3, <3>4
  <2>4. \A a \in 1 .. p : g(a) >= g(p + 1)
    <3>. SUFFICES ASSUME NEW a \in 1 .. p PROVE g(a) >= g(p + 1)
      OBVIOUS
    <3>1. CASE a = p
      BY <3>1, <2>2, <1>5, <1>7
    <3>2. CASE a # p
      <4>1. a \in 1 .. j /\ a \in 1 .. n /\ a # p + 1
        BY <3>2, <1>4, <1>5
      <4>2. g(a) = f(a) /\ f(a) >= f(p)
        BY <4>1, <3>2, <2>1, <1>8
      <4>3. f(a) \in Int /\ f(p) \in Int /\ f(p + 1) \in Int
        BY <4>1, <1>5, <1>7
      <4>. HIDE DEF p
      <4>. QED
        BY <4>2, <4>3, <2>2
    <3>. QED
      BY <3>1, <3>2
  <2>5. j + 1 + i < n
    BY <1>2, <1>4
  <2>6. Len(elems') = n /\ i' = i /\ j' = p /\ effective_priority' = effective_priority
    BY <1>2, <1>9
  <2>7. \A a, b \in 1 .. Len(elems') :
          a < b /\ b > Len(elems') - i'
            => effective_priority'[elems'[a]] >= effective_priority'[elems'[b]]
    BY <2>3, <2>6 DEF g
  <2>8. \A a \in 1 .. j' : effective_priority'[elems'[a]] >= effective_priority'[elems'[j' + 1]]
    BY <2>4, <2>6 DEF g
  <2>. QED
    BY <2>5, <2>6, <2>7, <2>8 DEF Bubbled
<1>11. LoopTyped'
  BY <1>1, <1>2, <1>4, <1>9 DEF LoopTyped
<1>12. Locals'
  BY <1>2, <1>3, <1>6, <1>9, <1>10 DEF Locals
<1>13. Inv'
  BY <1>1, <1>2, <1>6, <1>11, <1>12, InvFromParts
<1>14. Represented' = Represented
  BY <1>2, <1>9 DEF Represented
<1>. QED
  BY <1>2, <1>13, <1>14

(* One turn of its outer loop: one more element is in its place.           *)
LEMMA NextRoundInv ==
  ASSUME Inv, NextRound
  PROVE  Inv' /\ Represented' = Represented /\ returned' = returned /\ pc = "sort"
<1>. DEFINE n == Len(elems)
            f(a) == effective_priority[elems[a]]
<1>1. /\ RingTyped /\ RingIsAnArc /\ LoopTyped /\ Locals
      /\ returned \in Idx \cup {Empty}
  BY InvParts
<1>2. /\ pc = "sort" /\ pc' = pc /\ i < n - 1 /\ j >= n - 1 - i
      /\ i' = i + 1 /\ j' = 0 /\ UNCHANGED ring /\ returned' = returned
      /\ UNCHANGED <<elems, left, leave_out, effective_priority>>
  BY DEF NextRound, Turns
<1>3. /\ left = 0 /\ size = 0 /\ leave_out = NoTask /\ NoRepeats(elems) /\ Bubbled
      /\ leave_out \notin Range(elems) /\ effective_priority \in [Idx -> Priorities]
  BY <1>1, <1>2 DEF Locals
<1>4. elems \in Seq(Idx) /\ n \in Nat /\ i \in Nat /\ j \in Nat
  BY <1>1, LenProperties DEF LoopTyped
<1>5. RingTyped' /\ RingIsAnArc' /\ Contents' = Contents /\ size' = size
  BY <1>1, <1>2, RingUnchanged
<1>6. /\ \A a, b \in 1 .. n : a < b /\ b > n - i => f(a) >= f(b)
      /\ \A a \in 1 .. j : f(a) >= f(j + 1)
      /\ j = 0 \/ j + i < n
  BY <1>3 DEF Bubbled
<1>. HIDE DEF f
<1>7. j + 1 = n - i
  BY <1>2, <1>4, <1>6
<1>8. \A a, b \in 1 .. n : a < b /\ b > n - (i + 1) => f(a) >= f(b)
  <2>. SUFFICES ASSUME NEW a \in 1 .. n, NEW b \in 1 .. n, a < b, b > n - (i + 1)
                PROVE  f(a) >= f(b)
    OBVIOUS
  <2>1. CASE b > n - i
    BY <2>1, <1>6
  <2>2. CASE ~(b > n - i)
    <3>1. b = j + 1 /\ a \in 1 .. j
      BY <2>2, <1>4, <1>7
    <3>. QED
      BY <3>1, <1>6
  <2>. QED
    BY <2>1, <2>2
<1>9. Bubbled'
  <2>1. \A a, b \in 1 .. Len(elems') :
          a < b /\ b > Len(elems') - i'
            => effective_priority'[elems'[a]] >= effective_priority'[elems'[b]]
    BY <1>2, <1>8 DEF f
  <2>2. 1 .. j' = {}
    BY <1>2
  <2>. QED
    BY <2>1, <2>2, <1>2 DEF Bubbled
<1>10. LoopTyped'
  BY <1>1, <1>2, <1>4 DEF LoopTyped
<1>11. Locals'
  BY <1>2, <1>3, <1>5, <1>9 DEF Locals
<1>12. Inv'
  BY <1>1, <1>2, <1>5, <1>10, <1>11, InvFromParts
<1>13. Represented' = Represented
  BY <1>2 DEF Represented
<1>. QED
  BY <1>2, <1>12, <1>13

(* The array is sorted: it is the queue in its new order.                  *)
LEMMA SortedInv ==
  ASSUME Inv, Sorted
  PROVE  Inv' /\ Represented' = Represented /\ returned' = returned /\ pc = "sort"
<1>. DEFINE n == Len(elems)
<1>1. /\ RingTyped /\ RingIsAnArc /\ LoopTyped /\ Locals
      /\ returned \in Idx \cup {Empty}
  BY InvParts
<1>2. /\ pc = "sort" /\ pc' = "refill" /\ i >= n - 1 /\ i' = 0
      /\ UNCHANGED ring /\ returned' = returned
      /\ UNCHANGED <<elems, left, leave_out, effective_priority, j>>
  BY DEF Sorted, Turns
<1>3. /\ left = 0 /\ size = 0 /\ leave_out = NoTask /\ NoRepeats(elems) /\ Bubbled
      /\ leave_out \notin Range(elems) /\ effective_priority \in [Idx -> Priorities]
  BY <1>1, <1>2 DEF Locals
<1>4. /\ elems \in Seq(Idx) /\ n \in Nat /\ i \in Nat /\ j \in Nat
      /\ \A t \in Idx : effective_priority[t] \in Int
      /\ DOMAIN elems = 1 .. n
  BY <1>1, <1>3, EffectivePriorities, LenProperties DEF LoopTyped
<1>5. RingTyped' /\ RingIsAnArc' /\ Contents' = Contents /\ size' = size
  BY <1>1, <1>2, RingUnchanged
<1>6. SortedBy(elems, effective_priority)
  <2>. SUFFICES ASSUME NEW a \in 1 .. n, NEW b \in 1 .. n, a < b
                PROVE  effective_priority[elems[a]] >= effective_priority[elems[b]]
    BY <1>4 DEF SortedBy
  <2>1. b > n - i
    BY <1>2, <1>4
  <2>. QED
    BY <2>1, <1>3 DEF Bubbled
<1>7. Reorder(elems, effective_priority) = elems
  BY <1>4, <1>6, ReorderSorted
<1>8. LoopTyped'
  BY <1>1, <1>2 DEF LoopTyped
<1>9. Contents = <<>> /\ SubSeq(elems, 1, 0) = <<>>
  BY <1>1, <1>3, RingValues, SubSeqEmpty
<1>10. Locals'
  BY <1>2, <1>3, <1>4, <1>5, <1>9 DEF Locals
<1>11. Inv'
  BY <1>1, <1>2, <1>5, <1>8, <1>10, InvFromParts
<1>12. Represented' = Represented
  <2>1. Represented = elems
    BY <1>2, <1>7 DEF Represented
  <2>2. (Inv /\ pc = "refill" => Represented = elems)'
    BY RefillValue, PTL
  <2>. QED
    BY <2>1, <2>2, <1>2, <1>11
<1>. QED
  BY <1>2, <1>11, <1>12

--------------------------------------------------------------------------------
(* Pushing the array back *)

(* One element goes back to the ring: no element is refused.               *)
LEMMA RefillInv ==
  ASSUME Inv, Refill
  PROVE  Inv' /\ Represented' = Represented /\ returned' = returned /\ pc = "refill"
<1>. DEFINE n == Len(elems)
            t == elems[i + 1]
<1>1. /\ RingTyped /\ RingIsAnArc /\ LoopTyped /\ Locals
      /\ returned \in Idx \cup {Empty}
  BY InvParts
<1>2. /\ pc = "refill" /\ pc' = pc /\ i < n /\ i' = i + 1 /\ PutAtTail(t)
      /\ returned' = returned
      /\ UNCHANGED <<elems, left, leave_out, effective_priority, j>>
  BY DEF Refill
<1>3. /\ left = 0 /\ size = i /\ i <= n /\ NoRepeats(elems)
      /\ Contents = SubSeq(elems, 1, i)
      /\ leave_out \notin Range(elems)
      /\ leave_out = NoTask => effective_priority \in [Idx -> Priorities]
  BY <1>1, <1>2 DEF Locals
<1>4. /\ elems \in Seq(Idx) /\ n \in Nat /\ i \in Nat
      /\ i \in 0 .. n /\ i + 1 \in 1 .. n
  BY <1>1, <1>2, LenProperties DEF LoopTyped
<1>5. t \in Idx
  BY <1>4, ElementOfSeq
<1>6. n <= MAX_TASKS
  BY <1>3, <1>4, MaxTasksAssumption, LengthBound DEF Idx
<1>7. ~Full
  <2>1. i < MAX_TASKS
    BY <1>2, <1>4, <1>6, MaxTasksAssumption
  <2>. QED
    BY <2>1, <1>3, <1>4, MaxTasksAssumption DEF Full
<1>8. t \notin Range(Contents) /\ SubSeq(elems, 1, i + 1) = Append(Contents, t)
  BY <1>2, <1>3, <1>4, PrefixProperties
<1>. HIDE DEF t
<1>9. RingTyped' /\ RingIsAnArc' /\ Contents' = Append(Contents, t) /\ size' = size + 1
  BY <1>1, <1>2, <1>5, <1>7, <1>8, PutProperties
<1>10. LoopTyped'
  BY <1>1, <1>2, <1>4 DEF LoopTyped
<1>11. Locals'
  <2>1. i' <= Len(elems') /\ size' = i' /\ Contents' = SubSeq(elems', 1, i')
    BY <1>2, <1>3, <1>4, <1>8, <1>9
  <2>. QED
    BY <2>1, <1>2, <1>3 DEF Locals
<1>12. Inv'
  BY <1>1, <1>2, <1>9, <1>10, <1>11, InvFromParts
<1>13. Represented' = Represented
  <2>1. Represented = elems
    BY <1>2, RefillValue
  <2>2. (Inv /\ pc = "refill" => Represented = elems)'
    BY RefillValue, PTL
  <2>. QED
    BY <2>1, <2>2, <1>2, <1>12
<1>. QED
  BY <1>2, <1>12, <1>13

(* The ring holds the queue again.                                         *)
LEMMA RefilledInv ==
  ASSUME Inv, Refilled
  PROVE  Inv' /\ Represented' = Represented /\ returned' = returned /\ pc = "refill"
<1>1. /\ RingTyped /\ RingIsAnArc /\ LoopTyped /\ Locals
      /\ returned \in Idx \cup {Empty}
  BY InvParts
<1>2. /\ pc = "refill" /\ pc' = "idle" /\ i >= Len(elems) /\ elems' = <<>>
      /\ leave_out' = NoTask /\ effective_priority' = Unread /\ i' = 0 /\ j' = 0
      /\ UNCHANGED ring /\ returned' = returned /\ left' = left
  BY DEF Refilled
<1>3. left = 0 /\ i <= Len(elems) /\ Contents = SubSeq(elems, 1, i)
  BY <1>1, <1>2 DEF Locals
<1>4. elems \in Seq(Idx) /\ Len(elems) \in Nat /\ i \in Nat
  BY <1>1, LenProperties DEF LoopTyped
<1>5. RingTyped' /\ RingIsAnArc' /\ Contents' = Contents
  BY <1>1, <1>2, RingUnchanged
<1>6. Contents = elems
  <2>1. i = Len(elems)
    BY <1>2, <1>3, <1>4
  <2>. QED
    BY <2>1, <1>3, <1>4, SubSeqFull
<1>7. LoopTyped'
  BY <1>1, <1>2, EmptySeq DEF LoopTyped
<1>8. Locals'
  <2>1. Range(<<>>) = {}
    BY DEF Range
  <2>. QED
    BY <2>1, <1>2, <1>3 DEF Locals
<1>9. Inv'
  BY <1>1, <1>2, <1>5, <1>7, <1>8, InvFromParts
<1>10. Represented = elems
  BY <1>2, RefillValue
<1>11. Represented' = Contents'
  BY <1>2 DEF Represented
<1>. QED
  BY <1>2, <1>5, <1>6, <1>9, <1>10, <1>11

--------------------------------------------------------------------------------
(* Theorems *)

(* What a step does to the queue: an operation of TaskQueue, or nothing.   *)
QueueStep ==
  \/ Represented' = Represented /\ returned' = returned
  \/ \E t \in Idx :
       /\ Represented' = IF Len(Represented) >= MAX_TASKS \/ t \in Range(Represented)
                         THEN Represented ELSE Append(Represented, t)
       /\ returned' = IF Len(Represented) >= MAX_TASKS THEN Empty ELSE 0
  \/ \E t \in Idx :
       /\ Represented' = IF Len(Represented) >= MAX_TASKS \/ t \in Range(Represented)
                         THEN Represented ELSE <<t>> \o Represented
       /\ returned' = IF Len(Represented) >= MAX_TASKS THEN Empty ELSE 0
  \/ /\ Represented' = IF Represented = <<>> THEN Represented ELSE Tail(Represented)
     /\ returned' = IF Represented = <<>> THEN Empty ELSE Head(Represented)
  \/ \E t \in Idx : Represented' = RemoveTask(Represented, t) /\ returned' = returned
  \/ \E prio \in [Idx -> Priorities] :
       Represented' = Reorder(Represented, prio) /\ returned' = returned

(* Every step preserves the invariant and is a step of the queue.          *)
LEMMA NextStep ==
  ASSUME Inv, [Next]_vars
  PROVE  Inv' /\ QueueStep /\ (pc # "idle" /\ ~LeavesOut => Represented' = Represented)
<1>1. ASSUME NEW t \in Idx, PushTailStep(t)
      PROVE  Inv' /\ QueueStep /\ pc = "idle"
  <2>1. pc = "idle"
    BY <1>1 DEF PushTailStep
  <2>. QED
    BY <2>1, <1>1, PushTailStepInv DEF QueueStep
<1>2. ASSUME NEW t \in Idx, PushHeadStep(t)
      PROVE  Inv' /\ QueueStep /\ pc = "idle"
  <2>1. pc = "idle"
    BY <1>2 DEF PushHeadStep
  <2>. QED
    BY <2>1, <1>2, PushHeadStepInv DEF QueueStep
<1>3. ASSUME NEW t \in Idx, BeginRemove(t)
      PROVE  Inv' /\ QueueStep /\ pc = "idle"
  <2>1. StartDraining(t) /\ UNCHANGED effective_priority /\ t # NoTask /\ pc = "idle"
    BY <1>3, NoTaskIsNone DEF BeginRemove, StartDraining
  <2>2. /\ Inv' /\ returned' = returned /\ Represented = Contents
        /\ Represented' = IF t = NoTask THEN Reorder(Contents, effective_priority')
                                        ELSE Contents
    BY <2>1, StartDrainingInv
  <2>3. Represented' = Represented
    BY <2>1, <2>2
  <2>. QED
    BY <2>1, <2>2, <2>3 DEF QueueStep
<1>4. CASE PopHeadStep
  <2>1. pc = "idle"
    BY <1>4 DEF PopHeadStep
  <2>. QED
    BY <2>1, <1>4, PopHeadStepInv DEF QueueStep
<1>5. CASE BeginSort
  <2>1. /\ StartDraining(NoTask) /\ effective_priority' \in [Idx -> Priorities]
        /\ pc = "idle"
    BY <1>5 DEF BeginSort, StartDraining
  <2>2. /\ Inv' /\ returned' = returned
        /\ Represented = Contents
        /\ Represented' = IF NoTask = NoTask THEN Reorder(Contents, effective_priority')
                                             ELSE Contents
    BY <2>1, StartDrainingInv
  <2>3. Represented' = Reorder(Represented, effective_priority')
    BY <2>2
  <2>. QED
    BY <2>1, <2>2, <2>3 DEF QueueStep
<1>6. CASE Drain
  <2>1. CASE LeavesOut
    BY <2>1, <1>6, DrainInv DEF QueueStep
  <2>2. CASE ~LeavesOut
    BY <2>2, <1>6, DrainInv DEF QueueStep
  <2>. QED
    BY <2>1, <2>2
<1>7. CASE Drained
  BY <1>7, DrainedInv DEF QueueStep
<1>8. CASE Compare
  BY <1>8, CompareInv DEF QueueStep
<1>9. CASE NextRound
  BY <1>9, NextRoundInv DEF QueueStep
<1>10. CASE Sorted
  BY <1>10, SortedInv DEF QueueStep
<1>11. CASE Refill
  BY <1>11, RefillInv DEF QueueStep
<1>12. CASE Refilled
  BY <1>12, RefilledInv DEF QueueStep
<1>13. CASE UNCHANGED vars
  <2>1. returned' = returned
    BY <1>13 DEF vars
  <2>. QED
    BY <2>1, <1>13, StutterInv DEF QueueStep
<1>. QED
  BY <1>1, <1>2, <1>3, <1>4, <1>5, <1>6, <1>7, <1>8, <1>9, <1>10, <1>11, <1>12, <1>13 DEF Next

(* The invariant of the ring and of the loops that rewrite it.             *)
THEOREM RingInv == Spec => []Inv
<1>1. Inv /\ [Next]_vars => Inv'
  BY NextStep
<1>. QED
  BY <1>1, InitInv, PTL DEF Spec

(* The slots, the positions and the locals of the loops keep their types,  *)
(* and the head and the tail stay inside the ring.                         *)
THEOREM RingTypes == Spec => []TypeOK
<1>1. Inv => TypeOK
  BY DEF Inv
<1>. QED
  BY <1>1, RingInv, PTL

(* However often head and tail wrap around, the ring holds one arc of      *)
(* distinct tasks and nothing else.                                        *)
THEOREM RingStaysAnArc == Spec => []RingIsAnArc
<1>1. Inv => RingIsAnArc
  BY DEF Inv
<1>. QED
  BY <1>1, RingInv, PTL

(* queue_remove pushes back everything but the task.                       *)
THEOREM RingRemoves == Spec => []RemovedIsGone
<1>1. Inv => RemovedIsGone
  <2>. SUFFICES ASSUME Inv, pc = "refill", leave_out # NoTask
                PROVE  leave_out \notin Range(Represented)
    BY DEF RemovedIsGone
  <2>1. leave_out \notin Range(elems)
    BY InvParts DEF Locals
  <2>2. Represented = elems
    BY RefillValue
  <2>. QED
    BY <2>1, <2>2
<1>. QED
  BY <1>1, RingInv, PTL

(* The loops of queue_remove and queue_reorder_priority lose, repeat and   *)
(* misplace nothing, and bubble sort is the stable sort by priority.       *)
THEOREM RingLoops == Spec => LoopsKeepQueue
<1>1. Inv /\ [Next]_vars => [pc # "idle" /\ ~LeavesOut => Represented' = Represented]_vars
  BY NextStep
<1>. QED
  BY <1>1, RingInv, PTL DEF Spec, LoopsKeepQueue

(* The operators of the instance are those of Queues. *)
LEMMA SameOperators ==
  /\ \A q : Queue!Range(q) = Range(q)
  /\ \A q, t : Queue!RemoveTask(q, t) = RemoveTask(q, t)
  /\ \A q, prio : Queue!Reorder(q, prio) = Reorder(q, prio)
<1>1. \A q : Queue!Range(q) = Range(q)
  BY DEF Queue!Range, Range
<1>2. \A q, t : Queue!RemoveTask(q, t) = RemoveTask(q, t)
  BY DEF Queue!RemoveTask, RemoveTask, Queue!Range, Range
<1>3. \A q, prio : Queue!Reorder(q, prio) = Reorder(q, prio)
  <2>. SUFFICES ASSUME NEW q, NEW prio PROVE Queue!Reorder(q, prio) = Reorder(q, prio)
    OBVIOUS
  <2>1. \A a, b : Queue!Precedes(q, prio, a, b) <=> Precedes(q, prio, a, b)
    BY DEF Queue!Precedes, Precedes
  <2>2. \A a : {b \in DOMAIN q : Queue!Precedes(q, prio, b, a)}
                 = {b \in DOMAIN q : Precedes(q, prio, b, a)}
    BY <2>1
  <2>3. \A a : Queue!Rank(q, prio, a) = Rank(q, prio, a)
    <3>1. \A X : Queue!Cardinality(X) = Cardinality(X)
      BY DEF Queue!Cardinality, Cardinality
    <3>. QED
      BY <2>2, <3>1 DEF Queue!Rank, Rank
  <2>. DEFINE c(k) == CHOOSE a \in DOMAIN q : Queue!Rank(q, prio, a) = k
              d(k) == CHOOSE a \in DOMAIN q : Rank(q, prio, a) = k
  <2>4. \A k : c(k) = d(k)
    BY <2>3
  <2>5. /\ Queue!Reorder(q, prio) = [k \in DOMAIN q |-> q[c(k)]]
        /\ Reorder(q, prio) = [k \in DOMAIN q |-> q[d(k)]]
    BY DEF Queue!Reorder, Reorder
  <2>. HIDE DEF c, d
  <2>. QED
    BY <2>4, <2>5
<1>. QED
  BY <1>1, <1>2, <1>3

(* The ring with its loops implements the queue that module Scheduler      *)
(* uses.                                                                   *)
THEOREM RingImplementsTaskQueue == Spec => IsTaskQueue
<1>1. Init => Queue!Init
  <2>1. ASSUME Init PROVE Represented = <<>> /\ returned = 0
    <3>1. Contents = <<>>
      BY <2>1 DEF Init, Contents
    <3>. QED
      BY <3>1, <2>1 DEF Init, Represented
  <2>. QED
    BY <2>1 DEF Queue!Init, Queue!Done
<1>2. Inv /\ [Next]_vars => [Queue!Next]_Queue!vars
  <2>. SUFFICES ASSUME Inv, [Next]_vars PROVE [Queue!Next]_Queue!vars
    OBVIOUS
  <2>1. QueueStep
    BY NextStep
  <2>2. CASE Represented' = Represented /\ returned' = returned
    BY <2>2 DEF Queue!vars
  <2>3. ASSUME NEW t \in Idx,
               Represented' = IF Len(Represented) >= MAX_TASKS \/ t \in Range(Represented)
                              THEN Represented ELSE Append(Represented, t),
               returned' = IF Len(Represented) >= MAX_TASKS THEN Empty ELSE 0
        PROVE  Queue!Next
    <3>1. Queue!EnterAtTail(t)
      BY <2>3, SameOperators DEF Queue!EnterAtTail, Queue!Enter, Queue!Failed, Queue!Done, Empty
    <3>. QED
      BY <3>1 DEF Queue!Next, Queue!Idx, Idx
  <2>4. ASSUME NEW t \in Idx,
               Represented' = IF Len(Represented) >= MAX_TASKS \/ t \in Range(Represented)
                              THEN Represented ELSE <<t>> \o Represented,
               returned' = IF Len(Represented) >= MAX_TASKS THEN Empty ELSE 0
        PROVE  Queue!Next
    <3>1. Queue!EnterAtHead(t)
      BY <2>4, SameOperators DEF Queue!EnterAtHead, Queue!Enter, Queue!Failed, Queue!Done, Empty
    <3>. QED
      BY <3>1 DEF Queue!Next, Queue!Idx, Idx
  <2>5. CASE /\ Represented' = IF Represented = <<>> THEN Represented ELSE Tail(Represented)
             /\ returned' = IF Represented = <<>> THEN Empty ELSE Head(Represented)
    BY <2>5 DEF Queue!Next, Queue!Leave, Queue!Failed, Empty
  <2>6. ASSUME NEW t \in Idx, Represented' = RemoveTask(Represented, t), returned' = returned
        PROVE  Queue!Next
    <3>1. Queue!Withdraw(t)
      BY <2>6, SameOperators DEF Queue!Withdraw
    <3>. QED
      BY <3>1 DEF Queue!Next, Queue!Idx, Idx
  <2>7. ASSUME NEW prio \in [Idx -> Priorities],
               Represented' = Reorder(Represented, prio), returned' = returned
        PROVE  Queue!Next
    <3>1. Queue!Sort(prio)
      BY <2>7, SameOperators DEF Queue!Sort
    <3>. QED
      BY <3>1 DEF Queue!Next, Queue!Idx, Idx
  <2>. QED
    BY <2>1, <2>2, <2>3, <2>4, <2>5, <2>6, <2>7 DEF QueueStep
<1>. QED
  BY <1>1, <1>2, RingInv, PTL DEF Spec, IsTaskQueue, Queue!Spec
===============================================================================
