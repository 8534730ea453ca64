---------------------------- MODULE SchedProofs ----------------------------
(***************************************************************************)
(* The ready queues of Sched stay sound, for any number of slots, levels   *)
(* and ticks.                                                              *)
(***************************************************************************)
EXTENDS Sched, FiniteSetTheorems, SequenceTheorems, WellFoundedInduction,
        NaturalsInduction, TLAPS

RQType == [next : [Slots -> Slots], head : [Prios -> Slots], tail : [Prios -> Slots]]
FreeUnlinked(q, st) == \A k \in TaskSlots : st[k] # "READY" => q.next[k] = 0
Grow(n, s, i) == [k \in 1 .. n + 1 |-> IF k = n + 1 THEN i ELSE s[k]]
Shift(n, s) == [k \in 1 .. n - 1 |-> s[k + 1]]
Drop(n, s, j) == [k \in 1 .. n - 1 |-> IF k < j THEN s[k] ELSE s[k + 1]]

-----------------------------------------------------------------------------
(* Lists.                                                                  *)

\* A list of distinct slots with one slot outside it is shorter than the
\* table: it can grow.
LEMMA ListCanGrow ==
  ASSUME NEW n \in Nat, NEW s \in [1 .. n -> TaskSlots], NEW i \in TaskSlots,
         \A k, l \in 1 .. n : s[k] = s[l] => k = l,
         \A k \in 1 .. n : s[k] # i
  PROVE  n + 1 \in 0 .. TASK_MAX - 1
<1> DEFINE g == Grow(n, s, i)
<1>1. g \in [1 .. n + 1 -> TaskSlots] /\ \A k, l \in 1 .. n + 1 : g[k] = g[l] => k = l
  BY DEF Grow
<1>2. IsFiniteSet(1 .. n + 1) /\ Cardinality(1 .. n + 1) = n + 1
  BY FS_Interval
<1>3. IsFiniteSet(TaskSlots) /\ Cardinality(TaskSlots) = TASK_MAX - 1
  BY FS_Interval, SchedConstants DEF TaskSlots
<1>4. ~(Cardinality(TaskSlots) < Cardinality(1 .. n + 1))
  BY <1>1, <1>2, <1>3, FS_PigeonHole
<1> QED BY <1>2, <1>3, <1>4, SchedConstants

\* The three list operations, field by field.
LEMMA ClearShape ==
  ASSUME NEW q \in RQType, NEW i \in TaskSlots
  PROVE  Clear(q, i) = [next |-> [q.next EXCEPT ![i] = 0], head |-> q.head, tail |-> q.tail]
BY DEF Clear, RQType

LEMMA LinkShape ==
  ASSUME NEW q \in RQType, NEW p \in Prios, NEW i \in TaskSlots
  PROVE  /\ q.head[p] = 0 =>
              Link(q, p, i) = [next |-> q.next, head |-> [q.head EXCEPT ![p] = i],
                               tail |-> [q.tail EXCEPT ![p] = i]]
         /\ q.head[p] # 0 =>
              Link(q, p, i) = [next |-> [q.next EXCEPT ![q.tail[p]] = i], head |-> q.head,
                               tail |-> [q.tail EXCEPT ![p] = i]]
<1>1. CASE q.head[p] = 0
  BY <1>1 DEF Link, RQType
<1>2. CASE q.head[p] # 0
  BY <1>2 DEF Link, RQType
<1> QED BY <1>1, <1>2

LEMMA EnqueueShape ==
  ASSUME NEW q \in RQType, NEW p \in Prios, NEW i \in TaskSlots
  PROVE  /\ q.head[p] = 0 =>
              Enqueue(q, p, i) = [next |-> [q.next EXCEPT ![i] = 0],
                                  head |-> [q.head EXCEPT ![p] = i],
                                  tail |-> [q.tail EXCEPT ![p] = i]]
         /\ q.head[p] # 0 =>
              Enqueue(q, p, i) = [next |-> [q.next EXCEPT ![i] = 0, ![q.tail[p]] = i],
                                  head |-> q.head, tail |-> [q.tail EXCEPT ![p] = i]]
         /\ Enqueue(q, p, i) \in RQType
<1> DEFINE c == Clear(q, i)
<1>1. c = [next |-> [q.next EXCEPT ![i] = 0], head |-> q.head, tail |-> q.tail]
  BY ClearShape
<1>2. i \in Slots /\ 0 \in Slots
  BY SchedConstants DEF Slots, TaskSlots
<1>3. c \in RQType
  BY <1>1, <1>2 DEF RQType
<1>4. Enqueue(q, p, i) = Link(c, p, i)
  BY DEF Enqueue
<1> HIDE DEF c
<1>5. CASE q.head[p] = 0
  <2>1. Enqueue(q, p, i) = [next |-> c.next, head |-> [c.head EXCEPT ![p] = i],
                            tail |-> [c.tail EXCEPT ![p] = i]]
    BY <1>1, <1>3, <1>4, <1>5, LinkShape
  <2> QED BY <1>1, <1>2, <1>5, <2>1 DEF RQType
<1>6. CASE q.head[p] # 0
  <2>1. Enqueue(q, p, i) = [next |-> [c.next EXCEPT ![c.tail[p]] = i], head |-> c.head,
                            tail |-> [c.tail EXCEPT ![p] = i]]
    BY <1>1, <1>3, <1>4, <1>6, LinkShape
  <2> QED BY <1>1, <1>2, <1>6, <2>1 DEF RQType
<1> QED BY <1>5, <1>6

LEMMA PopShape ==
  ASSUME NEW q \in RQType, NEW p \in Prios
  PROVE  LET h == q.next[q.head[p]]
         IN  /\ Pop(q, p) = [next |-> q.next, head |-> [q.head EXCEPT ![p] = h],
                             tail |-> [q.tail EXCEPT ![p] = IF h = 0 THEN 0 ELSE q.tail[p]]]
             /\ Pop(q, p) \in RQType
<1>1. 0 \in Slots
  BY SchedConstants DEF Slots
<1> DEFINE h == q.next[q.head[p]]
<1>2. h \in Slots /\ q.tail[p] \in Slots
  BY DEF RQType
<1>3. Pop(q, p) = [q EXCEPT !.head[p] = h, !.tail[p] = IF h = 0 THEN 0 ELSE @]
  BY DEF Pop
<1> HIDE DEF h
<1>4. Pop(q, p) = [next |-> q.next, head |-> [q.head EXCEPT ![p] = h],
                   tail |-> [q.tail EXCEPT ![p] = IF h = 0 THEN 0 ELSE q.tail[p]]]
  BY <1>3 DEF RQType
<1>5. Pop(q, p) \in RQType
  BY <1>1, <1>2, <1>4 DEF RQType
<1> QED BY <1>4, <1>5 DEF h

\* What membership in a list gives: slots are not 0, and the ends are members.
LEMMA ListEnds ==
  ASSUME NEW q \in RQType, NEW p \in Prios,
         NEW n \in 0 .. TASK_MAX - 1, NEW s \in [1 .. n -> TaskSlots], IsList(q, p, n, s)
  PROVE  /\ q.head[p] = 0 <=> n = 0
         /\ n > 0 => /\ q.head[p] = s[1] /\ q.tail[p] = s[n]
                     /\ s[1] \in TaskSlots /\ s[n] \in TaskSlots
         /\ TaskSlots \subseteq Slots /\ 0 \notin TaskSlots /\ 0 \in Slots
BY SchedConstants DEF IsList, TaskSlots, Slots

\* Enqueue appends at the back.
LEMMA EnqueueAppends ==
  ASSUME NEW q \in RQType, NEW p \in Prios, NEW i \in TaskSlots,
         NEW n \in 0 .. TASK_MAX - 1, NEW s \in [1 .. n -> TaskSlots],
         IsList(q, p, n, s), \A k \in 1 .. n : s[k] # i
  PROVE  /\ n + 1 \in 0 .. TASK_MAX - 1
         /\ Grow(n, s, i) \in [1 .. n + 1 -> TaskSlots]
         /\ IsList(Enqueue(q, p, i), p, n + 1, Grow(n, s, i))
<1>1. n + 1 \in 0 .. TASK_MAX - 1
  BY ListCanGrow, SchedConstants DEF IsList
<1>2. Grow(n, s, i) \in [1 .. n + 1 -> TaskSlots]
  BY SchedConstants DEF Grow
<1>3. CASE n = 0
  BY <1>3, ListEnds, EnqueueShape, SchedConstants DEF IsList, RQType, Grow
<1>4. CASE n > 0
  <2> DEFINE e == Enqueue(q, p, i)
             g == Grow(n, s, i)
  <2>1. e = [next |-> [q.next EXCEPT ![i] = 0, ![s[n]] = i],
             head |-> q.head, tail |-> [q.tail EXCEPT ![p] = i]]
    BY <1>4, ListEnds, EnqueueShape
  <2>2. g[n + 1] = i /\ \A k \in 1 .. n : g[k] = s[k]
    BY SchedConstants DEF Grow
  <2>3. i \in Slots /\ \A k \in 1 .. n : s[k] \in Slots /\ s[k] # i
    BY ListEnds
  <2> HIDE DEF e, g
  <2>4. \A k \in 1 .. n + 1 : e.next[g[k]] = IF k = n + 1 THEN 0 ELSE g[k + 1]
    <3> SUFFICES ASSUME NEW k \in 1 .. n + 1
                 PROVE  e.next[g[k]] = IF k = n + 1 THEN 0 ELSE g[k + 1]
      OBVIOUS
    <3>1. CASE k = n + 1
      BY <1>4, <2>1, <2>2, <2>3, <3>1 DEF RQType
    <3>2. CASE k = n
      BY <1>4, <2>1, <2>2, <2>3, <3>2 DEF RQType
    <3>3. CASE k < n
      <4>1. k \in 1 .. n /\ k + 1 \in 1 .. n /\ n \in 1 .. n
        BY <1>4, <3>3
      <4>2. s[k] # s[n] /\ q.next[s[k]] = s[k + 1]
        BY <3>3, <4>1 DEF IsList
      <4> QED BY <2>1, <2>2, <2>3, <3>3, <4>1, <4>2 DEF RQType
    <3> QED BY <3>1, <3>2, <3>3
  <2>5. e.head[p] = g[1] /\ e.tail[p] = g[n + 1]
    BY <1>4, <2>1, <2>2, ListEnds DEF RQType
  <2>6. \A k, l \in 1 .. n + 1 : g[k] = g[l] => k = l
    BY <2>2, <2>3 DEF IsList
  <2> QED BY <1>1, <1>2, <1>4, <2>4, <2>5, <2>6 DEF IsList, e, g
<1> QED BY <1>1, <1>2, <1>3, <1>4

\* Enqueue leaves the other levels' lists alone.
LEMMA EnqueueOthers ==
  ASSUME NEW q \in RQType, NEW p \in Prios, NEW i \in TaskSlots,
         NEW n \in 0 .. TASK_MAX - 1, NEW s \in [1 .. n -> TaskSlots], IsList(q, p, n, s),
         NEW o \in Prios, o # p,
         NEW m \in 0 .. TASK_MAX - 1, NEW r \in [1 .. m -> TaskSlots], IsList(q, o, m, r),
         \A k \in 1 .. m : r[k] # i,
         \A k \in 1 .. m, l \in 1 .. n : r[k] # s[l]
  PROVE  IsList(Enqueue(q, p, i), o, m, r)
<1>1. CASE n = 0
  BY <1>1, ListEnds, EnqueueShape DEF IsList, RQType
<1>2. CASE n > 0
  <2>1. \A k \in 1 .. m : r[k] # q.tail[p] /\ r[k] \in TaskSlots
    BY <1>2, ListEnds
  <2> DEFINE e == Enqueue(q, p, i)
  <2>2. e = [next |-> [q.next EXCEPT ![i] = 0, ![q.tail[p]] = i],
             head |-> q.head, tail |-> [q.tail EXCEPT ![p] = i]]
    BY <1>2, ListEnds, EnqueueShape
  <2> HIDE DEF e
  <2>3. \A k \in 1 .. m : e.next[r[k]] = q.next[r[k]]
    BY <2>1, <2>2, ListEnds DEF RQType
  <2>4. e.head[o] = q.head[o] /\ e.tail[o] = q.tail[o]
    BY <2>2 DEF RQType
  <2> QED BY <2>3, <2>4 DEF IsList, e
<1> QED BY <1>1, <1>2

\* Pop removes the front.
LEMMA PopRemovesFront ==
  ASSUME NEW q \in RQType, NEW p \in Prios,
         NEW n \in 0 .. TASK_MAX - 1, NEW s \in [1 .. n -> TaskSlots],
         IsList(q, p, n, s), q.head[p] # 0
  PROVE  /\ n > 0 /\ q.head[p] = s[1] /\ Pop(q, p) \in RQType
         /\ n - 1 \in 0 .. TASK_MAX - 1
         /\ Shift(n, s) \in [1 .. n - 1 -> TaskSlots]
         /\ IsList(Pop(q, p), p, n - 1, Shift(n, s))
<1>1. n > 0 /\ q.head[p] = s[1] /\ q.tail[p] = s[n]
  BY ListEnds
<1>2. n - 1 \in 0 .. TASK_MAX - 1 /\ Shift(n, s) \in [1 .. n - 1 -> TaskSlots]
  BY <1>1, SchedConstants DEF Shift
<1>3. q.next[q.head[p]] = IF n = 1 THEN 0 ELSE s[2]
  BY <1>1, SchedConstants DEF IsList
<1>4. q.next[q.head[p]] = 0 <=> n = 1
  BY <1>1, <1>3, SchedConstants DEF TaskSlots
<1>5. IsList(Pop(q, p), p, n - 1, Shift(n, s))
  BY <1>1, <1>3, <1>4, PopShape, SchedConstants DEF IsList, Shift, RQType
<1> QED BY <1>1, <1>2, <1>5, PopShape

LEMMA PopOthers ==
  ASSUME NEW q \in RQType, NEW p \in Prios, NEW o \in Prios, o # p,
         NEW m \in 0 .. TASK_MAX - 1, NEW r \in [1 .. m -> TaskSlots], IsList(q, o, m, r)
  PROVE  IsList(Pop(q, p), o, m, r)
BY PopShape DEF IsList, RQType

\* task_set_priority clears the link of the moved slot after linking it, the
\* other callers before: the same, unless the slot is the tail it is linked to.
LEMMA ClearAfterLink ==
  ASSUME NEW q \in RQType, NEW p \in Prios, NEW i \in TaskSlots,
         q.head[p] # 0 => q.tail[p] # i
  PROVE  Clear(Link(q, p, i), i) = Enqueue(q, p, i)
<1> DEFINE l == Link(q, p, i)
<1>1. i \in Slots /\ q.tail[p] \in Slots
  BY SchedConstants DEF Slots, TaskSlots, RQType
<1>2. CASE q.head[p] = 0
  <2>1. l = [next |-> q.next, head |-> [q.head EXCEPT ![p] = i],
             tail |-> [q.tail EXCEPT ![p] = i]]
    BY <1>2, LinkShape
  <2>2. l \in RQType
    BY <1>1, <2>1 DEF RQType
  <2> HIDE DEF l
  <2>3. Clear(l, i) = [next |-> [l.next EXCEPT ![i] = 0], head |-> l.head, tail |-> l.tail]
    BY <2>2, ClearShape
  <2>4. Clear(l, i) = [next |-> [q.next EXCEPT ![i] = 0],
                       head |-> [q.head EXCEPT ![p] = i], tail |-> [q.tail EXCEPT ![p] = i]]
    BY <2>1, <2>3
  <2> QED BY <1>2, <2>4, EnqueueShape DEF l
<1>3. CASE q.head[p] # 0
  <2>1. l = [next |-> [q.next EXCEPT ![q.tail[p]] = i], head |-> q.head,
             tail |-> [q.tail EXCEPT ![p] = i]]
    BY <1>3, LinkShape
  <2>2. l \in RQType
    BY <1>1, <2>1 DEF RQType
  <2> HIDE DEF l
  <2>3. Clear(l, i) = [next |-> [l.next EXCEPT ![i] = 0], head |-> l.head, tail |-> l.tail]
    BY <2>2, ClearShape
  <2>4. [[q.next EXCEPT ![q.tail[p]] = i] EXCEPT ![i] = 0]
          = [q.next EXCEPT ![i] = 0, ![q.tail[p]] = i]
    BY <1>1, <1>3 DEF RQType
  <2>5. Clear(l, i) = [next |-> [q.next EXCEPT ![i] = 0, ![q.tail[p]] = i],
                       head |-> q.head, tail |-> [q.tail EXCEPT ![p] = i]]
    BY <2>1, <2>3, <2>4
  <2> QED BY <1>3, <2>5, EnqueueShape DEF l
<1> QED BY <1>2, <1>3

\* Unlink takes slot i = s[j] out of its list when nothing else links to it.
LEMMA UnlinkDrops ==
  ASSUME NEW q \in RQType, NEW p \in Prios, NEW i \in TaskSlots,
         NEW n \in 0 .. TASK_MAX - 1, NEW s \in [1 .. n -> TaskSlots], IsList(q, p, n, s),
         NEW j \in 1 .. n, s[j] = i,
         \A k \in TaskSlots : q.next[k] = i => j > 1 /\ k = s[j - 1]
  PROVE  LET u == Unlink(q, p, i)
         IN  /\ u \in RQType
             /\ n - 1 \in 0 .. TASK_MAX - 1
             /\ Drop(n, s, j) \in [1 .. n - 1 -> TaskSlots]
             /\ IsList(u, p, n - 1, Drop(n, s, j))
             /\ \A o \in Prios \ {p} : u.head[o] = q.head[o] /\ u.tail[o] = q.tail[o]
             /\ \A k \in Slots : (j > 1 => k # s[j - 1]) => u.next[k] = q.next[k]
<1> DEFINE u == Unlink(q, p, i)
           d == Drop(n, s, j)
<1>1. /\ n - 1 \in 0 .. TASK_MAX - 1 /\ d \in [1 .. n - 1 -> TaskSlots]
      /\ \A k \in 1 .. n - 1 : d[k] = IF k < j THEN s[k] ELSE s[k + 1]
  BY SchedConstants DEF Drop
<1>2. /\ \A k \in 1 .. n : s[k] \in Slots /\ s[k] # 0
      /\ 0 \in Slots /\ n > 0 /\ q.head[p] = s[1] /\ q.tail[p] = s[n]
  BY ListEnds
<1>3. q.next[i] = IF j = n THEN 0 ELSE s[j + 1]
  BY DEF IsList
<1>4. \A k, l \in 1 .. n : s[k] = s[l] => k = l
  BY DEF IsList
<1>5. CASE j = 1
  <2>1. u = [next |-> q.next, head |-> [q.head EXCEPT ![p] = q.next[i]],
             tail |-> [q.tail EXCEPT ![p] = IF q.tail[p] = i THEN 0 ELSE q.tail[p]]]
    BY <1>2, <1>5 DEF Unlink, RQType
  <2>2. u \in RQType
    BY <1>2, <2>1 DEF RQType
  <2>3. q.tail[p] = i <=> n = 1
    BY <1>2, <1>4, <1>5
  <2> HIDE DEF u, d
  <2>4. \A k \in 1 .. n - 1 : d[k] = s[k + 1]
    BY <1>1, <1>5
  <2>5. IsList(u, p, n - 1, d)
    <3>1. u.head[p] = IF n - 1 = 0 THEN 0 ELSE d[1]
      BY <1>2, <1>3, <1>5, <2>1, <2>4 DEF RQType
    <3>2. u.tail[p] = IF n - 1 = 0 THEN 0 ELSE d[n - 1]
      BY <1>2, <2>1, <2>3, <2>4 DEF RQType
    <3>3. \A k \in 1 .. n - 1 : u.next[d[k]] = IF k = n - 1 THEN 0 ELSE d[k + 1]
      BY <1>2, <2>1, <2>4 DEF IsList
    <3>4. \A k, l \in 1 .. n - 1 : d[k] = d[l] => k = l
      BY <1>4, <2>4
    <3> QED BY <3>1, <3>2, <3>3, <3>4 DEF IsList
  <2>6. /\ \A o \in Prios \ {p} : u.head[o] = q.head[o] /\ u.tail[o] = q.tail[o]
        /\ \A k \in Slots : (j > 1 => k # s[j - 1]) => u.next[k] = q.next[k]
    BY <2>1 DEF RQType
  <2> QED BY <1>1, <2>2, <2>5, <2>6 DEF u, d
<1>6. CASE j > 1
  <2>1. j - 1 \in 1 .. n /\ s[j - 1] \in TaskSlots /\ q.next[s[j - 1]] = i
    BY <1>6 DEF IsList
  <2>2. LinksTo(q, i) = {s[j - 1]}
    BY <2>1 DEF LinksTo
  <2>3. FirstOf({s[j - 1]}) = s[j - 1]
    BY <2>1, SchedConstants DEF FirstOf, First, TaskSlots
  <2>4. q.head[p] # i
    BY <1>2, <1>4, <1>6
  <2>5. u = SkipOver(q, p, i, s[j - 1])
    BY <2>2, <2>3, <2>4 DEF Unlink
  <2> HIDE DEF u, d
  <2>6. u = [next |-> [q.next EXCEPT ![s[j - 1]] = q.next[i]], head |-> q.head,
             tail |-> [q.tail EXCEPT ![p] = IF q.tail[p] = i THEN s[j - 1] ELSE q.tail[p]]]
    BY <2>5 DEF SkipOver, RQType
  <2>7. s[j - 1] \in Slots /\ q.next[i] \in Slots /\ q.tail[p] \in Slots
    BY <1>2, <1>3, <2>1 DEF RQType
  <2>8. u \in RQType
    BY <2>6, <2>7 DEF RQType
  <2>9. IsList(u, p, n - 1, d)
    <3>1. u.head[p] = IF n - 1 = 0 THEN 0 ELSE d[1]
      BY <1>1, <1>2, <1>6, <2>6
    <3>2. q.tail[p] = i <=> j = n
      BY <1>2, <1>4
    <3>3. u.tail[p] = IF n - 1 = 0 THEN 0 ELSE d[n - 1]
      BY <1>1, <1>2, <1>6, <2>6, <3>2 DEF RQType
    <3>4. ASSUME NEW k \in 1 .. n - 1
          PROVE  u.next[d[k]] = IF k = n - 1 THEN 0 ELSE d[k + 1]
      <4>1. CASE k < j - 1
        <5>1. k \in 1 .. n /\ k + 1 \in 1 .. n - 1 /\ d[k] = s[k] /\ d[k + 1] = s[k + 1]
          BY <1>1, <4>1
        <5>2. s[k] # s[j - 1]
          BY <1>4, <2>1, <4>1, <5>1
        <5> QED BY <1>2, <2>6, <4>1, <5>1, <5>2 DEF IsList, RQType
      <4>2. CASE k = j - 1
        BY <1>1, <1>2, <1>3, <2>6, <2>7, <4>2 DEF RQType
      <4>3. CASE k >= j
        <5>1. k + 1 \in 1 .. n /\ d[k] = s[k + 1] /\ (k # n - 1 => d[k + 1] = s[k + 2])
          BY <1>1, <4>3
        <5>2. s[k + 1] # s[j - 1]
          BY <1>4, <2>1, <4>3, <5>1
        <5> QED BY <1>2, <2>6, <4>3, <5>1, <5>2 DEF IsList, RQType
      <4> QED BY <4>1, <4>2, <4>3
    <3>5. \A k, l \in 1 .. n - 1 : d[k] = d[l] => k = l
      BY <1>1, <1>4
    <3> QED BY <3>1, <3>3, <3>4, <3>5 DEF IsList
  <2>10. /\ \A o \in Prios \ {p} : u.head[o] = q.head[o] /\ u.tail[o] = q.tail[o]
         /\ \A k \in Slots : (j > 1 => k # s[j - 1]) => u.next[k] = q.next[k]
    BY <1>6, <2>6 DEF RQType
  <2> QED BY <1>1, <2>8, <2>9, <2>10 DEF u, d
<1> QED BY <1>5, <1>6

-----------------------------------------------------------------------------
(* The lists of all levels together.                                       *)

\* A task that is not READY joins the back of one list.
LEMMA EnqueueGood ==
  ASSUME NEW q \in RQType, NEW st \in [Slots -> States], NEW pr \in [Slots -> Prios],
         NEW out, NEW all \in BOOLEAN, GoodLists(q, st, pr, out, all),
         NEW i \in TaskSlots, NEW p \in Prios, st[i] # "READY", i \notin out
  PROVE  /\ Enqueue(q, p, i) \in RQType
         /\ GoodLists(Enqueue(q, p, i), [st EXCEPT ![i] = "READY"], [pr EXCEPT ![i] = p],
                      out, all)
<1> DEFINE e == Enqueue(q, p, i)
           st2 == [st EXCEPT ![i] = "READY"]
           pr2 == [pr EXCEPT ![i] = p]
<1>1. e \in RQType
  BY EnqueueShape
<1>2. i \in Slots /\ TaskSlots \subseteq Slots
  BY SchedConstants DEF Slots, TaskSlots
<1>3. /\ st2[i] = "READY" /\ pr2[i] = p
      /\ \A k \in TaskSlots \ {i} : st2[k] = st[k] /\ pr2[k] = pr[k]
  BY <1>2
<1>4. ASSUME NEW o \in Prios
      PROVE  \E n \in 0 .. TASK_MAX - 1 : \E s \in [1 .. n -> TaskSlots] :
               GoodList(e, st2, pr2, out, all, o, n, s)
  <2>1. PICK m \in 0 .. TASK_MAX - 1 : \E r \in [1 .. m -> TaskSlots] :
               GoodList(q, st, pr, out, all, o, m, r)
    BY DEF GoodLists
  <2>2. PICK r \in [1 .. m -> TaskSlots] : GoodList(q, st, pr, out, all, o, m, r)
    BY <2>1
  <2>3. IsList(q, o, m, r) /\ \A k \in 1 .. m : r[k] \in TaskSlots \ {i}
    BY <2>2 DEF GoodList
  <2> HIDE DEF e, st2, pr2
  <2>4. CASE o = p
    <3> DEFINE g == Grow(m, r, i)
    <3>1. m + 1 \in 0 .. TASK_MAX - 1 /\ g \in [1 .. m + 1 -> TaskSlots] /\ IsList(e, o, m + 1, g)
      BY <2>3, <2>4, EnqueueAppends DEF e
    <3>2. g[m + 1] = i /\ \A k \in 1 .. m : g[k] = r[k]
      BY DEF Grow
    <3> HIDE DEF g
    <3>3. ASSUME NEW k \in 1 .. m + 1
          PROVE  st2[g[k]] = "READY" /\ pr2[g[k]] = o /\ g[k] \notin out
      <4>1. CASE k = m + 1
        BY <1>3, <2>4, <3>2, <4>1
      <4>2. CASE k \in 1 .. m
        BY <1>3, <2>2, <2>3, <3>2, <4>2 DEF GoodList
      <4> QED BY <4>1, <4>2
    <3>4. ASSUME all, NEW j \in TaskSlots, st2[j] = "READY", pr2[j] = o
          PROVE  \E k \in 1 .. m + 1 : g[k] = j
      <4>1. CASE j = i
        BY <3>2, <4>1
      <4>2. CASE j # i
        <5>1. PICK k \in 1 .. m : r[k] = j
          BY <1>3, <2>2, <3>4, <4>2 DEF GoodList
        <5> QED BY <3>2, <5>1
      <4> QED BY <4>1, <4>2
    <3>5. GoodList(e, st2, pr2, out, all, o, m + 1, g)
      BY <3>1, <3>3, <3>4 DEF GoodList
    <3> QED BY <3>1, <3>5
  <2>5. CASE o # p
    <3>1. PICK n \in 0 .. TASK_MAX - 1 : \E s \in [1 .. n -> TaskSlots] :
                 GoodList(q, st, pr, out, all, p, n, s)
      BY DEF GoodLists
    <3>2. PICK s \in [1 .. n -> TaskSlots] : GoodList(q, st, pr, out, all, p, n, s)
      BY <3>1
    <3>3. \A k \in 1 .. m, l \in 1 .. n : r[k] # s[l]
      BY <2>2, <2>5, <3>2 DEF GoodList
    <3>4. IsList(q, p, n, s)
      BY <3>2 DEF GoodList
    <3>5. IsList(e, o, m, r)
      BY <2>3, <2>5, <3>3, <3>4, EnqueueOthers DEF e
    <3>6. GoodList(e, st2, pr2, out, all, o, m, r)
      BY <1>3, <2>2, <2>3, <2>5, <3>5 DEF GoodList
    <3> QED BY <3>6
  <2> QED BY <2>4, <2>5
<1> QED BY <1>1, <1>4 DEF GoodLists

\* The front of a list leaves it and is then in none.
LEMMA PopGood ==
  ASSUME NEW q \in RQType, NEW st \in [Slots -> States], NEW pr \in [Slots -> Prios],
         NEW out, NEW all \in BOOLEAN, GoodLists(q, st, pr, out, all),
         NEW p \in Prios, q.head[p] # 0
  PROVE  /\ Pop(q, p) \in RQType
         /\ q.head[p] \in TaskSlots /\ st[q.head[p]] = "READY" /\ pr[q.head[p]] = p
         /\ GoodLists(Pop(q, p), st, pr, {q.head[p]}, FALSE)
<1> DEFINE e == Pop(q, p)
<1>1. e \in RQType
  BY PopShape
<1>2. PICK n \in 0 .. TASK_MAX - 1 : \E s \in [1 .. n -> TaskSlots] :
             GoodList(q, st, pr, out, all, p, n, s)
  BY DEF GoodLists
<1>3. PICK s \in [1 .. n -> TaskSlots] : GoodList(q, st, pr, out, all, p, n, s)
  BY <1>2
<1>4. IsList(q, p, n, s)
  BY <1>3 DEF GoodList
<1>5. /\ n > 0 /\ q.head[p] = s[1] /\ n - 1 \in 0 .. TASK_MAX - 1
      /\ Shift(n, s) \in [1 .. n - 1 -> TaskSlots] /\ IsList(e, p, n - 1, Shift(n, s))
  BY <1>4, PopRemovesFront
<1>6. q.head[p] \in TaskSlots /\ st[q.head[p]] = "READY" /\ pr[q.head[p]] = p
  BY <1>3, <1>5 DEF GoodList
<1>7. ASSUME NEW o \in Prios
      PROVE  \E m \in 0 .. TASK_MAX - 1 : \E r \in [1 .. m -> TaskSlots] :
               GoodList(e, st, pr, {q.head[p]}, FALSE, o, m, r)
  <2>1. CASE o = p
    <3> DEFINE g == Shift(n, s)
    <3>1. \A k \in 1 .. n - 1 : k + 1 \in 1 .. n /\ g[k] = s[k + 1]
      BY <1>5 DEF Shift
    <3>2. \A k \in 1 .. n - 1 : g[k] # s[1]
      BY <1>4, <1>5, <3>1 DEF IsList
    <3> HIDE DEF g
    <3>3. GoodList(e, st, pr, {q.head[p]}, FALSE, o, n - 1, g)
      BY <1>3, <1>5, <2>1, <3>1, <3>2 DEF GoodList, g
    <3> QED BY <1>5, <3>3 DEF g
  <2>2. CASE o # p
    <3>1. PICK m \in 0 .. TASK_MAX - 1 : \E r \in [1 .. m -> TaskSlots] :
                 GoodList(q, st, pr, out, all, o, m, r)
      BY DEF GoodLists
    <3>2. PICK r \in [1 .. m -> TaskSlots] : GoodList(q, st, pr, out, all, o, m, r)
      BY <3>1
    <3>3. IsList(e, o, m, r)
      BY <2>2, <3>2, PopOthers DEF GoodList
    <3>4. GoodList(e, st, pr, {q.head[p]}, FALSE, o, m, r)
      BY <1>6, <2>2, <3>2, <3>3 DEF GoodList
    <3> QED BY <3>4
  <2> QED BY <2>1, <2>2
<1> QED BY <1>1, <1>6, <1>7 DEF GoodLists

\* The state of a task that is in no list may change.
LEMMA StateGood ==
  ASSUME NEW q \in RQType, NEW st \in [Slots -> States], NEW pr \in [Slots -> Prios],
         NEW i \in Slots, NEW all \in BOOLEAN, GoodLists(q, st, pr, {i}, all), NEW v \in States
  PROVE  GoodLists(q, [st EXCEPT ![i] = v], pr, {i}, FALSE)
<1> SUFFICES ASSUME NEW o \in Prios
             PROVE  \E m \in 0 .. TASK_MAX - 1 : \E r \in [1 .. m -> TaskSlots] :
                      GoodList(q, [st EXCEPT ![i] = v], pr, {i}, FALSE, o, m, r)
  BY DEF GoodLists
<1>1. PICK m \in 0 .. TASK_MAX - 1 : \E r \in [1 .. m -> TaskSlots] :
             GoodList(q, st, pr, {i}, all, o, m, r)
  BY DEF GoodLists
<1>2. PICK r \in [1 .. m -> TaskSlots] : GoodList(q, st, pr, {i}, all, o, m, r)
  BY <1>1
<1>3. \A k \in 1 .. m : r[k] \in Slots \ {i}
  BY <1>2, SchedConstants DEF GoodList, Slots, TaskSlots
<1>4. GoodList(q, [st EXCEPT ![i] = v], pr, {i}, FALSE, o, m, r)
  BY <1>2, <1>3 DEF GoodList
<1> QED BY <1>4

\* Fewer slots to keep out, and no claim of completeness, is weaker.
LEMMA WeakerGood ==
  ASSUME NEW q, NEW st, NEW pr, NEW out, NEW all \in BOOLEAN, GoodLists(q, st, pr, out, all),
         NEW out2, NEW all2 \in BOOLEAN, all2 => all,
         \A i \in TaskSlots : st[i] = "READY" /\ i \in out2 => i \in out
  PROVE  GoodLists(q, st, pr, out2, all2)
<1> SUFFICES ASSUME NEW o \in Prios
             PROVE  \E m \in 0 .. TASK_MAX - 1 : \E r \in [1 .. m -> TaskSlots] :
                      GoodList(q, st, pr, out2, all2, o, m, r)
  BY DEF GoodLists
<1>1. PICK m \in 0 .. TASK_MAX - 1 : \E r \in [1 .. m -> TaskSlots] :
             GoodList(q, st, pr, out, all, o, m, r)
  BY DEF GoodLists
<1>2. PICK r \in [1 .. m -> TaskSlots] : GoodList(q, st, pr, out, all, o, m, r)
  BY <1>1
<1>3. GoodList(q, st, pr, out2, all2, o, m, r)
  BY <1>2 DEF GoodList
<1> QED BY <1>3

\* task_set_priority, before sched_start: the task leaves its old list, joins
\* the back of the new one, and free slots still link to nothing.
LEMMA MoveGood ==
  ASSUME NEW q \in RQType, NEW st \in [Slots -> States], NEW pr \in [Slots -> Prios],
         NEW out, GoodLists(q, st, pr, out, TRUE),
         NEW i \in TaskSlots, st[i] = "READY", i \notin out,
         NEW p \in Prios, p # pr[i], FreeUnlinked(q, st)
  PROVE  /\ Requeue(q, pr[i], p, i) \in RQType
         /\ GoodLists(Requeue(q, pr[i], p, i), st, [pr EXCEPT ![i] = p], out, TRUE)
         /\ FreeUnlinked(Requeue(q, pr[i], p, i), st)
<1> DEFINE old == pr[i]
           u == Unlink(q, old, i)
           e == Requeue(q, old, p, i)
           st2 == [st EXCEPT ![i] = "BLOCKED"]
<1>1. TaskSlots \subseteq Slots /\ 0 \notin TaskSlots /\ old \in Prios
  BY SchedConstants DEF Slots, TaskSlots
<1>2. st2 \in [Slots -> States] /\ st2[i] = "BLOCKED" /\ \A k \in TaskSlots \ {i} : st2[k] = st[k]
  BY <1>1 DEF States
<1>3. PICK n \in 0 .. TASK_MAX - 1 : \E s \in [1 .. n -> TaskSlots] :
             GoodList(q, st, pr, out, TRUE, old, n, s)
  BY <1>1 DEF GoodLists
<1>4. PICK s \in [1 .. n -> TaskSlots] : GoodList(q, st, pr, out, TRUE, old, n, s)
  BY <1>3
<1>5. IsList(q, old, n, s)
  BY <1>4 DEF GoodList
<1>6. PICK j \in 1 .. n : s[j] = i
  BY <1>4 DEF GoodList
<1>7. ASSUME NEW k \in TaskSlots, q.next[k] = i
      PROVE  j > 1 /\ k = s[j - 1]
  <2>1. st[k] = "READY" /\ pr[k] \in Prios
    BY <1>1, <1>7 DEF FreeUnlinked
  <2>2. CASE pr[k] = old
    <3>1. PICK l \in 1 .. n : s[l] = k
      BY <1>4, <2>1, <2>2 DEF GoodList
    <3>2. l # n /\ s[l + 1] = s[j] /\ l + 1 \in 1 .. n
      BY <1>1, <1>5, <1>6, <1>7, <3>1 DEF IsList
    <3>3. l + 1 = j
      BY <1>5, <3>2 DEF IsList
    <3> QED BY <3>1, <3>3
  <2>3. CASE pr[k] # old
    <3>1. PICK m \in 0 .. TASK_MAX - 1 : \E r \in [1 .. m -> TaskSlots] :
                 GoodList(q, st, pr, out, TRUE, pr[k], m, r)
      BY <2>1 DEF GoodLists
    <3>2. PICK r \in [1 .. m -> TaskSlots] : GoodList(q, st, pr, out, TRUE, pr[k], m, r)
      BY <3>1
    <3>3. PICK l \in 1 .. m : r[l] = k
      BY <2>1, <3>2 DEF GoodList
    <3>4. l # m /\ r[l + 1] = i /\ l + 1 \in 1 .. m
      BY <1>1, <1>7, <3>2, <3>3 DEF GoodList, IsList
    <3>5. pr[i] = pr[k]
      BY <3>2, <3>4 DEF GoodList
    <3> QED BY <2>3, <3>5
  <2> QED BY <2>2, <2>3
<1>8. /\ u \in RQType /\ n - 1 \in 0 .. TASK_MAX - 1
      /\ Drop(n, s, j) \in [1 .. n - 1 -> TaskSlots] /\ IsList(u, old, n - 1, Drop(n, s, j))
      /\ \A o \in Prios \ {old} : u.head[o] = q.head[o] /\ u.tail[o] = q.tail[o]
      /\ \A k \in Slots : (j > 1 => k # s[j - 1]) => u.next[k] = q.next[k]
  BY <1>1, <1>5, <1>6, <1>7, UnlinkDrops
<1> HIDE DEF u, st2
<1>9. ASSUME NEW o \in Prios
      PROVE  \E m \in 0 .. TASK_MAX - 1 : \E r \in [1 .. m -> TaskSlots] :
               GoodList(u, st2, pr, out, TRUE, o, m, r)
  <2>1. CASE o = old
    <3> DEFINE d == Drop(n, s, j)
    <3>1. \A k \in 1 .. n - 1 : d[k] = IF k < j THEN s[k] ELSE s[k + 1]
      BY DEF Drop
    <3> HIDE DEF d
    <3>2. \A k \in 1 .. n : k # j => s[k] # i
      BY <1>5, <1>6 DEF IsList
    <3>3. \A k \in 1 .. n - 1 : st2[d[k]] = "READY" /\ pr[d[k]] = old /\ d[k] \notin out
      BY <1>2, <1>4, <3>1, <3>2 DEF GoodList
    <3>4. ASSUME NEW k \in TaskSlots, st2[k] = "READY", pr[k] = old
          PROVE  \E l \in 1 .. n - 1 : d[l] = k
      <4>1. PICK l \in 1 .. n : s[l] = k
        BY <1>2, <1>4, <3>4 DEF GoodList
      <4>2. l # j
        BY <1>2, <1>6, <3>4, <4>1
      <4>3. CASE l < j
        BY <3>1, <4>1, <4>3
      <4>4. CASE l > j
        <5>1. l - 1 \in 1 .. n - 1 /\ d[l - 1] = s[l]
          BY <3>1, <4>4
        <5> QED BY <4>1, <5>1
      <4> QED BY <4>2, <4>3, <4>4
    <3>5. GoodList(u, st2, pr, out, TRUE, o, n - 1, d)
      BY <1>8, <2>1, <3>3, <3>4 DEF GoodList, d
    <3> QED BY <1>8, <3>5 DEF d
  <2>2. CASE o # old
    <3>1. PICK m \in 0 .. TASK_MAX - 1 : \E r \in [1 .. m -> TaskSlots] :
                 GoodList(q, st, pr, out, TRUE, o, m, r)
      BY DEF GoodLists
    <3>2. PICK r \in [1 .. m -> TaskSlots] : GoodList(q, st, pr, out, TRUE, o, m, r)
      BY <3>1
    <3>3. \A k \in 1 .. m : r[k] \in Slots /\ r[k] # i /\ (j > 1 => r[k] # s[j - 1])
      BY <1>1, <1>4, <2>2, <3>2 DEF GoodList
    <3>4. IsList(u, o, m, r)
      BY <1>8, <2>2, <3>2, <3>3 DEF GoodList, IsList
    <3>5. GoodList(u, st2, pr, out, TRUE, o, m, r)
      BY <1>2, <2>2, <3>2, <3>3, <3>4 DEF GoodList
    <3> QED BY <3>5
  <2> QED BY <2>1, <2>2
<1>10. GoodLists(u, st2, pr, out, TRUE)
  BY <1>9 DEF GoodLists
<1>11. u.head[p] # 0 => u.tail[p] \in TaskSlots /\ st2[u.tail[p]] = "READY"
  <2>1. PICK m \in 0 .. TASK_MAX - 1 : \E r \in [1 .. m -> TaskSlots] :
               GoodList(u, st2, pr, out, TRUE, p, m, r)
    BY <1>9
  <2>2. PICK r \in [1 .. m -> TaskSlots] : GoodList(u, st2, pr, out, TRUE, p, m, r)
    BY <2>1
  <2>3. IsList(u, p, m, r)
    BY <2>2 DEF GoodList
  <2>4. \A k \in 1 .. m : r[k] \in TaskSlots /\ st2[r[k]] = "READY"
    BY <2>2 DEF GoodList
  <2>5. u.head[p] # 0 => m > 0 /\ u.tail[p] = r[m]
    BY <1>8, <2>3, ListEnds
  <2> QED BY <2>4, <2>5
<1>12. e = Enqueue(u, p, i)
  BY <1>2, <1>8, <1>11, ClearAfterLink DEF Requeue, u
<1> HIDE DEF e
<1>13. [st2 EXCEPT ![i] = "READY"] = st
  BY <1>1 DEF st2
<1>14. e \in RQType /\ GoodLists(e, st, [pr EXCEPT ![i] = p], out, TRUE)
  BY <1>2, <1>8, <1>10, <1>12, <1>13, EnqueueGood
<1>15. ASSUME NEW k \in TaskSlots, st[k] # "READY"
       PROVE  e.next[k] = 0
  <2>1. k # i /\ (j > 1 => k # s[j - 1]) /\ (u.head[p] # 0 => k # u.tail[p])
    BY <1>2, <1>4, <1>11, <1>15 DEF GoodList
  <2>2. u.next[k] = 0
    BY <1>1, <1>8, <1>15, <2>1 DEF FreeUnlinked
  <2>3. e.next[k] = u.next[k]
    <3>1. k \in Slots /\ u \in RQType /\ u.next \in [Slots -> Slots]
      BY <1>1, <1>8 DEF RQType
    <3>2. CASE u.head[p] = 0
      <4>1. e = [next |-> [u.next EXCEPT ![i] = 0], head |-> [u.head EXCEPT ![p] = i],
                 tail |-> [u.tail EXCEPT ![p] = i]]
        BY <1>12, <3>1, <3>2, EnqueueShape
      <4> QED BY <2>1, <3>1, <4>1
    <3>3. CASE u.head[p] # 0
      <4>1. e = [next |-> [u.next EXCEPT ![i] = 0, ![u.tail[p]] = i], head |-> u.head,
                 tail |-> [u.tail EXCEPT ![p] = i]]
        BY <1>12, <3>1, <3>3, EnqueueShape
      <4> QED BY <2>1, <3>1, <3>3, <4>1
    <3> QED BY <3>2, <3>3
  <2> QED BY <2>2, <2>3
<1> QED BY <1>14, <1>15 DEF e, FreeUnlinked

-----------------------------------------------------------------------------
(* The inductive invariant: one lemma per action.                          *)

LEMMA InitInv == Init => IInv
<1> SUFFICES ASSUME Init PROVE IInv
  OBVIOUS
<1> USE SchedConstants
<1>1. TypeOK /\ IdsAreSlots /\ RunningIsCurrent /\ CurrentCreated /\ BootSlots
  <2>1. TypeOK
    <3>1. /\ 0 \in Slots /\ 1 \in Prios /\ 0 \in 0 .. TASK_MAX - 1 /\ 0 \in 0 .. MAX_SLEEP
          /\ 1 \in 1 .. TASK_MAX /\ 0 \in 0 .. TICK_MOD - 1 /\ 0 \in 0 .. TASK_MAX
          /\ "EMPTY" \in States
      BY DEF Slots, Prios, States
    <3> QED BY <3>1 DEF Init, TypeOK, TASK_PRIORITY_NORMAL
  <2>2. IdsAreSlots /\ RunningIsCurrent /\ CurrentCreated
    BY DEF Init, IdsAreSlots, RunningIsCurrent, CurrentCreated, Slots, TaskSlots
  <2>3. BootSlots
    BY DEF Init, BootSlots, Slots, TaskSlots
  <2> QED BY <2>1, <2>2, <2>3
<1>2. ASSUME NEW p \in Prios
      PROVE  \E n \in 0 .. TASK_MAX - 1 : \E s \in [1 .. n -> TaskSlots] :
               GoodList(rq, state, priority, IF irq = 0 THEN {current_task} ELSE {},
                        ~scheduler_running, p, n, s)
  <2> DEFINE s == [k \in 1 .. 0 |-> 1]
  <2>1. 0 \in 0 .. TASK_MAX - 1 /\ s \in [1 .. 0 -> TaskSlots]
    BY DEF TaskSlots
  <2>2. IsList(rq, p, 0, s)
    BY DEF Init, IsList
  <2>3. \A i \in TaskSlots : state[i] # "READY"
    BY DEF Init, TaskSlots, Slots
  <2> HIDE DEF s
  <2>4. GoodList(rq, state, priority, IF irq = 0 THEN {current_task} ELSE {},
                 ~scheduler_running, p, 0, s)
    BY <2>2, <2>3 DEF GoodList
  <2> QED BY <2>1, <2>4
<1> QED BY <1>1, <1>2 DEF IInv, ReadyQueuesSound, GoodLists

\* What the action lemmas start from.
LEMMA InvFacts ==
  ASSUME IInv
  PROVE  /\ rq \in RQType /\ state \in [Slots -> States] /\ priority \in [Slots -> Prios]
         /\ current_task \in Slots /\ priority[current_task] \in Prios
         /\ irq = 0 => GoodLists(rq, state, priority, {current_task}, ~scheduler_running)
         /\ GoodLists(rq, state, priority, {}, ~scheduler_running)
         /\ TaskSlots \subseteq Slots /\ 0 \notin TaskSlots /\ 0 \in Slots
         /\ (~scheduler_running) \in BOOLEAN
<1>1. /\ rq \in RQType /\ state \in [Slots -> States] /\ priority \in [Slots -> Prios]
      /\ current_task \in Slots /\ priority[current_task] \in Prios
      /\ (~scheduler_running) \in BOOLEAN
  BY DEF IInv, TypeOK, RQType
<1>2. irq = 0 => GoodLists(rq, state, priority, {current_task}, ~scheduler_running)
  BY DEF IInv, ReadyQueuesSound
<1>3. irq # 0 => GoodLists(rq, state, priority, {}, ~scheduler_running)
  BY DEF IInv, ReadyQueuesSound
<1>4. GoodLists(rq, state, priority, {}, ~scheduler_running)
  BY <1>1, <1>2, <1>3, WeakerGood
<1> QED BY <1>1, <1>2, <1>4, SchedConstants DEF TaskSlots, Slots

LEMMA CreateInv ==
  ASSUME IInv, NEW prio \in 0 .. TASK_PRIORITY_MAX + 1, TaskCreatePriority(prio)
  PROVE  IInv'
<1> USE SchedConstants
<1>1. PICK slot \in TaskSlots :
        /\ First({i \in TaskSlots : state[i] = "EMPTY"}, slot)
        /\ id' = [id EXCEPT ![slot] = task_counter]
        /\ state' = [state EXCEPT ![slot] = "READY"]
        /\ wake_time' = [wake_time EXCEPT ![slot] = 0]
        /\ priority' = [priority EXCEPT ![slot] = Clip(prio)]
        /\ rq' = Enqueue(rq, Clip(prio), slot)
  BY DEF TaskCreatePriority
<1>2. /\ irq = 0 /\ task_counter' = task_counter + 1
      /\ UNCHANGED <<current_task, scheduler_running, tick_count, irq>>
  BY DEF TaskCreatePriority
<1>3. Clip(prio) \in Prios
  BY DEF Clip, Prios
<1>4. state[slot] = "EMPTY" /\ slot = task_counter /\ slot # current_task
  <2>1. state[slot] = "EMPTY" /\ \A i \in TaskSlots : state[i] = "EMPTY" => slot <= i
    BY <1>1 DEF First
  <2>2. slot >= task_counter /\ task_counter \in 1 .. TASK_MAX
    BY <2>1 DEF IInv, TypeOK, IdsAreSlots, TaskSlots
  <2>3. task_counter \in TaskSlots => state[task_counter] = "EMPTY"
    BY <2>2 DEF IInv, IdsAreSlots, TaskSlots
  <2> QED BY <2>1, <2>2, <2>3 DEF IInv, CurrentCreated, TaskSlots
<1>5. rq' \in RQType /\ GoodLists(rq', state', priority', {current_task}, ~scheduler_running)
  <2>1. /\ Enqueue(rq, Clip(prio), slot) \in RQType
        /\ GoodLists(Enqueue(rq, Clip(prio), slot), [state EXCEPT ![slot] = "READY"],
                     [priority EXCEPT ![slot] = Clip(prio)], {current_task}, ~scheduler_running)
    <3>1. slot \notin {current_task} /\ state[slot] # "READY"
      BY <1>4
    <3> QED BY <1>2, <1>3, <3>1, InvFacts, EnqueueGood
  <2> QED BY <1>1, <2>1
<1>6. ReadyQueuesSound'
  BY <1>2, <1>5 DEF ReadyQueuesSound
<1>7. TypeOK'
  <2>1. id' \in [Slots -> 0 .. TASK_MAX - 1] /\ task_counter' \in 1 .. TASK_MAX
    <3>1. id \in [Slots -> 0 .. TASK_MAX - 1] /\ task_counter \in 1 .. TASK_MAX - 1
      BY <1>4 DEF IInv, TypeOK, TaskSlots
    <3>2. task_counter \in 0 .. TASK_MAX - 1 /\ task_counter + 1 \in 1 .. TASK_MAX
      BY <3>1
    <3>3. [id EXCEPT ![slot] = task_counter] \in [Slots -> 0 .. TASK_MAX - 1]
      BY <3>1, <3>2
    <3> QED BY <1>1, <1>2, <3>2, <3>3
  <2>2. state' \in [Slots -> States] /\ priority' \in [Slots -> Prios]
    BY <1>1, <1>3 DEF IInv, TypeOK, States
  <2>3. wake_time' \in [Slots -> 0 .. MAX_SLEEP]
    <3>1. wake_time \in [Slots -> 0 .. MAX_SLEEP] /\ 0 \in 0 .. MAX_SLEEP
      BY DEF IInv, TypeOK
    <3> QED BY <1>1, <3>1
  <2> QED BY <1>2, <1>5, <2>1, <2>2, <2>3 DEF IInv, TypeOK, RQType
<1>8. IdsAreSlots' /\ RunningIsCurrent' /\ CurrentCreated'
  <2>1. /\ id \in [Slots -> 0 .. TASK_MAX - 1] /\ state \in [Slots -> States]
        /\ slot \in Slots /\ slot # 0 /\ slot \in Nat
    <3>1. id \in [Slots -> 0 .. TASK_MAX - 1] /\ state \in [Slots -> States]
      BY DEF IInv, TypeOK
    <3>2. slot \in Slots /\ slot # 0 /\ slot \in Nat
      BY DEF TaskSlots, Slots
    <3> QED BY <3>1, <3>2
  <2>2. /\ id'[slot] = slot /\ state'[slot] = "READY"
        /\ \A i \in Slots : i # slot => id'[i] = id[i] /\ state'[i] = state[i]
    BY <1>1, <1>4, <2>1
  <2>3. IdsAreSlots'
    BY <1>2, <1>4, <2>1, <2>2, InvFacts DEF IInv, IdsAreSlots, TaskSlots
  <2>4. RunningIsCurrent'
    BY <1>2, <2>2 DEF IInv, RunningIsCurrent
  <2>5. CurrentCreated'
    BY <1>2, <1>4, <2>1, <2>2, InvFacts DEF IInv, CurrentCreated
  <2> QED BY <2>3, <2>4, <2>5
<1>9. BootSlots'
  <2> SUFFICES ASSUME ~scheduler_running, NEW i \in TaskSlots, state'[i] # "READY"
               PROVE  state'[i] = "EMPTY" /\ rq'.next[i] = 0
    BY <1>2 DEF BootSlots
  <2>1. i # slot /\ state'[i] = state[i] /\ state[i] = "EMPTY" /\ rq.next[i] = 0
    BY <1>1, InvFacts DEF IInv, BootSlots
  <2>2. PICK n \in 0 .. TASK_MAX - 1 : \E s \in [1 .. n -> TaskSlots] :
               GoodList(rq, state, priority, {}, ~scheduler_running, Clip(prio), n, s)
    BY <1>3, InvFacts DEF GoodLists
  <2>3. PICK s \in [1 .. n -> TaskSlots] :
               GoodList(rq, state, priority, {}, ~scheduler_running, Clip(prio), n, s)
    BY <2>2
  <2>4. rq.head[Clip(prio)] # 0 => rq.tail[Clip(prio)] # i
    BY <1>3, <2>1, <2>3, InvFacts, ListEnds DEF GoodList
  <2>5. rq.next \in [Slots -> Slots] /\ i \in Slots
    BY InvFacts DEF RQType
  <2>6. CASE rq.head[Clip(prio)] = 0
    <3>1. rq' = [next |-> [rq.next EXCEPT ![slot] = 0],
                 head |-> [rq.head EXCEPT ![Clip(prio)] = slot],
                 tail |-> [rq.tail EXCEPT ![Clip(prio)] = slot]]
      BY <1>1, <1>3, <2>6, InvFacts, EnqueueShape
    <3> QED BY <2>1, <2>5, <3>1
  <2>7. CASE rq.head[Clip(prio)] # 0
    <3>1. rq' = [next |-> [rq.next EXCEPT ![slot] = 0, ![rq.tail[Clip(prio)]] = slot],
                 head |-> rq.head, tail |-> [rq.tail EXCEPT ![Clip(prio)] = slot]]
      BY <1>1, <1>3, <2>7, InvFacts, EnqueueShape
    <3> QED BY <2>1, <2>4, <2>5, <2>7, <3>1
  <2> QED BY <2>6, <2>7
<1> QED BY <1>6, <1>7, <1>8, <1>9 DEF IInv

LEMMA SetPriorityInv ==
  ASSUME IInv, NEW t \in TaskSlots, NEW prio \in 0 .. TASK_PRIORITY_MAX + 1,
         SetPriorityAtBoot(t, prio)
  PROVE  IInv'
<1> USE SchedConstants
<1>1. PICK i \in TaskSlots :
        /\ First({j \in TaskSlots : id[j] = t}, i)
        /\ priority[i] # Clip(prio)
        /\ priority' = [priority EXCEPT ![i] = Clip(prio)]
        /\ rq' = Requeue(rq, priority[i], Clip(prio), i)
  BY DEF SetPriorityAtBoot, TaskSetPriority
<1>2. /\ irq = 0 /\ ~scheduler_running
      /\ UNCHANGED <<id, state, wake_time, current_task, task_counter, scheduler_running,
                     tick_count, irq>>
  BY DEF SetPriorityAtBoot, TaskSetPriority
<1>3. Clip(prio) \in Prios
  BY DEF Clip, Prios
<1>4. current_task = 0 /\ FreeUnlinked(rq, state)
  BY <1>2 DEF IInv, CurrentCreated, BootSlots, FreeUnlinked
<1>5. state[i] = "READY" /\ i # current_task
  BY <1>1, <1>2, <1>4 DEF IInv, IdsAreSlots, BootSlots, First, TaskSlots
<1>6. GoodLists(rq, state, priority, {current_task}, TRUE)
  BY <1>2, InvFacts, WeakerGood
<1>7. /\ rq' \in RQType
      /\ GoodLists(rq', state, priority', {current_task}, TRUE)
      /\ FreeUnlinked(rq', state)
  <2>1. i \notin {current_task} /\ Clip(prio) # priority[i]
    BY <1>1, <1>5
  <2>2. rq \in RQType /\ state \in [Slots -> States] /\ priority \in [Slots -> Prios]
    BY InvFacts
  <2>3. /\ Requeue(rq, priority[i], Clip(prio), i) \in RQType
        /\ GoodLists(Requeue(rq, priority[i], Clip(prio), i), state,
                     [priority EXCEPT ![i] = Clip(prio)], {current_task}, TRUE)
        /\ FreeUnlinked(Requeue(rq, priority[i], Clip(prio), i), state)
    BY <1>3, <1>4, <1>5, <1>6, <2>1, <2>2, MoveGood
  <2> QED BY <1>1, <2>3
<1>8. ReadyQueuesSound'
  BY <1>2, <1>7 DEF ReadyQueuesSound
<1>9. TypeOK'
  BY <1>1, <1>2, <1>3, <1>7 DEF IInv, TypeOK, RQType
<1>10. IdsAreSlots' /\ RunningIsCurrent' /\ CurrentCreated' /\ BootSlots'
  BY <1>2, <1>7 DEF IInv, IdsAreSlots, RunningIsCurrent, CurrentCreated, BootSlots, FreeUnlinked
<1> QED BY <1>8, <1>9, <1>10 DEF IInv

\* task_yield, called by a task or at the end of timer_handler: what it does to
\* the lists and to the task on the CPU.
LEMMA YieldGood ==
  ASSUME IInv, Yield
  PROVE  /\ rq' \in RQType /\ state' \in [Slots -> States]
         /\ GoodLists(rq', state', priority, {current_task'}, ~scheduler_running)
         /\ \A i \in Slots : /\ state'[i] = "EMPTY" <=> state[i] = "EMPTY"
                             /\ state'[i] = "RUNNING" => i = current_task'
         /\ \/ ~scheduler_running /\ UNCHANGED <<rq, state, current_task>>
            \/ /\ scheduler_running
               /\ current_task' \in TaskSlots /\ state'[current_task'] # "EMPTY"
               /\ priority[current_task'] = priority[current_task]
<1> DEFINE prio == priority[current_task]
<1>1. /\ scheduler_running => current_task \in TaskSlots /\ state[current_task] # "EMPTY"
      /\ ~scheduler_running => current_task = 0
      /\ scheduler_running \in BOOLEAN
  BY SchedConstants DEF IInv, TypeOK, CurrentCreated, IdsAreSlots, TaskSlots
<1>2. RunningIsCurrent
  BY DEF IInv
<1>3. CASE scheduler_running /\ rq.head[prio] # 0
  <2> DEFINE h == rq.head[prio]
  <2>1. /\ Pop(rq, prio) \in RQType
        /\ h \in TaskSlots /\ state[h] = "READY" /\ priority[h] = prio
        /\ GoodLists(Pop(rq, prio), state, priority, {h}, FALSE)
    BY <1>3, InvFacts, PopGood
  <2>2. current_task' = h /\ current_task # 0
    BY <1>1, <1>3, InvFacts DEF Yield
  <2>3. CASE state[current_task] = "RUNNING"
    <3>1. state' = [state EXCEPT ![current_task] = "READY"]
          /\ rq' = Enqueue(Pop(rq, prio), prio, current_task)
      BY <1>3, <2>2, <2>3 DEF Yield
    <3>2. current_task \notin {h} /\ state[current_task] # "READY" /\ current_task \in TaskSlots
      BY <1>1, <1>3, <2>1, <2>3
    <3>3. [priority EXCEPT ![current_task] = prio] = priority
      BY InvFacts
    <3>4. /\ Enqueue(Pop(rq, prio), prio, current_task) \in RQType
          /\ GoodLists(Enqueue(Pop(rq, prio), prio, current_task),
                       [state EXCEPT ![current_task] = "READY"],
                       [priority EXCEPT ![current_task] = prio], {h}, FALSE)
      BY <2>1, <3>2, InvFacts, EnqueueGood
    <3>5. GoodLists(rq', state', priority, {current_task'}, FALSE)
      BY <2>2, <3>1, <3>3, <3>4
    <3>6. state' \in [Slots -> States] /\ \A i \in Slots \ {current_task} : state'[i] = state[i]
      BY <3>1, InvFacts DEF States
    <3>7. state'[current_task] = "READY"
      BY <3>1, InvFacts
    <3>8. GoodLists(rq', state', priority, {current_task'}, ~scheduler_running)
      BY <1>1, <1>3, <3>5, WeakerGood
    <3>9. \A i \in Slots : /\ state'[i] = "EMPTY" <=> state[i] = "EMPTY"
                           /\ state'[i] = "RUNNING" => i = current_task'
      BY <1>2, <2>3, <3>6, <3>7 DEF RunningIsCurrent
    <3>10. h \in Slots /\ h # current_task
      BY <2>1, <3>2, InvFacts
    <3>11. state'[h] = "READY"
      BY <2>1, <3>6, <3>10
    <3>12. rq' \in RQType
      BY <3>1, <3>4
    <3> QED BY <1>3, <2>1, <2>2, <3>6, <3>8, <3>9, <3>11, <3>12
  <2>4. CASE state[current_task] # "RUNNING"
    <3>1. state' = state /\ rq' = Pop(rq, prio)
      BY <1>3, <2>2, <2>4 DEF Yield
    <3>2. GoodLists(rq', state', priority, {current_task'}, ~scheduler_running)
      BY <1>1, <1>3, <2>1, <2>2, <3>1, WeakerGood
    <3>3. \A i \in Slots : state[i] # "RUNNING"
      BY <1>2, <2>4 DEF RunningIsCurrent
    <3> QED BY <1>3, <2>1, <2>2, <3>1, <3>2, <3>3, InvFacts
  <2> QED BY <2>3, <2>4
<1>4. CASE ~(scheduler_running /\ rq.head[prio] # 0)
  <2>1. UNCHANGED <<rq, state, current_task>>
    BY <1>4 DEF Yield
  <2>2. GoodLists(rq, state, priority, {current_task}, ~scheduler_running)
    <3>1. CASE ~scheduler_running
      <4>1. \A i \in TaskSlots : i \notin {current_task}
        BY <1>1, <3>1, InvFacts
      <4>2. GoodLists(rq, state, priority, {}, ~scheduler_running) /\ (~scheduler_running) \in BOOLEAN
        BY InvFacts
      <4> QED BY <4>1, <4>2, WeakerGood
    <3>2. CASE scheduler_running
      <4>1. rq.head[prio] = 0
        BY <1>4, <3>2
      <4> SUFFICES ASSUME NEW o \in Prios
                   PROVE  \E m \in 0 .. TASK_MAX - 1 : \E r \in [1 .. m -> TaskSlots] :
                            GoodList(rq, state, priority, {current_task}, ~scheduler_running,
                                     o, m, r)
        BY DEF GoodLists
      <4>2. PICK m \in 0 .. TASK_MAX - 1 : \E r \in [1 .. m -> TaskSlots] :
                   GoodList(rq, state, priority, {}, ~scheduler_running, o, m, r)
        BY InvFacts DEF GoodLists
      <4>3. PICK r \in [1 .. m -> TaskSlots] :
                   GoodList(rq, state, priority, {}, ~scheduler_running, o, m, r)
        BY <4>2
      <4>4. \A k \in 1 .. m : r[k] # current_task
        <5>1. IsList(rq, o, m, r)
          BY <4>3 DEF GoodList
        <5>2. o = prio => m = 0
          BY <4>1, <5>1, InvFacts, ListEnds
        <5> QED BY <4>3, <5>2 DEF GoodList
      <4>5. GoodList(rq, state, priority, {current_task}, ~scheduler_running, o, m, r)
        BY <4>3, <4>4 DEF GoodList
      <4> QED BY <4>5
    <3> QED BY <3>1, <3>2
  <2> QED BY <1>1, <1>2, <2>1, <2>2, InvFacts DEF RunningIsCurrent
<1> QED BY <1>3, <1>4

LEMMA YieldInv ==
  ASSUME IInv, Yield, irq' = 0,
         UNCHANGED <<id, priority, wake_time, task_counter, scheduler_running, tick_count>>
  PROVE  IInv'
<1>1. ReadyQueuesSound'
  BY YieldGood DEF ReadyQueuesSound
<1>2. TypeOK'
  <2>1. current_task' \in Slots
    BY YieldGood, InvFacts
  <2>2. irq' \in 0 .. TASK_MAX
    BY SchedConstants
  <2> QED BY <2>1, <2>2, YieldGood DEF IInv, TypeOK, RQType
<1>3. IdsAreSlots' /\ RunningIsCurrent'
  BY YieldGood, InvFacts DEF IInv, IdsAreSlots, RunningIsCurrent
<1>4. state'[0] = "EMPTY"
  BY YieldGood, InvFacts DEF IInv, CurrentCreated
<1>5. CASE scheduler_running
  <2>1. current_task' \in TaskSlots /\ state[current_task'] # "EMPTY"
    BY <1>5, YieldGood, InvFacts
  <2>2. current_task' \in 1 .. task_counter - 1
    BY <2>1, SchedConstants DEF IInv, TypeOK, IdsAreSlots, TaskSlots
  <2> QED BY <1>1, <1>2, <1>3, <1>4, <1>5, <2>2 DEF IInv, CurrentCreated, BootSlots
<1>6. CASE ~scheduler_running
  BY <1>1, <1>2, <1>3, <1>4, <1>6, YieldGood DEF IInv, CurrentCreated, BootSlots
<1> QED BY <1>5, <1>6

LEMMA SleepInv ==
  ASSUME IInv, NEW ms \in 0 .. MAX_SLEEP, TaskSleep(ms)
  PROVE  IInv'
<1> DEFINE prio == priority[current_task]
           st2 == [state EXCEPT ![current_task] = "BLOCKED"]
<1>1. /\ irq = 0 /\ scheduler_running /\ current_task # 0
      /\ state' = st2 /\ wake_time' = [wake_time EXCEPT ![current_task] = ms]
      /\ UNCHANGED <<id, priority, task_counter, scheduler_running, tick_count, irq>>
  BY DEF TaskSleep
<1>2. st2 \in [Slots -> States] /\ \A i \in Slots \ {current_task} : st2[i] = state[i]
  BY InvFacts DEF States
<1>3. st2[current_task] = "BLOCKED"
  BY InvFacts
<1>4. GoodLists(rq, st2, priority, {current_task}, FALSE)
  BY <1>1, InvFacts, StateGood DEF States
<1> HIDE DEF st2
<1>5. /\ rq' \in RQType /\ GoodLists(rq', st2, priority, {current_task'}, FALSE)
      /\ current_task' \in TaskSlots /\ state[current_task'] # "EMPTY"
  <2>1. CASE rq.head[prio] = 0
    <3>1. rq' = rq /\ current_task' = current_task
      BY <2>1 DEF TaskSleep
    <3>2. current_task \in TaskSlots /\ state[current_task] # "EMPTY"
      BY <1>1, SchedConstants DEF IInv, TypeOK, CurrentCreated, IdsAreSlots, TaskSlots
    <3> QED BY <1>4, <3>1, <3>2, InvFacts
  <2>2. CASE rq.head[prio] # 0
    <3>1. rq' = Pop(rq, prio) /\ current_task' = rq.head[prio]
      BY <2>2 DEF TaskSleep
    <3>2. /\ Pop(rq, prio) \in RQType
          /\ rq.head[prio] \in TaskSlots /\ st2[rq.head[prio]] = "READY"
          /\ GoodLists(Pop(rq, prio), st2, priority, {rq.head[prio]}, FALSE)
      <4>1. rq \in RQType /\ priority \in [Slots -> Prios] /\ prio \in Prios /\ FALSE \in BOOLEAN
        BY InvFacts
      <4>2. st2 \in [Slots -> States]
        BY <1>2
      <4> HIDE DEF prio
      <4>3. rq.head[prio] # 0
        BY <2>2
      <4>4. PICK out : out = {current_task}
        OBVIOUS
      <4>5. GoodLists(rq, st2, priority, out, FALSE)
        BY ONLY <1>4, <4>4, Zenon
      <4>6. PICK p \in Prios : p = prio
        BY <4>1
      <4>7. rq.head[p] # 0
        BY ONLY <4>3, <4>6, Zenon
      <4>8. /\ Pop(rq, p) \in RQType
            /\ rq.head[p] \in TaskSlots /\ st2[rq.head[p]] = "READY" /\ priority[rq.head[p]] = p
            /\ GoodLists(Pop(rq, p), st2, priority, {rq.head[p]}, FALSE)
        BY <4>1, <4>2, <4>5, <4>7, PopGood
      <4> QED BY ONLY <4>6, <4>8, Zenon
    <3>3. state[rq.head[prio]] # "EMPTY"
      BY <1>2, <1>3, <3>2, InvFacts
    <3> QED BY <3>1, <3>2, <3>3
  <2> QED BY <2>1, <2>2
<1>6. ReadyQueuesSound'
  <2>1. GoodLists(rq', st2, priority, {current_task'}, ~scheduler_running)
    BY <1>1, <1>5, InvFacts, WeakerGood
  <2> QED BY <1>1, <2>1 DEF ReadyQueuesSound
<1>7. TypeOK'
  <2>1. wake_time' \in [Slots -> 0 .. MAX_SLEEP]
    BY <1>1 DEF IInv, TypeOK
  <2> QED BY <1>1, <1>2, <1>5, <2>1, InvFacts DEF IInv, TypeOK, RQType
<1>8. IdsAreSlots'
  <2>1. \A i \in TaskSlots : st2[i] = "EMPTY" <=> state[i] = "EMPTY"
    <3>1. state[current_task] # "EMPTY"
      <4>1. current_task \in 1 .. task_counter - 1 /\ task_counter \in 1 .. TASK_MAX
        BY <1>1 DEF IInv, TypeOK, CurrentCreated
      <4>2. current_task \in TaskSlots /\ current_task < task_counter
        BY <4>1, SchedConstants DEF TaskSlots
      <4> QED BY <4>2 DEF IInv, IdsAreSlots
    <3> QED BY <1>2, <1>3, <3>1, InvFacts
  <2> QED BY <1>1, <2>1 DEF IInv, IdsAreSlots
<1>9. RunningIsCurrent'
  BY <1>1, <1>2, <1>3 DEF IInv, RunningIsCurrent
<1>10. CurrentCreated' /\ BootSlots'
  <2>1. current_task' \in 1 .. task_counter - 1
    BY <1>5, SchedConstants DEF IInv, TypeOK, IdsAreSlots, TaskSlots
  <2>2. st2[0] = "EMPTY"
    BY <1>1, <1>2, InvFacts DEF IInv, CurrentCreated
  <2> QED BY <1>1, <2>1, <2>2 DEF CurrentCreated, BootSlots
<1> QED BY <1>6, <1>7, <1>8, <1>9, <1>10 DEF IInv

\* task_wake, called for a task other than the caller or by sched_tick.
LEMMA WakeInv ==
  ASSUME IInv, NEW t, Wake(t), irq = 0 => t # id[current_task],
         irq' = irq \/ irq' # 0, irq' \in 0 .. TASK_MAX,
         UNCHANGED <<id, priority, current_task, task_counter, scheduler_running, tick_count>>
  PROVE  IInv'
<1> DEFINE out == IF irq' = 0 THEN {current_task} ELSE {}
           blocked == {i \in TaskSlots : id[i] = t /\ state[i] = "BLOCKED"}
<1>1. GoodLists(rq, state, priority, out, ~scheduler_running)
  BY InvFacts
<1>2. CASE blocked = {}
  <2>1. UNCHANGED <<state, wake_time, rq>>
    BY <1>2 DEF Wake
  <2> QED BY <1>1, <2>1
          DEF IInv, TypeOK, IdsAreSlots, RunningIsCurrent, CurrentCreated, BootSlots,
              ReadyQueuesSound
<1>3. CASE blocked # {}
  <2>1. PICK i \in TaskSlots : /\ First(blocked, i)
                               /\ state' = [state EXCEPT ![i] = "READY"]
                               /\ wake_time' = [wake_time EXCEPT ![i] = 0]
                               /\ rq' = Enqueue(rq, priority[i], i)
    BY <1>3 DEF Wake
  <2>2. id[i] = t /\ state[i] = "BLOCKED" /\ i \in Slots /\ i # 0
    BY <2>1, InvFacts DEF First
  <2>3. i \notin out /\ scheduler_running
    BY <2>2 DEF IInv, BootSlots
  <2>4. [priority EXCEPT ![i] = priority[i]] = priority /\ priority[i] \in Prios
    BY <2>2, InvFacts
  <2>5. /\ Enqueue(rq, priority[i], i) \in RQType
        /\ GoodLists(Enqueue(rq, priority[i], i), [state EXCEPT ![i] = "READY"],
                     [priority EXCEPT ![i] = priority[i]], out, ~scheduler_running)
    <3>1. state[i] # "READY"
      BY <2>2
    <3> HIDE DEF out
    <3> QED BY <1>1, <2>3, <2>4, <3>1, InvFacts, EnqueueGood
  <2>6. ReadyQueuesSound'
    BY <2>1, <2>4, <2>5 DEF ReadyQueuesSound
  <2>7. state' \in [Slots -> States] /\ \A k \in Slots \ {i} : state'[k] = state[k]
    BY <2>1, InvFacts DEF States
  <2>8. state'[i] = "READY"
    BY <2>1, <2>2, InvFacts
  <2>9. TypeOK'
    <3>1. wake_time \in [Slots -> 0 .. MAX_SLEEP] /\ 0 \in 0 .. MAX_SLEEP
      BY SchedConstants DEF IInv, TypeOK
    <3>2. wake_time' \in [Slots -> 0 .. MAX_SLEEP]
      BY <2>1, <3>1
    <3> QED BY <2>1, <2>5, <2>7, <3>2 DEF IInv, TypeOK, RQType
  <2>10. IdsAreSlots' /\ RunningIsCurrent'
    BY <2>2, <2>7, <2>8, InvFacts DEF IInv, IdsAreSlots, RunningIsCurrent
  <2>11. CurrentCreated' /\ BootSlots'
    BY <2>2, <2>3, <2>7, InvFacts DEF IInv, CurrentCreated, BootSlots
  <2> QED BY <2>6, <2>9, <2>10, <2>11 DEF IInv
<1> QED BY <1>2, <1>3

LEMMA StartInv ==
  ASSUME IInv, SchedStart
  PROVE  IInv'
<1>1. /\ irq = 0 /\ ~scheduler_running
      /\ UNCHANGED <<id, priority, wake_time, task_counter, tick_count, irq>>
  BY DEF SchedStart
<1>2. PICK p \in Prios :
        /\ rq.head[p] # 0
        /\ scheduler_running' = TRUE
        /\ current_task' = rq.head[p]
        /\ rq' = Pop(rq, p)
        /\ state' = [state EXCEPT ![rq.head[p]] = "RUNNING"]
  BY DEF SchedStart
<1> DEFINE h == rq.head[p]
<1>3. /\ Pop(rq, p) \in RQType /\ h \in TaskSlots /\ state[h] = "READY"
      /\ GoodLists(Pop(rq, p), state, priority, {h}, FALSE)
  <2>1. /\ rq \in RQType /\ state \in [Slots -> States] /\ priority \in [Slots -> Prios]
        /\ (~scheduler_running) \in BOOLEAN
        /\ GoodLists(rq, state, priority, {}, ~scheduler_running)
    BY InvFacts
  <2>2. rq.head[p] # 0 /\ p \in Prios /\ FALSE \in BOOLEAN
    BY <1>2
  <2>3. GoodLists(rq, state, priority, {}, TRUE)
    BY <1>1, <2>1
  <2>4. rq \in RQType /\ state \in [Slots -> States] /\ priority \in [Slots -> Prios]
    BY ONLY <2>1, Zenon
  <2>5. /\ Pop(rq, p) \in RQType
        /\ rq.head[p] \in TaskSlots /\ state[rq.head[p]] = "READY" /\ priority[rq.head[p]] = p
        /\ GoodLists(Pop(rq, p), state, priority, {rq.head[p]}, FALSE)
    BY <2>2, <2>3, <2>4, PopGood
  <2> QED BY ONLY <2>5, Zenon DEF h
<1>4. h \in Slots /\ h # 0
  BY <1>3, InvFacts
<1>5. GoodLists(Pop(rq, p), [state EXCEPT ![h] = "RUNNING"], priority, {h}, FALSE)
  BY <1>3, <1>4, InvFacts, StateGood DEF States
<1>6. ReadyQueuesSound'
  <2>1. GoodLists(rq', state', priority', {current_task'}, FALSE)
    BY <1>1, <1>2, <1>5
  <2>2. irq' = 0 /\ (~scheduler_running') = FALSE
    BY <1>1, <1>2
  <2> QED BY <2>1, <2>2 DEF ReadyQueuesSound
<1>7. state' \in [Slots -> States] /\ \A k \in Slots \ {h} : state'[k] = state[k]
  BY <1>2, InvFacts DEF States
<1>8. state'[h] = "RUNNING"
  BY <1>2, <1>4, InvFacts
<1>9. TypeOK'
  <2>1. scheduler_running' \in BOOLEAN /\ current_task' \in Slots /\ rq' \in RQType
    BY <1>2, <1>3, <1>4
  <2> QED BY <1>1, <1>7, <2>1 DEF IInv, TypeOK, RQType
<1>10. IdsAreSlots'
  BY <1>1, <1>3, <1>7, <1>8, InvFacts DEF IInv, IdsAreSlots
<1>11. RunningIsCurrent'
  <2>1. \A k \in Slots : state[k] # "RUNNING"
    BY <1>1, SchedConstants DEF IInv, CurrentCreated, BootSlots, Slots, TaskSlots
  <2> QED BY <1>2, <1>7, <2>1 DEF RunningIsCurrent
<1>12. CurrentCreated' /\ BootSlots'
  <2>1. h \in 1 .. task_counter - 1
    BY <1>3, SchedConstants DEF IInv, TypeOK, IdsAreSlots, TaskSlots
  <2>2. state'[0] = "EMPTY"
    BY <1>4, <1>7, InvFacts DEF IInv, CurrentCreated
  <2> QED BY <1>1, <1>2, <2>1, <2>2 DEF CurrentCreated, BootSlots
<1> QED BY <1>6, <1>9, <1>10, <1>11, <1>12 DEF IInv

LEMMA TickInv ==
  ASSUME IInv, SchedTick
  PROVE  IInv'
<1>1. /\ irq \in TaskSlots /\ irq' = irq + 1
      /\ UNCHANGED <<id, priority, current_task, task_counter, scheduler_running, tick_count>>
  BY DEF SchedTick
<1>2. irq # 0 /\ irq' # 0 /\ irq' \in 0 .. TASK_MAX /\ irq \in Slots
  BY <1>1, SchedConstants DEF TaskSlots, Slots
<1>3. CASE state[irq] = "BLOCKED" /\ wake_time[irq] > 0 /\ wake_time[irq] <= 1
  <2>1. Wake(id[irq])
    BY <1>3 DEF SchedTick
  <2> QED BY <1>1, <1>2, <2>1, WakeInv
<1>4. CASE state[irq] = "BLOCKED" /\ wake_time[irq] > 0 /\ ~(wake_time[irq] <= 1)
  <2>1. wake_time' = [wake_time EXCEPT ![irq] = @ - 1] /\ UNCHANGED <<state, rq>>
    BY <1>4 DEF SchedTick
  <2>2. wake_time \in [Slots -> 0 .. MAX_SLEEP] /\ wake_time[irq] \in 0 .. MAX_SLEEP
    BY <1>2 DEF IInv, TypeOK
  <2>3. wake_time[irq] - 1 \in 0 .. MAX_SLEEP
    BY <1>4, <2>2, SchedConstants
  <2>4. wake_time' \in [Slots -> 0 .. MAX_SLEEP]
    BY <2>1, <2>2, <2>3
  <2> QED BY <1>1, <1>2, <2>1, <2>4
          DEF IInv, TypeOK, IdsAreSlots, RunningIsCurrent, CurrentCreated, BootSlots,
              ReadyQueuesSound
<1>5. CASE ~(state[irq] = "BLOCKED" /\ wake_time[irq] > 0)
  <2>1. UNCHANGED <<state, wake_time, rq>>
    BY <1>5 DEF SchedTick
  <2> QED BY <1>1, <1>2, <2>1
          DEF IInv, TypeOK, IdsAreSlots, RunningIsCurrent, CurrentCreated, BootSlots,
              ReadyQueuesSound
<1> QED BY <1>3, <1>4, <1>5

LEMMA InterruptInv ==
  ASSUME IInv, TimerInterrupt
  PROVE  IInv'
<1>1. /\ irq = 0 /\ irq' = 1 /\ tick_count' = (tick_count + 1) % TICK_MOD
      /\ UNCHANGED <<id, state, priority, wake_time, rq, current_task, task_counter,
                     scheduler_running>>
  BY DEF TimerInterrupt
<1>2. irq' \in 0 .. TASK_MAX /\ tick_count' \in 0 .. TICK_MOD - 1
  <2>1. tick_count + 1 \in Nat
    BY DEF IInv, TypeOK
  <2> QED BY <1>1, <2>1, SchedConstants
<1>3. GoodLists(rq, state, priority, {}, ~scheduler_running)
  BY InvFacts
<1> QED BY <1>1, <1>2, <1>3
        DEF IInv, TypeOK, IdsAreSlots, RunningIsCurrent, CurrentCreated, BootSlots,
            ReadyQueuesSound

-----------------------------------------------------------------------------
(* The theorems.                                                           *)

\* The inductive invariant holds in every reachable state: the scheduler's
\* fields keep their types, and the linked lists of sched.c stay lists.
THEOREM SchedInv == Spec => []IInv
<1>1. IInv /\ [Next]_vars => IInv'
  <2> SUFFICES ASSUME IInv, [Next]_vars PROVE IInv'
    OBVIOUS
  <2>1. CASE UNCHANGED vars
    BY <2>1 DEF vars, IInv, TypeOK, IdsAreSlots, RunningIsCurrent, CurrentCreated, BootSlots,
                ReadyQueuesSound
  <2>2. ASSUME NEW prio \in 0 .. TASK_PRIORITY_MAX + 1, TaskCreatePriority(prio) PROVE IInv'
    BY <2>2, CreateInv
  <2>3. ASSUME NEW t \in TaskSlots, NEW prio \in 0 .. TASK_PRIORITY_MAX + 1,
               SetPriorityAtBoot(t, prio)
        PROVE  IInv'
    BY <2>3, SetPriorityInv
  <2>4. CASE TaskYield
    BY <2>4, YieldInv DEF TaskYield
  <2>5. ASSUME NEW ms \in 0 .. MAX_SLEEP, TaskSleep(ms) PROVE IInv'
    BY <2>5, SleepInv
  <2>6. ASSUME NEW t \in TaskSlots, WakeOther(t) PROVE IInv'
    <3>1. /\ irq = 0 /\ Wake(t) /\ t # id[current_task] /\ irq' = irq
          /\ UNCHANGED <<id, priority, current_task, task_counter, scheduler_running,
                         tick_count>>
      BY <2>6 DEF WakeOther, TaskWake
    <3>2. irq' \in 0 .. TASK_MAX
      BY <3>1, SchedConstants
    <3> QED BY <3>1, <3>2, WakeInv
  <2>7. CASE SchedStart
    BY <2>7, StartInv
  <2>8. CASE TimerInterrupt
    BY <2>8, InterruptInv
  <2>9. CASE SchedTick
    BY <2>9, TickInv
  <2>10. CASE TimerYield
    BY <2>10, YieldInv DEF TimerYield
  <2> QED BY <2>1, <2>2, <2>3, <2>4, <2>5, <2>6, <2>7, <2>8, <2>9, <2>10 DEF Next, Timer
<1> QED BY <1>1, InitInv, PTL DEF Spec

\* Every field of the scheduler keeps its type; in particular every slot number
\* in next, head, tail and current_task indexes tasks[] in bounds.
THEOREM SchedTypeOK == Spec => []TypeOK
<1>1. IInv => TypeOK
  BY DEF IInv
<1> QED BY <1>1, SchedInv, PTL

\* Every ready queue is a well-formed list of READY tasks of its own priority,
\* for any number of tasks and levels and any interleaving of the timer.
THEOREM SchedQueuesSound == Spec => []ReadyQueuesSound
<1>1. IInv => ReadyQueuesSound
  BY DEF IInv
<1> QED BY <1>1, SchedInv, PTL

\* At most one task is RUNNING, the one on the CPU, though task_yield and task_sleep
\* move current_task without a look at the others.
THEOREM SchedRunningIsCurrent == Spec => []RunningIsCurrent
<1>1. IInv => RunningIsCurrent
  BY DEF IInv
<1> QED BY <1>1, SchedInv, PTL

\* A task's id is its slot, and slots are filled in order: sched.c may use either for
\* the other.
THEOREM SchedIdsAreSlots == Spec => []IdsAreSlots
<1>1. IInv => IdsAreSlots
  BY DEF IInv
<1> QED BY <1>1, SchedInv, PTL

\* The front of a queue has the priority of the queue.
LEMMA HeadPriority ==
  ASSUME IInv, NEW p \in Prios, rq.head[p] # 0
  PROVE  priority[rq.head[p]] = p
<1>1. /\ rq \in RQType /\ state \in [Slots -> States] /\ priority \in [Slots -> Prios]
      /\ (~scheduler_running) \in BOOLEAN
      /\ GoodLists(rq, state, priority, {}, ~scheduler_running)
  BY InvFacts
<1>2. /\ Pop(rq, p) \in RQType
      /\ rq.head[p] \in TaskSlots /\ state[rq.head[p]] = "READY" /\ priority[rq.head[p]] = p
      /\ GoodLists(Pop(rq, p), state, priority, {rq.head[p]}, FALSE)
  BY <1>1, PopGood
<1> QED BY <1>2

\* After sched_start the CPU stays at one priority level.
THEOREM SchedOneLevel == Spec => OneLevelRuns
<1> DEFINE Same == priority'[current_task'] = priority[current_task]
<1>1. IInv /\ [Next]_vars => [scheduler_running => Same]_vars
  <2> SUFFICES ASSUME IInv, Next, scheduler_running PROVE Same
    OBVIOUS
  <2>1. ASSUME NEW prio \in 0 .. TASK_PRIORITY_MAX + 1, TaskCreatePriority(prio) PROVE Same
    <3>1. PICK slot \in TaskSlots :
            /\ First({i \in TaskSlots : state[i] = "EMPTY"}, slot)
            /\ priority' = [priority EXCEPT ![slot] = Clip(prio)]
      BY <2>1 DEF TaskCreatePriority
    <3>2. current_task \in 1 .. task_counter - 1 /\ task_counter \in 1 .. TASK_MAX
      BY DEF IInv, TypeOK, CurrentCreated
    <3>3. current_task \in TaskSlots /\ current_task < task_counter
      BY <3>2, SchedConstants DEF TaskSlots
    <3>4. slot # current_task
      BY <3>1, <3>3 DEF IInv, IdsAreSlots, First
    <3>5. current_task' = current_task
      BY <2>1 DEF TaskCreatePriority
    <3> QED BY <3>1, <3>4, <3>5, InvFacts
  <2>2. ASSUME NEW t \in TaskSlots, NEW prio \in 0 .. TASK_PRIORITY_MAX + 1,
               SetPriorityAtBoot(t, prio)
        PROVE  Same
    BY <2>2 DEF SetPriorityAtBoot
  <2>3. CASE TaskYield \/ TimerYield
    <3>1. Yield /\ priority' = priority
      BY <2>3 DEF TaskYield, TimerYield
    <3> QED BY <3>1, YieldGood
  <2>4. ASSUME NEW ms \in 0 .. MAX_SLEEP, TaskSleep(ms) PROVE Same
    <3> DEFINE prio == priority[current_task]
    <3>1. priority' = priority /\ (rq.head[prio] = 0 => current_task' = current_task)
          /\ (rq.head[prio] # 0 => current_task' = rq.head[prio])
      BY <2>4 DEF TaskSleep
    <3>2. rq.head[prio] # 0 => priority[rq.head[prio]] = prio
      BY InvFacts, HeadPriority
    <3> QED BY <3>1, <3>2
  <2>5. ASSUME NEW t \in TaskSlots, WakeOther(t) PROVE Same
    BY <2>5 DEF WakeOther, TaskWake
  <2>6. CASE SchedStart
    BY <2>6 DEF SchedStart
  <2>7. CASE TimerInterrupt \/ SchedTick
    BY <2>7 DEF TimerInterrupt, SchedTick
  <2> QED BY <2>1, <2>2, <2>3, <2>4, <2>5, <2>6, <2>7 DEF Next, Timer
<1> QED BY <1>1, SchedInv, PTL DEF Spec, OneLevelRuns

\* What Wake(t) does for a t that is a slot: it makes this slot READY if it is
\* BLOCKED and leaves every other slot alone.
LEMMA WakeEffect ==
  ASSUME IInv, NEW t \in TaskSlots, Wake(t)
  PROVE  /\ \A i \in TaskSlots \ {t} : state'[i] = state[i] /\ wake_time'[i] = wake_time[i]
         /\ state[t] = "BLOCKED" => state'[t] = "READY"
         /\ state[t] # "BLOCKED" => state'[t] = state[t]
<1> DEFINE blocked == {i \in TaskSlots : id[i] = t /\ state[i] = "BLOCKED"}
<1>1. \A i \in TaskSlots : id[i] = t => i = t
  BY SchedConstants DEF IInv, IdsAreSlots, TaskSlots
<1>2. state[t] = "BLOCKED" => id[t] = t
  BY DEF IInv, IdsAreSlots
<1>3. blocked = IF state[t] = "BLOCKED" THEN {t} ELSE {}
  BY <1>1, <1>2
<1>4. state \in [Slots -> States] /\ wake_time \in [Slots -> 0 .. MAX_SLEEP] /\ t \in Slots
  BY InvFacts DEF IInv, TypeOK
<1>5. CASE state[t] # "BLOCKED"
  <2>1. UNCHANGED <<state, wake_time>>  BY <1>3, <1>5 DEF Wake
  <2> QED BY <1>5, <2>1
<1>6. CASE state[t] = "BLOCKED"
  <2>1. blocked # {}  BY <1>3, <1>6
  <2>2. PICK i \in TaskSlots : /\ First(blocked, i)
                               /\ state' = [state EXCEPT ![i] = "READY"]
                               /\ wake_time' = [wake_time EXCEPT ![i] = 0]
    BY <2>1 DEF Wake
  <2>3. i = t  BY <1>3, <1>6, <2>2 DEF First
  <2>4. TaskSlots \subseteq Slots  BY InvFacts
  <2> QED BY <1>4, <1>6, <2>2, <2>3, <2>4
<1> QED BY <1>5, <1>6

\* A step without a sleep or a timer wake: no task falls asleep in it, and the
\* counts of those that go on sleeping are left alone.
Undisturbed ==
  \A i \in TaskSlots : state'[i] = "BLOCKED" =>
    state[i] = "BLOCKED" /\ wake_time'[i] = wake_time[i]

LEMMA UndisturbedCounted ==
  ASSUME SleepCounted, Undisturbed, owed' = owed, irq' = irq
  PROVE  SleepCounted'
BY DEF SleepCounted, Undisturbed

LEMMA YieldUndisturbed ==
  ASSUME IInv, Yield, wake_time' = wake_time
  PROVE  /\ Undisturbed
         /\ \A i \in TaskSlots : state[i] = "BLOCKED" => state'[i] = "BLOCKED"
<1>1. state \in [Slots -> States] /\ current_task \in Slots /\ TaskSlots \subseteq Slots
  BY InvFacts
<1>2. \/ UNCHANGED state
      \/ /\ state[current_task] = "RUNNING"
         /\ state' = [state EXCEPT ![current_task] = "READY"]
  BY DEF Yield
<1> QED BY <1>1, <1>2 DEF Undisturbed

\* The ticks counted in wake_time are those still owed, also while sched_tick is
\* half way through the slots.
LEMMA CountedStep ==
  ASSUME IInv, SleepCounted, [Next]_vars
  PROVE  SleepCounted'
<1> USE InvFacts
<1>1. CASE UNCHANGED vars
  BY <1>1 DEF vars, SleepCounted
<1>2. ASSUME NEW prio \in 0 .. TASK_PRIORITY_MAX + 1, TaskCreatePriority(prio)
      PROVE  SleepCounted'
  <2>1. PICK slot \in TaskSlots :
          /\ state' = [state EXCEPT ![slot] = "READY"]
          /\ wake_time' = [wake_time EXCEPT ![slot] = 0]
    BY <1>2 DEF TaskCreatePriority
  <2>2. wake_time \in [Slots -> 0 .. MAX_SLEEP]  BY DEF IInv, TypeOK
  <2>3. Undisturbed  BY <2>1, <2>2 DEF Undisturbed
  <2>4. owed' = owed /\ irq' = irq  BY <1>2 DEF TaskCreatePriority
  <2> QED BY <2>3, <2>4, UndisturbedCounted
<1>3. ASSUME NEW t \in TaskSlots, NEW prio \in 0 .. TASK_PRIORITY_MAX + 1,
             SetPriorityAtBoot(t, prio)
      PROVE  SleepCounted'
  <2>1. UNCHANGED <<state, wake_time, owed, irq>>  BY <1>3 DEF SetPriorityAtBoot, TaskSetPriority
  <2>2. Undisturbed  BY <2>1 DEF Undisturbed
  <2> QED BY <2>1, <2>2, UndisturbedCounted
<1>4. CASE TaskYield
  <2>1. Yield /\ UNCHANGED <<wake_time, owed, irq>>  BY <1>4 DEF TaskYield
  <2>2. Undisturbed  BY <2>1, YieldUndisturbed
  <2> QED BY <2>1, <2>2, UndisturbedCounted
<1>5. ASSUME NEW ms \in 0 .. MAX_SLEEP, TaskSleep(ms) PROVE SleepCounted'
  <2>1. /\ irq = 0 /\ irq' = 0
        /\ state' = [state EXCEPT ![current_task] = "BLOCKED"]
        /\ wake_time' = [wake_time EXCEPT ![current_task] = ms]
        /\ owed' = [owed EXCEPT ![current_task] = ms]
    BY <1>5 DEF TaskSleep
  <2>2. /\ wake_time \in [Slots -> 0 .. MAX_SLEEP]
        /\ owed \in [Slots -> 0 .. MAX_SLEEP] /\ owed' \in [Slots -> 0 .. MAX_SLEEP]
    BY <2>1 DEF IInv, TypeOK, SleepCounted
  <2>3. ASSUME NEW i \in TaskSlots, state'[i] = "BLOCKED"
        PROVE  wake_time'[i] = owed'[i] /\ ~(i < irq')
    <3>1. i \in Slots /\ ~(i < irq) /\ i >= irq
      BY <2>1, SchedConstants DEF TaskSlots
    <3>2. CASE i = current_task
      BY <2>1, <2>2, <3>1, <3>2
    <3>3. CASE i # current_task
      <4>1. state[i] = "BLOCKED" /\ wake_time'[i] = wake_time[i] /\ owed'[i] = owed[i]
        BY <2>1, <2>2, <2>3, <3>1, <3>3
      <4> QED BY <2>1, <3>1, <4>1 DEF SleepCounted
    <3> QED BY <3>2, <3>3
  <2> QED BY <2>2, <2>3 DEF SleepCounted
<1>6. ASSUME NEW t \in TaskSlots, WakeOther(t) PROVE SleepCounted'
  <2>1. Wake(t) /\ owed' = owed /\ irq' = irq  BY <1>6 DEF WakeOther, TaskWake
  <2>2. Undisturbed
    BY <2>1, WakeEffect DEF Undisturbed
  <2> QED BY <2>1, <2>2, UndisturbedCounted
<1>7. CASE SchedStart
  <2>1. UNCHANGED <<wake_time, owed, irq>>  BY <1>7 DEF SchedStart
  <2>2. PICK p \in Prios : state' = [state EXCEPT ![rq.head[p]] = "RUNNING"]
    BY <1>7 DEF SchedStart
  <2>3. Undisturbed  BY <2>1, <2>2 DEF Undisturbed
  <2> QED BY <2>1, <2>3, UndisturbedCounted
<1>8. CASE TimerInterrupt
  <2>1. irq = 0 /\ irq' = 1 /\ UNCHANGED <<state, wake_time, owed>>  BY <1>8 DEF TimerInterrupt
  <2>2. \A i \in TaskSlots : i >= 0 /\ ~(i < 1)  BY SchedConstants DEF TaskSlots
  <2> QED BY <2>1, <2>2 DEF SleepCounted
<1>9. CASE SchedTick
  <2> DEFINE k == irq
  <2>1. k \in TaskSlots /\ irq' = k + 1 /\ owed' = owed /\ UNCHANGED id
    BY <1>9 DEF SchedTick
  <2>2. /\ k \in Nat /\ wake_time \in [Slots -> 0 .. MAX_SLEEP]
        /\ owed \in [Slots -> 0 .. MAX_SLEEP] /\ \A i \in TaskSlots : i \in Nat
    BY <2>1, SchedConstants DEF IInv, TypeOK, SleepCounted, TaskSlots
  <2>3. \A i \in TaskSlots \ {k} : state'[i] = "BLOCKED" =>
          state[i] = "BLOCKED" /\ wake_time'[i] = wake_time[i]
    <3>1. CASE state[k] = "BLOCKED" /\ wake_time[k] > 0 /\ wake_time[k] <= 1
      <4>1. Wake(id[k]) /\ id[k] = k  BY <1>9, <2>1, <3>1 DEF SchedTick, IInv, IdsAreSlots
      <4> QED BY <2>1, <4>1, WakeEffect
    <3>2. CASE ~(state[k] = "BLOCKED" /\ wake_time[k] > 0 /\ wake_time[k] <= 1)
      <4>1. state' = state /\ (\/ wake_time' = wake_time
                               \/ wake_time' = [wake_time EXCEPT ![k] = @ - 1])
        BY <1>9, <3>2 DEF SchedTick
      <4> QED BY <2>2, <4>1
    <3> QED BY <3>1, <3>2
  <2>4. state'[k] = "BLOCKED" =>
          /\ state[k] = "BLOCKED" /\ wake_time[k] # 1
          /\ wake_time'[k] = IF wake_time[k] > 0 THEN wake_time[k] - 1 ELSE 0
    <3>1. k \in Slots /\ wake_time[k] \in 0 .. MAX_SLEEP  BY <2>1, <2>2
    <3>2. CASE state[k] = "BLOCKED" /\ wake_time[k] > 0 /\ wake_time[k] <= 1
      <4>1. Wake(id[k]) /\ id[k] = k  BY <1>9, <2>1, <3>2 DEF SchedTick, IInv, IdsAreSlots
      <4>2. state'[k] = "READY"  BY <2>1, <3>2, <4>1, WakeEffect
      <4> QED BY <4>2
    <3>3. CASE state[k] = "BLOCKED" /\ wake_time[k] > 0 /\ ~(wake_time[k] <= 1)
      <4>1. wake_time' = [wake_time EXCEPT ![k] = @ - 1]  BY <1>9, <3>3 DEF SchedTick
      <4>2. wake_time'[k] = wake_time[k] - 1  BY <2>2, <3>1, <4>1
      <4> QED BY <3>1, <3>3, <4>2
    <3>4. CASE ~(state[k] = "BLOCKED" /\ wake_time[k] > 0)
      <4>1. UNCHANGED <<state, wake_time>>  BY <1>9, <3>4 DEF SchedTick
      <4> QED BY <3>1, <3>4, <4>1, SchedConstants
    <3> QED BY <3>2, <3>3, <3>4
  <2>5. ASSUME NEW i \in TaskSlots, state'[i] = "BLOCKED"
        PROVE  /\ i >= irq' \/ owed[i] = 0 => wake_time'[i] = owed[i]
               /\ i < irq' /\ owed[i] > 0 => owed[i] > 1 /\ wake_time'[i] = owed[i] - 1
    <3>1. i \in Nat /\ owed[i] \in Nat /\ wake_time[i] \in Nat
      BY <2>2, SchedConstants
    <3>2. CASE i = k
      <4>1. wake_time[i] = owed[i]
        BY <2>2, <2>4, <2>5, <3>2 DEF SleepCounted
      <4> QED BY <2>1, <2>2, <2>4, <2>5, <3>1, <3>2, <4>1
    <3>3. CASE i # k
      <4>1. /\ wake_time'[i] = wake_time[i]
            /\ i >= k \/ owed[i] = 0 => wake_time[i] = owed[i]
            /\ i < k /\ owed[i] > 0 => owed[i] > 1 /\ wake_time[i] = owed[i] - 1
        BY <2>3, <2>5, <3>3 DEF SleepCounted
      <4>2. (i >= irq' => i >= k) /\ (i < irq' => i < k)
        BY <2>1, <2>2, <3>1, <3>3
      <4> QED BY <4>1, <4>2
    <3> QED BY <3>2, <3>3
  <2> QED BY <2>1, <2>2, <2>5 DEF SleepCounted
<1>10. CASE TimerYield
  <2>1. /\ irq = TASK_MAX /\ irq' = 0 /\ Yield /\ wake_time' = wake_time
        /\ owed' = [i \in Slots |-> IF owed[i] > 0 THEN owed[i] - 1 ELSE 0]
    BY <1>10 DEF TimerYield
  <2>2. Undisturbed  BY <2>1, YieldUndisturbed
  <2>3. owed \in [Slots -> 0 .. MAX_SLEEP]  BY DEF SleepCounted
  <2>4. owed' \in [Slots -> 0 .. MAX_SLEEP]  BY <2>1, <2>3, SchedConstants
  <2>5. ASSUME NEW i \in TaskSlots, state'[i] = "BLOCKED"
        PROVE  wake_time'[i] = owed'[i] /\ ~(i < irq')
    <3>1. i \in Slots /\ i < irq /\ ~(i < irq') /\ owed[i] \in Nat
      BY <2>1, <2>3, SchedConstants DEF TaskSlots
    <3>2. state[i] = "BLOCKED" /\ wake_time'[i] = wake_time[i]
      BY <2>2, <2>5 DEF Undisturbed
    <3>3. owed'[i] = IF owed[i] > 0 THEN owed[i] - 1 ELSE 0
      BY <2>1, <3>1
    <3>4. wake_time[i] = IF owed[i] > 0 THEN owed[i] - 1 ELSE 0
      BY <3>1, <3>2 DEF SleepCounted
    <3> QED BY <3>1, <3>2, <3>3, <3>4
  <2> QED BY <2>4, <2>5 DEF SleepCounted
<1> QED BY <1>1, <1>2, <1>3, <1>4, <1>5, <1>6, <1>7, <1>8, <1>9, <1>10 DEF Next, Timer

\* A sleep of n ticks is ended by the timer at the n-th tick after task_sleep,
\* never earlier and never later, for any number of tasks and any calls between.
THEOREM SchedSleepsAsAsked == Spec => SleepsAsAsked
<1> DEFINE Woken == \A i \in TaskSlots : state[i] = "BLOCKED" =>
             /\ irq # 0 /\ state'[i] = "READY" => owed[i] = 1
             /\ irq = TASK_MAX => owed[i] # 1
<1>1. Init => SleepCounted
  BY SchedConstants DEF Init, SleepCounted, Slots, TaskSlots
<1>2. IInv /\ SleepCounted /\ [Next]_vars => SleepCounted'
  BY CountedStep
<1>3. IInv /\ SleepCounted /\ [Next]_vars => [Woken]_vars
  <2> SUFFICES ASSUME IInv, SleepCounted, Next, NEW i \in TaskSlots, state[i] = "BLOCKED"
               PROVE  /\ irq # 0 /\ state'[i] = "READY" => owed[i] = 1
                      /\ irq = TASK_MAX => owed[i] # 1
    OBVIOUS
  <2>1. i \in Nat /\ i < TASK_MAX /\ owed[i] \in Nat
    BY InvFacts, SchedConstants DEF SleepCounted, TaskSlots
  <2>2. irq = TASK_MAX => owed[i] # 1
    BY <2>1 DEF SleepCounted
  <2>3. ASSUME irq # 0, state'[i] = "READY" PROVE owed[i] = 1
    <3>1. CASE SchedTick
      <4>1. CASE state[irq] = "BLOCKED" /\ wake_time[irq] > 0 /\ wake_time[irq] <= 1
        <5>1. irq \in TaskSlots /\ Wake(id[irq]) /\ id[irq] = irq
          BY <3>1, <4>1 DEF SchedTick, IInv, IdsAreSlots
        <5>2. i = irq  BY <2>3, <5>1, WakeEffect
        <5>3. wake_time[i] = owed[i]  BY <2>1, <5>2 DEF SleepCounted
        <5> QED BY <2>1, <4>1, <5>2, <5>3
      <4>2. CASE ~(state[irq] = "BLOCKED" /\ wake_time[irq] > 0 /\ wake_time[irq] <= 1)
        <5>1. state' = state  BY <3>1, <4>2 DEF SchedTick
        <5> QED BY <2>3, <5>1
      <4> QED BY <4>1, <4>2
    <3>2. CASE TimerYield
      <4>1. Yield /\ wake_time' = wake_time  BY <3>2 DEF TimerYield
      <4> QED BY <2>3, <4>1, YieldUndisturbed
    <3>3. SchedTick \/ TimerYield
      BY <2>3 DEF Next, Timer, TaskCreatePriority, SetPriorityAtBoot, TaskYield, TaskSleep,
                  WakeOther, TaskWake, SchedStart, TimerInterrupt, TaskSetPriority
    <3> QED BY <3>1, <3>2, <3>3
  <2> QED BY <2>2, <2>3
<1> QED BY <1>1, <1>2, <1>3, SchedInv, PTL DEF Spec, SleepsAsAsked

-----------------------------------------------------------------------------
(* The refinement of ReadyQueues.                                          *)

\* Induction over 1 .. m: what holds for 1 and is handed on holds for all.
LEMMA CountUp ==
  ASSUME NEW P, NEW m \in Nat, 1 \in P, \A k \in 1 .. m : k \in P /\ k < m => k + 1 \in P
  PROVE  1 .. m \subseteq P
<1> DEFINE T == {k \in 1 .. m : k \notin P}
<1> SUFFICES ASSUME T # {} PROVE FALSE  OBVIOUS
<1>1. IsWellFoundedOn(OpToRel(<, Nat), Nat)  BY NatLessThanWellFounded, Zenon
<1>2. T \subseteq Nat  OBVIOUS
<1> HIDE DEF T
<1>3. \E x \in T : \A y \in T : ~(<<y, x>> \in OpToRel(<, Nat))  BY <1>1, <1>2, WFMin, Zenon
<1>4. PICK x \in T : \A y \in T : ~(<<y, x>> \in OpToRel(<, Nat))  BY <1>3, Zenon
<1>5. ASSUME NEW a \in Nat, NEW b \in Nat, a < b PROVE <<a, b>> \in OpToRel(<, Nat)
  BY <1>5, Zenon DEF OpToRel
<1>6. x \in 1 .. m /\ x \notin P /\ x \in Nat  BY DEF T
<1>7. x # 1 /\ x - 1 \in 1 .. m /\ x - 1 \in Nat /\ x - 1 < x /\ x - 1 < m /\ (x - 1) + 1 = x
  BY <1>6
<1>8. x - 1 \notin T  BY <1>4, <1>5, <1>6, <1>7, Zenon
<1>9. x - 1 \in P  BY <1>7, <1>8 DEF T
<1> QED  BY <1>6, <1>7, <1>9

\* Walk is the one function that follows the links.
WalkFun(q, p, f) ==
  f = [k \in 1 .. TASK_MAX |->
         IF k = 1 THEN q.head[p] ELSE IF f[k - 1] = 0 THEN 0 ELSE q.next[f[k - 1]]]

LEMMA WalkIs == ASSUME NEW q, NEW p PROVE Walk(q, p) = CHOOSE f : WalkFun(q, p, f)
BY Zenon DEF Walk, WalkFun

\* Walking along a well-formed list meets its members, in order.
LEMMA QueueIs ==
  ASSUME NEW q \in RQType, NEW p \in Prios,
         NEW n \in 0 .. TASK_MAX - 1, NEW s \in [1 .. n -> TaskSlots], IsList(q, p, n, s)
  PROVE  QueueOf(q, p) = s
<1> DEFINE w == [k \in 1 .. TASK_MAX |-> IF k <= n THEN s[k] ELSE 0]
<1>0. /\ TASK_MAX \in Nat /\ TASK_MAX >= 2 /\ n \in Nat /\ n < TASK_MAX
      /\ \A k \in 1 .. n : s[k] # 0
  BY SchedConstants DEF TaskSlots
<1>w. \A k \in 1 .. TASK_MAX : w[k] = IF k <= n THEN s[k] ELSE 0  OBVIOUS
<1>1. ASSUME NEW k \in 1 .. TASK_MAX
      PROVE  w[k] = IF k = 1 THEN q.head[p] ELSE IF w[k - 1] = 0 THEN 0 ELSE q.next[w[k - 1]]
  <2>1. CASE k = 1  BY <1>0, <1>w, <2>1 DEF IsList
  <2>2. CASE k # 1
    <3>1. k - 1 \in 1 .. TASK_MAX /\ (k - 1 <= n => k - 1 \in 1 .. n)  BY <1>0, <2>2
    <3>2. w[k - 1] = IF k - 1 <= n THEN s[k - 1] ELSE 0  BY <1>w, <3>1
    <3> HIDE DEF w
    <3>3. CASE k - 1 <= n
      <4>1. q.next[s[k - 1]] = IF k - 1 = n THEN 0 ELSE s[(k - 1) + 1]  BY <3>1, <3>3 DEF IsList
      <4>2. (k - 1) + 1 = k /\ (k - 1 = n <=> ~(k <= n))  BY <1>0, <3>3
      <4> QED  BY <1>0, <1>w, <2>2, <3>1, <3>2, <3>3, <4>1, <4>2
    <3>4. CASE ~(k - 1 <= n)
      <4>1. ~(k <= n)  BY <1>0, <3>4
      <4> QED  BY <1>w, <2>2, <3>2, <3>4, <4>1
    <3> QED  BY <3>3, <3>4
  <2> QED  BY <2>1, <2>2
<1>2. WalkFun(q, p, w)  BY <1>1 DEF WalkFun
<1>3. ASSUME NEW f, WalkFun(q, p, f) PROVE f = w
  <2> DEFINE P == {k \in 1 .. TASK_MAX : f[k] = w[k]}
  <2> HIDE DEF w
  <2>1. \A k \in 1 .. TASK_MAX :
          f[k] = IF k = 1 THEN q.head[p] ELSE IF f[k - 1] = 0 THEN 0 ELSE q.next[f[k - 1]]
    BY <1>3 DEF WalkFun
  <2>2. 1 \in P  BY <1>0, <1>1, <2>1
  <2>3. ASSUME NEW k \in 1 .. TASK_MAX, k \in P, k < TASK_MAX PROVE k + 1 \in P
    <3>1. k + 1 \in 1 .. TASK_MAX /\ k + 1 # 1 /\ (k + 1) - 1 = k /\ f[k] = w[k]
      BY <1>0, <2>3
    <3> QED  BY <1>1, <2>1, <3>1
  <2> HIDE DEF P
  <2>4. 1 .. TASK_MAX \subseteq P  BY <1>0, <2>2, <2>3, CountUp
  <2>5. \A k \in 1 .. TASK_MAX : f[k] = w[k]  BY <2>4 DEF P
  <2>6. f = [k \in 1 .. TASK_MAX |-> f[k]]  BY <1>3 DEF WalkFun
  <2>7. w = [k \in 1 .. TASK_MAX |-> w[k]]  BY DEF w
  <2> QED  BY <2>5, <2>6, <2>7
<1> HIDE DEF w
<1>4. Walk(q, p) = w
  <2>1. WalkFun(q, p, CHOOSE f : WalkFun(q, p, f))  BY <1>2, Zenon
  <2> QED  BY <1>3, <2>1, WalkIs, Zenon
<1>5. {j \in 1 .. TASK_MAX : w[j] # 0} = 1 .. n  BY <1>0, <1>w
<1>6. Cardinality(1 .. n) = n
  <2>1. Cardinality(1 .. n) = IF 1 > n THEN 0 ELSE n - 1 + 1  BY <1>0, FS_Interval
  <2> QED  BY <1>0, <2>1
<1>7. QueueOf(q, p) = [k \in 1 .. n |-> w[k]]  BY <1>4, <1>5, <1>6, Zenon DEF QueueOf
<1>8. \A k \in 1 .. n : w[k] = s[k]  BY <1>0, <1>w
<1> QED  BY <1>7, <1>8

-----------------------------------------------------------------------------
\* The lists of q hold the queues of Q.
Lists(q, Q) ==
  \A o \in Prios : Len(Q[o]) \in 0 .. TASK_MAX - 1 /\ IsList(q, o, Len(Q[o]), Q[o])
Queues == [Prios -> Seq(TaskSlots)]
Outside(Q, i) == \A o \in Prios : \A k \in 1 .. Len(Q[o]) : Q[o][k] # i
Apart(Q) ==
  \A o, p \in Prios : o # p => \A k \in 1 .. Len(Q[o]), l \in 1 .. Len(Q[p]) : Q[o][k] # Q[p][l]

\* A sequence is a function on its positions.
LEMMA SeqFun ==
  ASSUME NEW s \in Seq(TaskSlots)
  PROVE  Len(s) \in Nat /\ s \in [1 .. Len(s) -> TaskSlots]
OBVIOUS

LEMMA QueuesAre ==
  ASSUME NEW q \in RQType, NEW Q \in Queues, Lists(q, Q)
  PROVE  [p \in Prios |-> QueueOf(q, p)] = Q
<1>1. ASSUME NEW p \in Prios PROVE QueueOf(q, p) = Q[p]
  <2>1. Q[p] \in Seq(TaskSlots)  BY DEF Queues
  <2>2. Q[p] \in [1 .. Len(Q[p]) -> TaskSlots]  BY <2>1, SeqFun
  <2>3. Len(Q[p]) \in 0 .. TASK_MAX - 1 /\ IsList(q, p, Len(Q[p]), Q[p])  BY DEF Lists
  <2> QED  BY <2>2, <2>3, QueueIs
<1>2. Q = [p \in Prios |-> Q[p]]  BY DEF Queues
<1> QED  BY <1>1, <1>2

\* Enqueue appends to one queue.
LEMMA QueuesEnqueue ==
  ASSUME NEW q \in RQType, NEW Q \in Queues, Lists(q, Q), Apart(Q),
         NEW i \in TaskSlots, NEW p \in Prios, Outside(Q, i)
  PROVE  /\ [Q EXCEPT ![p] = Append(@, i)] \in Queues
         /\ Lists(Enqueue(q, p, i), [Q EXCEPT ![p] = Append(@, i)])
<1> DEFINE s == Q[p]
           n == Len(s)
           R == [Q EXCEPT ![p] = Append(@, i)]
<1>1. s \in Seq(TaskSlots) /\ \A o \in Prios : Q[o] \in Seq(TaskSlots)  BY DEF Queues
<1>2. n \in 0 .. TASK_MAX - 1 /\ s \in [1 .. n -> TaskSlots] /\ IsList(q, p, n, s)
  BY <1>1, SeqFun DEF Lists
<1>3. \A k \in 1 .. n : s[k] # i  BY DEF Outside
<1>4. n + 1 \in 0 .. TASK_MAX - 1 /\ IsList(Enqueue(q, p, i), p, n + 1, Grow(n, s, i))
  BY <1>2, <1>3, EnqueueAppends
<1>5. Append(s, i) \in Seq(TaskSlots) /\ Len(Append(s, i)) = n + 1 /\ Append(s, i) = Grow(n, s, i)
  BY <1>1 DEF Grow
<1>6. R[p] = Append(s, i) /\ \A o \in Prios : o # p => R[o] = Q[o]  BY DEF Queues
<1>7. R \in Queues  BY <1>1, <1>5 DEF Queues
<1> HIDE DEF R
<1>8. ASSUME NEW o \in Prios
      PROVE  Len(R[o]) \in 0 .. TASK_MAX - 1 /\ IsList(Enqueue(q, p, i), o, Len(R[o]), R[o])
  <2>1. CASE o = p  BY <1>4, <1>5, <1>6, <2>1
  <2>2. CASE o # p
    <3> DEFINE r == Q[o]
               m == Len(r)
    <3>1. m \in 0 .. TASK_MAX - 1 /\ r \in [1 .. m -> TaskSlots] /\ IsList(q, o, m, r)
      BY <1>1, SeqFun DEF Lists
    <3>2. \A k \in 1 .. m : r[k] # i  BY DEF Outside
    <3>3. \A k \in 1 .. m, l \in 1 .. n : r[k] # s[l]  BY <2>2 DEF Apart
    <3> HIDE DEF r, m, s, n
    <3>4. IsList(Enqueue(q, p, i), o, m, r)
      BY <1>2, <2>2, <3>1, <3>2, <3>3, EnqueueOthers
    <3> QED  BY <1>6, <2>2, <3>1, <3>4 DEF r, m
  <2> QED  BY <2>1, <2>2
<1> QED  BY <1>7, <1>8 DEF Lists, R

\* Pop takes the front of one queue.
LEMMA QueuesPop ==
  ASSUME NEW q \in RQType, NEW Q \in Queues, Lists(q, Q), NEW p \in Prios, q.head[p] # 0
  PROVE  /\ Q[p] # <<>> /\ q.head[p] = Head(Q[p])
         /\ [Q EXCEPT ![p] = Tail(@)] \in Queues
         /\ Lists(Pop(q, p), [Q EXCEPT ![p] = Tail(@)])
<1> DEFINE s == Q[p]
           n == Len(s)
           R == [Q EXCEPT ![p] = Tail(@)]
<1>1. s \in Seq(TaskSlots) /\ \A o \in Prios : Q[o] \in Seq(TaskSlots)  BY DEF Queues
<1>2. n \in 0 .. TASK_MAX - 1 /\ s \in [1 .. n -> TaskSlots] /\ IsList(q, p, n, s)
  BY <1>1, SeqFun DEF Lists
<1>3. /\ n > 0 /\ q.head[p] = s[1] /\ n - 1 \in 0 .. TASK_MAX - 1
      /\ IsList(Pop(q, p), p, n - 1, Shift(n, s))
  BY <1>2, PopRemovesFront
<1>4. /\ s # <<>> /\ Head(s) = s[1]
      /\ Tail(s) \in Seq(TaskSlots) /\ Len(Tail(s)) = n - 1 /\ Tail(s) = Shift(n, s)
  BY <1>1, <1>3 DEF Shift
<1>5. R[p] = Tail(s) /\ \A o \in Prios : o # p => R[o] = Q[o]  BY DEF Queues
<1>6. R \in Queues  BY <1>1, <1>4 DEF Queues
<1> HIDE DEF R
<1>7. ASSUME NEW o \in Prios
      PROVE  Len(R[o]) \in 0 .. TASK_MAX - 1 /\ IsList(Pop(q, p), o, Len(R[o]), R[o])
  <2>1. CASE o = p  BY <1>3, <1>4, <1>5, <2>1
  <2>2. CASE o # p
    <3> DEFINE r == Q[o]
               m == Len(r)
    <3>1. m \in 0 .. TASK_MAX - 1 /\ r \in [1 .. m -> TaskSlots] /\ IsList(q, o, m, r)
      BY <1>1, SeqFun DEF Lists
    <3> HIDE DEF r, m
    <3>2. IsList(Pop(q, p), o, m, r)  BY <2>2, <3>1, PopOthers
    <3> QED  BY <1>5, <2>2, <3>1, <3>2 DEF r, m
  <2> QED  BY <2>1, <2>2
<1> QED  BY <1>3, <1>4, <1>6, <1>7 DEF Lists, R

\* What is left of a sequence without its j-th element.
Without(s, j) == SubSeq(s, 1, j - 1) \o SubSeq(s, j + 1, Len(s))

LEMMA WithoutIsDrop ==
  ASSUME NEW s \in Seq(TaskSlots), NEW j \in 1 .. Len(s)
  PROVE  /\ Without(s, j) \in Seq(TaskSlots) /\ Len(Without(s, j)) = Len(s) - 1
         /\ Without(s, j) = Drop(Len(s), s, j)
<1> DEFINE a == SubSeq(s, 1, j - 1)
           b == SubSeq(s, j + 1, Len(s))
<1>0. Len(s) \in Nat /\ j \in Nat  OBVIOUS
<1>1. a \in Seq(TaskSlots) /\ Len(a) = j - 1 /\ \A k \in 1 .. j - 1 : a[k] = s[k]  OBVIOUS
<1>2. b \in Seq(TaskSlots) /\ Len(b) = Len(s) - j /\ \A k \in 1 .. Len(s) - j : b[k] = s[k + j]
  <2>1. b \in Seq(TaskSlots)  OBVIOUS
  <2>2. CASE j = Len(s)
    <3>1. Len(b) = 0  BY <1>0, <2>2
    <3> QED  BY <1>0, <2>1, <2>2, <3>1
  <2>3. CASE j < Len(s)
    <3>1. Len(b) = Len(s) - j  BY <1>0, <2>3
    <3>2. \A k \in 1 .. Len(s) - j : b[k] = s[(j + 1) + k - 1]  BY <1>0, <2>3
    <3>3. \A k \in 1 .. Len(s) - j : (j + 1) + k - 1 = k + j  BY <1>0
    <3> QED  BY <2>1, <3>1, <3>2, <3>3
  <2> QED  BY <1>0, <2>2, <2>3
<1> HIDE DEF a, b
<1>3. /\ a \o b \in Seq(TaskSlots) /\ Len(a \o b) = Len(s) - 1
      /\ \A k \in 1 .. Len(s) - 1 : (a \o b)[k] = IF k < j THEN s[k] ELSE s[k + 1]
  <2>1. a \o b \in Seq(TaskSlots) /\ Len(a \o b) = Len(a) + Len(b)
    BY <1>1, <1>2, ConcatProperties
  <2>2. ASSUME NEW k \in 1 .. Len(s) - 1 PROVE (a \o b)[k] = IF k < j THEN s[k] ELSE s[k + 1]
    <3>1. CASE k < j  BY <1>0, <1>1, <1>2, <3>1
    <3>2. CASE ~(k < j)
      <4>1. k - (j - 1) \in 1 .. Len(s) - j /\ (k - (j - 1)) + j = k + 1  BY <1>0, <3>2
      <4>2. k \in 1 .. Len(a) + Len(b) /\ ~(k <= Len(a)) /\ k - Len(a) = k - (j - 1)
        BY <1>0, <1>1, <1>2, <3>2
      <4>3. (a \o b)[k] = b[k - (j - 1)]  BY <1>1, <1>2, <4>2
      <4> QED  BY <1>2, <3>2, <4>1, <4>3
    <3> QED  BY <3>1, <3>2
  <2> QED  BY <1>0, <1>1, <1>2, <2>1, <2>2
<1> DEFINE c == a \o b
<1>4. /\ c \in Seq(TaskSlots) /\ Len(c) = Len(s) - 1
      /\ \A k \in 1 .. Len(s) - 1 : c[k] = IF k < j THEN s[k] ELSE s[k + 1]
  BY <1>3
<1>5. Without(s, j) = c  BY DEF Without, a, b
<1> HIDE DEF c
<1>6. c = [k \in 1 .. Len(c) |-> c[k]]  BY <1>4
<1>7. c = Drop(Len(s), s, j)  BY <1>4, <1>6 DEF Drop
<1> QED  BY <1>4, <1>5, <1>7

\* task_set_priority takes the task out of its queue and appends it to the other,
\* if no slot outside the queues has a link.
LEMMA QueuesMove ==
  ASSUME NEW q \in RQType, NEW Q \in Queues, Lists(q, Q), Apart(Q),
         NEW old \in Prios, NEW p \in Prios, p # old,
         NEW j \in 1 .. Len(Q[old]), NEW i \in TaskSlots, Q[old][j] = i,
         \A k \in TaskSlots : q.next[k] # 0 =>
           \E o \in Prios : \E l \in 1 .. Len(Q[o]) : Q[o][l] = k
  PROVE  /\ [Q EXCEPT ![old] = Without(@, j), ![p] = Append(@, i)] \in Queues
         /\ Requeue(q, old, p, i) \in RQType
         /\ Lists(Requeue(q, old, p, i), [Q EXCEPT ![old] = Without(@, j), ![p] = Append(@, i)])
<1> DEFINE s == Q[old]
           n == Len(s)
           u == Unlink(q, old, i)
           d == Without(s, j)
           U == [Q EXCEPT ![old] = d]
<1>1. s \in Seq(TaskSlots) /\ \A o \in Prios : Q[o] \in Seq(TaskSlots)  BY DEF Queues
<1>2. n \in 0 .. TASK_MAX - 1 /\ s \in [1 .. n -> TaskSlots] /\ IsList(q, old, n, s)
  BY <1>1, SeqFun DEF Lists
<1>3. ASSUME NEW k \in TaskSlots, q.next[k] = i PROVE j > 1 /\ k = s[j - 1]
  <2>1. i # 0  BY SchedConstants DEF TaskSlots
  <2>2. PICK o \in Prios : \E l \in 1 .. Len(Q[o]) : Q[o][l] = k  BY <1>3, <2>1
  <2>3. PICK l \in 1 .. Len(Q[o]) : Q[o][l] = k  BY <2>2
  <2>4. IsList(q, o, Len(Q[o]), Q[o]) /\ Len(Q[o]) \in Nat  BY <1>1, SeqFun DEF Lists
  <2>5. l # Len(Q[o]) /\ Q[o][l + 1] = i /\ l + 1 \in 1 .. Len(Q[o])
    BY <1>3, <2>1, <2>3, <2>4 DEF IsList
  <2>6. o = old  BY <2>5 DEF Apart
  <2>7. l + 1 = j  BY <1>2, <2>5, <2>6 DEF IsList
  <2> QED  BY <2>3, <2>4, <2>6, <2>7
<1>4. d \in Seq(TaskSlots) /\ Len(d) = n - 1 /\ d = Drop(n, s, j)  BY <1>1, WithoutIsDrop
<1>5. /\ u \in RQType /\ n - 1 \in 0 .. TASK_MAX - 1 /\ IsList(u, old, n - 1, d)
      /\ \A o \in Prios \ {old} : u.head[o] = q.head[o] /\ u.tail[o] = q.tail[o]
      /\ \A k \in Slots : (j > 1 => k # s[j - 1]) => u.next[k] = q.next[k]
  <2> HIDE DEF s, n, d
  <2>1. s[j] = i /\ j \in 1 .. n  BY DEF s, n
  <2>2. \A k \in TaskSlots : q.next[k] = i => j > 1 /\ k = s[j - 1]  BY <1>3
  <2>3. /\ u \in RQType /\ n - 1 \in 0 .. TASK_MAX - 1
        /\ IsList(u, old, n - 1, Drop(n, s, j))
        /\ \A o \in Prios \ {old} : u.head[o] = q.head[o] /\ u.tail[o] = q.tail[o]
        /\ \A k \in Slots : (j > 1 => k # s[j - 1]) => u.next[k] = q.next[k]
    BY <1>2, <2>1, <2>2, UnlinkDrops
  <2> QED  BY <1>4, <2>3
<1>6. U[old] = d /\ \A o \in Prios : o # old => U[o] = Q[o]  BY DEF Queues
<1>7. U \in Queues  BY <1>1, <1>4 DEF Queues
<1>8. \A k \in 1 .. n - 1 : d[k] = IF k < j THEN s[k] ELSE s[k + 1]  BY <1>4 DEF Drop
<1>9. \A k \in 1 .. n - 1 : d[k] # i /\ \E l \in 1 .. n : d[k] = s[l]
  <2>1. \A k \in 1 .. n : k # j => s[k] # i  BY <1>2 DEF IsList
  <2> SUFFICES ASSUME NEW k \in 1 .. n - 1 PROVE d[k] # i /\ \E l \in 1 .. n : d[k] = s[l]
    OBVIOUS
  <2> HIDE DEF s, n, d
  <2>2. k \in 1 .. n /\ k + 1 \in 1 .. n /\ (k < j => k # j) /\ (~(k < j) => k + 1 # j)
    BY <1>2
  <2> QED  BY <1>8, <2>1, <2>2
<1> HIDE DEF U, d, u
<1>10. Lists(u, U)
  <2> SUFFICES ASSUME NEW o \in Prios
               PROVE  Len(U[o]) \in 0 .. TASK_MAX - 1 /\ IsList(u, o, Len(U[o]), U[o])
    BY DEF Lists
  <2>1. CASE o = old  BY <1>4, <1>5, <1>6, <2>1
  <2>2. CASE o # old
    <3> DEFINE r == Q[o]
               m == Len(r)
    <3>1. m \in 0 .. TASK_MAX - 1 /\ r \in [1 .. m -> TaskSlots] /\ IsList(q, o, m, r)
      BY <1>1, SeqFun DEF Lists
    <3>2. \A k \in 1 .. m : (j > 1 => r[k] # s[j - 1]) /\ r[k] \in Slots
      <4>1. j > 1 => j - 1 \in 1 .. Len(Q[old])  BY <1>1
      <4>2. TaskSlots \subseteq Slots  BY SchedConstants DEF TaskSlots, Slots
      <4> QED  BY <2>2, <3>1, <4>1, <4>2 DEF Apart
    <3> HIDE DEF r, m
    <3>3. IsList(u, o, m, r)  BY <1>5, <2>2, <3>1, <3>2 DEF IsList
    <3> QED  BY <1>6, <2>2, <3>1, <3>3 DEF r, m
  <2> QED  BY <2>1, <2>2
<1>11. Outside(U, i)
  <2> SUFFICES ASSUME NEW o \in Prios, NEW k \in 1 .. Len(U[o]) PROVE U[o][k] # i
    BY DEF Outside
  <2>1. CASE o = old  BY <1>4, <1>6, <1>9, <2>1
  <2>2. CASE o # old  BY <1>6, <2>2 DEF Apart
  <2> QED  BY <2>1, <2>2
<1>12. Apart(U)
  <2>1. ASSUME NEW o \in Prios, NEW k \in 1 .. Len(U[o])
        PROVE  \E l \in 1 .. Len(Q[o]) : U[o][k] = Q[o][l]
    <3>1. CASE o = old
      <4>1. U[o][k] = d[k] /\ k \in 1 .. n - 1  BY <1>4, <1>6, <3>1
      <4>2. PICK l \in 1 .. n : d[k] = s[l]  BY <1>9, <4>1
      <4> QED  BY <3>1, <4>1, <4>2
    <3>2. CASE o # old  BY <1>6, <3>2
    <3> QED  BY <3>1, <3>2
  <2> SUFFICES ASSUME NEW o \in Prios, NEW r \in Prios, o # r,
                      NEW k \in 1 .. Len(U[o]), NEW l \in 1 .. Len(U[r])
               PROVE  U[o][k] # U[r][l]
    BY DEF Apart
  <2>2. PICK a \in 1 .. Len(Q[o]) : U[o][k] = Q[o][a]  BY <2>1
  <2>3. PICK b \in 1 .. Len(Q[r]) : U[r][l] = Q[r][b]  BY <2>1
  <2> QED  BY <2>2, <2>3 DEF Apart
<1>13. u.head[p] # 0 => u.tail[p] # i
  <2> DEFINE r == U[p]
             m == Len(r)
  <2>1. U[p] \in Seq(TaskSlots)  BY <1>7 DEF Queues
  <2>2. m \in 0 .. TASK_MAX - 1 /\ r \in [1 .. m -> TaskSlots] /\ IsList(u, p, m, r)
    BY <1>10, <2>1, SeqFun DEF Lists
  <2>3. \A k \in 1 .. m : r[k] # i  BY <1>11 DEF Outside
  <2> HIDE DEF r, m
  <2>4. u.head[p] # 0 => m > 0 /\ u.tail[p] = r[m]  BY <1>5, <2>2, ListEnds
  <2> QED  BY <2>2, <2>3, <2>4
<1>14. Requeue(q, old, p, i) = Enqueue(u, p, i)
  BY <1>5, <1>13, ClearAfterLink DEF Requeue, u
<1>15. /\ [U EXCEPT ![p] = Append(@, i)] \in Queues
       /\ Lists(Enqueue(u, p, i), [U EXCEPT ![p] = Append(@, i)])
  BY <1>5, <1>7, <1>10, <1>11, <1>12, QueuesEnqueue
<1>16. [U EXCEPT ![p] = Append(@, i)] = [Q EXCEPT ![old] = Without(@, j), ![p] = Append(@, i)]
  BY DEF U, d
<1>17. Enqueue(u, p, i) \in RQType  BY <1>5, EnqueueShape
<1> QED  BY <1>14, <1>15, <1>16, <1>17

-----------------------------------------------------------------------------
\* The queues of a state.
TheQueues == [p \in Prios |-> Queue(p)]

LEMMA StateQueues ==
  ASSUME IInv
  PROVE  /\ TheQueues \in Queues /\ Lists(rq, TheQueues) /\ Apart(TheQueues)
         /\ \A o \in Prios : \A k \in 1 .. Len(TheQueues[o]) : state[TheQueues[o][k]] = "READY"
         /\ ~scheduler_running =>
              \A i \in TaskSlots : state[i] = "READY" =>
                \E k \in 1 .. Len(TheQueues[priority[i]]) : TheQueues[priority[i]][k] = i
<1> DEFINE Q == TheQueues
<1>1. ASSUME NEW o \in Prios
      PROVE  /\ Q[o] \in Seq(TaskSlots)
             /\ Len(Q[o]) \in 0 .. TASK_MAX - 1
             /\ GoodList(rq, state, priority, {}, ~scheduler_running, o, Len(Q[o]), Q[o])
  <2>0. Q[o] = QueueOf(rq, o)  BY DEF TheQueues, Queue
  <2>1. PICK n \in 0 .. TASK_MAX - 1 : \E s \in [1 .. n -> TaskSlots] :
               GoodList(rq, state, priority, {}, ~scheduler_running, o, n, s)
    BY InvFacts DEF GoodLists
  <2>2. PICK s \in [1 .. n -> TaskSlots] :
               GoodList(rq, state, priority, {}, ~scheduler_running, o, n, s)
    BY <2>1
  <2>3. IsList(rq, o, n, s)  BY <2>2 DEF GoodList
  <2>4. Q[o] = s  BY <2>0, <2>3, QueueIs, InvFacts
  <2>5. s \in Seq(TaskSlots) /\ Len(s) = n  BY SchedConstants
  <2> QED  BY <2>2, <2>4, <2>5
<1>2. Q \in Queues
  <2>1. Q = [p \in Prios |-> Q[p]]  BY DEF TheQueues
  <2> QED  BY <1>1, <2>1 DEF Queues
<1> HIDE DEF Q
<1>3. Lists(rq, Q)  BY <1>1 DEF Lists, GoodList
<1>4. Apart(Q)  BY <1>1 DEF Apart, GoodList
<1>5. \A o \in Prios : \A k \in 1 .. Len(Q[o]) : state[Q[o][k]] = "READY"  BY <1>1 DEF GoodList
<1>6. ASSUME ~scheduler_running, NEW i \in TaskSlots, state[i] = "READY"
      PROVE  \E k \in 1 .. Len(Q[priority[i]]) : Q[priority[i]][k] = i
  <2>1. priority[i] \in Prios  BY InvFacts
  <2> QED  BY <1>1, <1>6, <2>1 DEF GoodList
<1> QED  BY <1>2, <1>3, <1>4, <1>5, <1>6 DEF Q

LEMMA StateQueuesAfter ==
  ASSUME rq' \in RQType, NEW Q \in Queues, Lists(rq', Q)
  PROVE  TheQueues' = Q
<1>1. [p \in Prios |-> QueueOf(rq', p)] = Q  BY QueuesAre
<1> QED  BY <1>1 DEF TheQueues, Queue

TheLevel == IF scheduler_running THEN priority[current_task] ELSE 0

\* Nothing a client of the queues sees has changed.
LEMMA QueuesStutter ==
  ASSUME UNCHANGED <<rq, current_task, TheLevel>> PROVE UNCHANGED RQ!avars
<1>1. TheQueues' = TheQueues  BY DEF TheQueues, Queue
<1> QED  BY <1>1 DEF RQ!avars, TheQueues, TheLevel

\* The enqueue of task_create_priority and task_wake.
LEMMA AddStep ==
  ASSUME IInv, NEW i \in TaskSlots, NEW p \in Prios, state[i] # "READY",
         rq' = Enqueue(rq, p, i), UNCHANGED <<current_task, TheLevel>>
  PROVE  RQ!Add(i, p)
<1> DEFINE Q == TheQueues
<1>1. rq \in RQType  BY InvFacts
<1>2. Q \in Queues /\ Lists(rq, Q) /\ Apart(Q)  BY StateQueues
<1>3. Outside(Q, i)  BY StateQueues DEF Outside
<1> HIDE DEF Q
<1>4. [Q EXCEPT ![p] = Append(@, i)] \in Queues /\ Lists(rq', [Q EXCEPT ![p] = Append(@, i)])
  BY <1>1, <1>2, <1>3, QueuesEnqueue
<1>5. rq' \in RQType  BY <1>1, EnqueueShape
<1>6. TheQueues' = [Q EXCEPT ![p] = Append(@, i)]  BY <1>4, <1>5, StateQueuesAfter
<1>7. ~(\E l \in Prios : i \in RQ!ToSet(Q[l]))
  <2> SUFFICES ASSUME NEW l \in Prios, i \in RQ!ToSet(Q[l]) PROVE FALSE  OBVIOUS
  <2>1. Q[l] \in Seq(TaskSlots)  BY <1>2 DEF Queues
  <2>2. PICK k \in DOMAIN Q[l] : Q[l][k] = i  BY DEF RQ!ToSet
  <2>3. k \in 1 .. Len(Q[l])  BY <2>1, <2>2
  <2> QED  BY <1>3, <2>2, <2>3 DEF Outside
<1> QED  BY <1>6, <1>7 DEF RQ!Add, RQ!Waiting, TheQueues, TheLevel, Q

\* A task takes the CPU from the front of a queue.
LEMMA PopStep ==
  ASSUME IInv, NEW p \in Prios, rq.head[p] # 0
  PROVE  /\ TheQueues[p] # <<>> /\ rq.head[p] = Head(TheQueues[p])
         /\ [TheQueues EXCEPT ![p] = Tail(@)] \in Queues
         /\ Lists(Pop(rq, p), [TheQueues EXCEPT ![p] = Tail(@)])
         /\ Pop(rq, p) \in RQType
<1>1. rq \in RQType  BY InvFacts
<1>2. TheQueues \in Queues /\ Lists(rq, TheQueues)  BY StateQueues
<1>3. Pop(rq, p) \in RQType  BY <1>1, PopShape
<1> QED  BY <1>1, <1>2, <1>3, QueuesPop

\* An empty list stands for an empty queue.
LEMMA EmptyQueue ==
  ASSUME IInv, NEW p \in Prios, rq.head[p] = 0 PROVE TheQueues[p] = <<>>
<1> DEFINE s == TheQueues[p]
           n == Len(s)
<1>1. TheQueues \in Queues /\ Lists(rq, TheQueues) /\ rq \in RQType  BY StateQueues, InvFacts
<1>2. s \in Seq(TaskSlots)  BY <1>1 DEF Queues
<1>3. n \in 0 .. TASK_MAX - 1 /\ s \in [1 .. n -> TaskSlots] /\ IsList(rq, p, n, s)
  BY <1>1, <1>2, SeqFun DEF Lists
<1>4. n = 0  BY <1>1, <1>3, ListEnds
<1> QED  BY <1>2, <1>4

\* The dispatch of task_yield and task_sleep: the caller goes to the back of its
\* queue or into none.
LEMMA DispatchStep ==
  ASSUME IInv, scheduler_running, NEW again \in BOOLEAN,
         rq.head[priority[current_task]] # 0,
         current_task' = rq.head[priority[current_task]],
         again => state[current_task] # "READY",
         rq' = IF again THEN Enqueue(Pop(rq, priority[current_task]), priority[current_task],
                                     current_task)
                        ELSE Pop(rq, priority[current_task]),
         UNCHANGED <<scheduler_running, priority>>
  PROVE  RQ!Dispatch(again)
<1> DEFINE p == priority[current_task]
           h == rq.head[p]
           Q == TheQueues
           T == [Q EXCEPT ![p] = Tail(@)]
<1>1. p \in Prios /\ current_task \in TaskSlots /\ current_task # 0
  <2>1. current_task \in 1 .. task_counter - 1 /\ task_counter \in 1 .. TASK_MAX
    BY DEF IInv, TypeOK, CurrentCreated
  <2>2. current_task \in TaskSlots  BY <2>1, SchedConstants DEF TaskSlots
  <2> QED  BY <2>2, InvFacts
<1>2. /\ Q[p] # <<>> /\ h = Head(Q[p]) /\ T \in Queues /\ Lists(Pop(rq, p), T)
      /\ Pop(rq, p) \in RQType
  BY <1>1, PopStep
<1>3. TheLevel = p /\ TheLevel' = p
  <2>1. priority[h] = p  BY <1>1, HeadPriority
  <2> QED  BY <2>1 DEF TheLevel
<1>4. Q \in Queues /\ Apart(Q)  BY StateQueues
<1>5. Q[p] \in Seq(TaskSlots)  BY <1>1, <1>4 DEF Queues
<1> HIDE DEF T
<1>6. T[p] = Tail(Q[p]) /\ \A o \in Prios : o # p => T[o] = Q[o]  BY <1>1, <1>4 DEF T, Queues
<1>7. ASSUME NEW o \in Prios, NEW k \in 1 .. Len(T[o])
      PROVE  \E l \in 1 .. Len(Q[o]) : T[o][k] = Q[o][l]
  <2>1. CASE o = p
    <3> DEFINE s == Q[p]
    <3>1. s \in Seq(TaskSlots) /\ s # <<>> /\ T[o] = Tail(s)  BY <1>2, <1>5, <1>6, <2>1
    <3> HIDE DEF s
    <3>2. k + 1 \in 1 .. Len(s) /\ Tail(s)[k] = s[k + 1]  BY <3>1
    <3> QED  BY <2>1, <3>1, <3>2 DEF s
  <2>2. CASE o # p  BY <1>6, <2>2
  <2> QED  BY <2>1, <2>2
<1>8. Apart(T)
  <2> SUFFICES ASSUME NEW o \in Prios, NEW r \in Prios, o # r,
                      NEW k \in 1 .. Len(T[o]), NEW l \in 1 .. Len(T[r])
               PROVE  T[o][k] # T[r][l]
    BY DEF Apart
  <2>1. PICK a \in 1 .. Len(Q[o]) : T[o][k] = Q[o][a]  BY <1>7
  <2>2. PICK b \in 1 .. Len(Q[r]) : T[r][l] = Q[r][b]  BY <1>7
  <2> QED  BY <1>4, <2>1, <2>2 DEF Apart
<1>9. CASE again
  <2>1. \A o \in Prios : \A k \in 1 .. Len(Q[o]) : Q[o][k] # current_task
    BY <1>9, StateQueues
  <2>2. Outside(T, current_task)
    <3> SUFFICES ASSUME NEW o \in Prios, NEW k \in 1 .. Len(T[o]) PROVE T[o][k] # current_task
      BY DEF Outside
    <3>1. PICK l \in 1 .. Len(Q[o]) : T[o][k] = Q[o][l]  BY <1>7
    <3> QED  BY <2>1, <3>1
  <2>3. rq' = Enqueue(Pop(rq, p), p, current_task)  BY <1>9
  <2>4. /\ [T EXCEPT ![p] = Append(@, current_task)] \in Queues
        /\ Lists(rq', [T EXCEPT ![p] = Append(@, current_task)])
    BY <1>1, <1>2, <1>8, <2>2, <2>3, QueuesEnqueue
  <2>5. rq' \in RQType  BY <1>1, <1>2, <2>3, EnqueueShape
  <2>6. TheQueues' = [T EXCEPT ![p] = Append(@, current_task)]
    BY <2>4, <2>5, StateQueuesAfter
  <2>7. TheQueues' = [Q EXCEPT ![p] = Append(Tail(@), current_task)]  BY <2>6 DEF T
  <2> HIDE DEF p, h, Q
  <2>8. TheQueues' = [Q EXCEPT ![p] = IF again THEN Append(Tail(@), current_task) ELSE Tail(@)]
    BY <1>9, <2>7
  <2> QED  BY <1>1, <1>2, <1>3, <2>8 DEF RQ!Dispatch, TheQueues, TheLevel, Q, p, h
<1>10. CASE ~again
  <2>1. rq' = Pop(rq, p)  BY <1>10
  <2>2. TheQueues' = T  BY <1>2, <2>1, StateQueuesAfter
  <2>3. TheQueues' = [Q EXCEPT ![p] = Tail(@)]  BY <2>2 DEF T
  <2> HIDE DEF p, h, Q
  <2>4. TheQueues' = [Q EXCEPT ![p] = IF again THEN Append(Tail(@), current_task) ELSE Tail(@)]
    BY <1>10, <2>3
  <2> QED  BY <1>1, <1>2, <1>3, <2>4 DEF RQ!Dispatch, TheQueues, TheLevel, Q, p, h
<1> QED  BY <1>9, <1>10

\* task_yield, by a task or at the end of timer_handler.
LEMMA YieldStep ==
  ASSUME IInv, Yield, UNCHANGED <<scheduler_running, priority>>
  PROVE  (\E again \in BOOLEAN : RQ!Dispatch(again)) \/ UNCHANGED RQ!avars
<1> DEFINE p == priority[current_task]
<1>1. CASE scheduler_running /\ current_task # 0 /\ rq.head[p] # 0
  <2>1. CASE state[current_task] = "RUNNING"
    <3>1. rq' = Enqueue(Pop(rq, p), p, current_task) /\ current_task' = rq.head[p]
      BY <1>1, <2>1 DEF Yield
    <3>2. RQ!Dispatch(TRUE)  BY <1>1, <2>1, <3>1, DispatchStep
    <3> QED  BY <3>2
  <2>2. CASE state[current_task] # "RUNNING"
    <3>1. rq' = Pop(rq, p) /\ current_task' = rq.head[p]  BY <1>1, <2>2 DEF Yield
    <3>2. RQ!Dispatch(FALSE)  BY <1>1, <3>1, DispatchStep
    <3> QED  BY <3>2
  <2> QED  BY <2>1, <2>2
<1>2. CASE ~(scheduler_running /\ current_task # 0 /\ rq.head[p] # 0)
  <2>1. UNCHANGED <<current_task, rq>>  BY <1>2 DEF Yield
  <2>2. TheLevel' = TheLevel  BY <2>1 DEF TheLevel
  <2> QED  BY <2>1, <2>2, QueuesStutter
<1> QED  BY <1>1, <1>2

\* task_wake, by a task or by sched_tick: the first blocked task of that id
\* joins its queue.
LEMMA WakeStep ==
  ASSUME IInv, NEW t, Wake(t), UNCHANGED <<current_task, scheduler_running, priority>>
  PROVE  (\E i \in TaskSlots, p \in Prios : RQ!Add(i, p)) \/ UNCHANGED RQ!avars
<1> DEFINE blocked == {i \in TaskSlots : id[i] = t /\ state[i] = "BLOCKED"}
<1>0. TheLevel' = TheLevel  BY DEF TheLevel
<1>1. CASE blocked = {}
  <2>1. rq' = rq  BY <1>1 DEF Wake
  <2> QED  BY <1>0, <2>1, QueuesStutter
<1>2. CASE blocked # {}
  <2>1. PICK i \in TaskSlots : First(blocked, i) /\ rq' = Enqueue(rq, priority[i], i)
    BY <1>2 DEF Wake
  <2>2. state[i] # "READY" /\ priority[i] \in Prios  BY <2>1, InvFacts DEF First
  <2>3. RQ!Add(i, priority[i])  BY <1>0, <2>1, <2>2, AddStep
  <2> QED  BY <2>2, <2>3
<1> QED  BY <1>1, <1>2

\* task_create_priority: the new task joins the queue of its priority.
LEMMA CreateStep ==
  ASSUME IInv, NEW prio \in 0 .. TASK_PRIORITY_MAX + 1, TaskCreatePriority(prio)
  PROVE  \E i \in TaskSlots, p \in Prios : RQ!Add(i, p)
<1>1. PICK slot \in TaskSlots :
        /\ First({i \in TaskSlots : state[i] = "EMPTY"}, slot)
        /\ priority' = [priority EXCEPT ![slot] = Clip(prio)]
        /\ rq' = Enqueue(rq, Clip(prio), slot)
  BY DEF TaskCreatePriority
<1>2. UNCHANGED <<current_task, scheduler_running>>  BY DEF TaskCreatePriority
<1>3. Clip(prio) \in Prios  BY SchedConstants DEF Clip, Prios
<1>4. state[slot] = "EMPTY"  BY <1>1 DEF First
<1>5. TheLevel' = TheLevel
  <2>1. CASE scheduler_running
    <3>1. current_task \in 1 .. task_counter - 1 /\ task_counter \in 1 .. TASK_MAX
      BY <2>1 DEF IInv, TypeOK, CurrentCreated
    <3>2. current_task \in TaskSlots /\ current_task < task_counter
      BY <3>1, SchedConstants DEF TaskSlots
    <3>3. slot # current_task  BY <1>4, <3>2 DEF IInv, IdsAreSlots
    <3> QED  BY <1>1, <1>2, <3>3, InvFacts DEF TheLevel
  <2>2. CASE ~scheduler_running  BY <1>2, <2>2 DEF TheLevel
  <2> QED  BY <2>1, <2>2
<1>6. RQ!Add(slot, Clip(prio))  BY <1>1, <1>2, <1>3, <1>4, <1>5, AddStep
<1> QED  BY <1>3, <1>6

\* task_set_priority, before sched_start: the task goes to the back of another queue.
LEMMA MoveStep ==
  ASSUME IInv, NEW t \in TaskSlots, NEW prio \in 0 .. TASK_PRIORITY_MAX + 1,
         SetPriorityAtBoot(t, prio)
  PROVE  \E i \in TaskSlots, from, to \in Prios : RQ!Move(i, from, to)
<1>1. PICK i \in TaskSlots :
        /\ First({j \in TaskSlots : id[j] = t}, i)
        /\ priority[i] # Clip(prio)
        /\ rq' = Requeue(rq, priority[i], Clip(prio), i)
  BY DEF SetPriorityAtBoot, TaskSetPriority
<1>2. ~scheduler_running /\ UNCHANGED <<current_task, scheduler_running>>
  BY DEF SetPriorityAtBoot, TaskSetPriority
<1> DEFINE Q == TheQueues
           old == priority[i]
           p == Clip(prio)
<1>3. p \in Prios /\ old \in Prios /\ rq \in RQType  BY SchedConstants, InvFacts DEF Clip, Prios
<1>4. current_task = 0  BY <1>2 DEF IInv, CurrentCreated
<1>5. state[i] = "READY"
  BY <1>1, <1>2, SchedConstants DEF IInv, IdsAreSlots, BootSlots, First, TaskSlots
<1>6. /\ Q \in Queues /\ Lists(rq, Q) /\ Apart(Q)
      /\ \A k \in TaskSlots : state[k] = "READY" =>
           \E l \in 1 .. Len(Q[priority[k]]) : Q[priority[k]][l] = k
  BY <1>2, StateQueues
<1>7. PICK j \in 1 .. Len(Q[old]) : Q[old][j] = i  BY <1>5, <1>6
<1>8. ASSUME NEW k \in TaskSlots, rq.next[k] # 0
      PROVE  \E o \in Prios : \E l \in 1 .. Len(Q[o]) : Q[o][l] = k
  <2>1. state[k] = "READY"  BY <1>2, <1>8 DEF IInv, BootSlots
  <2>2. priority[k] \in Prios  BY InvFacts
  <2> QED  BY <1>6, <2>1, <2>2
<1>9. Q[old] \in Seq(TaskSlots)  BY <1>3, <1>6 DEF Queues
<1> HIDE DEF Q
<1>10. /\ [Q EXCEPT ![old] = Without(@, j), ![p] = Append(@, i)] \in Queues
       /\ Requeue(rq, old, p, i) \in RQType
       /\ Lists(Requeue(rq, old, p, i), [Q EXCEPT ![old] = Without(@, j), ![p] = Append(@, i)])
  <2> HIDE DEF old, p
  <2>1. p # old  BY <1>1 DEF old, p
  <2> QED  BY <1>3, <1>6, <1>7, <1>8, <2>1, QueuesMove
<1>11. TheQueues' = [Q EXCEPT ![old] = Without(@, j), ![p] = Append(@, i)]
  BY <1>1, <1>10, StateQueuesAfter
<1>12. TheQueues' = [Q EXCEPT ![old] = RQ!RemoveAt(@, j), ![p] = Append(@, i)]
  BY <1>11 DEF Without, RQ!RemoveAt
<1>13. j \in DOMAIN Q[old] /\ Q[old][j] = i  BY <1>7, <1>9
<1>14. TheLevel' = TheLevel  BY <1>2 DEF TheLevel
<1> HIDE DEF old, p
<1>15. old # p  BY <1>1 DEF old, p
<1>16. RQ!Move(i, old, p)
  BY <1>2, <1>4, <1>12, <1>13, <1>14, <1>15 DEF RQ!Move, TheQueues, TheLevel, Q
<1> QED  BY <1>3, <1>16

\* sched_start takes the front of the highest queue that is not empty.
LEMMA StartStep == ASSUME IInv, SchedStart PROVE \E l \in Prios : RQ!Start(l)
<1>1. PICK p \in Prios :
        /\ rq.head[p] # 0
        /\ \A hp \in Prios : hp > p => rq.head[hp] = 0
        /\ scheduler_running' = TRUE
        /\ current_task' = rq.head[p]
        /\ rq' = Pop(rq, p)
  BY DEF SchedStart
<1>2. ~scheduler_running /\ priority' = priority  BY DEF SchedStart
<1>3. current_task = 0  BY <1>2 DEF IInv, CurrentCreated
<1>4. /\ TheQueues[p] # <<>> /\ rq.head[p] = Head(TheQueues[p])
      /\ [TheQueues EXCEPT ![p] = Tail(@)] \in Queues
      /\ Lists(Pop(rq, p), [TheQueues EXCEPT ![p] = Tail(@)])
      /\ Pop(rq, p) \in RQType
  BY <1>1, PopStep
<1>5. TheQueues' = [TheQueues EXCEPT ![p] = Tail(@)]  BY <1>1, <1>4, StateQueuesAfter
<1>6. \A h \in Prios : h > p => TheQueues[h] = <<>>  BY <1>1, EmptyQueue
<1>7. TheLevel' = p
  <2>1. priority[rq.head[p]] = p  BY <1>1, HeadPriority
  <2> QED  BY <1>1, <1>2, <2>1 DEF TheLevel
<1>8. RQ!Start(p)
  BY <1>1, <1>3, <1>4, <1>5, <1>6, <1>7 DEF RQ!Start, TheQueues, TheLevel
<1> QED  BY <1>8

\* The linked lists of sched.c implement one FIFO queue per priority level, for
\* any number of tasks and levels: a task joins at the back, leaves from the
\* front, and the CPU goes to the front of its own level's queue.
THEOREM SchedFifoPerLevel == Spec => FifoPerLevel
<1>1. ASSUME Init PROVE RQ!AInit
  <2>1. IInv  BY <1>1, InitInv
  <2>2. \A p \in Prios : TheQueues[p] = <<>>
    <3>1. \A p \in Prios : rq.head[p] = 0  BY <1>1 DEF Init
    <3> QED  BY <2>1, <3>1, EmptyQueue
  <2>3. TheQueues = [p \in Prios |-> TheQueues[p]]  BY DEF TheQueues
  <2>4. TheQueues = [p \in Prios |-> <<>>]  BY <2>2, <2>3
  <2>5. TheLevel = 0 /\ current_task = 0  BY <1>1 DEF Init, TheLevel
  <2> QED  BY <2>4, <2>5 DEF RQ!AInit, TheQueues, TheLevel
<1>2. ASSUME IInv, [Next]_vars PROVE [RQ!ANext]_RQ!avars
  <2>0. ASSUME UNCHANGED <<rq, current_task, scheduler_running, priority>>
        PROVE  UNCHANGED RQ!avars
    BY <2>0, QueuesStutter DEF TheLevel
  <2>1. ASSUME NEW prio \in 0 .. TASK_PRIORITY_MAX + 1, TaskCreatePriority(prio) PROVE RQ!ANext
    BY <1>2, <2>1, CreateStep DEF RQ!ANext
  <2>2. ASSUME NEW t \in TaskSlots, NEW prio \in 0 .. TASK_PRIORITY_MAX + 1,
               SetPriorityAtBoot(t, prio)
        PROVE  RQ!ANext
    BY <1>2, <2>2, MoveStep DEF RQ!ANext
  <2>3. CASE TaskYield \/ TimerYield
    <3>1. Yield /\ UNCHANGED <<scheduler_running, priority>>
      BY <2>3 DEF TaskYield, TimerYield
    <3> QED  BY <1>2, <3>1, YieldStep DEF RQ!ANext
  <2>4. ASSUME NEW ms \in 0 .. MAX_SLEEP, TaskSleep(ms) PROVE [RQ!ANext]_RQ!avars
    <3> DEFINE p == priority[current_task]
    <3>1. scheduler_running /\ UNCHANGED <<scheduler_running, priority>>  BY <2>4 DEF TaskSleep
    <3>2. CASE rq.head[p] = 0
      <4>1. UNCHANGED <<current_task, rq>>  BY <2>4, <3>2 DEF TaskSleep
      <4> QED  BY <2>0, <3>1, <4>1
    <3>3. CASE rq.head[p] # 0
      <4>1. current_task' = rq.head[p] /\ rq' = Pop(rq, p)  BY <2>4, <3>3 DEF TaskSleep
      <4>2. RQ!Dispatch(FALSE)  BY <1>2, <3>1, <3>3, <4>1, DispatchStep
      <4> QED  BY <4>2 DEF RQ!ANext
    <3> QED  BY <3>2, <3>3
  <2>5. ASSUME NEW t \in TaskSlots, WakeOther(t) PROVE [RQ!ANext]_RQ!avars
    <3>1. Wake(t) /\ UNCHANGED <<current_task, scheduler_running, priority>>
      BY <2>5 DEF WakeOther, TaskWake
    <3> QED  BY <1>2, <3>1, WakeStep DEF RQ!ANext
  <2>6. CASE SchedStart  BY <1>2, <2>6, StartStep DEF RQ!ANext
  <2>7. CASE TimerInterrupt  BY <2>0, <2>7 DEF TimerInterrupt
  <2>8. CASE SchedTick
    <3>1. UNCHANGED <<current_task, scheduler_running, priority>>  BY <2>8 DEF SchedTick
    <3>2. rq' = rq \/ Wake(id[irq])  BY <2>8 DEF SchedTick
    <3>3. CASE rq' = rq  BY <2>0, <3>1, <3>3
    <3>4. CASE Wake(id[irq])  BY <1>2, <3>1, <3>4, WakeStep DEF RQ!ANext
    <3> QED  BY <3>2, <3>3, <3>4
  <2>9. CASE UNCHANGED vars  BY <2>0, <2>9 DEF vars
  <2> QED  BY <1>2, <2>1, <2>2, <2>3, <2>4, <2>5, <2>6, <2>7, <2>8, <2>9 DEF Next, Timer
<1> QED  BY <1>1, <1>2, SchedInv, PTL DEF Spec, FifoPerLevel, RQ!ASpec
=============================================================================
