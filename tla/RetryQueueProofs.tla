-------------------------- MODULE RetryQueueProofs --------------------------
(***************************************************************************)
(* Proofs about the binary heap of PqueueOps and its state machine         *)
(* InFlightPqueue, for heaps of any size over any set of items, and about  *)
(* the deliveries, acknowledgements and scans of RetryQueue that use the   *)
(* heap, for any messages, connections and pool goroutines.                *)
(*                                                                         *)
(* The loops of up and down are recursive functions of the number of turns *)
(* (Turns).  An argument over the turns is an induction over a set of      *)
(* numbers (SetInduction).  What the loops do to the deadlines is said of  *)
(* the function from slots to deadlines alone: Above and Below.            *)
(*                                                                         *)
(* Of the deliveries, BaseInv holds in every state, and OnceInv as long as *)
(* no message has been handed over a second time (Once).  The heap comes   *)
(* in through the facts on Push, Pop and Remove.                           *)
(***************************************************************************)
EXTENDS RetryQueue, InFlightPqueue, WellFoundedInduction, FiniteSetTheorems, TLAPS

-----------------------------------------------------------------------------
(* Induction and iteration *)

LEMMA SetInduction ==
  ASSUME NEW P, 0 \in P, \A k \in Nat: k \in P => k + 1 \in P
  PROVE  \A k \in Nat: k \in P
  <1> DEFINE bad == { k \in Nat: k \notin P }
  <1> SUFFICES ASSUME bad # {} PROVE FALSE OBVIOUS
  <1>1. PICK a \in bad: TRUE OBVIOUS
  <1>2. bad \in SUBSET Nat OBVIOUS
  <1>3. \E i \in bad: \A j \in bad: <<j, i>> \notin OpToRel(<, Nat)
    <2> HIDE DEF bad
    <2> QED BY <1>1, <1>2, NatLessThanWellFounded, WFMin
  <1>4. ASSUME NEW i \in Nat, NEW j \in Nat, <<j, i>> \notin OpToRel(<, Nat) PROVE ~(j < i)
    BY <1>4 DEF OpToRel
  <1>5. PICK i \in bad: \A j \in bad: <<j, i>> \notin OpToRel(<, Nat) BY <1>3
  <1>6. \A j \in bad: ~(j < i) BY <1>4, <1>5
  <1>7. i # 0 /\ i \in Nat OBVIOUS
  <1>8. i - 1 \in Nat /\ i - 1 < i /\ (i - 1) + 1 = i BY <1>7
  <1>9. i - 1 \in P BY <1>6, <1>8
  <1> QED BY <1>8, <1>9

\* t is the sequence of states of a loop: F does one turn.
Turns(t, F, s, m) == t[0] = s /\ \A k \in 1 .. m: t[k] = F[t[k - 1]]

LEMMA TurnsExist ==
  ASSUME NEW S, NEW F \in [S -> S], NEW s \in S
  PROVE  \A m \in Nat: \E t \in [0 .. m -> S]: Turns(t, F, s, m)
  <1> DEFINE P == { m \in Nat: \E t \in [0 .. m -> S]: Turns(t, F, s, m) }
  <1>1. 0 \in P
    <2>1. [k \in 0 .. 0 |-> s] \in [0 .. 0 -> S] /\ Turns([k \in 0 .. 0 |-> s], F, s, 0) BY DEF Turns
    <2> QED BY <2>1
  <1>2. ASSUME NEW m \in Nat, m \in P PROVE m + 1 \in P
    <2>1. PICK t \in [0 .. m -> S]: Turns(t, F, s, m) BY <1>2
    <2> DEFINE u == [k \in 0 .. m + 1 |-> IF k = m + 1 THEN F[t[m]] ELSE t[k]]
    <2>2. t[m] \in S OBVIOUS
    <2>3. u \in [0 .. m + 1 -> S] BY <2>2
    <2>4. u[0] = s BY <2>1 DEF Turns
    <2>5. ASSUME NEW k \in 1 .. m + 1 PROVE u[k] = F[u[k - 1]]
      <3>1. k - 1 \in 0 .. m /\ u[k - 1] = t[k - 1] OBVIOUS
      <3>2. CASE k = m + 1 BY <3>1, <3>2
      <3>3. CASE k # m + 1
        <4>1. k \in 1 .. m /\ u[k] = t[k] BY <3>3
        <4> QED BY <2>1, <3>1, <4>1 DEF Turns
      <3> QED BY <3>2, <3>3
    <2> HIDE DEF u
    <2>6. Turns(u, F, s, m + 1) BY <2>4, <2>5 DEF Turns
    <2> QED BY <2>3, <2>6
  <1> HIDE DEF P
  <1>3. \A m \in Nat: m \in P BY <1>1, <1>2, SetInduction
  <1> QED BY <1>3 DEF P

-----------------------------------------------------------------------------
(* Heaps, and the exchange of two slots *)

Heaps(X) == [q: Seq(X), index: [X -> Int], pri: [X -> Nat], cap: Nat]

Slots(h) == 0 .. Len(h.q) - 1

\* Every item knows its slot.
Knows(h) == \A i \in Slots(h): h.index[Slot(h, i)] = i

\* A heap of X, in which every item knows its slot.
Sane(h, X) == h \in Heaps(X) /\ Knows(h)

\* The same items with the same deadlines; an item that is out is left alone.
Keeps(g, h, X) ==
    /\ Len(g.q) = Len(h.q) /\ Queued(g) = Queued(h) /\ g.pri = h.pri /\ g.cap = h.cap
    /\ \A x \in X \ Queued(h): g.index[x] = h.index[x]

LEMMA HeapFacts ==
  ASSUME NEW X, NEW h \in Heaps(X)
  PROVE  /\ Len(h.q) \in Nat /\ h.q \in Seq(X) /\ h.index \in [X -> Int] /\ h.pri \in [X -> Nat] /\ h.cap \in Nat
         /\ \A i \in Slots(h): Slot(h, i) \in X /\ PriAt(h, i) \in Nat /\ Slot(h, i) \in Queued(h)
         /\ \A x \in Queued(h): x \in X /\ \E i \in Slots(h): x = Slot(h, i)
  <1>1. Len(h.q) \in Nat /\ h.q \in Seq(X) /\ h.index \in [X -> Int] /\ h.pri \in [X -> Nat] /\ h.cap \in Nat
    BY DEF Heaps
  <1>2. DOMAIN h.q = 1 .. Len(h.q) BY <1>1
  <1>3. ASSUME NEW i \in Slots(h) PROVE Slot(h, i) \in X /\ PriAt(h, i) \in Nat /\ Slot(h, i) \in Queued(h)
    <2>1. i + 1 \in 1 .. Len(h.q) BY <1>1 DEF Slots
    <2>2. Slot(h, i) \in X BY <1>1, <2>1 DEF Slot
    <2> QED BY <1>1, <1>2, <2>1, <2>2 DEF PriAt, Slot, Queued
  <1>4. ASSUME NEW x \in Queued(h) PROVE x \in X /\ \E i \in Slots(h): x = Slot(h, i)
    <2>1. PICK k \in 1 .. Len(h.q): x = h.q[k] BY <1>2 DEF Queued
    <2>2. k - 1 \in Slots(h) /\ (k - 1) + 1 = k BY <1>1 DEF Slots
    <2>3. x = Slot(h, k - 1) BY <2>1, <2>2 DEF Slot
    <2> QED BY <1>3, <2>2, <2>3
  <1> QED BY <1>1, <1>3, <1>4

\* No item is in two slots.
LEMMA OneSlot ==
  ASSUME NEW X, NEW h, Sane(h, X), NEW i \in Slots(h), NEW j \in Slots(h), i # j
  PROVE  Slot(h, i) # Slot(h, j)
  BY DEF Sane, Knows

LEMMA SwapFacts ==
  ASSUME NEW X, NEW h, Sane(h, X), NEW i \in Slots(h), NEW j \in Slots(h)
  PROVE  /\ Sane(Swap(h, i, j), X) /\ Keeps(Swap(h, i, j), h, X)
         /\ Slot(Swap(h, i, j), i) = Slot(h, j) /\ Slot(Swap(h, i, j), j) = Slot(h, i)
         /\ \A k \in Slots(h): k # i /\ k # j => Slot(Swap(h, i, j), k) = Slot(h, k)
  <1> DEFINE g == Swap(h, i, j)
             a == Slot(h, i)
             b == Slot(h, j)
  <1>0. h \in Heaps(X) /\ Knows(h) BY DEF Sane
  <1>1. Len(h.q) \in Nat /\ h.q \in Seq(X) /\ h.index \in [X -> Int] /\ h.pri \in [X -> Nat] /\ h.cap \in Nat
    BY <1>0, HeapFacts
  <1>2. a \in X /\ b \in X BY <1>0, HeapFacts
  <1>3. i + 1 \in 1 .. Len(h.q) /\ j + 1 \in 1 .. Len(h.q) /\ i \in Int /\ j \in Int BY <1>1 DEF Slots
  <1>4. /\ g.q = [h.q EXCEPT ![i + 1] = b, ![j + 1] = a]
        /\ g.index = [h.index EXCEPT ![b] = i, ![a] = j] /\ g.pri = h.pri /\ g.cap = h.cap
        /\ g = [q |-> g.q, index |-> g.index, pri |-> h.pri, cap |-> h.cap]
    BY DEF Swap
  <1> HIDE DEF g, a, b
  <1>5. g.q \in Seq(X) /\ Len(g.q) = Len(h.q)
    <2>1. ASSUME NEW s \in Seq(X), NEW u \in 1 .. Len(s), NEW v \in 1 .. Len(s), NEW c \in X, NEW d \in X
          PROVE  [s EXCEPT ![u] = c, ![v] = d] \in Seq(X) /\ Len([s EXCEPT ![u] = c, ![v] = d]) = Len(s)
      OBVIOUS
    <2> QED BY <1>1, <1>2, <1>3, <1>4, <2>1
  <1>6. g.index \in [X -> Int] BY <1>1, <1>2, <1>3, <1>4
  <1>7. g \in Heaps(X) BY <1>1, <1>4, <1>5, <1>6 DEF Heaps
  <1>8. Slot(g, i) = b /\ Slot(g, j) = a
    <2>1. DOMAIN h.q = 1 .. Len(h.q) BY <1>1
    <2>2. g.q[j + 1] = a BY <1>3, <1>4, <2>1
    <2>3. CASE i = j BY <2>2, <2>3 DEF Slot, a, b
    <2>4. CASE i # j
      <3>1. i + 1 # j + 1 BY <1>3, <2>4
      <3>2. g.q[i + 1] = b BY <1>3, <1>4, <2>1, <3>1
      <3> QED BY <2>2, <3>2 DEF Slot
    <2> QED BY <2>3, <2>4
  <1>9. ASSUME NEW k \in Slots(h), k # i, k # j PROVE Slot(g, k) = Slot(h, k)
    <2>1. k + 1 \in 1 .. Len(h.q) /\ k + 1 # i + 1 /\ k + 1 # j + 1 BY <1>1, <1>3, <1>9 DEF Slots
    <2>2. DOMAIN h.q = 1 .. Len(h.q) BY <1>1
    <2>3. g.q[k + 1] = h.q[k + 1] BY <1>4, <2>1, <2>2
    <2> QED BY <2>3 DEF Slot
  <1>10. Slots(g) = Slots(h) BY <1>5 DEF Slots
  <1>11. Knows(g)
    <2>1. ASSUME NEW k \in Slots(h) PROVE g.index[Slot(g, k)] = k
      <3>1. CASE k = j BY <1>1, <1>2, <1>4, <1>8, <3>1
      <3>2. CASE k = i /\ i # j
        <4>1. a # b BY <3>2, OneSlot DEF a, b
        <4> QED BY <1>1, <1>2, <1>4, <1>8, <3>2, <4>1
      <3>3. CASE k # i /\ k # j
        <4>1. Slot(h, k) # a /\ Slot(h, k) # b BY <3>3, OneSlot DEF a, b
        <4>2. Slot(h, k) \in X /\ h.index[Slot(h, k)] = k BY <1>0, HeapFacts DEF Knows
        <4> QED BY <1>1, <1>4, <1>9, <3>3, <4>1, <4>2
      <3> QED BY <3>1, <3>2, <3>3
    <2> QED BY <1>10, <2>1 DEF Knows
  <1>12. Queued(g) = Queued(h)
    <2>1. ASSUME NEW x \in Queued(g) PROVE x \in Queued(h)
      <3>1. PICK k \in Slots(h): x = Slot(g, k) BY <1>7, <1>10, HeapFacts
      <3>2. x = a \/ x = b \/ x = Slot(h, k) BY <1>8, <1>9, <3>1
      <3> QED BY <1>0, <3>2, HeapFacts DEF a, b
    <2>2. ASSUME NEW x \in Queued(h) PROVE x \in Queued(g)
      <3>1. PICK k \in Slots(h): x = Slot(h, k) BY <1>0, HeapFacts
      <3>2. \E l \in Slots(h): x = Slot(g, l) BY <1>8, <1>9, <3>1 DEF a, b
      <3> QED BY <1>7, <1>10, <3>2, HeapFacts
    <2> QED BY <2>1, <2>2
  <1>13. ASSUME NEW x \in X, x \notin Queued(h) PROVE g.index[x] = h.index[x]
    <2>1. a \in Queued(h) /\ b \in Queued(h) BY <1>0, HeapFacts DEF a, b
    <2>2. x # a /\ x # b BY <1>13, <2>1
    <2> QED BY <1>1, <1>4, <2>2
  <1>14. Sane(g, X) BY <1>7, <1>11 DEF Sane
  <1>15. Keeps(g, h, X) BY <1>4, <1>5, <1>12, <1>13 DEF Keeps
  <1> QED BY <1>8, <1>9, <1>14, <1>15 DEF g, a, b

-----------------------------------------------------------------------------
(* What a turn does to the deadlines: p[i] is the deadline in slot i.         *)

\* The first n slots are in order.
InOrder(p, n) == \A k \in 1 .. n - 1: p[Parent(k)] <= p[k]

\* They are but for slot j, which may be too early for its parent.
Above(p, n, j) ==
    /\ \A k \in 1 .. n - 1: k # j => p[Parent(k)] <= p[k]
    /\ j > 0 => \A k \in 1 .. n - 1: Parent(k) = j => p[Parent(j)] <= p[k]

\* They are but for slot i, which may be too late for its children, and, while
\* i is the slot j where down began, too early for its parent.
Below(p, n, j, i) ==
    /\ \A k \in 1 .. n - 1: Parent(k) # i /\ (k # j \/ i # j) => p[Parent(k)] <= p[k]
    /\ i > 0 => \A k \in 1 .. n - 1: Parent(k) = i => p[Parent(i)] <= p[k]

LEMMA ParentFacts ==
  /\ Parent(0) = 0
  /\ \A k \in Nat: k # 0 => Parent(k) \in Nat /\ Parent(k) < k /\ (k = 2 * Parent(k) + 1 \/ k = 2 * Parent(k) + 2)
  /\ \A i \in Nat: Parent(2 * i + 1) = i /\ Parent(2 * i + 2) = i
  <1>1. Parent(0) = 0 BY DEF Parent
  <1>2. ASSUME NEW k \in Nat, k # 0
        PROVE  Parent(k) \in Nat /\ Parent(k) < k /\ (k = 2 * Parent(k) + 1 \/ k = 2 * Parent(k) + 2)
    BY <1>2 DEF Parent
  <1>3. ASSUME NEW i \in Nat PROVE Parent(2 * i + 1) = i /\ Parent(2 * i + 2) = i
    BY DEF Parent
  <1> QED BY <1>1, <1>2, <1>3

\* p and r differ in the exchange of i and j.
Exchanged(r, p, n, i, j) == r[i] = p[j] /\ r[j] = p[i] /\ \A k \in 0 .. n - 1: k # i /\ k # j => r[k] = p[k]

LEMMA ParentIn ==
  ASSUME NEW n \in Nat, NEW k \in 1 .. n - 1
  PROVE  Parent(k) \in 0 .. n - 1 /\ Parent(k) < k /\ Parent(k) # k
  BY ParentFacts

LEMMA ClimbOrder ==
  ASSUME NEW n \in Nat, NEW p \in [0 .. n - 1 -> Nat], NEW r \in [0 .. n - 1 -> Nat],
         NEW j \in 1 .. n - 1, p[j] < p[Parent(j)], Above(p, n, j), Exchanged(r, p, n, Parent(j), j)
  PROVE  Above(r, n, Parent(j))
  <1> DEFINE i == Parent(j)
  <1>1. i \in 0 .. n - 1 /\ i < j BY ParentIn
  <1>2. j \in 0 .. n - 1 /\ \A k \in 1 .. n - 1: k \in 0 .. n - 1 /\ Parent(k) \in 0 .. n - 1 /\ Parent(k) # k BY ParentIn
  <1>3. r[i] = p[j] /\ r[j] = p[i] /\ \A k \in 0 .. n - 1: k # i /\ k # j => r[k] = p[k] BY DEF Exchanged
  <1>4. \A k \in 0 .. n - 1: p[k] \in Nat /\ r[k] \in Nat OBVIOUS
  <1>5. ASSUME NEW k \in 1 .. n - 1, k # i PROVE r[Parent(k)] <= r[k]
    <2>1. CASE k = j BY <1>1, <1>2, <1>3, <1>4, <2>1
    <2>2. CASE k # j /\ Parent(k) = i
      <3>1. p[i] <= p[k] /\ r[k] = p[k] BY <1>2, <1>3, <1>5, <2>2 DEF Above
      <3> QED BY <1>1, <1>2, <1>3, <1>4, <2>2, <3>1
    <2>3. CASE k # j /\ Parent(k) = j
      <3>1. p[i] <= p[k] /\ r[k] = p[k] BY <1>2, <1>3, <1>5, <2>3 DEF Above
      <3> QED BY <1>3, <2>3, <3>1
    <2>4. CASE k # j /\ Parent(k) # i /\ Parent(k) # j
      <3>1. p[Parent(k)] <= p[k] BY <2>4 DEF Above
      <3> QED BY <1>2, <1>3, <1>5, <2>4, <3>1
    <2> QED BY <2>1, <2>2, <2>3, <2>4
  <1>6. ASSUME i > 0, NEW k \in 1 .. n - 1, Parent(k) = i PROVE r[Parent(i)] <= r[k]
    <2>1. i \in 1 .. n - 1 /\ i # j BY <1>1, <1>6
    <2>2. Parent(i) \in 0 .. n - 1 /\ Parent(i) # i /\ Parent(i) # j BY <1>1, <2>1, ParentIn
    <2>3. r[Parent(i)] = p[Parent(i)] /\ p[Parent(i)] <= p[i] BY <1>3, <2>1, <2>2 DEF Above
    <2>4. CASE k = j BY <1>3, <2>3, <2>4
    <2>5. CASE k # j
      <3>1. p[i] <= p[k] /\ r[k] = p[k] BY <1>2, <1>3, <1>6, <2>5 DEF Above
      <3> QED BY <1>1, <1>2, <1>4, <2>2, <2>3, <3>1
    <2> QED BY <2>4, <2>5
  <1> HIDE DEF i
  <1>7. Above(r, n, i) BY <1>5, <1>6 DEF Above
  <1> QED BY <1>7 DEF i

LEMMA ClimbEnd ==
  ASSUME NEW n \in Nat, NEW p \in [0 .. n - 1 -> Nat], NEW j \in 0 .. n - 1,
         Above(p, n, j), Parent(j) = j \/ p[Parent(j)] <= p[j]
  PROVE  InOrder(p, n)
  <1>1. ASSUME NEW k \in 1 .. n - 1 PROVE p[Parent(k)] <= p[k]
    <2>1. CASE k = j
      <3>1. Parent(j) # j BY <2>1, ParentIn
      <3> QED BY <2>1, <3>1
    <2>2. CASE k # j BY <2>2 DEF Above
    <2> QED BY <2>1, <2>2
  <1> QED BY <1>1 DEF InOrder

\* c is the earlier of the children of i.
LEMMA SinkOrder ==
  ASSUME NEW n \in Nat, NEW p \in [0 .. n - 1 -> Nat], NEW r \in [0 .. n - 1 -> Nat],
         NEW j \in 0 .. n - 1, NEW i \in 0 .. n - 1, j <= i, NEW c \in 1 .. n - 1, Parent(c) = i, p[c] < p[i],
         \A k \in 1 .. n - 1: Parent(k) = i => p[c] <= p[k],
         Below(p, n, j, i), Exchanged(r, p, n, i, c)
  PROVE  Below(r, n, j, c)
  <1>1. c \in 0 .. n - 1 /\ i < c /\ c # j BY ParentIn
  <1>2. \A k \in 1 .. n - 1: k \in 0 .. n - 1 /\ Parent(k) \in 0 .. n - 1 /\ Parent(k) # k /\ Parent(k) < k BY ParentIn
  <1>3. r[i] = p[c] /\ r[c] = p[i] /\ \A k \in 0 .. n - 1: k # i /\ k # c => r[k] = p[k] BY DEF Exchanged
  <1>4. \A k \in 0 .. n - 1: p[k] \in Nat /\ r[k] \in Nat OBVIOUS
  <1>5. ASSUME NEW k \in 1 .. n - 1, Parent(k) # c PROVE r[Parent(k)] <= r[k]
    <2>1. CASE k = c BY <1>1, <1>3, <1>4, <2>1
    <2>2. CASE k # c /\ Parent(k) = i
      <3>1. p[c] <= p[k] /\ k # i BY <1>2, <2>2
      <3>2. r[k] = p[k] BY <1>2, <1>3, <2>2, <3>1
      <3> QED BY <1>3, <2>2, <3>1, <3>2
    <2>3. CASE k = i
      <3>1. i > 0 BY <2>3
      <3>2. p[Parent(i)] <= p[c] BY <3>1 DEF Below
      <3>3. Parent(i) # i /\ Parent(i) # c /\ Parent(i) \in 0 .. n - 1 BY <1>2, <1>5, <2>3
      <3>4. r[Parent(i)] = p[Parent(i)] BY <1>3, <3>3
      <3> QED BY <1>3, <2>3, <3>2, <3>4
    <2>4. CASE k # c /\ k # i /\ Parent(k) # i
      <3>1. k # j \/ i # j BY <2>4
      <3>2. p[Parent(k)] <= p[k] BY <2>4, <3>1 DEF Below
      <3>3. r[k] = p[k] /\ r[Parent(k)] = p[Parent(k)] BY <1>2, <1>3, <1>5, <2>4
      <3> QED BY <3>2, <3>3
    <2> QED BY <2>1, <2>2, <2>3, <2>4
  <1>6. ASSUME NEW k \in 1 .. n - 1, Parent(k) = c PROVE r[Parent(c)] <= r[k]
    <2>1. k # c /\ k # i /\ k \in 0 .. n - 1 /\ k # j /\ Parent(k) # i
      <3>1. c < k BY <1>2, <1>6
      <3>2. Parent(k) # i /\ k \in 0 .. n - 1 BY <1>1, <1>2, <1>6
      <3>3. k # c /\ k # i /\ k # j BY ONLY <1>1, <3>1, c \in 1 .. n - 1, i \in 0 .. n - 1, j \in 0 .. n - 1, j <= i, n \in Nat, k \in 1 .. n - 1
      <3> QED BY <3>2, <3>3
    <2>2. p[c] <= p[k] BY <1>6, <2>1 DEF Below
    <2>3. r[k] = p[k] BY <1>3, <2>1
    <2> QED BY <1>3, <2>2, <2>3
  <1> QED BY <1>5, <1>6 DEF Below

\* Where down stops, slot j is the only one that may be out of order.
LEMMA SinkEnd ==
  ASSUME NEW n \in Nat, NEW p \in [0 .. n - 1 -> Nat], NEW j \in 0 .. n - 1, NEW i \in 0 .. n - 1, j <= i,
         \A k \in 1 .. n - 1: Parent(k) = i => p[i] <= p[k], Below(p, n, j, i)
  PROVE  Above(p, n, j)
  <1>1. \A k \in 1 .. n - 1: k \in 0 .. n - 1 /\ Parent(k) \in 0 .. n - 1 /\ Parent(k) # k /\ Parent(k) < k BY ParentIn
  <1>2. ASSUME NEW k \in 1 .. n - 1, k # j PROVE p[Parent(k)] <= p[k]
    <2>1. CASE Parent(k) = i BY <2>1
    <2>2. CASE Parent(k) # i BY <1>2, <2>2 DEF Below
    <2> QED BY <2>1, <2>2
  <1>3. ASSUME j > 0, NEW k \in 1 .. n - 1, Parent(k) = j PROVE p[Parent(j)] <= p[k]
    <2>1. CASE i = j BY <1>3, <2>1 DEF Below
    <2>2. CASE i # j
      <3>1. j \in 1 .. n - 1 BY <1>3
      <3>2. Parent(j) # i BY <1>1, <3>1
      <3>3. p[Parent(j)] <= p[j] BY <2>2, <3>1, <3>2 DEF Below
      <3>4. p[j] <= p[k] BY <1>1, <1>2, <1>3
      <3>5. p[Parent(j)] \in Nat /\ p[j] \in Nat /\ p[k] \in Nat BY <1>1, <3>1
      <3> QED BY <3>3, <3>4, <3>5
    <2> QED BY <2>1, <2>2
  <1> QED BY <1>2, <1>3 DEF Above

-----------------------------------------------------------------------------
(* up *)

\* States of the loops.
Loops(X) == { s \in [h: Heaps(X), at: Nat]: Knows(s.h) /\ s.at \in Slots(s.h) }

LEMMA LoopFacts ==
  ASSUME NEW X, NEW h, Sane(h, X), NEW j \in Slots(h)
  PROVE  [h |-> h, at |-> j] \in Loops(X)
  <1>1. h \in Heaps(X) /\ Knows(h) BY DEF Sane
  <1>2. j \in Nat BY DEF Slots
  <1> QED BY <1>1, <1>2 DEF Loops

\* A turn of up leaves the state alone or goes to the parent.
LEMMA ClimbFacts ==
  ASSUME NEW X, NEW s \in Loops(X)
  PROVE  LET i == Parent(s.at)
         IN  /\ Sane(s.h, X) /\ s.at \in Slots(s.h) /\ i \in Slots(s.h) /\ (i = s.at <=> s.at = 0)
             /\ Climb(s) \in Loops(X)
             /\ \/ (i = s.at \/ PriAt(s.h, s.at) >= PriAt(s.h, i)) /\ Climb(s) = s
                \/ /\ i < s.at /\ PriAt(s.h, s.at) < PriAt(s.h, i)
                   /\ Climb(s).h = Swap(s.h, i, s.at) /\ Climb(s).at = i
  <1> DEFINE i == Parent(s.at)
  <1>1. Sane(s.h, X) /\ s.at \in Slots(s.h) /\ s.at \in Nat BY DEF Loops, Sane
  <1>2. Len(s.h.q) \in Nat BY <1>1, HeapFacts DEF Sane
  <1>a. ASSUME NEW a \in Nat PROVE Parent(a) \in Nat /\ Parent(a) <= a /\ (Parent(a) = a <=> a = 0)
    <2>1. CASE a = 0 BY <2>1, ParentFacts
    <2>2. CASE a # 0 BY <2>2, ParentFacts
    <2> QED BY <2>1, <2>2
  <1>b. i \in Nat /\ i <= s.at /\ (i = s.at <=> s.at = 0) BY <1>1, <1>a
  <1>3. i \in Slots(s.h) /\ i \in Nat /\ i <= s.at /\ (i = s.at <=> s.at = 0)
    <2> HIDE DEF i
    <2> QED BY <1>1, <1>2, <1>b DEF Slots
  <1>4. PriAt(s.h, s.at) \in Nat /\ PriAt(s.h, i) \in Nat BY <1>1, <1>3, HeapFacts DEF Sane
  <1>5. CASE i = s.at \/ PriAt(s.h, s.at) >= PriAt(s.h, i)
    <2>1. Climb(s) = s BY <1>5 DEF Climb
    <2> QED BY <1>1, <1>3, <1>5, <2>1
  <1>6. CASE ~(i = s.at \/ PriAt(s.h, s.at) >= PriAt(s.h, i))
    <2>1. Climb(s) = [h |-> Swap(s.h, i, s.at), at |-> i] BY <1>6 DEF Climb
    <2> HIDE DEF i
    <2>2. Sane(Swap(s.h, i, s.at), X) /\ Keeps(Swap(s.h, i, s.at), s.h, X) BY <1>1, <1>3, SwapFacts
    <2>3. i \in Slots(Swap(s.h, i, s.at)) BY <1>3, <2>2 DEF Slots, Keeps
    <2>4. Climb(s) \in Loops(X) BY <2>1, <2>2, <2>3, LoopFacts
    <2>5. PriAt(s.h, s.at) < PriAt(s.h, i) /\ i < s.at BY <1>1, <1>3, <1>4, <1>6
    <2>6. Climb(s).h = Swap(s.h, i, s.at) /\ Climb(s).at = i BY <2>1
    <2> QED BY <1>1, <1>3, <2>4, <2>5, <2>6 DEF i
  <1> QED BY <1>5, <1>6

LEMMA UpTurns ==
  ASSUME NEW X, NEW h, Sane(h, X), NEW j \in Slots(h)
  PROVE  \E t: /\ t[0] = [h |-> h, at |-> j] /\ \A k \in 1 .. j: t[k] = Climb(t[k - 1])
               /\ Up(h, j) = t[j].h
  <1> DEFINE s0 == [h |-> h, at |-> j]
             S == Loops(X)
             F == [s \in S |-> Climb(s)]
             G(t) == [k \in 0 .. j |-> IF k = 0 THEN s0 ELSE Climb(t[k - 1])]
             turn == CHOOSE t: t = G(t)
  <1>0. j \in Nat BY DEF Slots
  <1>1. s0 \in S BY LoopFacts
  <1>2. F \in [S -> S] BY ClimbFacts
  <1>3. \A s \in S: F[s] = Climb(s) OBVIOUS
  <1>4. PICK g \in [0 .. j -> S]: Turns(g, F, s0, j)
    <2> HIDE DEF F, S, s0
    <2> QED BY <1>0, <1>1, <1>2, TurnsExist
  <1> HIDE DEF F, S, s0
  <1>5. \A k \in 0 .. j: g[k] = IF k = 0 THEN s0 ELSE Climb(g[k - 1])
    <2>1. ASSUME NEW k \in 0 .. j, k # 0 PROVE g[k] = Climb(g[k - 1])
      <3>1. k \in 1 .. j /\ k - 1 \in 0 .. j BY <1>0, <2>1
      <3> QED BY <1>3, <1>4, <3>1 DEF Turns
    <2> QED BY <1>4, <2>1 DEF Turns
  <1>6. g = [k \in 0 .. j |-> g[k]] OBVIOUS
  <1>7. g = G(g) BY <1>5, <1>6, Zenon
  <1>8. Up(h, j) = turn[j].h BY Zenon DEF Up, s0
  <1>9. turn = G(turn)
    <2> HIDE DEF G
    <2> QED BY <1>7
  <1> HIDE DEF turn
  <1>10. \A k \in 0 .. j: turn[k] = IF k = 0 THEN s0 ELSE Climb(turn[k - 1]) BY <1>9, Zenon
  <1>11. 0 \in 0 .. j /\ \A k \in 1 .. j: k \in 0 .. j /\ k # 0 BY <1>0
  <1>12. turn[0] = s0 /\ \A k \in 1 .. j: turn[k] = Climb(turn[k - 1]) BY <1>10, <1>11, Zenon
  <1> QED BY <1>8, <1>12 DEF s0

\* The deadlines of the first n slots.
Due(h, n) == [i \in 0 .. n - 1 |-> PriAt(h, i)]

LEMMA DueFacts ==
  ASSUME NEW X, NEW h, Sane(h, X), NEW n \in 0 .. Len(h.q)
  PROVE  /\ Due(h, n) \in [0 .. n - 1 -> Nat] /\ n \in Nat
         /\ \A k \in 0 .. n - 1: k \in Slots(h) /\ Due(h, n)[k] = PriAt(h, k) /\ PriAt(h, k) \in Nat
  <1>1. h \in Heaps(X) BY DEF Sane
  <1>2. Len(h.q) \in Nat BY <1>1, HeapFacts
  <1>3. \A k \in 0 .. n - 1: k \in Slots(h) BY <1>2 DEF Slots
  <1>4. \A k \in 0 .. n - 1: PriAt(h, k) \in Nat BY <1>1, <1>3, HeapFacts
  <1> QED BY <1>2, <1>3, <1>4 DEF Due

LEMMA SwapDue ==
  ASSUME NEW X, NEW h, Sane(h, X), NEW n \in 0 .. Len(h.q), NEW i \in 0 .. n - 1, NEW j \in 0 .. n - 1
  PROVE  /\ Due(Swap(h, i, j), n) \in [0 .. n - 1 -> Nat]
         /\ Exchanged(Due(Swap(h, i, j), n), Due(h, n), n, i, j)
  <1> DEFINE g == Swap(h, i, j)
  <1>1. i \in Slots(h) /\ j \in Slots(h) /\ \A k \in 0 .. n - 1: k \in Slots(h) BY DueFacts
  <1>2. /\ Sane(g, X) /\ Keeps(g, h, X) /\ Slot(g, i) = Slot(h, j) /\ Slot(g, j) = Slot(h, i)
        /\ \A k \in Slots(h): k # i /\ k # j => Slot(g, k) = Slot(h, k)
    BY <1>1, SwapFacts
  <1> HIDE DEF g
  <1>3. g.pri = h.pri /\ Len(g.q) = Len(h.q) BY <1>2 DEF Keeps
  <1>4. /\ PriAt(g, i) = PriAt(h, j) /\ PriAt(g, j) = PriAt(h, i)
        /\ \A k \in 0 .. n - 1: k # i /\ k # j => PriAt(g, k) = PriAt(h, k)
    BY <1>1, <1>2, <1>3 DEF PriAt
  <1>5. Due(g, n) \in [0 .. n - 1 -> Nat] BY <1>2, <1>3, DueFacts
  <1>6. Exchanged(Due(g, n), Due(h, n), n, i, j) BY <1>4 DEF Exchanged, Due
  <1> QED BY <1>5, <1>6 DEF g

LEMMA KeepsMore ==
  ASSUME NEW X, NEW h, NEW g, NEW f, Keeps(g, h, X), Keeps(f, g, X)
  PROVE  Keeps(f, h, X)
  BY DEF Keeps

LEMMA UpFacts ==
  ASSUME NEW X, NEW h, Sane(h, X), NEW n \in 0 .. Len(h.q), NEW j \in 0 .. n - 1, Above(Due(h, n), n, j)
  PROVE  /\ Sane(Up(h, j), X) /\ Keeps(Up(h, j), h, X) /\ InOrder(Due(Up(h, j), n), n)
         /\ \A k \in Slots(h): k >= n => Slot(Up(h, j), k) = Slot(h, k)
  <1>0. n \in Nat /\ j \in Nat /\ j \in Slots(h) /\ Len(h.q) \in Nat
    <2>1. Len(h.q) \in Nat BY HeapFacts DEF Sane
    <2> QED BY <2>1, DueFacts
  <1>1. PICK t: /\ t[0] = [h |-> h, at |-> j] /\ \A k \in 1 .. j: t[k] = Climb(t[k - 1])
                /\ Up(h, j) = t[j].h
    BY <1>0, UpTurns
  <1> DEFINE Good(s, k) == /\ s \in Loops(X) /\ Keeps(s.h, h, X) /\ s.at <= j /\ Above(Due(s.h, n), n, s.at)
                           /\ \A l \in Slots(h): l >= n => Slot(s.h, l) = Slot(h, l)
                           /\ Climb(s) = s \/ s.at <= j - k
             P == { k \in Nat: k <= j => Good(t[k], k) }
  <1>2. 0 \in P
    <2> DEFINE s == [h |-> h, at |-> j]
    <2>1. s \in Loops(X) BY <1>0, LoopFacts
    <2>2. s.h = h /\ s.at = j /\ s.at <= j - 0 BY <1>0
    <2>3. Keeps(h, h, X) BY DEF Keeps
    <2> HIDE DEF s
    <2>4. Good(s, 0) BY <1>0, <2>1, <2>2, <2>3
    <2> QED BY <1>1, <2>4 DEF s
  <1>3. ASSUME NEW k \in Nat, k \in P PROVE k + 1 \in P
    <2> SUFFICES ASSUME k + 1 <= j PROVE Good(t[k + 1], k + 1) OBVIOUS
    <2> DEFINE s == t[k]
               i == Parent(s.at)
    <2>1. Good(s, k) BY <1>0, <1>3
    <2>2. t[k + 1] = Climb(s)
      <3>1. k + 1 \in 1 .. j /\ (k + 1) - 1 = k BY <1>0
      <3> QED BY <1>1, <3>1
    <2> HIDE DEF s
    <2>3. /\ Sane(s.h, X) /\ s.at \in Slots(s.h) /\ i \in Slots(s.h) /\ (i = s.at <=> s.at = 0)
          /\ Climb(s) \in Loops(X)
          /\ \/ (i = s.at \/ PriAt(s.h, s.at) >= PriAt(s.h, i)) /\ Climb(s) = s
             \/ /\ i < s.at /\ PriAt(s.h, s.at) < PriAt(s.h, i)
                /\ Climb(s).h = Swap(s.h, i, s.at) /\ Climb(s).at = i
      BY <2>1, ClimbFacts
    <2>4. CASE Climb(s) = s BY <2>1, <2>2, <2>4
    <2>5. CASE /\ i < s.at /\ PriAt(s.h, s.at) < PriAt(s.h, i)
               /\ Climb(s).h = Swap(s.h, i, s.at) /\ Climb(s).at = i /\ Climb(s) # s
      <3> HIDE DEF i
      <3>1. s.at \in Nat /\ i \in Nat /\ Len(s.h.q) = Len(h.q) BY <2>1, <2>3 DEF Slots, Keeps
      <3>2. s.at \in 1 .. n - 1 /\ i \in 0 .. n - 1 /\ s.at \in 0 .. n - 1 BY <1>0, <2>1, <2>5, <3>1
      <3>3. n \in 0 .. Len(s.h.q) BY <3>1
      <3> DEFINE g == Swap(s.h, i, s.at)
                 p == Due(s.h, n)
                 r == Due(g, n)
      <3>4. p \in [0 .. n - 1 -> Nat] /\ p[s.at] < p[i]
        <4>1. p \in [0 .. n - 1 -> Nat] /\ \A l \in 0 .. n - 1: p[l] = PriAt(s.h, l) BY <2>3, <3>3, DueFacts
        <4> HIDE DEF p
        <4> QED BY <2>5, <3>2, <4>1
      <3>5. r \in [0 .. n - 1 -> Nat] /\ Exchanged(r, p, n, i, s.at) BY <2>3, <3>2, <3>3, SwapDue
      <3> HIDE DEF p, r
      <3>6. Above(p, n, s.at) BY <2>1 DEF p
      <3>7. Above(r, n, i) BY <1>0, <3>2, <3>4, <3>5, <3>6, ClimbOrder DEF i
      <3>8. /\ Keeps(g, s.h, X)
            /\ \A l \in Slots(s.h): l # i /\ l # s.at => Slot(g, l) = Slot(s.h, l)
        BY <2>3, SwapFacts
      <3> HIDE DEF g
      <3>9. Keeps(g, h, X) BY <2>1, <3>8, KeepsMore
      <3>10. \A l \in Slots(h): l >= n => Slot(g, l) = Slot(h, l)
        <4>1. Slots(s.h) = Slots(h) BY <3>1 DEF Slots
        <4>2. \A l \in Slots(h): l >= n => l # i /\ l # s.at BY <1>0, <3>2 DEF Slots
        <4> QED BY <2>1, <3>8, <4>1, <4>2
      <3>11. i <= j - (k + 1) /\ i <= j
        <4>1. s.at <= j - k BY <2>1, <2>5
        <4>2. s.at <= j BY <2>1
        <4> QED BY <1>0, <2>5, <3>1, <4>1, <4>2
      <3>12. Climb(s).h = g /\ Climb(s).at = i BY <2>5 DEF g
      <3>13. Above(Due(g, n), n, i) BY <3>7 DEF r
      <3>14. Good(Climb(s), k + 1) BY <2>3, <3>9, <3>10, <3>11, <3>12, <3>13
      <3> QED BY <2>2, <3>14
    <2> QED BY <2>3, <2>4, <2>5
  <1>4. j \in P
    <2> HIDE DEF P
    <2> QED BY <1>0, <1>2, <1>3, SetInduction
  <1>5. Good(t[j], j) BY <1>0, <1>4
  <1> DEFINE s == t[j]
  <1> HIDE DEF P
  <1> HIDE DEF s
  <1>6. Good(s, j) /\ Up(h, j) = s.h BY <1>1, <1>5 DEF s
  <1> DEFINE i == Parent(s.at)
  <1>7. /\ Sane(s.h, X) /\ s.at \in Slots(s.h) /\ i \in Slots(s.h) /\ (i = s.at <=> s.at = 0)
        /\ \/ (i = s.at \/ PriAt(s.h, s.at) >= PriAt(s.h, i)) /\ Climb(s) = s
           \/ i < s.at /\ Climb(s).at = i
    BY <1>6, ClimbFacts
  <1>8. s.at \in Nat /\ i \in Nat /\ Len(s.h.q) = Len(h.q) BY <1>6, <1>7 DEF Slots, Keeps
  <1>9. i = s.at \/ PriAt(s.h, s.at) >= PriAt(s.h, i)
    <2> HIDE DEF i
    <2>1. CASE Climb(s) = s BY <1>7, <1>8, <2>1
    <2>2. CASE s.at <= j - j BY <1>0, <1>7, <1>8, <2>2
    <2> QED BY <1>6, <2>1, <2>2
  <1>10. s.at \in 0 .. n - 1 /\ n \in 0 .. Len(s.h.q) BY <1>0, <1>6, <1>8
  <1>11. Due(s.h, n) \in [0 .. n - 1 -> Nat] BY <1>7, <1>10, DueFacts
  <1>12. i = s.at \/ Due(s.h, n)[i] <= Due(s.h, n)[s.at]
    <2>1. CASE i = s.at BY <2>1
    <2>2. CASE i # s.at /\ PriAt(s.h, s.at) >= PriAt(s.h, i)
      <3>1. i \in 0 .. n - 1
        <4>1. s.at # 0 BY <1>7, <2>2
        <4>2. i < s.at BY <1>8, <4>1, ParentFacts
        <4> HIDE DEF i
        <4> QED BY <1>0, <1>8, <1>10, <4>2
      <3>2. PriAt(s.h, i) \in Nat /\ PriAt(s.h, s.at) \in Nat BY <1>7, <1>10, <3>1, DueFacts
      <3> HIDE DEF i
      <3> QED BY <1>7, <1>10, <2>2, <3>1, <3>2, DueFacts
    <2> QED BY <1>9, <2>1, <2>2
  <1>13. InOrder(Due(s.h, n), n) BY <1>0, <1>6, <1>10, <1>11, <1>12, ClimbEnd
  <1> QED BY <1>6, <1>7, <1>13

-----------------------------------------------------------------------------
(* down *)

\* The smaller child.
LEMMA ChildFacts ==
  ASSUME NEW X, NEW h, Sane(h, X), NEW n \in 0 .. Len(h.q), NEW i \in Nat, 2 * i + 1 < n
  PROVE  LET c == Child(h, i, n)
         IN  c \in 1 .. n - 1 /\ Parent(c) = i /\ i < c /\ \A k \in 1 .. n - 1: Parent(k) = i => PriAt(h, c) <= PriAt(h, k)
  <1> DEFINE c == Child(h, i, n)
             a == 2 * i + 1
             b == 2 * i + 2
  <1>0. n \in Nat /\ \A k \in 0 .. n - 1: PriAt(h, k) \in Nat BY DueFacts
  <1>a. Parent(a) = i /\ Parent(b) = i BY ParentFacts
  <1>b. a \in 1 .. n - 1 /\ i < a /\ i < b BY <1>0
  <1>1. a \in 1 .. n - 1 /\ Parent(a) = i /\ Parent(b) = i /\ i < a /\ i < b BY <1>a, <1>b
  <1>2. \A k \in 1 .. n - 1: Parent(k) = i => k = a \/ k = b
    <2>1. ASSUME NEW k \in 1 .. n - 1, Parent(k) = i PROVE k = a \/ k = b
      <3>1. k \in Nat /\ k # 0 BY <1>0
      <3>2. k = 2 * Parent(k) + 1 \/ k = 2 * Parent(k) + 2 BY <3>1, ParentFacts
      <3> QED BY <2>1, <3>2
    <2> QED BY <2>1
  <1>3. a \in 0 .. n - 1 BY <1>0, <1>1
  <1>4. CASE b < n /\ PriAt(h, a) >= PriAt(h, b)
    <2>1. c = b BY <1>4 DEF Child
    <2>2. b \in 1 .. n - 1 /\ b \in 0 .. n - 1 BY <1>0, <1>4
    <2>3. PriAt(h, b) <= PriAt(h, a) /\ PriAt(h, b) <= PriAt(h, b) BY <1>0, <1>3, <1>4, <2>2
    <2> HIDE DEF a, b
    <2> QED BY <1>1, <1>2, <2>1, <2>2, <2>3
  <1>5. CASE ~(b < n /\ PriAt(h, a) >= PriAt(h, b))
    <2>1. c = a BY <1>5 DEF Child
    <2>2. ASSUME NEW k \in 1 .. n - 1, Parent(k) = i PROVE PriAt(h, a) <= PriAt(h, k)
      <3>1. k = a \/ k = b BY <1>2, <2>2
      <3>2. k \in 0 .. n - 1 /\ k < n BY <1>0
      <3> HIDE DEF a, b
      <3>3. PriAt(h, k) \in Nat /\ PriAt(h, a) \in Nat BY <1>0, <1>3, <3>2
      <3> QED BY <1>5, <3>1, <3>2, <3>3
    <2> HIDE DEF a, b
    <2> QED BY <1>1, <2>1, <2>2
  <1> QED BY <1>4, <1>5

LEMMA SinkFacts ==
  ASSUME NEW X, NEW s \in Loops(X), NEW n \in 0 .. Len(s.h.q)
  PROVE  /\ Sane(s.h, X) /\ s.at \in Slots(s.h) /\ s.at \in Nat
         /\ Sink(s, n) \in Loops(X) /\ Len(Sink(s, n).h.q) = Len(s.h.q)
         /\ \/ /\ Sink(s, n) = s
               /\ \A k \in 1 .. n - 1: Parent(k) = s.at => PriAt(s.h, s.at) <= PriAt(s.h, k)
            \/ \E c \in 1 .. n - 1:
                  /\ s.at < c /\ Parent(c) = s.at /\ PriAt(s.h, c) < PriAt(s.h, s.at)
                  /\ \A k \in 1 .. n - 1: Parent(k) = s.at => PriAt(s.h, c) <= PriAt(s.h, k)
                  /\ Sink(s, n).h = Swap(s.h, s.at, c) /\ Sink(s, n).at = c
         /\ s.at >= n => Sink(s, n) = s
  <1> DEFINE i == s.at
             h == s.h
             c == Child(h, i, n)
  <1>1. Sane(h, X) /\ i \in Slots(h) /\ i \in Nat BY DEF Loops, Sane
  <1>2. n \in Nat /\ Len(h.q) \in Nat /\ n <= Len(h.q)
    <2>1. Len(h.q) \in Nat BY <1>1, HeapFacts DEF Sane
    <2> QED BY <2>1
  <1>p. PriAt(h, i) \in Nat /\ \A k \in 1 .. n - 1: PriAt(h, k) \in Nat
    <2>1. \A k \in 1 .. n - 1: k \in Slots(h) BY <1>2 DEF Slots
    <2> QED BY <1>1, <2>1, HeapFacts DEF Sane
  <1>3. CASE 2 * i + 1 >= n
    <2>1. Sink(s, n) = s BY <1>3 DEF Sink
    <2>2. ASSUME NEW k \in 1 .. n - 1 PROVE Parent(k) # i
      <3>1. k \in Nat /\ k # 0 /\ k < n BY <1>2
      <3>2. k = 2 * Parent(k) + 1 \/ k = 2 * Parent(k) + 2 BY <3>1, ParentFacts
      <3> HIDE DEF i
      <3> QED BY <1>1, <1>2, <1>3, <3>1, <3>2
    <2> QED BY <1>1, <2>1, <2>2
  <1>4. CASE 2 * i + 1 < n /\ PriAt(h, c) >= PriAt(h, i)
    <2>1. Sink(s, n) = s BY <1>4 DEF Sink
    <2> HIDE DEF i, h
    <2>2. c \in 1 .. n - 1 /\ \A k \in 1 .. n - 1: Parent(k) = i => PriAt(h, c) <= PriAt(h, k)
      BY <1>1, <1>4, ChildFacts DEF h
    <2> HIDE DEF c
    <2>3. ASSUME NEW k \in 1 .. n - 1, Parent(k) = i PROVE PriAt(h, i) <= PriAt(h, k)
      BY <1>4, <1>p, <2>2, <2>3
    <2> QED BY <1>1, <2>1, <2>3 DEF i, h
  <1>5. CASE 2 * i + 1 < n /\ ~(PriAt(h, c) >= PriAt(h, i))
    <2>1. Sink(s, n) = [h |-> Swap(h, i, c), at |-> c]
      <3>1. ~(2 * i + 1 >= n) BY <1>1, <1>2, <1>5
      <3> QED BY <1>5, <3>1 DEF Sink
    <2> HIDE DEF i, h
    <2>2. /\ c \in 1 .. n - 1 /\ Parent(c) = i /\ i < c
          /\ \A k \in 1 .. n - 1: Parent(k) = i => PriAt(h, c) <= PriAt(h, k)
      BY <1>1, <1>5, ChildFacts DEF h
    <2> HIDE DEF c
    <2>3. c \in Slots(h) /\ c \in Nat BY <1>2, <2>2 DEF Slots
    <2>4. Sane(Swap(h, i, c), X) /\ Keeps(Swap(h, i, c), h, X) BY <1>1, <2>3, SwapFacts
    <2>5. c \in Slots(Swap(h, i, c)) BY <2>3, <2>4 DEF Slots, Keeps
    <2>6. Sink(s, n) \in Loops(X) BY <2>1, <2>4, <2>5, LoopFacts
    <2>7. Sink(s, n).h = Swap(h, i, c) /\ Sink(s, n).at = c BY <2>1
    <2>8. PriAt(h, c) < PriAt(h, i) BY <1>5, <1>p, <2>2
    <2>9. Len(Sink(s, n).h.q) = Len(h.q) BY <2>4, <2>7 DEF Keeps
    <2>10. ~(i >= n) BY <1>1, <1>2, <1>5
    <2> QED BY <1>1, <2>2, <2>6, <2>7, <2>8, <2>9, <2>10 DEF i, h
  <1>6. 2 * i + 1 >= n \/ 2 * i + 1 < n BY <1>1, <1>2
  <1> QED BY <1>3, <1>4, <1>5, <1>6

LEMMA DownTurns ==
  ASSUME NEW X, NEW h, Sane(h, X), NEW j \in Slots(h), NEW n \in 0 .. Len(h.q)
  PROVE  \E t: /\ t[0] = [h |-> h, at |-> j] /\ \A k \in 1 .. n: t[k] = Sink(t[k - 1], n)
               /\ Down(h, j, n) = t[n].h
  <1> DEFINE s0 == [h |-> h, at |-> j]
             S == { s \in Loops(X): Len(s.h.q) = Len(h.q) }
             F == [s \in S |-> Sink(s, n)]
             G(t) == [k \in 0 .. n |-> IF k = 0 THEN s0 ELSE Sink(t[k - 1], n)]
             turn == CHOOSE t: t = G(t)
  <1>0. n \in Nat BY DueFacts
  <1>1. s0 \in S BY LoopFacts
  <1>2. F \in [S -> S]
    <2>1. ASSUME NEW s \in S PROVE Sink(s, n) \in S
      <3>1. s \in Loops(X) /\ n \in 0 .. Len(s.h.q) OBVIOUS
      <3> QED BY <3>1, SinkFacts
    <2> QED BY <2>1
  <1>3. \A s \in S: F[s] = Sink(s, n) OBVIOUS
  <1>4. PICK g \in [0 .. n -> S]: Turns(g, F, s0, n)
    <2> HIDE DEF F, S, s0
    <2> QED BY <1>0, <1>1, <1>2, TurnsExist
  <1> HIDE DEF F, S, s0
  <1>5. \A k \in 0 .. n: g[k] = IF k = 0 THEN s0 ELSE Sink(g[k - 1], n)
    <2>1. ASSUME NEW k \in 0 .. n, k # 0 PROVE g[k] = Sink(g[k - 1], n)
      <3>1. k \in 1 .. n /\ k - 1 \in 0 .. n BY <1>0, <2>1
      <3> QED BY <1>3, <1>4, <3>1 DEF Turns
    <2> QED BY <1>4, <2>1 DEF Turns
  <1>6. g = [k \in 0 .. n |-> g[k]] OBVIOUS
  <1>7. g = G(g) BY <1>5, <1>6, Zenon
  <1>8. Down(h, j, n) = turn[n].h BY Zenon DEF Down, s0
  <1>9. turn = G(turn)
    <2> HIDE DEF G
    <2> QED BY <1>7
  <1> HIDE DEF turn
  <1>10. \A k \in 0 .. n: turn[k] = IF k = 0 THEN s0 ELSE Sink(turn[k - 1], n) BY <1>9, Zenon
  <1>11. 0 \in 0 .. n /\ \A k \in 1 .. n: k \in 0 .. n /\ k # 0 BY <1>0
  <1>12. turn[0] = s0 /\ \A k \in 1 .. n: turn[k] = Sink(turn[k - 1], n) BY <1>10, <1>11, Zenon
  <1> QED BY <1>8, <1>12 DEF s0

LEMMA DownFacts ==
  ASSUME NEW X, NEW h, Sane(h, X), NEW n \in 0 .. Len(h.q), NEW j \in 0 .. n - 1, Below(Due(h, n), n, j, j)
  PROVE  /\ Sane(Down(h, j, n), X) /\ Keeps(Down(h, j, n), h, X) /\ Above(Due(Down(h, j, n), n), n, j)
         /\ \A k \in Slots(h): k >= n => Slot(Down(h, j, n), k) = Slot(h, k)
  <1>0. n \in Nat /\ j \in Nat /\ j \in Slots(h) /\ Len(h.q) \in Nat
    <2>1. Len(h.q) \in Nat BY HeapFacts DEF Sane
    <2> QED BY <2>1, DueFacts
  <1>1. PICK t: /\ t[0] = [h |-> h, at |-> j] /\ \A k \in 1 .. n: t[k] = Sink(t[k - 1], n)
                /\ Down(h, j, n) = t[n].h
    BY <1>0, DownTurns
  <1> DEFINE Good(s, k) == /\ s \in Loops(X) /\ Keeps(s.h, h, X) /\ j <= s.at /\ s.at < n /\ Below(Due(s.h, n), n, j, s.at)
                           /\ \A l \in Slots(h): l >= n => Slot(s.h, l) = Slot(h, l)
                           /\ Sink(s, n) = s \/ s.at >= k
             P == { k \in Nat: k <= n => Good(t[k], k) }
  <1>2. 0 \in P
    <2> DEFINE s == [h |-> h, at |-> j]
    <2>1. s \in Loops(X) BY <1>0, LoopFacts
    <2>2. s.h = h /\ s.at = j /\ j >= 0 /\ j <= j /\ j < n BY <1>0
    <2>3. Keeps(h, h, X) BY DEF Keeps
    <2> HIDE DEF s
    <2>4. Good(s, 0) BY <2>1, <2>2, <2>3
    <2> QED BY <1>1, <2>4 DEF s
  <1>3. ASSUME NEW k \in Nat, k \in P PROVE k + 1 \in P
    <2> SUFFICES ASSUME k + 1 <= n PROVE Good(t[k + 1], k + 1) OBVIOUS
    <2> DEFINE s == t[k]
    <2>1. Good(s, k) BY <1>0, <1>3
    <2>2. t[k + 1] = Sink(s, n)
      <3>1. k + 1 \in 1 .. n /\ (k + 1) - 1 = k BY <1>0
      <3> QED BY <1>1, <3>1
    <2> HIDE DEF s
    <2>l. Len(s.h.q) = Len(h.q) /\ n \in 0 .. Len(s.h.q) BY <2>1 DEF Keeps
    <2>3. /\ Sane(s.h, X) /\ s.at \in Slots(s.h) /\ s.at \in Nat /\ Sink(s, n) \in Loops(X)
          /\ \/ Sink(s, n) = s
             \/ \E c \in 1 .. n - 1:
                  /\ s.at < c /\ Parent(c) = s.at /\ PriAt(s.h, c) < PriAt(s.h, s.at)
                  /\ \A l \in 1 .. n - 1: Parent(l) = s.at => PriAt(s.h, c) <= PriAt(s.h, l)
                  /\ Sink(s, n).h = Swap(s.h, s.at, c) /\ Sink(s, n).at = c
      BY <2>1, <2>l, SinkFacts
    <2>4. CASE Sink(s, n) = s BY <2>1, <2>2, <2>4
    <2>5. ASSUME Sink(s, n) # s, NEW c \in 1 .. n - 1,
                 s.at < c, Parent(c) = s.at, PriAt(s.h, c) < PriAt(s.h, s.at),
                 \A l \in 1 .. n - 1: Parent(l) = s.at => PriAt(s.h, c) <= PriAt(s.h, l),
                 Sink(s, n).h = Swap(s.h, s.at, c), Sink(s, n).at = c
          PROVE  Good(Sink(s, n), k + 1)
      <3>1. s.at \in 0 .. n - 1 /\ c \in 0 .. n - 1 /\ c \in Nat /\ c < n BY <1>0, <2>1, <2>3
      <3>2. c \in Slots(s.h) BY <1>0, <2>l, <3>1 DEF Slots
      <3> DEFINE g == Swap(s.h, s.at, c)
                 p == Due(s.h, n)
                 r == Due(g, n)
      <3>3. p \in [0 .. n - 1 -> Nat] /\ \A l \in 0 .. n - 1: p[l] = PriAt(s.h, l) BY <2>3, <2>l, DueFacts
      <3>4. r \in [0 .. n - 1 -> Nat] /\ Exchanged(r, p, n, s.at, c) BY <2>3, <2>l, <3>1, SwapDue
      <3>5. Below(p, n, j, s.at) BY <2>1
      <3> HIDE DEF p, r
      <3>6. \A l \in 1 .. n - 1: l \in 0 .. n - 1 BY <1>0
      <3>7. p[c] < p[s.at] /\ \A l \in 1 .. n - 1: Parent(l) = s.at => p[c] <= p[l] BY <2>5, <3>1, <3>3, <3>6
      <3>8. j <= s.at BY <2>1
      <3>9. Below(r, n, j, c)
        <4>1. PICK i \in 0 .. n - 1: i = s.at BY <3>1
        <4>2. /\ p[c] < p[i] /\ \A l \in 1 .. n - 1: Parent(l) = i => p[c] <= p[l]
              /\ j <= i /\ Parent(c) = i /\ Below(p, n, j, i) /\ Exchanged(r, p, n, i, c)
          BY <2>5, <3>4, <3>5, <3>7, <3>8, <4>1
        <4>3. p \in [0 .. n - 1 -> Nat] /\ r \in [0 .. n - 1 -> Nat] BY <3>3, <3>4
        <4> QED BY ONLY <1>0, <4>2, <4>3, n \in Nat, j \in 0 .. n - 1, i \in 0 .. n - 1, c \in 1 .. n - 1, SinkOrder
      <3>10. /\ Keeps(g, s.h, X)
             /\ \A l \in Slots(s.h): l # s.at /\ l # c => Slot(g, l) = Slot(s.h, l)
        BY <2>3, <3>2, SwapFacts
      <3> HIDE DEF g
      <3>11. Keeps(g, h, X) BY <2>1, <3>10, KeepsMore
      <3>12. \A l \in Slots(h): l >= n => Slot(g, l) = Slot(h, l)
        <4>1. Slots(s.h) = Slots(h) BY <2>l DEF Slots
        <4>2. \A l \in Slots(h): l >= n => l # s.at /\ l # c BY <1>0, <3>1 DEF Slots
        <4> QED BY <2>1, <3>10, <4>1, <4>2
      <3>13. c >= k + 1 /\ j <= c
        <4>1. s.at >= k BY <2>1, <2>5
        <4> QED BY <1>0, <2>3, <2>5, <3>1, <3>8, <4>1
      <3>14. Sink(s, n).h = g /\ Sink(s, n).at = c BY <2>5 DEF g
      <3>15. Below(Due(g, n), n, j, c) BY <3>9 DEF r
      <3> QED BY <2>3, <3>1, <3>11, <3>12, <3>13, <3>14, <3>15
    <2> QED BY <2>2, <2>3, <2>4, <2>5
  <1>4. n \in P
    <2> HIDE DEF P
    <2> QED BY <1>0, <1>2, <1>3, SetInduction
  <1>5. Good(t[n], n) BY <1>0, <1>4
  <1> DEFINE s == t[n]
  <1> HIDE DEF P
  <1> HIDE DEF s
  <1>6. Good(s, n) /\ Down(h, j, n) = s.h BY <1>1, <1>5 DEF s
  <1>l. Len(s.h.q) = Len(h.q) /\ n \in 0 .. Len(s.h.q) BY <1>6 DEF Keeps
  <1>7. /\ Sane(s.h, X) /\ s.at \in Nat
        /\ \/ Sink(s, n) = s /\ \A k \in 1 .. n - 1: Parent(k) = s.at => PriAt(s.h, s.at) <= PriAt(s.h, k)
           \/ \E c \in 1 .. n - 1: s.at < c /\ Sink(s, n).at = c
        /\ s.at >= n => Sink(s, n) = s
    BY <1>6, <1>l, SinkFacts
  <1>8. \A k \in 1 .. n - 1: Parent(k) = s.at => PriAt(s.h, s.at) <= PriAt(s.h, k)
    <2>1. Sink(s, n) = s BY <1>6, <1>7
    <2>2. ASSUME NEW c \in 1 .. n - 1, s.at < c, Sink(s, n).at = c PROVE FALSE BY <1>0, <1>7, <2>1, <2>2
    <2> QED BY <1>7, <2>2
  <1>9. s.at \in 0 .. n - 1 BY <1>0, <1>6, <1>7
  <1>10. Due(s.h, n) \in [0 .. n - 1 -> Nat] /\ \A k \in 0 .. n - 1: Due(s.h, n)[k] = PriAt(s.h, k) BY <1>7, <1>l, DueFacts
  <1>11. \A k \in 1 .. n - 1: Parent(k) = s.at => Due(s.h, n)[s.at] <= Due(s.h, n)[k]
    <2>1. \A k \in 1 .. n - 1: k \in 0 .. n - 1 BY <1>0
    <2> QED BY <1>8, <1>9, <1>10, <2>1
  <1>12. Above(Due(s.h, n), n, j) BY <1>0, <1>6, <1>9, <1>10, <1>11, SinkEnd
  <1> QED BY <1>6, <1>7, <1>12

LEMMA DownNone ==
  ASSUME NEW X, NEW h, Sane(h, X), NEW j \in Slots(h)
  PROVE  Down(h, j, 0) = h
  <1>1. 0 \in 0 .. Len(h.q)
    <2>1. Len(h.q) \in Nat BY HeapFacts DEF Sane
    <2> QED BY <2>1
  <1>2. PICK t: t[0] = [h |-> h, at |-> j] /\ Down(h, j, 0) = t[0].h BY <1>1, DownTurns
  <1> QED BY <1>2

-----------------------------------------------------------------------------
(* Push, Pop and Remove *)

\* A heap of X in order.
Heap(h, X) == Sane(h, X) /\ InOrder(Due(h, Len(h.q)), Len(h.q))

\* The item x is taken out of h, and nothing else.
TakenOut(g, h, x, X) ==
    /\ Len(g.q) = Len(h.q) - 1 /\ Queued(g) = Queued(h) \ {x} /\ g.pri = h.pri
    /\ g.index[x] = -1 /\ \A y \in X \ Queued(h): g.index[y] = h.index[y]

LEMMA CutFacts ==
  ASSUME NEW X, NEW h, Sane(h, X), h.q # <<>>
  PROVE  LET n == Len(h.q) - 1
         IN  /\ n \in Nat /\ n \in Slots(h) /\ Sane(Cut(h), X) /\ TakenOut(Cut(h), h, Slot(h, n), X) /\ Cut(h).cap = h.cap
             /\ \A m \in 0 .. n: Due(Cut(h), m) = Due(h, m)
  <1> DEFINE n == Len(h.q) - 1
             y == Slot(h, n)
             g == Cut(h)
  <1>1. Len(h.q) \in Nat /\ h.q \in Seq(X) /\ h.index \in [X -> Int] /\ h.pri \in [X -> Nat] /\ h.cap \in Nat /\ h \in Heaps(X)
    BY HeapFacts DEF Sane
  <1>2. n \in Nat /\ n \in Slots(h) BY <1>1 DEF Slots
  <1>3. y \in X /\ y \in Queued(h) BY <1>1, <1>2, HeapFacts
  <1>4. /\ g.q = SubSeq(h.q, 1, n) /\ g.index = [h.index EXCEPT ![y] = -1] /\ g.pri = h.pri /\ g.cap = h.cap
        /\ g = [q |-> g.q, index |-> g.index, pri |-> h.pri, cap |-> h.cap]
    BY DEF Cut
  <1> HIDE DEF g, y
  <1>5. g.q \in Seq(X) /\ Len(g.q) = n /\ \A k \in 1 .. n: g.q[k] = h.q[k]
    <2>1. ASSUME NEW s \in Seq(X), NEW m \in Nat, m <= Len(s)
          PROVE  SubSeq(s, 1, m) \in Seq(X) /\ Len(SubSeq(s, 1, m)) = m /\ \A k \in 1 .. m: SubSeq(s, 1, m)[k] = s[k]
      BY <2>1
    <2>2. n <= Len(h.q) BY <1>1
    <2> HIDE DEF n
    <2> QED BY <1>1, <1>2, <1>4, <2>1, <2>2
  <1>6. g.index \in [X -> Int] BY <1>1, <1>3, <1>4
  <1>7. g \in Heaps(X) BY <1>1, <1>4, <1>5, <1>6 DEF Heaps
  <1>8. \A k \in Slots(g): k \in Slots(h) /\ k # n /\ Slot(g, k) = Slot(h, k)
    <2>1. ASSUME NEW k \in Slots(g) PROVE k \in Slots(h) /\ k # n /\ Slot(g, k) = Slot(h, k)
      <3>1. k \in 0 .. n - 1 BY <1>5 DEF Slots
      <3>2. k \in 0 .. Len(h.q) - 1 /\ k # n /\ k + 1 \in 1 .. n BY <1>1, <1>2, <3>1
      <3> QED BY <1>5, <3>2 DEF Slots, Slot
    <2> QED BY <2>1
  <1>9. ASSUME NEW k \in Slots(g) PROVE g.index[Slot(g, k)] = k /\ Slot(g, k) # y
    <2>1. Slot(h, k) # y BY <1>2, <1>8, OneSlot DEF y
    <2>2. Slot(h, k) \in X /\ h.index[Slot(h, k)] = k BY <1>1, <1>8, HeapFacts DEF Sane, Knows
    <2> QED BY <1>1, <1>4, <1>8, <2>1, <2>2
  <1>10. Sane(g, X) BY <1>7, <1>9 DEF Sane, Knows
  <1>11. Queued(g) = Queued(h) \ {y}
    <2>1. ASSUME NEW x \in Queued(g) PROVE x \in Queued(h) /\ x # y
      <3>1. PICK k \in Slots(g): x = Slot(g, k) BY <1>7, HeapFacts
      <3> QED BY <1>1, <1>8, <1>9, <3>1, HeapFacts
    <2>2. ASSUME NEW x \in Queued(h), x # y PROVE x \in Queued(g)
      <3>1. PICK k \in Slots(h): x = Slot(h, k) BY <1>1, HeapFacts
      <3>2. k # n BY <2>2, <3>1 DEF y
      <3>3. k \in Slots(g) BY <1>1, <1>5, <3>2 DEF Slots
      <3> QED BY <1>7, <1>8, <3>1, <3>3, HeapFacts
    <2> QED BY <2>1, <2>2
  <1>12. g.index[y] = -1 BY <1>1, <1>3, <1>4
  <1>13. ASSUME NEW x \in X, x \notin Queued(h) PROVE g.index[x] = h.index[x]
    <2>1. x # y BY <1>3, <1>13
    <2> QED BY <1>1, <1>4, <2>1
  <1>14. TakenOut(g, h, y, X) BY <1>4, <1>5, <1>11, <1>12, <1>13 DEF TakenOut
  <1>15. ASSUME NEW m \in 0 .. n PROVE Due(g, m) = Due(h, m)
    <2>1. ASSUME NEW k \in 0 .. m - 1 PROVE PriAt(g, k) = PriAt(h, k)
      <3>1. k \in Slots(g) BY <1>2, <1>5 DEF Slots
      <3> QED BY <1>4, <1>8, <3>1 DEF PriAt
    <2> QED BY <2>1 DEF Due
  <1> QED BY <1>2, <1>4, <1>10, <1>14, <1>15 DEF g, y

LEMMA PushFacts ==
  ASSUME NEW X, NEW h, Heap(h, X), NEW x \in X, x \notin Queued(h)
  PROVE  LET g == Push(h, x)
         IN  /\ Heap(g, X) /\ Queued(g) = Queued(h) \cup {x} /\ Len(g.q) = Len(h.q) + 1 /\ g.pri = h.pri
             /\ g.cap = (IF Len(h.q) + 1 > h.cap THEN 2 * h.cap ELSE h.cap)
             /\ \A y \in X: y # x /\ y \notin Queued(h) => g.index[y] = h.index[y]
  <1> DEFINE n == Len(h.q)
             c == IF n + 1 > h.cap THEN 2 * h.cap ELSE h.cap
             g == [q |-> Append(h.q, x), index |-> [h.index EXCEPT ![x] = n], pri |-> h.pri, cap |-> c]
  <1>0. Sane(h, X) /\ InOrder(Due(h, n), n) /\ h \in Heaps(X) BY DEF Heap, Sane
  <1>1. n \in Nat /\ h.q \in Seq(X) /\ h.index \in [X -> Int] /\ h.pri \in [X -> Nat] /\ h.cap \in Nat /\ c \in Nat
    BY <1>0, HeapFacts
  <1>2. Push(h, x) = Up(g, n) BY DEF Push
  <1>3. g.q = Append(h.q, x) /\ g.index = [h.index EXCEPT ![x] = n] /\ g.pri = h.pri /\ g.cap = c
        /\ g = [q |-> g.q, index |-> g.index, pri |-> h.pri, cap |-> c]
    OBVIOUS
  <1> HIDE DEF g, n, c
  <1>4. g.q \in Seq(X) /\ Len(g.q) = n + 1 /\ g.q[n + 1] = x /\ \A k \in 1 .. n: g.q[k] = h.q[k] BY <1>1, <1>3 DEF n
  <1>5. g.index \in [X -> Int] BY <1>1, <1>3
  <1>6. g \in Heaps(X) BY <1>1, <1>3, <1>4, <1>5 DEF Heaps
  <1>7. Slots(h) = 0 .. n - 1 /\ Slots(g) = 0 .. n /\ n \in Slots(g) BY <1>1, <1>4 DEF Slots, n
  <1>8. Slot(g, n) = x /\ \A k \in 0 .. n - 1: Slot(g, k) = Slot(h, k) /\ Slot(g, k) # x /\ k \in Slots(h)
    <2>1. ASSUME NEW k \in 0 .. n - 1 PROVE Slot(g, k) = Slot(h, k) /\ Slot(h, k) # x
      <3>1. k + 1 \in 1 .. n BY <1>1
      <3>2. Slot(h, k) \in Queued(h) BY <1>0, <1>7, HeapFacts
      <3> QED BY <1>4, <3>1, <3>2 DEF Slot
    <2> QED BY <1>4, <1>7, <2>1 DEF Slot
  <1>9. ASSUME NEW k \in Slots(g) PROVE g.index[Slot(g, k)] = k
    <2>1. CASE k = n BY <1>1, <1>3, <1>8, <2>1
    <2>2. CASE k # n
      <3>1. k \in 0 .. n - 1 BY <1>1, <1>7, <2>2
      <3>2. h.index[Slot(h, k)] = k /\ Slot(h, k) \in X BY <1>0, <1>7, <3>1, HeapFacts DEF Sane, Knows
      <3> QED BY <1>1, <1>3, <1>8, <3>1, <3>2
    <2> QED BY <2>1, <2>2
  <1>10. Sane(g, X) BY <1>6, <1>9 DEF Sane, Knows
  <1>11. Queued(g) = Queued(h) \cup {x}
    <2>1. ASSUME NEW y \in Queued(g) PROVE y \in Queued(h) \cup {x}
      <3>1. PICK k \in Slots(g): y = Slot(g, k) BY <1>6, HeapFacts
      <3>2. k = n \/ k \in 0 .. n - 1 BY <1>1, <1>7
      <3> QED BY <1>0, <1>8, <3>1, <3>2, HeapFacts
    <2>2. ASSUME NEW y \in Queued(h) PROVE y \in Queued(g)
      <3>1. PICK k \in Slots(h): y = Slot(h, k) BY <1>0, HeapFacts
      <3>2. k \in Slots(g) /\ y = Slot(g, k) BY <1>1, <1>7, <1>8, <3>1
      <3> QED BY <1>6, <3>2, HeapFacts
    <2>3. x \in Queued(g) BY <1>6, <1>7, <1>8, HeapFacts
    <2> QED BY <2>1, <2>2, <2>3
  <1>12. Above(Due(g, n + 1), n + 1, n)
    <2>1. \A k \in 0 .. n - 1: PriAt(g, k) = PriAt(h, k) BY <1>3, <1>8 DEF PriAt
    <2>2. ASSUME NEW k \in 1 .. (n + 1) - 1 PROVE Parent(k) < k /\ Parent(k) \in 0 .. n /\ k \in 0 .. n /\ Parent(k) # n
      <3>1. k \in Nat /\ k # 0 BY <1>1
      <3>2. Parent(k) \in Nat /\ Parent(k) < k BY <3>1, ParentFacts
      <3> QED BY <1>1, <3>2
    <2>3. ASSUME NEW k \in 1 .. (n + 1) - 1, k # n PROVE Due(g, n + 1)[Parent(k)] <= Due(g, n + 1)[k]
      <3>1. k \in 1 .. n - 1 /\ k \in 0 .. n - 1 /\ Parent(k) \in 0 .. n - 1 BY <1>1, <2>2, <2>3
      <3>2. PriAt(h, Parent(k)) <= PriAt(h, k) BY <1>0, <3>1 DEF InOrder, Due
      <3>3. Due(g, n + 1)[k] = PriAt(g, k) /\ Due(g, n + 1)[Parent(k)] = PriAt(g, Parent(k)) BY <1>1, <3>1 DEF Due
      <3> QED BY <2>1, <3>1, <3>2, <3>3
    <2> QED BY <2>2, <2>3 DEF Above
  <1>13. n + 1 \in 0 .. Len(g.q) /\ n \in 0 .. (n + 1) - 1 BY <1>1, <1>4
  <1> DEFINE u == Up(g, n)
  <1>14. Sane(u, X) /\ Keeps(u, g, X) /\ InOrder(Due(u, n + 1), n + 1) BY <1>10, <1>12, <1>13, UpFacts
  <1> HIDE DEF u
  <1>15. Len(u.q) = n + 1 /\ Queued(u) = Queued(g) /\ u.pri = g.pri /\ u.cap = g.cap /\ \A y \in X \ Queued(g): u.index[y] = g.index[y]
    BY <1>4, <1>14 DEF Keeps
  <1>16. ASSUME NEW y \in X, y # x, y \notin Queued(h) PROVE u.index[y] = h.index[y]
    <2>1. y \in X \ Queued(g) BY <1>11, <1>16
    <2> QED BY <1>1, <1>3, <1>15, <1>16, <2>1
  <1>17. Heap(u, X) BY <1>14, <1>15 DEF Heap
  <1>18. u = Push(h, x) BY <1>2 DEF u
  <1> QED BY <1>3, <1>11, <1>15, <1>16, <1>17, <1>18 DEF n, c

\* The last item fills the gap at slot i: it may be too early or too late for
\* that place, and no other item is out of order.
LEMMA GapFilled ==
  ASSUME NEW m \in Nat, NEW p \in [0 .. m -> Nat], NEW r \in [0 .. m - 1 -> Nat], NEW i \in 0 .. m - 1,
         InOrder(p, m + 1), \A k \in 0 .. m - 1: k # i => r[k] = p[k]
  PROVE  Below(r, m, i, i)
  <1>1. ASSUME NEW k \in 1 .. m - 1
        PROVE  /\ k \in 1 .. (m + 1) - 1 /\ k \in 0 .. m - 1 /\ Parent(k) \in 0 .. m - 1 /\ Parent(k) < k
               /\ p[Parent(k)] <= p[k] /\ p[k] \in Nat /\ p[Parent(k)] \in Nat
    <2>1. Parent(k) \in 0 .. m - 1 /\ Parent(k) < k BY ParentIn
    <2>2. k \in 1 .. (m + 1) - 1 OBVIOUS
    <2> QED BY <2>1, <2>2 DEF InOrder
  <1>2. ASSUME NEW k \in 1 .. m - 1, Parent(k) # i, k # i PROVE r[Parent(k)] <= r[k]
    BY <1>1, <1>2
  <1>3. ASSUME i > 0, NEW k \in 1 .. m - 1, Parent(k) = i PROVE r[Parent(i)] <= r[k]
    <2>1. i \in 1 .. m - 1 /\ k # i BY <1>1, <1>3
    <2>2. p[Parent(i)] <= p[i] /\ Parent(i) # i /\ Parent(i) \in 0 .. m - 1 /\ p[Parent(i)] \in Nat BY <1>1, <2>1
    <2>3. p[i] <= p[k] /\ p[k] \in Nat /\ k \in 0 .. m - 1 /\ p[i] \in Nat BY <1>1, <1>3
    <2>4. r[Parent(i)] = p[Parent(i)] /\ r[k] = p[k] BY <2>1, <2>2, <2>3
    <2> QED BY <2>2, <2>3, <2>4
  <1> QED BY <1>2, <1>3 DEF Below

\* The gap at slot i is filled by the last of the first n + 1 slots.
LEMMA SwapLast ==
  ASSUME NEW X, NEW h, Heap(h, X), NEW m \in Nat, Len(h.q) = m + 1, NEW i \in 0 .. m - 1
  PROVE  LET g == Swap(h, i, m)
         IN  /\ Sane(g, X) /\ Keeps(g, h, X) /\ Slot(g, m) = Slot(h, i)
             /\ m \in 0 .. Len(g.q) /\ m \in Slots(g) /\ Below(Due(g, m), m, i, i)
  <1> DEFINE g == Swap(h, i, m)
  <1>1. Sane(h, X) /\ InOrder(Due(h, m + 1), m + 1) BY DEF Heap
  <1>2. i \in Slots(h) /\ m \in Slots(h) BY DEF Slots
  <1>3. /\ Sane(g, X) /\ Keeps(g, h, X) /\ Slot(g, m) = Slot(h, i)
        /\ \A k \in Slots(h): k # i /\ k # m => Slot(g, k) = Slot(h, k)
    BY <1>1, <1>2, SwapFacts
  <1> HIDE DEF g
  <1>4. Len(g.q) = m + 1 /\ g.pri = h.pri BY <1>3 DEF Keeps
  <1>5. m \in 0 .. Len(g.q) /\ m + 1 \in 0 .. Len(h.q) /\ m \in Slots(g) BY <1>4 DEF Slots
  <1>6. Due(h, m + 1) \in [0 .. m -> Nat] /\ \A k \in 0 .. m: Due(h, m + 1)[k] = PriAt(h, k)
    <2>1. (m + 1) - 1 = m OBVIOUS
    <2> QED BY <1>1, <1>5, <2>1, DueFacts
  <1>7. Due(g, m) \in [0 .. m - 1 -> Nat] /\ \A k \in 0 .. m - 1: Due(g, m)[k] = PriAt(g, k) BY <1>3, <1>5, DueFacts
  <1>8. ASSUME NEW k \in 0 .. m - 1, k # i PROVE Due(g, m)[k] = Due(h, m + 1)[k]
    <2>1. k \in Slots(h) /\ k # m /\ k \in 0 .. m BY DEF Slots
    <2>2. Slot(g, k) = Slot(h, k) BY <1>3, <1>8, <2>1
    <2>3. PriAt(g, k) = PriAt(h, k) BY <1>4, <2>2 DEF PriAt
    <2> QED BY <1>6, <1>7, <2>1, <2>3
  <1>9. Below(Due(g, m), m, i, i) BY <1>1, <1>6, <1>7, <1>8, GapFilled
  <1> QED BY <1>3, <1>5, <1>9 DEF g

LEMMA TakenKept ==
  ASSUME NEW X, NEW h, NEW g, NEW f, NEW x, Keeps(g, h, X), TakenOut(f, g, x, X)
  PROVE  TakenOut(f, h, x, X)
  BY DEF Keeps, TakenOut

LEMMA RemoveFacts ==
  ASSUME NEW X, NEW h, Heap(h, X), NEW i \in Slots(h)
  PROVE  Heap(Remove(h, i), X) /\ TakenOut(Remove(h, i), h, Slot(h, i), X) /\ Remove(h, i).cap = h.cap
  <1> DEFINE m == Len(h.q) - 1
  <1>0. Sane(h, X) /\ InOrder(Due(h, m + 1), m + 1) /\ Len(h.q) \in Nat
    <2>1. Sane(h, X) /\ Len(h.q) \in Nat BY HeapFacts DEF Heap, Sane
    <2>2. m + 1 = Len(h.q) BY <2>1
    <2> QED BY <2>1, <2>2 DEF Heap
  <1>1. m \in Nat /\ Len(h.q) = m + 1 /\ i \in 0 .. m /\ h.q # <<>> BY <1>0 DEF Slots
  <1>2. CASE m = i
    <2>1. Remove(h, i) = Cut(h) BY <1>2 DEF Remove
    <2>2. Sane(Cut(h), X) /\ TakenOut(Cut(h), h, Slot(h, m), X) /\ Cut(h).cap = h.cap /\ \A l \in 0 .. m: Due(Cut(h), l) = Due(h, l)
      BY <1>0, <1>1, CutFacts
    <2>3. Len(Cut(h).q) = m BY <2>2 DEF TakenOut
    <2>4. InOrder(Due(h, m), m)
      <3>1. ASSUME NEW k \in 1 .. m - 1 PROVE Due(h, m)[Parent(k)] <= Due(h, m)[k]
        <4>1. Parent(k) \in 0 .. m - 1 BY <1>1, ParentIn
        <4>2. k \in 1 .. (m + 1) - 1 /\ k \in 0 .. m - 1 /\ k \in 0 .. (m + 1) - 1 /\ Parent(k) \in 0 .. (m + 1) - 1 BY <1>1, <4>1
        <4>3. Due(h, m + 1)[Parent(k)] <= Due(h, m + 1)[k] BY <1>0, <4>2 DEF InOrder
        <4> QED BY <4>1, <4>2, <4>3 DEF Due
      <3> QED BY <3>1 DEF InOrder
    <2>5. Due(Cut(h), m) = Due(h, m) BY <1>1, <2>2
    <2>6. Heap(Cut(h), X) BY <2>2, <2>3, <2>4, <2>5 DEF Heap
    <2> QED BY <1>2, <2>1, <2>2, <2>6
  <1>3. CASE m # i
    <2> DEFINE g == Swap(h, i, m)
               d == Down(g, i, m)
               u == Up(d, i)
    <2>1. Remove(h, i) = Cut(u) BY <1>3 DEF Remove
    <2>2. i \in 0 .. m - 1 BY <1>1, <1>3
    <2> HIDE DEF m
    <2>3. /\ Sane(g, X) /\ Keeps(g, h, X) /\ Slot(g, m) = Slot(h, i)
          /\ m \in 0 .. Len(g.q) /\ m \in Slots(g) /\ Below(Due(g, m), m, i, i)
      BY <1>1, <2>2, SwapLast
    <2> HIDE DEF g
    <2>4. m >= m BY <1>1
    <2>5. Sane(d, X) /\ Keeps(d, g, X) /\ Above(Due(d, m), m, i) /\ Slot(d, m) = Slot(g, m) BY <2>2, <2>3, <2>4, DownFacts
    <2> HIDE DEF d
    <2>6. Len(d.q) = Len(g.q) /\ Slots(d) = Slots(g) BY <2>5 DEF Keeps, Slots
    <2>7. Sane(u, X) /\ Keeps(u, d, X) /\ InOrder(Due(u, m), m) /\ Slot(u, m) = Slot(d, m) BY <2>2, <2>3, <2>4, <2>5, <2>6, UpFacts
    <2> HIDE DEF u
    <2>8. Keeps(u, h, X) BY <2>3, <2>5, <2>7, KeepsMore
    <2>9. Len(u.q) = m + 1 /\ u.cap = h.cap BY <1>1, <2>8 DEF Keeps
    <2>10. u.q # <<>> /\ Len(u.q) - 1 = m BY <1>1, <2>9
    <2>11. Sane(Cut(u), X) /\ TakenOut(Cut(u), u, Slot(u, m), X) /\ Cut(u).cap = u.cap /\ \A l \in 0 .. m: Due(Cut(u), l) = Due(u, l)
      BY <2>7, <2>10, CutFacts
    <2>12. TakenOut(Cut(u), h, Slot(h, i), X) BY <2>3, <2>5, <2>7, <2>8, <2>11, TakenKept
    <2>13. Len(Cut(u).q) = m BY <1>1, <2>9, <2>11 DEF TakenOut
    <2>14. Due(Cut(u), m) = Due(u, m) BY <1>1, <2>11
    <2>15. Heap(Cut(u), X) BY <2>7, <2>11, <2>13, <2>14 DEF Heap
    <2> QED BY <2>1, <2>9, <2>11, <2>12, <2>15
  <1> QED BY <1>2, <1>3

LEMMA CapFacts ==
  ASSUME NEW X, NEW h, Sane(h, X), NEW c \in Nat
  PROVE  LET g == [h EXCEPT !.cap = c]
         IN  Sane(g, X) /\ g.q = h.q /\ g.index = h.index /\ g.pri = h.pri /\ g.cap = c
  <1> DEFINE g == [h EXCEPT !.cap = c]
  <1>1. h \in Heaps(X) /\ Knows(h) BY DEF Sane
  <1>2. g \in Heaps(X) /\ g.q = h.q /\ g.index = h.index /\ g.pri = h.pri /\ g.cap = c BY <1>1 DEF Heaps
  <1> HIDE DEF g
  <1>3. Knows(g) BY <1>1, <1>2 DEF Knows, Slots, Slot
  <1> QED BY <1>2, <1>3 DEF Sane, g

\* The capacity after a Pop of one of n items.
Halved(c, n, floor) == IF n < c \div 2 /\ c > floor THEN c \div 2 ELSE c

LEMMA PopFacts ==
  ASSUME NEW X, NEW h, Heap(h, X), h.q # <<>>, NEW floor \in Nat
  PROVE  /\ Heap(Pop(h, floor), X) /\ TakenOut(Pop(h, floor), h, Slot(h, 0), X)
         /\ Pop(h, floor).cap = Halved(h.cap, Len(h.q), floor)
  <1> DEFINE m == Len(h.q) - 1
             g == Swap(h, 0, m)
             d == Down(g, 0, m)
             c == Halved(d.cap, Len(h.q), floor)
             u == [d EXCEPT !.cap = c]
  <1>0. Sane(h, X) /\ Len(h.q) \in Nat /\ h.q \in Seq(X) BY HeapFacts DEF Heap, Sane
  <1>1. m \in Nat /\ Len(h.q) = m + 1 /\ 0 \in Slots(h) BY <1>0 DEF Slots
  <1>2. Pop(h, floor) = Cut(u) BY Zenon DEF Pop, Halved
  <1> HIDE DEF m
  <1>3. Sane(d, X) /\ Keeps(d, h, X) /\ InOrder(Due(d, m), m) /\ Slot(d, m) = Slot(h, 0)
    <2>1. CASE m = 0
      <3>1. Sane(g, X) /\ Keeps(g, h, X) /\ Slot(g, 0) = Slot(h, 0) BY <1>0, <1>1, <2>1, SwapFacts
      <3> HIDE DEF g
      <3>2. 0 \in Slots(g) BY <1>1, <2>1, <3>1 DEF Keeps, Slots
      <3>3. d = g BY <2>1, <3>1, <3>2, DownNone
      <3>4. InOrder(Due(d, 0), 0) BY DEF InOrder
      <3> QED BY <2>1, <3>1, <3>3, <3>4
    <2>2. CASE m # 0
      <3>1. 0 \in 0 .. m - 1 /\ m >= m BY <1>1, <2>2
      <3>2. /\ Sane(g, X) /\ Keeps(g, h, X) /\ Slot(g, m) = Slot(h, 0)
            /\ m \in 0 .. Len(g.q) /\ m \in Slots(g) /\ Below(Due(g, m), m, 0, 0)
        BY <1>1, <3>1, SwapLast
      <3> HIDE DEF g
      <3>3. Sane(d, X) /\ Keeps(d, g, X) /\ Above(Due(d, m), m, 0) /\ Slot(d, m) = Slot(g, m) BY <3>1, <3>2, DownFacts
      <3> HIDE DEF d
      <3>4. Len(d.q) = Len(g.q) BY <3>3 DEF Keeps
      <3>5. Due(d, m) \in [0 .. m - 1 -> Nat] BY <3>2, <3>3, <3>4, DueFacts
      <3>6. InOrder(Due(d, m), m) BY <1>1, <3>1, <3>3, <3>5, ClimbEnd, ParentFacts
      <3> QED BY <3>2, <3>3, <3>6, KeepsMore
    <2> QED BY <2>1, <2>2
  <1> HIDE DEF d
  <1>4. Len(d.q) = m + 1 /\ d.cap = h.cap /\ d.cap \in Nat /\ Queued(d) = Queued(h) /\ d.pri = h.pri
        /\ \A x \in X \ Queued(h): d.index[x] = h.index[x]
    <2>1. d.cap \in Nat BY <1>3, HeapFacts DEF Sane
    <2> QED BY <1>1, <1>3, <2>1 DEF Keeps
  <1>5. c \in Nat BY <1>1, <1>4 DEF Halved
  <1> HIDE DEF c
  <1>6. Sane(u, X) /\ u.q = d.q /\ u.index = d.index /\ u.pri = d.pri /\ u.cap = c BY <1>3, <1>5, CapFacts
  <1> HIDE DEF u
  <1>7. Len(u.q) = m + 1 /\ Len(u.q) - 1 = m /\ u.q # <<>> BY <1>1, <1>4, <1>6
  <1>8. Sane(Cut(u), X) /\ TakenOut(Cut(u), u, Slot(u, m), X) /\ Cut(u).cap = u.cap /\ \A l \in 0 .. m: Due(Cut(u), l) = Due(u, l)
    BY <1>6, <1>7, CutFacts
  <1>9. Slot(u, m) = Slot(h, 0) /\ Queued(u) = Queued(h) BY <1>3, <1>4, <1>6 DEF Slot, Queued
  <1>10. TakenOut(Cut(u), h, Slot(h, 0), X) BY <1>1, <1>4, <1>6, <1>7, <1>8, <1>9 DEF TakenOut
  <1>11. Due(u, m) = Due(d, m) BY <1>6 DEF Due, PriAt, Slot
  <1>12. Len(Cut(u).q) = m /\ Due(Cut(u), m) = Due(d, m) BY <1>1, <1>7, <1>8, <1>11 DEF TakenOut
  <1>13. Heap(Cut(u), X) BY <1>3, <1>8, <1>12 DEF Heap
  <1>14. Cut(u).cap = Halved(h.cap, Len(h.q), floor) BY <1>4, <1>6, <1>8 DEF c
  <1> QED BY <1>2, <1>10, <1>13, <1>14

\* Slot 0 has the earliest deadline of all.
LEMMA RootEarliest ==
  ASSUME NEW X, NEW h, Heap(h, X), NEW i \in Slots(h)
  PROVE  0 \in Slots(h) /\ PriAt(h, 0) <= PriAt(h, i)
  <1> DEFINE n == Len(h.q)
             P == { k \in Nat: \A l \in Slots(h): l <= k => PriAt(h, 0) <= PriAt(h, l) }
  <1>0. Sane(h, X) /\ n \in Nat /\ InOrder(Due(h, n), n) BY HeapFacts DEF Heap, Sane
  <1>1. n \in 0 .. Len(h.q) /\ Slots(h) = 0 .. n - 1 /\ 0 \in Slots(h) BY <1>0 DEF Slots
  <1>2. \A k \in Slots(h): PriAt(h, k) \in Nat /\ Due(h, n)[k] = PriAt(h, k) /\ k \in Nat
    <2>1. \A k \in 0 .. n - 1: Due(h, n)[k] = PriAt(h, k) /\ PriAt(h, k) \in Nat BY <1>0, <1>1, DueFacts
    <2>2. \A k \in 0 .. n - 1: k \in Nat OBVIOUS
    <2> HIDE DEF n
    <2> QED BY <1>1, <2>1, <2>2
  <1>3. \A k \in 1 .. n - 1: Parent(k) \in Slots(h) /\ k \in Slots(h) /\ Parent(k) < k /\ PriAt(h, Parent(k)) <= PriAt(h, k)
    <2>1. ASSUME NEW k \in 1 .. n - 1
          PROVE  Parent(k) \in Slots(h) /\ k \in Slots(h) /\ Parent(k) < k /\ PriAt(h, Parent(k)) <= PriAt(h, k)
      <3>1. Parent(k) \in Slots(h) /\ k \in Slots(h) /\ Parent(k) < k BY <1>0, <1>1, ParentIn
      <3>2. Due(h, n)[Parent(k)] <= Due(h, n)[k] BY <1>0 DEF InOrder
      <3> QED BY <1>2, <3>1, <3>2
    <2> QED BY <2>1
  <1> HIDE DEF n
  <1>4. 0 \in P
    <2>1. ASSUME NEW l \in Slots(h), l <= 0 PROVE PriAt(h, 0) <= PriAt(h, l)
      <3>1. l = 0 BY <1>2, <2>1
      <3> QED BY <1>1, <1>2, <3>1
    <2> QED BY <2>1
  <1>5. ASSUME NEW k \in Nat, k \in P PROVE k + 1 \in P
    <2>1. ASSUME NEW l \in Slots(h), l <= k + 1 PROVE PriAt(h, 0) <= PriAt(h, l)
      <3>1. CASE l <= k BY <1>5, <3>1
      <3>2. CASE ~(l <= k)
        <4>1. l \in 1 .. n - 1 /\ l = k + 1 BY <1>0, <1>1, <1>2, <2>1, <3>2
        <4>2. Parent(l) \in Slots(h) /\ Parent(l) < l /\ PriAt(h, Parent(l)) <= PriAt(h, l) BY <1>3, <4>1
        <4>3. Parent(l) <= k
          <5>1. Parent(l) \in Nat BY <1>2, <4>2
          <5> QED BY <4>1, <4>2, <5>1
        <4>4. PriAt(h, 0) <= PriAt(h, Parent(l)) BY <1>5, <4>2, <4>3
        <4> QED BY <1>1, <1>2, <4>2, <4>4
      <3> QED BY <3>1, <3>2
    <2> QED BY <2>1
  <1>6. i \in P
    <2>1. i \in Nat BY <1>2
    <2> HIDE DEF P
    <2> QED BY <1>4, <1>5, <2>1, SetInduction
  <1>7. i <= i BY <1>2
  <1> QED BY <1>1, <1>6, <1>7

\* What is written to an item that is not queued does not disturb the heap.
LEMMA OutsideFacts ==
  ASSUME NEW X, NEW h, Heap(h, X), NEW g \in Heaps(X), g.q = h.q,
         \A y \in Queued(h): g.index[y] = h.index[y] /\ g.pri[y] = h.pri[y]
  PROVE  Heap(g, X) /\ Queued(g) = Queued(h) /\ \A k \in Slots(h): PriAt(g, k) = PriAt(h, k)
  <1> DEFINE n == Len(h.q)
  <1>0. Sane(h, X) /\ h \in Heaps(X) /\ Knows(h) /\ InOrder(Due(h, n), n) BY DEF Heap, Sane
  <1>1. Queued(g) = Queued(h) /\ Slots(g) = Slots(h) /\ Len(g.q) = n /\ \A k \in Slots(h): Slot(g, k) = Slot(h, k)
    BY DEF Queued, Slots, Slot
  <1>2. \A k \in Slots(h): Slot(h, k) \in Queued(h) BY <1>0, HeapFacts
  <1>3. \A k \in Slots(h): PriAt(g, k) = PriAt(h, k) /\ g.index[Slot(g, k)] = h.index[Slot(h, k)] BY <1>1, <1>2 DEF PriAt
  <1>4. Knows(g) BY <1>0, <1>1, <1>3 DEF Knows
  <1>5. Due(g, n) = Due(h, n)
    <2>1. Slots(h) = 0 .. n - 1 BY DEF Slots
    <2> QED BY <1>3, <2>1 DEF Due
  <1> QED BY <1>0, <1>1, <1>3, <1>4, <1>5 DEF Heap, Sane

\* A heap holds no more items than there are.
LEMMA LenBound ==
  ASSUME NEW X, NEW h, Sane(h, X), IsFiniteSet(X)
  PROVE  Len(h.q) <= Cardinality(X) /\ Cardinality(X) \in Nat
  <1> DEFINE n == Len(h.q)
             f == [k \in 1 .. n |-> h.q[k]]
  <1>0. n \in Nat /\ h \in Heaps(X) /\ h.q \in Seq(X) BY HeapFacts DEF Sane
  <1>1. f \in [1 .. n -> X] BY <1>0
  <1>2. ASSUME NEW i \in 1 .. n, NEW j \in 1 .. n, f[i] = f[j] PROVE i = j
    <2>1. i - 1 \in Slots(h) /\ j - 1 \in Slots(h) /\ (i - 1) + 1 = i /\ (j - 1) + 1 = j BY <1>0 DEF Slots
    <2>2. Slot(h, i - 1) = Slot(h, j - 1) BY <1>2, <2>1 DEF Slot
    <2>3. i - 1 = j - 1 BY <2>1, <2>2, OneSlot
    <2> QED BY <2>3
  <1> HIDE DEF f
  <1>3. f \in Injection(1 .. n, X) BY <1>1, <1>2 DEF Injection, IsInjective
  <1>4. Cardinality(1 .. n) <= Cardinality(X) BY <1>3, FS_Injection
  <1>5. Cardinality(1 .. n) = n BY <1>0, FS_Interval
  <1> QED BY <1>4, <1>5, FS_CardinalityType

\* The index of an item is a slot of the heap while the item is queued.
LEMMA IndexRange ==
  ASSUME NEW X, NEW h, Sane(h, X), IsFiniteSet(X),
         \A x \in X: x \notin Queued(h) => h.index[x] \in -1 .. Cardinality(X) - 1
  PROVE  h.index \in [X -> -1 .. Cardinality(X) - 1]
  <1>1. h \in Heaps(X) /\ h.index \in [X -> Int] /\ Len(h.q) \in Nat BY HeapFacts DEF Sane
  <1>2. ASSUME NEW x \in X, x \in Queued(h) PROVE h.index[x] \in -1 .. Cardinality(X) - 1
    <2>1. PICK i \in Slots(h): x = Slot(h, i) BY <1>1, <1>2, HeapFacts
    <2>2. h.index[x] = i BY <2>1 DEF Sane, Knows
    <2>3. i \in 0 .. Len(h.q) - 1 BY DEF Slots
    <2> QED BY <1>1, <2>2, <2>3, LenBound
  <1>3. \A x \in X: h.index[x] \in -1 .. Cardinality(X) - 1 BY <1>2
  <1> QED BY <1>1, <1>3

-----------------------------------------------------------------------------
(* The state machine of the heap *)

PqueueInv ==
    /\ Heap(pq, Items)
    /\ pq.index \in [Items -> -1 .. Cardinality(Items) - 1]
    /\ pq.pri \in [Items -> 0 .. MaxPri]
    /\ pq.cap \in Nat \ {0} /\ Len(pq.q) <= pq.cap

LEMMA EmptyHeap ==
  ASSUME NEW X, NEW h, h = [q |-> <<>>, index |-> [x \in X |-> 0], pri |-> [x \in X |-> 0], cap |-> h.cap], h.cap \in Nat
  PROVE  Heap(h, X) /\ Queued(h) = {} /\ h.q = <<>>
  <1>1. h.q = <<>> /\ Len(h.q) = 0 /\ h.index = [x \in X |-> 0] /\ h.pri = [x \in X |-> 0] OBVIOUS
  <1>2. h \in Heaps(X)
    <2>1. <<>> \in Seq(X) /\ [x \in X |-> 0] \in [X -> Int] /\ [x \in X |-> 0] \in [X -> Nat] OBVIOUS
    <2> QED BY <1>1, <2>1 DEF Heaps
  <1>3. Slots(h) = {} BY <1>1 DEF Slots
  <1>4. Sane(h, X) BY <1>2, <1>3 DEF Sane, Knows
  <1>5. InOrder(Due(h, 0), 0) BY DEF InOrder
  <1>6. Queued(h) = {} BY <1>2, <1>3, HeapFacts
  <1> QED BY <1>1, <1>4, <1>5, <1>6 DEF Heap

LEMMA PqueueInitInv == PqueueInit => PqueueInv
  <1> SUFFICES ASSUME PqueueInit PROVE PqueueInv OBVIOUS
  <1>1. /\ pq.q = <<>> /\ pq.index = [x \in Items |-> 0] /\ pq.pri = [x \in Items |-> 0] /\ pq.cap = InitCap
        /\ pq = [q |-> <<>>, index |-> [x \in Items |-> 0], pri |-> [x \in Items |-> 0], cap |-> pq.cap]
    BY DEF PqueueInit
  <1>2. Heap(pq, Items) BY <1>1, EmptyHeap, PqueueAssumption
  <1>3. Cardinality(Items) \in Nat BY FS_CardinalityType, PqueueAssumption
  <1>4. ASSUME NEW x \in Items PROVE 0 \in -1 .. Cardinality(Items) - 1
    <2>1. Items # {} OBVIOUS
    <2>2. Cardinality(Items) # 0 BY <2>1, FS_EmptySet, PqueueAssumption
    <2> QED BY <1>3, <2>2
  <1>5. 0 \in 0 .. MaxPri /\ InitCap \in Nat \ {0} BY PqueueAssumption
  <1>6. pq.index \in [Items -> -1 .. Cardinality(Items) - 1] BY <1>1, <1>4
  <1>7. pq.pri \in [Items -> 0 .. MaxPri] BY <1>1, <1>5
  <1> QED BY <1>1, <1>2, <1>5, <1>6, <1>7 DEF PqueueInv

\* The deadline of an item that is not queued is set.
LEMMA Redated ==
  ASSUME NEW h, Heap(h, Items), h.pri \in [Items -> 0 .. MaxPri], NEW x \in Items, x \notin Queued(h), NEW p \in 0 .. MaxPri
  PROVE  LET g == [h EXCEPT !.pri = [@ EXCEPT ![x] = p]]
         IN  /\ Heap(g, Items) /\ Queued(g) = Queued(h) /\ g.q = h.q /\ g.index = h.index /\ g.cap = h.cap
             /\ g.pri \in [Items -> 0 .. MaxPri]
  <1> DEFINE r == [h.pri EXCEPT ![x] = p]
             g == [h EXCEPT !.pri = r]
  <1>0. h \in Heaps(Items) BY DEF Heap, Sane
  <1>1. r \in [Items -> 0 .. MaxPri] /\ \A y \in Items: y # x => r[y] = h.pri[y] OBVIOUS
  <1>2. r \in [Items -> Nat] BY <1>1, PqueueAssumption
  <1> HIDE DEF r
  <1>3. g \in Heaps(Items) /\ g.q = h.q /\ g.index = h.index /\ g.cap = h.cap /\ g.pri = r BY <1>0, <1>2 DEF Heaps
  <1> HIDE DEF g
  <1>4. \A y \in Queued(h): g.index[y] = h.index[y] /\ g.pri[y] = h.pri[y]
    <2>1. \A y \in Queued(h): y \in Items BY <1>0, HeapFacts
    <2> QED BY <1>1, <1>3, <2>1
  <1>5. Heap(g, Items) /\ Queued(g) = Queued(h) BY <1>3, <1>4, OutsideFacts
  <1>6. g = [h EXCEPT !.pri = [@ EXCEPT ![x] = p]] BY DEF g, r
  <1> QED BY <1>1, <1>3, <1>5, <1>6

\* An item is taken out and its deadline forgotten.
LEMMA ForgetFacts ==
  ASSUME PqueueInv, NEW h, NEW x \in Items, Heap(h, Items), TakenOut(h, pq, x, Items),
         h.cap \in Nat \ {0}, Len(h.q) <= h.cap, pq' = Forget(h, x)
  PROVE  PqueueInv' /\ Queued(pq') = Queued(pq) \ {x} /\ pq'.index[x] = -1
  <1>0. Heap(pq, Items) /\ pq.index \in [Items -> -1 .. Cardinality(Items) - 1] /\ pq.pri \in [Items -> 0 .. MaxPri]
    BY DEF PqueueInv
  <1>1. /\ Queued(h) = Queued(pq) \ {x} /\ h.pri = pq.pri /\ h.index[x] = -1
        /\ \A y \in Items \ Queued(pq): h.index[y] = pq.index[y]
    BY DEF TakenOut
  <1>2. 0 \in 0 .. MaxPri /\ IsFiniteSet(Items) BY PqueueAssumption
  <1> DEFINE g == [h EXCEPT !.pri = [@ EXCEPT ![x] = 0]]
  <1>3. /\ Heap(g, Items) /\ Queued(g) = Queued(h) /\ g.q = h.q /\ g.index = h.index /\ g.cap = h.cap
        /\ g.pri \in [Items -> 0 .. MaxPri]
    BY <1>0, <1>1, <1>2, Redated
  <1>4. pq' = g BY DEF Forget
  <1> HIDE DEF g
  <1>5. Cardinality(Items) \in Nat BY <1>2, FS_CardinalityType
  <1>6. ASSUME NEW y \in Items, y \notin Queued(g) PROVE g.index[y] \in -1 .. Cardinality(Items) - 1
    <2>1. CASE y = x
      <3>1. g.index[y] = -1 BY <1>1, <1>3, <2>1
      <3> QED BY <1>5, <3>1
    <2>2. CASE y # x
      <3>1. y \in Items \ Queued(pq) BY <1>1, <1>3, <1>6, <2>2
      <3> QED BY <1>0, <1>1, <1>3, <3>1
    <2> QED BY <2>1, <2>2
  <1>7. g.index \in [Items -> -1 .. Cardinality(Items) - 1] BY <1>2, <1>3, <1>6, IndexRange DEF Heap
  <1>8. PqueueInv' BY <1>3, <1>4, <1>7 DEF PqueueInv, Heap, Sane, Heaps, Knows, InOrder, Due, Slots, Slot, PriAt, Parent
  <1> QED BY <1>1, <1>3, <1>4, <1>8

LEMMA PushStep ==
  ASSUME PqueueInv, NEW p \in 0 .. MaxPri, PushItem(p)
  PROVE  PqueueInv'
  <1>0. /\ Heap(pq, Items) /\ pq.index \in [Items -> -1 .. Cardinality(Items) - 1] /\ pq.pri \in [Items -> 0 .. MaxPri]
        /\ pq.cap \in Nat \ {0} /\ Len(pq.q) <= pq.cap /\ Len(pq.q) \in Nat
    BY HeapFacts DEF PqueueInv, Heap, Sane
  <1>1. PICK x \in Items \ Queued(pq): pq' = Push([pq EXCEPT !.pri = [@ EXCEPT ![x] = p]], x) BY DEF PushItem
  <1> DEFINE d == [pq EXCEPT !.pri = [@ EXCEPT ![x] = p]]
             g == Push(d, x)
  <1>2. /\ Heap(d, Items) /\ Queued(d) = Queued(pq) /\ d.q = pq.q /\ d.index = pq.index /\ d.cap = pq.cap
        /\ d.pri \in [Items -> 0 .. MaxPri]
    BY <1>0, Redated
  <1>3. pq' = g BY <1>1
  <1> HIDE DEF d
  <1>4. /\ Heap(g, Items) /\ Queued(g) = Queued(d) \cup {x} /\ Len(g.q) = Len(d.q) + 1 /\ g.pri = d.pri
        /\ g.cap = (IF Len(d.q) + 1 > d.cap THEN 2 * d.cap ELSE d.cap)
        /\ \A y \in Items: y # x /\ y \notin Queued(d) => g.index[y] = d.index[y]
    <2>1. x \in Items /\ x \notin Queued(d) BY <1>2
    <2> QED BY <1>2, <2>1, PushFacts
  <1> HIDE DEF g
  <1>5. \A y \in Items: y \notin Queued(g) => g.index[y] \in -1 .. Cardinality(Items) - 1 BY <1>0, <1>2, <1>4
  <1>6. g.index \in [Items -> -1 .. Cardinality(Items) - 1] BY <1>4, <1>5, IndexRange, PqueueAssumption DEF Heap
  <1>7. g.cap \in Nat \ {0} /\ Len(g.q) <= g.cap BY <1>0, <1>2, <1>4
  <1> QED BY <1>2, <1>3, <1>4, <1>6, <1>7 DEF PqueueInv, Heap, Sane, Heaps, Knows, InOrder, Due, Slots, Slot, PriAt, Parent

LEMMA RemoveStep ==
  ASSUME PqueueInv, NEW x \in Items, RemoveItem(x)
  PROVE  PqueueInv' /\ Queued(pq') = Queued(pq) \ {x} /\ pq'.index[x] = -1
  <1>0. /\ Heap(pq, Items) /\ pq \in Heaps(Items) /\ Knows(pq) /\ pq.cap \in Nat \ {0}
        /\ Len(pq.q) <= pq.cap /\ Len(pq.q) \in Nat
    BY HeapFacts DEF PqueueInv, Heap, Sane
  <1>1. x \in Queued(pq) /\ pq' = Forget(Remove(pq, pq.index[x]), x) BY DEF RemoveItem
  <1>2. PICK i \in Slots(pq): x = Slot(pq, i) BY <1>0, <1>1, HeapFacts
  <1>3. pq.index[x] = i BY <1>0, <1>2 DEF Knows
  <1> DEFINE h == Remove(pq, i)
  <1>4. Heap(h, Items) /\ TakenOut(h, pq, x, Items) /\ h.cap = pq.cap BY <1>0, <1>2, RemoveFacts
  <1>5. pq' = Forget(h, x) BY <1>1, <1>3
  <1> HIDE DEF h
  <1>6. Len(h.q) <= h.cap /\ h.cap \in Nat \ {0}
    <2>1. Len(h.q) = Len(pq.q) - 1 BY <1>4 DEF TakenOut
    <2> QED BY <1>0, <1>4, <2>1
  <1> QED BY <1>4, <1>5, <1>6, ForgetFacts

\* What PeekAndShift does when an item is due.
LEMMA ShiftedFacts ==
  ASSUME PqueueInv, NEW max \in 0 .. MaxPri, Expired(pq, max)
  PROVE  LET x == Slot(pq, 0)
             h == Pop(pq, Floor)
         IN  /\ 0 \in Slots(pq) /\ x \in Items /\ x \in Queued(pq) /\ Shifted(pq, max) = Forget(h, x)
             /\ Heap(h, Items) /\ TakenOut(h, pq, x, Items) /\ h.cap \in Nat \ {0} /\ Len(h.q) <= h.cap
  <1> DEFINE x == Slot(pq, 0)
             h == Pop(pq, Floor)
  <1>0. /\ Heap(pq, Items) /\ pq \in Heaps(Items) /\ pq.cap \in Nat \ {0}
        /\ Len(pq.q) <= pq.cap /\ Len(pq.q) \in Nat
    BY HeapFacts DEF PqueueInv, Heap, Sane
  <1>1. Len(pq.q) > 0 BY DEF Expired
  <1>2. 0 \in Slots(pq) /\ pq.q # <<>> BY <1>0, <1>1 DEF Slots
  <1>3. x \in Items /\ x \in Queued(pq) BY <1>0, <1>2, HeapFacts
  <1>4. Heap(h, Items) /\ TakenOut(h, pq, x, Items) /\ h.cap = Halved(pq.cap, Len(pq.q), Floor)
    BY <1>0, <1>2, PopFacts, PqueueAssumption
  <1>5. Shifted(pq, max) = Forget(h, x) BY DEF Shifted
  <1> HIDE DEF h, x
  <1>6. h.cap \in Nat \ {0} /\ Len(h.q) <= h.cap
    <2>1. Len(h.q) = Len(pq.q) - 1 BY <1>4 DEF TakenOut
    <2>2. Floor \in Nat BY PqueueAssumption
    <2> QED BY <1>0, <1>1, <1>4, <2>1, <2>2 DEF Halved
  <1> QED BY <1>2, <1>3, <1>4, <1>5, <1>6 DEF h, x

-----------------------------------------------------------------------------
(* Theorems about the heap *)

\* Push, Remove and PeekAndShift keep a heap in order whose items know their
\* slots and whose slice has room for them.
THEOREM PqueueInductive == PqueueSpec => []PqueueInv
  <1>1. PqueueInit => PqueueInv BY PqueueInitInv
  <1>2. PqueueInv /\ [PqueueNext]_pq => PqueueInv'
    <2> SUFFICES ASSUME PqueueInv, [PqueueNext]_pq PROVE PqueueInv' OBVIOUS
    <2>1. ASSUME NEW p \in 0 .. MaxPri, PushItem(p) PROVE PqueueInv' BY <2>1, PushStep
    <2>2. ASSUME NEW x \in Items, RemoveItem(x) PROVE PqueueInv' BY <2>2, RemoveStep
    <2>3. CASE UNCHANGED pq
      BY <2>3 DEF PqueueInv, Heap, Sane, Heaps, Knows, InOrder, Due, Slots, Slot, PriAt, Parent
    <2>4. ASSUME NEW max \in 0 .. MaxPri, PeekAndShift(max) PROVE PqueueInv'
      <3>1. CASE Expired(pq, max)
        <4> DEFINE x == Slot(pq, 0)
                   h == Pop(pq, Floor)
        <4>1. /\ x \in Items /\ Shifted(pq, max) = Forget(h, x) /\ Heap(h, Items)
              /\ TakenOut(h, pq, x, Items) /\ h.cap \in Nat \ {0} /\ Len(h.q) <= h.cap
          BY <3>1, ShiftedFacts
        <4>2. pq' = Forget(h, x) BY <2>4, <4>1 DEF PeekAndShift
        <4> HIDE DEF h, x
        <4> QED BY <4>1, <4>2, ForgetFacts
      <3>2. CASE ~Expired(pq, max)
        <4>1. pq' = pq BY <2>4, <3>2 DEF PeekAndShift, Shifted
        <4> QED BY <2>3, <4>1
      <3> QED BY <3>1, <3>2
    <2> QED BY <2>1, <2>2, <2>3, <2>4 DEF PqueueNext
  <1> QED BY <1>1, <1>2, PTL DEF PqueueSpec

\* No item waits behind a later one, and every item knows its slot.
THEOREM PqueueHeapOrdered == PqueueSpec => []HeapOrdered
  <1>1. PqueueInv => HeapOrdered
    <2> SUFFICES ASSUME PqueueInv PROVE HeapOrdered OBVIOUS
    <2> DEFINE n == Len(pq.q)
    <2>0. Heap(pq, Items) /\ Sane(pq, Items) /\ pq \in Heaps(Items) BY DEF PqueueInv, Heap, Sane
    <2>1. pq.q \in Seq(Items) /\ n \in Nat BY <2>0, HeapFacts
    <2>2. PqueueTypeOK BY <2>1 DEF PqueueInv, PqueueTypeOK
    <2>3. ASSUME NEW i \in 1 .. n - 1 PROVE PriAt(pq, Parent(i)) <= PriAt(pq, i)
      <3>1. Parent(i) \in 0 .. n - 1 /\ i \in 0 .. n - 1 BY <2>1, ParentIn
      <3>2. Due(pq, n)[Parent(i)] <= Due(pq, n)[i] BY <2>0 DEF Heap, InOrder
      <3> QED BY <3>1, <3>2 DEF Due
    <2>4. \A i \in 0 .. n - 1: pq.index[Slot(pq, i)] = i BY <2>0 DEF Sane, Knows, Slots
    <2> QED BY <2>2, <2>3, <2>4 DEF HeapOrdered
  <1> QED BY <1>1, PqueueInductive, PTL

\* PeekAndShift takes out an item exactly when one is due, one with the
\* earliest deadline of all, and loses no other.
THEOREM PqueueShiftEarliest == PqueueSpec => []ShiftEarliest
  <1>1. PqueueInv => ShiftEarliest
    <2> SUFFICES ASSUME PqueueInv, NEW max \in 0 .. MaxPri
                 PROVE  LET gone == Queued(pq) \ Queued(Shifted(pq, max))
                        IN  /\ gone # {} <=> \E x \in Queued(pq) : pq.pri[x] <= max
                            /\ Cardinality(gone) <= 1
                            /\ \A y \in gone, x \in Queued(pq) : pq.pri[y] <= pq.pri[x]
      BY DEF ShiftEarliest
    <2> DEFINE gone == Queued(pq) \ Queued(Shifted(pq, max))
    <2>0. Heap(pq, Items) /\ pq \in Heaps(Items) /\ max \in Int BY DEF PqueueInv, Heap, Sane
    <2>1. \A x \in Queued(pq): \E i \in Slots(pq): x = Slot(pq, i) BY <2>0, HeapFacts
    <2>2. \A i \in Slots(pq): 0 \in Slots(pq) /\ PriAt(pq, 0) <= PriAt(pq, i) /\ PriAt(pq, i) \in Nat BY <2>0, RootEarliest, HeapFacts
    <2>3. \A x \in Queued(pq): 0 \in Slots(pq) /\ PriAt(pq, 0) <= pq.pri[x] /\ pq.pri[x] \in Nat /\ PriAt(pq, 0) \in Nat
      <3>1. ASSUME NEW x \in Queued(pq)
            PROVE  0 \in Slots(pq) /\ PriAt(pq, 0) <= pq.pri[x] /\ pq.pri[x] \in Nat /\ PriAt(pq, 0) \in Nat
        <4>1. PICK i \in Slots(pq): x = Slot(pq, i) BY <2>1
        <4>2. PriAt(pq, i) = pq.pri[x] BY <4>1 DEF PriAt
        <4>3. 0 \in Slots(pq) /\ PriAt(pq, 0) <= PriAt(pq, i) /\ PriAt(pq, i) \in Nat BY <2>2
        <4>4. PriAt(pq, 0) \in Nat BY <2>2, <4>3
        <4> QED BY <4>2, <4>3, <4>4
      <3> QED BY <3>1
    <2>4. CASE Expired(pq, max)
      <3> DEFINE x == Slot(pq, 0)
                 h == Pop(pq, Floor)
      <3>1. /\ x \in Items /\ x \in Queued(pq) /\ Shifted(pq, max) = Forget(h, x) /\ Heap(h, Items) /\ TakenOut(h, pq, x, Items)
        BY <2>4, ShiftedFacts
      <3>2. pq.pri[x] = PriAt(pq, 0) /\ pq.pri[x] <= max BY <2>4 DEF Expired, PriAt
      <3> HIDE DEF h, x
      <3>3. Queued(h) = Queued(pq) \ {x} BY <3>1 DEF TakenOut
      <3>4. Queued(Forget(h, x)) = Queued(h)
        <4>1. h \in Heaps(Items) BY <3>1 DEF Heap, Sane
        <4>2. Forget(h, x).q = h.q BY <4>1 DEF Forget, Heaps
        <4> QED BY <4>2 DEF Queued
      <3>5. gone = {x} BY <3>1, <3>3, <3>4
      <3>6. Cardinality(gone) = 1 BY <3>5, FS_Singleton
      <3>7. \A y \in Queued(pq): pq.pri[x] <= pq.pri[y] BY <2>3, <3>2
      <3> HIDE DEF gone
      <3>8. gone # {} /\ \E y \in Queued(pq) : pq.pri[y] <= max BY <3>1, <3>2, <3>5
      <3>9. Cardinality(gone) <= 1 BY <3>6
      <3>10. \A y \in gone, z \in Queued(pq) : pq.pri[y] <= pq.pri[z] BY <3>5, <3>7
      <3> QED BY <3>8, <3>9, <3>10 DEF gone
    <2>5. CASE ~Expired(pq, max)
      <3>1. Shifted(pq, max) = pq BY <2>5 DEF Shifted
      <3>2. gone = {} BY <3>1
      <3>3. Cardinality({}) = 0 BY FS_EmptySet
      <3>4. ASSUME NEW x \in Queued(pq), pq.pri[x] <= max PROVE FALSE
        <4>1. 0 \in Slots(pq) /\ PriAt(pq, 0) <= max BY <2>0, <2>3, <3>4
        <4>2. Len(pq.q) > 0
          <5>1. Len(pq.q) \in Nat BY <2>0, HeapFacts
          <5> QED BY <4>1, <5>1 DEF Slots
        <4> QED BY <2>5, <4>1, <4>2 DEF Expired
      <3> HIDE DEF gone
      <3>5. Cardinality(gone) <= 1 BY <3>2, <3>3
      <3> QED BY <3>2, <3>4, <3>5 DEF gone
    <2> QED BY <2>4, <2>5
  <1> QED BY <1>1, PqueueInductive, PTL

\* A removal through the index takes out that item and no other, and marks it.
THEOREM PqueueRemoveExact == PqueueSpec => RemoveExact
  <1>1. PqueueInv /\ [PqueueNext]_pq
          => [\A x \in Items : RemoveItem(x) => Queued(pq') = Queued(pq) \ {x} /\ pq'.index[x] = -1]_pq
    BY RemoveStep
  <1> QED BY <1>1, PqueueInductive, PTL DEF PqueueSpec, RemoveExact

-----------------------------------------------------------------------------
(* Deliveries, acknowledgements and scans: the inductive invariant *)

Delivering == {"map", "heap", "write"}

Deliveries ==
    [pc : {"idle", "start", "loop", "map", "heap", "write", "offline", "remove"},
     msg : Msgs \cup {0}, to : Clients \cup {0}, index : {0, -1}, todo : SUBSET Clients, cur : Copies \cup {0}]

HeapOK ==
    /\ Heap(heap, Copies)
    /\ heap.index \in [Copies -> -1 .. Cardinality(Copies) - 1]
    /\ heap.pri \in [Copies -> 0 .. MaxTime + Timeout]

Types ==
    /\ now \in 0 .. MaxTime
    /\ flight \in [Msgs -> [Clients -> Copies \cup {0}]]
    /\ copy \in [Copies -> [msg : Msgs \cup {0}, client : Clients \cup {0}]]
    /\ worker \in [Workers -> Deliveries]
    /\ scan \in [pc : {"idle", "peek", "pop"}, t : 0 .. MaxTime, cur : Copies \cup {0}]
    /\ ack \in [Clients -> Copies \cup {0}]
    /\ status \in [Clients -> {"new", "on", "off"}]
    /\ wire \in [Msgs -> [Clients -> Nat]]
    /\ handed \in [Msgs -> 0 .. MaxDeliveries]
    /\ acked \subseteq Msgs \X Clients /\ refused \subseteq Msgs \X Clients
    /\ panicked \in BOOLEAN

\* The copy x is one of m for c.
Is(x, m, c) == copy[x].msg = m /\ copy[x].client = c

\* The copy x was made for a connection that has been there.
Named(x) == copy[x].msg \in Msgs /\ copy[x].client \in Clients /\ status[copy[x].client] # "new"

\* What a delivery works on.
HeldBy(w) ==
    /\ worker[w].pc # "idle" => worker[w].msg \in Msgs /\ (worker[w].index = 0 <=> worker[w].to = 0)
    /\ worker[w].pc \in Delivering =>
          /\ worker[w].cur \in Copies /\ Named(worker[w].cur)
          /\ copy[worker[w].cur].msg = worker[w].msg /\ copy[worker[w].cur].client \notin worker[w].todo
    /\ worker[w].pc \in {"idle", "start", "loop", "offline"} => worker[w].cur = 0
    /\ worker[w].pc = "remove" => worker[w].cur \in Copies
    /\ worker[w].pc = "offline" => worker[w].to \in Clients /\ status[worker[w].to] = "off"
    /\ worker[w].to # 0 => status[worker[w].to] # "new"
    /\ \A c \in worker[w].todo: status[c] # "new"

Held == \A w \in Workers: HeldBy(w)

\* Deliveries work on different copies, which enter the heap later than the map.
Apart ==
    /\ \A w, v \in Workers:
          w # v /\ worker[w].pc \in Delivering /\ worker[v].pc \in Delivering => worker[w].cur # worker[v].cur
    /\ \A w \in Workers: worker[w].pc \in {"map", "heap"} =>
          /\ worker[w].cur \notin Queued(heap) /\ worker[w].cur # scan.cur
          /\ heap.index[worker[w].cur] = worker[w].index

\* The scan has a copy that it shifted out of the heap.
Scanned ==
    /\ scan.pc = "pop" => /\ scan.cur \in Copies /\ Named(scan.cur)
                          /\ scan.cur \notin Queued(heap) /\ heap.index[scan.cur] = -1
    /\ scan.pc # "pop" => scan.cur = 0

Entered ==
    /\ \A x \in Queued(heap): Named(x)
    /\ \A m \in Msgs, c \in Clients: flight[m][c] # 0 => Is(flight[m][c], m, c)
    /\ \A m \in Msgs, c \in Clients: wire[m][c] > 0 => status[c] = "on"

Writes(w, m, c) == worker[w].pc \in {"heap", "write"} /\ Is(worker[w].cur, m, c)

\* The delivery w of m to c is on its way to the map.
Comes(w, m, c) ==
    /\ worker[w].msg = m
    /\ \/ worker[w].pc = "start" /\ worker[w].to \in {0, c}
       \/ worker[w].pc \in {"loop", "map", "heap", "write"} /\ c \in worker[w].todo
       \/ worker[w].pc = "map" /\ copy[worker[w].cur].client = c

\* NotForgotten, also of packets that are about to be written.
Remembered ==
    \A m \in Msgs, c \in Clients:
        status[c] = "on" /\ (wire[m][c] > 0 \/ \E w \in Workers: Writes(w, m, c))
           => \/ flight[m][c] # 0 \/ \E w \in Workers: Comes(w, m, c)
              \/ <<m, c>> \in acked \/ <<m, c>> \in refused

BaseInv == Types /\ HeapOK /\ Held /\ Apart /\ Scanned /\ Entered /\ Remembered

\* Of the deliveries of m to c, the one that may still enter the map or has
\* found the user offline.
Token(w, m, c) == Comes(w, m, c) \/ (worker[w].pc = "offline" /\ worker[w].msg = m /\ worker[w].to = c)

\* A copy that is to be taken off the heap is there or has been marked, and is
\* in flight no more.
Marked ==
    /\ \A w \in Workers: worker[w].pc # "remove"
    /\ \A d \in Clients: ack[d] # 0 =>
          /\ heap.index[ack[d]] = -1 \/ ack[d] \in Queued(heap)
          /\ \A m \in Msgs, c \in Clients: flight[m][c] # ack[d]
          /\ \A w \in Workers: worker[w].pc = "map" => worker[w].cur # ack[d]

\* A message for a connection is in one place: a delivery, the map, or done.
Single ==
    \A m \in Msgs, c \in Clients:
        /\ \A w, v \in Workers: Token(w, m, c) /\ Token(v, m, c) => w = v
        /\ \A w \in Workers: Token(w, m, c) => flight[m][c] = 0 /\ <<m, c>> \notin acked
        /\ <<m, c>> \in acked => flight[m][c] = 0

\* The delivery w brings the first copy of m for c, which is not in the heap yet.
Opening(w, m, c) ==
    worker[w].to = 0 /\ (Comes(w, m, c) \/ (worker[w].pc = "heap" /\ Is(worker[w].cur, m, c)))

\* Nothing else is known of m and c.
Clear(w, m, c) ==
    /\ wire[m][c] = 0
    /\ \A v \in Workers: v # w => ~Writes(v, m, c)
    /\ \A x \in Queued(heap): ~Is(x, m, c)
    /\ scan.pc = "pop" => ~Is(scan.cur, m, c)
    /\ worker[w].pc = "heap" /\ Is(worker[w].cur, m, c) => flight[m][c] = worker[w].cur

First == \A w \in Workers, m \in Msgs, c \in Clients: Opening(w, m, c) => Clear(w, m, c)

\* Nothing is known of a message that was not handed over.
Unhanded ==
    \A m \in Msgs: handed[m] = 0 =>
        /\ \A w \in Workers: worker[w].pc # "idle" => worker[w].msg # m
        /\ \A c \in Clients: wire[m][c] = 0 /\ flight[m][c] = 0 /\ <<m, c>> \notin acked
        /\ \A x \in Queued(heap): copy[x].msg # m
        /\ scan.pc = "pop" => copy[scan.cur].msg # m

\* What is in the map has its deadline in the heap, or is about to get it, or
\* has just been shifted.
Traced ==
    \A m \in Msgs, c \in Clients:
        LET x == flight[m][c]
        IN  x # 0 => \/ x \in Queued(heap)
                     \/ \E w \in Workers: worker[w].pc = "heap" /\ worker[w].cur = x
                     \/ scan.pc = "pop" /\ scan.cur = x

OnceInv == Marked /\ Traced /\ Single /\ First /\ Unhanded

-----------------------------------------------------------------------------
(* Facts that several steps use *)

LEMMA Constants ==
  /\ 0 \notin Copies /\ 0 \notin Clients /\ 0 \notin Msgs /\ IsFiniteSet(Copies) /\ Copies \subseteq Nat
  /\ Timeout \in Nat /\ MaxTime \in Nat /\ MaxDeliveries \in Nat
  BY RetryAssumption

Stages == {"idle", "start", "loop", "map", "heap", "write", "offline", "remove"}

\* Only the delivery of w changes.
Alone(w) == worker' \in [Workers -> Deliveries] /\ \A v \in Workers: v # w => worker'[v] = worker[v]

\* The delivery of w goes on, begins, or ends.
Goes(w, pc, todo, cur) ==
    /\ Alone(w) /\ worker'[w].pc = pc /\ worker'[w].todo = todo /\ worker'[w].cur = cur
    /\ worker'[w].msg = worker[w].msg /\ worker'[w].to = worker[w].to /\ worker'[w].index = worker[w].index

Starts(w, m, to, index) ==
    /\ Alone(w) /\ worker'[w].pc = "start" /\ worker'[w].todo = {} /\ worker'[w].cur = 0
    /\ worker'[w].msg = m /\ worker'[w].to = to /\ worker'[w].index = index

Ends(w) ==
    /\ Alone(w) /\ worker'[w].pc = "idle" /\ worker'[w].todo = {} /\ worker'[w].cur = 0
    /\ worker'[w].msg = 0 /\ worker'[w].to = 0 /\ worker'[w].index = 0

LEMMA GoesFacts ==
  ASSUME Types, NEW w \in Workers, NEW pc \in Stages, NEW todo \in SUBSET Clients, NEW cur \in Copies \cup {0},
         worker' = [worker EXCEPT ![w] = At(worker[w], pc, todo, cur)]
  PROVE  Goes(w, pc, todo, cur)
  <1> DEFINE r == At(worker[w], pc, todo, cur)
  <1>1. worker \in [Workers -> Deliveries] /\ worker[w] \in Deliveries BY DEF Types
  <1>2. r \in Deliveries BY <1>1 DEF At, Deliveries, Stages
  <1>3. /\ r.pc = pc /\ r.msg = worker[w].msg /\ r.to = worker[w].to /\ r.index = worker[w].index
        /\ r.todo = todo /\ r.cur = cur
    BY DEF At
  <1>4. worker' = [worker EXCEPT ![w] = r] OBVIOUS
  <1> HIDE DEF r
  <1>5. worker' \in [Workers -> Deliveries] /\ worker'[w] = r /\ \A v \in Workers: v # w => worker'[v] = worker[v]
    BY <1>1, <1>2, <1>4
  <1> QED BY <1>3, <1>5 DEF Goes, Alone

LEMMA StartsFacts ==
  ASSUME Types, NEW w \in Workers, NEW m \in Msgs, NEW to \in Clients \cup {0}, NEW index \in {0, -1},
         worker' = [worker EXCEPT ![w] = [pc |-> "start", msg |-> m, to |-> to, index |-> index, todo |-> {}, cur |-> 0]]
  PROVE  Starts(w, m, to, index)
  <1> DEFINE r == [pc |-> "start", msg |-> m, to |-> to, index |-> index, todo |-> {}, cur |-> 0]
  <1>1. worker \in [Workers -> Deliveries] BY DEF Types
  <1>2. r \in Deliveries BY DEF Deliveries
  <1>3. r.pc = "start" /\ r.msg = m /\ r.to = to /\ r.index = index /\ r.todo = {} /\ r.cur = 0 OBVIOUS
  <1>4. worker' = [worker EXCEPT ![w] = r] OBVIOUS
  <1> HIDE DEF r
  <1>5. worker' \in [Workers -> Deliveries] /\ worker'[w] = r /\ \A v \in Workers: v # w => worker'[v] = worker[v]
    BY <1>1, <1>2, <1>4
  <1> QED BY <1>3, <1>5 DEF Starts, Alone

LEMMA EndsFacts ==
  ASSUME Types, NEW w \in Workers, worker' = [worker EXCEPT ![w] = Idle]
  PROVE  Ends(w)
  <1>1. worker \in [Workers -> Deliveries] /\ Idle \in Deliveries BY DEF Types, Idle, Deliveries
  <1>2. Idle.pc = "idle" /\ Idle.msg = 0 /\ Idle.to = 0 /\ Idle.index = 0 /\ Idle.todo = {} /\ Idle.cur = 0 BY DEF Idle
  <1>3. worker' \in [Workers -> Deliveries] /\ worker'[w] = Idle /\ \A v \in Workers: v # w => worker'[v] = worker[v]
    BY <1>1
  <1> QED BY <1>2, <1>3 DEF Ends, Alone

\* A table of messages and connections is changed in one place.
LEMMA CellFacts ==
  ASSUME NEW S, NEW f \in [Msgs -> [Clients -> S]], NEW g, NEW m \in Msgs, NEW c \in Clients, NEW x \in S,
         g = [f EXCEPT ![m][c] = x]
  PROVE  /\ g \in [Msgs -> [Clients -> S]] /\ g[m][c] = x
         /\ \A n \in Msgs, d \in Clients: n # m \/ d # c => g[n][d] = f[n][d]
  OBVIOUS

\* The fields of a delivery, and of the records beside it.
LEMMA FieldTypes ==
  ASSUME Types
  PROVE  /\ \A w \in Workers: /\ worker[w].pc \in {"idle", "start", "loop", "map", "heap", "write", "offline", "remove"}
                              /\ worker[w].msg \in Msgs \cup {0} /\ worker[w].to \in Clients \cup {0}
                              /\ worker[w].index \in {0, -1} /\ worker[w].todo \in SUBSET Clients
                              /\ worker[w].cur \in Copies \cup {0}
         /\ \A x \in Copies: copy[x].msg \in Msgs \cup {0} /\ copy[x].client \in Clients \cup {0}
         /\ \A m \in Msgs, c \in Clients: flight[m][c] \in Copies \cup {0} /\ wire[m][c] \in Nat
         /\ \A c \in Clients: ack[c] \in Copies \cup {0} /\ status[c] \in {"new", "on", "off"}
         /\ scan.pc \in {"idle", "peek", "pop"} /\ scan.t \in 0 .. MaxTime /\ scan.cur \in Copies \cup {0}
  <1>1. ASSUME NEW w \in Workers
        PROVE  /\ worker[w].pc \in {"idle", "start", "loop", "map", "heap", "write", "offline", "remove"}
               /\ worker[w].msg \in Msgs \cup {0} /\ worker[w].to \in Clients \cup {0}
               /\ worker[w].index \in {0, -1} /\ worker[w].todo \in SUBSET Clients
               /\ worker[w].cur \in Copies \cup {0}
    <2>1. worker[w] \in Deliveries BY DEF Types
    <2> QED BY <2>1 DEF Deliveries
  <1>2. \A x \in Copies: copy[x].msg \in Msgs \cup {0} /\ copy[x].client \in Clients \cup {0} BY DEF Types
  <1>3. \A m \in Msgs, c \in Clients: flight[m][c] \in Copies \cup {0} /\ wire[m][c] \in Nat BY DEF Types
  <1>4. \A c \in Clients: ack[c] \in Copies \cup {0} /\ status[c] \in {"new", "on", "off"} BY DEF Types
  <1>5. scan.pc \in {"idle", "peek", "pop"} /\ scan.t \in 0 .. MaxTime /\ scan.cur \in Copies \cup {0} BY DEF Types
  <1> QED BY <1>1, <1>2, <1>3, <1>4, <1>5


LEMMA HeapSame ==
  ASSUME HeapOK, heap' = heap
  PROVE  HeapOK'
  BY DEF HeapOK

LEMMA Slotted ==
  ASSUME HeapOK
  PROVE  /\ Sane(heap, Copies) /\ Len(heap.q) \in Nat /\ Heap(heap, Copies)
         /\ \A x \in Queued(heap): x \in Copies /\ heap.index[x] \in Slots(heap) /\ Slot(heap, heap.index[x]) = x
  <1>1. Heap(heap, Copies) /\ Sane(heap, Copies) /\ heap \in Heaps(Copies) /\ Knows(heap) BY DEF HeapOK, Heap, Sane
  <1>2. ASSUME NEW x \in Queued(heap) PROVE x \in Copies /\ heap.index[x] \in Slots(heap) /\ Slot(heap, heap.index[x]) = x
    <2>1. PICK i \in Slots(heap): x = Slot(heap, i) BY <1>1, HeapFacts
    <2>2. heap.index[x] = i BY <1>1, <2>1 DEF Knows
    <2> QED BY <1>1, <2>1, <2>2, HeapFacts
  <1> QED BY <1>1, <1>2, HeapFacts

\* The index of a copy stays within its bounds.
LEMMA IndexKept ==
  ASSUME HeapOK, Heap(heap', Copies), heap'.pri = heap.pri,
         \A y \in Copies: y \notin Queued(heap') => heap'.index[y] \in {heap.index[y], -1}
  PROVE  HeapOK'
  <1>1. IsFiniteSet(Copies) BY Constants
  <1>2. Cardinality(Copies) \in Nat BY <1>1, FS_CardinalityType
  <1>3. ASSUME NEW y \in Copies, y \notin Queued(heap') PROVE heap'.index[y] \in -1 .. Cardinality(Copies) - 1
    <2>1. heap.index[y] \in -1 .. Cardinality(Copies) - 1 BY DEF HeapOK
    <2> QED BY <1>2, <1>3, <2>1
  <1>4. heap'.index \in [Copies -> -1 .. Cardinality(Copies) - 1] BY <1>1, <1>3, IndexRange DEF Heap
  <1> QED BY <1>4 DEF HeapOK

LEMMA Pushed ==
  ASSUME HeapOK, NEW x \in Copies, x \notin Queued(heap), heap' = Push(heap, x)
  PROVE  /\ HeapOK' /\ Queued(heap') = Queued(heap) \cup {x}
         /\ \A y \in Copies: y # x /\ y \notin Queued(heap) => heap'.index[y] = heap.index[y]
  <1>1. Heap(heap, Copies) BY DEF HeapOK
  <1>2. /\ Heap(heap', Copies) /\ Queued(heap') = Queued(heap) \cup {x} /\ heap'.pri = heap.pri
        /\ \A y \in Copies: y # x /\ y \notin Queued(heap) => heap'.index[y] = heap.index[y]
    BY <1>1, PushFacts
  <1>3. HeapOK' BY <1>2, IndexKept
  <1> QED BY <1>2, <1>3

\* Of what is queued only x is taken out.
Without(x) ==
    /\ Queued(heap') = Queued(heap) \ {x} /\ heap'.index[x] = -1
    /\ \A y \in Copies: y \notin Queued(heap) => heap'.index[y] = heap.index[y]

LEMMA Taken ==
  ASSUME HeapOK, NEW x \in Copies, Heap(heap', Copies), TakenOut(heap', heap, x, Copies)
  PROVE  HeapOK' /\ (x \in Queued(heap) => Without(x))
  <1>1. /\ Queued(heap') = Queued(heap) \ {x} /\ heap'.index[x] = -1 /\ heap'.pri = heap.pri
        /\ \A y \in Copies \ Queued(heap): heap'.index[y] = heap.index[y]
    BY DEF TakenOut
  <1>2. \A y \in Copies: y \notin Queued(heap') => heap'.index[y] \in {heap.index[y], -1} BY <1>1
  <1> QED BY <1>1, <1>2, IndexKept DEF Without

LEMMA Popped ==
  ASSUME HeapOK, NEW t \in Nat, Expired(heap, t), heap' = Pop(heap, 25)
  PROVE  LET x == Slot(heap, 0) IN HeapOK' /\ x \in Copies /\ x \in Queued(heap) /\ Without(x)
  <1>1. Heap(heap, Copies) /\ heap \in Heaps(Copies) /\ Len(heap.q) \in Nat BY Slotted DEF Sane
  <1>2. 0 \in Slots(heap) /\ heap.q # <<>> BY <1>1 DEF Expired, Slots
  <1> DEFINE x == Slot(heap, 0)
  <1>3. x \in Copies /\ x \in Queued(heap) BY <1>1, <1>2, HeapFacts
  <1>4. Heap(heap', Copies) /\ TakenOut(heap', heap, x, Copies) BY <1>1, <1>2, PopFacts
  <1> HIDE DEF x
  <1>5. HeapOK' /\ Without(x) BY <1>3, <1>4, Taken
  <1> QED BY <1>3, <1>5 DEF x

\* removeFromInFlightPQ takes out some item or none; it is x itself if x is
\* queued or marked.
LEMMA RemovedPQ ==
  ASSUME HeapOK, NEW x \in Copies, RemoveFromInFlightPQ(x)
  PROVE  /\ HeapOK' /\ panicked' \in BOOLEAN /\ Queued(heap') \subseteq Queued(heap)
         /\ \A y \in Copies: y \notin Queued(heap) => heap'.index[y] = heap.index[y]
         /\ heap.index[x] = -1 \/ x \in Queued(heap) => Without(x) /\ ~panicked'
  <1> DEFINE i == heap.index[x]
             n == Len(heap.q)
  <1>1. /\ Sane(heap, Copies) /\ n \in Nat /\ Heap(heap, Copies) /\ heap \in Heaps(Copies)
        /\ \A y \in Queued(heap): y \in Copies /\ heap.index[y] \in Slots(heap) /\ Slot(heap, heap.index[y]) = y
    BY Slotted DEF Sane
  <1>2. i \in Int /\ i >= -1
    <2>1. Cardinality(Copies) \in Nat BY Constants, FS_CardinalityType
    <2>2. i \in -1 .. Cardinality(Copies) - 1 BY DEF HeapOK
    <2> QED BY <2>1, <2>2
  <1>3. panicked' = (i >= n) /\ heap' = IF i = -1 \/ i >= n THEN heap ELSE Remove(heap, i) BY DEF RemoveFromInFlightPQ
  <1> HIDE DEF i, n
  <1>4. panicked' \in BOOLEAN BY <1>1, <1>2, <1>3
  <1>5. CASE i = -1
    <2>a. heap' = heap /\ ~(i >= n) BY <1>1, <1>3, <1>5
    <2>1. heap' = heap /\ ~panicked' BY <1>3, <2>a, Zenon
    <2>2. HeapOK' BY <2>1, HeapSame
    <2>3. x \notin Queued(heap)
      <3>1. i \notin Slots(heap) BY <1>5 DEF Slots
      <3> QED BY <1>1, <3>1 DEF i
    <2>4. heap'.index[x] = -1 BY <1>5, <2>1 DEF i
    <2>5. Queued(heap') = Queued(heap) BY <2>1
    <2>6. Queued(heap') = Queued(heap) \ {x} BY <2>3, <2>5
    <2>7. Without(x) BY <2>1, <2>4, <2>6 DEF Without
    <2> QED BY <1>4, <2>1, <2>2, <2>5, <2>7
  <1>6. CASE i # -1 /\ i >= n
    <2>1. heap' = heap BY <1>3, <1>6
    <2>2. HeapOK' BY <2>1, HeapSame
    <2>3. x \notin Queued(heap)
      <3>1. i \notin Slots(heap) BY <1>1, <1>2, <1>6 DEF Slots, n
      <3> QED BY <1>1, <3>1 DEF i
    <2>4. heap.index[x] # -1 BY <1>6 DEF i
    <2> QED BY <1>4, <2>1, <2>2, <2>3, <2>4
  <1>7. CASE i # -1 /\ ~(i >= n)
    <2>1. heap' = Remove(heap, i) BY <1>3, <1>7
    <2>2. i \in Slots(heap) /\ i \in 0 .. n - 1 BY <1>1, <1>2, <1>7 DEF Slots, n
    <2> DEFINE y == Slot(heap, i)
    <2>3. Heap(heap', Copies) /\ TakenOut(heap', heap, y, Copies) BY <1>1, <2>1, <2>2, RemoveFacts
    <2>4. y \in Copies /\ y \in Queued(heap) BY <1>1, <2>2, HeapFacts
    <2>5. x \in Queued(heap) => x = y BY <1>1 DEF i
    <2>6. ~panicked' BY <1>1, <1>2, <1>3, <1>7
    <2>7. heap.index[x] # -1 BY <1>7 DEF i
    <2> HIDE DEF y
    <2>8. HeapOK' /\ Without(y) BY <2>3, <2>4, Taken
    <2>9. Queued(heap') \subseteq Queued(heap) /\ \A z \in Copies: z \notin Queued(heap) => heap'.index[z] = heap.index[z]
      BY <2>8 DEF Without
    <2> QED BY <1>4, <2>5, <2>6, <2>7, <2>8, <2>9
  <1> QED BY <1>5, <1>6, <1>7

-----------------------------------------------------------------------------
(* BaseInv: the steps of a delivery *)

LEMMA FindEffect ==
  ASSUME BaseInv, NEW w \in Workers, FindClients(w)
  PROVE  /\ UNCHANGED <<now, heap, flight, copy, scan, ack, status, wire, handed, acked, refused, panicked>>
         /\ worker[w].pc = "start" /\ worker[w].to \in Clients \cup {0} /\ worker[w].cur = 0 /\ worker[w].msg \in Msgs
         /\ \/ Online # {} /\ Goes(w, "loop", IF worker[w].to = 0 THEN Online ELSE Online \cap {worker[w].to}, 0)
            \/ Online = {} /\ worker[w].to # 0 /\ Goes(w, "offline", {}, 0)
            \/ Online = {} /\ worker[w].to = 0 /\ Ends(w)
  <1>0. Types /\ Held BY DEF BaseInv
  <1>f. UNCHANGED <<now, heap, flight, copy, scan, ack, status, wire, handed, acked, refused, panicked>> /\ worker[w].pc = "start"
    BY DEF FindClients
  <1>t. worker[w].to \in Clients \cup {0} /\ worker[w].cur = 0 /\ worker[w].msg \in Msgs BY <1>0, <1>f, FieldTypes DEF Held, HeldBy
  <1>o. Online \in SUBSET Clients BY DEF Online
  <1> DEFINE todo == IF worker[w].to = 0 THEN Online ELSE Online \cap {worker[w].to}
  <1>s. "loop" \in Stages /\ "offline" \in Stages BY DEF Stages
  <1>1. CASE Online # {}
    <2>1. worker' = [worker EXCEPT ![w] = At(worker[w], "loop", todo, 0)] BY <1>1 DEF FindClients
    <2>2. todo \in SUBSET Clients BY <1>o
    <2> HIDE DEF todo
    <2>3. Goes(w, "loop", todo, 0) BY <1>0, <1>s, <2>1, <2>2, GoesFacts
    <2> QED BY <1>f, <1>t, <1>1, <2>3 DEF todo
  <1>2. CASE Online = {} /\ worker[w].to # 0
    <2>1. worker' = [worker EXCEPT ![w] = At(worker[w], "offline", {}, 0)] BY <1>2 DEF FindClients
    <2> QED BY <1>0, <1>f, <1>t, <1>s, <1>2, <2>1, GoesFacts
  <1>3. CASE Online = {} /\ worker[w].to = 0
    <2>1. worker' = [worker EXCEPT ![w] = Idle] BY <1>3 DEF FindClients
    <2> QED BY <1>0, <1>f, <1>t, <1>3, <2>1, EndsFacts
  <1> QED BY <1>1, <1>2, <1>3

LEMMA FindBase ==
  ASSUME BaseInv, NEW w \in Workers, FindClients(w)
  PROVE  BaseInv'
  <1>0. Types /\ HeapOK /\ Held /\ Apart /\ Scanned /\ Entered /\ Remembered BY DEF BaseInv
  <1> DEFINE todo == IF worker[w].to = 0 THEN Online ELSE Online \cap {worker[w].to}
  <1>f. UNCHANGED <<now, heap, flight, copy, scan, ack, status, wire, handed, acked, refused, panicked>> BY FindEffect
  <1>t. worker[w].pc = "start" /\ worker[w].to \in Clients \cup {0} /\ worker[w].cur = 0 /\ worker[w].msg \in Msgs BY FindEffect
  <1>o. Online \in SUBSET Clients BY DEF Online
  <1>1. \/ Online # {} /\ Goes(w, "loop", todo, 0)
        \/ Online = {} /\ worker[w].to # 0 /\ Goes(w, "offline", {}, 0)
        \/ Online = {} /\ worker[w].to = 0 /\ Ends(w)
    BY FindEffect
  <1>2. Alone(w) BY <1>1 DEF Goes, Ends
  <1>3. Types' BY <1>0, <1>f, <1>2 DEF Types, Alone
  <1>4. HeapOK' BY <1>0, <1>f, HeapSame
  <1>5. Held'
    <2> SUFFICES ASSUME NEW v \in Workers PROVE HeldBy(v)' BY DEF Held
    <2>1. CASE v # w BY <1>0, <1>f, <1>2, <2>1 DEF Held, HeldBy, Named, Alone
    <2>2. CASE v = w
      BY <1>0, <1>f, <1>t, <1>o, <1>1, <2>2, FieldTypes DEF Held, HeldBy, Named, Online, Delivering, Goes, Ends
    <2> QED BY <2>1, <2>2
  <1>6. Apart' BY <1>0, <1>f, <1>1, <1>2 DEF Apart, Delivering, Goes, Ends, Alone
  <1>7. Scanned' BY <1>0, <1>f DEF Scanned, Named
  <1>8. Entered' BY <1>0, <1>f DEF Entered, Named, Is
  <1>9. Remembered'
    BY <1>0, <1>f, <1>t, <1>1, <1>2 DEF Remembered, Writes, Comes, Is, Online, Goes, Ends, Alone
  <1> QED BY <1>3, <1>4, <1>5, <1>6, <1>7, <1>8, <1>9 DEF BaseInv

\* The delivery goes on to the next connection or ends.
LEMMA LoopEffect ==
  ASSUME BaseInv, NEW w \in Workers, Delivered(w) \/ EncryptFails(w)
  PROVE  /\ UNCHANGED <<now, heap, flight, copy, scan, ack, status, wire, handed, acked, refused, panicked>>
         /\ \/ worker[w].pc = "loop" /\ worker[w].todo = {} /\ Ends(w)
            \/ worker[w].pc = "write" /\ Goes(w, "loop", worker[w].todo, 0)
  <1>0. Types BY DEF BaseInv
  <1>1. CASE Delivered(w) BY <1>0, <1>1, EndsFacts DEF Delivered
  <1>2. CASE EncryptFails(w)
    <2>1. /\ UNCHANGED <<now, heap, flight, copy, scan, ack, status, wire, handed, acked, refused, panicked>>
          /\ worker' = [worker EXCEPT ![w] = At(worker[w], "loop", worker[w].todo, 0)] /\ worker[w].pc = "write"
      BY <1>2 DEF EncryptFails
    <2>2. "loop" \in Stages /\ worker[w].todo \in SUBSET Clients BY <1>0, FieldTypes DEF Stages
    <2> QED BY <1>0, <2>1, <2>2, GoesFacts
  <1> QED BY <1>1, <1>2

LEMMA LoopBase ==
  ASSUME BaseInv, NEW w \in Workers, Delivered(w) \/ EncryptFails(w)
  PROVE  BaseInv'
  <1>0. Types /\ HeapOK /\ Held /\ Apart /\ Scanned /\ Entered /\ Remembered BY DEF BaseInv
  <1>f. UNCHANGED <<now, heap, flight, copy, scan, ack, status, wire, handed, acked, refused, panicked>> BY LoopEffect
  <1>1. \/ worker[w].pc = "loop" /\ worker[w].todo = {} /\ Ends(w)
        \/ worker[w].pc = "write" /\ Goes(w, "loop", worker[w].todo, 0)
    BY LoopEffect
  <1>2. Alone(w) BY <1>1 DEF Goes, Ends
  <1>3. Types' BY <1>0, <1>f, <1>2 DEF Types, Alone
  <1>4. HeapOK' BY <1>0, <1>f, HeapSame
  <1>5. Held'
    <2> SUFFICES ASSUME NEW v \in Workers PROVE HeldBy(v)' BY DEF Held
    <2>1. CASE v # w BY <1>0, <1>f, <1>2, <2>1 DEF Held, HeldBy, Named, Alone
    <2>2. CASE v = w BY <1>0, <1>f, <1>1, <2>2, FieldTypes DEF Held, HeldBy, Named, Delivering, Goes, Ends
    <2> QED BY <2>1, <2>2
  <1>6. Apart' BY <1>0, <1>f, <1>1, <1>2 DEF Apart, Delivering, Goes, Ends, Alone
  <1>7. Scanned' BY <1>0, <1>f DEF Scanned, Named
  <1>8. Entered' BY <1>0, <1>f DEF Entered, Named, Is
  <1>9. Remembered' BY <1>0, <1>f, <1>1, <1>2 DEF Remembered, Writes, Comes, Is, Goes, Ends, Alone
  <1> QED BY <1>3, <1>4, <1>5, <1>6, <1>7, <1>8, <1>9 DEF BaseInv

LEMMA WriteEffect ==
  ASSUME BaseInv, NEW w \in Workers, WritePacket(w)
  PROVE  /\ UNCHANGED <<now, heap, flight, copy, scan, ack, status, handed, acked, refused, panicked>>
         /\ worker[w].pc = "write" /\ Goes(w, "loop", worker[w].todo, 0) /\ wire' \in [Msgs -> [Clients -> Nat]]
         /\ \E m \in Msgs, c \in Clients:
               /\ Writes(w, m, c) /\ m = worker[w].msg /\ c \notin worker[w].todo
               /\ wire'[m][c] = IF status[c] = "on" THEN wire[m][c] + 1 ELSE wire[m][c]
               /\ \A n \in Msgs, d \in Clients: n # m \/ d # c => wire'[n][d] = wire[n][d]
  <1>0. Types /\ Held BY DEF BaseInv
  <1>f. UNCHANGED <<now, heap, flight, copy, scan, ack, status, handed, acked, refused, panicked>> /\ worker[w].pc = "write"
    BY DEF WritePacket
  <1>m. PICK m \in Msgs, c \in Clients: m = copy[worker[w].cur].msg /\ c = copy[worker[w].cur].client
    BY <1>0, <1>f DEF Held, HeldBy, Delivering, Named
  <1>1. Goes(w, "loop", worker[w].todo, 0)
    <2>1. worker' = [worker EXCEPT ![w] = At(worker[w], "loop", worker[w].todo, 0)] BY DEF WritePacket
    <2>2. "loop" \in Stages /\ worker[w].todo \in SUBSET Clients BY <1>0, FieldTypes DEF Stages
    <2> QED BY <1>0, <2>1, <2>2, GoesFacts
  <1>w. /\ wire' \in [Msgs -> [Clients -> Nat]] /\ wire'[m][c] = IF status[c] = "on" THEN wire[m][c] + 1 ELSE wire[m][c]
        /\ \A n \in Msgs, d \in Clients: n # m \/ d # c => wire'[n][d] = wire[n][d]
    <2> DEFINE k == IF c \in Online THEN wire[m][c] + 1 ELSE wire[m][c]
    <2>1. wire' = [wire EXCEPT ![m][c] = k] BY <1>m DEF WritePacket
    <2>2. wire \in [Msgs -> [Clients -> Nat]] BY <1>0 DEF Types
    <2>3. k \in Nat BY <2>2
    <2>4. k = IF status[c] = "on" THEN wire[m][c] + 1 ELSE wire[m][c] BY DEF Online
    <2> HIDE DEF k
    <2> QED BY <2>1, <2>2, <2>3, <2>4, CellFacts
  <1>r. Writes(w, m, c) /\ m = worker[w].msg /\ c \notin worker[w].todo
    BY <1>0, <1>f, <1>m DEF Writes, Is, Held, HeldBy, Delivering
  <1> QED BY <1>f, <1>1, <1>w, <1>r

LEMMA WriteBase ==
  ASSUME BaseInv, NEW w \in Workers, WritePacket(w)
  PROVE  BaseInv'
  <1>0. Types /\ HeapOK /\ Held /\ Apart /\ Scanned /\ Entered /\ Remembered BY DEF BaseInv
  <1>f. UNCHANGED <<now, heap, flight, copy, scan, ack, status, handed, acked, refused, panicked>> /\ worker[w].pc = "write"
    BY WriteEffect
  <1>1. Goes(w, "loop", worker[w].todo, 0) /\ wire' \in [Msgs -> [Clients -> Nat]] BY WriteEffect
  <1>w. PICK m \in Msgs, c \in Clients:
           /\ Writes(w, m, c)
           /\ wire'[m][c] = IF status[c] = "on" THEN wire[m][c] + 1 ELSE wire[m][c]
           /\ \A n \in Msgs, d \in Clients: n # m \/ d # c => wire'[n][d] = wire[n][d]
    BY WriteEffect
  <1>2. Alone(w) BY <1>1 DEF Goes
  <1>3. Types' BY <1>0, <1>f, <1>1, <1>2 DEF Types, Alone
  <1>4. HeapOK' BY <1>0, <1>f, HeapSame
  <1>5. Held'
    <2> SUFFICES ASSUME NEW v \in Workers PROVE HeldBy(v)' BY DEF Held
    <2>1. CASE v # w BY <1>0, <1>f, <1>2, <2>1 DEF Held, HeldBy, Named, Alone
    <2>2. CASE v = w BY <1>0, <1>f, <1>1, <2>2, FieldTypes DEF Held, HeldBy, Named, Delivering, Goes, Ends
    <2> QED BY <2>1, <2>2
  <1>6. Apart' BY <1>0, <1>f, <1>1, <1>2 DEF Apart, Delivering, Goes, Ends, Alone
  <1>7. Scanned' BY <1>0, <1>f DEF Scanned, Named
  <1>8. Entered' BY <1>0, <1>f, <1>w, FieldTypes DEF Entered, Named, Is
  <1>9. Remembered'
    <2>1. ASSUME NEW n \in Msgs, NEW d \in Clients, status'[d] = "on",
                 wire'[n][d] > 0 \/ \E v \in Workers: Writes(v, n, d)'
          PROVE  flight'[n][d] # 0 \/ (\E v \in Workers: Comes(v, n, d)') \/ <<n, d>> \in acked' \/ <<n, d>> \in refused'
      <3>1. wire[n][d] > 0 \/ \E v \in Workers: Writes(v, n, d)
        BY <1>0, <1>f, <1>1, <1>2, <1>w, <2>1 DEF Writes, Is, Goes, Alone
      <3>2. flight[n][d] # 0 \/ (\E v \in Workers: Comes(v, n, d)) \/ <<n, d>> \in acked \/ <<n, d>> \in refused
        BY <1>0, <1>f, <2>1, <3>1 DEF Remembered
      <3>3. ASSUME NEW v \in Workers, Comes(v, n, d) PROVE Comes(v, n, d)' BY <1>f, <1>1, <1>2, <3>3 DEF Comes, Goes, Alone
      <3> QED BY <1>f, <3>2, <3>3
    <2> QED BY <2>1 DEF Remembered
  <1> QED BY <1>3, <1>4, <1>5, <1>6, <1>7, <1>8, <1>9 DEF BaseInv

LEMMA MapEffect ==
  ASSUME BaseInv, NEW w \in Workers, PushInFlightMessage(w)
  PROVE  /\ UNCHANGED <<now, heap, copy, scan, ack, status, wire, handed, acked, refused, panicked>> /\ worker[w].pc = "map"
         /\ flight' \in [Msgs -> [Clients -> Copies \cup {0}]]
         /\ \E x \in Copies, m \in Msgs, c \in Clients:
               /\ x = worker[w].cur /\ Is(x, m, c) /\ m = worker[w].msg /\ c \notin worker[w].todo
               /\ Goes(w, "heap", worker[w].todo, x)
               /\ flight'[m][c] = IF flight[m][c] = 0 THEN x ELSE flight[m][c]
               /\ \A n \in Msgs, d \in Clients: n # m \/ d # c => flight'[n][d] = flight[n][d]
  <1>0. Types /\ Held BY DEF BaseInv
  <1>f. UNCHANGED <<now, heap, copy, scan, ack, status, wire, handed, acked, refused, panicked>> /\ worker[w].pc = "map"
    BY DEF PushInFlightMessage
  <1>m. PICK x \in Copies, m \in Msgs, c \in Clients: x = worker[w].cur /\ m = copy[x].msg /\ c = copy[x].client
    BY <1>0, <1>f DEF Held, HeldBy, Delivering, Named
  <1>1. Goes(w, "heap", worker[w].todo, x)
    <2>1. worker' = [worker EXCEPT ![w] = At(worker[w], "heap", worker[w].todo, x)] BY <1>m DEF PushInFlightMessage
    <2>2. "heap" \in Stages /\ worker[w].todo \in SUBSET Clients BY <1>0, FieldTypes DEF Stages
    <2> QED BY <1>0, <2>1, <2>2, GoesFacts
  <1>w. /\ flight' \in [Msgs -> [Clients -> Copies \cup {0}]]
        /\ flight'[m][c] = IF flight[m][c] = 0 THEN x ELSE flight[m][c]
        /\ \A n \in Msgs, d \in Clients: n # m \/ d # c => flight'[n][d] = flight[n][d]
    <2> DEFINE k == IF flight[m][c] = 0 THEN x ELSE flight[m][c]
    <2>1. flight' = [flight EXCEPT ![m][c] = k] BY <1>m DEF PushInFlightMessage
    <2>2. flight \in [Msgs -> [Clients -> Copies \cup {0}]] BY <1>0 DEF Types
    <2>3. k \in Copies \cup {0} BY <2>2
    <2> HIDE DEF k
    <2> QED BY <2>1, <2>2, <2>3, CellFacts DEF k
  <1>i. Is(x, m, c) /\ m = worker[w].msg /\ c \notin worker[w].todo BY <1>0, <1>f, <1>m DEF Is, Held, HeldBy, Delivering
  <1> QED BY <1>f, <1>m, <1>1, <1>w, <1>i

LEMMA MapBase ==
  ASSUME BaseInv, NEW w \in Workers, PushInFlightMessage(w)
  PROVE  BaseInv'
  <1>0. Types /\ HeapOK /\ Held /\ Apart /\ Scanned /\ Entered /\ Remembered BY DEF BaseInv
  <1>f. UNCHANGED <<now, heap, copy, scan, ack, status, wire, handed, acked, refused, panicked>> /\ worker[w].pc = "map"
    BY MapEffect
  <1>y. flight' \in [Msgs -> [Clients -> Copies \cup {0}]] BY MapEffect
  <1>w. PICK x \in Copies, m \in Msgs, c \in Clients:
           /\ x = worker[w].cur /\ Is(x, m, c) /\ Goes(w, "heap", worker[w].todo, x)
           /\ flight'[m][c] = IF flight[m][c] = 0 THEN x ELSE flight[m][c]
           /\ \A n \in Msgs, d \in Clients: n # m \/ d # c => flight'[n][d] = flight[n][d]
    BY MapEffect
  <1>i. Is(x, m, c) BY <1>w
  <1>x. x = worker[w].cur BY <1>w
  <1>1. Goes(w, "heap", worker[w].todo, x) BY <1>w
  <1>2. Alone(w) BY <1>1 DEF Goes
  <1>t. x # 0 BY Constants
  <1>3. Types' BY <1>0, <1>f, <1>2, <1>y DEF Types, Alone
  <1>4. HeapOK' BY <1>0, <1>f, HeapSame
  <1>5. Held'
    <2> SUFFICES ASSUME NEW v \in Workers PROVE HeldBy(v)' BY DEF Held
    <2>1. CASE v # w BY <1>0, <1>f, <1>2, <2>1 DEF Held, HeldBy, Named, Alone
    <2>2. CASE v = w BY <1>0, <1>f, <1>1, <1>x, <2>2, FieldTypes DEF Held, HeldBy, Named, Delivering, Goes
    <2> QED BY <2>1, <2>2
  <1>6. Apart' BY <1>0, <1>f, <1>1, <1>2, <1>x DEF Apart, Delivering, Goes, Alone
  <1>7. Scanned' BY <1>0, <1>f DEF Scanned, Named
  <1>8. Entered' BY <1>0, <1>f, <1>t, <1>w, <1>i DEF Entered, Named, Is
  <1>9. Remembered'
    <2>1. ASSUME NEW n \in Msgs, NEW d \in Clients, status'[d] = "on",
                 wire'[n][d] > 0 \/ \E v \in Workers: Writes(v, n, d)'
          PROVE  flight'[n][d] # 0 \/ (\E v \in Workers: Comes(v, n, d)') \/ <<n, d>> \in acked' \/ <<n, d>> \in refused'
      <3>1. CASE n = m /\ d = c BY <1>t, <1>w, <3>1
      <3>2. CASE ~(n = m /\ d = c)
        <4>1. wire[n][d] > 0 \/ \E v \in Workers: Writes(v, n, d)
          BY <1>f, <1>1, <1>2, <1>i, <1>x, <2>1, <3>2 DEF Writes, Is, Goes, Alone
        <4>2. flight[n][d] # 0 \/ (\E v \in Workers: Comes(v, n, d)) \/ <<n, d>> \in acked \/ <<n, d>> \in refused
          BY <1>0, <1>f, <2>1, <4>1 DEF Remembered
        <4>3. ASSUME NEW v \in Workers, Comes(v, n, d) PROVE Comes(v, n, d)'
          BY <1>0, <1>f, <1>1, <1>2, <1>i, <1>x, <3>2, <4>3 DEF Comes, Goes, Alone, Is, Held, HeldBy, Delivering
        <4> QED BY <1>f, <1>w, <3>2, <4>2, <4>3
      <3> QED BY <3>1, <3>2
    <2> QED BY <2>1 DEF Remembered
  <1> QED BY <1>3, <1>4, <1>5, <1>6, <1>7, <1>8, <1>9 DEF BaseInv

LEMMA AddEffect ==
  ASSUME BaseInv, NEW w \in Workers, AddToInFlightPQ(w)
  PROVE  /\ UNCHANGED <<now, flight, copy, scan, ack, status, wire, handed, acked, refused, panicked>> /\ worker[w].pc = "heap"
         /\ \E x \in Copies:
               /\ x = worker[w].cur /\ Named(x) /\ x \notin Queued(heap) /\ x # scan.cur
               /\ Goes(w, "write", worker[w].todo, x) /\ HeapOK' /\ Queued(heap') = Queued(heap) \cup {x}
               /\ \A y \in Copies: y # x /\ y \notin Queued(heap) => heap'.index[y] = heap.index[y]
  <1>0. Types /\ HeapOK /\ Held /\ Apart BY DEF BaseInv
  <1>f. UNCHANGED <<now, flight, copy, scan, ack, status, wire, handed, acked, refused, panicked>> /\ worker[w].pc = "heap"
    BY DEF AddToInFlightPQ
  <1>x. PICK x \in Copies: x = worker[w].cur /\ Named(x) /\ x \notin Queued(heap) /\ x # scan.cur
    BY <1>0, <1>f DEF Held, HeldBy, Delivering, Apart
  <1>1. Goes(w, "write", worker[w].todo, x)
    <2>1. worker' = [worker EXCEPT ![w] = At(worker[w], "write", worker[w].todo, x)] BY <1>x DEF AddToInFlightPQ
    <2>2. "write" \in Stages /\ worker[w].todo \in SUBSET Clients BY <1>0, FieldTypes DEF Stages
    <2> QED BY <1>0, <2>1, <2>2, GoesFacts
  <1>h. /\ HeapOK' /\ Queued(heap') = Queued(heap) \cup {x}
        /\ \A y \in Copies: y # x /\ y \notin Queued(heap) => heap'.index[y] = heap.index[y]
    <2>1. heap' = Push(heap, x) BY <1>x DEF AddToInFlightPQ
    <2> QED BY <1>0, <1>x, <2>1, Pushed
  <1> QED BY <1>f, <1>x, <1>1, <1>h

LEMMA AddBase ==
  ASSUME BaseInv, NEW w \in Workers, AddToInFlightPQ(w)
  PROVE  BaseInv'
  <1>0. Types /\ HeapOK /\ Held /\ Apart /\ Scanned /\ Entered /\ Remembered BY DEF BaseInv
  <1>f. UNCHANGED <<now, flight, copy, scan, ack, status, wire, handed, acked, refused, panicked>> /\ worker[w].pc = "heap"
    BY AddEffect
  <1>t. PICK x \in Copies:
           /\ x = worker[w].cur /\ Named(x) /\ x \notin Queued(heap) /\ x # scan.cur
           /\ Goes(w, "write", worker[w].todo, x) /\ HeapOK' /\ Queued(heap') = Queued(heap) \cup {x}
           /\ \A y \in Copies: y # x /\ y \notin Queued(heap) => heap'.index[y] = heap.index[y]
    BY AddEffect
  <1>x. x = worker[w].cur BY <1>t
  <1>1. Goes(w, "write", worker[w].todo, x) BY <1>t
  <1>2. Alone(w) BY <1>1 DEF Goes
  <1>h. /\ HeapOK' /\ Queued(heap') = Queued(heap) \cup {x}
        /\ \A y \in Copies: y # x /\ y \notin Queued(heap) => heap'.index[y] = heap.index[y]
    BY <1>t
  <1>3. Types' BY <1>0, <1>f, <1>2 DEF Types, Alone
  <1>5. Held'
    <2> SUFFICES ASSUME NEW v \in Workers PROVE HeldBy(v)' BY DEF Held
    <2>1. CASE v # w BY <1>0, <1>f, <1>2, <2>1 DEF Held, HeldBy, Named, Alone
    <2>2. CASE v = w BY <1>0, <1>f, <1>1, <1>x, <2>2, FieldTypes DEF Held, HeldBy, Named, Delivering, Goes
    <2> QED BY <2>1, <2>2
  <1>6. Apart'
    <2>1. \A v \in Workers: v # w /\ worker[v].pc \in {"map", "heap"} => worker[v].cur # x /\ worker[v].cur \in Copies
      BY <1>0, <1>f, <1>x DEF Apart, Held, HeldBy, Delivering
    <2> QED BY <1>0, <1>f, <1>1, <1>2, <1>h, <1>x, <2>1 DEF Apart, Delivering, Goes, Alone
  <1>7. Scanned' BY <1>0, <1>f, <1>t, <1>h DEF Scanned, Named
  <1>8. Entered' BY <1>0, <1>f, <1>t, <1>h DEF Entered, Named, Is
  <1>9. Remembered' BY <1>0, <1>f, <1>1, <1>2, <1>x DEF Remembered, Writes, Comes, Is, Goes, Alone
  <1> QED BY <1>3, <1>h, <1>5, <1>6, <1>7, <1>8, <1>9 DEF BaseInv

\* A copy that is not queued gets an index and a deadline.
LEMMA Dated ==
  ASSUME HeapOK, NEW x \in Copies, x \notin Queued(heap), NEW i \in {0, -1}, NEW p \in 0 .. MaxTime + Timeout,
         heap' = [q |-> heap.q, index |-> [heap.index EXCEPT ![x] = i], pri |-> [heap.pri EXCEPT ![x] = p], cap |-> heap.cap]
  PROVE  /\ HeapOK' /\ Queued(heap') = Queued(heap) /\ heap'.index[x] = i
         /\ \A y \in Copies: y # x => heap'.index[y] = heap.index[y]
  <1> DEFINE f == [heap.index EXCEPT ![x] = i]
             r == [heap.pri EXCEPT ![x] = p]
  <1>0. Heap(heap, Copies) /\ heap \in Heaps(Copies) /\ Timeout \in Nat /\ MaxTime \in Nat
    BY Constants DEF HeapOK, Heap, Sane
  <1>1. Cardinality(Copies) \in Nat /\ Cardinality(Copies) # 0 BY Constants, FS_CardinalityType, FS_EmptySet
  <1>2. heap.index \in [Copies -> -1 .. Cardinality(Copies) - 1] /\ i \in -1 .. Cardinality(Copies) - 1
    BY <1>1 DEF HeapOK
  <1>3. /\ f \in [Copies -> -1 .. Cardinality(Copies) - 1] /\ f \in [Copies -> Int]
        /\ f[x] = i /\ \A y \in Copies: y # x => f[y] = heap.index[y]
    BY <1>1, <1>2
  <1>4. heap.pri \in [Copies -> 0 .. MaxTime + Timeout] BY DEF HeapOK
  <1>5. /\ r \in [Copies -> 0 .. MaxTime + Timeout] /\ r \in [Copies -> Nat]
        /\ \A y \in Copies: y # x => r[y] = heap.pri[y]
    BY <1>0, <1>4
  <1>6. heap' = [q |-> heap.q, index |-> f, pri |-> r, cap |-> heap.cap] OBVIOUS
  <1> HIDE DEF f, r
  <1>7. heap' \in Heaps(Copies) /\ heap'.q = heap.q /\ heap'.index = f /\ heap'.pri = r
    BY <1>0, <1>3, <1>5, <1>6 DEF Heaps
  <1>8. \A y \in Queued(heap): y \in Copies /\ y # x BY <1>0, HeapFacts
  <1>9. Heap(heap', Copies) /\ Queued(heap') = Queued(heap) BY <1>0, <1>3, <1>5, <1>7, <1>8, OutsideFacts
  <1> QED BY <1>3, <1>5, <1>7, <1>9 DEF HeapOK

\* What is made of a copy that nothing refers to.
Copied(w, c, x) ==
    /\ copy' \in [Copies -> [msg : Msgs \cup {0}, client : Clients \cup {0}]]
    /\ copy'[x].msg = worker[w].msg /\ copy'[x].client = c /\ \A y \in Copies: y # x => copy'[y] = copy[y]
    /\ HeapOK' /\ Queued(heap') = Queued(heap) /\ heap'.index[x] = worker[w].index
    /\ \A y \in Copies: y # x => heap'.index[y] = heap.index[y]

\* No copy in use is x.
Unused(x) ==
    /\ scan.cur # x /\ \A y \in Queued(heap): y \in Copies /\ y # x
    /\ \A v \in Workers: worker[v].cur \in Copies \cup {0} /\ worker[v].cur # x
    /\ \A n \in Msgs, d \in Clients: flight[n][d] \in Copies \cup {0} /\ flight[n][d] # x
    /\ \A d \in Clients: ack[d] \in Copies \cup {0} /\ ack[d] # x

LEMMA CopyEffect ==
  ASSUME BaseInv, NEW w \in Workers, NEW c \in Clients, NEW x \in Copies, CopyFor(w, c, x)
  PROVE  /\ UNCHANGED <<now, flight, scan, ack, status, wire, handed, acked, refused, panicked>>
         /\ worker[w].pc = "loop" /\ c \in worker[w].todo /\ worker[w].msg \in Msgs /\ status[c] # "new"
         /\ Goes(w, "map", worker[w].todo \ {c}, x) /\ Copied(w, c, x) /\ Unused(x)
  <1>0. Types /\ HeapOK /\ Held BY DEF BaseInv
  <1>f. /\ UNCHANGED <<now, flight, scan, ack, status, wire, handed, acked, refused, panicked>>
        /\ worker[w].pc = "loop" /\ c \in worker[w].todo
    BY DEF CopyFor
  <1>x. /\ x \notin Queued(heap) /\ scan.cur # x /\ (\A v \in Workers: worker[v].cur # x)
        /\ (\A n \in Msgs, d \in Clients: flight[n][d] # x) /\ \A d \in Clients: ack[d] # x
    BY DEF CopyFor, Fresh
  <1>t. worker[w].msg \in Msgs /\ status[c] # "new" /\ worker[w].index \in {0, -1} BY <1>0, <1>f, FieldTypes DEF Held, HeldBy
  <1>1. Goes(w, "map", worker[w].todo \ {c}, x)
    <2>1. worker' = [worker EXCEPT ![w] = At(worker[w], "map", worker[w].todo \ {c}, x)] BY DEF CopyFor
    <2>2. "map" \in Stages /\ worker[w].todo \ {c} \in SUBSET Clients BY <1>0, FieldTypes DEF Stages
    <2> QED BY <1>0, <2>1, <2>2, GoesFacts
  <1>c. /\ copy' \in [Copies -> [msg : Msgs \cup {0}, client : Clients \cup {0}]]
        /\ copy'[x].msg = worker[w].msg /\ copy'[x].client = c /\ \A y \in Copies: y # x => copy'[y] = copy[y]
    <2>1. copy' = [copy EXCEPT ![x] = [msg |-> worker[w].msg, client |-> c]] BY DEF CopyFor
    <2>2. copy \in [Copies -> [msg : Msgs \cup {0}, client : Clients \cup {0}]] BY <1>0 DEF Types
    <2> QED BY <1>t, <2>1, <2>2
  <1>h. /\ HeapOK' /\ Queued(heap') = Queued(heap) /\ heap'.index[x] = worker[w].index
        /\ \A y \in Copies: y # x => heap'.index[y] = heap.index[y]
    <2>1. now + Timeout \in 0 .. MaxTime + Timeout BY <1>0, Constants DEF Types
    <2>2. heap' = [q |-> heap.q, index |-> [heap.index EXCEPT ![x] = worker[w].index],
                   pri |-> [heap.pri EXCEPT ![x] = now + Timeout], cap |-> heap.cap]
      BY DEF CopyFor
    <2> QED BY <1>0, <1>t, <1>x, <2>1, <2>2, Dated
  <1>q. Unused(x) BY <1>0, <1>x, FieldTypes, Slotted DEF Unused
  <1> QED BY <1>f, <1>t, <1>1, <1>c, <1>h, <1>q DEF Copied

LEMMA CopyBase ==
  ASSUME BaseInv, NEW w \in Workers, NEW c \in Clients, NEW x \in Copies, CopyFor(w, c, x)
  PROVE  BaseInv'
  <1>0. Types /\ HeapOK /\ Held /\ Apart /\ Scanned /\ Entered /\ Remembered BY DEF BaseInv
  <1>f. /\ UNCHANGED <<now, flight, scan, ack, status, wire, handed, acked, refused, panicked>>
        /\ worker[w].pc = "loop" /\ c \in worker[w].todo
    BY CopyEffect
  <1>t. worker[w].msg \in Msgs /\ status[c] # "new" BY CopyEffect
  <1>1. Goes(w, "map", worker[w].todo \ {c}, x) BY CopyEffect
  <1>2. Alone(w) BY <1>1 DEF Goes
  <1>p. Copied(w, c, x) BY CopyEffect
  <1>q. Unused(x) BY CopyEffect
  <1>c. /\ copy' \in [Copies -> [msg : Msgs \cup {0}, client : Clients \cup {0}]]
        /\ copy'[x].msg = worker[w].msg /\ copy'[x].client = c /\ \A y \in Copies: y # x => copy'[y] = copy[y]
    BY <1>p DEF Copied
  <1>h. /\ HeapOK' /\ Queued(heap') = Queued(heap) /\ heap'.index[x] = worker[w].index
        /\ \A y \in Copies: y # x => heap'.index[y] = heap.index[y]
    BY <1>p DEF Copied
  <1>x. scan.cur # x /\ \A v \in Workers: worker[v].cur # x BY <1>q DEF Unused
  <1>3. Types' BY <1>0, <1>f, <1>2, <1>c DEF Types, Alone
  <1>5. Held'
    <2> SUFFICES ASSUME NEW v \in Workers PROVE HeldBy(v)' BY DEF Held
    <2>1. CASE v # w BY <1>0, <1>f, <1>2, <1>c, <1>x, <2>1 DEF Held, HeldBy, Named, Alone, Delivering
    <2>2. CASE v = w BY <1>0, <1>f, <1>t, <1>c, <1>1, <2>2, FieldTypes DEF Held, HeldBy, Named, Delivering, Goes
    <2> QED BY <2>1, <2>2
  <1>6. Apart'
    <2>1. x \notin Queued(heap) /\ x # 0 /\ \A v \in Workers: worker[v].cur \in Copies \cup {0} BY <1>q, Constants DEF Unused
    <2> QED BY <1>0, <1>f, <1>1, <1>2, <1>h, <1>x, <2>1 DEF Apart, Delivering, Goes, Alone, Held, HeldBy
  <1>7. Scanned' BY <1>0, <1>f, <1>c, <1>h, <1>x DEF Scanned, Named
  <1>8. Entered' BY <1>0, <1>f, <1>c, <1>h, <1>q DEF Entered, Named, Is, Unused
  <1>9. Remembered'
    <2>1. ASSUME NEW n \in Msgs, NEW d \in Clients, status'[d] = "on",
                 wire'[n][d] > 0 \/ \E v \in Workers: Writes(v, n, d)'
          PROVE  flight'[n][d] # 0 \/ (\E v \in Workers: Comes(v, n, d)') \/ <<n, d>> \in acked' \/ <<n, d>> \in refused'
      <3>1. ASSUME NEW v \in Workers, Writes(v, n, d)' PROVE Writes(v, n, d)
        BY <1>0, <1>1, <1>2, <1>c, <1>x, <3>1 DEF Writes, Is, Goes, Alone, Held, HeldBy, Delivering
      <3>2. flight[n][d] # 0 \/ (\E v \in Workers: Comes(v, n, d)) \/ <<n, d>> \in acked \/ <<n, d>> \in refused
        BY <1>0, <1>f, <2>1, <3>1 DEF Remembered
      <3>3. ASSUME NEW v \in Workers, Comes(v, n, d) PROVE Comes(v, n, d)'
        BY <1>0, <1>f, <1>1, <1>2, <1>c, <1>x, <3>3 DEF Comes, Goes, Alone, Held, HeldBy, Delivering
      <3> QED BY <1>f, <3>2, <3>3
    <2> QED BY <2>1 DEF Remembered
  <1> QED BY <1>3, <1>h, <1>5, <1>6, <1>7, <1>8, <1>9 DEF BaseInv

LEMMA OfflinePopBase ==
  ASSUME BaseInv, NEW w \in Workers, OfflinePop(w)
  PROVE  BaseInv'
  <1>0. Types /\ HeapOK /\ Held /\ Apart /\ Scanned /\ Entered /\ Remembered BY DEF BaseInv
  <1> DEFINE m == worker[w].msg
             c == worker[w].to
             x == flight[m][c]
  <1>f. /\ UNCHANGED <<now, heap, copy, scan, ack, status, wire, handed, acked, refused, panicked>>
        /\ worker[w].pc = "offline"
    BY DEF OfflinePop
  <1>t. m \in Msgs /\ c \in Clients /\ status[c] = "off" BY <1>0, <1>f DEF Held, HeldBy
  <1>y. x \in Copies \cup {0} BY <1>0, <1>t, FieldTypes
  <1>1. IF x = 0 THEN Ends(w) ELSE Goes(w, "remove", {}, x)
    <2>1. worker' = [worker EXCEPT ![w] = IF x = 0 THEN Idle ELSE At(worker[w], "remove", {}, x)] BY DEF OfflinePop
    <2>2. "remove" \in Stages /\ {} \in SUBSET Clients BY DEF Stages
    <2> HIDE DEF x
    <2> QED BY <1>0, <1>y, <2>1, <2>2, GoesFacts, EndsFacts
  <1>2. Alone(w) BY <1>1 DEF Goes, Ends
  <1>w. /\ flight' \in [Msgs -> [Clients -> Copies \cup {0}]] /\ flight'[m][c] = 0
        /\ \A n \in Msgs, d \in Clients: n # m \/ d # c => flight'[n][d] = flight[n][d]
    <2>1. flight' = [flight EXCEPT ![m][c] = 0] BY DEF OfflinePop
    <2>2. flight \in [Msgs -> [Clients -> Copies \cup {0}]] /\ 0 \in Copies \cup {0} BY <1>0 DEF Types
    <2> HIDE DEF m, c, x
    <2> QED BY <1>t, <2>1, <2>2, CellFacts
  <1> HIDE DEF m, c, x
  <1>3. Types' BY <1>0, <1>f, <1>2, <1>w DEF Types, Alone
  <1>4. HeapOK' BY <1>0, <1>f, HeapSame
  <1>5. Held'
    <2> SUFFICES ASSUME NEW v \in Workers PROVE HeldBy(v)' BY DEF Held
    <2>1. CASE v # w BY <1>0, <1>f, <1>2, <2>1 DEF Held, HeldBy, Named, Alone
    <2>2. CASE v = w BY <1>0, <1>f, <1>y, <1>1, <2>2, FieldTypes DEF Held, HeldBy, Named, Delivering, Goes, Ends
    <2> QED BY <2>1, <2>2
  <1>6. Apart' BY <1>0, <1>f, <1>1, <1>2 DEF Apart, Delivering, Goes, Ends, Alone
  <1>7. Scanned' BY <1>0, <1>f DEF Scanned, Named
  <1>8. Entered' BY <1>0, <1>f, <1>w DEF Entered, Named, Is
  <1>9. Remembered'
    <2>1. ASSUME NEW n \in Msgs, NEW d \in Clients, status'[d] = "on",
                 wire'[n][d] > 0 \/ \E v \in Workers: Writes(v, n, d)'
          PROVE  flight'[n][d] # 0 \/ (\E v \in Workers: Comes(v, n, d)') \/ <<n, d>> \in acked' \/ <<n, d>> \in refused'
      <3>1. d # c /\ flight'[n][d] = flight[n][d] BY <1>f, <1>t, <1>w, <2>1
      <3>2. ASSUME NEW v \in Workers, Writes(v, n, d)' PROVE Writes(v, n, d)
        BY <1>f, <1>1, <1>2, <3>2 DEF Writes, Is, Goes, Ends, Alone
      <3>3. ASSUME NEW v \in Workers, Comes(v, n, d) PROVE Comes(v, n, d)'
        BY <1>f, <1>1, <1>2, <3>3 DEF Comes, Goes, Ends, Alone
      <3> QED BY <1>0, <1>f, <2>1, <3>1, <3>2, <3>3 DEF Remembered
    <2> QED BY <2>1 DEF Remembered
  <1> QED BY <1>3, <1>4, <1>5, <1>6, <1>7, <1>8, <1>9 DEF BaseInv

\* Taking an item off the heap, with an item that is not queued left alone.
LEMMA OfflineRemoveBase ==
  ASSUME BaseInv, NEW w \in Workers, OfflineRemove(w)
  PROVE  BaseInv'
  <1>0. Types /\ HeapOK /\ Held /\ Apart /\ Scanned /\ Entered /\ Remembered BY DEF BaseInv
  <1>f. /\ UNCHANGED <<now, flight, copy, scan, ack, status, wire, handed, acked, refused>>
        /\ worker[w].pc = "remove" /\ RemoveFromInFlightPQ(worker[w].cur)
    BY DEF OfflineRemove
  <1>1. Ends(w) BY <1>0, EndsFacts DEF OfflineRemove
  <1>2. Alone(w) BY <1>1 DEF Ends
  <1>h. /\ HeapOK' /\ panicked' \in BOOLEAN /\ Queued(heap') \subseteq Queued(heap)
        /\ \A y \in Copies: y \notin Queued(heap) => heap'.index[y] = heap.index[y]
    <2>1. worker[w].cur \in Copies BY <1>0, <1>f DEF Held, HeldBy
    <2> QED BY <1>0, <1>f, <2>1, RemovedPQ
  <1>3. Types' BY <1>0, <1>f, <1>2, <1>h DEF Types, Alone
  <1>5. Held'
    <2> SUFFICES ASSUME NEW v \in Workers PROVE HeldBy(v)' BY DEF Held
    <2>1. CASE v # w BY <1>0, <1>f, <1>2, <2>1 DEF Held, HeldBy, Named, Alone
    <2>2. CASE v = w BY <1>0, <1>f, <1>1, <2>2, FieldTypes DEF Held, HeldBy, Named, Delivering, Ends
    <2> QED BY <2>1, <2>2
  <1>6. Apart' BY <1>0, <1>f, <1>1, <1>2, <1>h DEF Apart, Delivering, Ends, Alone, Held, HeldBy
  <1>7. Scanned' BY <1>0, <1>f, <1>h DEF Scanned, Named
  <1>8. Entered' BY <1>0, <1>f, <1>h DEF Entered, Named, Is
  <1>9. Remembered' BY <1>0, <1>f, <1>1, <1>2 DEF Remembered, Writes, Comes, Is, Ends, Alone
  <1> QED BY <1>3, <1>h, <1>5, <1>6, <1>7, <1>8, <1>9 DEF BaseInv

-----------------------------------------------------------------------------
(* BaseInv: acknowledgements, scans, connections *)

LEMMA RecvackEffect ==
  ASSUME BaseInv, NEW c \in Clients, NEW m \in Msgs, Recvack(c, m)
  PROVE  LET x == flight[m][c] IN
         /\ UNCHANGED <<now, heap, copy, worker, scan, status, handed, refused, panicked>>
         /\ status[c] = "on" /\ wire[m][c] > 0 /\ wire[m][c] \in Nat /\ x \in Copies \cup {0}
         /\ acked' = IF x = 0 THEN acked ELSE acked \cup {<<m, c>>}
         /\ ack' \in [Clients -> Copies \cup {0}] /\ ack'[c] = x /\ \A d \in Clients: d # c => ack'[d] = ack[d]
         /\ flight' \in [Msgs -> [Clients -> Copies \cup {0}]] /\ flight'[m][c] = 0
         /\ \A n \in Msgs, d \in Clients: n # m \/ d # c => flight'[n][d] = flight[n][d]
         /\ wire' \in [Msgs -> [Clients -> Nat]] /\ wire'[m][c] = wire[m][c] - 1
         /\ \A n \in Msgs, d \in Clients: n # m \/ d # c => wire'[n][d] = wire[n][d]
  <1>0. Types BY DEF BaseInv
  <1> DEFINE x == flight[m][c]
  <1>f. /\ UNCHANGED <<now, heap, copy, worker, scan, status, handed, refused, panicked>>
        /\ status[c] = "on" /\ wire[m][c] > 0
        /\ acked' = IF x = 0 THEN acked ELSE acked \cup {<<m, c>>}
    BY DEF Recvack
  <1>y. x \in Copies \cup {0} /\ wire[m][c] \in Nat BY <1>0, FieldTypes
  <1>w. /\ flight' \in [Msgs -> [Clients -> Copies \cup {0}]] /\ flight'[m][c] = 0
        /\ \A n \in Msgs, d \in Clients: n # m \/ d # c => flight'[n][d] = flight[n][d]
    <2>1. flight' = [flight EXCEPT ![m][c] = 0] BY DEF Recvack
    <2>2. flight \in [Msgs -> [Clients -> Copies \cup {0}]] /\ 0 \in Copies \cup {0} BY <1>0 DEF Types
    <2> QED BY <2>1, <2>2, CellFacts
  <1>v. /\ wire' \in [Msgs -> [Clients -> Nat]] /\ wire'[m][c] = wire[m][c] - 1
        /\ \A n \in Msgs, d \in Clients: n # m \/ d # c => wire'[n][d] = wire[n][d]
    <2> DEFINE k == wire[m][c] - 1
    <2>1. wire' = [wire EXCEPT ![m][c] = k] BY DEF Recvack
    <2>2. wire \in [Msgs -> [Clients -> Nat]] BY <1>0 DEF Types
    <2>3. k \in Nat BY <1>f, <1>y
    <2> HIDE DEF k
    <2>4. /\ wire' \in [Msgs -> [Clients -> Nat]] /\ wire'[m][c] = k
          /\ \A n \in Msgs, d \in Clients: n # m \/ d # c => wire'[n][d] = wire[n][d]
      BY <2>1, <2>2, <2>3, CellFacts
    <2> QED BY <2>4 DEF k
  <1>k. ack' \in [Clients -> Copies \cup {0}] /\ ack'[c] = x /\ \A d \in Clients: d # c => ack'[d] = ack[d]
    <2>1. ack' = [ack EXCEPT ![c] = x] BY DEF Recvack
    <2> QED BY <1>0, <1>y, <2>1 DEF Types
  <1> QED BY <1>f, <1>y, <1>w, <1>v, <1>k

LEMMA RecvackBase ==
  ASSUME BaseInv, NEW c \in Clients, NEW m \in Msgs, Recvack(c, m)
  PROVE  BaseInv'
  <1>0. Types /\ HeapOK /\ Held /\ Apart /\ Scanned /\ Entered /\ Remembered BY DEF BaseInv
  <1> DEFINE x == flight[m][c]
  <1>f. /\ UNCHANGED <<now, heap, copy, worker, scan, status, handed, refused, panicked>>
        /\ status[c] = "on" /\ wire[m][c] > 0
        /\ acked' = IF x = 0 THEN acked ELSE acked \cup {<<m, c>>}
    BY RecvackEffect
  <1>y. wire[m][c] \in Nat BY RecvackEffect
  <1>k. ack' \in [Clients -> Copies \cup {0}] BY RecvackEffect
  <1>w. /\ flight' \in [Msgs -> [Clients -> Copies \cup {0}]] /\ flight'[m][c] = 0
        /\ \A n \in Msgs, d \in Clients: n # m \/ d # c => flight'[n][d] = flight[n][d]
    BY RecvackEffect
  <1>v. /\ wire' \in [Msgs -> [Clients -> Nat]] /\ wire'[m][c] = wire[m][c] - 1
        /\ \A n \in Msgs, d \in Clients: n # m \/ d # c => wire'[n][d] = wire[n][d]
    BY RecvackEffect
  <1>x. x = flight[m][c] OBVIOUS
  <1> HIDE DEF x
  <1>3. Types' BY <1>0, <1>f, <1>w, <1>v, <1>k DEF Types
  <1>4. HeapOK' BY <1>0, <1>f, HeapSame
  <1>5. Held' BY <1>0, <1>f DEF Held, HeldBy, Named
  <1>6. Apart' BY <1>0, <1>f DEF Apart
  <1>7. Scanned' BY <1>0, <1>f DEF Scanned, Named
  <1>8. Entered'
    <2>1. \A n \in Msgs, d \in Clients: flight'[n][d] # 0 => flight'[n][d] = flight[n][d] BY <1>w
    <2>2. \A n \in Msgs, d \in Clients: wire'[n][d] > 0 => d = c \/ wire[n][d] > 0 BY <1>v
    <2> QED BY <1>0, <1>f, <2>1, <2>2 DEF Entered, Named, Is
  <1>9. Remembered'
    <2>1. ASSUME NEW n \in Msgs, NEW d \in Clients, status'[d] = "on",
                 wire'[n][d] > 0 \/ \E v \in Workers: Writes(v, n, d)'
          PROVE  flight'[n][d] # 0 \/ (\E v \in Workers: Comes(v, n, d)') \/ <<n, d>> \in acked' \/ <<n, d>> \in refused'
      <3>1. \A v \in Workers: Writes(v, n, d)' = Writes(v, n, d) /\ Comes(v, n, d)' = Comes(v, n, d)
        BY <1>f DEF Writes, Comes, Is
      <3>2. wire[n][d] > 0 \/ \E v \in Workers: Writes(v, n, d)
        BY <1>f, <1>v, <1>y, <2>1, <3>1
      <3>3. flight[n][d] # 0 \/ (\E v \in Workers: Comes(v, n, d)) \/ <<n, d>> \in acked \/ <<n, d>> \in refused
        BY <1>0, <1>f, <2>1, <3>2 DEF Remembered
      <3>4. CASE n = m /\ d = c BY <1>f, <1>x, <3>1, <3>3, <3>4
      <3>5. CASE ~(n = m /\ d = c) BY <1>f, <1>w, <3>1, <3>3, <3>5
      <3> QED BY <3>4, <3>5
    <2> QED BY <2>1 DEF Remembered
  <1> QED BY <1>3, <1>4, <1>5, <1>6, <1>7, <1>8, <1>9 DEF BaseInv

LEMMA RecvackRemoveBase ==
  ASSUME BaseInv, NEW c \in Clients, RecvackRemove(c)
  PROVE  BaseInv'
  <1>0. Types /\ HeapOK /\ Held /\ Apart /\ Scanned /\ Entered /\ Remembered BY DEF BaseInv
  <1>f. /\ UNCHANGED <<now, flight, copy, worker, scan, status, wire, handed, acked, refused>>
        /\ ack[c] # 0 /\ RemoveFromInFlightPQ(ack[c]) /\ ack' = [ack EXCEPT ![c] = 0]
    BY DEF RecvackRemove
  <1>h. /\ HeapOK' /\ panicked' \in BOOLEAN /\ Queued(heap') \subseteq Queued(heap)
        /\ \A y \in Copies: y \notin Queued(heap) => heap'.index[y] = heap.index[y]
    <2>1. ack[c] \in Copies BY <1>0, <1>f, FieldTypes
    <2> QED BY <1>0, <1>f, <2>1, RemovedPQ
  <1>k. ack' \in [Clients -> Copies \cup {0}] BY <1>0, <1>f DEF Types
  <1>3. Types' BY <1>0, <1>f, <1>h, <1>k DEF Types
  <1>5. Held' BY <1>0, <1>f DEF Held, HeldBy, Named
  <1>6. Apart' BY <1>0, <1>f, <1>h DEF Apart, Delivering, Held, HeldBy
  <1>7. Scanned' BY <1>0, <1>f, <1>h DEF Scanned, Named
  <1>8. Entered' BY <1>0, <1>f, <1>h DEF Entered, Named, Is
  <1>9. Remembered' BY <1>0, <1>f DEF Remembered, Writes, Comes, Is
  <1> QED BY <1>3, <1>h, <1>5, <1>6, <1>7, <1>8, <1>9 DEF BaseInv

\* The scan goes on without a copy in hand.
LEMMA ScanIdle ==
  ASSUME BaseInv, UNCHANGED <<now, heap, flight, copy, worker, ack, status, wire, handed, acked, refused, panicked>>,
         NEW pc \in {"idle", "peek"}, NEW t \in 0 .. MaxTime, scan' = [pc |-> pc, t |-> t, cur |-> 0]
  PROVE  BaseInv'
  <1>0. Types /\ HeapOK /\ Held /\ Apart /\ Scanned /\ Entered /\ Remembered BY DEF BaseInv
  <1>1. scan'.pc # "pop" /\ scan'.cur = 0 /\ scan' \in [pc : {"idle", "peek", "pop"}, t : 0 .. MaxTime, cur : Copies \cup {0}]
    OBVIOUS
  <1>3. Types' BY <1>0, <1>1 DEF Types
  <1>4. HeapOK' BY <1>0, HeapSame
  <1>5. Held' BY <1>0 DEF Held, HeldBy, Named
  <1>6. Apart' BY <1>0, <1>1, Constants DEF Apart, Delivering, Held, HeldBy
  <1>7. Scanned' BY <1>1 DEF Scanned
  <1>8. Entered' BY <1>0 DEF Entered, Named, Is
  <1>9. Remembered' BY <1>0 DEF Remembered, Writes, Comes, Is
  <1> QED BY <1>3, <1>4, <1>5, <1>6, <1>7, <1>8, <1>9 DEF BaseInv

LEMMA ScanBase ==
  ASSUME BaseInv, Scan \/ ScanGone
  PROVE  BaseInv'
  <1>0. now \in 0 .. MaxTime /\ 0 \in 0 .. MaxTime BY Constants DEF BaseInv, Types
  <1>1. CASE Scan
    <2>1. /\ UNCHANGED <<now, heap, flight, copy, worker, ack, status, wire, handed, acked, refused, panicked>>
          /\ scan' = [pc |-> "peek", t |-> now, cur |-> 0]
      BY <1>1 DEF Scan
    <2> QED BY <1>0, <2>1, ScanIdle
  <1>2. CASE ScanGone
    <2>1. /\ UNCHANGED <<now, heap, flight, copy, worker, ack, status, wire, handed, acked, refused, panicked>>
          /\ scan' = [pc |-> "idle", t |-> 0, cur |-> 0]
      BY <1>2 DEF ScanGone
    <2> QED BY <1>0, <2>1, ScanIdle
  <1> QED BY <1>1, <1>2

LEMMA PeekBase ==
  ASSUME BaseInv, ScanPeek
  PROVE  BaseInv'
  <1>0. Types /\ HeapOK /\ Held /\ Apart /\ Scanned /\ Entered /\ Remembered BY DEF BaseInv
  <1>f. UNCHANGED <<now, flight, copy, worker, ack, status, wire, handed, acked, refused, panicked>> BY DEF ScanPeek
  <1>1. CASE ~Expired(heap, scan.t)
    <2>1. heap' = heap /\ scan' = [pc |-> "idle", t |-> 0, cur |-> 0] BY <1>1 DEF ScanPeek
    <2>2. 0 \in 0 .. MaxTime BY Constants
    <2> QED BY <1>f, <2>1, <2>2, ScanIdle
  <1>2. CASE Expired(heap, scan.t)
    <2> DEFINE x == Slot(heap, 0)
    <2>1. heap' = Pop(heap, 25) /\ scan' = [pc |-> "pop", t |-> scan.t, cur |-> x] BY <1>2 DEF ScanPeek
    <2>2. scan.t \in 0 .. MaxTime /\ scan.t \in Nat BY <1>0, FieldTypes, Constants
    <2>h. HeapOK' /\ x \in Copies /\ x \in Queued(heap) /\ Without(x) BY <1>0, <1>2, <2>1, <2>2, Popped
    <2> HIDE DEF x
    <2>s. scan'.pc = "pop" /\ scan'.cur = x /\ scan' \in [pc : {"idle", "peek", "pop"}, t : 0 .. MaxTime, cur : Copies \cup {0}]
      BY <2>1, <2>2, <2>h
    <2>3. Types' BY <1>0, <1>f, <2>s DEF Types
    <2>5. Held' BY <1>0, <1>f DEF Held, HeldBy, Named
    <2>6. Apart' BY <1>0, <1>f, <2>h, <2>s DEF Apart, Delivering, Held, HeldBy, Without
    <2>7. Scanned' BY <1>0, <1>f, <2>h, <2>s DEF Scanned, Entered, Named, Without
    <2>8. Entered' BY <1>0, <1>f, <2>h DEF Entered, Named, Is, Without
    <2>9. Remembered' BY <1>0, <1>f DEF Remembered, Writes, Comes, Is
    <2> QED BY <2>3, <2>h, <2>5, <2>6, <2>7, <2>8, <2>9 DEF BaseInv
  <1> QED BY <1>1, <1>2

LEMMA SubmitFacts ==
  ASSUME Types, NEW m \in Msgs, NEW to \in Clients \cup {0}, NEW index \in {0, -1}, Submit(m, to, index)
  PROVE  \/ \E w \in Workers: worker[w].pc = "idle" /\ Starts(w, m, to, index) /\ refused' = refused
         \/ worker' = worker /\ refused' = IF to = 0 THEN refused ELSE refused \cup {<<m, to>>}
  <1>1. CASE \E w \in Workers: /\ worker[w].pc = "idle" /\ refused' = refused
                               /\ worker' = [worker EXCEPT ![w] =
                                     [pc |-> "start", msg |-> m, to |-> to, index |-> index, todo |-> {}, cur |-> 0]]
    <2>1. PICK w \in Workers: /\ worker[w].pc = "idle" /\ refused' = refused
                              /\ worker' = [worker EXCEPT ![w] =
                                    [pc |-> "start", msg |-> m, to |-> to, index |-> index, todo |-> {}, cur |-> 0]]
      BY <1>1
    <2>2. Starts(w, m, to, index) BY <2>1, StartsFacts
    <2> QED BY <2>1, <2>2
  <1>2. CASE worker' = worker /\ refused' = IF to = 0 THEN refused ELSE refused \cup {<<m, to>>} BY <1>2
  <1> QED BY <1>1, <1>2 DEF Submit

\* A delivery that begins leaves what is said of the others as it was.
LEMMA StartBase ==
  ASSUME BaseInv, NEW w \in Workers, worker[w].pc = "idle", NEW m \in Msgs, NEW to \in Clients \cup {0}, NEW index \in {0, -1},
         Starts(w, m, to, index), index = 0 <=> to = 0, to # 0 => status[to] # "new",
         UNCHANGED <<heap, copy, status>>, scan' = scan \/ scan'.cur = 0
  PROVE  Held' /\ Apart' /\ \A n \in Msgs, d \in Clients, v \in Workers:
            (Writes(v, n, d)' => Writes(v, n, d)) /\ (Comes(v, n, d) => Comes(v, n, d)')
  <1>0. Types /\ HeapOK /\ Held /\ Apart /\ Scanned /\ Entered /\ Remembered BY DEF BaseInv
  <1>2. Alone(w) BY DEF Starts
  <1>5. Held'
    <2> SUFFICES ASSUME NEW v \in Workers PROVE HeldBy(v)' BY DEF Held
    <2>1. CASE v # w BY <1>0, <1>2, <2>1 DEF Held, HeldBy, Named, Alone
    <2>2. CASE v = w BY <1>0, <2>2, Constants DEF HeldBy, Delivering, Starts
    <2> QED BY <2>1, <2>2
  <1>6. Apart' BY <1>0, <1>2, Constants DEF Apart, Delivering, Starts, Alone, Held, HeldBy
  <1>7. ASSUME NEW n \in Msgs, NEW d \in Clients, NEW v \in Workers
        PROVE  (Writes(v, n, d)' => Writes(v, n, d)) /\ (Comes(v, n, d) => Comes(v, n, d)')
    BY <1>2 DEF Writes, Comes, Is, Starts, Alone
  <1> QED BY <1>5, <1>6, <1>7

LEMMA RetryEffect ==
  ASSUME BaseInv, ScanRetry
  PROVE  /\ UNCHANGED <<now, heap, copy, ack, status, wire, handed, acked, panicked>> /\ scan.pc = "pop"
         /\ scan'.pc = "peek" /\ scan'.cur = 0
         /\ scan' \in [pc : {"idle", "peek", "pop"}, t : 0 .. MaxTime, cur : Copies \cup {0}]
         /\ flight' \in [Msgs -> [Clients -> Copies \cup {0}]]
         /\ \E m \in Msgs, c \in Clients:
               /\ Is(scan.cur, m, c) /\ c # 0 /\ status[c] # "new" /\ flight[m][c] # 0 /\ flight'[m][c] = 0
               /\ \A n \in Msgs, d \in Clients: n # m \/ d # c => flight'[n][d] = flight[n][d]
               /\ \/ \E w \in Workers: worker[w].pc = "idle" /\ Starts(w, m, c, -1) /\ refused' = refused
                  \/ worker' = worker /\ refused' = refused \cup {<<m, c>>}
  <1>0. Types /\ Scanned BY DEF BaseInv
  <1>f. UNCHANGED <<now, heap, copy, ack, status, wire, handed, acked, panicked>> /\ scan.pc = "pop" BY DEF ScanRetry
  <1>m. PICK m \in Msgs, c \in Clients: m = copy[scan.cur].msg /\ c = copy[scan.cur].client BY <1>0, <1>f DEF Scanned, Named
  <1>t. c # 0 /\ status[c] # "new" /\ heap.index[scan.cur] = -1 BY <1>0, <1>f, <1>m, Constants DEF Scanned, Named
  <1>s. scan'.pc = "peek" /\ scan'.cur = 0 /\ scan' \in [pc : {"idle", "peek", "pop"}, t : 0 .. MaxTime, cur : Copies \cup {0}]
    <2>1. scan' = [pc |-> "peek", t |-> scan.t, cur |-> 0] BY DEF ScanRetry
    <2>2. scan.t \in 0 .. MaxTime BY <1>0, FieldTypes
    <2> QED BY <2>1, <2>2
  <1>w. /\ flight' \in [Msgs -> [Clients -> Copies \cup {0}]] /\ flight'[m][c] = 0
        /\ \A n \in Msgs, d \in Clients: n # m \/ d # c => flight'[n][d] = flight[n][d]
    <2>1. flight' = [flight EXCEPT ![m][c] = 0] BY <1>m DEF ScanRetry
    <2>2. flight \in [Msgs -> [Clients -> Copies \cup {0}]] /\ 0 \in Copies \cup {0} BY <1>0 DEF Types
    <2> QED BY <2>1, <2>2, CellFacts
  <1>1. \/ \E w \in Workers: worker[w].pc = "idle" /\ Starts(w, m, c, -1) /\ refused' = refused
        \/ worker' = worker /\ refused' = refused \cup {<<m, c>>}
    <2>1. Submit(m, c, heap.index[scan.cur]) BY <1>m DEF ScanRetry
    <2>2. -1 \in {0, -1} /\ c \in Clients \cup {0} BY <1>t
    <2> QED BY <1>0, <1>t, <2>1, <2>2, SubmitFacts
  <1>2. Is(scan.cur, m, c) /\ flight[m][c] # 0 BY <1>m DEF Is, ScanRetry
  <1> QED BY <1>f, <1>t, <1>s, <1>w, <1>1, <1>2

LEMMA RetryBase ==
  ASSUME BaseInv, ScanRetry
  PROVE  BaseInv'
  <1>0. Types /\ HeapOK /\ Held /\ Apart /\ Scanned /\ Entered /\ Remembered BY DEF BaseInv
  <1>f. UNCHANGED <<now, heap, copy, ack, status, wire, handed, acked, panicked>> /\ scan.pc = "pop" BY RetryEffect
  <1>s. scan'.pc = "peek" /\ scan'.cur = 0 /\ scan' \in [pc : {"idle", "peek", "pop"}, t : 0 .. MaxTime, cur : Copies \cup {0}]
    BY RetryEffect
  <1>y. flight' \in [Msgs -> [Clients -> Copies \cup {0}]] BY RetryEffect
  <1>t. PICK m \in Msgs, c \in Clients:
           /\ c # 0 /\ status[c] # "new" /\ flight'[m][c] = 0
           /\ \A n \in Msgs, d \in Clients: n # m \/ d # c => flight'[n][d] = flight[n][d]
           /\ \/ \E w \in Workers: worker[w].pc = "idle" /\ Starts(w, m, c, -1) /\ refused' = refused
              \/ worker' = worker /\ refused' = refused \cup {<<m, c>>}
    BY RetryEffect
  <1>w. /\ flight' \in [Msgs -> [Clients -> Copies \cup {0}]] /\ flight'[m][c] = 0
        /\ \A n \in Msgs, d \in Clients: n # m \/ d # c => flight'[n][d] = flight[n][d]
    BY <1>y, <1>t
  <1>1. \/ \E w \in Workers: worker[w].pc = "idle" /\ Starts(w, m, c, -1) /\ refused' = refused
        \/ worker' = worker /\ refused' = refused \cup {<<m, c>>}
    BY <1>t
  <1>2. worker' \in [Workers -> Deliveries] BY <1>0, <1>1 DEF Types, Starts, Alone
  <1>r. refused' \subseteq Msgs \X Clients /\ refused \subseteq refused' BY <1>0, <1>t, <1>1 DEF Types
  <1>3. Types' BY <1>0, <1>f, <1>2, <1>s, <1>w, <1>r DEF Types
  <1>4. HeapOK' BY <1>0, <1>f, HeapSame
  <1>5. /\ Held' /\ Apart' /\ \A n \in Msgs, d \in Clients, v \in Workers:
            (Writes(v, n, d)' => Writes(v, n, d)) /\ (Comes(v, n, d) => Comes(v, n, d)')
        /\ (\E w \in Workers: Comes(w, m, c)') \/ <<m, c>> \in refused'
    <2>1. CASE worker' = worker /\ refused' = refused \cup {<<m, c>>}
      <3>1. Held' BY <1>0, <1>f, <2>1 DEF Held, HeldBy, Named
      <3>2. Apart' BY <1>0, <1>f, <1>s, <2>1, Constants DEF Apart, Delivering, Held, HeldBy
      <3>3. \A n \in Msgs, d \in Clients, v \in Workers: Writes(v, n, d)' = Writes(v, n, d) /\ Comes(v, n, d)' = Comes(v, n, d)
        BY <1>f, <2>1 DEF Writes, Comes, Is
      <3> QED BY <2>1, <3>1, <3>2, <3>3
    <2>2. CASE \E w \in Workers: worker[w].pc = "idle" /\ Starts(w, m, c, -1) /\ refused' = refused
      <3>1. PICK w \in Workers: worker[w].pc = "idle" /\ Starts(w, m, c, -1) BY <2>2
      <3>2. -1 \in {0, -1} /\ c \in Clients \cup {0} /\ (-1 = 0 <=> c = 0) BY <1>t
      <3>3. /\ Held' /\ Apart' /\ \A n \in Msgs, d \in Clients, v \in Workers:
               (Writes(v, n, d)' => Writes(v, n, d)) /\ (Comes(v, n, d) => Comes(v, n, d)')
        BY <1>f, <1>t, <1>s, <3>1, <3>2, StartBase
      <3>4. Comes(w, m, c)' BY <3>1 DEF Comes, Starts
      <3> QED BY <3>3, <3>4
    <2> QED BY <1>1, <2>1, <2>2
  <1>7. Scanned' BY <1>s DEF Scanned
  <1>8. Entered' BY <1>0, <1>f, <1>w DEF Entered, Named, Is
  <1>9. Remembered'
    <2>1. ASSUME NEW n \in Msgs, NEW d \in Clients, status'[d] = "on",
                 wire'[n][d] > 0 \/ \E v \in Workers: Writes(v, n, d)'
          PROVE  flight'[n][d] # 0 \/ (\E v \in Workers: Comes(v, n, d)') \/ <<n, d>> \in acked' \/ <<n, d>> \in refused'
      <3>1. CASE n = m /\ d = c BY <1>5, <3>1
      <3>2. CASE ~(n = m /\ d = c) BY <1>0, <1>f, <1>w, <1>r, <1>5, <2>1, <3>2 DEF Remembered
      <3> QED BY <3>1, <3>2
    <2> QED BY <2>1 DEF Remembered
  <1> QED BY <1>3, <1>4, <1>5, <1>7, <1>8, <1>9 DEF BaseInv

LEMMA DeliverBase ==
  ASSUME BaseInv, NEW m \in Msgs, Deliver(m)
  PROVE  BaseInv'
  <1>0. Types /\ HeapOK /\ Held /\ Apart /\ Scanned /\ Entered /\ Remembered BY DEF BaseInv
  <1>f. UNCHANGED <<now, heap, flight, copy, scan, ack, status, wire, acked, panicked>> BY DEF Deliver
  <1>1. \/ \E w \in Workers: worker[w].pc = "idle" /\ Starts(w, m, 0, 0) /\ refused' = refused
        \/ worker' = worker /\ refused' = refused
    <2>1. Submit(m, 0, 0) /\ 0 \in Clients \cup {0} /\ 0 \in {0, -1} BY DEF Deliver
    <2> QED BY <1>0, <2>1, SubmitFacts
  <1>2. worker' \in [Workers -> Deliveries] /\ refused' = refused BY <1>0, <1>1 DEF Types, Starts, Alone
  <1>h. handed' \in [Msgs -> 0 .. MaxDeliveries]
    <2>1. handed[m] < MaxDeliveries /\ handed' = [handed EXCEPT ![m] = handed[m] + 1] BY DEF Deliver
    <2>2. handed \in [Msgs -> 0 .. MaxDeliveries] BY <1>0 DEF Types
    <2>3. handed[m] + 1 \in 0 .. MaxDeliveries BY <2>1, <2>2, Constants
    <2> QED BY <2>1, <2>2, <2>3
  <1>3. Types' BY <1>0, <1>f, <1>2, <1>h DEF Types
  <1>4. HeapOK' BY <1>0, <1>f, HeapSame
  <1>5. /\ Held' /\ Apart' /\ \A n \in Msgs, d \in Clients, v \in Workers:
            (Writes(v, n, d)' => Writes(v, n, d)) /\ (Comes(v, n, d) => Comes(v, n, d)')
    <2>1. CASE worker' = worker
      <3>1. Held' BY <1>0, <1>f, <2>1 DEF Held, HeldBy, Named
      <3>2. Apart' BY <1>0, <1>f, <2>1 DEF Apart
      <3>3. \A n \in Msgs, d \in Clients, v \in Workers: Writes(v, n, d)' = Writes(v, n, d) /\ Comes(v, n, d)' = Comes(v, n, d)
        BY <1>f, <2>1 DEF Writes, Comes, Is
      <3> QED BY <3>1, <3>2, <3>3
    <2>2. CASE \E w \in Workers: worker[w].pc = "idle" /\ Starts(w, m, 0, 0)
      <3>1. PICK w \in Workers: worker[w].pc = "idle" /\ Starts(w, m, 0, 0) BY <2>2
      <3>2. 0 \in {0, -1} /\ 0 \in Clients \cup {0} /\ (0 = 0 <=> 0 = 0) /\ ~(0 # 0) OBVIOUS
      <3> QED BY <1>f, <3>1, <3>2, StartBase
    <2> QED BY <1>1, <2>1, <2>2
  <1>7. Scanned' BY <1>0, <1>f DEF Scanned, Named
  <1>8. Entered' BY <1>0, <1>f DEF Entered, Named, Is
  <1>9. Remembered' BY <1>0, <1>f, <1>2, <1>5 DEF Remembered
  <1> QED BY <1>3, <1>4, <1>5, <1>7, <1>8, <1>9 DEF BaseInv

LEMMA ConnectionBase ==
  ASSUME BaseInv, Tick \/ \E c \in Clients: Connect(c) \/ Disconnect(c)
  PROVE  BaseInv'
  <1>0. Types /\ HeapOK /\ Held /\ Apart /\ Scanned /\ Entered /\ Remembered BY DEF BaseInv
  <1>f. UNCHANGED <<heap, flight, copy, worker, scan, ack, handed, acked, refused, panicked>> BY DEF Tick, Connect, Disconnect
  <1>1. CASE Tick
    <2>1. UNCHANGED <<status, wire>> /\ now' \in 0 .. MaxTime BY <1>0, <1>1, Constants DEF Tick, Types
    <2>3. Types' BY <1>0, <1>f, <2>1 DEF Types
    <2>4. HeapOK' BY <1>0, <1>f, HeapSame
    <2>5. Held' BY <1>0, <1>f, <2>1 DEF Held, HeldBy, Named
    <2>6. Apart' BY <1>0, <1>f DEF Apart
    <2>7. Scanned' BY <1>0, <1>f, <2>1 DEF Scanned, Named
    <2>8. Entered' BY <1>0, <1>f, <2>1 DEF Entered, Named, Is
    <2>9. Remembered' BY <1>0, <1>f, <2>1 DEF Remembered, Writes, Comes, Is
    <2> QED BY <2>3, <2>4, <2>5, <2>6, <2>7, <2>8, <2>9 DEF BaseInv
  <1>2. ASSUME NEW c \in Clients, Connect(c) \/ Disconnect(c) PROVE BaseInv'
    <2>0. /\ now' = now /\ status' \in [Clients -> {"new", "on", "off"}] /\ \A d \in Clients: d # c => status'[d] = status[d]
          /\ \/ status[c] = "new" /\ status'[c] = "on"
             \/ status[c] = "on" /\ status'[c] = "off"
      <3>1. status \in [Clients -> {"new", "on", "off"}] BY <1>0 DEF Types
      <3> QED BY <1>2, <3>1 DEF Connect, Disconnect
    <2>1. /\ wire' \in [Msgs -> [Clients -> Nat]]
          /\ \A n \in Msgs, d \in Clients: wire'[n][d] = IF d = c /\ status[c] = "on" THEN 0 ELSE wire[n][d]
      <3>1. wire \in [Msgs -> [Clients -> Nat]] BY <1>0 DEF Types
      <3>2. CASE Connect(c) BY <3>1, <3>2 DEF Connect
      <3>3. CASE Disconnect(c)
        <4>1. wire' = [n \in Msgs |-> [wire[n] EXCEPT ![c] = 0]] /\ status[c] = "on" BY <3>3 DEF Disconnect
        <4> QED BY <3>1, <4>1
      <3> QED BY <1>2, <3>2, <3>3
    <2>3. Types' BY <1>0, <1>f, <2>0, <2>1 DEF Types
    <2>4. HeapOK' BY <1>0, <1>f, HeapSame
    <2>n. \A x \in Copies: Named(x) => Named(x)' BY <1>f, <2>0 DEF Named
    <2>5. Held'
      <3> SUFFICES ASSUME NEW v \in Workers PROVE HeldBy(v)' BY DEF Held
      <3>1. worker[v].to \in Clients \cup {0} /\ worker[v].todo \in SUBSET Clients BY <1>0, FieldTypes
      <3> QED BY <1>0, <1>f, <2>0, <2>n, <3>1 DEF Held, HeldBy
    <2>6. Apart' BY <1>0, <1>f DEF Apart
    <2>7. Scanned' BY <1>0, <1>f, <2>n DEF Scanned
    <2>8. Entered'
      <3>1. \A x \in Queued(heap): x \in Copies BY <1>0, Slotted
      <3>2. \A n \in Msgs, d \in Clients: wire'[n][d] > 0 => status'[d] = "on" BY <1>0, <2>0, <2>1 DEF Entered
      <3> QED BY <1>0, <1>f, <2>n, <3>1, <3>2 DEF Entered, Is
    <2>9. Remembered'
      <3>1. ASSUME NEW n \in Msgs, NEW d \in Clients, status'[d] = "on",
                   wire'[n][d] > 0 \/ \E v \in Workers: Writes(v, n, d)'
            PROVE  flight'[n][d] # 0 \/ (\E v \in Workers: Comes(v, n, d)') \/ <<n, d>> \in acked' \/ <<n, d>> \in refused'
        <4>1. \A v \in Workers: Writes(v, n, d)' = Writes(v, n, d) /\ Comes(v, n, d)' = Comes(v, n, d)
          BY <1>f DEF Writes, Comes, Is
        <4>2. \A v \in Workers: Writes(v, n, d) => status[d] # "new"
          BY <1>0 DEF Writes, Is, Held, HeldBy, Delivering, Named
        <4>3. wire[n][d] > 0 => status[d] = "on" BY <1>0 DEF Entered
        <4>4. d # c BY <2>0, <2>1, <3>1, <4>1, <4>2, <4>3
        <4> QED BY <1>0, <1>f, <2>0, <2>1, <3>1, <4>1, <4>4 DEF Remembered
      <3> QED BY <3>1 DEF Remembered
    <2> QED BY <2>3, <2>4, <2>5, <2>6, <2>7, <2>8, <2>9 DEF BaseInv
  <1> QED BY <1>1, <1>2

LEMMA InitBase ==
  ASSUME Init
  PROVE  BaseInv /\ Queued(heap) = {}
  <1>0. Timeout \in Nat /\ MaxTime \in Nat /\ MaxDeliveries \in Nat /\ IsFiniteSet(Copies) BY Constants
  <1>1. worker \in [Workers -> Deliveries] /\ \A w \in Workers: worker[w].pc = "idle" /\ worker[w].cur = 0
                                                /\ worker[w].to = 0 /\ worker[w].todo = {}
    <2>1. Idle \in Deliveries BY DEF Idle, Deliveries
    <2>2. Idle.pc = "idle" /\ Idle.cur = 0 /\ Idle.to = 0 /\ Idle.todo = {} BY DEF Idle
    <2> QED BY <2>1, <2>2 DEF Init
  <1>2. Heap(heap, Copies) /\ Queued(heap) = {} /\ heap.index = [x \in Copies |-> 0] /\ heap.pri = [x \in Copies |-> 0]
    <2>1. heap.cap = 1024 /\ heap.index = [x \in Copies |-> 0] /\ heap.pri = [x \in Copies |-> 0] BY DEF Init
    <2>2. heap = [q |-> <<>>, index |-> [x \in Copies |-> 0], pri |-> [x \in Copies |-> 0], cap |-> heap.cap]
          /\ heap.cap \in Nat
      BY <2>1 DEF Init
    <2>3. Heap(heap, Copies) /\ Queued(heap) = {} BY <2>2, EmptyHeap
    <2> QED BY <2>1, <2>3
  <1>3. HeapOK
    <2>1. Cardinality(Copies) \in Nat BY <1>0, FS_CardinalityType
    <2>2. ASSUME NEW x \in Copies PROVE 0 \in -1 .. Cardinality(Copies) - 1
      <3>1. Cardinality(Copies) # 0 BY <1>0, FS_EmptySet
      <3> QED BY <2>1, <3>1
    <2>3. heap.index \in [Copies -> -1 .. Cardinality(Copies) - 1] BY <1>2, <2>2
    <2>4. heap.pri \in [Copies -> 0 .. MaxTime + Timeout] BY <1>0, <1>2
    <2> QED BY <1>2, <2>3, <2>4 DEF HeapOK
  <1>4. Types
    <2>1. now \in 0 .. MaxTime BY <1>0 DEF Init
    <2>2. flight \in [Msgs -> [Clients -> Copies \cup {0}]] /\ wire \in [Msgs -> [Clients -> Nat]] BY DEF Init
    <2>3. copy \in [Copies -> [msg : Msgs \cup {0}, client : Clients \cup {0}]] BY DEF Init
    <2>4. scan \in [pc : {"idle", "peek", "pop"}, t : 0 .. MaxTime, cur : Copies \cup {0}] BY <1>0 DEF Init
    <2>5. ack \in [Clients -> Copies \cup {0}] /\ status \in [Clients -> {"new", "on", "off"}] BY DEF Init
    <2>6. handed \in [Msgs -> 0 .. MaxDeliveries] BY <1>0 DEF Init
    <2>7. acked \subseteq Msgs \X Clients /\ refused \subseteq Msgs \X Clients /\ panicked \in BOOLEAN BY DEF Init
    <2> QED BY <1>1, <2>1, <2>2, <2>3, <2>4, <2>5, <2>6, <2>7 DEF Types
  <1>5. Held BY <1>1 DEF Held, HeldBy, Delivering
  <1>6. Apart BY <1>1 DEF Apart, Delivering
  <1>7. Scanned BY DEF Init, Scanned
  <1>8. Entered BY <1>2 DEF Init, Entered
  <1>9. Remembered BY <1>1 DEF Init, Remembered, Writes
  <1> QED BY <1>2, <1>3, <1>4, <1>5, <1>6, <1>7, <1>8, <1>9 DEF BaseInv

LEMMA NextBase ==
  ASSUME BaseInv, Next
  PROVE  BaseInv'
  <1>1. ASSUME NEW w \in Workers, DeliverySteps(w) PROVE BaseInv'
    BY <1>1, FindBase, CopyBase, LoopBase, MapBase, AddBase, WriteBase, OfflinePopBase, OfflineRemoveBase DEF DeliverySteps
  <1>2. ASSUME NEW c \in Clients, (\E m \in Msgs: Recvack(c, m)) \/ RecvackRemove(c) \/ Connect(c) \/ Disconnect(c) PROVE BaseInv'
    BY <1>2, RecvackBase, RecvackRemoveBase, ConnectionBase
  <1>3. ASSUME Scan \/ ScanSteps \/ Tick PROVE BaseInv'
    BY <1>3, ScanBase, PeekBase, RetryBase, ConnectionBase DEF ScanSteps
  <1> QED BY <1>1, <1>2, <1>3, DeliverBase DEF Next

LEMMA StutterBase ==
  ASSUME BaseInv, UNCHANGED vars
  PROVE  BaseInv'
  <1>0. Types /\ HeapOK /\ Held /\ Apart /\ Scanned /\ Entered /\ Remembered BY DEF BaseInv
  <1>f. UNCHANGED <<now, heap, flight, copy, worker, scan, ack, status, wire, handed, acked, refused, panicked>> BY DEF vars
  <1>3. Types' BY <1>0, <1>f DEF Types
  <1>4. HeapOK' BY <1>0, <1>f, HeapSame
  <1>5. Held' BY <1>0, <1>f DEF Held, HeldBy, Named
  <1>6. Apart' BY <1>0, <1>f DEF Apart
  <1>7. Scanned' BY <1>0, <1>f DEF Scanned, Named
  <1>8. Entered' BY <1>0, <1>f DEF Entered, Named, Is
  <1>9. Remembered' BY <1>0, <1>f DEF Remembered, Writes, Comes, Is
  <1> QED BY <1>3, <1>4, <1>5, <1>6, <1>7, <1>8, <1>9 DEF BaseInv

\* Whatever deliveries, acknowledgements and scans do between the map and the
\* heap, and however often a message is handed over: the heap stays a heap,
\* deliveries work on copies of their own that are not in the heap yet, and the
\* scan has what it shifted out.
THEOREM RetryInductive == Spec => []BaseInv
  <1>1. Init => BaseInv BY InitBase
  <1>2. BaseInv /\ [Next]_vars => BaseInv' BY NextBase, StutterBase
  <1> QED BY <1>1, <1>2, PTL DEF Spec

\* NotForgotten: a packet that a connected client has and did not acknowledge
\* belongs to a message that is in flight or on its way there, that was
\* acknowledged before, or whose retry the full pool refused (retryMessage does
\* not look at the error), for any number of deliveries of a message.
THEOREM RetryNotForgotten == Spec => []NotForgotten
  <1>1. BaseInv => NotForgotten
    <2> SUFFICES ASSUME BaseInv, NEW m \in Msgs, NEW c \in Online, wire[m][c] > 0
                 PROVE  flight[m][c] # 0 \/ Coming(m, c) \/ <<m, c>> \in acked \cup refused
      BY DEF NotForgotten
    <2>1. c \in Clients /\ status[c] = "on" BY DEF Online
    <2>2. flight[m][c] # 0 \/ (\E w \in Workers: Comes(w, m, c)) \/ <<m, c>> \in acked \/ <<m, c>> \in refused
      BY <2>1 DEF BaseInv, Remembered
    <2>3. (\E w \in Workers: Comes(w, m, c)) => Coming(m, c) BY DEF Comes, Coming
    <2> QED BY <2>2, <2>3
  <1> QED BY <1>1, RetryInductive, PTL

-----------------------------------------------------------------------------
(* OnceInv: the steps of a delivery *)

LEMMA Others ==
  ASSUME NEW w \in Workers, Alone(w), copy' = copy, NEW v \in Workers, v # w, NEW n, NEW d
  PROVE  (Token(v, n, d)' <=> Token(v, n, d)) /\ (Comes(v, n, d)' <=> Comes(v, n, d)) /\ (Writes(v, n, d)' <=> Writes(v, n, d))
  BY DEF Token, Comes, Writes, Is, Alone

\* A delivery goes on and holds no copy.
LEMMA QuietOnce ==
  ASSUME OnceInv, NEW w \in Workers, UNCHANGED <<heap, flight, copy, scan, ack, wire, handed, acked>>, Alone(w),
         worker[w].pc # "heap", worker'[w].pc \in {"idle", "loop", "offline"},
         worker'[w].pc # "idle" => worker[w].pc # "idle" /\ worker'[w].msg = worker[w].msg /\ worker'[w].to = worker[w].to,
         \A n \in Msgs, d \in Clients: (Token(w, n, d)' => Token(w, n, d)) /\ (Comes(w, n, d)' => Comes(w, n, d))
  PROVE  OnceInv'
  <1>0. Marked /\ Traced /\ Single /\ First /\ Unhanded BY DEF OnceInv
  <1>1. \A v \in Workers, n \in Msgs, d \in Clients: (Token(v, n, d)' => Token(v, n, d)) /\ (Comes(v, n, d)' => Comes(v, n, d))
    BY Others
  <1>2. \A v \in Workers: v # w => worker'[v] = worker[v] BY DEF Alone
  <1>3. Marked' BY <1>0, <1>2 DEF Marked
  <1>4. Traced' BY <1>0, <1>2 DEF Traced
  <1>5. Single' BY <1>0, <1>1 DEF Single
  <1>6. First'
    <2> SUFFICES ASSUME NEW v \in Workers, NEW n \in Msgs, NEW d \in Clients, Opening(v, n, d)' PROVE Clear(v, n, d)'
      BY DEF First
    <2>1. Opening(v, n, d) BY <1>1, <1>2 DEF Opening, Comes, Is
    <2>2. \A u \in Workers: Writes(u, n, d)' => Writes(u, n, d) BY <1>2 DEF Writes, Is
    <2> QED BY <1>0, <1>2, <2>1, <2>2 DEF First, Clear, Is
  <1>7. Unhanded' BY <1>0, <1>2 DEF Unhanded
  <1> QED BY <1>3, <1>4, <1>5, <1>6, <1>7 DEF OnceInv

LEMMA FindOnce ==
  ASSUME BaseInv, OnceInv, NEW w \in Workers, FindClients(w)
  PROVE  OnceInv'
  <1> DEFINE todo == IF worker[w].to = 0 THEN Online ELSE Online \cap {worker[w].to}
  <1>f. UNCHANGED <<heap, flight, copy, scan, ack, wire, handed, acked>> /\ worker[w].pc = "start" BY FindEffect
  <1>1. Goes(w, "loop", todo, 0) \/ Goes(w, "offline", {}, 0) \/ Ends(w) BY FindEffect
  <1>2. Alone(w) /\ worker'[w].pc \in {"idle", "loop", "offline"} BY <1>1 DEF Goes, Ends
  <1>3. worker'[w].pc # "idle" => worker'[w].msg = worker[w].msg /\ worker'[w].to = worker[w].to BY <1>1 DEF Goes, Ends
  <1>4. ASSUME NEW n \in Msgs, NEW d \in Clients
        PROVE  (Token(w, n, d)' => Token(w, n, d)) /\ (Comes(w, n, d)' => Comes(w, n, d))
    BY <1>f, <1>1 DEF Token, Comes, Goes, Ends
  <1> QED BY <1>f, <1>2, <1>3, <1>4, QuietOnce

LEMMA LoopOnce ==
  ASSUME BaseInv, OnceInv, NEW w \in Workers, Delivered(w) \/ EncryptFails(w)
  PROVE  OnceInv'
  <1>f. UNCHANGED <<heap, flight, copy, scan, ack, wire, handed, acked>> BY LoopEffect
  <1>1. \/ worker[w].pc = "loop" /\ Ends(w)
        \/ worker[w].pc = "write" /\ Goes(w, "loop", worker[w].todo, 0)
    BY LoopEffect
  <1>2. Alone(w) /\ worker'[w].pc \in {"idle", "loop", "offline"} /\ worker[w].pc # "heap" BY <1>1 DEF Goes, Ends
  <1>3. worker'[w].pc # "idle" => worker[w].pc # "idle" /\ worker'[w].msg = worker[w].msg /\ worker'[w].to = worker[w].to
    BY <1>1 DEF Goes, Ends
  <1>4. ASSUME NEW n \in Msgs, NEW d \in Clients
        PROVE  (Token(w, n, d)' => Token(w, n, d)) /\ (Comes(w, n, d)' => Comes(w, n, d))
    BY <1>f, <1>1 DEF Token, Comes, Goes, Ends
  <1> QED BY <1>f, <1>2, <1>3, <1>4, QuietOnce

\* A retry that finds its user offline does not find its message in the map.
LEMMA OfflineOnce ==
  ASSUME BaseInv, OnceInv, NEW w \in Workers, OfflinePop(w) \/ OfflineRemove(w)
  PROVE  OnceInv'
  <1>0. Types /\ Held BY DEF BaseInv
  <1>1. worker[w].pc # "remove" BY DEF OnceInv, Marked
  <1>2. OfflinePop(w) BY <1>1 DEF OfflineRemove
  <1>f. UNCHANGED <<heap, copy, scan, ack, wire, handed, acked>> /\ worker[w].pc = "offline" BY <1>2 DEF OfflinePop
  <1> DEFINE m == worker[w].msg
             c == worker[w].to
  <1>t. m \in Msgs /\ c \in Clients BY <1>0, <1>f DEF Held, HeldBy
  <1>3. Token(w, m, c) BY <1>f DEF Token
  <1>4. flight[m][c] = 0 BY <1>t, <1>3 DEF OnceInv, Single
  <1>5. flight' = flight
    <2>1. flight' = [flight EXCEPT ![m][c] = 0] BY <1>2 DEF OfflinePop
    <2>2. flight \in [Msgs -> [Clients -> Copies \cup {0}]] BY <1>0 DEF Types
    <2> HIDE DEF m, c
    <2> QED BY <1>t, <1>4, <2>1, <2>2
  <1>6. Ends(w) BY <1>0, <1>2, <1>4, EndsFacts DEF OfflinePop
  <1>7. Alone(w) /\ worker'[w].pc \in {"idle", "loop", "offline"} /\ worker[w].pc # "heap" /\ worker'[w].pc = "idle"
    BY <1>f, <1>6 DEF Ends
  <1>8. ASSUME NEW n \in Msgs, NEW d \in Clients
        PROVE  (Token(w, n, d)' => Token(w, n, d)) /\ (Comes(w, n, d)' => Comes(w, n, d))
    BY <1>7 DEF Token, Comes
  <1> QED BY <1>f, <1>5, <1>7, <1>8, QuietOnce

LEMMA WriteOnce ==
  ASSUME BaseInv, OnceInv, NEW w \in Workers, WritePacket(w)
  PROVE  OnceInv'
  <1>0. Marked /\ Traced /\ Single /\ First /\ Unhanded BY DEF OnceInv
  <1>f. UNCHANGED <<heap, flight, copy, scan, ack, handed, acked>> /\ worker[w].pc = "write" BY WriteEffect
  <1>1. Goes(w, "loop", worker[w].todo, 0) BY WriteEffect
  <1>w. PICK m \in Msgs, c \in Clients:
           /\ Writes(w, m, c) /\ m = worker[w].msg /\ c \notin worker[w].todo
           /\ \A n \in Msgs, d \in Clients: n # m \/ d # c => wire'[n][d] = wire[n][d]
    BY WriteEffect
  <1>2. Alone(w) /\ \A v \in Workers: v # w => worker'[v] = worker[v] BY <1>1 DEF Goes, Alone
  <1>t. \A v \in Workers, n \in Msgs, d \in Clients: (Token(v, n, d)' => Token(v, n, d)) /\ (Comes(v, n, d)' => Comes(v, n, d))
    <2>1. \A n \in Msgs, d \in Clients: (Token(w, n, d)' => Token(w, n, d)) /\ (Comes(w, n, d)' => Comes(w, n, d))
      BY <1>f, <1>1 DEF Token, Comes, Goes
    <2> QED BY <1>f, <1>2, <2>1, Others
  <1>3. Marked' BY <1>0, <1>f, <1>1, <1>2 DEF Marked, Goes
  <1>4. Traced' BY <1>0, <1>f, <1>2 DEF Traced
  <1>5. Single' BY <1>0, <1>f, <1>t DEF Single
  <1>6. First'
    <2> SUFFICES ASSUME NEW v \in Workers, NEW n \in Msgs, NEW d \in Clients, Opening(v, n, d)' PROVE Clear(v, n, d)'
      BY DEF First
    <2>1. Opening(v, n, d) BY <1>f, <1>1, <1>2, <1>t DEF Opening, Comes, Is, Goes
    <2>2. \A u \in Workers: Writes(u, n, d)' => Writes(u, n, d) BY <1>f, <1>1, <1>2 DEF Writes, Is, Goes
    <2>3. Clear(v, n, d) BY <1>0, <2>1 DEF First
    <2>4. ~(n = m /\ d = c)
      <3>1. CASE v # w BY <1>w, <2>3, <3>1 DEF Clear
      <3>2. CASE v = w BY <1>f, <1>w, <1>1, <3>2 DEF Opening, Comes, Goes
      <3> QED BY <3>1, <3>2
    <2>5. wire'[n][d] = 0 BY <1>w, <2>3, <2>4 DEF Clear
    <2> QED BY <1>f, <1>1, <1>2, <2>2, <2>3, <2>5 DEF Clear, Is, Goes
  <1>7. Unhanded'
    <2>1. handed[m] # 0 BY <1>0, <1>f, <1>w DEF Unhanded
    <2> QED BY <1>0, <1>f, <1>1, <1>2, <1>w, <2>1 DEF Unhanded, Goes
  <1> QED BY <1>3, <1>4, <1>5, <1>6, <1>7 DEF OnceInv

LEMMA CopyOnce ==
  ASSUME BaseInv, OnceInv, NEW w \in Workers, NEW c \in Clients, NEW x \in Copies, CopyFor(w, c, x)
  PROVE  OnceInv'
  <1>0. Marked /\ Traced /\ Single /\ First /\ Unhanded BY DEF OnceInv
  <1>b. Held /\ Scanned /\ Entered /\ Types BY DEF BaseInv
  <1>f. /\ UNCHANGED <<flight, scan, ack, wire, handed, acked>> /\ worker[w].pc = "loop" /\ c \in worker[w].todo
        /\ Goes(w, "map", worker[w].todo \ {c}, x)
    BY CopyEffect
  <1>p. Copied(w, c, x) BY CopyEffect
  <1>q. Unused(x) BY CopyEffect
  <1>c. /\ copy'[x].msg = worker[w].msg /\ copy'[x].client = c /\ (\A y \in Copies: y # x => copy'[y] = copy[y])
        /\ Queued(heap') = Queued(heap) /\ \A y \in Copies: y # x => heap'.index[y] = heap.index[y]
    BY <1>p DEF Copied
  <1>2. \A v \in Workers: v # w => worker'[v] = worker[v] BY <1>f DEF Goes, Alone
  <1>i. \A y \in Copies, n \in Msgs, d \in Clients: y # x => (Is(y, n, d)' <=> Is(y, n, d)) BY <1>c DEF Is
  <1>v. \A v \in Workers: worker[v].pc \in Delivering => worker[v].cur \in Copies /\ worker[v].cur # x
    BY <1>b, <1>q DEF Held, HeldBy, Unused
  <1>t. ASSUME NEW v \in Workers, NEW n \in Msgs, NEW d \in Clients
        PROVE  (Token(v, n, d)' => Token(v, n, d)) /\ (Comes(v, n, d)' => Comes(v, n, d)) /\ (Writes(v, n, d)' => Writes(v, n, d))
    <2>1. CASE v = w BY <1>f, <1>c, <2>1 DEF Token, Comes, Writes, Goes
    <2>2. CASE v # w BY <1>2, <1>c, <1>v, <2>2 DEF Token, Comes, Writes, Is, Delivering
    <2> QED BY <2>1, <2>2
  <1>3. Marked' BY <1>0, <1>f, <1>2, <1>c, <1>q DEF Marked, Goes, Unused
  <1>4. Traced' BY <1>0, <1>f, <1>2, <1>c DEF Traced
  <1>5. Single' BY <1>0, <1>f, <1>t DEF Single
  <1>6. First'
    <2> SUFFICES ASSUME NEW v \in Workers, NEW n \in Msgs, NEW d \in Clients, Opening(v, n, d)' PROVE Clear(v, n, d)'
      BY DEF First
    <2>1. worker'[v].pc = "heap" => worker'[v] = worker[v] /\ (Is(worker[v].cur, n, d)' <=> Is(worker[v].cur, n, d))
      BY <1>f, <1>2, <1>c, <1>v DEF Goes, Is, Delivering
    <2>2. Opening(v, n, d) BY <1>f, <1>2, <1>t, <2>1 DEF Opening, Goes
    <2>3. Clear(v, n, d) BY <1>0, <2>2 DEF First
    <2>4. \A y \in Queued(heap'): ~Is(y, n, d)' BY <1>c, <1>i, <1>q, <2>3 DEF Clear, Unused
    <2>5. scan'.pc = "pop" => ~Is(scan.cur, n, d)' BY <1>b, <1>f, <1>c, <1>q, <2>3 DEF Clear, Unused, Scanned, Is
    <2> QED BY <1>f, <1>t, <2>1, <2>3, <2>4, <2>5 DEF Clear
  <1>7. Unhanded' BY <1>0, <1>b, <1>f, <1>2, <1>c, <1>q DEF Unhanded, Goes, Unused, Scanned
  <1> QED BY <1>3, <1>4, <1>5, <1>6, <1>7 DEF OnceInv

LEMMA MapOnce ==
  ASSUME BaseInv, OnceInv, NEW w \in Workers, PushInFlightMessage(w)
  PROVE  OnceInv'
  <1>0. Marked /\ Traced /\ Single /\ First /\ Unhanded BY DEF OnceInv
  <1>b. Held /\ Types BY DEF BaseInv
  <1>f. UNCHANGED <<heap, copy, scan, ack, wire, handed, acked>> /\ worker[w].pc = "map" BY MapEffect
  <1>m. PICK x \in Copies, m \in Msgs, c \in Clients:
           /\ x = worker[w].cur /\ Is(x, m, c) /\ m = worker[w].msg /\ c \notin worker[w].todo
           /\ Goes(w, "heap", worker[w].todo, x)
           /\ flight'[m][c] = IF flight[m][c] = 0 THEN x ELSE flight[m][c]
           /\ \A n \in Msgs, d \in Clients: n # m \/ d # c => flight'[n][d] = flight[n][d]
    BY MapEffect
  <1>2. Alone(w) /\ \A v \in Workers: v # w => worker'[v] = worker[v] BY <1>m DEF Goes, Alone
  <1>z. Token(w, m, c) /\ Comes(w, m, c) BY <1>f, <1>m DEF Token, Comes, Is
  <1>y. flight[m][c] = 0 /\ flight'[m][c] = x /\ <<m, c>> \notin acked /\ x # 0 BY <1>0, <1>m, <1>z, Constants DEF Single
  <1>t. ASSUME NEW v \in Workers, NEW n \in Msgs, NEW d \in Clients, Token(v, n, d)'
        PROVE  Token(v, n, d) /\ ~(n = m /\ d = c)
    <2>1. CASE v = w BY <1>f, <1>m, <1>t, <2>1 DEF Token, Comes, Goes
    <2>2. CASE v # w
      <3>1. Token(v, n, d) BY <1>f, <1>2, <1>t, <2>2, Others
      <3>2. CASE n = m /\ d = c BY <1>0, <1>z, <2>2, <3>1, <3>2 DEF Single
      <3> QED BY <3>1, <3>2
    <2> QED BY <2>1, <2>2
  <1>3. Marked'
    <2>1. \A d \in Clients: ack[d] # 0 => ack[d] # x BY <1>0, <1>f, <1>m DEF Marked
    <2>2. \A d \in Clients, n \in Msgs, e \in Clients: ack[d] # 0 => flight'[n][e] # ack[d] BY <1>0, <1>m, <1>y, <2>1 DEF Marked
    <2> QED BY <1>0, <1>f, <1>m, <1>2, <2>2 DEF Marked, Goes
  <1>4. Traced'
    <2> SUFFICES ASSUME NEW n \in Msgs, NEW d \in Clients, flight'[n][d] # 0
                 PROVE  \/ flight'[n][d] \in Queued(heap')
                        \/ \E v \in Workers: worker'[v].pc = "heap" /\ worker'[v].cur = flight'[n][d]
                        \/ scan'.pc = "pop" /\ scan'.cur = flight'[n][d]
      BY DEF Traced
    <2>1. CASE n = m /\ d = c BY <1>m, <1>y, <2>1 DEF Goes
    <2>2. CASE ~(n = m /\ d = c)
      <3>1. flight'[n][d] = flight[n][d] BY <1>m, <2>2
      <3>2. \/ flight[n][d] \in Queued(heap)
            \/ \E v \in Workers: worker[v].pc = "heap" /\ worker[v].cur = flight[n][d]
            \/ scan.pc = "pop" /\ scan.cur = flight[n][d]
        BY <1>0, <3>1 DEF Traced
      <3> QED BY <1>f, <1>2, <3>1, <3>2
    <2> QED BY <2>1, <2>2
  <1>5. Single'
    <2>1. ASSUME NEW n \in Msgs, NEW d \in Clients, <<n, d>> \in acked' PROVE flight'[n][d] = 0
      BY <1>0, <1>f, <1>m, <1>y, <2>1 DEF Single
    <2>2. ASSUME NEW v \in Workers, NEW n \in Msgs, NEW d \in Clients, Token(v, n, d)'
          PROVE  flight'[n][d] = 0 /\ <<n, d>> \notin acked'
      BY <1>0, <1>f, <1>m, <1>t, <2>2 DEF Single
    <2>3. ASSUME NEW v \in Workers, NEW u \in Workers, NEW n \in Msgs, NEW d \in Clients, Token(v, n, d)', Token(u, n, d)'
          PROVE  v = u
      BY <1>0, <1>t, <2>3 DEF Single
    <2> QED BY <2>1, <2>2, <2>3 DEF Single
  <1>6. First'
    <2> SUFFICES ASSUME NEW v \in Workers, NEW n \in Msgs, NEW d \in Clients, Opening(v, n, d)' PROVE Clear(v, n, d)'
      BY DEF First
    <2>1. CASE v = w
      <3>1. Opening(w, n, d) BY <1>f, <1>m, <1>z, <2>1 DEF Opening, Comes, Goes, Is
      <3>2. Clear(w, n, d) BY <1>0, <3>1 DEF First
      <3>3. \A u \in Workers: u # w => ~Writes(u, n, d)' BY <1>f, <1>2, <3>2, Others DEF Clear
      <3>4. Is(x, n, d) => n = m /\ d = c BY <1>m DEF Is
      <3> QED BY <1>f, <1>m, <1>y, <2>1, <3>2, <3>3, <3>4 DEF Clear, Is, Goes
    <2>2. CASE v # w
      <3>1. Opening(v, n, d) BY <1>f, <1>2, <2>2 DEF Opening, Comes, Is
      <3>2. Clear(v, n, d) BY <1>0, <3>1 DEF First
      <3>3. ~(n = m /\ d = c)
        <4> SUFFICES ASSUME n = m, d = c PROVE FALSE OBVIOUS
        <4>1. CASE Comes(v, n, d)
          <5>1. Token(v, m, c) BY <4>1 DEF Token
          <5> QED BY <1>0, <1>z, <2>2, <5>1 DEF Single
        <4>2. CASE worker[v].pc = "heap" /\ Is(worker[v].cur, n, d)
          <5>1. flight[m][c] = worker[v].cur BY <3>2, <4>2 DEF Clear
          <5>2. worker[v].cur \in Copies BY <1>b, <4>2 DEF Held, HeldBy, Delivering
          <5> QED BY <1>y, <5>1, <5>2, Constants
        <4> QED BY <3>1, <4>1, <4>2 DEF Opening
      <3>4. \A u \in Workers: u # v => ~Writes(u, n, d)'
        <4>1. ~Writes(w, n, d)' BY <1>f, <1>m, <3>3 DEF Writes, Is, Goes
        <4> QED BY <1>f, <1>2, <3>2, <4>1, Others DEF Clear
      <3> QED BY <1>f, <1>m, <1>2, <2>2, <3>2, <3>3, <3>4 DEF Clear, Is
    <2> QED BY <2>1, <2>2
  <1>7. Unhanded'
    <2>1. handed[m] # 0 BY <1>0, <1>f, <1>m DEF Unhanded
    <2> QED BY <1>0, <1>f, <1>m, <1>2, <2>1 DEF Unhanded, Goes
  <1> QED BY <1>3, <1>4, <1>5, <1>6, <1>7 DEF OnceInv

LEMMA AddOnce ==
  ASSUME BaseInv, OnceInv, NEW w \in Workers, AddToInFlightPQ(w)
  PROVE  OnceInv'
  <1>0. Marked /\ Traced /\ Single /\ First /\ Unhanded BY DEF OnceInv
  <1>b. Held /\ Types BY DEF BaseInv
  <1>f. UNCHANGED <<flight, copy, scan, ack, wire, handed, acked>> /\ worker[w].pc = "heap" BY AddEffect
  <1>x. PICK x \in Copies:
           /\ x = worker[w].cur /\ Goes(w, "write", worker[w].todo, x) /\ Queued(heap') = Queued(heap) \cup {x}
           /\ \A y \in Copies: y # x /\ y \notin Queued(heap) => heap'.index[y] = heap.index[y]
    BY AddEffect
  <1>2. Alone(w) /\ \A v \in Workers: v # w => worker'[v] = worker[v] BY <1>x DEF Goes, Alone
  <1>t. ASSUME NEW v \in Workers, NEW n \in Msgs, NEW d \in Clients
        PROVE  (Token(v, n, d)' => Token(v, n, d)) /\ (Comes(v, n, d)' => Comes(v, n, d)) /\ (Writes(v, n, d)' => Writes(v, n, d))
    <2>1. CASE v = w BY <1>f, <1>x, <2>1 DEF Token, Comes, Writes, Goes, Is
    <2>2. CASE v # w BY <1>f, <1>2, <2>2, Others
    <2> QED BY <2>1, <2>2
  <1>3. Marked'
    <2>1. \A d \in Clients: ack[d] \in Copies \cup {0} BY <1>b, FieldTypes
    <2> QED BY <1>0, <1>f, <1>x, <1>2, <2>1 DEF Marked, Goes
  <1>4. Traced' BY <1>0, <1>f, <1>x, <1>2 DEF Traced
  <1>5. Single' BY <1>0, <1>f, <1>t DEF Single
  <1>6. First'
    <2> SUFFICES ASSUME NEW v \in Workers, NEW n \in Msgs, NEW d \in Clients, Opening(v, n, d)' PROVE Clear(v, n, d)'
      BY DEF First
    <2>1. Opening(v, n, d) BY <1>f, <1>x, <1>2, <1>t DEF Opening, Is, Goes
    <2>2. Clear(v, n, d) BY <1>0, <2>1 DEF First
    <2>3. ~Is(x, n, d)
      <3>1. CASE v = w
        <4>1. d \in worker[w].todo BY <1>x, <3>1 DEF Opening, Comes, Goes
        <4>2. copy[x].client \notin worker[w].todo BY <1>b, <1>f, <1>x DEF Held, HeldBy, Delivering
        <4> QED BY <4>1, <4>2 DEF Is
      <3>2. CASE v # w BY <1>f, <1>x, <2>2, <3>2 DEF Clear, Writes
      <3> QED BY <3>1, <3>2
    <2> QED BY <1>f, <1>x, <1>2, <1>t, <2>2, <2>3 DEF Clear, Is, Goes
  <1>7. Unhanded'
    <2>1. copy[x].msg = worker[w].msg BY <1>b, <1>f, <1>x DEF Held, HeldBy, Delivering
    <2> QED BY <1>0, <1>f, <1>x, <1>2, <2>1 DEF Unhanded, Goes
  <1> QED BY <1>3, <1>4, <1>5, <1>6, <1>7 DEF OnceInv

-----------------------------------------------------------------------------
(* OnceInv: acknowledgements, scans, connections *)

LEMMA SameTokens ==
  ASSUME Single, UNCHANGED <<worker, copy, flight, acked>>
  PROVE  Single'
  <1>1. \A w \in Workers, m \in Msgs, c \in Clients: Token(w, m, c)' <=> Token(w, m, c) BY DEF Token, Comes
  <1> QED BY <1>1 DEF Single

\* Nothing but the clock, connections and packets changes; packets get fewer.
LEMMA FewerPackets ==
  ASSUME OnceInv, UNCHANGED <<heap, flight, copy, worker, scan, ack, handed, acked>>,
         \A n \in Msgs, d \in Clients: wire[n][d] = 0 => wire'[n][d] = 0
  PROVE  OnceInv'
  <1>0. Marked /\ Traced /\ Single /\ First /\ Unhanded BY DEF OnceInv
  <1>3. Marked' BY <1>0 DEF Marked
  <1>4. Traced' BY <1>0 DEF Traced
  <1>5. Single' BY <1>0, SameTokens
  <1>6. First' BY <1>0 DEF First, Opening, Clear, Comes, Writes, Is
  <1>7. Unhanded' BY <1>0 DEF Unhanded
  <1> QED BY <1>3, <1>4, <1>5, <1>6, <1>7 DEF OnceInv

LEMMA ConnectionOnce ==
  ASSUME BaseInv, OnceInv, Tick \/ \E c \in Clients: Connect(c) \/ Disconnect(c)
  PROVE  OnceInv'
  <1>1. UNCHANGED <<heap, flight, copy, worker, scan, ack, handed, acked>> BY DEF Tick, Connect, Disconnect
  <1>2. wire \in [Msgs -> [Clients -> Nat]] BY DEF BaseInv, Types
  <1>3. \A n \in Msgs, d \in Clients: wire[n][d] = 0 => wire'[n][d] = 0
    <2>1. CASE wire' = wire BY <2>1
    <2>2. CASE \E c \in Clients: Disconnect(c)
      <3>1. PICK c \in Clients: wire' = [n \in Msgs |-> [wire[n] EXCEPT ![c] = 0]] BY <2>2 DEF Disconnect
      <3> QED BY <1>2, <3>1
    <2> QED BY <2>1, <2>2 DEF Tick, Connect
  <1> QED BY <1>1, <1>3, FewerPackets

\* What a RECVACK found in the map is in the heap or has been marked: a message
\* whose first copy is not in the heap yet was not sent, so it is not acknowledged.
LEMMA AckMarked ==
  ASSUME BaseInv, OnceInv, NEW c \in Clients, NEW m \in Msgs, Recvack(c, m), flight[m][c] # 0
  PROVE  heap.index[flight[m][c]] = -1 \/ flight[m][c] \in Queued(heap)
  <1>0. Types /\ Held /\ Apart /\ Scanned /\ Entered BY DEF BaseInv
  <1> DEFINE x == flight[m][c]
  <1>1. Is(x, m, c) /\ wire[m][c] > 0 /\ wire[m][c] \in Nat BY <1>0, FieldTypes DEF Entered, Recvack
  <1>2. \/ x \in Queued(heap)
        \/ \E w \in Workers : worker[w].pc = "heap" /\ worker[w].cur = x
        \/ scan.pc = "pop" /\ scan.cur = x
    BY DEF OnceInv, Traced
  <1> HIDE DEF x
  <1>3. CASE scan.pc = "pop" /\ scan.cur = x BY <1>0, <1>3 DEF Scanned, x
  <1>4. ASSUME NEW w \in Workers, worker[w].pc = "heap", worker[w].cur = x PROVE heap.index[x] = -1
    <2>1. worker[w].to # 0
      <3> SUFFICES ASSUME worker[w].to = 0 PROVE FALSE OBVIOUS
      <3>1. Opening(w, m, c) BY <1>1, <1>4 DEF Opening
      <3>2. Clear(w, m, c) BY <3>1 DEF OnceInv, First
      <3> QED BY <1>1, <3>2 DEF Clear
    <2>2. worker[w].index \in {0, -1} /\ (worker[w].index = 0 <=> worker[w].to = 0) BY <1>0, <1>4, FieldTypes DEF Held, HeldBy
    <2>3. heap.index[worker[w].cur] = worker[w].index BY <1>0, <1>4 DEF Apart
    <2> QED BY <1>4, <2>1, <2>2, <2>3
  <1> QED BY <1>2, <1>3, <1>4 DEF x

LEMMA RecvackOnce ==
  ASSUME BaseInv, OnceInv, NEW c \in Clients, NEW m \in Msgs, Recvack(c, m)
  PROVE  OnceInv'
  <1>0. Marked /\ Traced /\ Single /\ First /\ Unhanded BY DEF OnceInv
  <1>b. Held /\ Entered /\ Types BY DEF BaseInv
  <1>x. PICK x \in Copies \cup {0}: x = flight[m][c] BY RecvackEffect
  <1>f. /\ UNCHANGED <<heap, copy, worker, scan, handed>> /\ wire[m][c] > 0 /\ wire[m][c] \in Nat
        /\ acked' = (IF x = 0 THEN acked ELSE acked \cup {<<m, c>>})
        /\ ack'[c] = x /\ \A d \in Clients: d # c => ack'[d] = ack[d]
    BY <1>x, RecvackEffect
  <1>w. flight'[m][c] = 0 /\ \A n \in Msgs, d \in Clients: n # m \/ d # c => flight'[n][d] = flight[n][d] BY RecvackEffect
  <1>v. \A n \in Msgs, d \in Clients: n # m \/ d # c => wire'[n][d] = wire[n][d] BY RecvackEffect
  <1>o. \A w \in Workers: ~Opening(w, m, c) BY <1>0, <1>f DEF First, Clear
  <1>a. \A n \in Msgs, d \in Clients: <<n, d>> \in acked' => <<n, d>> \in acked \/ (n = m /\ d = c /\ x # 0) BY <1>f
  <1>i. x # 0 => Is(x, m, c) BY <1>b, <1>x DEF Entered
  <1>3. Marked'
    <2>1. ASSUME x # 0 PROVE heap.index[x] = -1 \/ x \in Queued(heap) BY <1>x, <2>1, AckMarked
    <2>2. ASSUME x # 0, NEW n \in Msgs, NEW d \in Clients PROVE flight'[n][d] # x
      BY <1>b, <1>w, <1>i, <2>2 DEF Entered, Is
    <2>3. ASSUME x # 0, NEW w \in Workers, worker[w].pc = "map" PROVE worker[w].cur # x
      <3> SUFFICES ASSUME worker[w].cur = x PROVE FALSE OBVIOUS
      <3>1. worker[w].msg = m BY <1>b, <1>i, <2>3 DEF Held, HeldBy, Delivering, Is
      <3>2. Token(w, m, c) BY <1>i, <2>3, <3>1 DEF Token, Comes, Is
      <3> QED BY <1>0, <1>x, <2>3, <3>2 DEF Single
    <2>4. ASSUME NEW d \in Clients, ack'[d] # 0
          PROVE  /\ heap.index[ack'[d]] = -1 \/ ack'[d] \in Queued(heap)
                 /\ \A n \in Msgs, e \in Clients: flight'[n][e] # ack'[d]
                 /\ \A w \in Workers: worker[w].pc = "map" => worker[w].cur # ack'[d]
      <3>1. CASE d = c BY <1>f, <2>1, <2>2, <2>3, <2>4, <3>1
      <3>2. CASE d # c BY <1>0, <1>f, <1>w, <2>4, <3>2 DEF Marked
      <3> QED BY <3>1, <3>2
    <2> QED BY <1>0, <1>f, <2>4 DEF Marked
  <1>4. Traced'
    <2>1. \A n \in Msgs, d \in Clients: flight'[n][d] # 0 => flight'[n][d] = flight[n][d] BY <1>w
    <2> QED BY <1>0, <1>f, <2>1 DEF Traced
  <1>5. Single'
    <2>1. \A w \in Workers, n \in Msgs, d \in Clients: Token(w, n, d)' <=> Token(w, n, d) BY <1>f DEF Token, Comes
    <2>2. ASSUME NEW w \in Workers, NEW n \in Msgs, NEW d \in Clients, Token(w, n, d)
          PROVE  flight'[n][d] = 0 /\ <<n, d>> \notin acked'
      <3>1. flight[n][d] = 0 /\ <<n, d>> \notin acked BY <1>0, <2>2 DEF Single
      <3> QED BY <1>w, <1>a, <1>x, <3>1
    <2>3. \A n \in Msgs, d \in Clients: <<n, d>> \in acked' => flight'[n][d] = 0 BY <1>0, <1>w, <1>a DEF Single
    <2> QED BY <1>0, <2>1, <2>2, <2>3 DEF Single
  <1>6. First'
    <2> SUFFICES ASSUME NEW w \in Workers, NEW n \in Msgs, NEW d \in Clients, Opening(w, n, d)' PROVE Clear(w, n, d)'
      BY DEF First
    <2>1. Opening(w, n, d) BY <1>f DEF Opening, Comes, Is
    <2>2. Clear(w, n, d) /\ ~(n = m /\ d = c) BY <1>0, <1>o, <2>1 DEF First
    <2> QED BY <1>f, <1>w, <1>v, <2>2 DEF Clear, Writes, Is
  <1>7. Unhanded'
    <2>1. wire[m][c] # 0 BY <1>f
    <2>2. handed[m] # 0 BY <1>0, <2>1 DEF Unhanded
    <2> QED BY <1>0, <1>f, <1>w, <1>v, <1>a, <2>2 DEF Unhanded
  <1> QED BY <1>3, <1>4, <1>5, <1>6, <1>7 DEF OnceInv

LEMMA RecvackRemoveOnce ==
  ASSUME BaseInv, OnceInv, NEW c \in Clients, RecvackRemove(c)
  PROVE  OnceInv' /\ ~panicked'
  <1>0. Marked /\ Traced /\ Single /\ First /\ Unhanded BY DEF OnceInv
  <1>b. Types /\ HeapOK BY DEF BaseInv
  <1>f. /\ UNCHANGED <<flight, copy, worker, scan, wire, handed, acked>>
        /\ ack[c] # 0 /\ RemoveFromInFlightPQ(ack[c]) /\ ack' = [ack EXCEPT ![c] = 0]
    BY DEF RecvackRemove
  <1>k. /\ \A d \in Clients: ack[d] \in Copies \cup {0}
        /\ ack'[c] = 0 /\ \A d \in Clients: d # c => ack'[d] = ack[d]
    BY <1>b, <1>f DEF Types
  <1>x. PICK x \in Copies: x = ack[c] BY <1>f, <1>k
  <1>h. Without(x) /\ ~panicked' BY <1>0, <1>b, <1>f, <1>x, RemovedPQ DEF Marked
  <1>3. Marked' BY <1>0, <1>f, <1>k, <1>x, <1>h DEF Marked, Without
  <1>4. Traced' BY <1>0, <1>f, <1>x, <1>h DEF Traced, Marked, Without
  <1>5. Single' BY <1>0, <1>f, SameTokens
  <1>6. First' BY <1>0, <1>f, <1>h DEF First, Opening, Clear, Comes, Writes, Is, Without
  <1>7. Unhanded' BY <1>0, <1>f, <1>h DEF Unhanded, Without
  <1> QED BY <1>h, <1>3, <1>4, <1>5, <1>6, <1>7 DEF OnceInv

\* The scan lets go of a copy that is in flight no more, or has none.
LEMMA ScanOnce ==
  ASSUME BaseInv, OnceInv, Scan \/ ScanGone
  PROVE  OnceInv'
  <1>0. Marked /\ Traced /\ Single /\ First /\ Unhanded BY DEF OnceInv
  <1>b. Scanned /\ Entered /\ Types BY DEF BaseInv
  <1>f. UNCHANGED <<heap, flight, copy, worker, ack, wire, handed, acked>> /\ scan'.pc # "pop" BY DEF Scan, ScanGone
  <1>3. Marked' BY <1>0, <1>f DEF Marked
  <1>4. Traced'
    <2>1. ASSUME NEW n \in Msgs, NEW d \in Clients, flight[n][d] # 0, scan.pc = "pop" PROVE scan.cur # flight[n][d]
      BY <1>b, <2>1 DEF Scan, ScanGone, Entered, Is
    <2> QED BY <1>0, <1>f, <2>1 DEF Traced
  <1>5. Single' BY <1>0, <1>f, SameTokens
  <1>6. First' BY <1>0, <1>f DEF First, Opening, Clear, Comes, Writes, Is
  <1>7. Unhanded' BY <1>0, <1>f DEF Unhanded
  <1> QED BY <1>3, <1>4, <1>5, <1>6, <1>7 DEF OnceInv

LEMMA PeekOnce ==
  ASSUME BaseInv, OnceInv, ScanPeek
  PROVE  OnceInv'
  <1>0. Marked /\ Traced /\ Single /\ First /\ Unhanded BY DEF OnceInv
  <1>b. HeapOK /\ Types BY DEF BaseInv
  <1>f. UNCHANGED <<flight, copy, worker, ack, wire, handed, acked>> /\ scan.pc = "peek" BY DEF ScanPeek
  <1>5. Single' BY <1>0, <1>f, SameTokens
  <1>1. CASE ~Expired(heap, scan.t)
    <2>1. heap' = heap /\ scan'.pc # "pop" BY <1>1 DEF ScanPeek
    <2>3. Marked' BY <1>0, <1>f, <2>1 DEF Marked
    <2>4. Traced' BY <1>0, <1>f, <2>1 DEF Traced
    <2>6. First' BY <1>0, <1>f, <2>1 DEF First, Opening, Clear, Comes, Writes, Is
    <2>7. Unhanded' BY <1>0, <1>f, <2>1 DEF Unhanded
    <2> QED BY <1>5, <2>3, <2>4, <2>6, <2>7 DEF OnceInv
  <1>2. CASE Expired(heap, scan.t)
    <2> DEFINE x == Slot(heap, 0)
    <2>1. heap' = Pop(heap, 25) /\ scan' = [pc |-> "pop", t |-> scan.t, cur |-> x] BY <1>2 DEF ScanPeek
    <2>2. scan.t \in Nat BY <1>b, FieldTypes, Constants
    <2>h. x \in Copies /\ x \in Queued(heap) /\ Without(x) BY <1>b, <1>2, <2>1, <2>2, Popped
    <2>s. scan'.pc = "pop" /\ scan'.cur = x BY <2>1
    <2> HIDE DEF x
    <2>k. \A d \in Clients: ack[d] \in Copies \cup {0} BY <1>b, FieldTypes
    <2>3. Marked' BY <1>0, <1>f, <2>h, <2>k DEF Marked, Without
    <2>4. Traced' BY <1>0, <1>f, <2>h, <2>s DEF Traced, Without
    <2>6. First'
      <3> SUFFICES ASSUME NEW w \in Workers, NEW n \in Msgs, NEW d \in Clients, Opening(w, n, d)' PROVE Clear(w, n, d)'
        BY DEF First
      <3>1. Opening(w, n, d) BY <1>f DEF Opening, Comes, Is
      <3>2. Clear(w, n, d) BY <1>0, <3>1 DEF First
      <3> QED BY <1>f, <2>h, <2>s, <3>2 DEF Clear, Writes, Is, Without
    <2>7. Unhanded' BY <1>0, <1>f, <2>h, <2>s DEF Unhanded, Without
    <2> QED BY <1>5, <2>3, <2>4, <2>6, <2>7 DEF OnceInv
  <1> QED BY <1>1, <1>2

\* The deliveries in N, one or none, are new ones of m to the connection to, or
\* to any; nothing else is new.
Joined(N, m, to) ==
    /\ \A w \in N: worker[w].pc = "idle" /\ worker'[w].pc = "start" /\ worker'[w].msg = m /\ worker'[w].to = to
    /\ \A w \in Workers \ N: worker'[w] = worker[w]
    /\ \A w, v \in N: w = v
    /\ \A v \in Workers, n \in Msgs, d \in Clients:
          /\ Token(v, n, d)' => Token(v, n, d) \/ (v \in N /\ n = m /\ to \in {0, d})
          /\ Comes(v, n, d)' => Comes(v, n, d) \/ (v \in N /\ n = m /\ to \in {0, d})
          /\ Writes(v, n, d)' <=> Writes(v, n, d)

LEMMA JoinedFacts ==
  ASSUME NEW m \in Msgs, NEW to \in Clients \cup {0}, NEW index, copy' = copy,
         worker' = worker \/ \E w \in Workers: worker[w].pc = "idle" /\ Starts(w, m, to, index)
  PROVE  \E N \in SUBSET Workers: Joined(N, m, to)
  <1>1. CASE worker' = worker
    <2>1. \A v \in Workers, n \in Msgs, d \in Clients:
             (Token(v, n, d)' <=> Token(v, n, d)) /\ (Comes(v, n, d)' <=> Comes(v, n, d)) /\ (Writes(v, n, d)' <=> Writes(v, n, d))
      BY <1>1 DEF Token, Comes, Writes, Is
    <2>2. Joined({}, m, to) BY <1>1, <2>1 DEF Joined
    <2> QED BY <2>2
  <1>2. ASSUME NEW w \in Workers, worker[w].pc = "idle", Starts(w, m, to, index) PROVE Joined({w}, m, to)
    <2>1. Alone(w) /\ \A v \in Workers: v # w => worker'[v] = worker[v] BY <1>2 DEF Starts, Alone
    <2>2. ASSUME NEW v \in Workers, NEW n \in Msgs, NEW d \in Clients
          PROVE  /\ Token(v, n, d)' => Token(v, n, d) \/ (v = w /\ n = m /\ to \in {0, d})
                 /\ Comes(v, n, d)' => Comes(v, n, d) \/ (v = w /\ n = m /\ to \in {0, d})
                 /\ Writes(v, n, d)' <=> Writes(v, n, d)
      <3>1. CASE v = w BY <1>2, <3>1 DEF Token, Comes, Writes, Starts
      <3>2. CASE v # w BY <2>1, <3>2, Others
      <3> QED BY <3>1, <3>2
    <2>3. worker'[w].pc = "start" /\ worker'[w].msg = m /\ worker'[w].to = to BY <1>2 DEF Starts
    <2> QED BY <1>2, <2>1, <2>2, <2>3 DEF Joined
  <1>3. ASSUME NEW w \in Workers, worker[w].pc = "idle", Starts(w, m, to, index) PROVE \E N \in SUBSET Workers: Joined(N, m, to)
    BY <1>2, <1>3
  <1> QED BY <1>1, <1>3

LEMMA RetryOnce ==
  ASSUME BaseInv, OnceInv, ScanRetry
  PROVE  OnceInv'
  <1>0. Marked /\ Traced /\ Single /\ First /\ Unhanded BY DEF OnceInv
  <1>b. Entered /\ Types BY DEF BaseInv
  <1>f. UNCHANGED <<heap, copy, ack, wire, handed, acked>> /\ scan.pc = "pop" /\ scan'.pc = "peek" BY RetryEffect
  <1>t. PICK m \in Msgs, c \in Clients:
           /\ Is(scan.cur, m, c) /\ c # 0 /\ flight[m][c] # 0 /\ flight'[m][c] = 0
           /\ \A n \in Msgs, d \in Clients: n # m \/ d # c => flight'[n][d] = flight[n][d]
           /\ worker' = worker \/ \E w \in Workers: worker[w].pc = "idle" /\ Starts(w, m, c, -1)
    BY RetryEffect
  <1>n. (\A w \in Workers: ~Token(w, m, c)) /\ <<m, c>> \notin acked BY <1>0, <1>t DEF Single
  <1>o. \A w \in Workers: ~Opening(w, m, c) BY <1>0, <1>f, <1>t DEF First, Clear
  <1>h. handed[m] # 0 BY <1>0, <1>f, <1>t DEF Unhanded, Is
  <1>z. \A n \in Msgs, d \in Clients: flight'[n][d] # 0 => flight'[n][d] = flight[n][d] /\ flight'[n][d] # scan.cur
    BY <1>b, <1>t DEF Entered, Is
  <1>1. PICK N \in SUBSET Workers: Joined(N, m, c)
    <2>1. c \in Clients \cup {0} OBVIOUS
    <2> QED BY <1>f, <1>t, <2>1, JoinedFacts
  <1>2. /\ \A w \in N: worker[w].pc = "idle" /\ worker'[w].pc = "start" /\ worker'[w].msg = m /\ worker'[w].to = c
        /\ \A w \in Workers \ N: worker'[w] = worker[w]
        /\ \A w, v \in N: w = v
        /\ \A v \in Workers, n \in Msgs, d \in Clients:
              /\ Token(v, n, d)' => Token(v, n, d) \/ (v \in N /\ n = m /\ d = c)
              /\ Writes(v, n, d)' <=> Writes(v, n, d)
    BY <1>t, <1>1 DEF Joined
  <1>3. Marked'
    <2>1. \A w \in Workers: worker'[w].pc \in {"map", "remove"} => worker'[w] = worker[w] BY <1>2
    <2> QED BY <1>0, <1>f, <1>z, <2>1 DEF Marked
  <1>4. Traced' BY <1>0, <1>f, <1>z, <1>2 DEF Traced
  <1>5. Single'
    <2>1. ASSUME NEW v \in Workers, NEW n \in Msgs, NEW d \in Clients, Token(v, n, d)'
          PROVE  flight'[n][d] = 0 /\ <<n, d>> \notin acked'
      <3>1. CASE n = m /\ d = c BY <1>f, <1>t, <1>n, <3>1
      <3>2. CASE ~(n = m /\ d = c) BY <1>0, <1>f, <1>t, <1>2, <2>1, <3>2 DEF Single
      <3> QED BY <3>1, <3>2
    <2>2. ASSUME NEW v \in Workers, NEW u \in Workers, NEW n \in Msgs, NEW d \in Clients, Token(v, n, d)', Token(u, n, d)'
          PROVE  v = u
      <3>1. CASE n = m /\ d = c BY <1>n, <1>2, <2>2, <3>1
      <3>2. CASE ~(n = m /\ d = c)
        <4>1. Token(v, n, d) /\ Token(u, n, d) BY <1>2, <2>2, <3>2
        <4> QED BY <1>0, <4>1 DEF Single
      <3> QED BY <3>1, <3>2
    <2>3. \A n \in Msgs, d \in Clients: <<n, d>> \in acked' => flight'[n][d] = 0 BY <1>0, <1>f, <1>t DEF Single
    <2> QED BY <2>1, <2>2, <2>3 DEF Single
  <1>6. First'
    <2> SUFFICES ASSUME NEW v \in Workers, NEW n \in Msgs, NEW d \in Clients, Opening(v, n, d)' PROVE Clear(v, n, d)'
      BY DEF First
    <2>1. v \notin N /\ worker'[v] = worker[v] BY <1>t, <1>2 DEF Opening
    <2>2. Opening(v, n, d) BY <1>f, <2>1 DEF Opening, Comes, Is
    <2>3. Clear(v, n, d) /\ ~(n = m /\ d = c) BY <1>0, <1>o, <2>2 DEF First
    <2> QED BY <1>f, <1>t, <1>2, <2>1, <2>3 DEF Clear, Is
  <1>7. Unhanded' BY <1>0, <1>f, <1>t, <1>h, <1>2 DEF Unhanded
  <1> QED BY <1>3, <1>4, <1>5, <1>6, <1>7 DEF OnceInv

\* The only step that needs Once: what is handed over was not before.
LEMMA DeliverOnce ==
  ASSUME Once', BaseInv, OnceInv, NEW m \in Msgs, Deliver(m)
  PROVE  OnceInv'
  <1>0. Marked /\ Traced /\ Single /\ First /\ Unhanded BY DEF OnceInv
  <1>b. Held /\ Types BY DEF BaseInv
  <1>f. UNCHANGED <<heap, flight, copy, scan, ack, wire, acked>> BY DEF Deliver
  <1>h. handed[m] = 0 /\ handed'[m] = 1 /\ \A n \in Msgs: n # m => handed'[n] = handed[n]
    <2>1. handed \in [Msgs -> 0 .. MaxDeliveries] /\ MaxDeliveries \in Nat BY <1>b, Constants DEF Types
    <2>2. handed[m] < MaxDeliveries /\ handed' = [handed EXCEPT ![m] = handed[m] + 1] BY DEF Deliver
    <2>3. handed'[m] = handed[m] + 1 /\ handed'[m] <= 1 BY <2>1, <2>2 DEF Once
    <2>4. handed[m] = 0 BY <2>1, <2>3
    <2> QED BY <2>1, <2>2, <2>3, <2>4
  <1>u. /\ \A w \in Workers: worker[w].pc # "idle" => worker[w].msg # m
        /\ \A c \in Clients: wire[m][c] = 0 /\ flight[m][c] = 0 /\ <<m, c>> \notin acked
        /\ \A x \in Queued(heap): copy[x].msg # m
        /\ scan.pc = "pop" => copy[scan.cur].msg # m
    BY <1>0, <1>h DEF Unhanded
  <1>n. \A w \in Workers, d \in Clients: ~Token(w, m, d) /\ ~Writes(w, m, d)
    BY <1>b, <1>u DEF Token, Comes, Writes, Is, Held, HeldBy, Delivering
  <1>1. PICK N \in SUBSET Workers: Joined(N, m, 0)
    <2>1. Submit(m, 0, 0) /\ 0 \in Clients \cup {0} /\ 0 \in {0, -1} BY DEF Deliver
    <2>2. worker' = worker \/ \E w \in Workers: worker[w].pc = "idle" /\ Starts(w, m, 0, 0) BY <1>b, <2>1, SubmitFacts
    <2> QED BY <1>f, <2>1, <2>2, JoinedFacts
  <1>2. /\ \A w \in N: worker[w].pc = "idle" /\ worker'[w].pc = "start" /\ worker'[w].msg = m /\ worker'[w].to = 0
        /\ \A w \in Workers \ N: worker'[w] = worker[w]
        /\ \A w, v \in N: w = v
        /\ \A v \in Workers, n \in Msgs, d \in Clients:
              /\ Token(v, n, d)' => Token(v, n, d) \/ (v \in N /\ n = m)
              /\ Writes(v, n, d)' <=> Writes(v, n, d)
    BY <1>1 DEF Joined
  <1>3. Marked'
    <2>1. \A w \in Workers: worker'[w].pc \in {"map", "remove"} => worker'[w] = worker[w] BY <1>2
    <2> QED BY <1>0, <1>f, <2>1 DEF Marked
  <1>4. Traced' BY <1>0, <1>f, <1>2 DEF Traced
  <1>5. Single'
    <2>1. ASSUME NEW v \in Workers, NEW n \in Msgs, NEW d \in Clients, Token(v, n, d)'
          PROVE  flight'[n][d] = 0 /\ <<n, d>> \notin acked'
      <3>1. CASE n = m BY <1>f, <1>u, <3>1
      <3>2. CASE n # m BY <1>0, <1>f, <1>2, <2>1, <3>2 DEF Single
      <3> QED BY <3>1, <3>2
    <2>2. ASSUME NEW v \in Workers, NEW u \in Workers, NEW n \in Msgs, NEW d \in Clients, Token(v, n, d)', Token(u, n, d)'
          PROVE  v = u
      <3>1. CASE n = m BY <1>n, <1>2, <2>2, <3>1
      <3>2. CASE n # m
        <4>1. Token(v, n, d) /\ Token(u, n, d) BY <1>2, <2>2, <3>2
        <4> QED BY <1>0, <4>1 DEF Single
      <3> QED BY <3>1, <3>2
    <2>3. \A n \in Msgs, d \in Clients: <<n, d>> \in acked' => flight'[n][d] = 0 BY <1>0, <1>f DEF Single
    <2> QED BY <2>1, <2>2, <2>3 DEF Single
  <1>6. First'
    <2> SUFFICES ASSUME NEW v \in Workers, NEW n \in Msgs, NEW d \in Clients, Opening(v, n, d)' PROVE Clear(v, n, d)'
      BY DEF First
    <2>1. CASE n = m BY <1>f, <1>u, <1>n, <1>2, <2>1 DEF Clear, Is, Writes
    <2>2. CASE n # m
      <3>1. v \notin N /\ worker'[v] = worker[v] BY <1>2, <2>2 DEF Opening, Comes
      <3>2. Opening(v, n, d) BY <1>f, <3>1 DEF Opening, Comes, Is
      <3>3. Clear(v, n, d) BY <1>0, <3>2 DEF First
      <3> QED BY <1>f, <1>2, <3>1, <3>3 DEF Clear, Is
    <2> QED BY <2>1, <2>2
  <1>7. Unhanded' BY <1>0, <1>f, <1>h, <1>2 DEF Unhanded
  <1> QED BY <1>3, <1>4, <1>5, <1>6, <1>7 DEF OnceInv

LEMMA InitOnce ==
  ASSUME Init
  PROVE  OnceInv
  <1>1. BaseInv /\ Queued(heap) = {} BY InitBase
  <1>2. \A w \in Workers: worker[w].pc = "idle" BY DEF Init, Idle
  <1>3. scan.pc = "idle" /\ (\A c \in Clients: ack[c] = 0) /\ acked = {} BY DEF Init
  <1>4. \A m \in Msgs, c \in Clients: flight[m][c] = 0 /\ wire[m][c] = 0 BY DEF Init
  <1>5. \A w \in Workers, m \in Msgs, c \in Clients: ~Token(w, m, c) /\ ~Opening(w, m, c) BY <1>2 DEF Token, Comes, Opening
  <1>6. Marked /\ Traced BY <1>2, <1>3, <1>4 DEF Marked, Traced
  <1>7. Single /\ First BY <1>3, <1>5 DEF Single, First
  <1>8. Unhanded BY <1>1, <1>2, <1>3, <1>4 DEF Unhanded
  <1> QED BY <1>6, <1>7, <1>8 DEF OnceInv

LEMMA NextOnce ==
  ASSUME Once', BaseInv, OnceInv, Next
  PROVE  OnceInv'
  <1>1. ASSUME NEW w \in Workers, DeliverySteps(w) PROVE OnceInv'
    BY <1>1, FindOnce, CopyOnce, LoopOnce, MapOnce, AddOnce, WriteOnce, OfflineOnce DEF DeliverySteps
  <1>2. ASSUME NEW c \in Clients, (\E m \in Msgs: Recvack(c, m)) \/ RecvackRemove(c) \/ Connect(c) \/ Disconnect(c) PROVE OnceInv'
    BY <1>2, RecvackOnce, RecvackRemoveOnce, ConnectionOnce
  <1>3. ASSUME Scan \/ ScanSteps \/ Tick PROVE OnceInv'
    BY <1>3, ScanOnce, PeekOnce, RetryOnce, ConnectionOnce DEF ScanSteps
  <1> QED BY <1>1, <1>2, <1>3, DeliverOnce DEF Next

LEMMA StutterOnce ==
  ASSUME OnceInv, UNCHANGED vars
  PROVE  OnceInv'
  <1>1. UNCHANGED <<heap, flight, copy, worker, scan, ack, wire, handed, acked>> BY DEF vars
  <1>2. \A n \in Msgs, d \in Clients: wire[n][d] = 0 => wire'[n][d] = 0 BY <1>1
  <1> QED BY <1>1, <1>2, FewerPackets

\* What was handed over at most once was so before.
LEMMA OnceBefore ==
  ASSUME BaseInv, [Next]_vars, Once'
  PROVE  Once
  <1>1. CASE UNCHANGED handed BY <1>1 DEF Once
  <1>2. ASSUME NEW m \in Msgs, Deliver(m) PROVE Once
    <2>1. handed \in [Msgs -> 0 .. MaxDeliveries] /\ MaxDeliveries \in Nat BY Constants DEF BaseInv, Types
    <2>2. handed' = [handed EXCEPT ![m] = handed[m] + 1] BY <1>2 DEF Deliver
    <2>3. \A n \in Msgs: handed[n] \in Nat /\ handed'[n] <= 1 /\ (handed'[n] = handed[n] \/ handed'[n] = handed[n] + 1)
      BY <2>1, <2>2 DEF Once
    <2> QED BY <2>3 DEF Once
  <1>3. ASSUME NEW w \in Workers, DeliverySteps(w) PROVE UNCHANGED handed
    BY <1>3 DEF DeliverySteps, FindClients, CopyFor, Delivered, PushInFlightMessage, AddToInFlightPQ,
                WritePacket, EncryptFails, OfflinePop, OfflineRemove
  <1>4. ASSUME NEW c \in Clients, (\E m \in Msgs: Recvack(c, m)) \/ RecvackRemove(c) \/ Connect(c) \/ Disconnect(c)
        PROVE  UNCHANGED handed
    BY <1>4 DEF Recvack, RecvackRemove, Connect, Disconnect
  <1>5. ASSUME Scan \/ ScanSteps \/ Tick PROVE UNCHANGED handed
    BY <1>5 DEF Scan, ScanSteps, ScanPeek, ScanGone, ScanRetry, Tick
  <1>6. ASSUME UNCHANGED vars PROVE UNCHANGED handed BY <1>6 DEF vars
  <1> QED BY <1>1, <1>2, <1>3, <1>4, <1>5, <1>6 DEF Next

\* Map, heap and deliveries are consistent, and as long as no message has been
\* handed over a second time (as a repeated forward of another node does), a
\* message for a connection is with one delivery, in the map, or done.
THEOREM RetryOnceInductive == Spec => [](BaseInv /\ (Once => OnceInv))
  <1>1. Init => BaseInv /\ (Once => OnceInv) BY InitBase, InitOnce
  <1>2. BaseInv /\ (Once => OnceInv) /\ [Next]_vars => (BaseInv /\ (Once => OnceInv))'
    <2> SUFFICES ASSUME BaseInv, Once => OnceInv, [Next]_vars PROVE BaseInv' /\ (Once' => OnceInv') OBVIOUS
    <2>1. BaseInv' BY NextBase, StutterBase
    <2>2. ASSUME Once' PROVE OnceInv' BY <2>2, OnceBefore, NextOnce, StutterOnce
    <2> QED BY <2>1, <2>2
  <1> QED BY <1>1, <1>2, PTL DEF Spec

\* Tracked: as long as no message has been handed over twice, one that is in
\* the map of messages in flight has its deadline in the heap, its delivery is
\* about to add it, or the scan has just shifted it, although map and heap are
\* changed apart (addToInFlightPQ, finishMessage, processInFlightQueue).
THEOREM RetryTracked == Spec => []Tracked
  <1>1. Spec => [](BaseInv /\ (Once => OnceInv)) BY RetryOnceInductive
  <1>2. (Once => OnceInv) => Tracked BY DEF OnceInv, Traced, Tracked
  <1> QED BY <1>1, <1>2, PTL

\* AckFinal: as long as no message has been handed over twice, no scan and no
\* delivery brings one back to the map that a RECVACK has found there, so that
\* no retry of it is scheduled.  It does not say that nothing is written: a
\* retry that has passed pushInFlightMessage goes out.
THEOREM RetryAckFinal == Spec => []AckFinal
  <1>1. Spec => [](BaseInv /\ (Once => OnceInv)) BY RetryOnceInductive
  <1>2. (Once => OnceInv) => AckFinal
    <2> SUFFICES ASSUME OnceInv, NEW m \in Msgs, NEW c \in Clients, <<m, c>> \in acked
                 PROVE  flight[m][c] = 0 /\ ~Coming(m, c)
      BY DEF AckFinal
    <2>1. Single BY DEF OnceInv
    <2>2. \A w \in Workers: ~Token(w, m, c) BY <2>1 DEF Single
    <2>3. Coming(m, c) => \E w \in Workers: Token(w, m, c) BY DEF Coming, Token, Comes
    <2> QED BY <2>1, <2>2, <2>3 DEF Single
  <1> QED BY <1>1, <1>2, PTL

LEMMA HeapShape ==
  ASSUME BaseInv, NEW i \in 0 .. Len(heap.q) - 1
  PROVE  PriAt(heap, Parent(i)) <= PriAt(heap, i) /\ heap.index[Slot(heap, i)] = i
  <1> DEFINE n == Len(heap.q)
  <1>0. Heap(heap, Copies) /\ Sane(heap, Copies) /\ n \in Nat BY Slotted DEF BaseInv
  <1>1. i \in Slots(heap) /\ n \in 0 .. n /\ i \in Nat BY <1>0 DEF Slots
  <1>2. PriAt(heap, i) \in Nat BY <1>0, <1>1, HeapFacts DEF Sane
  <1>3. PriAt(heap, Parent(i)) <= PriAt(heap, i)
    <2>1. CASE i = 0
      <3>1. Parent(i) = i BY <2>1 DEF Parent
      <3> QED BY <1>2, <3>1
    <2>2. CASE i # 0
      <3>1. i \in 1 .. n - 1 BY <2>2
      <3>2. Parent(i) \in 0 .. n - 1 BY <1>0, <3>1, ParentIn
      <3>3. Due(heap, n)[Parent(i)] <= Due(heap, n)[i] BY <1>0, <3>1 DEF Heap, InOrder
      <3> QED BY <3>2, <3>3 DEF Due
    <2> QED BY <2>1, <2>2
  <1> QED BY <1>0, <1>1, <1>3 DEF Sane, Knows

\* RemoveOwn: the heap is in order and its items know their slots at all times;
\* and as long as no message has been handed over twice, the slot that a
\* RECVACK goes to is that of its own message, also while a retry enters the
\* heap again and the scan shifts: it takes out no other message's deadline.
THEOREM RetryRemoveOwn == Spec => []RemoveOwn
  <1>1. Spec => [](BaseInv /\ (Once => OnceInv)) BY RetryOnceInductive
  <1>2. BaseInv /\ (Once => OnceInv) => RemoveOwn
    <2> SUFFICES ASSUME BaseInv, Once => OnceInv PROVE RemoveOwn OBVIOUS
    <2>0. Types /\ HeapOK BY DEF BaseInv
    <2>1. /\ Len(heap.q) \in Nat /\ heap \in Heaps(Copies)
          /\ \A x \in Queued(heap): x \in Copies /\ heap.index[x] \in Slots(heap) /\ Slot(heap, heap.index[x]) = x
      BY <2>0, Slotted DEF Sane
    <2>2. TypeOK
      <3>1. heap.q \in Seq(Copies) BY <2>1, HeapFacts
      <3>2. heap.index \in [Copies -> -1 .. Cardinality(Copies) - 1] /\ heap.pri \in [Copies -> 0 .. MaxTime + Timeout]
        BY <2>0 DEF HeapOK
      <3> QED BY <2>0, <3>1, <3>2 DEF TypeOK, Types, Deliveries
    <2>3. ASSUME Once, NEW x \in Copies, Removing(x)
          PROVE  heap.index[x] = -1 \/ (heap.index[x] < Len(heap.q) /\ Slot(heap, heap.index[x]) = x)
      <3>0. Marked BY <2>3 DEF OnceInv
      <3>1. \E c \in Clients: ack[c] = x /\ ack[c] # 0 BY <2>3, <3>0, Constants DEF Removing, Marked
      <3>2. heap.index[x] = -1 \/ x \in Queued(heap) BY <3>0, <3>1 DEF Marked
      <3>3. ASSUME x \in Queued(heap) PROVE heap.index[x] < Len(heap.q) /\ Slot(heap, heap.index[x]) = x
        BY <2>1, <3>3 DEF Slots
      <3> QED BY <3>2, <3>3
    <2> QED BY <2>2, <2>3, HeapShape DEF RemoveOwn
  <1> QED BY <1>1, <1>2, PTL

\* As long as no message has been handed over twice, no RECVACK goes to a slot
\* that the heap does not have, which would panic (Remove of
\* in_flight_pqueue.go indexes the slice unchecked).
THEOREM RetryNoPanic == Spec => [](Once => ~panicked)
  <1>1. Spec => [](BaseInv /\ (Once => OnceInv)) BY RetryOnceInductive
  <1>2. Init => (Once => ~panicked) BY DEF Init
  <1>3. BaseInv /\ (Once => OnceInv) /\ (Once => ~panicked) /\ [Next]_vars => (Once => ~panicked)'
    <2> SUFFICES ASSUME BaseInv, Once => OnceInv, Once => ~panicked, [Next]_vars, Once' PROVE ~panicked' OBVIOUS
    <2>0. OnceInv /\ ~panicked BY OnceBefore
    <2>1. ASSUME NEW w \in Workers, DeliverySteps(w) PROVE ~panicked'
      <3>1. ~OfflineRemove(w) BY <2>0 DEF OnceInv, Marked, OfflineRemove
      <3> QED BY <2>0, <2>1, <3>1 DEF DeliverySteps, FindClients, CopyFor, Delivered, PushInFlightMessage, AddToInFlightPQ,
                               WritePacket, EncryptFails, OfflinePop
    <2>2. ASSUME NEW c \in Clients, (\E m \in Msgs: Recvack(c, m)) \/ RecvackRemove(c) \/ Connect(c) \/ Disconnect(c)
          PROVE  ~panicked'
      BY <2>0, <2>2, RecvackRemoveOnce DEF Recvack, Connect, Disconnect
    <2>3. ASSUME Scan \/ ScanSteps \/ Tick PROVE ~panicked' BY <2>0, <2>3 DEF Scan, ScanSteps, ScanPeek, ScanGone, ScanRetry, Tick
    <2>4. ASSUME UNCHANGED vars PROVE ~panicked' BY <2>0, <2>4 DEF vars
    <2> QED BY <2>0, <2>1, <2>2, <2>3, <2>4 DEF Next, Deliver
  <1> QED BY <1>1, <1>2, <1>3, PTL DEF Spec
=============================================================================
