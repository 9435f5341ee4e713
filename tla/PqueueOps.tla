----------------------------- MODULE PqueueOps -----------------------------
(***************************************************************************)
(* The binary heap of internal/lim/in_flight_pqueue.go (the queue of       *)
(* node_in_flight_pqueue.go is the same code over another type).           *)
(*                                                                         *)
(* A heap is a record: q, the slice; index and pri, the fields that each   *)
(* item keeps (index is -1 once it was taken out); cap, the capacity of    *)
(* the slice.  Slots are numbered from 0 as in the code, so slot i is      *)
(* q[i + 1].                                                               *)
(***************************************************************************)
EXTENDS Integers, Sequences

Slot(h, i) == h.q[i + 1]
PriAt(h, i) == h.pri[Slot(h, i)]
Queued(h) == { h.q[k] : k \in DOMAIN h.q }

\* Mutant: one of the two items is not told its new slot.
SwapHalf(h, i, j) ==
    [q     |-> [h.q EXCEPT ![i + 1] = Slot(h, j), ![j + 1] = Slot(h, i)],
     index |-> [h.index EXCEPT ![Slot(h, j)] = i],
     pri   |-> h.pri, cap |-> h.cap]

Swap(h, i, j) ==
    [q     |-> [h.q EXCEPT ![i + 1] = Slot(h, j), ![j + 1] = Slot(h, i)],
     index |-> [h.index EXCEPT ![Slot(h, j)] = i, ![Slot(h, i)] = j],
     pri   |-> h.pri, cap |-> h.cap]

\* Go's (j - 1) / 2, which is 0 for j = 0.
Parent(j) == IF j = 0 THEN 0 ELSE (j - 1) \div 2

\* One turn of the loop of up, which is at slot s.at of the heap s.h; it stays
\* as it is where the loop breaks.
Climb(s) ==
    LET i == Parent(s.at)
    IN  IF i = s.at \/ PriAt(s.h, s.at) >= PriAt(s.h, i) THEN s
        ELSE [h |-> Swap(s.h, i, s.at), at |-> i]

\* A turn goes to a smaller slot, so the loop breaks within j turns.
Up(h, j) ==
    LET turn[k \in 0 .. j] == IF k = 0 THEN [h |-> h, at |-> j] ELSE Climb(turn[k - 1])
    IN  turn[j].h

\* The smaller child of slot i among the first n slots, the right one on a tie.
Child(h, i, n) ==
    IF 2 * i + 2 < n /\ PriAt(h, 2 * i + 1) >= PriAt(h, 2 * i + 2)
    THEN 2 * i + 2 ELSE 2 * i + 1

\* One turn of the loop of down.
Sink(s, n) ==
    LET j == Child(s.h, s.at, n)
    IN  IF 2 * s.at + 1 >= n \/ PriAt(s.h, j) >= PriAt(s.h, s.at) THEN s
        ELSE [h |-> Swap(s.h, s.at, j), at |-> j]

Down(h, i, n) ==
    LET turn[k \in 0 .. n] == IF k = 0 THEN [h |-> h, at |-> i] ELSE Sink(turn[k - 1], n)
    IN  turn[n].h

\* Mutant: the item keeps its index.
CutUnmarked(h) == [h EXCEPT !.q = SubSeq(@, 1, Len(@) - 1)]

\* The last slot is cut off and its item told that it is out.
Cut(h) ==
    [q     |-> SubSeq(h.q, 1, Len(h.q) - 1),
     index |-> [h.index EXCEPT ![Slot(h, Len(h.q) - 1)] = -1],
     pri   |-> h.pri, cap |-> h.cap]

Push(h, x) ==
    LET n == Len(h.q)
        grown == [q     |-> Append(h.q, x),
                  index |-> [h.index EXCEPT ![x] = n],
                  pri   |-> h.pri,
                  cap   |-> IF n + 1 > h.cap THEN 2 * h.cap ELSE h.cap]
    IN  Up(grown, n)

\* The slice is halved when less than half of it is used, above a size of floor.
Pop(h, floor) ==
    LET n == Len(h.q)
        sunk == Down(Swap(h, 0, n - 1), 0, n - 1)
    IN  Cut([sunk EXCEPT !.cap = IF n < @ \div 2 /\ @ > floor THEN @ \div 2 ELSE @])

\* Mutant: the item that fills the gap is never moved up.
RemoveDownOnly(h, i) ==
    LET n == Len(h.q)
    IN  IF n - 1 = i THEN Cut(h)
        ELSE Cut(Down(Swap(h, i, n - 1), i, n - 1))

Remove(h, i) ==
    LET n == Len(h.q)
    IN  IF n - 1 = i THEN Cut(h)
        ELSE Cut(Up(Down(Swap(h, i, n - 1), i, n - 1), i))

\* Mutant: an item whose time is now has to wait.
ExpiredLate(h, max) == Len(h.q) > 0 /\ PriAt(h, 0) < max

\* PeekAndShift takes the first item out if its time has come.
Expired(h, max) == Len(h.q) > 0 /\ PriAt(h, 0) <= max
=============================================================================
