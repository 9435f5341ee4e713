--------------------------- MODULE InFlightPqueue ---------------------------
(***************************************************************************)
(* The timeout heap under any sequence of the calls that the retry queues  *)
(* make.  Items are the messages in flight; an item is pushed with a       *)
(* deadline, removed through the slot it remembers, or shifted out when    *)
(* its deadline has come.                                                  *)
(***************************************************************************)
EXTENDS PqueueOps, FiniteSets

CONSTANTS Items,    \* messages, as numbers
          MaxPri,   \* bound: deadlines are 0..MaxPri
          InitCap,  \* capacity at the start (1024 in the code)
          Floor     \* capacity up to which Pop does not shrink (25)

ASSUME PqueueAssumption ==
    /\ Items \subseteq Nat /\ IsFiniteSet(Items)
    /\ MaxPri \in Nat /\ InitCap \in Nat \ {0} /\ Floor \in Nat \ {0}

VARIABLE pq   \* the heap

PqueueTypeOK ==
    /\ pq.q \in Seq(Items)
    /\ pq.index \in [Items -> -1 .. Cardinality(Items) - 1]
    /\ pq.pri \in [Items -> 0 .. MaxPri]
    /\ pq.cap \in Nat /\ Len(pq.q) <= pq.cap

\* newInFlightPqueue
PqueueInit ==
    pq = [q |-> <<>>, index |-> [x \in Items |-> 0],
          pri |-> [x \in Items |-> 0], cap |-> InitCap]

\* The caller sets the deadline and pushes an item that is not queued (the
\* least one: items differ in nothing but their names).
PushItem(p) ==
    \E x \in Items \ Queued(pq) :
        /\ \A y \in Items \ Queued(pq) : x <= y
        /\ pq' = Push([pq EXCEPT !.pri = [@ EXCEPT ![x] = p]], x)

\* Nobody reads the deadline of an item that is out.
Forget(h, x) == [h EXCEPT !.pri = [@ EXCEPT ![x] = 0]]

RemoveItem(x) ==
    /\ x \in Queued(pq)
    /\ pq' = Forget(Remove(pq, pq.index[x]), x)

Shifted(h, max) == IF Expired(h, max) THEN Forget(Pop(h, Floor), Slot(h, 0)) ELSE h

PeekAndShift(max) == pq' = Shifted(pq, max)

PqueueNext ==
    \/ \E p \in 0 .. MaxPri : PushItem(p)
    \/ \E x \in Items : RemoveItem(x)
    \/ \E max \in 0 .. MaxPri : PeekAndShift(max)

PqueueSpec == PqueueInit /\ [][PqueueNext]_pq

-----------------------------------------------------------------------------
\* No item waits behind one with a later deadline: every slot is due no
\* earlier than its parent, after each Push, Pop and Remove.  And every item
\* knows its slot, the index that removeFromInFlightPQ trusts.
HeapOrdered ==
    /\ PqueueTypeOK
    /\ \A i \in 1 .. Len(pq.q) - 1 : PriAt(pq, Parent(i)) <= PriAt(pq, i)
    /\ \A i \in 0 .. Len(pq.q) - 1 : pq.index[Slot(pq, i)] = i

\* PeekAndShift takes an item out exactly when one is due, and then one with
\* the earliest deadline of all; it loses no other.
ShiftEarliest ==
    \A max \in 0 .. MaxPri :
        LET gone == Queued(pq) \ Queued(Shifted(pq, max))
        IN  /\ gone # {} <=> \E x \in Queued(pq) : pq.pri[x] <= max
            /\ Cardinality(gone) <= 1
            /\ \A y \in gone, x \in Queued(pq) : pq.pri[y] <= pq.pri[x]

\* Removing an item through its index takes out that item and no other, and
\* leaves the mark (-1) that keeps it from being removed again.
RemoveExact ==
    [][\A x \in Items : RemoveItem(x) =>
          Queued(pq') = Queued(pq) \ {x} /\ pq'.index[x] = -1]_pq
=============================================================================
