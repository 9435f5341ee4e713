----------------------------- MODULE RetryQueue -----------------------------
(***************************************************************************)
(* Delivery of messages to the connections of one user and the queue of    *)
(* messages that wait for a RECVACK (internal/lim/delivery.go,             *)
(* retry_queue.go, handleRecvack of handler.go).                           *)
(*                                                                         *)
(* A delivery runs on a goroutine of a pool that refuses work when all of  *)
(* its goroutines are busy.  For each connection it makes a copy of the    *)
(* message, enters the copy in the map of messages in flight, then in the  *)
(* heap of deadlines, and writes the packet.  A RECVACK takes the copy out *)
(* of the map and then out of the heap.  A scan shifts copies whose        *)
(* deadline has passed out of the heap, takes them out of the map and      *)
(* delivers them again.  Map and heap are changed in separate sections of  *)
(* one mutex, so all of this interleaves between them.                     *)
(*                                                                         *)
(* Left out: payloads, encryption (its failure is kept: the packet is not  *)
(* written), statistics, the offline event sent to the webhook.            *)
(***************************************************************************)
EXTENDS PqueueOps, FiniteSets

CONSTANTS Msgs,           \* message IDs
          Clients,        \* connections of the receiving user
          Workers,        \* goroutines of deliveryMsgPool
          Copies,         \* Message objects; unreferenced ones are collected
          MaxDeliveries,  \* bound: times a message is handed over
          Timeout,        \* opts.MsgTimeout
          MaxTime         \* bound: the clock runs from 0 to MaxTime

ASSUME RetryAssumption ==
    /\ MaxDeliveries \in Nat /\ Timeout \in Nat \ {0} /\ MaxTime \in Nat
    /\ Copies \subseteq Nat \ {0} /\ IsFiniteSet(Copies)
    /\ 0 \notin Clients /\ 0 \notin Msgs

VARIABLES
    now,       \* the clock
    heap,      \* RetryQueue.inFlightPQ
    flight,    \* RetryQueue.inFlightMessages: message, connection -> copy or 0
    copy,      \* MessageID and toClientID of each copy
    worker,    \* the delivery that each pool goroutine runs
    scan,      \* processInFlightQueue
    ack,       \* per connection: the copy its RECVACK has to take off the heap
    status,    \* of each connection: "new", "on" or "off"
    wire,      \* packets that a connection has got and not acknowledged
    handed,    \* times each message was handed over for delivery
    acked,     \* <<m, c>> whose RECVACK found the message in flight (history)
    refused,   \* <<m, c>> whose retry the pool refused (history)
    panicked   \* a heap slot that does not exist was accessed

vars == <<now, heap, flight, copy, worker, scan, ack, status, wire, handed,
          acked, refused, panicked>>

Idle == [pc |-> "idle", msg |-> 0, to |-> 0, index |-> 0, todo |-> {}, cur |-> 0]

\* The delivery r is at pc with the connections in todo left, working on cur.
At(r, pc, todo, cur) ==
    [pc |-> pc, msg |-> r.msg, to |-> r.to, index |-> r.index, todo |-> todo, cur |-> cur]

TypeOK ==
    /\ now \in 0 .. MaxTime
    /\ heap.q \in Seq(Copies)
    /\ heap.index \in [Copies -> -1 .. Cardinality(Copies) - 1]
    /\ heap.pri \in [Copies -> 0 .. MaxTime + Timeout]
    /\ flight \in [Msgs -> [Clients -> Copies \cup {0}]]
    /\ copy \in [Copies -> [msg : Msgs \cup {0}, client : Clients \cup {0}]]
    /\ worker \in [Workers -> [pc : {"idle", "start", "loop", "map", "heap", "write", "offline", "remove"},
                               msg : Msgs \cup {0}, to : Clients \cup {0}, index : {0, -1},
                               todo : SUBSET Clients, cur : Copies \cup {0}]]
    /\ scan \in [pc : {"idle", "peek", "pop"}, t : 0 .. MaxTime, cur : Copies \cup {0}]
    /\ ack \in [Clients -> Copies \cup {0}]
    /\ status \in [Clients -> {"new", "on", "off"}]
    /\ wire \in [Msgs -> [Clients -> Nat]]
    /\ handed \in [Msgs -> 0 .. MaxDeliveries]
    /\ acked \subseteq Msgs \X Clients /\ refused \subseteq Msgs \X Clients
    /\ panicked \in BOOLEAN

Init ==
    /\ now = 0
    /\ heap = [q |-> <<>>, index |-> [x \in Copies |-> 0], pri |-> [x \in Copies |-> 0], cap |-> 1024]
    /\ flight = [m \in Msgs |-> [c \in Clients |-> 0]]
    /\ copy = [x \in Copies |-> [msg |-> 0, client |-> 0]]
    /\ worker = [w \in Workers |-> Idle]
    /\ scan = [pc |-> "idle", t |-> 0, cur |-> 0]
    /\ ack = [c \in Clients |-> 0]
    /\ status = [c \in Clients |-> "new"]
    /\ wire = [m \in Msgs |-> [c \in Clients |-> 0]]
    /\ handed = [m \in Msgs |-> 0]
    /\ acked = {} /\ refused = {}
    /\ panicked = FALSE

-----------------------------------------------------------------------------
Online == { c \in Clients : status[c] = "on" }

\* A copy that nothing refers to.  It is forgotten: its fields are those of a
\* new object when it is used again.
Fresh(x) ==
    /\ x \notin Queued(heap)
    /\ \A m \in Msgs, c \in Clients : flight[m][c] # x
    /\ \A w \in Workers : worker[w].cur # x
    /\ \A c \in Clients : ack[c] # x
    /\ scan.cur # x

\* startDeliveryMsg: the pool runs DeliveryMsg or, having no goroutine free,
\* returns an error that nobody looks at.  A message that is delivered anew
\* has index 0 and no connection; one that is retried has been shifted (-1).
Submit(m, to, index) ==
    \/ \E w \in Workers :
          /\ worker[w].pc = "idle"
          /\ worker' = [worker EXCEPT ![w] = 
                [pc |-> "start", msg |-> m, to |-> to, index |-> index, todo |-> {}, cur |-> 0]]
          /\ UNCHANGED refused
    \/ /\ \A w \in Workers : worker[w].pc # "idle"
       /\ refused' = IF to = 0 THEN refused ELSE refused \cup {<<m, to>>}
       /\ UNCHANGED worker

\* A message, sent by a client or forwarded by another node, is handed over.
Deliver(m) ==
    /\ handed[m] < MaxDeliveries
    /\ handed' = [handed EXCEPT ![m] = @ + 1]
    /\ Submit(m, 0, 0)
    /\ UNCHANGED <<now, heap, flight, copy, scan, ack, status, wire, acked, panicked>>

\* getRecvClients; a retry goes to its own connection only.  With no connection
\* at all a retry is finished off and the user counts as offline.
FindClients(w) ==
    /\ worker[w].pc = "start"
    /\ worker' = [worker EXCEPT ![w] =
          IF Online # {}
          THEN At(@, "loop", IF @.to = 0 THEN Online ELSE Online \cap {@.to}, 0)
          ELSE IF @.to # 0 THEN At(@, "offline", {}, 0) ELSE Idle]
    /\ UNCHANGED <<now, heap, flight, copy, scan, ack, status, wire, handed, acked, refused, panicked>>

\* The next connection gets a copy with its own deadline.
CopyFor(w, c, x) ==
    /\ worker[w].pc = "loop"
    /\ c \in worker[w].todo
    /\ Fresh(x)
    /\ \A y \in Copies : Fresh(y) => x <= y
    /\ copy' = [copy EXCEPT ![x] = [msg |-> worker[w].msg, client |-> c]]
    /\ heap' = [q     |-> heap.q,
                index |-> [heap.index EXCEPT ![x] = worker[w].index],
                pri   |-> [heap.pri EXCEPT ![x] = now + Timeout],
                cap   |-> heap.cap]
    /\ worker' = [worker EXCEPT ![w] = At(@, "map", @.todo \ {c}, x)]
    /\ UNCHANGED <<now, flight, scan, ack, status, wire, handed, acked, refused, panicked>>

Delivered(w) ==
    /\ worker[w].pc = "loop"
    /\ worker[w].todo = {}
    /\ worker' = [worker EXCEPT ![w] = Idle]
    /\ UNCHANGED <<now, heap, flight, copy, scan, ack, status, wire, handed, acked, refused, panicked>>

\* Mutant: the message is not entered in the map.
PushInFlightMessageDropped(w) ==
    /\ worker[w].pc = "map"
    /\ worker' = [worker EXCEPT ![w] = At(@, "heap", @.todo, @.cur)]
    /\ UNCHANGED <<now, heap, flight, copy, scan, ack, status, wire, handed, acked, refused, panicked>>

\* An entry that is in the map already stays.
PushInFlightMessage(w) ==
    LET x == worker[w].cur
    IN  /\ worker[w].pc = "map"
        /\ worker' = [worker EXCEPT ![w] = At(@, "heap", @.todo, @.cur)]
        /\ flight' = [flight EXCEPT ![copy[x].msg][copy[x].client] = IF @ = 0 THEN x ELSE @]
        /\ UNCHANGED <<now, heap, copy, scan, ack, status, wire, handed, acked, refused, panicked>>

AddToInFlightPQ(w) ==
    /\ worker[w].pc = "heap"
    /\ worker' = [worker EXCEPT ![w] = At(@, "write", @.todo, @.cur)]
    /\ heap' = Push(heap, worker[w].cur)
    /\ UNCHANGED <<now, flight, copy, scan, ack, status, wire, handed, acked, refused, panicked>>

\* The packet reaches a connection that is still there.
WritePacket(w) ==
    LET x == worker[w].cur
    IN  /\ worker[w].pc = "write"
        /\ worker' = [worker EXCEPT ![w] = At(@, "loop", @.todo, 0)]
        /\ wire' = [wire EXCEPT ![copy[x].msg][copy[x].client] =
                       IF copy[x].client \in Online THEN @ + 1 ELSE @]
        /\ UNCHANGED <<now, heap, flight, copy, scan, ack, status, handed, acked, refused, panicked>>

\* The payload cannot be encrypted: the packet is not written.
EncryptFails(w) ==
    /\ worker[w].pc = "write"
    /\ worker' = [worker EXCEPT ![w] = At(@, "loop", @.todo, 0)]
    /\ UNCHANGED <<now, heap, flight, copy, scan, ack, status, wire, handed, acked, refused, panicked>>

-----------------------------------------------------------------------------
\* removeFromInFlightPQ; Remove of a slot beyond the heap panics.
RemoveFromInFlightPQ(x) ==
    LET i == heap.index[x]
    IN  /\ panicked' = (i >= Len(heap.q))
        /\ heap' = IF i = -1 \/ i >= Len(heap.q) THEN heap ELSE Remove(heap, i)

\* finishMessage of a retry that found its user offline.
OfflinePop(w) ==
    LET x == flight[worker[w].msg][worker[w].to]
    IN  /\ worker[w].pc = "offline"
        /\ flight' = [flight EXCEPT ![worker[w].msg][worker[w].to] = 0]
        /\ worker' = [worker EXCEPT ![w] = IF x = 0 THEN Idle ELSE At(@, "remove", {}, x)]
        /\ UNCHANGED <<now, heap, copy, scan, ack, status, wire, handed, acked, refused, panicked>>

OfflineRemove(w) ==
    /\ worker[w].pc = "remove"
    /\ RemoveFromInFlightPQ(worker[w].cur)
    /\ worker' = [worker EXCEPT ![w] = Idle]
    /\ UNCHANGED <<now, flight, copy, scan, ack, status, wire, handed, acked, refused>>

\* Mutant: the entry is looked up and not deleted.
RecvackKeepsEntry(c, m) ==
    /\ status[c] = "on" /\ wire[m][c] > 0 /\ ack[c] = 0
    /\ wire' = [wire EXCEPT ![m][c] = @ - 1]
    /\ ack' = [ack EXCEPT ![c] = flight[m][c]]
    /\ acked' = IF flight[m][c] = 0 THEN acked ELSE acked \cup {<<m, c>>}
    /\ UNCHANGED <<now, heap, flight, copy, worker, scan, status, handed, refused, panicked>>

\* handleRecvack runs on the event loop of the connection, one at a time.
Recvack(c, m) ==
    LET x == flight[m][c]
    IN  /\ status[c] = "on" /\ wire[m][c] > 0 /\ ack[c] = 0
        /\ wire' = [wire EXCEPT ![m][c] = @ - 1]
        /\ flight' = [flight EXCEPT ![m][c] = 0]
        /\ ack' = [ack EXCEPT ![c] = x]
        /\ acked' = IF x = 0 THEN acked ELSE acked \cup {<<m, c>>}
        /\ UNCHANGED <<now, heap, copy, worker, scan, status, handed, refused, panicked>>

RecvackRemove(c) ==
    /\ ack[c] # 0
    /\ RemoveFromInFlightPQ(ack[c])
    /\ ack' = [ack EXCEPT ![c] = 0]
    /\ UNCHANGED <<now, flight, copy, worker, scan, status, wire, handed, acked, refused>>

-----------------------------------------------------------------------------
\* A tick of the schedule that Start sets up.
Scan ==
    /\ scan.pc = "idle"
    /\ scan' = [pc |-> "peek", t |-> now, cur |-> 0]
    /\ UNCHANGED <<now, heap, flight, copy, worker, ack, status, wire, handed, acked, refused, panicked>>

ScanPeek ==
    /\ scan.pc = "peek"
    /\ scan' = IF Expired(heap, scan.t) THEN [pc |-> "pop", t |-> scan.t, cur |-> Slot(heap, 0)]
               ELSE [pc |-> "idle", t |-> 0, cur |-> 0]
    /\ heap' = IF Expired(heap, scan.t) THEN Pop(heap, 25) ELSE heap
    /\ UNCHANGED <<now, flight, copy, worker, ack, status, wire, handed, acked, refused, panicked>>

\* A copy that is not in flight any more ends the scan.
ScanGone ==
    LET k == copy[scan.cur]
    IN  /\ scan.pc = "pop" /\ flight[k.msg][k.client] = 0
        /\ scan' = [pc |-> "idle", t |-> 0, cur |-> 0]
        /\ UNCHANGED <<now, heap, flight, copy, worker, ack, status, wire, handed, acked, refused, panicked>>

\* Mutant: the message that is delivered again looks like a new one.
ScanRetryAsNew ==
    LET k == copy[scan.cur]
    IN  /\ scan.pc = "pop" /\ flight[k.msg][k.client] # 0
        /\ flight' = [flight EXCEPT ![k.msg][k.client] = 0]
        /\ scan' = [pc |-> "peek", t |-> scan.t, cur |-> 0]
        /\ Submit(k.msg, k.client, 0)
        /\ UNCHANGED <<now, heap, copy, ack, status, wire, handed, acked, panicked>>

ScanRetry ==
    LET k == copy[scan.cur]
    IN  /\ scan.pc = "pop" /\ flight[k.msg][k.client] # 0
        /\ flight' = [flight EXCEPT ![k.msg][k.client] = 0]
        /\ scan' = [pc |-> "peek", t |-> scan.t, cur |-> 0]
        /\ Submit(k.msg, k.client, heap.index[scan.cur])
        /\ UNCHANGED <<now, heap, copy, ack, status, wire, handed, acked, panicked>>

Tick ==
    /\ now < MaxTime
    /\ now' = now + 1
    /\ UNCHANGED <<heap, flight, copy, worker, scan, ack, status, wire, handed, acked, refused, panicked>>

Connect(c) ==
    /\ status[c] = "new"
    /\ status' = [status EXCEPT ![c] = "on"]
    /\ UNCHANGED <<now, heap, flight, copy, worker, scan, ack, wire, handed, acked, refused, panicked>>

\* The packets that were not acknowledged are lost with the connection.
Disconnect(c) ==
    /\ status[c] = "on"
    /\ status' = [status EXCEPT ![c] = "off"]
    /\ wire' = [m \in Msgs |-> [wire[m] EXCEPT ![c] = 0]]
    /\ UNCHANGED <<now, heap, flight, copy, worker, scan, ack, handed, acked, refused, panicked>>

DeliverySteps(w) ==
    \/ FindClients(w) \/ (\E c \in Clients, x \in Copies : CopyFor(w, c, x)) \/ Delivered(w)
    \/ PushInFlightMessage(w) \/ AddToInFlightPQ(w) \/ WritePacket(w) \/ EncryptFails(w)
    \/ OfflinePop(w) \/ OfflineRemove(w)

ScanSteps == ScanPeek \/ ScanGone \/ ScanRetry

Next ==
    /\ ~panicked
    /\ \/ \E m \in Msgs : Deliver(m)
       \/ \E w \in Workers : DeliverySteps(w)
       \/ \E c \in Clients : (\E m \in Msgs : Recvack(c, m)) \/ RecvackRemove(c) \/ Connect(c) \/ Disconnect(c)
       \/ Scan \/ ScanSteps \/ Tick

Spec == Init /\ [][Next]_vars

-----------------------------------------------------------------------------
\* Goroutines that are about to take a copy off the heap, after they took it
\* out of the map.
Removing(x) ==
    \/ \E c \in Clients : ack[c] = x
    \/ \E w \in Workers : worker[w].pc = "remove" /\ worker[w].cur = x

\* No message has been handed over a second time.  The node queue does repeat
\* a forward whose answer is late (handler.go:454).  The copies of the second
\* delivery meet those of the first in the map, where the first one stays, but
\* both enter the heap: the RECVACK of a packet of one delivery may take the
\* copy that the other has in the map and not yet in the heap, whose index is
\* still 0 (retry_queue.go:80).
Once == \A m \in Msgs : handed[m] <= 1

\* A RECVACK takes its own message off the heap or nothing: the index it finds
\* is the copy's slot or -1, although a retry may be entering the heap again;
\* unless some message was handed over twice (Once).  That the heap is ordered
\* and its items know their slots, while map and heap are changed apart from
\* each other, holds in any case.
RemoveOwn ==
    /\ TypeOK
    /\ \A i \in 0 .. Len(heap.q) - 1 :
          PriAt(heap, Parent(i)) <= PriAt(heap, i) /\ heap.index[Slot(heap, i)] = i
    /\ Once => \A x \in Copies : Removing(x) =>
          heap.index[x] = -1 \/ (heap.index[x] < Len(heap.q) /\ Slot(heap, heap.index[x]) = x)

\* A message in flight is known to the heap: its deadline is there, or its
\* delivery is about to enter it, or the scan has just shifted it.  A message
\* that was handed over twice breaks this for others, too: a RECVACK may take
\* their deadlines off the heap, and the map keeps them for ever (Once).
Tracked ==
    Once => \A m \in Msgs, c \in Clients :
        LET x == flight[m][c]
        IN  x # 0 => \/ x \in Queued(heap)
                     \/ \E w \in Workers : worker[w].pc = "heap" /\ worker[w].cur = x
                     \/ scan.pc = "pop" /\ scan.cur = x

\* A delivery to c of the message m is on its way to the map.
Coming(m, c) ==
    \E w \in Workers :
        /\ worker[w].msg = m
        /\ \/ worker[w].pc = "start" /\ worker[w].to \in {0, c}
           \/ worker[w].pc \in {"loop", "map", "heap", "write"} /\ c \in worker[w].todo
           \/ worker[w].pc = "map" /\ copy[worker[w].cur].client = c

\* A packet that a connected client has got and not acknowledged is not
\* forgotten: the message is in flight or about to be, unless an earlier
\* RECVACK finished it or the full pool refused the retry.
NotForgotten ==
    \A m \in Msgs, c \in Online :
        wire[m][c] > 0 => \/ flight[m][c] # 0 \/ Coming(m, c)
                          \/ <<m, c>> \in acked \cup refused

\* Once a RECVACK has found the message in flight, no delivery enters it in the
\* map again, so that no retry is scheduled any more: the race of the RECVACK
\* with the scan is won by one of the two.  A retry that has passed the map
\* (at "heap" or "write") is still pushed and written: the client may get the
\* packet once more after its RECVACK.  A second hand-over starts anew (Once).
AckFinal ==
    Once => \A m \in Msgs, c \in Clients :
        <<m, c>> \in acked => flight[m][c] = 0 /\ ~Coming(m, c)
=============================================================================
