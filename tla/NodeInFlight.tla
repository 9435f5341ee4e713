---------------------------- MODULE NodeInFlight ----------------------------
(***************************************************************************)
(* Data in flight to another node: startDeliveryNodeData of                *)
(* internal/lim/delivery.go and the queue of                               *)
(* internal/lim/node_in_flight_pqueue.go.  A piece of data is entered in a *)
(* map and in a heap of deadlines, sent by a remote call, and taken off    *)
(* both when the call succeeds.  A scan sends again what is overdue.  The  *)
(* scan is started afresh at every interval, while an earlier one may      *)
(* still wait for its call, so that several run at once.                   *)
(*                                                                         *)
(* The heap is the sequence of its items by deadline: all get the same     *)
(* time-out, and RetryQueue and InFlightPqueue look into the heap itself.  *)
(* The item at the head is overdue whenever the scan looks.                *)
(***************************************************************************)
EXTENDS Naturals, Sequences, SequencesExt, FiniteSets

CONSTANTS
    Data,       \* NodeInFlightData objects, by No
    NoData,     \* stands for none of them
    Senders,    \* goroutines that put a message into a channel
    Scans       \* scans that may run at the same time

ASSUME NodeAssumption == NoData \notin Data \cup Scans /\ Senders \cap Scans = {}

VARIABLES
    flight,     \* inFlightData: the map
    heap,       \* inFlightPQ, earliest deadline first
    proc,       \* what each goroutine does, and with which data
    late,       \* calls that were given up and are still on the way
    saved,      \* what the store holds for the next Start
    up,         \* the node runs
    started, received, lost   \* history

nodeVars == <<flight, heap, proc, late, saved, up, started, received, lost>>

Procs == Senders \cup Scans
Resting == [pc |-> "idle", d |-> NoData]
PCs == {"idle", "map", "heap", "rpc", "finish", "remove", "peek", "pop"}

NodeTypeOK ==
    /\ flight \subseteq Data /\ heap \in Seq(Data)
    /\ proc \in [Procs -> [pc: PCs, d: Data \cup {NoData}]]
    /\ late \subseteq Data /\ saved \subseteq Data
    /\ up \in BOOLEAN
    /\ started \subseteq Data /\ received \subseteq Data /\ lost \subseteq Data

NodeInit ==
    /\ flight = {} /\ heap = <<>>
    /\ proc = [p \in Procs |-> Resting]
    /\ late = {} /\ saved = {}
    /\ up = TRUE
    /\ started = {} /\ received = {} /\ lost = {}

Goto(p, pc) == proc' = [proc EXCEPT ![p].pc = pc]

\* The end of startDeliveryNodeData: a scan looks for the next item.
Return(p) == proc' = [proc EXCEPT ![p] = [Resting EXCEPT !.pc = IF p \in Scans THEN "peek" ELSE "idle"]]

-----------------------------------------------------------------------------
startDeliveryNodeData(p, d) ==
    /\ up /\ p \in Senders /\ proc[p].pc = "idle"
    /\ d \notin started
    /\ started' = started \cup {d}
    /\ proc' = [proc EXCEPT ![p] = [pc |-> "map", d |-> d]]
    /\ UNCHANGED <<flight, heap, late, saved, up, received, lost>>

pushInFlightMessage(p) ==
    /\ up /\ proc[p].pc = "map"
    /\ flight' = flight \cup {proc[p].d}
    /\ Goto(p, "heap")
    /\ UNCHANGED <<heap, late, saved, up, started, received, lost>>

addToInFlightPQ(p) ==
    /\ up /\ proc[p].pc = "heap"
    /\ heap' = Append(heap, proc[p].d)
    /\ Goto(p, "rpc")
    /\ UNCHANGED <<flight, late, saved, up, started, received, lost>>

\* ForwardRecvPacket: the other node has handled the data and says so.
RpcSucceeds(p) ==
    /\ up /\ proc[p].pc = "rpc"
    /\ received' = received \cup {proc[p].d}
    /\ Goto(p, "finish")
    /\ UNCHANGED <<flight, heap, late, saved, up, started, lost>>

\* The handler of the other node answers with an error.
RpcFails(p) ==
    /\ up /\ proc[p].pc = "rpc"
    /\ Return(p)
    /\ UNCHANGED <<flight, heap, late, saved, up, started, received, lost>>

\* Data of the goroutines qs whose call nobody on the other node has begun
\* to handle.
OnTheWay(qs) == { proc[q].d : q \in { q \in qs : proc[q].pc = "rpc" } }

\* A time-out or an error of the connection: a request that has not arrived
\* may still do so, or never.
RpcGivenUp(p, begun) ==
    /\ up /\ proc[p].pc = "rpc"
    /\ late' = late \cup OnTheWay({p} \ begun)
    /\ Return(p)
    /\ UNCHANGED <<flight, heap, saved, up, started, received, lost>>

\* A request that was given up comes to the other node after all.
LateArrives(d) ==
    /\ d \in late
    /\ late' = late \ {d}
    /\ UNCHANGED <<flight, heap, proc, saved, up, started, received, lost>>

\* The other node has handled data whose caller no longer waits.
ReceivedUnasked(d) ==
    /\ received' = received \cup {d}
    /\ UNCHANGED <<flight, heap, proc, late, saved, up, started, lost>>

-----------------------------------------------------------------------------
(* finishMessage: out of the map, then out of the heap                     *)

popInFlightMessage(p) ==
    /\ up /\ proc[p].pc = "finish"
    /\ IF proc[p].d \in flight THEN Goto(p, "remove") ELSE Return(p)
    /\ flight' = flight \ {proc[p].d}
    /\ UNCHANGED <<heap, late, saved, up, started, received, lost>>

\* The heap without d, which is at the place that d's index says; index = -1
\* says that a scan has shifted the item.
Removed(d) ==
    LET At == { i \in DOMAIN heap : heap[i] = d }
    IN  IF At = {} THEN heap ELSE RemoveAt(heap, CHOOSE i \in At : TRUE)

removeFromInFlightPQ(p) ==
    /\ up /\ proc[p].pc = "remove"
    /\ heap' = Removed(proc[p].d)
    /\ Return(p)
    /\ UNCHANGED <<flight, late, saved, up, started, received, lost>>

-----------------------------------------------------------------------------
(* processInFlightQueue                                                    *)

ScanBegins(p) ==
    /\ up /\ p \in Scans /\ proc[p].pc = "idle"
    /\ heap # <<>>
    /\ Goto(p, "peek")
    /\ UNCHANGED <<flight, heap, late, saved, up, started, received, lost>>

\* PeekAndShift
ScanShifts(p) ==
    /\ up /\ proc[p].pc = "peek"
    /\ \/ /\ heap # <<>>
          /\ proc' = [proc EXCEPT ![p] = [pc |-> "pop", d |-> Head(heap)]]
          /\ heap' = Tail(heap)
       \/ /\ heap = <<>>
          /\ proc' = [proc EXCEPT ![p] = Resting]
          /\ UNCHANGED heap
    /\ UNCHANGED <<flight, late, saved, up, started, received, lost>>

\* An item that is no longer in the map ends the scan.
ScanPops(p) ==
    /\ up /\ proc[p].pc = "pop"
    /\ IF proc[p].d \in flight
       THEN Goto(p, "map")
       ELSE proc' = [proc EXCEPT ![p] = Resting]
    /\ flight' = flight \ {proc[p].d}
    /\ UNCHANGED <<heap, late, saved, up, started, received, lost>>

-----------------------------------------------------------------------------
(* Stop and Start                                                          *)

\* The map that Stop saves: no statement of the queue enters anything in it.
infFlights == {}

\* What still waits for the other node.
Outstanding == started \ received

Down(store, begun) ==
    /\ up
    /\ up' = FALSE
    /\ saved' = store
    /\ lost' = lost \cup (Outstanding \ store)
    /\ flight' = {} /\ heap' = <<>>
    /\ proc' = [p \in Procs |-> Resting]
    /\ late' = late \cup OnTheWay(Procs \ begun)
    /\ UNCHANGED <<started, received>>

Stop(begun) == Down(IF infFlights = {} THEN saved ELSE infFlights, begun)

Crash(begun) == Down(saved, begun)

Start ==
    /\ ~up
    /\ up' = TRUE
    /\ saved' = {}
    /\ flight' = saved /\ heap' = SetToSeq(saved)
    /\ UNCHANGED <<proc, late, started, received, lost>>

-----------------------------------------------------------------------------
DeliveryStep(p) ==
    \/ pushInFlightMessage(p) \/ addToInFlightPQ(p)
    \/ popInFlightMessage(p) \/ removeFromInFlightPQ(p)

ScanStep(p) == ScanBegins(p) \/ ScanShifts(p) \/ ScanPops(p)

\* A goroutine will enter d in the heap, or decide about it, before it ends.
Handling(p, d) == proc[p].d = d /\ proc[p].pc \in {"pop", "map", "heap"}

\* Data that the other node has not got is in the map and in the heap, where
\* the scan finds it, or in the hands of a goroutine on its way there;
\* only what was in flight when the node went down is given up
\* (startDeliveryNodeData, processInFlightQueue, finishMessage).
NodeTracked ==
    /\ NodeTypeOK
    /\ \A d \in Outstanding \ lost:
          \/ d \in flight /\ \E i \in DOMAIN heap: heap[i] = d
          \/ \E p \in Procs: Handling(p, d) /\ (proc[p].pc = "map" \/ d \in flight)
=============================================================================
