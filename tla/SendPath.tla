------------------------------ MODULE SendPath ------------------------------
(***************************************************************************)
(* The way of a message through the node of its channel                    *)
(* (handleSendPacketWithFrom of internal/lim/handler.go, PutMessage of     *)
(* channel.go, handleLocalSubscribersMessage of limao.go): permission,     *)
(* sequence number, storing, notification queue, the subscribers on        *)
(* another node, the subscribers on this node, SENDACK.  Composes the data *)
(* in flight to the other node (NodeInFlight) with the notification queue  *)
(* (NotifyQueue).                                                          *)
(*                                                                         *)
(* Each message is one piece of node data and is handled by one goroutine, *)
(* both named after it.  What is stored goes to topics: that of the        *)
(* channel, and the queue of each user for SyncOnce messages.  A number is *)
(* taken in one call and the message appended in another, so that messages *)
(* overtake each other; a number that is not above the last one is dropped *)
(* without an error, and a write that fails has moved the last one.        *)
(* AppendLog is one step here; TopicAppend looks inside.  The store's      *)
(* calls are agreed commands in a cluster: one that returns an error may   *)
(* have taken effect.  Everything that goes wrong (an error, a time-out, a *)
(* lost answer, a change of leader, the node going down) is counted in     *)
(* faults.                                                                 *)
(***************************************************************************)
EXTENDS NodeInFlight, NotifyQueue

CONSTANTS
    Sends,       \* what may be sent: of each message its kind, "unsent" if it is not, and
                 \* its subscribers on this node and on the other one
    LocalUsers, RemoteUsers,   \* users of the two nodes
    Forwarded,   \* messages another node forwards to this one
    Channel,     \* the topic of the channel
    Remotes,     \* goroutines of the other node that handle forwarded data
    MaxFaults    \* bound: things that go wrong

Msgs == Data
Handlers == Msgs \cup Remotes

Kinds == {"stored", "synconce", "nopersist", "unsent"}
Subs == LocalUsers \cup RemoteUsers

\* A user has one node; without a cluster that is this one.
ASSUME SendAssumption ==
    /\ Senders = Data /\ Forwarded \subseteq Data
    /\ Sends \subseteq [Data -> [kind: Kinds, local: SUBSET LocalUsers, remote: SUBSET RemoteUsers]]
    /\ LocalUsers \cap RemoteUsers = {} /\ (IsCluster \/ RemoteUsers = {})
    /\ Channel \notin Subs /\ Remotes \cap Data = {}
    /\ MaxFaults \in Nat

\* The topics that are opened again when this node starts.
Here == LocalUsers \cup {Channel}
Topics == Subs \cup {Channel}

VARIABLES
    send,      \* the packets: NoPersist and SyncOnce, and the subscribers
    step,      \* of the goroutine of each message
    result,    \* its ReasonCode
    ack,       \* the SENDACK its sender has got
    topic,     \* lastSeq, lastMemLog, how often it was opened, and what came of each append
    work,      \* of a goroutine: its message, the subscribers it has still to store it
               \* for, the topic and the number in hand, and who waits for the answer
    pushed,    \* subscribers a message was handed to for delivery
    faults

sendVars == <<send, step, result, ack, topic, work, pushed>>
vars == <<nodeVars, notifyVars, sendVars, faults>>

NoWork == [m |-> NoData, todo |-> {}, at |-> Channel, num |-> 0, by |-> NoData]

Init ==
    /\ NodeInit /\ NotifyInit
    /\ send \in Sends
    /\ step = [m \in Msgs |-> IF send[m].kind = "unsent" THEN "done" ELSE "new"]
    /\ result = [m \in Msgs |-> "none"] /\ ack = [m \in Msgs |-> "none"]
    /\ topic = [t \in Topics |-> [last |-> 0, mem |-> 0, life |-> 0, tries |-> {}]]
    /\ work = [h \in Handlers |-> NoWork]
    /\ pushed = [m \in Msgs |-> {}]
    /\ faults = 0

To(m, s) == step' = [step EXCEPT ![m] = s] /\ UNCHANGED result
Answer(m, r) == step' = [step EXCEPT ![m] = "reply"] /\ result' = [result EXCEPT ![m] = r]
At(m, s) == up /\ step[m] = s

Fault == faults < MaxFaults /\ faults' = faults + 1
NoFault == UNCHANGED faults

-----------------------------------------------------------------------------
(* The store's topics                                                      *)

NextOffset(h, t) ==
    /\ topic' = [topic EXCEPT ![t].last = @ + 1]
    /\ work' = [work EXCEPT ![h] = [@ EXCEPT !.at = t, !.num = topic[t].last + 1]]

\* A number that is not above the last one is dropped; of any other one
\* lastMemLog says that it is there before the write, which may fail.
AppendLog(t, m, n, out) ==
    /\ IF n <= topic[t].mem THEN out = "dropped" ELSE out \in {"written", "failed"}
    /\ topic' = [topic EXCEPT ![t] =
          [last |-> IF out = "dropped" \/ n <= topic[t].last THEN topic[t].last ELSE n,
           mem |-> IF out = "dropped" THEN topic[t].mem ELSE n,
           life |-> topic[t].life,
           tries |-> topic[t].tries \cup {[msg |-> m, life |-> topic[t].life, num |-> n, out |-> out]}]]

\* The call of goroutine h for message m returns, without or with an error.
Appends(h, m) == \E out \in {"written", "dropped"}: AppendLog(work[h].at, m, work[h].num, out)

AppendErrs(h, m) ==
    \/ \E out \in {"written", "failed"}: AppendLog(work[h].at, m, work[h].num, out)
    \/ UNCHANGED topic

-----------------------------------------------------------------------------
\* allowSendOfPersonChannel and getSendChannel: allowed, or refused, which
\* like an error is a code other than ReasonSuccess.
getSendChannel(m) ==
    /\ At(m, "new") /\ NoFault
    /\ \/ To(m, IF send[m].kind = "stored" THEN "seq" ELSE "notify")
       \/ Answer(m, "error")
    /\ UNCHANGED <<nodeVars, notifyVars, send, ack, topic, work, pushed>>

GetNextMessageSeq(m) ==
    /\ At(m, "seq") /\ NoFault
    /\ NextOffset(m, Channel)
    /\ To(m, "append")
    /\ UNCHANGED <<nodeVars, notifyVars, send, ack, pushed>>

\* Mutant: the error of AppendMessage is logged and the send goes on.
AppendMessageLogged(m) ==
    /\ At(m, "append")
    /\ To(m, "notify")
    /\ \/ Appends(m, m) /\ NoFault
       \/ AppendErrs(m, m) /\ Fault
    /\ work' = [work EXCEPT ![m] = NoWork]
    /\ UNCHANGED <<nodeVars, notifyVars, send, ack, pushed>>

AppendMessage(m) ==
    /\ At(m, "append")
    /\ \/ Appends(m, m) /\ To(m, "notify") /\ NoFault
       \/ AppendErrs(m, m) /\ Answer(m, "error") /\ Fault
    /\ work' = [work EXCEPT ![m] = NoWork]
    /\ UNCHANGED <<nodeVars, notifyVars, send, ack, pushed>>

\* Mutant: the error of the queue is logged and the send goes on.
NotifyAppendLogged(m) ==
    /\ At(m, "notify")
    /\ To(m, "put")
    /\ \/ AppendMessageOfNotifyQueue(m) /\ NoFault
       \/ UNCHANGED notifyVars /\ Fault
    /\ UNCHANGED <<nodeVars, send, ack, topic, work, pushed>>

NotifyAppend(m) ==
    /\ At(m, "notify")
    /\ \/ AppendMessageOfNotifyQueue(m) /\ To(m, "put") /\ NoFault
       \/ Answer(m, "error") /\ Fault /\ (AppendMessageOfNotifyQueue(m) \/ UNCHANGED notifyVars)
    /\ UNCHANGED <<nodeVars, send, ack, topic, work, pushed>>

-----------------------------------------------------------------------------
(* handleLocalSubscribersMessage, on the node of the subscribers: goroutine *)
(* h stores a SyncOnce message for each of them and then hands it over     *)

\* It begins, for somebody who waits or for NoData.
Begins(h, m, subs, by) ==
    work' = [work EXCEPT ![h] =
        [NoWork EXCEPT !.m = m, !.todo = IF send[m].kind = "synconce" THEN subs ELSE {}, !.by = by]]

\* GetUserNextMessageSeq
TakesNumber(h) ==
    /\ work[h].num = 0
    /\ \E u \in work[h].todo: NextOffset(h, u)

\* AppendMessageOfUser
StoresFor(h) ==
    /\ work[h].num > 0
    /\ Appends(h, work[h].m)
    /\ work' = [work EXCEPT ![h] = [@ EXCEPT !.todo = work[h].todo \ {work[h].at}, !.at = Channel, !.num = 0]]

\* It fails when one of the appends does, and only then.
StoreFails(h) ==
    /\ work[h].num > 0
    /\ AppendErrs(h, work[h].m)
    /\ work' = [work EXCEPT ![h] = NoWork]
    /\ UNCHANGED pushed

HandsOver(h, subs) ==
    /\ work[h].num = 0 /\ work[h].todo = {}
    /\ pushed' = [pushed EXCEPT ![work[h].m] = @ \cup subs]
    /\ work' = [work EXCEPT ![h] = NoWork]
    /\ UNCHANGED topic

-----------------------------------------------------------------------------
\* PutMessage: first the subscribers of the other node; whether that
\* succeeds is not looked at.
PutForward(m) ==
    /\ At(m, "put") /\ NoFault
    /\ \/ send[m].remote # {} /\ startDeliveryNodeData(m, m) /\ To(m, "forward") /\ UNCHANGED work
       \/ send[m].remote = {} /\ To(m, "local") /\ Begins(m, m, send[m].local, NoData) /\ UNCHANGED nodeVars
    /\ UNCHANGED <<notifyVars, send, ack, topic, pushed>>

ForwardReturns(m) ==
    /\ At(m, "forward") /\ proc[m].pc = "idle" /\ NoFault
    /\ To(m, "local") /\ Begins(m, m, send[m].local, NoData)
    /\ UNCHANGED <<nodeVars, notifyVars, send, ack, topic, pushed>>

PutLocalStores(m) ==
    /\ At(m, "local") /\ NoFault
    /\ TakesNumber(m) \/ StoresFor(m)
    /\ UNCHANGED <<nodeVars, notifyVars, send, step, result, ack, pushed>>

\* Mutant: the error is logged and the send goes on.
PutLocalFailsLogged(m) ==
    /\ At(m, "local") /\ Fault
    /\ StoreFails(m) /\ Answer(m, "success")
    /\ UNCHANGED <<nodeVars, notifyVars, send, ack>>

\* Without a cluster nobody looks at the error.
PutLocalFails(m) ==
    /\ At(m, "local") /\ Fault
    /\ StoreFails(m) /\ Answer(m, IF IsCluster THEN "error" ELSE "success")
    /\ UNCHANGED <<nodeVars, notifyVars, send, ack>>

PutLocalDone(m) ==
    /\ At(m, "local") /\ NoFault
    /\ HandsOver(m, send[m].local) /\ Answer(m, "success")
    /\ UNCHANGED <<nodeVars, notifyVars, send, ack>>

\* SENDACK; the answer to a node that forwarded the message may be lost.
Sendack(m) ==
    /\ At(m, "reply")
    /\ step' = [step EXCEPT ![m] = "done"] /\ result' = [result EXCEPT ![m] = "none"]
    /\ \/ ack' = [ack EXCEPT ![m] = result[m]] /\ NoFault
       \/ m \in Forwarded /\ ack' = [ack EXCEPT ![m] = "error"] /\ Fault
    /\ UNCHANGED <<nodeVars, notifyVars, send, topic, work, pushed>>

-----------------------------------------------------------------------------
(* The other node: OnRecvPacket, in a goroutine r for each request         *)

coreVars == <<send, step, result, ack>>

\* Callers whose request has arrived.
Begun == { work[r].by : r \in Remotes } \ {NoData}

RemoteBegins(r, p) ==
    /\ work[r].m = NoData
    /\ up /\ proc[p].pc = "rpc" /\ p \notin Begun /\ NoFault
    /\ Begins(r, proc[p].d, send[proc[p].d].remote, p)
    /\ UNCHANGED <<nodeVars, notifyVars, coreVars, topic, pushed>>

RemoteBeginsLate(r, d) ==
    /\ work[r].m = NoData
    /\ LateArrives(d) /\ NoFault
    /\ Begins(r, d, send[d].remote, NoData)
    /\ UNCHANGED <<notifyVars, coreVars, topic, pushed>>

RemoteStores(r) ==
    /\ work[r].m # NoData /\ NoFault
    /\ TakesNumber(r) \/ StoresFor(r)
    /\ UNCHANGED <<nodeVars, notifyVars, coreVars, pushed>>

RemoteFails(r) ==
    /\ work[r].m # NoData /\ Fault
    /\ StoreFails(r)
    /\ IF work[r].by = NoData THEN UNCHANGED nodeVars ELSE RpcFails(work[r].by)
    /\ UNCHANGED <<notifyVars, coreVars>>

RemoteDone(r) ==
    /\ work[r].m # NoData /\ NoFault
    /\ HandsOver(r, send[work[r].m].remote)
    /\ IF work[r].by = NoData THEN ReceivedUnasked(work[r].m) ELSE RpcSucceeds(work[r].by)
    /\ UNCHANGED <<notifyVars, coreVars>>

\* Nobody waits any longer for the goroutines that ps have called.
GivenUp(ps) == [h \in Handlers |-> IF work[h].by \in ps THEN [work[h] EXCEPT !.by = NoData] ELSE work[h]]

RemoteGivenUp(p) ==
    /\ RpcGivenUp(p, Begun) /\ Fault
    /\ work' = GivenUp({p})
    /\ UNCHANGED <<notifyVars, coreVars, topic, pushed>>

-----------------------------------------------------------------------------
\* The node goes down with the sends it was at: their clients lose the
\* connection, a node that forwarded one reports an error.
Halt ==
    /\ Stop(Begun) \/ Crash(Begun)
    /\ Fault
    /\ step' = [m \in Msgs |-> IF step[m] = "new" THEN "new" ELSE "done"]
    /\ ack' = [m \in Msgs |-> IF step[m] \notin {"new", "done"} /\ m \in Forwarded
                              THEN "error" ELSE ack[m]]
    /\ result' = [m \in Msgs |-> "none"]
    /\ work' = [h \in Handlers |-> IF h \in Msgs THEN NoWork ELSE GivenUp(Procs)[h]]
    /\ NotifyAborts
    /\ UNCHANGED <<send, topic, pushed>>

\* What initSegments may take for the last number: the first one of the last
\* segment, 0 for the first segment, or the number of the last record.
Reopened(t) == {0} \cup { r.num : r \in { r \in topic[t].tries : r.out # "dropped" } }

\* A topic is opened with no lastMemLog.
Restart ==
    /\ Start /\ NoFault
    /\ \E last \in [Here -> UNION { Reopened(t) : t \in Here }]:
          /\ \A t \in Here: last[t] \in Reopened(t)
          /\ topic' = [t \in Topics |->
                IF t \in Here THEN [topic[t] EXCEPT !.last = last[t], !.mem = 0, !.life = @ + 1]
                ELSE topic[t]]
    /\ UNCHANGED <<notifyVars, send, step, result, ack, work, pushed>>

-----------------------------------------------------------------------------
SendStep(m) ==
    \/ getSendChannel(m) \/ GetNextMessageSeq(m) \/ AppendMessage(m)
    \/ NotifyAppend(m) \/ PutForward(m) \/ ForwardReturns(m)
    \/ PutLocalStores(m) \/ PutLocalFails(m) \/ PutLocalDone(m) \/ Sendack(m)

RemoteStep(r) ==
    \/ \E p \in Procs: RemoteBegins(r, p)
    \/ RemoteStores(r) \/ RemoteFails(r) \/ RemoteDone(r)

NodeStep(p) == (DeliveryStep(p) \/ ScanStep(p)) /\ UNCHANGED <<notifyVars, sendVars, faults>>

\* A node that is down neither notifies nor leads.
Works(n) == up \/ n # Self

Notify(n) ==
    /\ Works(n)
    /\ \/ NotifyStep(n) /\ NoFault
       \/ NotifyFault(n) /\ Fault
    /\ UNCHANGED <<nodeVars, sendVars>>

Lead(n) == Works(n) /\ Elect(n) /\ Fault /\ UNCHANGED <<nodeVars, sendVars>>

Finished ==
    /\ up /\ \A m \in Msgs: step[m] = "done"
    /\ UNCHANGED vars

Next ==
    \/ \E m \in Msgs: SendStep(m)
    \/ \E p \in Procs: NodeStep(p) \/ RemoteGivenUp(p)
    \/ \E r \in Remotes: RemoteStep(r) \/ \E d \in Data: RemoteBeginsLate(r, d)
    \/ \E n \in Nodes: Notify(n) \/ Lead(n)
    \/ Halt \/ Restart \/ Finished

\* Goroutines run, calls end and the timer starts scans, all of which comes
\* to an end when nothing goes wrong any more.
Progress ==
    \/ \E m \in Msgs: SendStep(m)
    \/ \E p \in Procs: NodeStep(p) \/ RemoteGivenUp(p)
    \/ \E r \in Remotes: RemoteStep(r)
    \/ \E n \in Nodes: Notify(n)
    \/ Restart

Fairness == WF_vars(Progress)

Spec == Init /\ [][Next]_vars /\ Fairness

-----------------------------------------------------------------------------
\* In topic t there is a record of m, or its number came when that of a
\* later append, written or not, had gone past the test of AppendLog since
\* the topic was opened.
Overtaken(t, r) ==
    /\ r.out = "dropped"
    /\ \E q \in topic[t].tries: q.out # "dropped" /\ q.life = r.life /\ q.num > r.num

Kept(t, m) == \E r \in topic[t].tries: r.msg = m /\ (r.out = "written" \/ Overtaken(t, r))

\* Some subscriber has seen the message, or may.
Shown(m) ==
    \/ pushed[m] # {}
    \/ \E u \in Subs: \E r \in topic[u].tries: r.msg = m /\ r.out = "written"

\* A message whose sender was told of success, or which a subscriber has
\* seen, is in the topic of the channel after any failure or crash, unless
\* one with a higher number overtook it between GetNextMessageSeq and
\* AppendMessage (handleSendPacketWithFrom, topic_public.go 22).
AckedStored ==
    \A m \in Msgs: (ack[m] = "success" \/ Shown(m)) /\ send[m].kind = "stored" => Kept(Channel, m)

\* In a cluster, a SyncOnce message that was acknowledged is in the queue of
\* every subscriber of this node, and of every one of the other node as soon
\* as that node has got it, unless it was overtaken in that queue; until
\* then it is in flight.  Only a stop or crash of this node loses it for the
\* other one (PutMessage, storeMessageToUserQueueIfNeed,
\* startDeliveryNodeData, node_in_flight_pqueue.go 138).
AckedReaches ==
    /\ NodeTracked
    /\ \A m \in Msgs: ack[m] = "success" /\ send[m].kind = "synconce" =>
          /\ IsCluster => \A u \in send[m].local: Kept(u, m)
          /\ send[m].remote # {} => m \in started
          /\ m \in received => \A u \in send[m].remote: Kept(u, m)

\* Nothing reaches a subscriber that is not queued for the business server,
\* and it leaves that queue only when the webhook has got it, also when the
\* rounds of an old and a new leader overlap (handler.go 391-412,
\* notifyQueueLoop).
PushedIsQueued == QueuedOrNotified /\ \A m \in Msgs: Shown(m) => m \in queued

\* Data in flight reaches the other node, and a queued message the webhook,
\* in the end, unless the node goes down in between.
Settles == <>[](started \subseteq received \cup lost /\ queued \subseteq notified)
=============================================================================
