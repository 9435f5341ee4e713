---------------------------- MODULE NotifyQueue ----------------------------
(***************************************************************************)
(* The notification queue: AppendMessageOfNotifyQueue and its companions   *)
(* of internal/db/db_file_public.go (a bucket in the order of a sequence   *)
(* number, replicated in a cluster) and notifyQueueLoop of                 *)
(* internal/lim/webbhook.go, which every node runs and which works while   *)
(* the node is the leader.                                                 *)
(***************************************************************************)
EXTENDS Naturals, FiniteSets, Functions

CONSTANTS
    Nodes,         \* nodes that run notifyQueueLoop
    Self,          \* the one of them that may go down
    IsCluster,     \* the option; without it the loop only sleeps
    MaxCount       \* MessageNotifyMaxCount

ASSUME NotifyAssumption ==
    Self \in Nodes /\ IsCluster \in BOOLEAN /\ MaxCount \in Nat \ {0}

VARIABLES
    notifyQ,     \* the bucket: the message under each key
    notifySeq,   \* its sequence, the last key given out
    notifier,    \* the loop of each node: where it is and its batch
    leader,
    queued, notified   \* history: messages appended, messages the webhook has got

notifyVars == <<notifyQ, notifySeq, notifier, leader, queued, notified>>

NotifyInit ==
    /\ notifyQ = [k \in {} |-> 0] /\ notifySeq = 0
    /\ notifier = [n \in Nodes |-> [pc |-> "get", batch |-> {}]]
    /\ leader = Self
    /\ queued = {} /\ notified = {}

AppendMessageOfNotifyQueue(m) ==
    /\ notifySeq' = notifySeq + 1
    /\ notifyQ' = [k \in DOMAIN notifyQ \cup {notifySeq'} |-> IF k = notifySeq' THEN m ELSE notifyQ[k]]
    /\ queued' = queued \cup {m}
    /\ UNCHANGED <<notifier, leader, notified>>

\* The place of key k in the order of the keys.
Place(k) == Cardinality({ j \in DOMAIN notifyQ : j <= k })

\* Mutant: one message too few.
GetMessagesOfNotifyQueueShort ==
    { notifyQ[k] : k \in { j \in DOMAIN notifyQ : Place(j) < MaxCount } }

\* At most MaxCount messages, those with the lowest keys.
GetMessagesOfNotifyQueue ==
    { notifyQ[k] : k \in { j \in DOMAIN notifyQ : Place(j) <= MaxCount } }

NotifyGets(n) ==
    /\ notifier[n].pc = "get"
    /\ IsCluster /\ leader = n
    /\ GetMessagesOfNotifyQueue # {}
    /\ notifier' = [notifier EXCEPT ![n] = [pc |-> "post", batch |-> GetMessagesOfNotifyQueue]]
    /\ UNCHANGED <<notifyQ, notifySeq, leader, queued, notified>>

NotifyPosted(n) ==
    /\ notifier[n].pc = "post"
    /\ notified' = notified \cup notifier[n].batch
    /\ notifier' = [notifier EXCEPT ![n].pc = "remove"]
    /\ UNCHANGED <<notifyQ, notifySeq, leader, queued>>

\* An error of the call or a status other than 200; the webhook may have
\* got the messages all the same.
NotifyFails(n) ==
    /\ notifier[n].pc = "post"
    /\ notified' \in {notified, notified \cup notifier[n].batch}
    /\ notifier' = [notifier EXCEPT ![n] = [pc |-> "get", batch |-> {}]]
    /\ UNCHANGED <<notifyQ, notifySeq, leader, queued>>

\* RemoveMessagesOfNotifyQueue deletes by message ID.
RemoveMessagesOfNotifyQueue(b) ==
    Restrict(notifyQ, { k \in DOMAIN notifyQ : notifyQ[k] \notin b })

NotifyRemoves(n) ==
    /\ notifier[n].pc = "remove"
    /\ notifyQ' = RemoveMessagesOfNotifyQueue(notifier[n].batch)
    /\ notifier' = [notifier EXCEPT ![n] = [pc |-> "get", batch |-> {}]]
    /\ UNCHANGED <<notifySeq, leader, queued, notified>>

NotifyRemoveFails(n) ==
    /\ notifier[n].pc = "remove"
    /\ notifier' = [notifier EXCEPT ![n] = [pc |-> "get", batch |-> {}]]
    /\ UNCHANGED <<notifyQ, notifySeq, leader, queued, notified>>

\* The round of a node that goes down ends where it is.
NotifyAborts ==
    /\ notifier' = [notifier EXCEPT ![Self] = [pc |-> "get", batch |-> {}]]
    /\ UNCHANGED <<notifyQ, notifySeq, leader, queued, notified>>

\* Another node is leader from now on; the old one finishes its round.
Elect(n) ==
    /\ n # leader
    /\ leader' = n
    /\ UNCHANGED <<notifyQ, notifySeq, notifier, queued, notified>>

NotifyStep(n) ==
    NotifyGets(n) \/ NotifyPosted(n) \/ NotifyRemoves(n)

NotifyFault(n) == NotifyFails(n) \/ NotifyRemoveFails(n)

\* A message leaves the queue only after the webhook has got it, also when
\* the loops of an old and a new leader overlap (notifyQueueLoop).
QueuedOrNotified ==
    \A m \in queued: m \in notified \/ \E k \in DOMAIN notifyQ: notifyQ[k] = m
=============================================================================
