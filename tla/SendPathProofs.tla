--------------------------- MODULE SendPathProofs ---------------------------
(***************************************************************************)
(* Proofs about SendPath, for any messages, subscribers, scans and nodes,  *)
(* and about Conversation, which the send path feeds, for any channels,    *)
(* objects and bounds.                                                     *)
(*                                                                         *)
(* The parts of SendPath's inductive invariant follow a message on its     *)
(* way.  Worked says what each goroutine has in hand, Called for whom the  *)
(* other node works, Numbered what a topic knows of the numbers handed     *)
(* out, so that a dropped append was overtaken, Past what has been done    *)
(* for a message that has come to a step, Delivered for which subscribers  *)
(* it has been stored, Held where data for the other node is, and Posted   *)
(* that a round removes from the notification queue only what it has       *)
(* posted.                                                                 *)
(*                                                                         *)
(* Those of Conversation's come in the second half: Shape says what the    *)
(* cache and the calculation loop hold, Saving what a flush that is under  *)
(* way, a list that is being loaded and the mark "to be saved" leave open. *)
(***************************************************************************)
EXTENDS SendPath, Conversation, SequenceTheorems, FiniteSetTheorems, TLAPS

Steps == {"new", "seq", "append", "notify", "put", "forward", "local", "reply", "done"}
Try == [msg: Msgs, life: Nat, num: Nat, out: {"written", "failed", "dropped"}]
TopicState == [last: Nat, mem: Nat, life: Nat, tries: SUBSET Try]
Work == [m: Msgs \cup {NoData}, todo: SUBSET Subs, at: Topics, num: Nat, by: Procs \cup {NoData}]

SendTypeOK ==
    /\ send \in [Msgs -> [kind: Kinds, local: SUBSET LocalUsers, remote: SUBSET RemoteUsers]]
    /\ step \in [Msgs -> Steps]
    /\ result \in [Msgs -> {"none", "error", "success"}]
    /\ ack \in [Msgs -> {"none", "error", "success"}]
    /\ topic \in [Topics -> TopicState]
    /\ work \in [Handlers -> Work]
    /\ pushed \in [Msgs -> SUBSET Subs]

NotifyTypeOK ==
    /\ notifySeq \in Nat
    /\ notifyQ \in [DOMAIN notifyQ -> Msgs]
    /\ \A k \in DOMAIN notifyQ: k \in Nat /\ k <= notifySeq
    /\ notifier \in [Nodes -> [pc: {"get", "post", "remove"}, batch: SUBSET Msgs]]
    /\ queued \subseteq Msgs /\ notified \subseteq Msgs

\* A goroutine that handles data has it; what is taken out of the map and the
\* heap has arrived; a node that is down has nothing and a node that comes up
\* finds nothing, and has given up what had not arrived.
Held ==
    /\ \A p \in Procs: proc[p].pc \notin {"idle", "peek"} => proc[p].d \in started
    /\ \A p \in Procs: proc[p].pc \in {"finish", "remove"} => proc[p].d \in received
    /\ \A i \in DOMAIN heap: heap[i] \in started
    /\ late \subseteq started
    /\ saved = {}
    /\ ~up => Outstanding \subseteq lost

\* Nobody is at work while the node is down.
Quiet == ~up => \A m \in Msgs: step[m] \in {"new", "done"}

\* A round removes what it has posted.
Posted == \A n \in Nodes: notifier[n].pc = "remove" => notifier[n].batch \subseteq notified

\* The subscribers that goroutine h stores message m for.
Users(h, m) == IF h \in Msgs THEN send[m].local ELSE send[m].remote

\* What a goroutine has in hand, by where it is: a number of the channel, or
\* one of a subscriber it has still to store for.
Worked ==
    /\ \A m \in Msgs: step[m] \notin {"append", "local"} => work[m] = NoWork
    /\ \A m \in Msgs: step[m] = "append" =>
          work[m].m = NoData /\ work[m].at = Channel /\ work[m].num > 0
    /\ \A m \in Msgs: step[m] = "local" => work[m].m = m
    /\ \A m \in Msgs: work[m].by = NoData
    /\ \A r \in Remotes: IF work[r].m = NoData THEN work[r] = NoWork ELSE work[r].m \in started
    /\ \A h \in Handlers: work[h].m # NoData =>
          /\ work[h].todo \subseteq Users(h, work[h].m)
          /\ work[h].num > 0 => work[h].at \in work[h].todo

\* A request that is being handled is that of a goroutine that waits for it.
Called ==
    /\ \A r \in Remotes: work[r].by # NoData =>
          proc[work[r].by].pc = "rpc" /\ proc[work[r].by].d = work[r].m
    /\ \A r, s \in Remotes: work[r].by # NoData /\ work[r].by = work[s].by => r = s

\* The appends that went past the test since the topic was opened.
Passed(t) == { q \in topic[t].tries : q.out # "dropped" /\ q.life = topic[t].life }

\* A number in hand is nobody else's and has not been used since the topic
\* was opened; the last number in memory is the highest that was.
Numbered ==
    /\ \A t \in Topics: topic[t].mem <= topic[t].last
    /\ \A t \in Topics: \A q \in topic[t].tries: q.life <= topic[t].life
    /\ \A t \in Topics: \A q \in Passed(t): q.num <= topic[t].mem
    /\ \A t \in Topics: topic[t].mem = 0 \/ \E q \in Passed(t): q.num = topic[t].mem
    /\ \A h \in Handlers, t \in Topics: work[h].num > 0 /\ work[h].at = t =>
          work[h].num <= topic[t].last /\ \A q \in Passed(t): q.num # work[h].num
    /\ \A h, g \in Handlers:
          work[h].num > 0 /\ work[h].num = work[g].num /\ work[h].at = work[g].at => h = g

\* The message has been put into the channel, or is about to be.
Put(m) == step[m] \in {"put", "forward", "local"} \/ m \in started \/ Shown(m)

Success(m) == result[m] = "success" \/ ack[m] = "success"

Early == {"new", "seq", "append", "notify"}

\* What has been done for a message, by how far it has come.
Past ==
    /\ \A m \in Msgs: step[m] \in Early => m \notin started /\ ~Shown(m) /\ ~Success(m)
    /\ \A m \in Msgs: (step[m] = "notify" \/ Put(m) \/ Success(m)) /\ send[m].kind = "stored" => Kept(Channel, m)
    /\ \A m \in Msgs: Put(m) \/ Success(m) => m \in queued
    /\ \A m \in Msgs: send[m].remote # {} /\ (step[m] \in {"forward", "local"} \/ Success(m)) => m \in started

\* Goroutine h has stored its message for those who are no longer to do.
DoneFor(h) ==
    \A m \in Msgs: work[h].m = m /\ send[m].kind = "synconce" =>
       \A u \in Users(h, m) \ work[h].todo: Kept(u, m)

\* A SyncOnce message is in the queues of the subscribers it has been stored
\* for: all of them once it is acknowledged or received.
Delivered ==
    /\ \A m \in Msgs: IsCluster /\ Success(m) /\ send[m].kind = "synconce" => \A u \in send[m].local: Kept(u, m)
    /\ \A m \in Msgs: m \in received /\ send[m].kind = "synconce" => \A u \in send[m].remote: Kept(u, m)
    /\ \A h \in Handlers: DoneFor(h)

IndInv ==
    /\ SendTypeOK /\ NotifyTypeOK /\ NodeTracked
    /\ Held /\ Quiet /\ Posted /\ QueuedOrNotified
    /\ Worked /\ Called /\ Numbered /\ Past /\ Delivered

-----------------------------------------------------------------------------
\* The goroutine of a message is one of those that deliver to the other node,
\* and the topics of this node are not those of the other one's users.
LEMMA Names ==
  /\ \A m \in Msgs: /\ m \in Procs /\ m \in Senders /\ m \notin Scans /\ m \in Data
                    /\ m \in Handlers /\ m \notin Remotes /\ m # NoData
  /\ NoData \notin Procs
  /\ \A r \in Remotes: r \in Handlers /\ r \notin Msgs
  /\ Channel \in Topics /\ Channel \in Here /\ Channel \notin Subs
  /\ \A u \in LocalUsers: u \in Topics /\ u \in Subs
  /\ \A u \in RemoteUsers: u \in Topics /\ u \in Subs /\ u \notin Here
  /\ NoWork \in Work
  BY SendAssumption, NodeAssumption DEF Procs, Msgs, Handlers, Topics, Here, Subs, NoWork, Work

\* The subscribers of a message are users of the one node or the other.
LEMMA SubsKnown ==
  ASSUME SendTypeOK, NEW m \in Msgs
  PROVE  send[m].local \subseteq LocalUsers /\ send[m].remote \subseteq RemoteUsers
  BY DEF SendTypeOK

\* What NextOffset does.
TakesOne(h, t) ==
    /\ topic' \in [Topics -> TopicState] /\ work' \in [Handlers -> Work]
    /\ topic'[t].last = topic[t].last + 1
    /\ topic'[t].mem = topic[t].mem /\ topic'[t].life = topic[t].life /\ topic'[t].tries = topic[t].tries
    /\ \A s \in Topics: s # t => topic'[s] = topic[s]
    /\ work'[h].at = t /\ work'[h].num = topic[t].last + 1
    /\ work'[h].m = work[h].m /\ work'[h].todo = work[h].todo /\ work'[h].by = work[h].by
    /\ \A g \in Handlers: g # h => work'[g] = work[g]

LEMMA NumberTaken ==
  ASSUME SendTypeOK, NEW h \in Handlers, NEW t \in Topics, NextOffset(h, t)
  PROVE  TakesOne(h, t)
  <1>1. topic[t] \in TopicState /\ work[h] \in Work BY DEF SendTypeOK
  <1>2. [topic[t] EXCEPT !.last = @ + 1] \in TopicState BY <1>1 DEF TopicState
  <1>0. topic[t].last + 1 \in Nat BY <1>1 DEF TopicState
  <1>3. [work[h] EXCEPT !.at = t, !.num = topic[t].last + 1] \in Work BY <1>0, <1>1 DEF Work
  <1>4. /\ topic' = [topic EXCEPT ![t] = [topic[t] EXCEPT !.last = @ + 1]]
        /\ work' = [work EXCEPT ![h] = [work[h] EXCEPT !.at = t, !.num = topic[t].last + 1]]
    BY DEF NextOffset, SendTypeOK
  <1>5. topic' \in [Topics -> TopicState] /\ work' \in [Handlers -> Work]
    BY <1>2, <1>3, <1>4 DEF SendTypeOK
  <1>6. /\ topic'[t] = [topic[t] EXCEPT !.last = @ + 1] /\ \A s \in Topics: s # t => topic'[s] = topic[s]
        /\ work'[h] = [work[h] EXCEPT !.at = t, !.num = topic[t].last + 1]
        /\ \A g \in Handlers: g # h => work'[g] = work[g]
    BY <1>4 DEF SendTypeOK
  <1>7. /\ topic'[t].last = topic[t].last + 1 /\ topic'[t].mem = topic[t].mem
        /\ topic'[t].life = topic[t].life /\ topic'[t].tries = topic[t].tries
    BY <1>1, <1>6 DEF TopicState
  <1>8. /\ work'[h].at = t /\ work'[h].num = topic[t].last + 1
        /\ work'[h].m = work[h].m /\ work'[h].todo = work[h].todo /\ work'[h].by = work[h].by
    BY <1>1, <1>6 DEF Work
  <1> QED BY <1>5, <1>6, <1>7, <1>8 DEF TakesOne

\* What AppendLog does.
TriesOne(t, m, n, out) ==
    /\ topic' \in [Topics -> TopicState]
    /\ IF n <= topic[t].mem THEN out = "dropped" ELSE out \in {"written", "failed"}
    /\ topic'[t].tries = topic[t].tries \cup {[msg |-> m, life |-> topic[t].life, num |-> n, out |-> out]}
    /\ topic'[t].mem = IF out = "dropped" THEN topic[t].mem ELSE n
    /\ topic'[t].last = IF out = "dropped" \/ n <= topic[t].last THEN topic[t].last ELSE n
    /\ topic'[t].life = topic[t].life
    /\ \A s \in Topics: s # t => topic'[s] = topic[s]

LEMMA LogAppended ==
  ASSUME SendTypeOK, NEW t \in Topics, NEW m \in Msgs, NEW n \in Nat, NEW out, AppendLog(t, m, n, out)
  PROVE  TriesOne(t, m, n, out)
  <1> DEFINE r == [msg |-> m, life |-> topic[t].life, num |-> n, out |-> out]
             new == [last |-> IF out = "dropped" \/ n <= topic[t].last THEN topic[t].last ELSE n,
                     mem |-> IF out = "dropped" THEN topic[t].mem ELSE n,
                     life |-> topic[t].life, tries |-> topic[t].tries \cup {r}]
  <1>1. topic[t] \in TopicState BY DEF SendTypeOK
  <1>2. IF n <= topic[t].mem THEN out = "dropped" ELSE out \in {"written", "failed"} BY DEF AppendLog
  <1>3. topic[t].life \in Nat /\ topic[t].mem \in Nat /\ topic[t].last \in Nat /\ topic[t].tries \subseteq Try
    BY <1>1 DEF TopicState
  <1>4. r \in Try BY <1>2, <1>3 DEF Try
  <1>5. /\ new.tries = topic[t].tries \cup {r}
        /\ new.mem = IF out = "dropped" THEN topic[t].mem ELSE n
        /\ new.last = IF out = "dropped" \/ n <= topic[t].last THEN topic[t].last ELSE n
        /\ new.life = topic[t].life
    OBVIOUS
  <1>6. new \in TopicState BY <1>3, <1>4 DEF TopicState
  <1>7. topic' = [topic EXCEPT ![t] = new] BY DEF AppendLog, SendTypeOK
  <1> HIDE DEF new
  <1>8. /\ topic' \in [Topics -> TopicState] /\ topic'[t] = new
        /\ \A s \in Topics: s # t => topic'[s] = topic[s]
    BY <1>6, <1>7 DEF SendTypeOK
  <1> QED BY <1>2, <1>5, <1>8 DEF TriesOne

\* The call of goroutine h for message m returns, with out as the outcome;
\* the number is no longer in hand.
Tries(h, m, out) ==
    /\ work[h].num > 0
    /\ TriesOne(work[h].at, m, work[h].num, out)
    /\ work' \in [Handlers -> Work] /\ work'[h].num = 0
    /\ \A g \in Handlers: g # h => work'[g] = work[g]

\* Steps that touch no topic and take up no number.
Still ==
    /\ topic' = topic
    /\ work' \in [Handlers -> Work]
    /\ \A h \in Handlers: work'[h].num > 0 => work'[h].num = work[h].num /\ work'[h].at = work[h].at

\* What a step is to the topics.
TopicStep ==
    \/ Still
    \/ \E h \in Handlers, t \in Topics: work[h].num = 0 /\ TakesOne(h, t)
    \/ \E h \in Handlers, m \in Msgs, out \in {"written", "failed", "dropped"}: Tries(h, m, out)
    \/ Restart

-----------------------------------------------------------------------------
LEMMA StepCases ==
  ASSUME [Next]_vars
  PROVE  \/ \E m \in Msgs: \/ getSendChannel(m) \/ GetNextMessageSeq(m) \/ AppendMessage(m)
                           \/ NotifyAppend(m) \/ PutForward(m) \/ ForwardReturns(m)
                           \/ PutLocalStores(m) \/ PutLocalFails(m) \/ PutLocalDone(m) \/ Sendack(m)
         \/ \E r \in Remotes, p \in Procs: RemoteBegins(r, p)
         \/ \E r \in Remotes, d \in Msgs: RemoteBeginsLate(r, d)
         \/ \E r \in Remotes: RemoteStores(r) \/ RemoteFails(r) \/ RemoteDone(r)
         \/ \E p \in Procs: NodeStep(p) \/ RemoteGivenUp(p)
         \/ \E n \in Nodes: Notify(n) \/ Lead(n)
         \/ Halt \/ Restart \/ UNCHANGED vars
  BY DEF Next, SendStep, RemoteStep, Finished, Msgs

\* One goroutine's work changes.
LEMMA WorkSet ==
  ASSUME SendTypeOK, NEW h \in Handlers, NEW w \in Work, work' = [work EXCEPT ![h] = w]
  PROVE  work' \in [Handlers -> Work] /\ work'[h] = w /\ \A g \in Handlers: g # h => work'[g] = work[g]
  BY DEF SendTypeOK

\* A goroutine that takes up message m.
LEMMA WorkBegins ==
  ASSUME SendTypeOK, NEW h \in Handlers, NEW m \in Msgs, NEW subs \in SUBSET Subs,
         NEW by \in Procs \cup {NoData}, Begins(h, m, subs, by)
  PROVE  /\ work' \in [Handlers -> Work] /\ \A g \in Handlers: g # h => work'[g] = work[g]
         /\ work'[h].m = m /\ work'[h].num = 0 /\ work'[h].by = by
         /\ work'[h].todo = IF send[m].kind = "synconce" THEN subs ELSE {}
  <1> DEFINE w == [NoWork EXCEPT !.m = m, !.todo = IF send[m].kind = "synconce" THEN subs ELSE {}, !.by = by]
  <1>1. /\ w.m = m /\ w.num = 0 /\ w.by = by
        /\ w.todo = IF send[m].kind = "synconce" THEN subs ELSE {}
    BY DEF NoWork
  <1>2. w \in Work BY Names DEF NoWork, Work
  <1>3. work' = [work EXCEPT ![h] = w] BY DEF Begins
  <1> HIDE DEF w
  <1> QED BY <1>1, <1>2, <1>3, WorkSet

\* A goroutine that has stored its message for a subscriber.
LEMMA WorkStored ==
  ASSUME SendTypeOK, NEW h \in Handlers,
         work' = [work EXCEPT ![h] = [@ EXCEPT !.todo = work[h].todo \ {work[h].at}, !.at = Channel, !.num = 0]]
  PROVE  /\ work' \in [Handlers -> Work] /\ \A g \in Handlers: g # h => work'[g] = work[g]
         /\ work'[h].m = work[h].m /\ work'[h].num = 0 /\ work'[h].by = work[h].by
         /\ work'[h].todo = work[h].todo \ {work[h].at}
  <1> DEFINE w == [work[h] EXCEPT !.todo = work[h].todo \ {work[h].at}, !.at = Channel, !.num = 0]
  <1>0. work[h] \in Work BY DEF SendTypeOK
  <1>1. /\ w.m = work[h].m /\ w.num = 0 /\ w.by = work[h].by
        /\ w.todo = work[h].todo \ {work[h].at}
    BY <1>0 DEF Work
  <1>4. work[h].todo \ {work[h].at} \subseteq Subs BY <1>0 DEF Work
  <1>2. w \in Work BY <1>0, <1>4, Names DEF Work
  <1>3. work' = [work EXCEPT ![h] = w] BY DEF SendTypeOK
  <1> HIDE DEF w
  <1> QED BY <1>1, <1>2, <1>3, WorkSet

\* Nobody waits any longer for some goroutines.
LEMMA WorkGivenUp ==
  ASSUME SendTypeOK, NEW h \in Handlers, NEW ps
  PROVE  /\ GivenUp(ps)[h] \in Work
         /\ GivenUp(ps)[h].m = work[h].m /\ GivenUp(ps)[h].todo = work[h].todo
         /\ GivenUp(ps)[h].at = work[h].at /\ GivenUp(ps)[h].num = work[h].num
         /\ GivenUp(ps)[h].by = IF work[h].by \in ps THEN NoData ELSE work[h].by
  <1>1. work[h] \in Work BY DEF SendTypeOK
  <1> QED BY <1>1 DEF GivenUp, Work

\* The topic and message of an append.
LEMMA Appending ==
  ASSUME SendTypeOK, NEW h \in Handlers
  PROVE  work[h].at \in Topics /\ work[h].num \in Nat /\ work[h].m \in Msgs \cup {NoData}
         /\ work[h].todo \subseteq Subs /\ work[h].by \in Procs \cup {NoData}
  BY DEF SendTypeOK, Work

\* The steps of storing for the subscribers: a number, or an append.
LEMMA StoresSteps ==
  ASSUME SendTypeOK, NEW h \in Handlers, work[h].m \in Msgs, TakesNumber(h) \/ StoresFor(h)
  PROVE  \/ \E u \in work[h].todo: work[h].num = 0 /\ TakesOne(h, u)
         \/ /\ \E out \in {"written", "dropped"}: Tries(h, work[h].m, out)
            /\ work'[h].m = work[h].m /\ work'[h].by = work[h].by
            /\ work'[h].todo = work[h].todo \ {work[h].at}
  <1>1. CASE TakesNumber(h)
    <2>1. PICK u \in work[h].todo: NextOffset(h, u) BY <1>1 DEF TakesNumber
    <2>2. u \in Topics BY Appending DEF Topics
    <2> QED BY <1>1, <2>1, <2>2, NumberTaken DEF TakesNumber
  <1>2. CASE StoresFor(h)
    <2>1. PICK out \in {"written", "dropped"}: AppendLog(work[h].at, work[h].m, work[h].num, out)
      BY <1>2 DEF StoresFor, Appends
    <2>2. TriesOne(work[h].at, work[h].m, work[h].num, out) BY <2>1, LogAppended, Appending
    <2>3. /\ work' \in [Handlers -> Work] /\ \A g \in Handlers: g # h => work'[g] = work[g]
          /\ work'[h].m = work[h].m /\ work'[h].num = 0 /\ work'[h].by = work[h].by
          /\ work'[h].todo = work[h].todo \ {work[h].at}
      BY <1>2, WorkStored DEF StoresFor
    <2>4. Tries(h, work[h].m, out) BY <1>2, <2>2, <2>3 DEF Tries, StoresFor
    <2> QED BY <2>3, <2>4
  <1> QED BY <1>1, <1>2

\* A call that returns an error, of a goroutine whose work ends with it.
LEMMA FailsSteps ==
  ASSUME SendTypeOK, NEW h \in Handlers, NEW m \in Msgs, work[h].num > 0, AppendErrs(h, m),
         work' = [work EXCEPT ![h] = NoWork]
  PROVE  /\ work' \in [Handlers -> Work] /\ work'[h] = NoWork /\ \A g \in Handlers: g # h => work'[g] = work[g]
         /\ Still \/ \E out \in {"written", "failed"}: Tries(h, m, out)
  <1>1. work' \in [Handlers -> Work] /\ work'[h] = NoWork /\ \A g \in Handlers: g # h => work'[g] = work[g]
    BY WorkSet, Names
  <1>2. NoWork.num = 0 BY DEF NoWork
  <1>3. CASE topic' = topic BY <1>1, <1>2, <1>3 DEF Still
  <1>4. ASSUME NEW out \in {"written", "failed"}, AppendLog(work[h].at, m, work[h].num, out)
        PROVE  Tries(h, m, out)
    BY <1>1, <1>2, <1>4, LogAppended, Appending DEF Tries
  <1> QED BY <1>1, <1>3, <1>4 DEF AppendErrs

-----------------------------------------------------------------------------
\* A goroutine on the way of a message does its storing for that message.
LEMMA LocalWork ==
  ASSUME Worked, NEW m \in Msgs, step[m] = "local"
  PROVE  work[m].m = m /\ work[m].m \in Msgs
  BY DEF Worked

LEMMA RemoteWork ==
  ASSUME SendTypeOK, NEW r \in Remotes, work[r].m # NoData
  PROVE  work[r].m \in Msgs
  BY Names, Appending

\* Every append is that of a message whose number its goroutine has in hand.
LEMMA TopicSteps ==
  ASSUME SendTypeOK, NodeTracked, Held, Worked, [Next]_vars
  PROVE  TopicStep
  <1> USE DEF TopicStep
  <1>0. ASSUME UNCHANGED <<topic, work>> PROVE Still
    BY <1>0 DEF Still, SendTypeOK
  <1>n. ASSUME NEW h \in Handlers, topic' = topic, work' = [work EXCEPT ![h] = NoWork] PROVE Still
    <2>1. NoWork.num = 0 BY DEF NoWork
    <2>2. NoWork \in Work BY Names
    <2>3. work' \in [Handlers -> Work] /\ work'[h] = NoWork /\ \A g \in Handlers: g # h => work'[g] = work[g]
      BY <1>n, <2>2, WorkSet
    <2> QED BY <1>n, <2>1, <2>3 DEF Still
  <1>1. ASSUME NEW m \in Msgs, getSendChannel(m) \/ NotifyAppend(m) \/ Sendack(m) PROVE TopicStep
    BY <1>0, <1>1 DEF getSendChannel, NotifyAppend, Sendack
  <1>2. ASSUME NEW m \in Msgs, GetNextMessageSeq(m) PROVE TopicStep
    <2>1. work[m].num = 0 BY <1>2 DEF GetNextMessageSeq, At, Worked, NoWork
    <2> QED BY <1>2, <2>1, Names, NumberTaken DEF GetNextMessageSeq
  <1>3. ASSUME NEW m \in Msgs, AppendMessage(m) PROVE TopicStep
    <2>1. work[m].num > 0 BY <1>3 DEF AppendMessage, At, Worked
    <2>0. m \in Handlers BY Names
    <2>2. CASE AppendErrs(m, m)
      <3>1. work' = [work EXCEPT ![m] = NoWork] BY <1>3 DEF AppendMessage
      <3>2. Still \/ \E out \in {"written", "failed"}: Tries(m, m, out)
        BY <2>0, <2>1, <2>2, <3>1, FailsSteps
      <3> QED BY <2>0, <3>2
    <2>3. ASSUME NEW out \in {"written", "dropped"}, AppendLog(work[m].at, m, work[m].num, out) PROVE TopicStep
      <3>1. /\ work' \in [Handlers -> Work] /\ work'[m] = NoWork
            /\ \A g \in Handlers: g # m => work'[g] = work[g]
        BY <1>3, Names, WorkSet DEF AppendMessage
      <3>2. NoWork.num = 0 BY DEF NoWork
      <3>3. Tries(m, m, out) BY <2>1, <2>3, <3>1, <3>2, Names, LogAppended, Appending DEF Tries
      <3> QED BY <3>3, Names
    <2> QED BY <1>3, <2>2, <2>3 DEF AppendMessage, Appends
  <1>4. ASSUME NEW m \in Msgs, PutForward(m) \/ ForwardReturns(m) PROVE TopicStep
    <2>1. CASE UNCHANGED work BY <1>0, <1>4, <2>1 DEF PutForward, ForwardReturns
    <2>2. CASE Begins(m, m, send[m].local, NoData)
      <3>1. send[m].local \in SUBSET Subs BY SubsKnown DEF Subs
      <3>3. /\ work' \in [Handlers -> Work] /\ \A g \in Handlers: g # m => work'[g] = work[g]
            /\ work'[m].num = 0
        BY <2>2, <3>1, Names, WorkBegins
      <3>2. Still BY <1>4, <3>3 DEF PutForward, ForwardReturns, Still
      <3> QED BY <3>2
    <2> QED BY <1>4, <2>1, <2>2 DEF PutForward, ForwardReturns
  <1>s. ASSUME NEW h \in Handlers, work[h].m \in Msgs, TakesNumber(h) \/ StoresFor(h) PROVE TopicStep
    <2>1. \A u \in work[h].todo: u \in Topics BY Appending DEF Topics
    <2> QED BY <1>s, <2>1, StoresSteps
  <1>f. ASSUME NEW h \in Handlers, work[h].m \in Msgs, StoreFails(h) PROVE TopicStep
    BY <1>f, FailsSteps DEF StoreFails
  <1>5. ASSUME NEW m \in Msgs, PutLocalStores(m) \/ PutLocalFails(m) \/ PutLocalDone(m) PROVE TopicStep
    <2>1. m \in Handlers /\ work[m].m \in Msgs
      BY <1>5, LocalWork, Names DEF PutLocalStores, PutLocalFails, PutLocalDone, At
    <2> QED BY <1>5, <1>s, <1>f, <1>n, <2>1 DEF PutLocalStores, PutLocalFails, PutLocalDone, HandsOver
  <1>6. ASSUME NEW r \in Remotes, RemoteStores(r) \/ RemoteFails(r) \/ RemoteDone(r) PROVE TopicStep
    <2>1. r \in Handlers /\ work[r].m \in Msgs
      BY <1>6, RemoteWork, Names DEF RemoteStores, RemoteFails, RemoteDone
    <2> QED BY <1>6, <1>s, <1>f, <1>n, <2>1 DEF RemoteStores, RemoteFails, RemoteDone, HandsOver
  <1>7. ASSUME NEW r \in Remotes, NEW p \in Procs, RemoteBegins(r, p) PROVE TopicStep
    <2>1. proc[p].d \in Msgs BY <1>7 DEF RemoteBegins, Held, NodeTracked, NodeTypeOK, Msgs
    <2>2. send[proc[p].d].remote \in SUBSET Subs BY <2>1, SubsKnown DEF Subs
    <2>4. Begins(r, proc[p].d, send[proc[p].d].remote, p) /\ topic' = topic BY <1>7 DEF RemoteBegins
    <2>5. /\ work' \in [Handlers -> Work] /\ \A g \in Handlers: g # r => work'[g] = work[g]
          /\ work'[r].num = 0
      BY <2>1, <2>2, <2>4, Names, WorkBegins
    <2>3. Still BY <2>4, <2>5 DEF Still
    <2> QED BY <2>3
  <1>8. ASSUME NEW r \in Remotes, NEW d \in Msgs, RemoteBeginsLate(r, d) PROVE TopicStep
    <2>2. send[d].remote \in SUBSET Subs BY SubsKnown DEF Subs
    <2>3. Still BY <1>8, <2>2, Names, WorkBegins DEF RemoteBeginsLate, Still
    <2> QED BY <2>3
  <1>9. ASSUME NEW p \in Procs, NodeStep(p) \/ RemoteGivenUp(p) PROVE TopicStep
    <2>1. CASE NodeStep(p) BY <1>0, <2>1 DEF NodeStep, sendVars
    <2>2. CASE RemoteGivenUp(p)
      <3>1. topic' = topic /\ work' = GivenUp({p}) BY <2>2 DEF RemoteGivenUp
      <3>2. work' \in [Handlers -> Work] BY <3>1, WorkGivenUp DEF GivenUp
      <3>3. Still BY <3>1, <3>2, WorkGivenUp DEF Still
      <3> QED BY <3>3
    <2> QED BY <1>9, <2>1, <2>2
  <1>10. ASSUME NEW n \in Nodes, Notify(n) \/ Lead(n) PROVE TopicStep
    BY <1>0, <1>10 DEF Notify, Lead, sendVars
  <1>11. CASE Halt
    <2>1. topic' = topic /\ work' = [h \in Handlers |-> IF h \in Msgs THEN NoWork ELSE GivenUp(Procs)[h]]
      BY <1>11 DEF Halt
    <2>2. work' \in [Handlers -> Work] BY <2>1, WorkGivenUp, Names
    <2>3. NoWork.num = 0 BY DEF NoWork
    <2>4. Still BY <2>1, <2>2, <2>3, WorkGivenUp DEF Still
    <2> QED BY <2>4
  <1>12. CASE UNCHANGED vars BY <1>0, <1>12 DEF vars, sendVars
  <1> QED BY <1>1, <1>2, <1>3, <1>4, <1>5, <1>6, <1>7, <1>8, <1>9, <1>10, <1>11, <1>12, StepCases

LEMMA IsFunction ==
  ASSUME NEW S, NEW T, NEW f, f = [x \in S |-> f[x]], \A x \in S: f[x] \in T
  PROVE  f \in [S -> T]
  OBVIOUS

\* Opening the topics again.
LEMMA Reopens ==
  ASSUME SendTypeOK, Restart
  PROVE  /\ topic' \in [Topics -> TopicState] /\ work' = work
         /\ \A t \in Topics: topic'[t].tries = topic[t].tries
         /\ \A t \in Topics: IF t \in Here THEN topic'[t].mem = 0 /\ topic'[t].life = topic[t].life + 1
                             ELSE topic'[t] = topic[t]
  <1> DEFINE Opened(t) ==
               IF t \in Here THEN topic'[t].mem = 0 /\ topic'[t].life = topic[t].life + 1
               ELSE topic'[t] = topic[t]
  <1>1. PICK last \in [Here -> UNION { Reopened(t) : t \in Here }]:
           /\ \A t \in Here: last[t] \in Reopened(t)
           /\ topic' = [t \in Topics |->
                IF t \in Here THEN [topic[t] EXCEPT !.last = last[t], !.mem = 0, !.life = @ + 1]
                ELSE topic[t]]
    BY DEF Restart
  <1>2. work' = work BY DEF Restart
  <1>3. ASSUME NEW t \in Topics
        PROVE  topic'[t] \in TopicState /\ topic'[t].tries = topic[t].tries /\ Opened(t)
    <2>1. topic[t] \in TopicState BY DEF SendTypeOK
    <2>2. CASE t \in Here
      <3>1. topic[t].tries \subseteq Try /\ topic[t].life + 1 \in Nat BY <2>1 DEF TopicState
      <3>4. \A q \in topic[t].tries: q.num \in Nat BY <3>1 DEF Try
      <3>7. last[t] \in Reopened(t) BY <1>1, <2>2
      <3>8. \A n \in Reopened(t): n \in Nat BY <3>4 DEF Reopened
      <3>2. last[t] \in Nat BY <3>7, <3>8
      <3>3. topic'[t] = [topic[t] EXCEPT !.last = last[t], !.mem = 0, !.life = topic[t].life + 1]
        BY <1>1, <2>2
      <3>5. /\ topic'[t].last = last[t] /\ topic'[t].mem = 0 /\ topic'[t].life = topic[t].life + 1
            /\ topic'[t].tries = topic[t].tries
            /\ topic'[t] = [last |-> last[t], mem |-> 0, life |-> topic[t].life + 1, tries |-> topic[t].tries]
        BY <2>1, <3>3 DEF TopicState
      <3>6. topic'[t] \in TopicState BY <3>1, <3>2, <3>5 DEF TopicState
      <3> QED BY <2>2, <3>5, <3>6
    <2>3. CASE t \notin Here
      <3>1. topic'[t] = topic[t] BY <1>1, <2>3
      <3> QED BY <2>1, <2>3, <3>1
    <2> QED BY <2>2, <2>3
  <1>4. topic' = [t \in Topics |-> topic'[t]] BY <1>1
  <1> HIDE DEF Opened
  <1>5. /\ \A t \in Topics: topic'[t] \in TopicState
        /\ \A t \in Topics: topic'[t].tries = topic[t].tries
        /\ \A t \in Topics: Opened(t)
    BY <1>3
  <1>6. topic' \in [Topics -> TopicState] BY <1>4, <1>5, IsFunction
  <1> QED BY <1>2, <1>5, <1>6, SMTT(30) DEF Opened

\* What was tried stays known, and the types of topics and work.
LEMMA TriesGrow ==
  ASSUME SendTypeOK, TopicStep
  PROVE  /\ topic' \in [Topics -> TopicState] /\ work' \in [Handlers -> Work]
         /\ \A t \in Topics: topic[t].tries \subseteq topic'[t].tries
  <1>1. CASE Still BY <1>1 DEF Still, SendTypeOK
  <1>2. ASSUME NEW h \in Handlers, NEW t \in Topics, TakesOne(h, t)
        PROVE  \A s \in Topics: topic[s].tries \subseteq topic'[s].tries
    BY <1>2 DEF TakesOne
  <1>3. ASSUME NEW h \in Handlers, NEW m \in Msgs, NEW out, Tries(h, m, out)
        PROVE  \A s \in Topics: topic[s].tries \subseteq topic'[s].tries
    BY <1>3 DEF Tries, TriesOne
  <1>4. CASE Restart BY <1>4, Reopens DEF SendTypeOK
  <1>5. ASSUME NEW h \in Handlers, NEW t \in Topics, TakesOne(h, t)
        PROVE  topic' \in [Topics -> TopicState] /\ work' \in [Handlers -> Work]
    BY <1>5 DEF TakesOne
  <1>6. ASSUME NEW h \in Handlers, NEW m \in Msgs, NEW out, Tries(h, m, out)
        PROVE  topic' \in [Topics -> TopicState] /\ work' \in [Handlers -> Work]
    BY <1>6 DEF Tries, TriesOne
  <1> QED BY <1>1, <1>2, <1>3, <1>4, <1>5, <1>6 DEF TopicStep

\* The types of the send path.
LEMMA StepSendType ==
  ASSUME IndInv, [Next]_vars
  PROVE  SendTypeOK'
  <1> USE DEF IndInv, SendTypeOK
  <1>0. topic' \in [Topics -> TopicState] /\ work' \in [Handlers -> Work] BY TopicSteps, TriesGrow
  <1> DEFINE Rest == /\ send' = send /\ step' \in [Msgs -> Steps]
                     /\ result' \in [Msgs -> {"none", "error", "success"}]
                     /\ ack' \in [Msgs -> {"none", "error", "success"}]
                     /\ pushed' \in [Msgs -> SUBSET Subs]
  <1> SUFFICES Rest BY <1>0
  <1> USE DEF To, Answer, Steps
  <1>h. ASSUME NEW h, NEW m \in Msgs, work[h].m = m, NEW subs \in SUBSET Subs, HandsOver(h, subs)
        PROVE  pushed' \in [Msgs -> SUBSET Subs]
    BY <1>h DEF HandsOver
  <1>1. ASSUME NEW m \in Msgs, \/ getSendChannel(m) \/ GetNextMessageSeq(m) \/ AppendMessage(m)
                                \/ NotifyAppend(m) \/ PutForward(m) \/ ForwardReturns(m)
                                \/ PutLocalStores(m) \/ PutLocalFails(m) \/ Sendack(m)
        PROVE  Rest
    <2>1. CASE getSendChannel(m) BY <2>1 DEF getSendChannel
    <2>2. CASE GetNextMessageSeq(m) BY <2>2 DEF GetNextMessageSeq
    <2>3. CASE AppendMessage(m) BY <2>3 DEF AppendMessage
    <2>4. CASE NotifyAppend(m) BY <2>4 DEF NotifyAppend
    <2>5. CASE PutForward(m) BY <2>5 DEF PutForward
    <2>6. CASE ForwardReturns(m) BY <2>6 DEF ForwardReturns
    <2>7. CASE PutLocalStores(m) BY <2>7 DEF PutLocalStores
    <2>8. CASE PutLocalFails(m) BY <2>8 DEF PutLocalFails, StoreFails
    <2>9. CASE Sendack(m) BY <2>9 DEF Sendack
    <2> QED BY <1>1, <2>1, <2>2, <2>3, <2>4, <2>5, <2>6, <2>7, <2>8, <2>9
  <1>2. ASSUME NEW m \in Msgs, PutLocalDone(m) PROVE Rest
    <2>1. work[m].m = m BY <1>2, LocalWork DEF PutLocalDone, At
    <2>2. send[m].local \in SUBSET Subs BY SubsKnown DEF Subs
    <2>3. pushed' \in [Msgs -> SUBSET Subs] BY <1>2, <1>h, <2>1, <2>2 DEF PutLocalDone
    <2> QED BY <1>2, <2>3 DEF PutLocalDone
  <1>3. ASSUME NEW r \in Remotes, RemoteDone(r) PROVE Rest
    <2>1. work[r].m \in Msgs BY <1>3, RemoteWork DEF RemoteDone
    <2>2. send[work[r].m].remote \in SUBSET Subs BY <2>1, SubsKnown DEF Subs
    <2>3. pushed' \in [Msgs -> SUBSET Subs] BY <1>3, <1>h, <2>1, <2>2 DEF RemoteDone
    <2> QED BY <1>3, <2>3 DEF RemoteDone, coreVars
  <1>4. ASSUME NEW r \in Remotes, \/ RemoteStores(r) \/ RemoteFails(r)
                                  \/ \E p \in Procs: RemoteBegins(r, p)
                                  \/ \E d \in Msgs: RemoteBeginsLate(r, d)
        PROVE  Rest
    BY <1>4 DEF RemoteStores, RemoteFails, StoreFails, RemoteBegins, RemoteBeginsLate, coreVars
  <1>5. ASSUME NEW p \in Procs, NodeStep(p) \/ RemoteGivenUp(p) PROVE Rest
    BY <1>5 DEF NodeStep, RemoteGivenUp, sendVars, coreVars
  <1>6. ASSUME NEW n \in Nodes, Notify(n) \/ Lead(n) PROVE Rest
    BY <1>6 DEF Notify, Lead, sendVars
  <1>7. CASE Halt BY <1>7 DEF Halt
  <1>8. CASE Restart BY <1>8 DEF Restart
  <1>9. CASE UNCHANGED vars BY <1>9 DEF vars, sendVars
  <1> HIDE DEF Rest, IndInv, SendTypeOK, To, Answer, Steps
  <1> QED BY <1>1, <1>2, <1>3, <1>4, <1>5, <1>6, <1>7, <1>8, <1>9, StepCases
-----------------------------------------------------------------------------
\* The notification queue: what each step is to it.
QueueStep ==
    \/ UNCHANGED notifyVars
    \/ \E m \in Msgs: AppendMessageOfNotifyQueue(m)
    \/ \E n \in Nodes: NotifyStep(n) \/ NotifyFault(n) \/ Elect(n)
    \/ NotifyAborts

LEMMA QueueSteps ==
  ASSUME [Next]_vars
  PROVE  QueueStep
  <1> USE DEF QueueStep
  <1>1. ASSUME NEW m \in Msgs, \/ getSendChannel(m) \/ GetNextMessageSeq(m) \/ AppendMessage(m)
                                \/ NotifyAppend(m) \/ PutForward(m) \/ ForwardReturns(m)
                                \/ PutLocalStores(m) \/ PutLocalFails(m) \/ PutLocalDone(m) \/ Sendack(m)
        PROVE  QueueStep
    BY <1>1 DEF getSendChannel, GetNextMessageSeq, AppendMessage, NotifyAppend, PutForward, ForwardReturns,
                PutLocalStores, PutLocalFails, PutLocalDone, Sendack
  <1>2. ASSUME NEW r \in Remotes, \/ RemoteStores(r) \/ RemoteFails(r) \/ RemoteDone(r)
                                  \/ \E p \in Procs: RemoteBegins(r, p)
                                  \/ \E d \in Msgs: RemoteBeginsLate(r, d)
        PROVE  QueueStep
    BY <1>2 DEF RemoteStores, RemoteFails, RemoteDone, RemoteBegins, RemoteBeginsLate
  <1>3. ASSUME NEW p \in Procs, NodeStep(p) \/ RemoteGivenUp(p) PROVE QueueStep
    BY <1>3 DEF NodeStep, RemoteGivenUp
  <1>4. ASSUME NEW n \in Nodes, Notify(n) \/ Lead(n) PROVE QueueStep
    BY <1>4 DEF Notify, Lead
  <1>5. CASE Halt \/ Restart \/ UNCHANGED vars BY <1>5 DEF Halt, Restart, vars
  <1> HIDE DEF QueueStep
  <1> QED BY <1>1, <1>2, <1>3, <1>4, <1>5, StepCases

\* Messages leave the queue only when they have been posted, and what is
\* appended comes under a new key.
LEMMA StepNotify ==
  ASSUME NotifyTypeOK, Posted, QueuedOrNotified, QueueStep
  PROVE  NotifyTypeOK' /\ Posted' /\ QueuedOrNotified'
  <1> USE DEF NotifyTypeOK
  <1>1. CASE UNCHANGED notifyVars BY <1>1 DEF notifyVars, Posted, QueuedOrNotified
  <1>2. ASSUME NEW m \in Msgs, AppendMessageOfNotifyQueue(m)
        PROVE  NotifyTypeOK' /\ Posted' /\ QueuedOrNotified'
    <2> USE DEF AppendMessageOfNotifyQueue
    <2>1. /\ notifySeq' = notifySeq + 1 /\ notifySeq' \notin DOMAIN notifyQ
          /\ DOMAIN notifyQ' = DOMAIN notifyQ \cup {notifySeq'}
          /\ notifyQ'[notifySeq'] = m
          /\ \A k \in DOMAIN notifyQ: notifyQ'[k] = notifyQ[k]
      BY <1>2
    <2>2. NotifyTypeOK'
      <3>1. notifyQ' \in [DOMAIN notifyQ' -> Msgs] BY <1>2, <2>1
      <3>2. \A k \in DOMAIN notifyQ': k \in Nat /\ k <= notifySeq' BY <2>1
      <3> QED BY <1>2, <3>1, <3>2
    <2>3. Posted' BY <1>2 DEF Posted
    <2>4. QueuedOrNotified' BY <1>2, <2>1 DEF QueuedOrNotified
    <2> QED BY <2>2, <2>3, <2>4
  <1>3. ASSUME NEW n \in Nodes PROVE
          NotifyStep(n) \/ NotifyFault(n) \/ Elect(n) => NotifyTypeOK' /\ Posted' /\ QueuedOrNotified'
    <2>1. CASE NotifyGets(n)
      <3>1. GetMessagesOfNotifyQueue \subseteq Msgs BY DEF GetMessagesOfNotifyQueue
      <3> QED BY <2>1, <3>1 DEF NotifyGets, Posted, QueuedOrNotified
    <2>2. CASE NotifyPosted(n) BY <2>2 DEF NotifyPosted, Posted, QueuedOrNotified
    <2>3. CASE NotifyRemoves(n)
      <3> DEFINE b == notifier[n].batch
      <3>1. b \subseteq notified BY <2>3 DEF NotifyRemoves, Posted
      <3>2. /\ DOMAIN notifyQ' = { k \in DOMAIN notifyQ : notifyQ[k] \notin b }
            /\ \A k \in DOMAIN notifyQ': notifyQ'[k] = notifyQ[k]
            /\ notifyQ' \in [DOMAIN notifyQ' -> Msgs]
        BY <2>3 DEF NotifyRemoves, RemoveMessagesOfNotifyQueue, Restrict
      <3>3. NotifyTypeOK' BY <2>3, <3>2 DEF NotifyRemoves
      <3>4. Posted' BY <2>3 DEF NotifyRemoves, Posted
      <3>5. QueuedOrNotified' BY <2>3, <3>1, <3>2 DEF NotifyRemoves, QueuedOrNotified
      <3> QED BY <3>3, <3>4, <3>5
    <2>4. CASE NotifyFails(n) BY <2>4 DEF NotifyFails, Posted, QueuedOrNotified
    <2>5. CASE NotifyRemoveFails(n) BY <2>5 DEF NotifyRemoveFails, Posted, QueuedOrNotified
    <2>6. CASE Elect(n) BY <2>6 DEF Elect, Posted, QueuedOrNotified
    <2> QED BY <2>1, <2>2, <2>3, <2>4, <2>5, <2>6 DEF NotifyStep, NotifyFault
  <1>4. CASE NotifyAborts
    BY <1>4, NotifyAssumption DEF NotifyAborts, Posted, QueuedOrNotified
  <1> QED BY <1>1, <1>2, <1>3, <1>4 DEF QueueStep

-----------------------------------------------------------------------------
\* Taking data off the heap leaves the other data on it.
LEMMA RemovedKeeps ==
  ASSUME heap \in Seq(Data), NEW d
  PROVE  /\ Removed(d) \in Seq(Data)
         /\ \A i \in DOMAIN Removed(d): \E j \in DOMAIN heap: Removed(d)[i] = heap[j]
         /\ \A j \in DOMAIN heap: heap[j] # d => \E i \in DOMAIN Removed(d): Removed(d)[i] = heap[j]
  <1> DEFINE Spots == { i \in DOMAIN heap : heap[i] = d }
             k == CHOOSE i \in Spots: TRUE
             q == RemoveAt(heap, k)
  <1>1. CASE Spots = {} BY <1>1 DEF Removed
  <1>2. CASE Spots # {}
    <2>1. Removed(d) = q BY <1>2 DEF Removed
    <2>2. k \in Spots BY <1>2
    <2> HIDE DEF k
    <2>3. k \in 1 .. Len(heap) /\ heap[k] = d /\ Len(heap) \in Nat BY <2>2
    <2> DEFINE a == SubSeq(heap, 1, k - 1)
               b == SubSeq(heap, k + 1, Len(heap))
    <2>4. /\ a \in Seq(Data) /\ Len(a) = k - 1 /\ \A i \in 1 .. k - 1: a[i] = heap[i]
          /\ b \in Seq(Data) /\ Len(b) = Len(heap) - k
          /\ \A i \in 1 .. Len(heap) - k: b[i] = heap[k + i]
      BY <2>3
    <2>5. q = a \o b BY DEF RemoveAt
    <2> HIDE DEF a, b, q
    <2>6. q \in Seq(Data) /\ Len(q) = Len(heap) - 1
      <3>1. ASSUME NEW s \in Seq(Data), NEW t \in Seq(Data)
            PROVE  s \o t \in Seq(Data) /\ Len(s \o t) = Len(s) + Len(t)
        OBVIOUS
      <3>2. q \in Seq(Data) /\ Len(q) = Len(a) + Len(b) BY <2>4, <2>5, <3>1
      <3> QED BY <2>3, <2>4, <3>2
    <2>7. \A i \in 1 .. Len(heap) - 1: q[i] = IF i < k THEN heap[i] ELSE heap[i + 1]
      <3> TAKE i \in 1 .. Len(heap) - 1
      <3>1. ASSUME NEW s \in Seq(Data), NEW t \in Seq(Data), NEW j \in 1 .. Len(s) + Len(t)
            PROVE  (s \o t)[j] = IF j <= Len(s) THEN s[j] ELSE t[j - Len(s)]
        OBVIOUS
      <3>2. i \in 1 .. Len(a) + Len(b) BY <2>3, <2>4
      <3>3. q[i] = IF i <= Len(a) THEN a[i] ELSE b[i - Len(a)] BY <2>4, <2>5, <3>1, <3>2
      <3>4. q[i] = IF i < k THEN a[i] ELSE b[i - (k - 1)] BY <2>3, <2>4, <3>3
      <3> QED BY <2>3, <2>4, <3>4
    <2>8. ASSUME NEW i \in DOMAIN q PROVE \E j \in DOMAIN heap: q[i] = heap[j]
      <3>1. i \in 1 .. Len(heap) - 1 BY <2>3, <2>6
      <3>2. i \in DOMAIN heap /\ i + 1 \in DOMAIN heap BY <2>3, <3>1
      <3> QED BY <2>7, <3>1, <3>2
    <2>9. ASSUME NEW j \in DOMAIN heap, heap[j] # d PROVE \E i \in DOMAIN q: q[i] = heap[j]
      <3>1. j \in 1 .. Len(heap) /\ j # k BY <2>3, <2>9
      <3>2. CASE j < k
        <4>1. j \in 1 .. Len(heap) - 1 /\ j \in DOMAIN q BY <2>3, <2>6, <3>1, <3>2
        <4> QED BY <2>7, <3>2, <4>1
      <3>3. CASE j > k
        <4>1. j - 1 \in 1 .. Len(heap) - 1 /\ j - 1 \in DOMAIN q /\ ~(j - 1 < k) /\ (j - 1) + 1 = j
          BY <2>3, <2>6, <3>1, <3>3
        <4>2. q[j - 1] = heap[j] BY <2>7, <4>1
        <4> QED BY <4>1, <4>2
      <3> QED BY <2>3, <3>1, <3>2, <3>3
    <2> QED BY <2>1, <2>6, <2>8, <2>9
  <1> QED BY <1>1, <1>2

\* What each step is to the data in flight.
NodeAction ==
    \/ UNCHANGED nodeVars
    \/ \E m \in Msgs: startDeliveryNodeData(m, m) \/ LateArrives(m) \/ (m \in started /\ ReceivedUnasked(m))
    \/ \E p \in Procs: \/ DeliveryStep(p) \/ ScanStep(p)
                       \/ RpcSucceeds(p) \/ RpcFails(p) \/ RpcGivenUp(p, Begun)
    \/ Stop(Begun) \/ Crash(Begun) \/ Start

LEMMA NodeActions ==
  ASSUME SendTypeOK, Worked, [Next]_vars
  PROVE  NodeAction
  <1> USE DEF NodeAction
  <1>1. ASSUME NEW m \in Msgs, \/ getSendChannel(m) \/ GetNextMessageSeq(m) \/ AppendMessage(m)
                                \/ NotifyAppend(m) \/ PutForward(m) \/ ForwardReturns(m)
                                \/ PutLocalStores(m) \/ PutLocalFails(m) \/ PutLocalDone(m) \/ Sendack(m)
        PROVE  NodeAction
    BY <1>1 DEF getSendChannel, GetNextMessageSeq, AppendMessage, NotifyAppend, PutForward, ForwardReturns,
                PutLocalStores, PutLocalFails, PutLocalDone, Sendack
  <1>2. ASSUME NEW r \in Remotes, RemoteFails(r) \/ RemoteDone(r) PROVE NodeAction
    <2>1. work[r].m \in Msgs /\ work[r].m \in started
      BY <1>2, RemoteWork DEF RemoteFails, RemoteDone, Worked
    <2>2. work[r].by # NoData => work[r].by \in Procs BY Names, Appending
    <2> QED BY <1>2, <2>1, <2>2 DEF RemoteFails, RemoteDone
  <1>3. ASSUME NEW r \in Remotes, \/ RemoteStores(r)
                                  \/ \E p \in Procs: RemoteBegins(r, p)
                                  \/ \E d \in Msgs: RemoteBeginsLate(r, d)
        PROVE  NodeAction
    BY <1>3 DEF RemoteStores, RemoteBegins, RemoteBeginsLate
  <1>4. ASSUME NEW p \in Procs, NodeStep(p) \/ RemoteGivenUp(p) PROVE NodeAction
    BY <1>4 DEF NodeStep, RemoteGivenUp
  <1>5. ASSUME NEW n \in Nodes, Notify(n) \/ Lead(n) PROVE NodeAction
    BY <1>5 DEF Notify, Lead
  <1>6. CASE Halt \/ Restart \/ UNCHANGED vars BY <1>6 DEF Halt, Restart, vars
  <1> HIDE DEF NodeAction
  <1> QED BY <1>1, <1>2, <1>3, <1>4, <1>5, <1>6, StepCases

\* Where data is that the other node has not got.
InHeap(d) == \E i \in DOMAIN heap: heap[i] = d
Where(d) ==
    \/ d \in flight /\ InHeap(d)
    \/ \E p \in Procs: Handling(p, d) /\ (proc[p].pc = "map" \/ d \in flight)

\* A goroutine that shifts data off the heap has it in hand until it is on
\* the heap again; it puts it back unless somebody has taken it out of the
\* map, who is then about to enter it again or knows that it has arrived.
LEMMA NodeKeeps ==
  ASSUME NodeTracked, Held, NodeAction
  PROVE  NodeTracked' /\ Held'
  <1>0. \A d \in Outstanding \ lost: Where(d) BY DEF NodeTracked, Where, InHeap
  <1> USE DEF NodeTypeOK
  <1>t. NodeTypeOK BY DEF NodeTracked
  <1> DEFINE Good == NodeTypeOK' /\ Held' /\ (\A d \in Outstanding \ lost: Where(d))'
  <1>g. SUFFICES Good BY DEF NodeTracked, Where, InHeap
  <1>1. CASE UNCHANGED nodeVars
    BY <1>0, <1>1, <1>t DEF nodeVars, Held, Where, InHeap, Outstanding, Handling
  <1>2. ASSUME NEW m \in Msgs, startDeliveryNodeData(m, m) PROVE Good
    <2> USE DEF startDeliveryNodeData
    <2>1. m \in Data /\ m \in Procs BY Names
    <2>2. NodeTypeOK' BY <1>2, <1>t, <2>1 DEF PCs
    <2>3. Held' BY <1>2, <1>t, <2>1 DEF Held, Outstanding
    <2>4. ASSUME NEW d \in Outstanding' \ lost' PROVE Where(d)'
      <3>1. CASE d = m BY <1>2, <1>t, <2>1, <3>1 DEF Where, Handling
      <3>2. CASE d # m
        <4>1. Where(d) BY <1>0, <1>2, <2>4, <3>2 DEF Outstanding
        <4>2. CASE d \in flight /\ InHeap(d) BY <1>2, <4>2 DEF Where, InHeap
        <4>3. ASSUME NEW p \in Procs, Handling(p, d), proc[p].pc = "map" \/ d \in flight PROVE Where(d)'
          <5>1. p # m BY <1>2, <4>3 DEF Handling
          <5>2. proc'[p] = proc[p] BY <1>2, <1>t, <5>1
          <5> QED BY <1>2, <4>3, <5>2 DEF Where, Handling
        <4> QED BY <4>1, <4>2, <4>3 DEF Where
      <3> QED BY <3>1, <3>2
    <2> QED BY <2>2, <2>3, <2>4
  <1>3. ASSUME NEW m \in Msgs, LateArrives(m) \/ (m \in started /\ ReceivedUnasked(m)) PROVE Good
    <2> USE DEF LateArrives, ReceivedUnasked, Msgs
    <2>1. NodeTypeOK' BY <1>3, <1>t
    <2>2. Held' BY <1>3, <1>t DEF Held, Outstanding
    <2>3. ASSUME NEW d \in Outstanding' \ lost' PROVE Where(d)'
      <3>1. Where(d) BY <1>0, <1>3, <2>3 DEF Outstanding
      <3> QED BY <1>3, <3>1 DEF Where, InHeap, Handling
    <2> QED BY <2>1, <2>2, <2>3
  <1>o. ASSUME NEW p \in Procs, NEW r \in [pc: PCs, d: Data \cup {NoData}], proc' = [proc EXCEPT ![p] = r]
        PROVE  /\ proc' \in [Procs -> [pc: PCs, d: Data \cup {NoData}]]
               /\ proc'[p] = r /\ \A q \in Procs: q # p => proc'[q] = proc[q]
    BY <1>o, <1>t
  \* What the other goroutines have in hand stays there while the map keeps it.
  <1>k. ASSUME NEW p \in Procs, \A q \in Procs: q # p => proc'[q] = proc[q],
               NEW d, Where(d), d \in flight => d \in flight', InHeap(d) => InHeap(d)',
               Handling(p, d) /\ (proc[p].pc = "map" \/ d \in flight) => Where(d)'
        PROVE  Where(d)'
    <2>1. CASE d \in flight /\ InHeap(d) BY <1>k, <2>1 DEF Where
    <2>2. ASSUME NEW q \in Procs, Handling(q, d), proc[q].pc = "map" \/ d \in flight PROVE Where(d)'
      <3>1. CASE q = p BY <1>k, <2>2, <3>1
      <3>2. CASE q # p
        <4>1. proc'[q] = proc[q] BY <1>k, <3>2
        <4> QED BY <1>k, <2>2, <4>1 DEF Where, Handling
      <3> QED BY <3>1, <3>2
    <2> QED BY <1>k, <2>1, <2>2 DEF Where
  <1>r. ASSUME NEW p \in Procs, NEW c \in PCs
        PROVE  /\ Goto(p, c) => proc' = [proc EXCEPT ![p] = [pc |-> c, d |-> proc[p].d]]
               /\ [pc |-> c, d |-> proc[p].d] \in [pc: PCs, d: Data \cup {NoData}]
    <2>1. proc[p] \in [pc: PCs, d: Data \cup {NoData}] BY <1>t
    <2>2. [proc[p] EXCEPT !.pc = c] = [pc |-> c, d |-> proc[p].d] BY <2>1
    <2> QED BY <2>1, <2>2 DEF Goto
  <1>b. ASSUME NEW p \in Procs
        PROVE  Return(p) => \E c \in {"peek", "idle"}: proc' = [proc EXCEPT ![p] = [pc |-> c, d |-> NoData]]
    BY DEF Return, Resting
  <1>4. ASSUME NEW p \in Procs, pushInFlightMessage(p) PROVE Good
    <2> USE DEF pushInFlightMessage
    <2>1. /\ proc' \in [Procs -> [pc: PCs, d: Data \cup {NoData}]]
          /\ proc'[p] = [pc |-> "heap", d |-> proc[p].d] /\ \A q \in Procs: q # p => proc'[q] = proc[q]
      BY <1>4, <1>o, <1>r DEF PCs
    <2>2. proc[p].d \in started BY <1>4 DEF Held
    <2>3. NodeTypeOK' BY <1>4, <1>t, <2>1, <2>2
    <2>4. Held' BY <1>4, <2>1, <2>2 DEF Held, Outstanding
    <2>5. ASSUME NEW d \in Outstanding' \ lost' PROVE Where(d)'
      <3>1. Where(d) BY <1>0, <1>4, <2>5 DEF Outstanding
      <3>2. d \in flight => d \in flight' BY <1>4
      <3>3. InHeap(d) => InHeap(d)' BY <1>4 DEF InHeap
      <3>4. Handling(p, d) => Where(d)' BY <1>4, <2>1 DEF Handling, Where
      <3> QED BY <1>k, <2>1, <3>1, <3>2, <3>3, <3>4
    <2> QED BY <2>3, <2>4, <2>5
  <1>5. ASSUME NEW p \in Procs, addToInFlightPQ(p) PROVE Good
    <2> USE DEF addToInFlightPQ
    <2>1. /\ proc' \in [Procs -> [pc: PCs, d: Data \cup {NoData}]]
          /\ proc'[p] = [pc |-> "rpc", d |-> proc[p].d] /\ \A q \in Procs: q # p => proc'[q] = proc[q]
      BY <1>5, <1>o, <1>r DEF PCs
    <2>2. proc[p].d \in started /\ proc[p].d \in Data BY <1>5, <1>t DEF Held
    <2>3. /\ heap' \in Seq(Data) /\ heap'[Len(heap) + 1] = proc[p].d
          /\ DOMAIN heap' = 1 .. Len(heap) + 1 /\ DOMAIN heap = 1 .. Len(heap) /\ Len(heap) \in Nat
          /\ \A i \in DOMAIN heap: heap'[i] = heap[i]
      BY <1>5, <1>t, <2>2
    <2>4. NodeTypeOK' BY <1>5, <1>t, <2>1, <2>3
    <2>5. Held'
      <3>1. \A i \in DOMAIN heap': heap'[i] \in started BY <2>2, <2>3 DEF Held
      <3> QED BY <1>5, <2>1, <2>2, <3>1 DEF Held, Outstanding
    <2>6. ASSUME NEW d \in Outstanding' \ lost' PROVE Where(d)'
      <3>1. Where(d) BY <1>0, <1>5, <2>6 DEF Outstanding
      <3>2. d \in flight => d \in flight' BY <1>5
      <3>3. InHeap(d) => InHeap(d)' BY <2>3 DEF InHeap
      <3>4. Handling(p, d) /\ (proc[p].pc = "map" \/ d \in flight) => Where(d)'
        <4>1. Len(heap) + 1 \in DOMAIN heap' BY <2>3
        <4> QED BY <1>5, <2>3, <4>1 DEF Handling, Where, InHeap
      <3> QED BY <1>k, <2>1, <3>1, <3>2, <3>3, <3>4
    <2> QED BY <2>4, <2>5, <2>6
  <1>6. ASSUME NEW p \in Procs, RpcSucceeds(p) PROVE Good
    <2> USE DEF RpcSucceeds
    <2>1. /\ proc' \in [Procs -> [pc: PCs, d: Data \cup {NoData}]]
          /\ proc'[p] = [pc |-> "finish", d |-> proc[p].d] /\ \A q \in Procs: q # p => proc'[q] = proc[q]
      BY <1>6, <1>o, <1>r DEF PCs
    <2>2. proc[p].d \in started /\ proc[p].d \in Data BY <1>6, <1>t DEF Held
    <2>3. NodeTypeOK' BY <1>6, <1>t, <2>1, <2>2
    <2>4. Held' BY <1>6, <2>1, <2>2 DEF Held, Outstanding
    <2>5. ASSUME NEW d \in Outstanding' \ lost' PROVE Where(d)'
      <3>1. Where(d) BY <1>0, <1>6, <2>5 DEF Outstanding
      <3>2. d \in flight => d \in flight' BY <1>6
      <3>3. InHeap(d) => InHeap(d)' BY <1>6 DEF InHeap
      <3>4. ~Handling(p, d) BY <1>6 DEF Handling
      <3> QED BY <1>k, <2>1, <3>1, <3>2, <3>3, <3>4
    <2> QED BY <2>3, <2>4, <2>5
  <1>7. ASSUME NEW p \in Procs, RpcFails(p) \/ RpcGivenUp(p, Begun) PROVE Good
    <2> USE DEF RpcFails, RpcGivenUp, OnTheWay
    <2>1. PICK c \in {"peek", "idle"}: proc' = [proc EXCEPT ![p] = [pc |-> c, d |-> NoData]]
      BY <1>7, <1>b
    <2>2. /\ proc' \in [Procs -> [pc: PCs, d: Data \cup {NoData}]]
          /\ proc'[p] = [pc |-> c, d |-> NoData] /\ \A q \in Procs: q # p => proc'[q] = proc[q]
      BY <1>o, <2>1 DEF PCs
    <2>3. proc[p].d \in started /\ proc[p].d \in Data BY <1>7, <1>t DEF Held
    <2>4. NodeTypeOK' BY <1>7, <1>t, <2>2, <2>3
    <2>5. Held' BY <1>7, <2>2, <2>3 DEF Held, Outstanding
    <2>6. ASSUME NEW d \in Outstanding' \ lost' PROVE Where(d)'
      <3>1. Where(d) BY <1>0, <1>7, <2>6 DEF Outstanding
      <3>2. d \in flight => d \in flight' BY <1>7
      <3>3. InHeap(d) => InHeap(d)' BY <1>7 DEF InHeap
      <3>4. ~Handling(p, d) BY <1>7 DEF Handling
      <3> QED BY <1>k, <2>2, <3>1, <3>2, <3>3, <3>4
    <2> QED BY <2>4, <2>5, <2>6
  <1>8. ASSUME NEW p \in Procs, popInFlightMessage(p) PROVE Good
    <2> USE DEF popInFlightMessage
    <2>1. PICK r \in { [pc |-> "remove", d |-> proc[p].d], [pc |-> "peek", d |-> NoData],
                       [pc |-> "idle", d |-> NoData] }: proc' = [proc EXCEPT ![p] = r]
      BY <1>8, <1>b, <1>r DEF PCs
    <2>2. proc[p] \in [pc: PCs, d: Data \cup {NoData}] BY <1>t
    <2>3. r \in [pc: PCs, d: Data \cup {NoData}] BY <2>1, <2>2 DEF PCs
    <2>4. /\ proc' \in [Procs -> [pc: PCs, d: Data \cup {NoData}]]
          /\ proc'[p] = r /\ \A q \in Procs: q # p => proc'[q] = proc[q]
      BY <1>o, <2>1, <2>3
    <2>5. proc[p].d \in received /\ proc[p].d \in started BY <1>8 DEF Held
    <2>6. NodeTypeOK' BY <1>8, <1>t, <2>4
    <2>7. Held' BY <1>8, <2>1, <2>4, <2>5 DEF Held, Outstanding
    <2>8. ASSUME NEW d \in Outstanding' \ lost' PROVE Where(d)'
      <3>1. Where(d) BY <1>0, <1>8, <2>8 DEF Outstanding
      <3>2. d \in flight => d \in flight' BY <1>8, <2>5, <2>8 DEF Outstanding
      <3>3. InHeap(d) => InHeap(d)' BY <1>8 DEF InHeap
      <3>4. ~Handling(p, d) BY <1>8 DEF Handling
      <3> QED BY <1>k, <2>4, <3>1, <3>2, <3>3, <3>4
    <2> QED BY <2>6, <2>7, <2>8
  <1>9. ASSUME NEW p \in Procs, removeFromInFlightPQ(p) PROVE Good
    <2> USE DEF removeFromInFlightPQ
    <2>1. PICK c \in {"peek", "idle"}: proc' = [proc EXCEPT ![p] = [pc |-> c, d |-> NoData]]
      BY <1>9, <1>b
    <2>2. /\ proc' \in [Procs -> [pc: PCs, d: Data \cup {NoData}]]
          /\ proc'[p] = [pc |-> c, d |-> NoData] /\ \A q \in Procs: q # p => proc'[q] = proc[q]
      BY <1>o, <2>1 DEF PCs
    <2>3. proc[p].d \in received BY <1>9 DEF Held
    <2>4. heap' = Removed(proc[p].d) BY <1>9
    <2>5. /\ heap' \in Seq(Data)
          /\ \A i \in DOMAIN heap': \E j \in DOMAIN heap: heap'[i] = heap[j]
          /\ \A j \in DOMAIN heap: heap[j] # proc[p].d => \E i \in DOMAIN heap': heap'[i] = heap[j]
      BY <1>t, <2>4, RemovedKeeps
    <2>6. NodeTypeOK' BY <1>9, <1>t, <2>2, <2>5
    <2>7. Held' BY <1>9, <2>2, <2>5 DEF Held, Outstanding
    <2>8. ASSUME NEW d \in Outstanding' \ lost' PROVE Where(d)'
      <3>1. Where(d) BY <1>0, <1>9, <2>8 DEF Outstanding
      <3>2. d \in flight => d \in flight' BY <1>9
      <3>3. InHeap(d) => InHeap(d)' BY <1>9, <2>3, <2>5, <2>8 DEF InHeap, Outstanding
      <3>4. ~Handling(p, d) BY <1>9 DEF Handling
      <3> QED BY <1>k, <2>2, <3>1, <3>2, <3>3, <3>4
    <2> QED BY <2>6, <2>7, <2>8
  <1>10. ASSUME NEW p \in Procs, ScanBegins(p) PROVE Good
    <2> USE DEF ScanBegins
    <2>1. /\ proc' \in [Procs -> [pc: PCs, d: Data \cup {NoData}]]
          /\ proc'[p] = [pc |-> "peek", d |-> proc[p].d] /\ \A q \in Procs: q # p => proc'[q] = proc[q]
      BY <1>10, <1>o, <1>r DEF PCs
    <2>2. NodeTypeOK' BY <1>10, <1>t, <2>1
    <2>3. Held' BY <1>10, <2>1 DEF Held, Outstanding
    <2>4. ASSUME NEW d \in Outstanding' \ lost' PROVE Where(d)'
      <3>1. Where(d) BY <1>0, <1>10, <2>4 DEF Outstanding
      <3>2. d \in flight => d \in flight' BY <1>10
      <3>3. InHeap(d) => InHeap(d)' BY <1>10 DEF InHeap
      <3>4. ~Handling(p, d) BY <1>10 DEF Handling
      <3> QED BY <1>k, <2>1, <3>1, <3>2, <3>3, <3>4
    <2> QED BY <2>2, <2>3, <2>4
  <1>11. ASSUME NEW p \in Procs, ScanShifts(p) PROVE Good
    <2> USE DEF ScanShifts
    <2>1. CASE heap # <<>>
      <3>0. /\ Head(heap) = heap[1] /\ Head(heap) \in Data /\ 1 \in DOMAIN heap
            /\ Len(heap) \in Nat /\ DOMAIN heap = 1 .. Len(heap)
            /\ heap' \in Seq(Data) /\ DOMAIN heap' = 1 .. Len(heap) - 1
            /\ \A i \in DOMAIN heap': heap'[i] = heap[i + 1]
        <4>1. ASSUME NEW s \in Seq(Data), s # <<>>
              PROVE  /\ Head(s) = s[1] /\ Head(s) \in Data /\ 1 \in DOMAIN s
                     /\ Len(s) \in Nat /\ DOMAIN s = 1 .. Len(s)
                     /\ Tail(s) \in Seq(Data) /\ DOMAIN Tail(s) = 1 .. Len(s) - 1
                     /\ \A i \in DOMAIN Tail(s): Tail(s)[i] = s[i + 1]
          <5>1. Tail(s) \in Seq(Data) /\ Len(Tail(s)) = Len(s) - 1 BY <4>1
          <5>2. Head(s) = s[1] /\ Head(s) \in Data BY <4>1
          <5>3. Len(s) \in Nat /\ Len(s) # 0 /\ DOMAIN s = 1 .. Len(s) BY <4>1
          <5>4. 1 \in DOMAIN s BY <5>3
          <5>5. DOMAIN Tail(s) = 1 .. Len(s) - 1 BY <5>1
          <5>6. \A i \in 1 .. Len(s) - 1: Tail(s)[i] = s[i + 1] BY <4>1, <5>3
          <5> QED BY <5>1, <5>2, <5>3, <5>4, <5>5, <5>6
        <4>2. heap' = Tail(heap) BY <1>11, <2>1
        <4> QED BY <1>t, <2>1, <4>1, <4>2
      <3>1. [pc |-> "pop", d |-> Head(heap)] \in [pc: PCs, d: Data \cup {NoData}] BY <3>0 DEF PCs
      <3>2. proc' = [proc EXCEPT ![p] = [pc |-> "pop", d |-> Head(heap)]] BY <1>11, <2>1
      <3>3. /\ proc' \in [Procs -> [pc: PCs, d: Data \cup {NoData}]]
            /\ proc'[p] = [pc |-> "pop", d |-> heap[1]] /\ \A q \in Procs: q # p => proc'[q] = proc[q]
        BY <1>o, <3>0, <3>1, <3>2
      <3>4. NodeTypeOK' BY <1>11, <1>t, <3>0, <3>3
      <3>5. Held'
        <4>1. \A i \in DOMAIN heap': i + 1 \in DOMAIN heap BY <3>0
        <4>2. \A i \in DOMAIN heap': heap'[i] \in started BY <3>0, <4>1 DEF Held
        <4>3. heap[1] \in started BY <3>0 DEF Held
        <4> QED BY <1>11, <3>3, <4>2, <4>3 DEF Held, Outstanding
      <3>6. ASSUME NEW d \in Outstanding' \ lost' PROVE Where(d)'
        <4>1. Where(d) BY <1>0, <1>11, <3>6 DEF Outstanding
        <4>2. d \in flight => d \in flight' BY <1>11
        <4>3. ~Handling(p, d) BY <1>11 DEF Handling
        <4>4. CASE d = heap[1]
          <5>1. CASE d \in flight
            BY <3>3, <4>2, <4>4, <5>1 DEF Where, Handling
          <5>2. CASE d \notin flight
            <6>1. PICK q \in Procs: Handling(q, d) /\ proc[q].pc = "map" BY <4>1, <5>2 DEF Where
            <6>2. proc'[q] = proc[q] BY <3>3, <4>3, <6>1
            <6> QED BY <6>1, <6>2 DEF Where, Handling
          <5> QED BY <5>1, <5>2
        <4>5. CASE d # heap[1]
          <5>1. ASSUME NEW i \in DOMAIN heap, heap[i] = d PROVE InHeap(d)'
            <6>1. i \in 1 .. Len(heap) /\ i # 1 BY <3>0, <4>5, <5>1
            <6>2. i - 1 \in DOMAIN heap' /\ (i - 1) + 1 = i BY <3>0, <6>1
            <6>3. heap'[i - 1] = d BY <3>0, <5>1, <6>2
            <6> QED BY <6>2, <6>3 DEF InHeap
          <5>2. InHeap(d) => InHeap(d)' BY <5>1 DEF InHeap
          <5> QED BY <1>k, <3>3, <4>1, <4>2, <4>3, <5>2
        <4> QED BY <4>4, <4>5
      <3> QED BY <3>4, <3>5, <3>6
    <2>2. CASE heap = <<>>
      <3>1. proc' = [proc EXCEPT ![p] = [pc |-> "idle", d |-> NoData]] /\ heap' = heap
        BY <1>11, <2>2 DEF Resting
      <3>2. /\ proc' \in [Procs -> [pc: PCs, d: Data \cup {NoData}]]
            /\ proc'[p] = [pc |-> "idle", d |-> NoData] /\ \A q \in Procs: q # p => proc'[q] = proc[q]
        BY <1>o, <3>1 DEF PCs
      <3>3. NodeTypeOK' BY <1>11, <1>t, <3>1, <3>2
      <3>4. Held' BY <1>11, <3>1, <3>2 DEF Held, Outstanding
      <3>5. ASSUME NEW d \in Outstanding' \ lost' PROVE Where(d)'
        <4>1. Where(d) BY <1>0, <1>11, <3>5 DEF Outstanding
        <4>2. d \in flight => d \in flight' BY <1>11
        <4>3. InHeap(d) => InHeap(d)' BY <3>1 DEF InHeap
        <4>4. ~Handling(p, d) BY <1>11 DEF Handling
        <4> QED BY <1>k, <3>2, <4>1, <4>2, <4>3, <4>4
      <3> QED BY <3>3, <3>4, <3>5
    <2> QED BY <2>1, <2>2
  <1>12. ASSUME NEW p \in Procs, ScanPops(p) PROVE Good
    <2> USE DEF ScanPops
    <2>1. PICK r \in { [pc |-> "map", d |-> proc[p].d], [pc |-> "idle", d |-> NoData] }:
             /\ proc' = [proc EXCEPT ![p] = r]
             /\ proc[p].d \in flight => r = [pc |-> "map", d |-> proc[p].d]
      <3>1. CASE proc[p].d \in flight BY <1>12, <1>r, <3>1 DEF PCs
      <3>2. CASE proc[p].d \notin flight BY <1>12, <3>2 DEF Resting
      <3> QED BY <3>1, <3>2
    <2>2. proc[p] \in [pc: PCs, d: Data \cup {NoData}] BY <1>t
    <2>3. r \in [pc: PCs, d: Data \cup {NoData}] BY <2>1, <2>2 DEF PCs
    <2>4. /\ proc' \in [Procs -> [pc: PCs, d: Data \cup {NoData}]]
          /\ proc'[p] = r /\ \A q \in Procs: q # p => proc'[q] = proc[q]
      BY <1>o, <2>1, <2>3
    <2>5. proc[p].d \in started BY <1>12 DEF Held
    <2>6. NodeTypeOK' BY <1>12, <1>t, <2>4
    <2>7. Held' BY <1>12, <2>1, <2>4, <2>5 DEF Held, Outstanding
    <2>8. ASSUME NEW d \in Outstanding' \ lost' PROVE Where(d)'
      <3>1. Where(d) BY <1>0, <1>12, <2>8 DEF Outstanding
      <3>2. CASE d = proc[p].d /\ d \in flight BY <2>1, <2>4, <3>2 DEF Where, Handling
      <3>3. CASE d # proc[p].d \/ d \notin flight
        <4>1. d \in flight => d \in flight' BY <1>12, <3>3
        <4>2. InHeap(d) => InHeap(d)' BY <1>12 DEF InHeap
        <4>3. ~(Handling(p, d) /\ (proc[p].pc = "map" \/ d \in flight)) BY <1>12, <3>3 DEF Handling
        <4> QED BY <1>k, <2>4, <3>1, <4>1, <4>2, <4>3
      <3> QED BY <3>2, <3>3
    <2> QED BY <2>6, <2>7, <2>8
  <1>13. CASE Stop(Begun) \/ Crash(Begun)
    <2>1. Down(saved, Begun) BY <1>13 DEF Stop, Crash, infFlights
    <2>2. saved = {} BY DEF Held
    <2>3. /\ saved' = {} /\ lost' = lost \cup Outstanding /\ flight' = {} /\ heap' = <<>>
          /\ proc' = [p \in Procs |-> [pc |-> "idle", d |-> NoData]]
          /\ UNCHANGED <<started, received>> /\ up' = FALSE
      BY <2>1, <2>2 DEF Down, Resting
    <2>7. late' \subseteq started
      <3>1. \A q \in Procs: proc[q].pc = "rpc" => proc[q].d \in started BY DEF Held
      <3>2. late' = late \cup OnTheWay(Procs \ Begun) /\ late \subseteq started BY <2>1 DEF Down, Held
      <3> QED BY <3>1, <3>2 DEF OnTheWay
    <2>0. <<>> \in Seq(Data) OBVIOUS
    <2>4. NodeTypeOK'
      <3>1. proc' \in [Procs -> [pc: PCs, d: Data \cup {NoData}]] BY <2>3 DEF PCs
      <3> QED BY <1>t, <2>0, <2>3, <2>7, <3>1 DEF Outstanding
    <2>5. Held' BY <2>3, <2>7 DEF Held, Outstanding
    <2>6. ~ \E d \in Outstanding' \ lost': TRUE BY <2>3 DEF Outstanding
    <2> QED BY <2>4, <2>5, <2>6
  <1>14. CASE Start
    <2>1. saved = {} /\ Outstanding \subseteq lost BY <1>14 DEF Held, Start
    <2>2. SetToSeq({}) = <<>>
      <3>1. Cardinality({}) = 0 BY FS_EmptySet
      <3>2. \A f: f \in [1 .. Cardinality({}) -> {}] => f = <<>> BY <3>1
      <3>3. <<>> \in [1 .. Cardinality({}) -> {}] /\ IsInjective(<<>>) BY <3>1 DEF IsInjective
      <3> QED BY <3>2, <3>3 DEF SetToSeq
    <2>3. flight' = {} /\ heap' = <<>> /\ saved' = {} /\ up' = TRUE BY <1>14, <2>1, <2>2 DEF Start
    <2>0. <<>> \in Seq(Data) OBVIOUS
    <2>4. NodeTypeOK' BY <1>14, <1>t, <2>0, <2>3 DEF Start
    <2>5. Held' BY <1>14, <2>3 DEF Start, Held, Outstanding
    <2>6. ~ \E d \in Outstanding' \ lost': TRUE BY <1>14, <2>1 DEF Start, Outstanding
    <2> QED BY <2>4, <2>5, <2>6
  <1> QED BY <1>1, <1>2, <1>3, <1>4, <1>5, <1>6, <1>7, <1>8, <1>9, <1>10, <1>11, <1>12, <1>13, <1>14
          DEF NodeAction, DeliveryStep, ScanStep

-----------------------------------------------------------------------------
\* Every step of a message is taken by a node that runs.
LEMMA StepQuiet ==
  ASSUME IndInv, [Next]_vars
  PROVE  Quiet'
  <1> USE DEF IndInv, Quiet
  <1>1. ASSUME NEW m \in Msgs, \/ getSendChannel(m) \/ GetNextMessageSeq(m) \/ AppendMessage(m)
                                \/ NotifyAppend(m) \/ PutForward(m) \/ ForwardReturns(m)
                                \/ PutLocalStores(m) \/ PutLocalFails(m) \/ PutLocalDone(m) \/ Sendack(m)
        PROVE  Quiet'
    <2>1. up BY <1>1 DEF getSendChannel, GetNextMessageSeq, AppendMessage, NotifyAppend, PutForward,
                         ForwardReturns, PutLocalStores, PutLocalFails, PutLocalDone, Sendack, At
    <2>2. up' = up
      BY <1>1 DEF getSendChannel, GetNextMessageSeq, AppendMessage, NotifyAppend, PutForward,
                  ForwardReturns, PutLocalStores, PutLocalFails, PutLocalDone, Sendack, nodeVars,
                  startDeliveryNodeData
    <2> QED BY <2>1, <2>2
  <1>2. ASSUME NEW r \in Remotes, \/ RemoteStores(r) \/ RemoteFails(r) \/ RemoteDone(r)
                                  \/ \E p \in Procs: RemoteBegins(r, p)
                                  \/ \E d \in Msgs: RemoteBeginsLate(r, d)
        PROVE  Quiet'
    BY <1>2 DEF RemoteStores, RemoteFails, RemoteDone, RemoteBegins, RemoteBeginsLate, coreVars, nodeVars,
                RpcFails, RpcSucceeds, ReceivedUnasked, LateArrives
  <1>3. ASSUME NEW p \in Procs, NodeStep(p) \/ RemoteGivenUp(p) PROVE Quiet'
    BY <1>3 DEF NodeStep, DeliveryStep, ScanStep, pushInFlightMessage, addToInFlightPQ,
                popInFlightMessage, removeFromInFlightPQ, ScanBegins, ScanShifts, ScanPops,
                RemoteGivenUp, RpcGivenUp
  <1>4. ASSUME NEW n \in Nodes, Notify(n) \/ Lead(n) PROVE Quiet'
    BY <1>4 DEF Notify, Lead, sendVars, nodeVars
  <1>5. CASE Halt BY <1>5 DEF Halt
  <1>6. CASE Restart BY <1>6 DEF Restart, Start
  <1>7. CASE UNCHANGED vars BY <1>7 DEF vars, sendVars, nodeVars
  <1> HIDE DEF IndInv, Quiet
  <1> QED BY <1>1, <1>2, <1>3, <1>4, <1>5, <1>6, <1>7, StepCases

-----------------------------------------------------------------------------
\* What goroutine h has in hand.
WorkOf(h) ==
    /\ h \in Msgs =>
          /\ step[h] \notin {"append", "local"} => work[h] = NoWork
          /\ step[h] = "append" => work[h].m = NoData /\ work[h].at = Channel /\ work[h].num > 0
          /\ step[h] = "local" => work[h].m = h
          /\ work[h].by = NoData
    /\ h \in Remotes => IF work[h].m = NoData THEN work[h] = NoWork ELSE work[h].m \in started
    /\ work[h].m # NoData =>
          /\ work[h].todo \subseteq Users(h, work[h].m)
          /\ work[h].num > 0 => work[h].at \in work[h].todo

LEMMA WorkedOf == Worked <=> \A h \in Handlers: WorkOf(h)
  <1>1. Handlers = Msgs \cup Remotes BY DEF Handlers
  <1>2. ASSUME Worked PROVE \A h \in Handlers: WorkOf(h) BY <1>1, <1>2, Names DEF Worked, WorkOf
  <1>3. ASSUME \A h \in Handlers: WorkOf(h) PROVE Worked BY <1>1, <1>3, Names DEF Worked, WorkOf
  <1> QED BY <1>2, <1>3

\* The same of the next state.
LEMMA WorkedNext ==
  ASSUME \A h \in Handlers: WorkOf(h)'
  PROVE  Worked'
  <1>1. Handlers = Msgs \cup Remotes BY DEF Handlers
  <1> QED BY <1>1, Names DEF Worked, WorkOf

\* A goroutine whose work and step stay.
LEMMA WorkStays ==
  ASSUME Worked, NEW h \in Handlers, send' = send, started \subseteq started', work'[h] = work[h],
         h \in Msgs => step'[h] = step[h]
  PROVE  WorkOf(h)'
  <1>1. WorkOf(h) BY WorkedOf
  <1> QED BY <1>1 DEF WorkOf, Users

\* NoWork in hand, at a step without work.
LEMMA WorkNone ==
  ASSUME NEW h \in Handlers, work'[h] = NoWork, h \in Msgs => step'[h] \notin {"append", "local"}
  PROVE  WorkOf(h)'
  BY DEF WorkOf, NoWork

LEMMA StepWorked ==
  ASSUME IndInv, [Next]_vars
  PROVE  Worked'
  <1> USE DEF IndInv
  <1>s. SendTypeOK /\ NodeTracked /\ Held /\ Worked OBVIOUS
  <1>n. started \subseteq started'
    <2>1. NodeAction BY NodeActions
    <2> QED BY <2>1 DEF NodeAction, DeliveryStep, ScanStep, nodeVars, startDeliveryNodeData, LateArrives,
                 ReceivedUnasked, pushInFlightMessage, addToInFlightPQ, popInFlightMessage,
                 removeFromInFlightPQ, ScanBegins, ScanShifts, ScanPops, RpcSucceeds, RpcFails, RpcGivenUp,
                 Stop, Crash, Down, Start
  <1> HIDE DEF IndInv
  <1>o. ASSUME NEW h \in Handlers, send' = send, \A g \in Handlers: g # h => work'[g] = work[g],
               \A m \in Msgs: m # h => step'[m] = step[m], WorkOf(h)'
        PROVE  Worked'
    <2>1. ASSUME NEW g \in Handlers, g # h PROVE WorkOf(g)' BY <1>n, <1>o, <1>s, <2>1, WorkStays
    <2> QED BY <1>o, <2>1, WorkedNext
  <1>u. ASSUME send' = send, work' = work, step' = step PROVE Worked'
    <2>1. ASSUME NEW g \in Handlers PROVE WorkOf(g)' BY <1>n, <1>u, <1>s, WorkStays
    <2> QED BY <2>1, WorkedNext
  <1>w. ASSUME NEW m \in Msgs, send' = send, NEW s, step' = [step EXCEPT ![m] = s],
               s \notin {"append", "local"},
               \/ work' = work /\ step[m] \notin {"append", "local"}
               \/ work' = [work EXCEPT ![m] = NoWork]
        PROVE  Worked'
    <2>0. m \in Handlers BY Names
    <2>1. step'[m] = s /\ \A n \in Msgs: n # m => step'[n] = step[n] BY <1>s, <1>w DEF SendTypeOK
    <2>2. work'[m] = NoWork /\ \A g \in Handlers: g # m => work'[g] = work[g]
      <3>1. CASE work' = work /\ step[m] \notin {"append", "local"} BY <1>s, <3>1 DEF Worked
      <3>2. CASE work' = [work EXCEPT ![m] = NoWork] BY <1>s, <2>0, <3>2 DEF SendTypeOK
      <3> QED BY <1>w, <3>1, <3>2
    <2>3. WorkOf(m)' BY <1>w, <2>0, <2>1, <2>2, WorkNone
    <2> QED BY <1>o, <1>w, <2>0, <2>1, <2>2, <2>3
  <1>1. ASSUME NEW m \in Msgs, getSendChannel(m) \/ AppendMessage(m) \/ NotifyAppend(m) \/ Sendack(m)
        PROVE  Worked'
    <2>1. CASE getSendChannel(m)
      <3>1. PICK s \in {"seq", "notify", "reply"}: step' = [step EXCEPT ![m] = s]
        BY <2>1 DEF getSendChannel, To, Answer
      <3>2. s \notin {"append", "local"} /\ send' = send /\ work' = work /\ step[m] \notin {"append", "local"}
        BY <2>1, <3>1 DEF getSendChannel, At
      <3> QED BY <1>w, <3>1, <3>2
    <2>2. CASE AppendMessage(m)
      <3>1. PICK s \in {"notify", "reply"}: step' = [step EXCEPT ![m] = s]
        BY <2>2 DEF AppendMessage, To, Answer
      <3>2. s \notin {"append", "local"} /\ send' = send /\ work' = [work EXCEPT ![m] = NoWork]
        BY <2>2, <3>1 DEF AppendMessage
      <3> QED BY <1>w, <3>1, <3>2
    <2>3. CASE NotifyAppend(m)
      <3>1. PICK s \in {"put", "reply"}: step' = [step EXCEPT ![m] = s]
        BY <2>3 DEF NotifyAppend, To, Answer
      <3>2. s \notin {"append", "local"} /\ send' = send /\ work' = work /\ step[m] \notin {"append", "local"}
        BY <2>3, <3>1 DEF NotifyAppend, At
      <3> QED BY <1>w, <3>1, <3>2
    <2>4. CASE Sendack(m)
      <3>1. step' = [step EXCEPT ![m] = "done"] /\ send' = send /\ work' = work /\ step[m] \notin {"append", "local"}
        BY <2>4 DEF Sendack, At
      <3> QED BY <1>w, <3>1
    <2> QED BY <1>1, <2>1, <2>2, <2>3, <2>4
  <1>2. ASSUME NEW m \in Msgs, GetNextMessageSeq(m) PROVE Worked'
    <2>0. m \in Handlers /\ Channel \in Topics /\ m \notin Remotes BY Names
    <2>1. TakesOne(m, Channel) BY <1>2, <1>s, <2>0, NumberTaken DEF GetNextMessageSeq
    <2>2. step[m] = "seq" /\ step' = [step EXCEPT ![m] = "append"] /\ send' = send
      BY <1>2 DEF GetNextMessageSeq, At, To
    <2>3. step'[m] = "append" /\ \A n \in Msgs: n # m => step'[n] = step[n] BY <1>s, <2>2 DEF SendTypeOK
    <2>4. work[m] = NoWork BY <1>s, <2>2 DEF Worked
    <2>5. work[m].m = NoData /\ work[m].by = NoData BY <2>4 DEF NoWork
    <2>6. topic[Channel].last + 1 > 0 BY <1>s, <2>0 DEF SendTypeOK, TopicState
    <2>7. /\ work'[m].m = NoData /\ work'[m].by = NoData /\ work'[m].at = Channel /\ work'[m].num > 0
          /\ \A g \in Handlers: g # m => work'[g] = work[g]
      BY <2>1, <2>5, <2>6 DEF TakesOne
    <2>8. WorkOf(m)' BY <2>0, <2>3, <2>7 DEF WorkOf
    <2> QED BY <1>o, <2>0, <2>2, <2>3, <2>7, <2>8
  \* A goroutine that takes up the storing.
  <1>b. ASSUME NEW h \in Handlers, NEW m \in Msgs, NEW by \in Procs \cup {NoData},
               Begins(h, m, Users(h, m), by), send' = send,
               h \in Msgs => m = h /\ by = NoData /\ step'[h] = "local",
               h \in Remotes => m \in started
        PROVE  WorkOf(h)' /\ \A g \in Handlers: g # h => work'[g] = work[g]
    <2>1. Users(h, m) \in SUBSET Subs BY <1>s, SubsKnown DEF Users, Subs
    <2>2. /\ \A g \in Handlers: g # h => work'[g] = work[g]
          /\ work'[h].m = m /\ work'[h].num = 0 /\ work'[h].by = by
          /\ work'[h].todo = IF send[m].kind = "synconce" THEN Users(h, m) ELSE {}
      BY <1>b, <1>s, <2>1, WorkBegins
    <2>3. m # NoData BY Names
    <2>4. work'[h].todo \subseteq Users(h, m) /\ Users(h, m)' = Users(h, m) /\ ~(work'[h].num > 0)
      BY <1>b, <2>2 DEF Users
    <2> QED BY <1>b, <1>n, <2>2, <2>3, <2>4 DEF WorkOf
  <1>3. ASSUME NEW m \in Msgs, PutForward(m) \/ ForwardReturns(m) PROVE Worked'
    <2>0. m \in Handlers /\ m \notin Remotes BY Names
    <2>1. CASE To(m, "forward") /\ UNCHANGED work
      <3>1. step[m] \notin {"append", "local"} /\ send' = send /\ step' = [step EXCEPT ![m] = "forward"]
        BY <1>3, <2>1 DEF PutForward, ForwardReturns, At, To
      <3> QED BY <1>w, <2>1, <3>1
    <2>2. CASE To(m, "local") /\ Begins(m, m, send[m].local, NoData)
      <3>1. send' = send /\ step' = [step EXCEPT ![m] = "local"] BY <1>3, <2>2 DEF PutForward, ForwardReturns, To
      <3>2. step'[m] = "local" /\ \A n \in Msgs: n # m => step'[n] = step[n] BY <1>s, <3>1 DEF SendTypeOK
      <3>3. Users(m, m) = send[m].local BY DEF Users
      <3>4. WorkOf(m)' /\ \A g \in Handlers: g # m => work'[g] = work[g]
        BY <1>b, <2>0, <2>2, <3>1, <3>2, <3>3
      <3> QED BY <1>o, <2>0, <3>1, <3>2, <3>4
    <2> QED BY <1>3, <2>1, <2>2 DEF PutForward, ForwardReturns
  \* A goroutine that stores.
  <1>t. ASSUME NEW h \in Handlers, work[h].m \in Msgs, TakesNumber(h) \/ StoresFor(h), send' = send,
               h \in Msgs => step[h] = "local" /\ step'[h] = "local"
        PROVE  WorkOf(h)' /\ \A g \in Handlers: g # h => work'[g] = work[g]
    <2>1. WorkOf(h) BY <1>s, WorkedOf
    <2>2. work[h].m # NoData BY <1>t, Names
    <2>3. /\ work'[h].m = work[h].m /\ work'[h].by = work[h].by /\ work'[h].todo \subseteq work[h].todo
          /\ work'[h].num > 0 => work'[h].at \in work'[h].todo
          /\ \A g \in Handlers: g # h => work'[g] = work[g]
      <3>1. ASSUME NEW u \in work[h].todo, TakesOne(h, u)
            PROVE  /\ work'[h].m = work[h].m /\ work'[h].by = work[h].by /\ work'[h].todo \subseteq work[h].todo
                   /\ work'[h].num > 0 => work'[h].at \in work'[h].todo
                   /\ \A g \in Handlers: g # h => work'[g] = work[g]
        BY <3>1 DEF TakesOne
      <3>2. ASSUME NEW out, Tries(h, work[h].m, out)
            PROVE  work'[h].num = 0 /\ \A g \in Handlers: g # h => work'[g] = work[g]
        BY <3>2 DEF Tries
      <3> QED BY <1>s, <1>t, <3>1, <3>2, StoresSteps
    <2>4. Users(h, work[h].m)' = Users(h, work[h].m) BY <1>t, <2>3 DEF Users
    <2> QED BY <1>n, <1>t, <2>1, <2>2, <2>3, <2>4 DEF WorkOf
  <1>4. ASSUME NEW m \in Msgs, PutLocalStores(m) PROVE Worked'
    <2>1. m \in Handlers /\ step[m] = "local" /\ step' = step /\ send' = send /\ (TakesNumber(m) \/ StoresFor(m))
      BY <1>4, Names DEF PutLocalStores, At
    <2>2. work[m].m \in Msgs BY <1>s, <2>1, LocalWork
    <2>3. WorkOf(m)' /\ \A g \in Handlers: g # m => work'[g] = work[g] BY <1>t, <2>1, <2>2
    <2> QED BY <1>o, <2>1, <2>3
  <1>5. ASSUME NEW m \in Msgs, PutLocalFails(m) \/ PutLocalDone(m) PROVE Worked'
    <2>1. send' = send /\ step' = [step EXCEPT ![m] = "reply"] /\ work' = [work EXCEPT ![m] = NoWork]
      BY <1>5 DEF PutLocalFails, PutLocalDone, StoreFails, HandsOver, Answer
    <2> QED BY <1>w, <2>1
  <1>6. ASSUME NEW r \in Remotes, RemoteStores(r) PROVE Worked'
    <2>1. r \in Handlers /\ r \notin Msgs BY Names
    <2>2. work[r].m \in Msgs BY <1>6, <1>s, RemoteWork DEF RemoteStores
    <2>3. step' = step /\ send' = send /\ (TakesNumber(r) \/ StoresFor(r)) BY <1>6 DEF RemoteStores, coreVars
    <2>4. WorkOf(r)' /\ \A g \in Handlers: g # r => work'[g] = work[g] BY <1>t, <2>1, <2>2, <2>3
    <2> QED BY <1>o, <2>1, <2>3, <2>4
  <1>7. ASSUME NEW r \in Remotes, RemoteFails(r) \/ RemoteDone(r) PROVE Worked'
    <2>1. r \in Handlers /\ r \notin Msgs BY Names
    <2>2. step' = step /\ send' = send /\ work' = [work EXCEPT ![r] = NoWork]
      BY <1>7 DEF RemoteFails, RemoteDone, StoreFails, HandsOver, coreVars
    <2>3. work'[r] = NoWork /\ \A g \in Handlers: g # r => work'[g] = work[g] BY <1>s, <2>1, <2>2 DEF SendTypeOK
    <2>4. WorkOf(r)' BY <2>1, <2>3, WorkNone
    <2> QED BY <1>o, <2>1, <2>2, <2>3, <2>4
  <1>8. ASSUME NEW r \in Remotes, NEW m \in Msgs, NEW by \in Procs \cup {NoData}, m \in started,
               Begins(r, m, send[m].remote, by), send' = send, step' = step
        PROVE  Worked'
    <2>1. r \in Handlers /\ r \notin Msgs BY Names
    <2>2. Users(r, m) = send[m].remote BY <2>1 DEF Users
    <2>3. WorkOf(r)' /\ \A g \in Handlers: g # r => work'[g] = work[g] BY <1>8, <1>b, <2>1, <2>2
    <2> QED BY <1>8, <1>o, <2>1, <2>3
  <1>9. ASSUME NEW r \in Remotes, NEW p \in Procs, RemoteBegins(r, p) PROVE Worked'
    <2>1. proc[p].d \in Msgs /\ proc[p].d \in started
      BY <1>9, <1>s DEF RemoteBegins, Held, NodeTracked, NodeTypeOK, Msgs
    <2>2. Begins(r, proc[p].d, send[proc[p].d].remote, p) /\ send' = send /\ step' = step
      BY <1>9 DEF RemoteBegins, coreVars
    <2> QED BY <1>8, <2>1, <2>2
  <1>10. ASSUME NEW r \in Remotes, NEW d \in Msgs, RemoteBeginsLate(r, d) PROVE Worked'
    <2>1. d \in started BY <1>10, <1>s DEF RemoteBeginsLate, LateArrives, Held
    <2>2. Begins(r, d, send[d].remote, NoData) /\ send' = send /\ step' = step
      BY <1>10 DEF RemoteBeginsLate, coreVars
    <2> QED BY <1>8, <2>1, <2>2
  <1>11. ASSUME NEW p \in Procs, NodeStep(p) PROVE Worked'
    BY <1>11, <1>u DEF NodeStep, sendVars
  \* A goroutine of the other node that nobody waits for any more.
  <1>g. ASSUME NEW ps \in SUBSET Procs, NEW h \in Handlers, work'[h] = GivenUp(ps)[h], send' = send,
               h \in Msgs => step'[h] = step[h]
        PROVE  WorkOf(h)'
    <2>0. WorkOf(h) BY <1>s, WorkedOf
    <2>1. /\ work'[h].m = work[h].m /\ work'[h].todo = work[h].todo
          /\ work'[h].at = work[h].at /\ work'[h].num = work[h].num
          /\ work'[h].by = IF work[h].by \in ps THEN NoData ELSE work[h].by
      BY <1>g, <1>s, WorkGivenUp
    <2>2. Users(h, work[h].m)' = Users(h, work[h].m) BY <1>g, <2>1 DEF Users
    <2>3. ASSUME work[h] = NoWork PROVE work'[h] = NoWork
      <3>1. work[h].by = NoData /\ NoData \notin ps BY <2>3, Names DEF NoWork
      <3> QED BY <1>g, <2>3, <3>1 DEF GivenUp
    <2> QED BY <1>g, <1>n, <2>0, <2>1, <2>2, <2>3 DEF WorkOf
  <1>12. ASSUME NEW p \in Procs, RemoteGivenUp(p) PROVE Worked'
    <2>1. send' = send /\ step' = step /\ work' = GivenUp({p}) BY <1>12 DEF RemoteGivenUp, coreVars
    <2>2. ASSUME NEW h \in Handlers PROVE WorkOf(h)' BY <1>g, <2>1
    <2> QED BY <2>2, WorkedNext
  <1>13. ASSUME NEW n \in Nodes, Notify(n) \/ Lead(n) PROVE Worked'
    BY <1>13, <1>u DEF Notify, Lead, sendVars
  <1>14. CASE Halt
    <2>1. /\ send' = send /\ work' = [h \in Handlers |-> IF h \in Msgs THEN NoWork ELSE GivenUp(Procs)[h]]
          /\ \A m \in Msgs: step'[m] \in {"new", "done"}
      BY <1>14 DEF Halt
    <2>2. ASSUME NEW h \in Handlers PROVE WorkOf(h)'
      <3>1. CASE h \in Msgs BY <2>1, <3>1, WorkNone
      <3>2. CASE h \notin Msgs
        <4>1. work'[h] = GivenUp(Procs)[h] BY <2>1, <3>2
        <4> QED BY <1>g, <2>1, <3>2, <4>1
      <3> QED BY <3>1, <3>2
    <2> QED BY <2>2, WorkedNext
  <1>15. CASE Restart BY <1>15, <1>u DEF Restart
  <1>16. CASE UNCHANGED vars BY <1>16, <1>u DEF vars, sendVars
  <1> QED BY <1>1, <1>2, <1>3, <1>4, <1>5, <1>6, <1>7, <1>9, <1>10, <1>11, <1>12, <1>13, <1>14, <1>15, <1>16,
             StepCases
-----------------------------------------------------------------------------
\* Requests that are handled stay those of the goroutines that wait, when
\* these stay where they are.
LEMMA CalledStays ==
  ASSUME Called,
         \A r \in Remotes: work'[r].by # NoData =>
            work'[r].by = work[r].by /\ work'[r].m = work[r].m /\ proc'[work[r].by] = proc[work[r].by]
  PROVE  Called'
  BY DEF Called

LEMMA StepCalled ==
  ASSUME IndInv, [Next]_vars
  PROVE  Called'
  <1> USE DEF IndInv
  <1>s. SendTypeOK /\ NodeTracked /\ Worked /\ Called /\ proc \in [Procs -> [pc: PCs, d: Data \cup {NoData}]]
    BY DEF NodeTracked, NodeTypeOK
  <1> HIDE DEF IndInv
  <1>y. \A r \in Remotes: work[r].by # NoData => work[r].by \in Procs
    BY <1>s, Names, Appending
  \* Only a goroutine that waits for no answer moves.
  <1>m. ASSUME NEW p \in Procs, proc[p].pc # "rpc", \A q \in Procs: q # p => proc'[q] = proc[q],
               \A r \in Remotes: work'[r] = work[r]
        PROVE  Called'
    <2>1. \A r \in Remotes: work[r].by # NoData => work[r].by # p BY <1>m, <1>s DEF Called
    <2> QED BY <1>m, <1>s, <1>y, <2>1, CalledStays
  <1>u. ASSUME proc' = proc, \A r \in Remotes: work'[r] = work[r] PROVE Called'
    BY <1>s, <1>u, CalledStays
  <1>l. ASSUME NEW m \in Msgs, \A g \in Handlers: g # m => work'[g] = work[g]
        PROVE  \A r \in Remotes: work'[r] = work[r]
    BY <1>l, Names
  <1>1. ASSUME NEW m \in Msgs, \/ getSendChannel(m) \/ GetNextMessageSeq(m) \/ AppendMessage(m)
                                \/ NotifyAppend(m) \/ ForwardReturns(m)
                                \/ PutLocalStores(m) \/ PutLocalFails(m) \/ PutLocalDone(m) \/ Sendack(m)
        PROVE  Called'
    <2>1. proc' = proc
      BY <1>1 DEF getSendChannel, GetNextMessageSeq, AppendMessage, NotifyAppend, ForwardReturns,
                  PutLocalStores, PutLocalFails, PutLocalDone, Sendack, nodeVars
    <2>2. \/ work' = work \/ \E w: work' = [work EXCEPT ![m] = w]
      BY <1>1 DEF getSendChannel, GetNextMessageSeq, AppendMessage, NotifyAppend, ForwardReturns, Begins,
                  PutLocalStores, PutLocalFails, PutLocalDone, Sendack, TakesNumber, StoresFor, NextOffset,
                  StoreFails, HandsOver
    <2>3. \A g \in Handlers: g # m => work'[g] = work[g] BY <1>s, <2>2 DEF SendTypeOK
    <2> QED BY <1>l, <1>u, <2>1, <2>3
  <1>2. ASSUME NEW m \in Msgs, PutForward(m) PROVE Called'
    <2>0. m \in Procs BY Names
    <2>1. CASE startDeliveryNodeData(m, m) /\ UNCHANGED work
      <3>1. proc[m].pc # "rpc" /\ \A q \in Procs: q # m => proc'[q] = proc[q]
        BY <1>s, <2>0, <2>1 DEF startDeliveryNodeData
      <3> QED BY <1>m, <2>0, <2>1, <3>1
    <2>2. CASE Begins(m, m, send[m].local, NoData) /\ UNCHANGED nodeVars
      <3>1. proc' = proc BY <2>2 DEF nodeVars
      <3>2. \A g \in Handlers: g # m => work'[g] = work[g] BY <1>s, <2>2 DEF SendTypeOK, Begins
      <3> QED BY <1>l, <1>u, <3>1, <3>2
    <2> QED BY <1>2, <2>1, <2>2 DEF PutForward
  <1>3. ASSUME NEW r \in Remotes, NEW p \in Procs, RemoteBegins(r, p) PROVE Called'
    <2>1. proc[p].d \in Msgs
      <3>1. proc[p].d \in started BY <1>3 DEF RemoteBegins, IndInv, Held
      <3> QED BY <1>s, <3>1 DEF NodeTracked, NodeTypeOK, Msgs
    <2>2. send[proc[p].d].remote \in SUBSET Subs BY <1>s, <2>1, SubsKnown DEF Subs
    <2>3. Begins(r, proc[p].d, send[proc[p].d].remote, p) /\ proc' = proc /\ proc[p].pc = "rpc" /\ p \notin Begun
      BY <1>3 DEF RemoteBegins, nodeVars
    <2>6. r \in Handlers /\ p \in Procs \cup {NoData} BY Names
    <2>7. work'[r].m = proc[p].d /\ work'[r].by = p /\ \A g \in Handlers: g # r => work'[g] = work[g]
      BY <1>s, <2>1, <2>2, <2>3, <2>6, WorkBegins
    <2>4. work'[r].m = proc[p].d /\ work'[r].by = p /\ \A s \in Remotes: s # r => work'[s] = work[s]
      BY <2>7, Names
    <2>5. \A s \in Remotes: work[s].by # NoData => work[s].by # p BY <2>3 DEF Begun
    <2> QED BY <1>s, <2>3, <2>4, <2>5 DEF Called
  <1>4. ASSUME NEW r \in Remotes, NEW d \in Msgs, RemoteBeginsLate(r, d) PROVE Called'
    <2>2. send[d].remote \in SUBSET Subs BY <1>s, SubsKnown DEF Subs
    <2>3. Begins(r, d, send[d].remote, NoData) /\ proc' = proc BY <1>4 DEF RemoteBeginsLate, LateArrives
    <2>4. work'[r].by = NoData /\ \A s \in Remotes: s # r => work'[s] = work[s]
      BY <1>s, <2>2, <2>3, Names, WorkBegins
    <2> QED BY <1>s, <2>3, <2>4, CalledStays
  <1>5. ASSUME NEW r \in Remotes, RemoteStores(r) PROVE Called'
    <2>1. r \in Handlers /\ work[r].m \in Msgs BY <1>5, <1>s, Names, RemoteWork DEF RemoteStores
    <2>2. proc' = proc /\ (TakesNumber(r) \/ StoresFor(r)) BY <1>5 DEF RemoteStores, nodeVars
    <2>3. /\ work'[r].m = work[r].m /\ work'[r].by = work[r].by
          /\ \A g \in Handlers: g # r => work'[g] = work[g]
      BY <1>s, <2>1, <2>2, StoresSteps DEF TakesOne, Tries
    <2>4. \A s \in Remotes: s # r => work'[s] = work[s] BY <2>3, Names
    <2> QED BY <1>s, <2>2, <2>3, <2>4, CalledStays
  <1>6. ASSUME NEW r \in Remotes, RemoteFails(r) \/ RemoteDone(r) PROVE Called'
    <2>1. work' = [work EXCEPT ![r] = NoWork] BY <1>6 DEF RemoteFails, RemoteDone, StoreFails, HandsOver
    <2>2. work'[r].by = NoData /\ \A s \in Remotes: s # r => work'[s] = work[s]
      BY <1>s, <2>1, Names DEF SendTypeOK, NoWork
    <2>3. ASSUME NEW s \in Remotes, s # r, work[s].by # NoData PROVE proc'[work[s].by] = proc[work[s].by]
      <3>1. work[s].by \in Procs /\ work[s].by # work[r].by BY <1>s, <1>y, <2>3 DEF Called
      <3>2. CASE work[r].by = NoData
        BY <1>6, <3>2 DEF RemoteFails, RemoteDone, nodeVars, ReceivedUnasked
      <3>3. CASE work[r].by # NoData
        <4>1. \E f: proc' = [proc EXCEPT ![work[r].by] = f]
          BY <1>6, <3>3 DEF RemoteFails, RemoteDone, RpcFails, RpcSucceeds, Return, Goto
        <4> QED BY <1>s, <3>1, <4>1
      <3> QED BY <3>2, <3>3
    <2> QED BY <1>s, <2>2, <2>3, CalledStays
  <1>7. ASSUME NEW p \in Procs, NodeStep(p) PROVE Called'
    <2>1. work' = work BY <1>7 DEF NodeStep, sendVars
    <2>2. proc[p].pc # "rpc" /\ \E f: proc' = [proc EXCEPT ![p] = f]
      BY <1>7 DEF NodeStep, DeliveryStep, ScanStep, pushInFlightMessage, addToInFlightPQ,
                popInFlightMessage, removeFromInFlightPQ, ScanBegins, ScanShifts, ScanPops, Return, Goto
    <2>3. \A q \in Procs: q # p => proc'[q] = proc[q] BY <1>s, <2>2
    <2> QED BY <1>m, <2>1, <2>2, <2>3
  <1>8. ASSUME NEW p \in Procs, RemoteGivenUp(p) PROVE Called'
    <2>1. work' = GivenUp({p}) /\ \E f: proc' = [proc EXCEPT ![p] = f]
      BY <1>8 DEF RemoteGivenUp, RpcGivenUp, Return
    <2>2. \A q \in Procs: q # p => proc'[q] = proc[q] BY <1>s, <2>1
    <2>3. ASSUME NEW r \in Remotes, work'[r].by # NoData
          PROVE  work'[r].by = work[r].by /\ work'[r].m = work[r].m /\ work[r].by # p
      BY <1>s, <2>1, <2>3, Names, WorkGivenUp
    <2> QED BY <1>s, <1>y, <2>2, <2>3, CalledStays
  <1>9. ASSUME NEW n \in Nodes, Notify(n) \/ Lead(n) PROVE Called'
    BY <1>9, <1>u DEF Notify, Lead, sendVars, nodeVars
  <1>10. CASE Halt
    <2>1. work' = [h \in Handlers |-> IF h \in Msgs THEN NoWork ELSE GivenUp(Procs)[h]] BY <1>10 DEF Halt
    <2>2. ASSUME NEW r \in Remotes PROVE work'[r].by = NoData
      <3>1. work'[r] = GivenUp(Procs)[r] BY <2>1, Names
      <3> QED BY <1>s, <1>y, <3>1, Names, WorkGivenUp
    <2> QED BY <2>2 DEF Called
  <1>11. CASE Restart BY <1>11, <1>u DEF Restart, Start
  <1>12. CASE UNCHANGED vars BY <1>12, <1>u DEF vars, sendVars, nodeVars
  <1> QED BY <1>1, <1>2, <1>3, <1>4, <1>5, <1>6, <1>7, <1>8, <1>9, <1>10, <1>11, <1>12, StepCases

-----------------------------------------------------------------------------
\* The numbers of a topic as the state has them.
LEMMA TopicTypes ==
  ASSUME SendTypeOK, NEW t \in Topics
  PROVE  /\ topic[t].last \in Nat /\ topic[t].mem \in Nat /\ topic[t].life \in Nat
         /\ \A q \in topic[t].tries: q.num \in Nat /\ q.life \in Nat
  <1>1. topic[t] \in TopicState BY DEF SendTypeOK
  <1>2. topic[t].tries \subseteq Try BY <1>1 DEF TopicState
  <1> QED BY <1>1, <1>2 DEF TopicState, Try

\* A number is handed out once; what is appended is a number in hand.
LEMMA StepNumbered ==
  ASSUME SendTypeOK, Quiet, Worked, Numbered, TopicStep
  PROVE  Numbered'
  <1>t. \A h \in Handlers: work[h].at \in Topics /\ work[h].num \in Nat BY Appending
  <1>y. \A t \in Topics: /\ topic[t].last \in Nat /\ topic[t].mem \in Nat /\ topic[t].life \in Nat
                         /\ \A q \in topic[t].tries: q.num \in Nat /\ q.life \in Nat
    BY TopicTypes
  <1>1. CASE Still
    <2>1. topic' = topic BY <1>1 DEF Still
    <2>2. \A h \in Handlers: work'[h].num > 0 => work'[h].num = work[h].num /\ work'[h].at = work[h].at
      BY <1>1 DEF Still
    <2>3. \A t: Passed(t)' = Passed(t) BY <2>1 DEF Passed
    <2> QED BY <2>1, <2>2, <2>3 DEF Numbered
  <1>2. ASSUME NEW h \in Handlers, NEW t \in Topics, work[h].num = 0, TakesOne(h, t) PROVE Numbered'
    <2>1. /\ topic'[t].last = topic[t].last + 1
          /\ topic'[t].mem = topic[t].mem /\ topic'[t].life = topic[t].life /\ topic'[t].tries = topic[t].tries
          /\ \A s \in Topics: s # t => topic'[s] = topic[s]
          /\ work'[h].at = t /\ work'[h].num = topic[t].last + 1
          /\ \A g \in Handlers: g # h => work'[g] = work[g]
      BY <1>2 DEF TakesOne
    <2>2. \A s \in Topics: Passed(s)' = Passed(s) BY <2>1 DEF Passed
    <2>3. \A s \in Topics: /\ topic'[s].mem = topic[s].mem /\ topic'[s].tries = topic[s].tries
                           /\ topic'[s].life = topic[s].life /\ topic'[s].last >= topic[s].last
      BY <1>y, <2>1
    <2>4. /\ \A s \in Topics: topic'[s].mem <= topic'[s].last
          /\ \A s \in Topics: \A q \in topic'[s].tries: q.life <= topic'[s].life
          /\ \A s \in Topics: \A q \in Passed(s)': q.num <= topic'[s].mem
          /\ \A s \in Topics: topic'[s].mem = 0 \/ \E q \in Passed(s)': q.num = topic'[s].mem
      <3>1. \A s \in Topics: topic'[s].last \in Nat BY <1>y, <2>1
      <3>2. \A s \in Topics: topic'[s].mem <= topic'[s].last BY <1>y, <2>3, <3>1 DEF Numbered
      <3> QED BY <2>2, <2>3, <3>2 DEF Numbered
    <2>5. ASSUME NEW g \in Handlers, NEW s \in Topics, work'[g].num > 0, work'[g].at = s
          PROVE  work'[g].num <= topic'[s].last /\ \A q \in Passed(s)': q.num # work'[g].num
      <3>1. CASE g = h
        <4>1. \A q \in Passed(t): q.num <= topic[t].mem /\ q.num \in Nat BY <1>y DEF Numbered, Passed
        <4>2. topic[t].mem <= topic[t].last BY DEF Numbered
        <4>3. s = t /\ work'[g].num = topic[t].last + 1 BY <2>1, <2>5, <3>1
        <4>4. work'[g].num <= topic'[s].last BY <1>y, <2>1, <4>3
        <4>5. \A q \in Passed(s): q.num # work'[g].num BY <1>y, <4>1, <4>2, <4>3
        <4> QED BY <2>2, <4>4, <4>5
      <3>2. CASE g # h
        <4>1. work'[g] = work[g] BY <2>1, <3>2
        <4>2. work[g].num <= topic[s].last /\ \A q \in Passed(s): q.num # work[g].num
          BY <2>5, <4>1 DEF Numbered
        <4>3. topic[s].last <= topic'[s].last /\ topic'[s].last \in Nat BY <1>y, <2>1
        <4> QED BY <1>t, <1>y, <2>2, <4>1, <4>2, <4>3
      <3> QED BY <3>1, <3>2
    <2>6. ASSUME NEW g \in Handlers, NEW k \in Handlers, g # k,
                 work'[g].num > 0, work'[g].num = work'[k].num, work'[g].at = work'[k].at
          PROVE  FALSE
      <3>1. ASSUME NEW j \in Handlers, j # h, work[j].num = topic[t].last + 1, work[j].at = t PROVE FALSE
        <4>1. work[j].num > 0 BY <1>y, <3>1
        <4>2. work[j].num <= topic[t].last BY <3>1, <4>1 DEF Numbered
        <4> QED BY <1>y, <3>1, <4>2
      <3>2. CASE g = h BY <2>1, <2>6, <3>1, <3>2
      <3>3. CASE k = h BY <2>1, <2>6, <3>1, <3>3
      <3>4. CASE g # h /\ k # h BY <2>1, <2>6, <3>4 DEF Numbered
      <3> QED BY <3>2, <3>3, <3>4
    <2>7. /\ \A g \in Handlers, s \in Topics: work'[g].num > 0 /\ work'[g].at = s =>
                work'[g].num <= topic'[s].last /\ \A q \in Passed(s)': q.num # work'[g].num
          /\ \A g, k \in Handlers:
                work'[g].num > 0 /\ work'[g].num = work'[k].num /\ work'[g].at = work'[k].at => g = k
      BY <2>5, <2>6
    <2> QED BY <2>4, <2>7 DEF Numbered
  <1>3. ASSUME NEW h \in Handlers, NEW m \in Msgs, NEW out \in {"written", "failed", "dropped"}, Tries(h, m, out)
        PROVE  Numbered'
    <2>0. PICK t \in Topics, n \in Nat: t = work[h].at /\ n = work[h].num /\ n > 0 BY <1>3, <1>t DEF Tries
    <2>1. PICK r: r = [msg |-> m, life |-> topic[t].life, num |-> n, out |-> out] OBVIOUS
    <2>2. /\ IF n <= topic[t].mem THEN out = "dropped" ELSE out \in {"written", "failed"}
          /\ topic'[t].tries = topic[t].tries \cup {r}
          /\ topic'[t].mem = IF out = "dropped" THEN topic[t].mem ELSE n
          /\ topic'[t].last = IF out = "dropped" \/ n <= topic[t].last THEN topic[t].last ELSE n
          /\ topic'[t].life = topic[t].life
          /\ \A s \in Topics: s # t => topic'[s] = topic[s]
      BY <1>3, <2>0, <2>1 DEF Tries, TriesOne
    <2>3. work'[h].num = 0 /\ \A g \in Handlers: g # h => work'[g] = work[g] BY <1>3 DEF Tries
    <2>4. n <= topic[t].last /\ \A q \in Passed(t): q.num # n BY <2>0 DEF Numbered
    <2>5. topic'[t].last = topic[t].last BY <2>2, <2>4
    <2>6. r.out = out /\ r.num = n /\ r.life = topic[t].life BY <2>1
    <2>7. Passed(t)' = Passed(t) \cup (IF out = "dropped" THEN {} ELSE {r})
      BY <2>2, <2>6 DEF Passed
    <2>8. \A s \in Topics: s # t => Passed(s)' = Passed(s) BY <2>2 DEF Passed
    <2>9. \A q \in Passed(t): q.num <= topic[t].mem /\ q.num \in Nat BY <1>y DEF Numbered, Passed
    <2>10. \A s \in Topics: topic'[s].mem <= topic'[s].last
      BY <2>2, <2>4, <2>5 DEF Numbered
    <2>11. \A s \in Topics: \A q \in topic'[s].tries: q.life <= topic'[s].life
      BY <1>y, <2>2, <2>6 DEF Numbered
    <2>12. \A q \in Passed(t)': q.num <= topic'[t].mem BY <1>y, <2>2, <2>6, <2>7, <2>9
    <2>13. topic'[t].mem = 0 \/ \E q \in Passed(t)': q.num = topic'[t].mem
      <3>1. topic[t].mem = 0 \/ \E q \in Passed(t): q.num = topic[t].mem BY DEF Numbered
      <3> QED BY <2>2, <2>6, <2>7, <3>1
    <2>14. /\ \A s \in Topics: \A q \in Passed(s)': q.num <= topic'[s].mem
           /\ \A s \in Topics: topic'[s].mem = 0 \/ \E q \in Passed(s)': q.num = topic'[s].mem
      <3>1. ASSUME NEW s \in Topics, s # t
            PROVE  /\ \A q \in Passed(s)': q.num <= topic'[s].mem
                   /\ topic'[s].mem = 0 \/ \E q \in Passed(s)': q.num = topic'[s].mem
        <4>1. topic'[s] = topic[s] /\ Passed(s)' = Passed(s) BY <2>2, <2>8, <3>1
        <4> QED BY <4>1 DEF Numbered
      <3> QED BY <2>12, <2>13, <3>1
    <2>15. ASSUME NEW g \in Handlers, NEW s \in Topics, work'[g].num > 0, work'[g].at = s
           PROVE  work'[g].num <= topic'[s].last /\ \A q \in Passed(s)': q.num # work'[g].num
      <3>1. g # h /\ work'[g] = work[g] BY <2>3, <2>15
      <3>2. work[g].num <= topic[s].last /\ \A q \in Passed(s): q.num # work[g].num
        BY <2>15, <3>1 DEF Numbered
      <3>3. ~(s = t /\ work[g].num = n)
        BY <2>0, <2>15, <3>1 DEF Numbered
      <3>4. CASE s = t BY <2>5, <2>6, <2>7, <3>1, <3>2, <3>3, <3>4
      <3>5. CASE s # t BY <2>2, <2>8, <3>1, <3>2, <3>5
      <3> QED BY <3>4, <3>5
    <2>16. \A g, k \in Handlers:
              work'[g].num > 0 /\ work'[g].num = work'[k].num /\ work'[g].at = work'[k].at => g = k
      BY <2>3 DEF Numbered
    <2> QED BY <2>10, <2>11, <2>14, <2>15, <2>16 DEF Numbered
  <1>4. CASE Restart
    <2>1. /\ topic' \in [Topics -> TopicState] /\ work' = work
          /\ \A t \in Topics: topic'[t].tries = topic[t].tries
          /\ \A t \in Topics: IF t \in Here THEN topic'[t].mem = 0 /\ topic'[t].life = topic[t].life + 1
                              ELSE topic'[t] = topic[t]
      BY <1>4, Reopens
    <2>2. ASSUME NEW h \in Handlers, work[h].num > 0 PROVE work[h].at \notin Here
      <3>1. NoWork.num = 0 BY DEF NoWork
      <3>2. CASE h \in Msgs
        <4>1. step[h] \in {"new", "done"} BY <1>4, <3>2 DEF Quiet, Restart, Start
        <4>2. work[h] = NoWork BY <3>2, <4>1 DEF Worked
        <4> QED BY <2>2, <3>1, <4>2
      <3>3. CASE h \in Remotes
        <4>1. work[h].m # NoData BY <2>2, <3>1, <3>3 DEF Worked
        <4>2. work[h].m \in Msgs BY <3>3, <4>1, RemoteWork
        <4>3. work[h].at \in Users(h, work[h].m) BY <2>2, <4>1 DEF Worked
        <4>4. h \notin Msgs BY <3>3, Names
        <4>5. work[h].at \in RemoteUsers BY <4>2, <4>3, <4>4, SubsKnown DEF Users
        <4> QED BY <4>5, Names
      <3> QED BY <3>2, <3>3 DEF Handlers
    <2>3. ASSUME NEW t \in Topics
          PROVE  /\ topic'[t].mem <= topic'[t].last
                 /\ \A q \in topic'[t].tries: q.life <= topic'[t].life
                 /\ \A q \in Passed(t)': q.num <= topic'[t].mem
                 /\ topic'[t].mem = 0 \/ \E q \in Passed(t)': q.num = topic'[t].mem
      <3>1. CASE t \in Here
        <4>1. topic'[t].mem = 0 /\ topic'[t].life = topic[t].life + 1 /\ topic'[t].tries = topic[t].tries
          BY <2>1, <3>1
        <4>2. topic'[t] \in TopicState BY <2>1
        <4>3. topic'[t].last \in Nat BY <4>2 DEF TopicState
        <4>4. \A q \in topic[t].tries: q.life <= topic[t].life /\ q.life \in Nat BY <1>y DEF Numbered
        <4>5. \A q \in topic'[t].tries: q.life < topic'[t].life BY <1>y, <4>1, <4>4
        <4>6. \A q \in topic'[t].tries: q.life \in Nat /\ topic'[t].life \in Nat BY <1>y, <4>1, <4>4
        <4>7. Passed(t)' = {} BY <4>5, <4>6 DEF Passed
        <4> QED BY <4>1, <4>3, <4>5, <4>6, <4>7
      <3>2. CASE t \notin Here
        <4>1. topic'[t] = topic[t] BY <2>1, <3>2
        <4>2. Passed(t)' = Passed(t) BY <4>1 DEF Passed
        <4> QED BY <4>1, <4>2 DEF Numbered
      <3> QED BY <3>1, <3>2
    <2>4. ASSUME NEW h \in Handlers, NEW s \in Topics, work'[h].num > 0, work'[h].at = s
          PROVE  work'[h].num <= topic'[s].last /\ \A q \in Passed(s)': q.num # work'[h].num
      <3>1. s \notin Here /\ work'[h] = work[h] BY <2>1, <2>2, <2>4
      <3>2. topic'[s] = topic[s] BY <2>1, <3>1
      <3>3. Passed(s)' = Passed(s) BY <3>2 DEF Passed
      <3>4. work[h].num <= topic[s].last /\ \A q \in Passed(s): q.num # work[h].num
        BY <2>4, <3>1 DEF Numbered
      <3> QED BY <3>1, <3>2, <3>3, <3>4
    <2>5. \A g, k \in Handlers:
              work'[g].num > 0 /\ work'[g].num = work'[k].num /\ work'[g].at = work'[k].at => g = k
      BY <2>1 DEF Numbered
    <2> QED BY <2>3, <2>4, <2>5 DEF Numbered
  <1> QED BY <1>1, <1>2, <1>3, <1>4 DEF TopicStep

\* What is kept stays so: nothing that was tried is forgotten.
LEMMA KeptStays ==
  ASSUME SendTypeOK, TopicStep, NEW t \in Topics, NEW m, Kept(t, m)
  PROVE  Kept(t, m)'
  <1>1. topic[t].tries \subseteq topic'[t].tries BY TriesGrow
  <1>2. PICK r \in topic[t].tries: r.msg = m /\ (r.out = "written" \/ Overtaken(t, r)) BY DEF Kept
  <1>3. Overtaken(t, r) => Overtaken(t, r)' BY <1>1 DEF Overtaken
  <1> QED BY <1>1, <1>2, <1>3 DEF Kept

\* An append without an error keeps the message: a number that is dropped
\* was overtaken by one that went past the test.
LEMMA TriedKept ==
  ASSUME SendTypeOK, Numbered, NEW h \in Handlers, NEW m \in Msgs, NEW out \in {"written", "dropped"},
         Tries(h, m, out), NEW t \in Topics, t = work[h].at
  PROVE  Kept(t, m)'
  <1>0. PICK n \in Nat: n = work[h].num /\ n > 0 BY Appending DEF Tries
  <1>1. PICK r: r = [msg |-> m, life |-> topic[t].life, num |-> n, out |-> out] OBVIOUS
  <1>2. /\ IF n <= topic[t].mem THEN out = "dropped" ELSE out \in {"written", "failed"}
        /\ topic'[t].tries = topic[t].tries \cup {r}
    BY <1>0, <1>1 DEF Tries, TriesOne
  <1>3. r.out = out /\ r.num = n /\ r.life = topic[t].life /\ r.msg = m BY <1>1
  <1>4. r \in topic'[t].tries BY <1>2
  <1>5. \A q \in Passed(t): q.num # n BY <1>0 DEF Numbered
  <1>6. topic[t].mem = 0 \/ \E q \in Passed(t): q.num = topic[t].mem BY DEF Numbered
  <1>7. topic[t].mem \in Nat BY TopicTypes
  <1>8. CASE out = "written" BY <1>3, <1>4, <1>8 DEF Kept
  <1>9. CASE out = "dropped"
    <2>1. n <= topic[t].mem BY <1>2, <1>9
    <2>2. PICK q \in Passed(t): q.num = topic[t].mem BY <1>0, <1>6, <2>1
    <2>3. q.num > n BY <1>5, <1>7, <2>1, <2>2
    <2>4. q \in topic'[t].tries /\ q.out # "dropped" /\ q.life = topic[t].life BY <1>2, <2>2 DEF Passed
    <2>5. Overtaken(t, r)' BY <1>3, <1>9, <2>3, <2>4 DEF Overtaken
    <2> QED BY <1>3, <1>4, <2>5 DEF Kept
  <1> QED BY <1>8, <1>9
-----------------------------------------------------------------------------
\* What a step may add to what has been done for a message.
Advance ==
    /\ send' = send /\ queued \subseteq queued' /\ started \subseteq started'
    /\ \A m \in Msgs: step'[m] \in Early =>
          /\ step[m] \in Early
          /\ (m \in started' => m \in started) /\ (Shown(m)' => Shown(m)) /\ (Success(m)' => Success(m))
    /\ \A m \in Msgs: Put(m)' => Put(m) \/ (step[m] = "notify" /\ m \in queued')
    /\ \A m \in Msgs: Success(m)' =>
          \/ Success(m)
          \/ /\ step[m] = "local"
             /\ IsCluster /\ send[m].kind = "synconce" => \A u \in send[m].local: Kept(u, m)'
    /\ \A m \in Msgs: step'[m] = "notify" /\ send[m].kind = "stored" => step[m] = "notify" \/ Kept(Channel, m)'
    /\ \A m \in Msgs: step'[m] \in {"forward", "local"} =>
          step[m] \in {"forward", "local"} \/ send[m].remote = {} \/ m \in started'
    /\ \A m \in Msgs: m \in received' =>
          m \in received \/ (send[m].kind = "synconce" => \A u \in send[m].remote: Kept(u, m)')

LEMMA PastKeeps ==
  ASSUME IndInv, TopicStep, Advance
  PROVE  Past'
  <1> USE DEF IndInv
  <1> SUFFICES ASSUME NEW m \in Msgs
      PROVE /\ step'[m] \in Early => m \notin started' /\ ~Shown(m)' /\ ~Success(m)'
            /\ (step'[m] = "notify" \/ Put(m)' \/ Success(m)') /\ send'[m].kind = "stored" => Kept(Channel, m)'
            /\ Put(m)' \/ Success(m)' => m \in queued'
            /\ send'[m].remote # {} /\ (step'[m] \in {"forward", "local"} \/ Success(m)') => m \in started'
    BY DEF Past
  <1>0. /\ step[m] \in Early => m \notin started /\ ~Shown(m) /\ ~Success(m)
        /\ (step[m] = "notify" \/ Put(m) \/ Success(m)) /\ send[m].kind = "stored" => Kept(Channel, m)
        /\ Put(m) \/ Success(m) => m \in queued
        /\ send[m].remote # {} /\ (step[m] \in {"forward", "local"} \/ Success(m)) => m \in started
    BY DEF Past
  <1>1. step'[m] \in Early => m \notin started' /\ ~Shown(m)' /\ ~Success(m)'
    BY <1>0 DEF Advance
  <1>2. ASSUME step'[m] = "notify" \/ Put(m)' \/ Success(m)', send'[m].kind = "stored" PROVE Kept(Channel, m)'
    <2>1. send[m].kind = "stored" BY <1>2 DEF Advance
    <2>2. CASE step[m] = "notify" \/ Put(m) \/ Success(m)
      BY <1>0, <2>1, <2>2, Names, KeptStays
    <2>3. CASE ~(step[m] = "notify" \/ Put(m) \/ Success(m))
      BY <1>2, <2>1, <2>3 DEF Advance, Put
    <2> QED BY <2>2, <2>3
  <1>3. Put(m)' \/ Success(m)' => m \in queued'
    BY <1>0 DEF Advance, Put
  <1>4. send'[m].remote # {} /\ (step'[m] \in {"forward", "local"} \/ Success(m)') => m \in started'
    BY <1>0 DEF Advance
  <1> QED BY <1>1, <1>2, <1>3, <1>4

\* Whom a goroutine stores a message for.
LEMMA UsersKnown ==
  ASSUME SendTypeOK, NEW h, NEW m \in Msgs
  PROVE  Users(h, m) \subseteq Subs /\ Users(h, m) \subseteq Topics
  BY SubsKnown DEF Users, Subs, Topics

LEMMA DeliveredKeeps ==
  ASSUME IndInv, TopicStep, Advance, \A h \in Handlers: DoneFor(h)'
  PROVE  Delivered'
  <1> USE DEF IndInv
  <1>0. send' = send BY DEF Advance
  <1>k. \A m \in Msgs: send[m].local \subseteq Topics /\ send[m].remote \subseteq Topics
    BY SubsKnown, Names
  <1>1. ASSUME NEW m \in Msgs, IsCluster, Success(m)', send[m].kind = "synconce", NEW u \in send[m].local
        PROVE  Kept(u, m)'
    <2>1. CASE Success(m) BY <1>1, <1>k, <2>1, KeptStays DEF Delivered
    <2>2. CASE ~Success(m) BY <1>1, <2>2 DEF Advance
    <2> QED BY <2>1, <2>2
  <1>2. ASSUME NEW m \in Msgs, m \in received', send[m].kind = "synconce", NEW u \in send[m].remote
        PROVE  Kept(u, m)'
    <2>1. CASE m \in received BY <1>2, <1>k, <2>1, KeptStays DEF Delivered
    <2>2. CASE m \notin received BY <1>2, <2>2 DEF Advance
    <2> QED BY <2>1, <2>2
  <1> QED BY <1>0, <1>1, <1>2 DEF Delivered
-----------------------------------------------------------------------------
\* What a goroutine has done stays done.
LEMMA DoneStays ==
  ASSUME SendTypeOK, Delivered, TopicStep, NEW h \in Handlers, send' = send,
         work'[h].m = work[h].m, work'[h].todo = work[h].todo
  PROVE  DoneFor(h)'
  <1> SUFFICES ASSUME NEW m \in Msgs, work'[h].m = m, send[m].kind = "synconce", NEW u \in Users(h, m)',
                      u \notin work'[h].todo
               PROVE  Kept(u, m)'
    BY DEF DoneFor
  <1>1. u \in Users(h, m) /\ u \in Topics BY UsersKnown DEF Users
  <1>2. Kept(u, m) BY <1>1 DEF Delivered, DoneFor
  <1> QED BY <1>1, <1>2, KeptStays

LEMMA DoneNone ==
  ASSUME NEW h \in Handlers, work'[h].m = NoData
  PROVE  DoneFor(h)'
  BY Names DEF DoneFor

LEMMA DoneBegins ==
  ASSUME SendTypeOK, NEW h \in Handlers, NEW k \in Msgs, NEW by \in Procs \cup {NoData}, send' = send,
         Begins(h, k, Users(h, k), by)
  PROVE  DoneFor(h)'
  <1>1. Users(h, k) \in SUBSET Subs BY UsersKnown
  <1>2. work'[h].m = k /\ work'[h].todo = IF send[k].kind = "synconce" THEN Users(h, k) ELSE {}
    BY <1>1, WorkBegins
  <1>3. Users(h, k)' = Users(h, k) BY DEF Users
  <1> QED BY <1>2, <1>3 DEF DoneFor

LEMMA DoneStores ==
  ASSUME SendTypeOK, Delivered, Numbered, TopicStep, NEW h \in Handlers, send' = send,
         work[h].m \in Msgs, TakesNumber(h) \/ StoresFor(h)
  PROVE  DoneFor(h)'
  <1>1. CASE \E u \in work[h].todo: TakesOne(h, u)
    <2>1. work'[h].m = work[h].m /\ work'[h].todo = work[h].todo BY <1>1 DEF TakesOne
    <2> QED BY <2>1, DoneStays
  <1>2. ASSUME NEW out \in {"written", "dropped"}, Tries(h, work[h].m, out),
               work'[h].m = work[h].m, work'[h].todo = work[h].todo \ {work[h].at}
        PROVE  DoneFor(h)'
    <2> SUFFICES ASSUME NEW m \in Msgs, work'[h].m = m, send[m].kind = "synconce", NEW u \in Users(h, m)',
                        u \notin work'[h].todo
                 PROVE  Kept(u, m)'
      BY <1>2 DEF DoneFor
    <2>1. u \in Users(h, m) /\ u \in Topics BY UsersKnown DEF Users
    <2>2. CASE u = work[h].at BY <1>2, <2>1, <2>2, TriedKept
    <2>3. CASE u # work[h].at
      <3>1. Kept(u, m) BY <1>2, <2>1, <2>3 DEF Delivered, DoneFor
      <3> QED BY <2>1, <3>1, KeptStays
    <2> QED BY <2>2, <2>3
  <1> QED BY <1>1, <1>2, StoresSteps

\* A message is stored for one subscriber after the other.
LEMMA StepDone ==
  ASSUME IndInv, [Next]_vars, NEW h \in Handlers
  PROVE  DoneFor(h)'
  <1> USE DEF IndInv
  <1>s. SendTypeOK /\ NodeTracked /\ Held /\ Worked /\ Delivered /\ Numbered OBVIOUS
  <1> HIDE DEF IndInv
  <1>t. TopicStep BY <1>s, TopicSteps
  <1>u. ASSUME send' = send, work'[h] = work[h] PROVE DoneFor(h)' BY <1>s, <1>t, <1>u, DoneStays
  <1>n. ASSUME work'[h] = NoWork PROVE DoneFor(h)'
    <2>1. work'[h].m = NoData BY <1>n DEF NoWork
    <2> QED BY <2>1, DoneNone
  <1>e. ASSUME NEW g \in Handlers, send' = send, work' = [work EXCEPT ![g] = NoWork] PROVE DoneFor(h)'
    <2>1. CASE g = h BY <1>e, <1>n, <1>s, <2>1 DEF SendTypeOK
    <2>2. CASE g # h BY <1>e, <1>s, <1>u, <2>2 DEF SendTypeOK
    <2> QED BY <2>1, <2>2
  <1>b. ASSUME NEW g \in Handlers, NEW k \in Msgs, NEW by \in Procs \cup {NoData}, send' = send,
               Begins(g, k, Users(g, k), by)
        PROVE  DoneFor(h)'
    <2>1. CASE g = h BY <1>b, <1>s, <2>1, DoneBegins
    <2>2. CASE g # h BY <1>b, <1>s, <1>u, <2>2 DEF SendTypeOK, Begins
    <2> QED BY <2>1, <2>2
  <1>f. ASSUME NEW g \in Handlers, send' = send, work[g].m \in Msgs, TakesNumber(g) \/ StoresFor(g)
        PROVE  DoneFor(h)'
    <2>1. CASE g = h BY <1>f, <1>s, <1>t, <2>1, DoneStores
    <2>2. CASE g # h
      <3>1. work'[h] = work[h] BY <1>f, <1>s, <2>2, StoresSteps DEF TakesOne, Tries
      <3> QED BY <1>f, <1>u, <3>1
    <2> QED BY <2>1, <2>2
  <1>1. ASSUME NEW m \in Msgs, getSendChannel(m) \/ NotifyAppend(m) \/ Sendack(m) PROVE DoneFor(h)'
    BY <1>1, <1>u DEF getSendChannel, NotifyAppend, Sendack
  <1>2. ASSUME NEW m \in Msgs, GetNextMessageSeq(m) PROVE DoneFor(h)'
    <2>1. m \in Handlers /\ Channel \in Topics BY Names
    <2>2. TakesOne(m, Channel) /\ send' = send BY <1>2, <1>s, <2>1, NumberTaken DEF GetNextMessageSeq
    <2>3. work'[h].m = work[h].m /\ work'[h].todo = work[h].todo BY <2>2 DEF TakesOne
    <2> QED BY <1>s, <1>t, <2>2, <2>3, DoneStays
  <1>3. ASSUME NEW m \in Msgs, AppendMessage(m) \/ PutLocalFails(m) \/ PutLocalDone(m) PROVE DoneFor(h)'
    <2>1. m \in Handlers /\ send' = send /\ work' = [work EXCEPT ![m] = NoWork]
      BY <1>3, Names DEF AppendMessage, PutLocalFails, PutLocalDone, StoreFails, HandsOver
    <2> QED BY <1>e, <2>1
  <1>4. ASSUME NEW m \in Msgs, PutForward(m) \/ ForwardReturns(m) PROVE DoneFor(h)'
    <2>1. m \in Handlers /\ send' = send /\ Users(m, m) = send[m].local
      BY <1>4, Names DEF PutForward, ForwardReturns, Users
    <2>2. CASE UNCHANGED work BY <1>u, <2>1, <2>2
    <2>3. CASE Begins(m, m, send[m].local, NoData) BY <1>b, <2>1, <2>3
    <2> QED BY <1>4, <2>2, <2>3 DEF PutForward, ForwardReturns
  <1>5. ASSUME NEW m \in Msgs, PutLocalStores(m) PROVE DoneFor(h)'
    <2>1. m \in Handlers /\ step[m] = "local" /\ send' = send /\ (TakesNumber(m) \/ StoresFor(m))
      BY <1>5, Names DEF PutLocalStores, At
    <2>2. work[m].m \in Msgs BY <1>s, <2>1, LocalWork
    <2> QED BY <1>f, <2>1, <2>2
  <1>6. ASSUME NEW r \in Remotes, RemoteStores(r) PROVE DoneFor(h)'
    <2>1. r \in Handlers /\ work[r].m \in Msgs BY <1>6, <1>s, Names, RemoteWork DEF RemoteStores
    <2> QED BY <1>6, <1>f, <2>1 DEF RemoteStores, coreVars
  <1>7. ASSUME NEW r \in Remotes, RemoteFails(r) \/ RemoteDone(r) PROVE DoneFor(h)'
    <2>1. r \in Handlers /\ send' = send /\ work' = [work EXCEPT ![r] = NoWork]
      BY <1>7, Names DEF RemoteFails, RemoteDone, StoreFails, HandsOver, coreVars
    <2> QED BY <1>e, <2>1
  <1>8. ASSUME NEW r \in Remotes, NEW p \in Procs, RemoteBegins(r, p) PROVE DoneFor(h)'
    <2>1. proc[p].d \in Msgs
      BY <1>8, <1>s DEF RemoteBegins, Held, NodeTracked, NodeTypeOK, Msgs
    <2>2. r \in Handlers /\ r \notin Msgs /\ p \in Procs \cup {NoData} BY Names
    <2>3. Users(r, proc[p].d) = send[proc[p].d].remote BY <2>2 DEF Users
    <2>4. Begins(r, proc[p].d, send[proc[p].d].remote, p) /\ send' = send BY <1>8 DEF RemoteBegins, coreVars
    <2> QED BY <1>b, <2>1, <2>2, <2>3, <2>4
  <1>9. ASSUME NEW r \in Remotes, NEW d \in Msgs, RemoteBeginsLate(r, d) PROVE DoneFor(h)'
    <2>2. r \in Handlers /\ r \notin Msgs BY Names
    <2>3. Users(r, d) = send[d].remote BY <2>2 DEF Users
    <2> QED BY <1>9, <1>b, <2>2, <2>3 DEF RemoteBeginsLate, coreVars
  <1>10. ASSUME NEW p \in Procs, NodeStep(p) PROVE DoneFor(h)' BY <1>10, <1>u DEF NodeStep, sendVars
  <1>11. ASSUME NEW p \in Procs, RemoteGivenUp(p) PROVE DoneFor(h)'
    <2>1. send' = send /\ work'[h] = GivenUp({p})[h] BY <1>11 DEF RemoteGivenUp, coreVars
    <2>2. work'[h].m = work[h].m /\ work'[h].todo = work[h].todo BY <1>s, <2>1, WorkGivenUp
    <2> QED BY <1>s, <1>t, <2>1, <2>2, DoneStays
  <1>12. ASSUME NEW n \in Nodes, Notify(n) \/ Lead(n) PROVE DoneFor(h)'
    BY <1>12, <1>u DEF Notify, Lead, sendVars
  <1>13. CASE Halt
    <2>1. send' = send /\ work'[h] = IF h \in Msgs THEN NoWork ELSE GivenUp(Procs)[h] BY <1>13 DEF Halt
    <2>2. CASE h \in Msgs BY <1>n, <2>1, <2>2
    <2>3. CASE h \notin Msgs
      <3>1. work'[h].m = work[h].m /\ work'[h].todo = work[h].todo BY <1>s, <2>1, <2>3, WorkGivenUp
      <3> QED BY <1>s, <1>t, <2>1, <3>1, DoneStays
    <2> QED BY <2>2, <2>3
  <1>14. CASE Restart BY <1>14, <1>u DEF Restart
  <1>15. CASE UNCHANGED vars BY <1>15, <1>u DEF vars, sendVars
  <1> QED BY <1>1, <1>2, <1>3, <1>4, <1>5, <1>6, <1>7, <1>8, <1>9, <1>10, <1>11, <1>12, <1>13, <1>14, <1>15,
             StepCases
-----------------------------------------------------------------------------
\* Only message k may be shown to somebody it was not shown to before.
ShowsOnly(k) ==
    /\ \A n \in Msgs: n # k => pushed'[n] = pushed[n]
    /\ \A u \in Subs: \A q \in topic'[u].tries: q \in topic[u].tries \/ q.msg = k

Hidden ==
    /\ pushed' = pushed
    /\ \A u \in Subs: topic'[u].tries = topic[u].tries

LEMMA OnlyShown ==
  ASSUME NEW k, ShowsOnly(k), NEW n \in Msgs
  PROVE  Shown(n)' => Shown(n) \/ n = k
  BY DEF ShowsOnly, Shown

LEMMA NoneShown ==
  ASSUME Hidden, NEW n \in Msgs
  PROVE  Shown(n)' <=> Shown(n)
  BY DEF Hidden, Shown

\* An append shows the message it is of, if it is to the queue of a user.
LEMMA TriesShows ==
  ASSUME SendTypeOK, NEW h \in Handlers, NEW k \in Msgs, NEW out, Tries(h, k, out), pushed' = pushed
  PROVE  ShowsOnly(k) /\ (work[h].at = Channel => Hidden)
  <1>1. work[h].at \in Topics BY Appending
  <1>2. PICK t \in Topics: t = work[h].at BY <1>1
  <1>3. /\ topic'[t].tries = topic[t].tries \cup
                                {[msg |-> k, life |-> topic[t].life, num |-> work[h].num, out |-> out]}
        /\ \A s \in Topics: s # t => topic'[s] = topic[s]
    BY <1>2 DEF Tries, TriesOne
  <1>4. \A u \in Subs: u \in Topics /\ u # Channel BY Names DEF Topics
  <1> QED BY <1>2, <1>3, <1>4 DEF ShowsOnly, Hidden

\* The steps of storing and handing over show the message in hand.
LEMMA StoringShows ==
  ASSUME SendTypeOK, NEW h \in Handlers, NEW k \in Msgs, work[h].m = k,
         \/ (TakesNumber(h) \/ StoresFor(h)) /\ pushed' = pushed
         \/ StoreFails(h)
         \/ \E subs: HandsOver(h, subs)
  PROVE  ShowsOnly(k)
  <1>0. \A u \in Subs: u \in Topics BY DEF Topics
  <1>t. ASSUME NEW u \in Topics, TakesOne(h, u), pushed' = pushed PROVE ShowsOnly(k)
    BY <1>0, <1>t DEF TakesOne, ShowsOnly
  <1>1. CASE (TakesNumber(h) \/ StoresFor(h)) /\ pushed' = pushed
    <2>1. \A u \in work[h].todo: u \in Topics BY <1>0, Appending
    <2>2. \/ \E u \in work[h].todo: TakesOne(h, u)
          \/ \E out \in {"written", "dropped"}: Tries(h, k, out)
      BY <1>1, StoresSteps
    <2> QED BY <1>1, <1>t, <2>1, <2>2, TriesShows
  <1>2. CASE StoreFails(h)
    <2>1. Still \/ \E out \in {"written", "failed"}: Tries(h, k, out) BY <1>2, FailsSteps DEF StoreFails
    <2>2. pushed' = pushed BY <1>2 DEF StoreFails
    <2>3. CASE Still BY <2>2, <2>3 DEF Still, ShowsOnly
    <2> QED BY <2>1, <2>2, <2>3, TriesShows
  <1>3. ASSUME NEW subs, HandsOver(h, subs) PROVE ShowsOnly(k)
    BY <1>3 DEF HandsOver, ShowsOnly, SendTypeOK
  <1> QED BY <1>1, <1>2, <1>3

\* A goroutine that has nobody left to store for has stored for all.
LEMMA AllDone ==
  ASSUME IndInv, TopicStep, NEW h \in Handlers, NEW m \in Msgs, work[h].m = m, work[h].todo = {}
  PROVE  send[m].kind = "synconce" => \A u \in Users(h, m): Kept(u, m)'
  <1>1. send[m].kind = "synconce" => \A u \in Users(h, m): Kept(u, m) BY DEF IndInv, Delivered, DoneFor
  <1>2. \A u \in Users(h, m): u \in Topics BY UsersKnown DEF IndInv
  <1> QED BY <1>1, <1>2, KeptStays DEF IndInv

\* The steps of a message: each does what the next one relies on.
LEMMA SendAdvance ==
  ASSUME IndInv, [Next]_vars, TopicStep, NEW m \in Msgs, SendStep(m)
  PROVE  Advance
  <1> USE DEF IndInv, SendTypeOK
  <1>h. m \in Handlers /\ m \notin Remotes /\ Channel \in Topics BY Names
  <1>0. ASSUME UNCHANGED <<pushed, topic>> PROVE Hidden BY <1>0 DEF Hidden
  <1>1. CASE getSendChannel(m)
    <2>1. /\ step[m] = "new" /\ \A n \in Msgs: n # m => step'[n] = step[n] /\ result'[n] = result[n]
          /\ UNCHANGED <<send, topic, pushed, ack, queued, started, received>>
          /\ step'[m] \in {"seq", "notify", "reply"} /\ (step'[m] = "notify" => send[m].kind # "stored")
          /\ result'[m] \in {"error", result[m]}
      BY <1>1 DEF getSendChannel, At, To, Answer, nodeVars, notifyVars
    <2>2. \A n \in Msgs: (Shown(n)' <=> Shown(n)) BY <1>0, <2>1, NoneShown
    <2>3. \A n \in Msgs: (Put(n)' => Put(n)) /\ (Success(n)' => Success(n))
      BY <2>1, <2>2 DEF Put, Success
    <2> QED BY <2>1, <2>2, <2>3 DEF Advance, Early
  <1>2. CASE GetNextMessageSeq(m)
    <2>1. /\ step[m] = "seq" /\ \A n \in Msgs: n # m => step'[n] = step[n] /\ result'[n] = result[n]
          /\ UNCHANGED <<send, pushed, ack, queued, started, received>>
          /\ step'[m] = "append" /\ result' = result
      BY <1>2 DEF GetNextMessageSeq, At, To, Answer, nodeVars, notifyVars
    <2>4. TakesOne(m, Channel) BY <1>2, <1>h, NumberTaken DEF GetNextMessageSeq
    <2>5. Hidden BY <2>1, <2>4 DEF TakesOne, Hidden, Topics
    <2>2. \A n \in Msgs: (Shown(n)' <=> Shown(n)) BY <2>5, NoneShown
    <2>3. \A n \in Msgs: (Put(n)' => Put(n)) /\ (Success(n)' => Success(n))
      BY <2>1, <2>2 DEF Put, Success
    <2> QED BY <2>1, <2>2, <2>3 DEF Advance, Early
  <1>3. CASE AppendMessage(m)
    <2>1. /\ step[m] = "append" /\ \A n \in Msgs: n # m => step'[n] = step[n] /\ result'[n] = result[n]
          /\ UNCHANGED <<send, pushed, ack, queued, started, received>>
          /\ step'[m] \in {"notify", "reply"} /\ result'[m] \in {"error", result[m]}
          /\ work' = [work EXCEPT ![m] = NoWork]
          /\ step'[m] = "notify" => Appends(m, m)
      BY <1>3 DEF AppendMessage, At, To, Answer, nodeVars, notifyVars
    <2>4. work[m].num > 0 /\ work[m].at = Channel BY <2>1 DEF Worked
    <2>5. ASSUME NEW out, AppendLog(work[m].at, m, work[m].num, out) PROVE Tries(m, m, out)
      <3>1. TriesOne(work[m].at, m, work[m].num, out) BY <1>h, <2>5, LogAppended, Appending
      <3>2. NoWork.num = 0 /\ NoWork \in Work BY Names DEF NoWork
      <3>3. work' \in [Handlers -> Work] /\ work'[m] = NoWork /\ \A g \in Handlers: g # m => work'[g] = work[g]
        BY <1>h, <2>1, <3>2, WorkSet
      <3> QED BY <2>4, <3>1, <3>2, <3>3 DEF Tries
    <2>6. Hidden
      <3>1. CASE topic' = topic BY <1>0, <2>1, <3>1
      <3>2. ASSUME NEW out, AppendLog(work[m].at, m, work[m].num, out) PROVE Hidden
        BY <1>h, <2>1, <2>4, <2>5, <3>2, TriesShows
      <3> QED BY <1>3, <3>1, <3>2 DEF AppendMessage, Appends, AppendErrs
    <2>7. step'[m] = "notify" => Kept(Channel, m)'
      <3>1. ASSUME NEW out \in {"written", "dropped"}, AppendLog(work[m].at, m, work[m].num, out)
            PROVE  Kept(Channel, m)'
        BY <1>h, <2>4, <2>5, <3>1, TriedKept
      <3> QED BY <2>1, <3>1 DEF Appends
    <2>2. \A n \in Msgs: (Shown(n)' <=> Shown(n)) BY <2>6, NoneShown
    <2>3. \A n \in Msgs: (Put(n)' => Put(n)) /\ (Success(n)' => Success(n))
      BY <2>1, <2>2 DEF Put, Success
    <2> QED BY <2>1, <2>2, <2>3, <2>7 DEF Advance, Early
  <1>4. CASE NotifyAppend(m)
    <2>1. /\ step[m] = "notify" /\ \A n \in Msgs: n # m => step'[n] = step[n] /\ result'[n] = result[n]
          /\ UNCHANGED <<send, topic, pushed, ack, started, received>>
          /\ step'[m] \in {"put", "reply"} /\ result'[m] \in {"error", result[m]}
          /\ queued \subseteq queued' /\ (step'[m] = "put" => m \in queued')
      BY <1>4 DEF NotifyAppend, At, To, Answer, nodeVars, notifyVars, AppendMessageOfNotifyQueue
    <2>2. \A n \in Msgs: (Shown(n)' <=> Shown(n)) BY <1>0, <2>1, NoneShown
    <2>3. \A n \in Msgs: (Success(n)' => Success(n)) /\ (Put(n)' => Put(n) \/ (n = m /\ m \in queued'))
      BY <2>1, <2>2 DEF Put, Success
    <2> QED BY <2>1, <2>2, <2>3 DEF Advance, Early
  <1>5. CASE PutForward(m) \/ ForwardReturns(m)
    <2>1. /\ step[m] \in {"put", "forward"} /\ \A n \in Msgs: n # m => step'[n] = step[n]
          /\ UNCHANGED <<send, topic, pushed, ack, queued, received, result>>
          /\ step'[m] \in {"forward", "local"} /\ started \subseteq started' /\ started' \subseteq started \cup {m}
          /\ step[m] = "forward" \/ send[m].remote = {} \/ m \in started'
      BY <1>5 DEF PutForward, ForwardReturns, At, To, nodeVars, notifyVars, startDeliveryNodeData
    <2>2. \A n \in Msgs: (Shown(n)' <=> Shown(n)) BY <1>0, <2>1, NoneShown
    <2>3. \A n \in Msgs: (Put(n)' => Put(n)) /\ (Success(n)' => Success(n))
      BY <2>1, <2>2 DEF Put, Success
    <2> QED BY <2>1, <2>2, <2>3 DEF Advance, Early
  <1>6. CASE PutLocalStores(m)
    <2>1. /\ step[m] = "local"
          /\ UNCHANGED <<send, step, result, ack, pushed, queued, started, received>>
          /\ TakesNumber(m) \/ StoresFor(m)
      BY <1>6 DEF PutLocalStores, At, nodeVars, notifyVars
    <2>4. work[m].m = m BY <2>1, LocalWork
    <2>2. \A n \in Msgs: Shown(n)' => Shown(n) \/ n = m BY <1>h, <2>1, <2>4, StoringShows, OnlyShown
    <2>3. \A n \in Msgs: (Put(n)' => Put(n)) /\ (Success(n)' => Success(n))
      BY <2>1, <2>2 DEF Put, Success
    <2> QED BY <2>1, <2>2, <2>3 DEF Advance, Early
  <1>7. CASE PutLocalFails(m) \/ PutLocalDone(m)
    <2>1. /\ step[m] = "local" /\ step'[m] = "reply"
          /\ \A n \in Msgs: n # m => step'[n] = step[n] /\ result'[n] = result[n]
          /\ UNCHANGED <<send, ack, queued, started, received>>
      BY <1>7 DEF PutLocalFails, PutLocalDone, At, Answer, nodeVars, notifyVars
    <2>4. work[m].m = m BY <2>1, LocalWork
    <2>2. \A n \in Msgs: Shown(n)' => Shown(n) \/ n = m
      BY <1>7, <1>h, <2>4, StoringShows, OnlyShown DEF PutLocalFails, PutLocalDone
    <2>5. result'[m] = "success" /\ IsCluster /\ send[m].kind = "synconce" => \A u \in send[m].local: Kept(u, m)'
      <3>1. CASE PutLocalFails(m) BY <3>1 DEF PutLocalFails, Answer
      <3>2. CASE PutLocalDone(m)
        <4>1. work[m].todo = {} BY <3>2 DEF PutLocalDone, HandsOver
        <4>2. Users(m, m) = send[m].local BY DEF Users
        <4> HIDE DEF IndInv, SendTypeOK
        <4>3. send[m].kind = "synconce" => \A u \in Users(m, m): Kept(u, m)' BY <1>h, <2>4, <4>1, AllDone
        <4> QED BY <4>2, <4>3
      <3> QED BY <1>7, <3>1, <3>2
    <2>3. \A n \in Msgs: (Put(n)' => Put(n)) /\ (n # m => (Success(n)' => Success(n)))
      BY <2>1, <2>2 DEF Put, Success
    <2>6. Success(m)' => Success(m) \/ result'[m] = "success" BY <2>1 DEF Success
    <2> QED BY <2>1, <2>2, <2>3, <2>5, <2>6 DEF Advance, Early
  <1>8. CASE Sendack(m)
    <2>1. /\ \A n \in Msgs: n # m => step'[n] = step[n] /\ result'[n] = result[n] /\ ack'[n] = ack[n]
          /\ UNCHANGED <<send, topic, pushed, queued, started, received>>
          /\ step'[m] = "done" /\ result'[m] = "none" /\ ack'[m] \in {"error", result[m]}
      BY <1>8 DEF Sendack, At, nodeVars, notifyVars
    <2>2. \A n \in Msgs: (Shown(n)' <=> Shown(n)) BY <1>0, <2>1, NoneShown
    <2>3. \A n \in Msgs: (Put(n)' => Put(n)) /\ (Success(n)' => Success(n))
      BY <2>1, <2>2 DEF Put, Success
    <2> QED BY <2>1, <2>2, <2>3 DEF Advance, Early
  <1> HIDE DEF IndInv, SendTypeOK
  <1> QED BY <1>1, <1>2, <1>3, <1>4, <1>5, <1>6, <1>7, <1>8 DEF SendStep

\* The other node handles a message that has been stored and queued, and
\* says that it has got it when it is stored for each of its subscribers.
LEMMA RemoteAdvance ==
  ASSUME IndInv, [Next]_vars, TopicStep, NEW r \in Remotes, RemoteStores(r) \/ RemoteFails(r) \/ RemoteDone(r)
  PROVE  Advance
  <1> USE DEF IndInv, SendTypeOK
  <1>h. r \in Handlers /\ r \notin Msgs BY Names
  <1>1. PICK k \in Msgs: k = work[r].m BY RemoteWork DEF RemoteStores, RemoteFails, RemoteDone
  <1>2. work[r].m # NoData BY DEF RemoteStores, RemoteFails, RemoteDone
  <1>3. k \in started BY <1>1, <1>2 DEF Worked
  <1>4. UNCHANGED <<send, step, result, ack, queued, started>>
    BY DEF RemoteStores, RemoteFails, RemoteDone, coreVars, notifyVars, nodeVars, RpcFails, RpcSucceeds,
           ReceivedUnasked
  <1>5. \A n \in Msgs: Shown(n)' => Shown(n) \/ n = k
    BY <1>1, <1>h, StoringShows, OnlyShown DEF RemoteStores, RemoteFails, RemoteDone
  <1>6. \A n \in Msgs: (Put(n)' => Put(n)) /\ (Success(n)' => Success(n))
    BY <1>3, <1>4, <1>5 DEF Put, Success
  <1>7. step[k] \notin Early BY <1>3 DEF Past
  <1>8. received' = received \/ (received' = received \cup {k} /\ RemoteDone(r))
    <2>1. CASE RemoteStores(r) BY <2>1 DEF RemoteStores, nodeVars
    <2>2. CASE RemoteFails(r) BY <2>2 DEF RemoteFails, nodeVars, RpcFails
    <2>3. CASE RemoteDone(r)
      <3>1. CASE work[r].by = NoData BY <1>1, <2>3, <3>1 DEF RemoteDone, ReceivedUnasked
      <3>2. CASE work[r].by # NoData
        <4>1. proc[work[r].by].d = k BY <1>1, <3>2 DEF Called
        <4> QED BY <2>3, <3>2, <4>1 DEF RemoteDone, RpcSucceeds
      <3> QED BY <3>1, <3>2
    <2> QED BY <2>1, <2>2, <2>3
  <1>9. RemoteDone(r) => (send[k].kind = "synconce" => \A u \in send[k].remote: Kept(u, k)')
    <2>1. SUFFICES ASSUME RemoteDone(r), send[k].kind = "synconce" PROVE \A u \in send[k].remote: Kept(u, k)'
      OBVIOUS
    <2>2. work[r].todo = {} BY <2>1 DEF RemoteDone, HandsOver
    <2>3. Users(r, k) = send[k].remote BY <1>h DEF Users
    <2> HIDE DEF IndInv, SendTypeOK
    <2>4. \A u \in Users(r, k): Kept(u, k)' BY <1>1, <1>h, <2>1, <2>2, AllDone
    <2> QED BY <2>3, <2>4
  <1> QED BY <1>4, <1>5, <1>6, <1>7, <1>8, <1>9 DEF Advance

LEMMA StepAdvance ==
  ASSUME IndInv, [Next]_vars, TopicStep
  PROVE  Advance
  <1> USE DEF IndInv
  <1>s. SendTypeOK OBVIOUS
  <1> HIDE DEF IndInv
  <1>u. ASSUME UNCHANGED <<send, step, result, ack, queued, started, received>>, Hidden PROVE Advance
    <2>2. \A n \in Msgs: (Shown(n)' <=> Shown(n)) BY <1>u, NoneShown
    <2>3. \A n \in Msgs: (Put(n)' => Put(n)) /\ (Success(n)' => Success(n))
      BY <1>u, <2>2 DEF Put, Success
    <2> QED BY <1>u, <2>2, <2>3 DEF Advance
  <1>0. ASSUME UNCHANGED <<pushed, topic>> PROVE Hidden BY <1>0 DEF Hidden
  <1>1. ASSUME NEW m \in Msgs, SendStep(m) PROVE Advance BY <1>1, SendAdvance
  <1>2. ASSUME NEW r \in Remotes, RemoteStores(r) \/ RemoteFails(r) \/ RemoteDone(r) PROVE Advance
    BY <1>2, RemoteAdvance
  <1>3. ASSUME NEW r \in Remotes, \/ \E p \in Procs: RemoteBegins(r, p)
                                  \/ \E d \in Msgs: RemoteBeginsLate(r, d)
        PROVE  Advance
    BY <1>0, <1>3, <1>u DEF RemoteBegins, RemoteBeginsLate, coreVars, nodeVars, notifyVars, LateArrives
  <1>4. ASSUME NEW p \in Procs, NodeStep(p) \/ RemoteGivenUp(p) PROVE Advance
    BY <1>0, <1>4, <1>u DEF NodeStep, DeliveryStep, ScanStep, pushInFlightMessage, addToInFlightPQ,
                popInFlightMessage, removeFromInFlightPQ, ScanBegins, ScanShifts, ScanPops,
                RemoteGivenUp, RpcGivenUp, sendVars, notifyVars, coreVars
  <1>5. ASSUME NEW n \in Nodes, Notify(n) \/ Lead(n) PROVE Advance
    BY <1>0, <1>5, <1>u DEF Notify, Lead, sendVars, nodeVars, NotifyStep, NotifyFault, NotifyGets, NotifyPosted,
                NotifyRemoves, NotifyFails, NotifyRemoveFails, Elect
  <1>6. CASE Halt
    <2>1. /\ UNCHANGED <<send, topic, pushed, queued, started, received>>
          /\ \A n \in Msgs: /\ step'[n] \in {"new", "done"} /\ (step'[n] = "new" => step[n] = "new")
                            /\ result'[n] = "none" /\ ack'[n] \in {"error", ack[n]}
      BY <1>6 DEF Halt, Stop, Crash, Down, NotifyAborts
    <2>2. \A n \in Msgs: (Shown(n)' <=> Shown(n)) BY <1>0, <2>1, NoneShown
    <2>3. \A n \in Msgs: (Put(n)' => Put(n)) /\ (Success(n)' => Success(n))
      BY <2>1, <2>2 DEF Put, Success
    <2> QED BY <2>1, <2>2, <2>3 DEF Advance, Early
  <1>7. CASE Restart
    <2>1. \A t \in Topics: topic'[t].tries = topic[t].tries BY <1>7, <1>s, Reopens
    <2>2. Hidden BY <1>7, <2>1 DEF Restart, Hidden, Topics
    <2> QED BY <1>7, <1>u, <2>2 DEF Restart, Start, notifyVars
  <1>8. CASE UNCHANGED vars BY <1>0, <1>8, <1>u DEF vars, sendVars, nodeVars, notifyVars
  <1> QED BY <1>1, <1>2, <1>3, <1>4, <1>5, <1>6, <1>7, <1>8, StepCases DEF SendStep

-----------------------------------------------------------------------------
LEMMA InitInd == Init => IndInv
  <1> SUFFICES ASSUME Init PROVE IndInv OBVIOUS
  <1> USE DEF Init, NodeInit, NotifyInit
  <1>1. SendTypeOK
    <2>1. send \in [Msgs -> [kind: Kinds, local: SUBSET LocalUsers, remote: SUBSET RemoteUsers]]
      BY SendAssumption DEF Msgs
    <2>2. [last |-> 0, mem |-> 0, life |-> 0, tries |-> {}] \in TopicState BY DEF TopicState
    <2>3. topic \in [Topics -> TopicState] /\ work \in [Handlers -> Work] BY <2>2, Names
    <2> QED BY <2>1, <2>3 DEF SendTypeOK, Steps
  <1>2. NotifyTypeOK BY DEF NotifyTypeOK
  <1>3. NodeTracked
    <2>1. <<>> \in Seq(Data) OBVIOUS
    <2>2. NodeTypeOK BY <2>1 DEF NodeTypeOK, PCs, Resting
    <2> QED BY <2>2 DEF NodeTracked, Outstanding
  <1>4. Held BY DEF Held, Resting, Outstanding
  <1>5. Posted /\ QueuedOrNotified /\ Quiet BY DEF Posted, QueuedOrNotified, Quiet
  <1>w. NoWork.m = NoData /\ NoWork.num = 0 /\ NoWork.by = NoData BY DEF NoWork
  <1>n. \A h \in Handlers: work[h] = NoWork OBVIOUS
  <1>m. \A m \in Msgs: m \in Handlers BY Names
  <1>r. \A r \in Remotes: r \in Handlers BY Names
  <1>s. \A m \in Msgs: step[m] \in {"new", "done"} OBVIOUS
  <1>t. \A t \in Topics: topic[t].mem = 0 /\ topic[t].last = 0 /\ topic[t].tries = {} OBVIOUS
  <1>6. \A m \in Msgs: ~Shown(m) /\ ~Success(m) /\ ~Put(m) /\ m \notin received
    <2>1. \A m \in Msgs: ~Shown(m) BY <1>t DEF Shown, Topics
    <2> QED BY <2>1, <1>s DEF Success, Put
  <1>7. Past BY <1>6, <1>s DEF Past
  <1>8. Worked BY <1>m, <1>n, <1>r, <1>s, <1>w DEF Worked
  <1>9. Called BY <1>n, <1>r, <1>w DEF Called
  <1>10. Numbered
    <2>1. \A t \in Topics: Passed(t) = {} BY <1>t DEF Passed
    <2> HIDE DEF Init
    <2> QED BY <1>n, <1>t, <1>w, <2>1 DEF Numbered
  <1>11. Delivered BY <1>6, <1>n, <1>w, Names DEF Delivered, DoneFor
  <1> QED BY <1>1, <1>2, <1>3, <1>4, <1>5, <1>7, <1>8, <1>9, <1>10, <1>11 DEF IndInv

LEMMA StepInd == IndInv /\ [Next]_vars => IndInv'
  <1> SUFFICES ASSUME IndInv, [Next]_vars PROVE IndInv' OBVIOUS
  <1>t. TopicStep BY TopicSteps DEF IndInv
  <1>1. SendTypeOK' BY StepSendType
  <1>2. NotifyTypeOK' /\ Posted' /\ QueuedOrNotified' BY StepNotify, QueueSteps DEF IndInv
  <1>3. NodeTracked' /\ Held' BY NodeKeeps, NodeActions DEF IndInv
  <1>4. Quiet' /\ Worked' /\ Called' BY StepQuiet, StepWorked, StepCalled
  <1>5. Numbered' BY <1>t, StepNumbered DEF IndInv
  <1>6. Advance BY <1>t, StepAdvance
  <1>7. Past' BY <1>t, <1>6, PastKeeps
  <1>8. Delivered' BY <1>t, <1>6, StepDone, DeliveredKeeps
  <1> QED BY <1>1, <1>2, <1>3, <1>4, <1>5, <1>7, <1>8 DEF IndInv

\* The parts of the invariant hold in every reachable state, whatever fails.
THEOREM SendInductive == Spec => []IndInv
  BY InitInd, StepInd, PTL DEF Spec

\* A message that was acknowledged or that a subscriber has seen is in the
\* topic of the channel after any errors, failed writes, time-outs and
\* crashes, or its number came after that of a later append, written or not
\* (handleSendPacketWithFrom, AppendLog).
THEOREM SendAckedStored == Spec => []AckedStored
  <1>1. IndInv => AckedStored BY DEF IndInv, Past, AckedStored, Put, Success
  <1> QED BY <1>1, SendInductive, PTL

\* In a cluster an acknowledged SyncOnce message is in the queues of the
\* subscribers of this node, or was overtaken there, and is in flight to the
\* other one or has been stored there in the same sense; data the other node
\* has not got is where a scan finds it or in the hands of a goroutine, also
\* when scans overlap (PutMessage, storeMessageToUserQueueIfNeed,
\* startDeliveryNodeData, processInFlightQueue).
THEOREM SendAckedReaches == Spec => []AckedReaches
  <1>1. IndInv => AckedReaches BY DEF IndInv, Past, Delivered, AckedReaches, Success
  <1> QED BY <1>1, SendInductive, PTL

\* What a subscriber has seen is queued for the business server, and leaves
\* the queue only when the webhook has got it, also when the rounds of an old
\* and a new leader overlap (notifyQueueLoop).
THEOREM SendPushedIsQueued == Spec => []PushedIsQueued
  <1>1. IndInv => PushedIsQueued BY DEF IndInv, Past, PushedIsQueued, Put
  <1> QED BY <1>1, SendInductive, PTL

-----------------------------------------------------------------------------
(* The conversations of a user: messages, what the cache holds and what a   *)
(* flush has collected.                                                     *)

Message    == [chan : Chans, seq : 1 .. MaxSeq, dot : BOOLEAN]
ConvRecord == [chan : Chans, unread : Nat, last : 0 .. MaxSeq]
Holding    == {"bump", "save", "add"}

\* The objects in the cache, and that they are for different channels when g
\* gives the objects' contents.
InUse          == Range(cache)
Distinct(s, g) == \A i, j \in DOMAIN s : g[s[i]].chan = g[s[j]].chan => i = j

StoreType ==
    /\ queue \in Seq(Message)
    /\ conv \in [Objs -> [chan : Chans \cup {0}, unread : Nat, last : 0 .. MaxSeq]]
    /\ cache \in Seq(Objs) /\ Len(cache) <= CacheMax
    /\ store \in Seq(ConvRecord)
    /\ seen \in [Chans -> 0 .. MaxSeq]
    /\ missed \in BOOLEAN /\ raced \in BOOLEAN

SaverType ==
    /\ noSave \in 0 .. SyncOnce - 1 /\ needSave \in BOOLEAN
    /\ saver \in {"select", "off"} \cup FlushPCs
    /\ stop \in {"run", "wait", "done"} \cup FlushPCs
    /\ snap \in [Flushers -> [keys : Seq(Chans), objs : Seq(Objs)]]

CalcType ==
    /\ calc \in [pc : {"pop", "fill", "get", "bump", "save", "add"}, msg : Message \cup {NoMsg},
                 obj : Objs \cup {0}, unread : Nat, fill : Seq(ConvRecord)]
    /\ calc.pc # "pop" => calc.msg \in Message
    /\ calc.pc = "fill" <=> calc.fill # <<>>
    /\ calc.pc \in Holding => calc.obj \in Objs

ApiType ==
    /\ api \in [pc : {"idle", "fill", "save"}, fill : Seq(ConvRecord)]
    /\ api.pc = "fill" <=> api.fill # <<>>

Types == StoreType /\ SaverType /\ CalcType /\ ApiType

\* Objects that are cached or collected are for a channel.
Known ==
    /\ \A o \in InUse : conv[o].chan \in Chans
    /\ \A f \in Flushers : \A o \in Range(snap[f].objs) : conv[o].chan \in Chans

Unique == Distinct(cache, conv)

Unseen == \A c \in Chans : ~InCache(c) => seen[c] = 0

\* What calcLoop holds is for the channel of its message, and shows what the
\* cache has shown and, once brought up to date, the message.
HeldFits ==
    calc.pc \in Holding =>
        /\ conv[calc.obj].chan = calc.msg.chan
        /\ ~raced => conv[calc.obj].last >= seen[calc.msg.chan]
        /\ calc.pc # "bump" => conv[calc.obj].last >= calc.msg.seq

Shows == ~raced => \A o \in InUse : conv[o].last >= seen[conv[o].chan]

Shape == Known /\ Unique /\ Unseen /\ HeldFits /\ Shows

\* A user who is being flushed is listed.
FlushListed == stop = "run" /\ saver \in {"get", "write", "clear"} => needSave

\* A conversation to be changed in place is in the cache.
BumpCached == ~raced /\ calc.pc = "bump" => calc.obj \in InUse

\* One to be put into the cache is there already, or the user is listed and the
\* next flush has not collected its list, or the list lacks it.
AddCached ==
    ~raced /\ stop = "run" /\ calc.pc = "add" =>
        \/ calc.obj \in InUse
        \/ missed
        \/ needSave /\ saver \notin {"write", "clear"}

Undisturbed      == ~raced /\ ~missed /\ stop = "run"
Announcing == calc.pc = "save" \/ api.pc = "save"
Loading    == calc.pc = "fill" \/ api.pc = "fill"

\* The list that is about to be written has all that is cached.
Complete == Undisturbed /\ saver = "write" => Range(snap["saver"].objs) = InUse

\* Once written, cache and store agree until a change is announced.
Written == Undisturbed /\ saver = "clear" => Contents = Saved \/ Announcing

\* While a list is loaded, cache and store differ by what is left of the list.
Filling ==
    Undisturbed /\ ~needSave /\ Loading /\ ~Announcing =>
        /\ Contents \subseteq Saved
        /\ Saved \subseteq Contents \cup Range(calc.fill) \cup Range(api.fill)

Saving == FlushListed /\ BumpCached /\ AddCached /\ Complete /\ Written /\ Filling /\ SaveCovers

ConvInv == Types /\ Shape /\ Saving

-----------------------------------------------------------------------------
\* What is left of a sequence without its element i.
LEMMA RemoveAtElements ==
  ASSUME NEW S, NEW s \in Seq(S), NEW i \in 1 .. Len(s)
  PROVE  /\ RemoveAt(s, i) \in Seq(S)
         /\ Len(RemoveAt(s, i)) = Len(s) - 1
         /\ \A j \in 1 .. Len(s) - 1 : RemoveAt(s, i)[j] = IF j < i THEN s[j] ELSE s[j + 1]
  <1> DEFINE a == SubSeq(s, 1, i - 1)
             b == SubSeq(s, i + 1, Len(s))
  <1>1. a \in Seq(S) /\ Len(a) = i - 1 /\ \A j \in 1 .. i - 1 : a[j] = s[j]
    OBVIOUS
  <1>2. b \in Seq(S) /\ Len(b) = Len(s) - i /\ \A j \in 1 .. Len(s) - i : b[j] = s[j + i]
    OBVIOUS
  <1>3. RemoveAt(s, i) = a \o b BY DEF RemoveAt
  <1> HIDE DEF a, b
  <1>4. a \o b \in Seq(S) /\ Len(a \o b) = Len(a) + Len(b) BY <1>1, <1>2, ConcatProperties
  <1>5. ASSUME NEW j \in 1 .. Len(s) - 1
        PROVE  (a \o b)[j] = IF j < i THEN s[j] ELSE s[j + 1]
    <2>1. CASE j < i
      <3>1. (a \o b)[j] = a[j] BY <1>1, <1>2, <2>1, ConcatProperties
      <3> QED BY <3>1, <1>1, <2>1
    <2>2. CASE ~(j < i)
      <3>1. (a \o b)[j] = b[j - (i - 1)] BY <1>1, <1>2, <2>2, ConcatProperties
      <3>2. b[j - (i - 1)] = s[j - (i - 1) + i] BY <1>2, <2>2
      <3>3. j - (i - 1) + i = j + 1 OBVIOUS
      <3> QED BY <3>1, <3>2, <3>3, <2>2
    <2> QED BY <2>1, <2>2
  <1> QED BY <1>1, <1>2, <1>3, <1>4, <1>5

\* A channel that is cached has a slot.
LEMMA SlotFound ==
  ASSUME NEW c, InCache(c)
  PROVE  SlotOf(c) \in DOMAIN cache /\ conv[cache[SlotOf(c)]].chan = c
  BY DEF InCache, SlotOf

\* Taking the conversation of c out of the cache leaves the others.
LEMMA WithoutRest ==
  ASSUME NEW c, cache \in Seq(Objs), Unique
  PROVE  /\ Without(c) \in Seq(Objs)
         /\ Len(Without(c)) = IF InCache(c) THEN Len(cache) - 1 ELSE Len(cache)
         /\ \A o : o \in Range(Without(c)) <=> o \in InUse /\ conv[o].chan # c
         /\ Distinct(Without(c), conv)
  <1> DEFINE W == Without(c)
  <1>1. CASE ~InCache(c)
    <2>1. W = cache BY <1>1 DEF Without
    <2>2. \A i \in DOMAIN cache : conv[cache[i]].chan # c BY <1>1 DEF InCache
    <2> QED BY <1>1, <2>1, <2>2 DEF Unique, Range, InUse
  <1>2. CASE InCache(c)
    <2> DEFINE p == SlotOf(c)
    <2>1. p \in 1 .. Len(cache) /\ conv[cache[p]].chan = c
      BY <1>2, SlotFound
    <2>2. W = RemoveAt(cache, p) BY <1>2 DEF Without
    <2> HIDE DEF W, p
    <2>3. /\ W \in Seq(Objs) /\ Len(W) = Len(cache) - 1
          /\ \A j \in 1 .. Len(cache) - 1 : W[j] = IF j < p THEN cache[j] ELSE cache[j + 1]
      BY <2>1, <2>2, RemoveAtElements
    <2>4. ASSUME NEW i \in 1 .. Len(W), NEW j \in 1 .. Len(W), conv[W[i]].chan = conv[W[j]].chan
          PROVE  i = j
      <3> DEFINE Old(k) == IF k < p THEN k ELSE k + 1
      <3>1. \A k \in 1 .. Len(W) : Old(k) \in DOMAIN cache /\ W[k] = cache[Old(k)] BY <2>1, <2>3
      <3>2. conv[cache[Old(i)]].chan = conv[cache[Old(j)]].chan BY <2>4, <3>1
      <3>3. Old(i) = Old(j) BY <3>1, <3>2 DEF Unique, Distinct
      <3> QED BY <3>3, <2>1
    <2>5. ASSUME NEW o, o \in Range(W) PROVE o \in InUse /\ conv[o].chan # c
      <3>1. PICK j \in 1 .. Len(W) : o = W[j] BY <2>3, <2>5 DEF Range
      <3>2. PICK k \in 1 .. Len(cache) : k # p /\ o = cache[k]
        <4> DEFINE k == IF j < p THEN j ELSE j + 1
        <4>1. k \in 1 .. Len(cache) /\ k # p BY <2>1, <2>3
        <4>2. o = cache[k] BY <3>1, <2>3
        <4> QED BY <4>1, <4>2
      <3>3. conv[cache[k]].chan # c BY <3>2, <2>1 DEF Unique, Distinct
      <3> QED BY <3>2, <3>3 DEF Range, InUse
    <2>6. ASSUME NEW o, o \in InUse, conv[o].chan # c PROVE o \in Range(W)
      <3>1. PICK k \in 1 .. Len(cache) : o = cache[k] BY <2>6 DEF Range, InUse
      <3>2. k # p BY <3>1, <2>1, <2>6
      <3>3. (IF k < p THEN k ELSE k - 1) \in 1 .. Len(W) BY <3>2, <2>1, <2>3
      <3>4. W[IF k < p THEN k ELSE k - 1] = cache[k] BY <3>2, <3>3, <2>1, <2>3
      <3> QED BY <3>1, <3>3, <3>4, <2>3 DEF Range
    <2>7. Distinct(W, conv) BY <2>3, <2>4 DEF Distinct
    <2> QED BY <1>2, <2>3, <2>5, <2>6, <2>7 DEF W
  <1> QED BY <1>1, <1>2

\* An object at the end of a sequence of others.
LEMMA AppendDistinct ==
  ASSUME NEW s \in Seq(Objs), NEW o \in Objs, NEW g, Distinct(s, g),
         \A x \in Range(s) : g[x].chan # g[o].chan
  PROVE  /\ Append(s, o) \in Seq(Objs) /\ Len(Append(s, o)) = Len(s) + 1
         /\ Range(Append(s, o)) = Range(s) \cup {o}
         /\ Distinct(Append(s, o), g)
  <1> DEFINE a == Append(s, o)
  <1>1. /\ a \in Seq(Objs) /\ Len(a) = Len(s) + 1
        /\ \A i \in 1 .. Len(s) : a[i] = s[i]
        /\ a[Len(s) + 1] = o
    OBVIOUS
  <1> HIDE DEF a
  <1>2. Range(a) = Range(s) \cup {o}
    <2>1. \A i \in 1 .. Len(a) : a[i] \in Range(s) \cup {o} BY <1>1 DEF Range
    <2>2. \A i \in 1 .. Len(s) : s[i] \in Range(a) BY <1>1 DEF Range
    <2>3. o \in Range(a) BY <1>1 DEF Range
    <2> QED BY <1>1, <2>1, <2>2, <2>3 DEF Range
  <1>3. ASSUME NEW i \in 1 .. Len(a), NEW j \in 1 .. Len(a), g[a[i]].chan = g[a[j]].chan
        PROVE  i = j
    <2>1. \A k \in 1 .. Len(s) : g[a[k]].chan # g[o].chan BY <1>1 DEF Range
    <2>2. CASE i \in 1 .. Len(s) /\ j \in 1 .. Len(s) BY <2>2, <1>1, <1>3 DEF Distinct
    <2>3. CASE i = Len(s) + 1 /\ j # Len(s) + 1 BY <2>3, <2>1, <1>1, <1>3
    <2>4. CASE j = Len(s) + 1 /\ i # Len(s) + 1 BY <2>4, <2>1, <1>1, <1>3
    <2> QED BY <2>2, <2>3, <2>4, <1>1
  <1> QED BY <1>1, <1>2, <1>3 DEF a, Distinct

\* Cache.Get changes the order only.
LEMMA TouchKeeps ==
  ASSUME NEW c, cache \in Seq(Objs), Unique
  PROVE  /\ Touch(c) \in Seq(Objs) /\ Len(Touch(c)) = Len(cache)
         /\ Range(Touch(c)) = InUse /\ Distinct(Touch(c), conv)
  <1>1. CASE ~InCache(c) BY <1>1 DEF Touch, Unique, InUse
  <1>2. CASE InCache(c)
    <2> DEFINE W == Without(c)
               o == Cached(c)
    <2>1. o \in Objs /\ o \in InUse /\ conv[o].chan = c
      BY <1>2, SlotFound DEF Cached, Range, InUse
    <2>2. /\ W \in Seq(Objs) /\ Len(W) = Len(cache) - 1 /\ Distinct(W, conv)
          /\ \A x : x \in Range(W) <=> x \in InUse /\ conv[x].chan # c
      BY <1>2, WithoutRest
    <2>3. Touch(c) = Append(W, o) BY <1>2 DEF Touch
    <2> HIDE DEF W, o
    <2>4. \A x \in InUse : conv[x].chan = c => x = o
      <3> SUFFICES ASSUME NEW x \in InUse, conv[x].chan = c PROVE x = o OBVIOUS
      <3>1. PICK i \in DOMAIN cache : x = cache[i] BY DEF InUse, Range
      <3>2. PICK j \in DOMAIN cache : o = cache[j] BY <2>1 DEF InUse, Range
      <3> QED BY <3>1, <3>2, <2>1 DEF Unique, Distinct
    <2>5. \A x \in Range(W) : conv[x].chan # conv[o].chan BY <2>1, <2>2
    <2>6. /\ Append(W, o) \in Seq(Objs) /\ Len(Append(W, o)) = Len(W) + 1
          /\ Range(Append(W, o)) = Range(W) \cup {o} /\ Distinct(Append(W, o), conv)
      BY <2>1, <2>2, <2>5, AppendDistinct
    <2>7. Range(W) \cup {o} = InUse BY <2>1, <2>2, <2>4
    <2> QED BY <2>2, <2>3, <2>6, <2>7
  <1> QED BY <1>1, <1>2

\* Cache.Add, when g gives the contents afterwards.
LEMMA AddedHas ==
  ASSUME NEW o \in Objs, NEW c, NEW g, cache \in Seq(Objs), Len(cache) <= CacheMax, Unique,
         g[o].chan = c, \A x \in InUse : conv[x].chan # c => g[x].chan = conv[x].chan
  PROVE  /\ Added(o, c) \in Seq(Objs) /\ Len(Added(o, c)) <= CacheMax
         /\ Distinct(Added(o, c), g)
         /\ o \in Range(Added(o, c))
         /\ \A x \in Range(Added(o, c)) : x = o \/ (x \in InUse /\ conv[x].chan # c)
         /\ InCache(c) \/ Len(cache) < CacheMax =>
              \A x \in InUse : conv[x].chan # c => x \in Range(Added(o, c))
  <1> DEFINE W == Without(c)
             s == Append(W, o)
  <1>1. /\ W \in Seq(Objs) /\ Len(W) = (IF InCache(c) THEN Len(cache) - 1 ELSE Len(cache))
        /\ \A x : x \in Range(W) <=> x \in InUse /\ conv[x].chan # c
        /\ Distinct(W, conv)
    BY WithoutRest
  <1>2. Added(o, c) = IF Len(s) > CacheMax THEN Tail(s) ELSE s BY DEF Added
  <1> HIDE DEF W
  <1>3. Distinct(W, g)
    <2>1. \A i \in DOMAIN W : g[W[i]].chan = conv[W[i]].chan BY <1>1 DEF Range
    <2> QED BY <2>1, <1>1 DEF Distinct
  <1>4. \A x \in Range(W) : g[x].chan # g[o].chan BY <1>1
  <1>5. /\ s \in Seq(Objs) /\ Len(s) = Len(W) + 1 /\ Range(s) = Range(W) \cup {o} /\ Distinct(s, g)
    BY <1>1, <1>3, <1>4, AppendDistinct
  <1>6. s[Len(s)] = o BY <1>1
  <1> HIDE DEF s
  <1>0. CacheMax \in Nat \ {0} BY ConversationAssumption DEF ConversationAssumption
  <1>7. CASE Len(s) > CacheMax
    <2>1. Added(o, c) = Tail(s) BY <1>2, <1>7
    <2>2. /\ Tail(s) \in Seq(Objs) /\ Len(Tail(s)) = Len(s) - 1
          /\ \A i \in 1 .. Len(s) - 1 : Tail(s)[i] = s[i + 1]
      BY <1>5, <1>7, <1>0
    <2>3. Len(s) <= CacheMax + 1 BY <1>0, <1>1, <1>5
    <2>4. Distinct(Tail(s), g)
      <3> SUFFICES ASSUME NEW i \in 1 .. Len(s) - 1, NEW j \in 1 .. Len(s) - 1,
                          g[Tail(s)[i]].chan = g[Tail(s)[j]].chan
                   PROVE  i = j
        BY <2>2, <1>5 DEF Distinct
      <3>1. /\ i + 1 \in DOMAIN s /\ j + 1 \in DOMAIN s
            /\ g[s[i + 1]].chan = g[s[j + 1]].chan
        BY <2>2, <1>5
      <3>2. i + 1 = j + 1 BY <3>1, <1>5 DEF Distinct
      <3> QED BY <3>2
    <2>5. o \in Range(Tail(s))
      <3>1. Tail(s)[Len(s) - 1] = o BY <2>2, <1>5, <1>6, <1>7, <1>0
      <3>2. Len(s) - 1 \in DOMAIN Tail(s) BY <2>2, <1>5, <1>7, <1>0
      <3> QED BY <3>1, <3>2 DEF Range
    <2>6. Range(Tail(s)) \subseteq Range(s)
      <3> SUFFICES ASSUME NEW i \in 1 .. Len(s) - 1 PROVE Tail(s)[i] \in Range(s)
        BY <2>2 DEF Range
      <3> QED BY <2>2, <1>5 DEF Range
    <2>7. ~(InCache(c) \/ Len(cache) < CacheMax) BY <1>0, <1>1, <1>5, <1>7
    <2> QED BY <2>1, <2>2, <2>3, <2>4, <2>5, <2>6, <2>7, <1>1, <1>5, <1>0
  <1>8. CASE ~(Len(s) > CacheMax)
    <2>1. Added(o, c) = s BY <1>2, <1>8
    <2> QED BY <2>1, <1>1, <1>5, <1>8, <1>0
  <1> QED BY <1>7, <1>8

-----------------------------------------------------------------------------
\* What the proofs need of the constants.
LEMMA Constants ==
  /\ Dotted \subseteq Chans /\ MaxSeq \in Nat /\ Unreads \subseteq Nat
  /\ Objs \subseteq Nat \ {0} /\ CacheMax \in Nat \ {0} /\ SyncOnce \in Nat \ {0}
  BY ConversationAssumption DEF ConversationAssumption

\* Contents, in terms of the cached objects.
LEMMA ContentsUse ==
  /\ Contents = { conv[o] : o \in InUse }
  /\ Contents' = { conv'[o] : o \in InUse' }
  BY DEF Contents, InUse, Range

\* The number an object shows is a number of a message, or 0.
LEMMA ConvLast ==
  ASSUME Types
  PROVE  \A o \in Objs : conv[o].last \in Nat /\ conv[o].last >= conv[o].last
  BY Constants DEF Types, StoreType

\* The elements of a sequence over S are in S.
LEMMA RangeIn ==
  ASSUME NEW S, NEW s \in Seq(S)
  PROVE  Range(s) \subseteq S
  BY DEF Range

\* An empty sequence has no elements.
LEMMA RangeEmpty ==
  ASSUME NEW S, NEW s \in Seq(S)
  PROVE  s = <<>> <=> Range(s) = {}
  BY DEF Range

\* The elements of a list are its head and those of its tail.
LEMMA RangeHead ==
  ASSUME NEW S, NEW s \in Seq(S), s # <<>>
  PROVE  /\ Head(s) \in S /\ Tail(s) \in Seq(S)
         /\ Range(s) = Range(Tail(s)) \cup {Head(s)}
         /\ Len(s) = 1 <=> Tail(s) = <<>>
  <1>1. /\ Head(s) \in S /\ Head(s) = s[1] /\ Tail(s) \in Seq(S) /\ Len(Tail(s)) = Len(s) - 1
        /\ Len(s) \in Nat /\ Len(s) # 0
        /\ \A i \in 1 .. Len(s) - 1 : Tail(s)[i] = s[i + 1]
    OBVIOUS
  <1> DEFINE t == Tail(s)
  <1> HIDE DEF t
  <1>2. \A i \in 1 .. Len(s) : s[i] \in Range(t) \cup {Head(s)}
    <2> SUFFICES ASSUME NEW i \in 1 .. Len(s), i # 1 PROVE s[i] \in Range(t) BY <1>1
    <2>1. i - 1 \in DOMAIN t /\ t[i - 1] = s[i] BY <1>1 DEF t
    <2> QED BY <2>1 DEF Range
  <1>3. \A i \in DOMAIN t : t[i] \in Range(s) BY <1>1 DEF t, Range
  <1>4. Head(s) \in Range(s) BY <1>1 DEF Range
  <1>5. Range(s) = Range(t) \cup {Head(s)} BY <1>2, <1>3, <1>4 DEF Range
  <1>6. Len(s) = 1 <=> t = <<>> BY <1>1 DEF t
  <1> QED BY <1>1, <1>5, <1>6 DEF t

\* A channel is cached when a cached object is for it.
LEMMA InCacheUse ==
  ASSUME NEW c
  PROVE  InCache(c) <=> \E o \in InUse : conv[o].chan = c
  BY DEF InCache, InUse, Range

\* The object found for a cached channel is in the cache and for that channel.
LEMMA CachedIn ==
  ASSUME NEW c, Types, InCache(c)
  PROVE  /\ Cached(c) \in Objs /\ Cached(c) \in InUse /\ conv[Cached(c)].chan = c
         /\ Unique => \A o \in InUse : conv[o].chan = c => o = Cached(c)
  <1>1. SlotOf(c) \in DOMAIN cache /\ conv[cache[SlotOf(c)]].chan = c BY SlotFound
  <1>2. Cached(c) \in Objs /\ Cached(c) \in InUse /\ conv[Cached(c)].chan = c
    BY <1>1 DEF Cached, InUse, Range, Types, StoreType
  <1>3. ASSUME Unique, NEW o \in InUse, conv[o].chan = c PROVE o = Cached(c)
    <2>1. PICK i \in DOMAIN cache : o = cache[i] BY DEF InUse, Range
    <2>2. i = SlotOf(c) BY <1>1, <1>3, <2>1 DEF Unique, Distinct
    <2> QED BY <2>1, <2>2 DEF Cached
  <1> QED BY <1>2, <1>3

\* The objects that a goroutine or the cache refers to.
Used == InUse \cup UNION { Range(snap[f].objs) : f \in Flushers }

\* Steps that keep what the cached conversations are for and make them no older.
LEMMA ShapeKept ==
  ASSUME Types, Shape, HeldFits', InUse' = InUse, Distinct(cache', conv'),
         \A o \in Used : conv'[o].chan = conv[o].chan /\ conv'[o].last >= conv[o].last,
         UNCHANGED <<seen, raced>>,
         \A f \in Flushers : Range(snap'[f].objs) \subseteq Range(snap[f].objs) \cup InUse,
         conv' \in [Objs -> [chan : Chans \cup {0}, unread : Nat, last : 0 .. MaxSeq]]
  PROVE  Shape'
  <1>1. Known'
    <2>1. \A o \in InUse' : conv'[o].chan \in Chans BY DEF Shape, Known, Used
    <2>2. ASSUME NEW f \in Flushers, NEW o \in Range(snap'[f].objs)
          PROVE  conv'[o].chan \in Chans
      <3>1. o \in Range(snap[f].objs) \/ o \in InUse BY <2>2
      <3> QED BY <3>1 DEF Shape, Known, Used
    <2> QED BY <2>1, <2>2 DEF Known
  <1>2. Unique' BY DEF Unique
  <1>3. Unseen'
    <2> SUFFICES ASSUME NEW c \in Chans, ~InCache(c)' PROVE seen[c] = 0 BY DEF Unseen
    <2>1. \A o \in InUse' : conv'[o].chan # c BY DEF InCache, InUse, Range
    <2>2. ~InCache(c) BY <2>1, InCacheUse DEF Used
    <2> QED BY <2>2 DEF Shape, Unseen
  <1>4. Shows'
    <2> SUFFICES ASSUME ~raced, NEW o \in InUse PROVE conv'[o].last >= seen[conv'[o].chan]
      BY DEF Shows
    <2>1. conv[o].last >= seen[conv[o].chan] BY DEF Shape, Shows
    <2>2. o \in Objs BY RangeIn DEF InUse, Types, StoreType
    <2>3. conv'[o].chan = conv[o].chan /\ conv'[o].last >= conv[o].last BY DEF Used
    <2>4. conv'[o].last \in Nat /\ conv[o].last \in Nat BY <2>2, Constants DEF Types, StoreType
    <2>5. seen[conv[o].chan] \in Nat
      BY <2>2, Constants DEF Types, StoreType, Shape, Known
    <2> QED BY <2>1, <2>3, <2>4, <2>5, Constants
  <1> QED BY <1>1, <1>2, <1>3, <1>4 DEF Shape

\* Steps of others leave what calcLoop holds.
LEMMA HeldKept ==
  ASSUME Types, HeldFits, UNCHANGED calc, raced => raced',
         calc.pc \in Holding =>
            /\ conv'[calc.obj].chan = conv[calc.obj].chan
            /\ conv'[calc.obj].last = conv[calc.obj].last
            /\ seen'[calc.msg.chan] = seen[calc.msg.chan] \/ seen'[calc.msg.chan] = 0
  PROVE  HeldFits'
  <1> SUFFICES ASSUME calc.pc \in Holding
               PROVE  /\ conv'[calc.obj].chan = calc.msg.chan
                      /\ ~raced' => conv'[calc.obj].last >= seen'[calc.msg.chan]
                      /\ calc.pc # "bump" => conv'[calc.obj].last >= calc.msg.seq
    BY DEF HeldFits
  <1>1. calc.obj \in Objs BY DEF Types, CalcType
  <1>2. \A o \in Objs : conv[o].last \in Nat BY ConvLast
  <1> QED BY <1>1, <1>2 DEF HeldFits

\* A server that stops promises no more saving.
LEMMA SavingStopped ==
  ASSUME stop' # "run", BumpCached' PROVE Saving'
  BY DEF Saving, FlushListed, AddCached, Undisturbed, Complete, Written, Filling, SaveCovers

\* Nothing that the saving depends on changes.
LEMMA SavingKept ==
  ASSUME Types, Saving, InUse' = InUse, Contents' = Contents, Types',
         UNCHANGED <<calc, api, store, needSave, missed, raced, stop, saver>>,
         saver = "write" => Range(snap'["saver"].objs) = Range(snap["saver"].objs)
  PROVE  Saving'
  <1>1. cache' = <<>> <=> cache = <<>>
    BY RangeEmpty DEF InUse, Types, StoreType
  <1>2. Saved' = Saved BY DEF Saved
  <1>3. FlushListed' BY DEF Saving, FlushListed
  <1>4. BumpCached' BY DEF Saving, BumpCached
  <1>5. AddCached' BY DEF Saving, AddCached
  <1>6. Complete' BY DEF Saving, Complete, Undisturbed
  <1>7. Written' BY <1>2 DEF Saving, Written, Undisturbed, Announcing
  <1>8. Filling' BY <1>2 DEF Saving, Filling, Undisturbed, Announcing, Loading
  <1>9. SaveCovers' BY <1>1, <1>2 DEF Saving, SaveCovers
  <1> QED BY <1>3, <1>4, <1>5, <1>6, <1>7, <1>8, <1>9 DEF Saving

-----------------------------------------------------------------------------
(* Steps that leave cache and conversations alone. *)

Same == UNCHANGED <<conv, cache, seen, raced>>

\* Shape holds on after a step that leaves cache and objects alone.
LEMMA ShapeSame ==
  ASSUME Types, Shape, Same, HeldFits',
         \A f \in Flushers : Range(snap'[f].objs) \subseteq Range(snap[f].objs)
  PROVE  Shape'
  <1>1. InUse' = InUse BY DEF Same, InUse
  <1>2. Distinct(cache', conv') BY DEF Same, Shape, Unique
  <1>3. \A o \in Objs : conv[o].last >= conv[o].last BY ConvLast
  <1>4. Used \subseteq Objs BY RangeIn DEF Used, InUse, Types, StoreType, SaverType
  <1> QED BY <1>1, <1>2, <1>3, <1>4, ShapeKept DEF Same, Types, StoreType

\* So does HeldFits, if calcLoop is left alone,
LEMMA HeldSame ==
  ASSUME Types, HeldFits, Same, UNCHANGED calc PROVE HeldFits'
  BY HeldKept DEF Same

\* and so does Saving, if the loops are left alone too.
LEMMA SavingSame ==
  ASSUME Types, Saving, Same, Types',
         UNCHANGED <<calc, api, store, needSave, missed, stop, saver, snap>>
  PROVE  Saving'
  <1>1. InUse' = InUse /\ Contents' = Contents BY DEF Same, InUse, Contents
  <1> QED BY <1>1, SavingKept DEF Same

\* One lemma per action: PushMessage and the start of calcLoop's turn.
LEMMA PushStep ==
  ASSUME ConvInv, NEW c \in Chans, NEW n \in 1 .. MaxSeq, PushMessage(c, n)
  PROVE  ConvInv'
  <1> USE DEF PushMessage
  <1>1. Types'
    <2>1. [chan |-> c, seq |-> n, dot |-> c \in Dotted] \in Message BY DEF Message
    <2>2. queue' \in Seq(Message) BY <2>1 DEF ConvInv, Types, StoreType
    <2> QED BY <2>2 DEF ConvInv, Types, StoreType, SaverType, CalcType, ApiType
  <1>2. Shape' BY HeldSame, ShapeSame DEF ConvInv, Same, Shape
  <1>3. Saving' BY <1>1, SavingSame DEF ConvInv, Same
  <1> QED BY <1>1, <1>2, <1>3 DEF ConvInv

LEMMA CalcReadFailsStep ==
  ASSUME ConvInv, CalcReadFails
  PROVE  ConvInv'
  <1> USE DEF CalcReadFails
  <1>1. Types'
    <2>1. queue' \in Seq(Message) BY RangeHead DEF ConvInv, Types, StoreType
    <2> QED BY <2>1 DEF ConvInv, Types, StoreType, SaverType, CalcType, ApiType
  <1>2. Shape' BY HeldSame, ShapeSame DEF ConvInv, Same, Shape
  <1>3. Saving' BY <1>1, SavingSame DEF ConvInv, Same
  <1> QED BY <1>1, <1>2, <1>3 DEF ConvInv

LEMMA CalcPopStep ==
  ASSUME ConvInv, CalcPop
  PROVE  ConvInv'
  <1> USE DEF CalcPop
  <1>0. Types /\ Shape /\ Saving BY DEF ConvInv
  <1>1. Types'
    <2>1. queue' \in Seq(Message) /\ Head(queue) \in Message
      BY <1>0, RangeHead DEF Types, StoreType
    <2>2. CalcType'
      <3>1. calc.fill = <<>> BY <1>0 DEF Types, CalcType
      <3>2. CASE cache = <<>> /\ store # <<>>
        BY <1>0, <2>1, <3>2 DEF Types, StoreType, CalcType, Holding
      <3>3. CASE ~(cache = <<>> /\ store # <<>>)
        BY <1>0, <2>1, <3>1, <3>3 DEF Types, StoreType, CalcType, Holding
      <3> QED BY <3>2, <3>3
    <2> QED BY <1>0, <2>1, <2>2 DEF Types, StoreType, SaverType, ApiType
  <1>2. calc'.pc \in {"fill", "get"} BY <1>0 DEF Types, CalcType
  <1>3. HeldFits' BY <1>2 DEF HeldFits, Holding
  <1>4. Shape' BY <1>0, <1>3, ShapeSame DEF Same
  <1>5. Saving'
    <2>1. InUse' = InUse /\ Contents' = Contents /\ Saved' = Saved BY DEF InUse, Contents, Saved
    <2>2. FlushListed' BY <1>0 DEF Saving, FlushListed
    <2>3. BumpCached' /\ AddCached' BY <1>2 DEF BumpCached, AddCached
    <2>4. Complete' BY <1>0, <2>1 DEF Saving, Complete, Undisturbed
    <2>5. Written' BY <1>0, <2>1 DEF Saving, Written, Undisturbed, Announcing
    <2>6. Filling'
      <3>1. CASE cache = <<>> /\ store # <<>>
        <4>1. calc'.fill = store BY <1>0, <3>1 DEF Types, CalcType
        <4>2. Contents = {} BY <3>1 DEF Contents
        <4>3. Saved = Range(calc'.fill) BY <4>1 DEF Saved, Range
        <4> QED BY <2>1, <4>2, <4>3 DEF Filling
      <3>2. CASE ~(cache = <<>> /\ store # <<>>)
        <4>1. calc'.fill = calc.fill /\ calc'.pc = "get" BY <1>0, <3>2 DEF Types, CalcType
        <4> QED BY <1>0, <2>1, <4>1 DEF Saving, Filling, Undisturbed, Loading, Announcing
      <3> QED BY <3>1, <3>2
    <2>7. SaveCovers' BY <1>0, <2>1 DEF Saving, SaveCovers
    <2> QED BY <2>2, <2>3, <2>4, <2>5, <2>6, <2>7 DEF Saving
  <1> QED BY <1>1, <1>4, <1>5 DEF ConvInv

\* What setNeedSave's receiver does.
LEMMA ReceiveSets ==
  ASSUME Types, Receive
  PROVE  needSave' = TRUE /\ saver = "select" /\ saver' \in {"select", "keys"} /\ noSave' \in 0 .. SyncOnce - 1
  BY Constants DEF Receive, Types, SaverType

LEMMA CalcSaveStep ==
  ASSUME ConvInv, CalcSave
  PROVE  ConvInv'
  <1> USE DEF CalcSave
  <1>0. Types /\ Shape /\ Saving BY DEF ConvInv
  <1>1. needSave' = TRUE /\ saver' \in {"select", "keys"} /\ noSave' \in 0 .. SyncOnce - 1
    BY <1>0, ReceiveSets
  <1>2. calc'.pc = "add" /\ calc'.obj = calc.obj /\ calc'.msg = calc.msg /\ calc'.fill = calc.fill
    BY <1>0 DEF Types, CalcType
  <1>3. Types'
    <2>1. CalcType' BY <1>0 DEF Types, CalcType, Holding
    <2>2. SaverType' BY <1>0, <1>1 DEF Types, SaverType, FlushPCs
    <2> QED BY <1>0, <2>1, <2>2 DEF Types, StoreType, ApiType
  <1>4. HeldFits' BY <1>0, <1>2 DEF HeldFits, Holding, Shape
  <1>5. Shape' BY <1>0, <1>4, ShapeSame DEF Same
  <1>6. Saving'
    BY <1>1, <1>2 DEF Saving, FlushListed, BumpCached, AddCached, Complete, Written, Filling, SaveCovers
  <1> QED BY <1>3, <1>5, <1>6 DEF ConvInv

LEMMA ApiSaveStep ==
  ASSUME ConvInv, ApiSave
  PROVE  ConvInv'
  <1> USE DEF ApiSave
  <1>0. Types /\ Shape /\ Saving BY DEF ConvInv
  <1>1. needSave' = TRUE /\ saver = "select" /\ saver' \in {"select", "keys"} /\ noSave' \in 0 .. SyncOnce - 1
    BY <1>0, ReceiveSets
  <1>2. Types'
    <2>1. ApiType' BY DEF ApiType, NoApi
    <2>2. SaverType' BY <1>0, <1>1 DEF Types, SaverType, FlushPCs
    <2> QED BY <1>0, <2>1, <2>2 DEF Types, StoreType, CalcType
  <1>3. HeldFits' BY <1>0, HeldSame DEF Same, Shape
  <1>4. Shape' BY <1>0, <1>3, ShapeSame DEF Same
  <1>5. BumpCached' BY <1>0 DEF Saving, BumpCached, InUse
  <1>6. Saving'
    BY <1>1, <1>5 DEF Saving, FlushListed, AddCached, Complete, Written, Filling, SaveCovers
  <1> QED BY <1>2, <1>4, <1>6 DEF ConvInv

-----------------------------------------------------------------------------
(* The save loop. *)

\* A flush that ends or has not listed keys leaves Saving as it was.
LEMMA SavingSaver ==
  ASSUME Types, Saving, Same, UNCHANGED <<calc, api, store, needSave, missed, stop>>,
         saver' \notin {"get", "write", "clear"}
  PROVE  Saving'
  <1>1. InUse' = InUse /\ Contents' = Contents /\ Saved' = Saved
    BY DEF Same, InUse, Contents, Saved
  <1>2. FlushListed' /\ Complete' /\ Written' BY DEF FlushListed, Complete, Written
  <1>3. BumpCached' /\ AddCached' BY <1>1 DEF Saving, BumpCached, AddCached, Same
  <1>4. Filling' BY <1>1 DEF Saving, Filling, Undisturbed, Loading, Announcing, Same
  <1>5. SaveCovers' BY <1>1 DEF Saving, SaveCovers, Same
  <1> QED BY <1>2, <1>3, <1>4, <1>5 DEF Saving

\* The steps of saveloop and of its flush.
LEMMA SaverTickStep ==
  ASSUME ConvInv, SaverTick \/ SaverExit
  PROVE  ConvInv'
  <1> USE DEF SaverTick, SaverExit
  <1>1. Types' BY Constants DEF ConvInv, Types, StoreType, SaverType, CalcType, ApiType, FlushPCs
  <1>2. Shape' BY HeldSame, ShapeSame DEF ConvInv, Same, Shape
  <1>3. Saving' BY SavingSaver DEF ConvInv, Same
  <1> QED BY <1>1, <1>2, <1>3 DEF ConvInv

\* Keys are channels.
LEMMA KeysType ==
  ASSUME Types, Known PROVE Keys \in Seq(Chans)
  <1>1. \A i \in 1 .. Len(cache) : conv[cache[i]].chan \in Chans
    BY DEF Types, StoreType, Known, InUse, Range
  <1>2. DOMAIN cache = 1 .. Len(cache) /\ Len(cache) \in Nat BY DEF Types, StoreType
  <1>3. Keys = [i \in 1 .. Len(cache) |-> conv[cache[i]].chan] BY <1>2 DEF Keys
  <1> QED BY <1>1, <1>2, <1>3

\* Another list of keys, or none, for the flush f.
LEMMA SnapKeys ==
  ASSUME Types, Shape, NEW f \in Flushers, snap' = [snap EXCEPT ![f] = [@ EXCEPT !.keys = Keys]]
  PROVE  /\ snap' \in [Flushers -> [keys : Seq(Chans), objs : Seq(Objs)]]
         /\ \A h \in Flushers : snap'[h].objs = snap[h].objs
  <1>1. Keys \in Seq(Chans) BY KeysType DEF Shape
  <1> QED BY <1>1 DEF Types, SaverType

\* A flush that has ended holds no list.
LEMMA SnapNone ==
  ASSUME Types, NEW f \in Flushers, snap' = [snap EXCEPT ![f] = NoList]
  PROVE  /\ snap' \in [Flushers -> [keys : Seq(Chans), objs : Seq(Objs)]]
         /\ \A h \in Flushers : Range(snap'[h].objs) \subseteq Range(snap[h].objs)
  <1>1. NoList \in [keys : Seq(Chans), objs : Seq(Objs)] BY DEF NoList
  <1>2. Range(NoList.objs) = {} BY DEF NoList, Range
  <1>3. \A h \in Flushers : snap'[h] = snap[h] \/ snap'[h] = NoList BY DEF Types, SaverType
  <1> QED BY <1>1, <1>2, <1>3 DEF Types, SaverType

LEMMA SaverKeysStep ==
  ASSUME ConvInv, SaverKeys
  PROVE  ConvInv'
  <1> USE DEF SaverKeys
  <1>0. Types /\ Shape /\ Saving BY DEF ConvInv
  <1>1. Same BY DEF Same
  <1>2. HeldFits' BY <1>0, <1>1, HeldSame DEF Shape
  <1>3. CASE needSave
    <2>1. /\ snap' \in [Flushers -> [keys : Seq(Chans), objs : Seq(Objs)]]
          /\ \A h \in Flushers : snap'[h].objs = snap[h].objs
      BY <1>0, <1>3, SnapKeys DEF Flushers
    <2>2. Types' BY <1>0, <1>3, <2>1 DEF Types, StoreType, SaverType, CalcType, ApiType, FlushPCs
    <2>3. Shape' BY <1>0, <1>1, <1>2, <2>1, ShapeSame
    <2>4. InUse' = InUse BY DEF InUse
    <2>5. Saving'
      BY <1>0, <1>3, <2>4 DEF Saving, FlushListed, BumpCached, AddCached, Complete, Written, Filling, SaveCovers
    <2> QED BY <2>2, <2>3, <2>5 DEF ConvInv
  <1>4. CASE ~needSave
    <2>1. Types' BY <1>0, <1>4 DEF Types, StoreType, SaverType, CalcType, ApiType
    <2>2. Shape' BY <1>0, <1>1, <1>2, <1>4, ShapeSame
    <2>3. Saving' BY <1>0, <1>1, <1>4, SavingSaver
    <2> QED BY <2>1, <2>2, <2>3 DEF ConvInv
  <1> QED BY <1>3, <1>4

\* A look-up by the flush f moves one conversation in the cache and notes it.
LEMMA LookUpKeeps ==
  ASSUME Types, Shape, NEW f \in Flushers, LookUp(f), UNCHANGED conv
  PROVE  /\ snap' \in [Flushers -> [keys : Seq(Chans), objs : Seq(Objs)]]
         /\ \A h \in Flushers : Range(snap'[h].objs) \subseteq Range(snap[h].objs) \cup InUse
         /\ \A h \in Flushers \ {f} : snap'[h] = snap[h]
         /\ cache' \in Seq(Objs) /\ Len(cache') = Len(cache)
         /\ InUse' = InUse /\ Distinct(cache', conv') /\ Contents' = Contents
  <1> DEFINE c == Head(snap[f].keys)
             list == [keys |-> Tail(snap[f].keys),
                      objs |-> IF InCache(c) THEN Append(snap[f].objs, Cached(c)) ELSE snap[f].objs]
  <1>1. snap[f].keys \in Seq(Chans) /\ snap[f].keys # <<>> /\ snap[f].objs \in Seq(Objs)
    BY DEF LookUp, Types, SaverType
  <1>2. snap' = [snap EXCEPT ![f] = list] BY DEF LookUp
  <1>3. list.objs \in Seq(Objs) /\ Range(list.objs) \subseteq Range(snap[f].objs) \cup InUse
    <2>1. CASE InCache(c)
      <3>1. Cached(c) \in Objs /\ Cached(c) \in InUse BY <2>1, CachedIn
      <3> HIDE DEF c
      <3> DEFINE s == snap[f].objs
                 o == Cached(c)
      <3>2. list.objs = Append(s, o) BY <2>1
      <3> HIDE DEF s, o
      <3>3. /\ Append(s, o) \in Seq(Objs) /\ Len(Append(s, o)) = Len(s) + 1
            /\ \A i \in 1 .. Len(s) : Append(s, o)[i] = s[i]
            /\ Append(s, o)[Len(s) + 1] = o
        BY <1>1, <3>1 DEF s, o
      <3>4. \A i \in 1 .. Len(s) + 1 : Append(s, o)[i] \in Range(s) \cup {o}
        BY <1>1, <3>3 DEF s, Range
      <3> QED BY <3>1, <3>2, <3>3, <3>4 DEF Range, s, o
    <2>2. CASE ~InCache(c) BY <1>1, <2>2
    <2> QED BY <2>1, <2>2
  <1>4. list.keys \in Seq(Chans) BY <1>1
  <1>5. list \in [keys : Seq(Chans), objs : Seq(Objs)] BY <1>3, <1>4
  <1>6. cache' = Touch(c) BY DEF LookUp
  <1> HIDE DEF list, c
  <1>7. snap' \in [Flushers -> [keys : Seq(Chans), objs : Seq(Objs)]]
    BY <1>2, <1>5 DEF Types, SaverType
  <1>8. \A h \in Flushers : snap'[h] = IF h = f THEN list ELSE snap[h]
    BY <1>2 DEF Types, SaverType
  <1>9. /\ cache' \in Seq(Objs) /\ Len(cache') = Len(cache)
        /\ Range(cache') = InUse /\ Distinct(cache', conv')
    BY <1>6, TouchKeeps DEF Shape, Types, StoreType
  <1>10. InUse' = InUse BY <1>9 DEF InUse
  <1>11. Contents' = Contents BY <1>10, ContentsUse
  <1> QED BY <1>3, <1>7, <1>8, <1>9, <1>10, <1>11

\* A step that only moves conversations in the cache.
LEMMA ShapeMoved ==
  ASSUME Types, Shape, HeldFits', UNCHANGED <<conv, seen, raced>>, InUse' = InUse, Distinct(cache', conv'),
         \A f \in Flushers : Range(snap'[f].objs) \subseteq Range(snap[f].objs) \cup InUse
  PROVE  Shape'
  <1>1. \A o \in Objs : conv[o].last >= conv[o].last BY ConvLast
  <1>2. Used \subseteq Objs BY RangeIn DEF Used, InUse, Types, StoreType, SaverType
  <1> QED BY <1>1, <1>2, ShapeKept DEF Types, StoreType

LEMMA SaverGetStep ==
  ASSUME ConvInv, SaverGet
  PROVE  ConvInv'
  <1> USE DEF SaverGet
  <1>0. Types /\ Shape /\ Saving BY DEF ConvInv
  <1>1. /\ snap' \in [Flushers -> [keys : Seq(Chans), objs : Seq(Objs)]]
        /\ \A h \in Flushers : Range(snap'[h].objs) \subseteq Range(snap[h].objs) \cup InUse
        /\ cache' \in Seq(Objs) /\ Len(cache') = Len(cache)
        /\ InUse' = InUse /\ Distinct(cache', conv') /\ Contents' = Contents
    BY <1>0, LookUpKeeps DEF Flushers
  <1>2. Types' BY <1>0, <1>1 DEF Types, StoreType, SaverType, CalcType, ApiType
  <1>3. HeldFits' BY <1>0, HeldKept DEF Shape
  <1>4. Shape' BY <1>0, <1>1, <1>3, ShapeMoved
  <1>5. Saving' BY <1>0, <1>1, <1>2, SavingKept
  <1> QED BY <1>2, <1>4, <1>5 DEF ConvInv

LEMMA SaverCollectedStep ==
  ASSUME ConvInv, SaverCollected
  PROVE  ConvInv'
  <1> USE DEF SaverCollected
  <1>0. Types /\ Shape /\ Saving BY DEF ConvInv
  <1>1. Types' BY <1>0 DEF Types, StoreType, SaverType, CalcType, ApiType, FlushPCs, Collected
  <1>2. Same BY DEF Same
  <1>3. Shape' BY <1>0, <1>2, HeldSame, ShapeSame DEF Shape
  <1>4. InUse' = InUse BY DEF InUse
  <1>5. stop = "run" => needSave' BY <1>0 DEF Saving, FlushListed
  <1>6. ~missed' => /\ Range(snap["saver"].objs) = InUse
                    /\ calc.pc = "add" => Contains(snap["saver"].objs, calc.obj)
    BY DEF Collected, InUse
  <1>7. AddCached'
    <2> SUFFICES ASSUME ~missed', calc.pc = "add" PROVE calc.obj \in InUse
      BY <1>4 DEF AddCached
    <2>1. Contains(snap["saver"].objs, calc.obj) BY <1>6
    <2>2. snap["saver"].objs \in Seq(Objs) BY <1>0 DEF Types, SaverType, Flushers
    <2>3. calc.obj \in Range(snap["saver"].objs) BY <2>1, <2>2 DEF Contains, Range
    <2> QED BY <1>6, <2>3
  <1>8. Saving'
    BY <1>0, <1>4, <1>5, <1>6, <1>7
       DEF Saving, FlushListed, BumpCached, Complete, Written, Filling, SaveCovers, Undisturbed
  <1> QED BY <1>1, <1>3, <1>8 DEF ConvInv

\* The flush f writes conversations of channels.
LEMMA WriteType ==
  ASSUME Types, Shape, NEW f \in Flushers, WriteTo(f)
  PROVE  store' \in Seq(ConvRecord) /\ Saved' = { conv[o] : o \in Range(snap[f].objs) }
  <1> DEFINE s == snap[f].objs
  <1>1. s \in Seq(Objs) BY DEF Types, SaverType
  <1>2. \A i \in 1 .. Len(s) : s[i] \in Objs /\ conv[s[i]].chan \in Chans
    BY <1>1 DEF Shape, Known, Range
  <1>3. \A i \in 1 .. Len(s) : conv[s[i]] \in ConvRecord
    BY <1>2 DEF Types, StoreType, ConvRecord
  <1>4. store' = [i \in 1 .. Len(s) |-> conv[s[i]]] BY <1>1 DEF WriteTo
  <1>5. store' \in Seq(ConvRecord) BY <1>1, <1>3, <1>4
  <1>6. DOMAIN store' = DOMAIN s /\ \A i \in DOMAIN s : store'[i] = conv[s[i]] BY <1>1, <1>4
  <1> HIDE DEF s
  <1>7. Saved' = { conv[s[i]] : i \in DOMAIN s } BY <1>6 DEF Saved
  <1>8. Saved' = { conv[o] : o \in Range(s) } BY <1>7 DEF Range
  <1> QED BY <1>5, <1>8 DEF s

LEMMA SaverWriteStep ==
  ASSUME ConvInv, SaverWrite
  PROVE  ConvInv'
  <1> USE DEF SaverWrite
  <1>0. Types /\ Shape /\ Saving BY DEF ConvInv
  <1>1. store' \in Seq(ConvRecord) /\ Saved' = { conv[o] : o \in Range(snap["saver"].objs) }
    BY <1>0, WriteType DEF Flushers
  <1>2. Types' BY <1>0, <1>1 DEF Types, StoreType, SaverType, CalcType, ApiType, FlushPCs
  <1>3. Same BY DEF Same
  <1>4. Shape' BY <1>0, <1>3, HeldSame, ShapeSame DEF Shape
  <1>5. InUse' = InUse /\ Contents' = { conv[o] : o \in InUse }
    BY ContentsUse DEF InUse
  <1>6. stop = "run" => needSave' BY <1>0 DEF Saving, FlushListed
  <1>7. Written' BY <1>0, <1>1, <1>5 DEF Saving, Complete, Written, Undisturbed
  <1>8. AddCached' BY <1>0, <1>5 DEF Saving, AddCached
  <1>9. Saving'
    BY <1>0, <1>5, <1>6, <1>7, <1>8 DEF Saving, FlushListed, BumpCached, Complete, Filling, SaveCovers, Undisturbed
  <1> QED BY <1>2, <1>4, <1>9 DEF ConvInv

LEMMA SaverWriteFailsStep ==
  ASSUME ConvInv, SaverWriteFails
  PROVE  ConvInv'
  <1> USE DEF SaverWriteFails
  <1>0. Types /\ Shape /\ Saving BY DEF ConvInv
  <1>1. /\ snap' \in [Flushers -> [keys : Seq(Chans), objs : Seq(Objs)]]
        /\ \A h \in Flushers : Range(snap'[h].objs) \subseteq Range(snap[h].objs)
    BY <1>0, SnapNone DEF Flushers
  <1>2. Types'
    <2>1. StoreType' BY <1>0 DEF Types, StoreType
    <2>2. SaverType' BY <1>0, <1>1 DEF Types, SaverType
    <2>3. CalcType' /\ ApiType' BY <1>0 DEF Types, CalcType, ApiType
    <2> QED BY <2>1, <2>2, <2>3 DEF Types
  <1>3. Same BY DEF Same
  <1>4. Shape' BY <1>0, <1>1, <1>3, HeldSame, ShapeSame DEF Shape
  <1>5. Saving' BY <1>0, <1>3, SavingSaver
  <1> QED BY <1>2, <1>4, <1>5 DEF ConvInv

LEMMA SaverClearStep ==
  ASSUME ConvInv, SaverClear
  PROVE  ConvInv'
  <1> USE DEF SaverClear
  <1>0. Types /\ Shape /\ Saving BY DEF ConvInv
  <1>1. /\ snap' \in [Flushers -> [keys : Seq(Chans), objs : Seq(Objs)]]
        /\ \A h \in Flushers : Range(snap'[h].objs) \subseteq Range(snap[h].objs)
    BY <1>0, SnapNone DEF Flushers
  <1>2. Types'
    <2>1. StoreType' BY <1>0 DEF Types, StoreType
    <2>2. SaverType' BY <1>0, <1>1 DEF Types, SaverType
    <2>3. CalcType' /\ ApiType' BY <1>0 DEF Types, CalcType, ApiType
    <2> QED BY <2>1, <2>2, <2>3 DEF Types
  <1>3. Same BY DEF Same
  <1>4. Shape' BY <1>0, <1>1, <1>3, HeldSame, ShapeSame DEF Shape
  <1>5. InUse' = InUse /\ Contents' = Contents /\ Saved' = Saved BY DEF InUse, Contents, Saved
  <1>6. Undisturbed' => Contents' = Saved' \/ Announcing'
    BY <1>0, <1>5 DEF Saving, Written, Undisturbed, Announcing
  <1>7. FlushListed' /\ Complete' /\ Written' BY DEF FlushListed, Complete, Written
  <1>8. BumpCached' /\ AddCached' BY <1>0, <1>5 DEF Saving, BumpCached, AddCached
  <1>9. Filling' BY <1>6 DEF Filling
  <1>10. SaveCovers' BY <1>6 DEF SaveCovers, Undisturbed, Announcing
  <1> QED BY <1>2, <1>4, <1>7, <1>8, <1>9, <1>10 DEF ConvInv, Saving

-----------------------------------------------------------------------------
(* Stop. *)

\* What calcLoop changes in place stays in the cache.
LEMMA BumpSame ==
  ASSUME Saving, Same, UNCHANGED calc PROVE BumpCached'
  BY DEF Saving, BumpCached, Same, InUse

\* The steps of Stop, after which Saving has little left to say.
LEMMA StopBegins ==
  ASSUME ConvInv, ConversationStop \/ StopWaited
  PROVE  ConvInv'
  <1> USE DEF ConversationStop, StopWaited
  <1>0. Types /\ Shape /\ Saving BY DEF ConvInv
  <1>1. Types' BY <1>0 DEF Types, StoreType, SaverType, CalcType, ApiType, FlushPCs
  <1>2. Same BY DEF Same
  <1>3. Shape' BY <1>0, <1>2, HeldSame, ShapeSame DEF Shape
  <1>4. stop' # "run" OBVIOUS
  <1>5. Saving' BY <1>0, <1>2, <1>4, BumpSame, SavingStopped
  <1> QED BY <1>1, <1>3, <1>5 DEF ConvInv

LEMMA StopKeysStep ==
  ASSUME ConvInv, StopKeys
  PROVE  ConvInv'
  <1> USE DEF StopKeys
  <1>0. Types /\ Shape /\ Saving BY DEF ConvInv
  <1>1. Same BY DEF Same
  <1>2. HeldFits' BY <1>0, <1>1, HeldSame DEF Shape
  <1>3. stop' \in {"get", "done"} OBVIOUS
  <1>4. Saving' BY <1>0, <1>1, <1>3, BumpSame, SavingStopped
  <1>5. CASE needSave
    <2>1. /\ snap' \in [Flushers -> [keys : Seq(Chans), objs : Seq(Objs)]]
          /\ \A h \in Flushers : snap'[h].objs = snap[h].objs
      BY <1>0, <1>5, SnapKeys DEF Flushers
    <2>2. Types' BY <1>0, <1>3, <2>1 DEF Types, StoreType, SaverType, CalcType, ApiType, FlushPCs
    <2>3. Shape' BY <1>0, <1>1, <1>2, <2>1, ShapeSame
    <2> QED BY <1>4, <2>2, <2>3 DEF ConvInv
  <1>6. CASE ~needSave
    <2>1. Types' BY <1>0, <1>6 DEF Types, StoreType, SaverType, CalcType, ApiType
    <2>2. Shape' BY <1>0, <1>1, <1>2, <1>6, ShapeSame
    <2> QED BY <1>4, <2>1, <2>2 DEF ConvInv
  <1> QED BY <1>5, <1>6

LEMMA StopGetStep ==
  ASSUME ConvInv, StopGet
  PROVE  ConvInv'
  <1> USE DEF StopGet
  <1>0. Types /\ Shape /\ Saving BY DEF ConvInv
  <1>1. /\ snap' \in [Flushers -> [keys : Seq(Chans), objs : Seq(Objs)]]
        /\ \A h \in Flushers : Range(snap'[h].objs) \subseteq Range(snap[h].objs) \cup InUse
        /\ cache' \in Seq(Objs) /\ Len(cache') = Len(cache)
        /\ InUse' = InUse /\ Distinct(cache', conv')
    BY <1>0, LookUpKeeps DEF Flushers
  <1>2. Types' BY <1>0, <1>1 DEF Types, StoreType, SaverType, CalcType, ApiType
  <1>3. HeldFits' BY <1>0, HeldKept DEF Shape
  <1>4. Shape' BY <1>0, <1>1, <1>3, ShapeMoved
  <1>5. BumpCached' BY <1>0, <1>1 DEF Saving, BumpCached
  <1>6. stop' # "run" OBVIOUS
  <1>7. Saving' BY <1>5, <1>6, SavingStopped
  <1> QED BY <1>2, <1>4, <1>7 DEF ConvInv

LEMMA StopCollectedStep ==
  ASSUME ConvInv, StopCollected
  PROVE  ConvInv'
  <1> USE DEF StopCollected
  <1>0. Types /\ Shape /\ Saving BY DEF ConvInv
  <1>1. Types' BY <1>0 DEF Types, StoreType, SaverType, CalcType, ApiType, FlushPCs, Collected
  <1>2. Same BY DEF Same
  <1>3. Shape' BY <1>0, <1>2, HeldSame, ShapeSame DEF Shape
  <1>4. stop' # "run" OBVIOUS
  <1>5. Saving' BY <1>0, <1>2, <1>4, BumpSame, SavingStopped
  <1> QED BY <1>1, <1>3, <1>5 DEF ConvInv

LEMMA StopWriteStep ==
  ASSUME ConvInv, StopWrite
  PROVE  ConvInv'
  <1> USE DEF StopWrite
  <1>0. Types /\ Shape /\ Saving BY DEF ConvInv
  <1>1. store' \in Seq(ConvRecord) BY <1>0, WriteType DEF Flushers
  <1>2. Types' BY <1>0, <1>1 DEF Types, StoreType, SaverType, CalcType, ApiType, FlushPCs
  <1>3. Same BY DEF Same
  <1>4. Shape' BY <1>0, <1>3, HeldSame, ShapeSame DEF Shape
  <1>5. stop' # "run" OBVIOUS
  <1>6. Saving' BY <1>0, <1>3, <1>5, BumpSame, SavingStopped
  <1> QED BY <1>2, <1>4, <1>6 DEF ConvInv

LEMMA StopEnds ==
  ASSUME ConvInv, StopWriteFails \/ StopClear
  PROVE  ConvInv'
  <1> USE DEF StopWriteFails, StopClear
  <1>0. Types /\ Shape /\ Saving BY DEF ConvInv
  <1>1. /\ snap' \in [Flushers -> [keys : Seq(Chans), objs : Seq(Objs)]]
        /\ \A h \in Flushers : Range(snap'[h].objs) \subseteq Range(snap[h].objs)
    BY <1>0, SnapNone DEF Flushers
  <1>2. Types'
    <2>1. StoreType' BY <1>0 DEF Types, StoreType
    <2>2. SaverType' BY <1>0, <1>1 DEF Types, SaverType
    <2>3. CalcType' /\ ApiType' BY <1>0 DEF Types, CalcType, ApiType
    <2> QED BY <2>1, <2>2, <2>3 DEF Types
  <1>3. Same BY DEF Same
  <1>4. Shape' BY <1>0, <1>1, <1>3, HeldSame, ShapeSame DEF Shape
  <1>5. stop' # "run" OBVIOUS
  <1>6. Saving' BY <1>0, <1>3, <1>5, BumpSame, SavingStopped
  <1> QED BY <1>2, <1>4, <1>6 DEF ConvInv

-----------------------------------------------------------------------------
(* API calls. *)

\* API calls.
LEMMA GetConversationsStep ==
  ASSUME ConvInv, GetConversations
  PROVE  ConvInv'
  <1> USE DEF GetConversations
  <1>0. Types /\ Shape /\ Saving BY DEF ConvInv
  <1>1. api'.pc = "fill" /\ api'.fill = store BY <1>0 DEF Types, ApiType
  <1>2. Types'
    <2>1. ApiType' BY <1>0 DEF Types, ApiType, StoreType
    <2> QED BY <1>0, <2>1 DEF Types, StoreType, SaverType, CalcType
  <1>3. Same BY DEF Same
  <1>4. Shape' BY <1>0, <1>3, HeldSame, ShapeSame DEF Shape
  <1>5. InUse' = InUse /\ Contents' = Contents /\ Saved' = Saved BY DEF InUse, Contents, Saved
  <1>6. FlushListed' /\ BumpCached' /\ AddCached' /\ Complete'
    BY <1>0, <1>5 DEF Saving, FlushListed, BumpCached, AddCached, Complete, Undisturbed
  <1>7. Written' BY <1>0, <1>5 DEF Saving, Written, Undisturbed, Announcing
  <1>8. Filling'
    <2>1. Contents = {} BY DEF Contents
    <2>2. Saved = Range(api'.fill) BY <1>1 DEF Saved, Range
    <2> QED BY <1>5, <2>1, <2>2 DEF Filling
  <1>9. SaveCovers' BY DEF SaveCovers
  <1> QED BY <1>2, <1>4, <1>6, <1>7, <1>8, <1>9 DEF ConvInv, Saving

LEMMA SetUnreadStep ==
  ASSUME ConvInv, NEW c \in Chans, NEW unread \in Unreads, SetConversationUnread(c, unread)
  PROVE  ConvInv'
  <1> USE DEF SetConversationUnread
  <1>0. Types /\ Shape /\ Saving BY DEF ConvInv
  <1>1. Cached(c) \in Objs BY <1>0, CachedIn
  <1>2. /\ conv' \in [Objs -> [chan : Chans \cup {0}, unread : Nat, last : 0 .. MaxSeq]]
        /\ \A o \in Objs : conv'[o].chan = conv[o].chan /\ conv'[o].last = conv[o].last
    BY <1>0, <1>1, Constants DEF Types, StoreType
  <1>3. /\ cache' \in Seq(Objs) /\ Len(cache') = Len(cache)
        /\ Range(cache') = InUse /\ Distinct(cache', conv)
    BY <1>0, TouchKeeps DEF Types, StoreType, Shape
  <1>4. InUse' = InUse BY <1>3 DEF InUse
  <1>5. Types'
    <2>1. StoreType' BY <1>0, <1>2, <1>3 DEF Types, StoreType
    <2>2. ApiType' BY <1>0 DEF Types, ApiType
    <2> QED BY <1>0, <2>1, <2>2 DEF Types, SaverType, CalcType
  <1>6. Distinct(cache', conv')
    <2>1. \A i \in DOMAIN cache' : cache'[i] \in Objs BY <1>3
    <2> QED BY <1>2, <1>3, <2>1 DEF Distinct
  <1>7. HeldFits' BY <1>0, <1>2, HeldKept DEF Shape, Types, CalcType
  <1>8. Used \subseteq Objs BY <1>0, RangeIn DEF Used, InUse, Types, StoreType, SaverType
  <1>9. \A o \in Used : conv'[o].chan = conv[o].chan /\ conv'[o].last >= conv[o].last
    BY <1>0, <1>2, <1>8, ConvLast
  <1>10. Shape'
    BY <1>0, <1>2, <1>4, <1>6, <1>7, <1>9, ShapeKept
  <1>11. api'.pc = "save" BY <1>0 DEF Types, ApiType
  <1>12. FlushListed' /\ BumpCached' /\ AddCached' /\ Complete'
    BY <1>0, <1>4 DEF Saving, FlushListed, BumpCached, AddCached, Complete, Undisturbed
  <1>13. Written' /\ Filling' /\ SaveCovers' BY <1>11 DEF Written, Filling, SaveCovers, Announcing
  <1> QED BY <1>5, <1>10, <1>12, <1>13 DEF ConvInv, Saving

LEMMA DeleteStep ==
  ASSUME ConvInv, NEW c \in Chans, DeleteConversation(c)
  PROVE  ConvInv'
  <1> USE DEF DeleteConversation
  <1>0. Types /\ Shape /\ Saving BY DEF ConvInv
  <1>1. /\ cache' \in Seq(Objs) /\ Len(cache') = Len(cache) - 1
        /\ \A o : o \in Range(cache') <=> o \in InUse /\ conv[o].chan # c
        /\ Distinct(cache', conv)
    BY <1>0, WithoutRest DEF Types, StoreType, Shape
  <1>2. \A o : o \in InUse' <=> o \in InUse /\ conv[o].chan # c BY <1>1 DEF InUse
  <1>3. seen' \in [Chans -> 0 .. MaxSeq] /\ seen'[c] = 0 /\ \A d \in Chans \ {c} : seen'[d] = seen[d]
    BY <1>0, Constants DEF Types, StoreType
  <1>4. Types'
    <2>1. StoreType' BY <1>0, <1>1, <1>3, Constants DEF Types, StoreType
    <2> QED BY <1>0, <2>1 DEF Types, SaverType, CalcType, ApiType
  <1>5. HeldFits'
    <2>1. calc.pc \in Holding => calc.msg.chan \in Chans
      BY <1>0 DEF Types, CalcType, Holding, Message
    <2> QED BY <1>0, <1>3, <2>1, HeldKept DEF Shape
  <1>6. Known' BY <1>0, <1>2 DEF Shape, Known
  <1>7. Unique' BY <1>1 DEF Unique
  <1>8. Unseen'
    <2> SUFFICES ASSUME NEW d \in Chans, ~InCache(d)', d # c PROVE seen[d] = 0
      BY <1>3 DEF Unseen
    <2>1. \A o \in InUse' : conv[o].chan # d BY DEF InCache, InUse, Range
    <2>2. ~InCache(d) BY <1>2, <2>1, InCacheUse
    <2> QED BY <1>0, <2>2 DEF Shape, Unseen
  <1>9. Shows'
    <2> SUFFICES ASSUME ~raced, NEW o \in InUse' PROVE conv[o].last >= seen'[conv[o].chan]
      BY DEF Shows
    <2>1. o \in InUse /\ conv[o].chan \in Chans \ {c} BY <1>0, <1>2 DEF Shape, Known
    <2> QED BY <1>0, <1>3, <2>1 DEF Shape, Shows
  <1>10. BumpCached'
    <2> SUFFICES ASSUME ~raced, calc.obj # Cached(c), calc.pc = "bump" PROVE calc.obj \in InUse'
      BY DEF BumpCached
    <2>1. calc.obj \in InUse BY <1>0 DEF Saving, BumpCached
    <2>2. conv[calc.obj].chan # c BY <1>0, <2>1, CachedIn DEF Shape
    <2> QED BY <1>2, <2>1, <2>2
  <1>11. FlushListed' BY <1>0 DEF Saving, FlushListed
  <1>12. AddCached' /\ Complete' /\ Written' /\ Filling' /\ SaveCovers'
    BY DEF AddCached, Complete, Written, Filling, SaveCovers, Undisturbed
  <1> QED BY <1>4, <1>5, <1>6, <1>7, <1>8, <1>9, <1>10, <1>11, <1>12 DEF ConvInv, Shape, Saving

-----------------------------------------------------------------------------
(* The calculation loop. *)

\* calcLoop with the conversation of its message.
LEMMA CalcGetStep ==
  ASSUME ConvInv, CalcGet
  PROVE  ConvInv'
  <1> USE DEF CalcGet
  <1>0. Types /\ Shape /\ Saving BY DEF ConvInv
  <1> DEFINE c == calc.msg.chan
  <1>1. calc.msg \in Message /\ calc.fill = <<>> BY <1>0 DEF Types, CalcType
  <1>2. Cached(c) \in Objs /\ Cached(c) \in InUse /\ conv[Cached(c)].chan = c BY <1>0, CachedIn
  <1>3. /\ cache' \in Seq(Objs) /\ Len(cache') = Len(cache)
        /\ Range(cache') = InUse /\ Distinct(cache', conv')
    BY <1>0, TouchKeeps DEF Types, StoreType, Shape
  <1>4. InUse' = InUse BY <1>3 DEF InUse
  <1>5. /\ calc'.pc = "bump" /\ calc'.obj = Cached(c) /\ calc'.msg = calc.msg /\ calc'.fill = <<>>
        /\ calc'.unread = conv[Cached(c)].unread
    BY <1>0, <1>1 DEF Types, CalcType
  <1> HIDE DEF c
  <1>6. Types'
    <2>1. conv[Cached(c)].unread \in Nat BY <1>0, <1>2 DEF Types, StoreType
    <2>2. CalcType' BY <1>0, <1>1, <1>2, <1>5, <2>1 DEF Types, CalcType, Holding, c
    <2> QED BY <1>0, <1>3, <2>2 DEF Types, StoreType, SaverType, ApiType
  <1>7. HeldFits' BY <1>0, <1>2, <1>5 DEF HeldFits, Shape, Shows, c
  <1>8. Shape' BY <1>0, <1>3, <1>4, <1>7, ShapeMoved
  <1>9. Contents' = Contents /\ Saved' = Saved BY <1>4, ContentsUse DEF Saved
  <1>10. cache' = <<>> <=> cache = <<>> BY <1>0, <1>3 DEF Types, StoreType
  <1>11. FlushListed' /\ AddCached' BY <1>0, <1>5 DEF Saving, FlushListed, AddCached
  <1>12. BumpCached' BY <1>2, <1>4, <1>5 DEF BumpCached
  <1>13. Complete' BY <1>0, <1>4 DEF Saving, Complete, Undisturbed
  <1>14. Written' BY <1>0, <1>9 DEF Saving, Written, Undisturbed, Announcing
  <1>15. Filling' BY <1>0, <1>1, <1>5, <1>9 DEF Saving, Filling, Undisturbed, Announcing, Loading
  <1>16. SaveCovers' BY <1>0, <1>9, <1>10 DEF Saving, SaveCovers
  <1> QED BY <1>6, <1>8, <1>11, <1>12, <1>13, <1>14, <1>15, <1>16 DEF ConvInv, Saving

\* A new object is not referred to from anywhere.
LEMMA FreshUnused ==
  ASSUME Types, NEW o, Fresh(o)
  PROVE  o \notin Used /\ o # calc.obj
  BY DEF Fresh, Used, InUse, Range

LEMMA CalcNewStep ==
  ASSUME ConvInv, NEW o \in Objs, CalcNew(o)
  PROVE  ConvInv'
  <1> USE DEF CalcNew
  <1>0. Types /\ Shape /\ Saving BY DEF ConvInv
  <1>1. calc.msg \in Message /\ calc.fill = <<>> BY <1>0 DEF Types, CalcType
  <1>2. o \notin Used BY <1>0, FreshUnused DEF New
  <1> DEFINE r == [chan |-> calc.msg.chan, unread |-> Dot, last |-> calc.msg.seq]
  <1>3. r \in ConvRecord BY <1>1, Constants DEF Message, ConvRecord, Dot
  <1>4. /\ conv' \in [Objs -> [chan : Chans \cup {0}, unread : Nat, last : 0 .. MaxSeq]]
        /\ conv'[o] = r
        /\ \A x \in Objs \ {o} : conv'[x] = conv[x]
    BY <1>0, <1>3 DEF Types, StoreType, ConvRecord
  <1>5. Used \subseteq Objs BY <1>0, RangeIn DEF Used, InUse, Types, StoreType, SaverType
  <1>6. \A x \in Used : conv'[x] = conv[x] BY <1>2, <1>4, <1>5
  <1>7. /\ calc'.pc = "save" /\ calc'.obj = o /\ calc'.msg = calc.msg /\ calc'.fill = <<>>
        /\ calc'.unread = calc.unread
    BY <1>0, <1>1 DEF Types, CalcType
  <1>8. Types'
    <2>1. CalcType' BY <1>0, <1>1, <1>7 DEF Types, CalcType, Holding
    <2> QED BY <1>0, <1>4, <2>1 DEF Types, StoreType, SaverType, ApiType
  <1>9. HeldFits'
    <2>1. seen[calc.msg.chan] = 0 BY <1>0, <1>1 DEF Shape, Unseen, Message
    <2>2. calc.msg.seq \in Nat BY <1>1, Constants DEF Message
    <2> QED BY <1>4, <1>7, <2>1, <2>2 DEF HeldFits
  <1>10. InUse' = InUse BY DEF InUse
  <1>11. Distinct(cache', conv')
    <2>1. \A i \in DOMAIN cache : conv'[cache[i]] = conv[cache[i]] BY <1>6 DEF Used, InUse, Range
    <2> QED BY <1>0, <2>1 DEF Shape, Unique, Distinct
  <1>12. \A x \in Used : conv'[x].chan = conv[x].chan /\ conv'[x].last >= conv[x].last
    BY <1>0, <1>5, <1>6, ConvLast
  <1>13. Shape' BY <1>0, <1>4, <1>9, <1>10, <1>11, <1>12, ShapeKept DEF Types
  <1>14. FlushListed' /\ Complete' BY <1>0, <1>10 DEF Saving, FlushListed, Complete, Undisturbed
  <1>15. BumpCached' /\ AddCached' /\ Written' /\ Filling' /\ SaveCovers'
    BY <1>7 DEF BumpCached, AddCached, Written, Filling, SaveCovers, Announcing
  <1> QED BY <1>8, <1>13, <1>14, <1>15 DEF ConvInv, Saving

LEMMA CalcBumpStep ==
  ASSUME ConvInv, CalcBump
  PROVE  ConvInv'
  <1>0. Types /\ Shape /\ Saving BY DEF ConvInv
  <1> DEFINE m == calc.msg
             p == calc.obj
             newer == conv[p].last < m.seq
             r == [chan |-> conv[p].chan,
                   unread |-> IF m.dot THEN calc.unread + 1 ELSE conv[p].unread,
                   last |-> IF newer THEN m.seq ELSE conv[p].last]
  <1>1. /\ m \in Message /\ p \in Objs /\ calc.fill = <<>> /\ calc.pc = "bump"
        /\ calc.unread \in Nat
    BY <1>0 DEF CalcBump, Types, CalcType, Holding
  <1>2. /\ conv[p] \in [chan : Chans \cup {0}, unread : Nat, last : 0 .. MaxSeq]
        /\ m.seq \in 1 .. MaxSeq /\ m.dot \in BOOLEAN
    BY <1>0, <1>1 DEF Types, StoreType, Message
  <1>3. /\ conv'[p] = r /\ DOMAIN conv' = Objs
        /\ \A x \in Objs \ {p} : conv'[x] = conv[x]
    BY <1>0, <1>1, <1>2 DEF CalcBump, Types, StoreType
  <1>4. /\ calc' = [calc EXCEPT !.pc = IF m.dot \/ newer THEN "save" ELSE "add", !.unread = 0]
        /\ UNCHANGED <<queue, sent, cache, store, api, saver, noSave, needSave, snap, stop, calls, fails, seen, missed, raced>>
    BY DEF CalcBump
  <1>5. /\ r \in [chan : Chans \cup {0}, unread : Nat, last : 0 .. MaxSeq]
        /\ r.chan = conv[p].chan /\ r.last >= conv[p].last /\ r.last >= m.seq
        /\ ~(m.dot \/ newer) => r = conv[p]
    <2>1. /\ conv[p].chan \in Chans \cup {0} /\ conv[p].unread \in Nat
          /\ conv[p].last \in Nat /\ conv[p].last <= MaxSeq /\ m.seq \in Nat /\ m.seq <= MaxSeq
      BY <1>2, Constants
    <2>2. (IF m.dot THEN calc.unread + 1 ELSE conv[p].unread) \in Nat BY <1>1, <2>1
    <2>3. /\ (IF newer THEN m.seq ELSE conv[p].last) \in 0 .. MaxSeq
          /\ (IF newer THEN m.seq ELSE conv[p].last) >= conv[p].last
          /\ (IF newer THEN m.seq ELSE conv[p].last) >= m.seq
      BY <2>1, Constants
    <2>4. conv[p] = [chan |-> conv[p].chan, unread |-> conv[p].unread, last |-> conv[p].last]
      BY <1>2
    <2> QED BY <2>1, <2>2, <2>3, <2>4
  <1>6. /\ calc'.pc = (IF m.dot \/ newer THEN "save" ELSE "add") /\ calc'.obj = p /\ calc'.msg = m
        /\ calc'.fill = <<>> /\ calc'.unread = 0
    BY <1>0, <1>1, <1>4 DEF Types, CalcType
  <1>7. CalcType' BY <1>0, <1>1, <1>4, <1>6 DEF Types, CalcType, Holding
  <1> HIDE DEF r, newer
  <1>8. /\ conv' \in [Objs -> [chan : Chans \cup {0}, unread : Nat, last : 0 .. MaxSeq]]
        /\ conv'[p] = r /\ \A x \in Objs \ {p} : conv'[x] = conv[x]
        /\ ~(m.dot \/ newer) => conv' = conv
    <2>1. conv' = [x \in Objs |-> conv'[x]] BY <1>0, <1>3 DEF CalcBump, Types, StoreType
    <2>2. conv = [x \in Objs |-> conv[x]] BY <1>0 DEF Types, StoreType
    <2>3. \A x \in Objs : conv'[x] \in [chan : Chans \cup {0}, unread : Nat, last : 0 .. MaxSeq]
      BY <1>0, <1>3, <1>5 DEF Types, StoreType
    <2>4. ~(m.dot \/ newer) => \A x \in Objs : conv'[x] = conv[x] BY <1>3, <1>5
    <2> QED BY <1>3, <2>1, <2>2, <2>3, <2>4
  <1>9. Types' BY <1>0, <1>4, <1>7, <1>8 DEF Types, StoreType, SaverType, ApiType
  <1>10. \A x \in Objs : conv'[x].chan = conv[x].chan /\ conv'[x].last >= conv[x].last
    BY <1>0, <1>5, <1>8, ConvLast
  <1>11. HeldFits'
    <2>1. conv[p].chan = m.chan /\ (~raced => conv[p].last >= seen[m.chan])
      BY <1>0, <1>1 DEF Shape, HeldFits, Holding
    <2>2. seen[m.chan] \in Nat BY <1>0, <1>1, Constants DEF Types, StoreType, Message
    <2>3. conv[p].last \in Nat /\ r.last \in Nat BY <1>2, <1>5, Constants
    <2>4. ~raced => r.last >= seen[m.chan] BY <1>5, <2>1, <2>2, <2>3
    <2> QED BY <1>4, <1>5, <1>6, <1>8, <2>1, <2>4 DEF HeldFits
  <1>12. InUse' = InUse BY <1>4 DEF InUse
  <1>13. Distinct(cache', conv')
    <2>1. \A i \in DOMAIN cache : cache[i] \in Objs BY <1>0 DEF Types, StoreType
    <2> QED BY <1>0, <1>4, <1>10, <2>1 DEF Shape, Unique, Distinct
  <1>14. Used \subseteq Objs BY <1>0, RangeIn DEF Used, InUse, Types, StoreType, SaverType
  <1>15. Shape'
    <2>1. \A f \in Flushers : Range(snap'[f].objs) \subseteq Range(snap[f].objs) \cup InUse BY <1>4
    <2> QED BY <1>0, <1>4, <1>8, <1>10, <1>11, <1>12, <1>13, <1>14, <2>1, ShapeKept DEF Types
  <1>16. FlushListed' /\ Complete' BY <1>0, <1>4, <1>12 DEF Saving, FlushListed, Complete, Undisturbed
  <1>17. BumpCached' BY <1>6 DEF BumpCached
  <1>18. CASE m.dot \/ newer
    <2>1. calc'.pc = "save" BY <1>6, <1>18
    <2>2. AddCached' /\ Written' /\ Filling' /\ SaveCovers'
      BY <2>1 DEF AddCached, Written, Filling, SaveCovers, Announcing
    <2> QED BY <1>9, <1>15, <1>16, <1>17, <2>2 DEF ConvInv, Saving
  <1>19. CASE ~(m.dot \/ newer)
    <2>1. calc'.pc = "add" /\ conv' = conv BY <1>6, <1>8, <1>19
    <2>2. Contents' = Contents /\ Saved' = Saved BY <1>4, <2>1 DEF Contents, Saved
    <2>3. AddCached' BY <1>0, <1>1, <1>4, <1>6, <1>12 DEF Saving, BumpCached, AddCached
    <2>4. Written' BY <1>0, <1>1, <1>4, <2>2 DEF Saving, Written, Undisturbed, Announcing
    <2>5. Filling'
      BY <1>0, <1>1, <1>4, <1>6, <2>1, <2>2 DEF Saving, Filling, Undisturbed, Announcing, Loading
    <2>6. SaveCovers' BY <1>0, <1>1, <1>4, <2>2 DEF Saving, SaveCovers
    <2> QED BY <1>9, <1>15, <1>16, <1>17, <2>3, <2>4, <2>5, <2>6 DEF ConvInv, Saving
  <1> QED BY <1>18, <1>19

LEMMA CalcAddStep ==
  ASSUME ConvInv, CalcAdd
  PROVE  ConvInv'
  <1> USE DEF CalcAdd
  <1>0. Types /\ Shape /\ Saving BY DEF ConvInv
  <1> DEFINE o == calc.obj
             c == calc.msg.chan
             n == calc.msg.seq
             sn == [seen EXCEPT ![c] = IF @ < n THEN n ELSE @]
  <1>1. /\ o \in Objs /\ calc.msg \in Message /\ calc.fill = <<>> /\ conv[o].chan = c
        /\ ~raced => conv[o].last >= seen[c]
        /\ conv[o].last >= n
    BY <1>0 DEF Types, CalcType, Shape, HeldFits, Holding
  <1>2. c \in Chans /\ n \in 1 .. MaxSeq BY <1>1 DEF Message
  <1>3. cache' = Added(o, c) /\ conv' = conv /\ calc' = Ready /\ seen' = SeenIn(cache', sn) OBVIOUS
  <1>4. sn \in [Chans -> 0 .. MaxSeq] /\ sn[c] = (IF seen[c] < n THEN n ELSE seen[c])
        /\ \A d \in Chans \ {c} : sn[d] = seen[d]
    BY <1>0, <1>2, Constants DEF Types, StoreType
  <1> HIDE DEF o, c, n, sn
  <1>5. /\ cache' \in Seq(Objs) /\ Len(cache') <= CacheMax /\ Distinct(cache', conv)
        /\ o \in InUse' /\ \A x \in InUse' : x = o \/ (x \in InUse /\ conv[x].chan # c)
        /\ InCache(c) => \A x \in InUse : conv[x].chan # c => x \in InUse'
    <2>1. /\ Added(o, c) \in Seq(Objs) /\ Len(Added(o, c)) <= CacheMax
          /\ Distinct(Added(o, c), conv)
          /\ o \in Range(Added(o, c))
          /\ \A x \in Range(Added(o, c)) : x = o \/ (x \in InUse /\ conv[x].chan # c)
          /\ InCache(c) \/ Len(cache) < CacheMax =>
               \A x \in InUse : conv[x].chan # c => x \in Range(Added(o, c))
      BY <1>0, <1>1, AddedHas DEF Types, StoreType, Shape
    <2> QED BY <1>3, <2>1 DEF InUse
  <1>6. \A d \in Chans : seen'[d] = IF \E x \in InUse' : conv[x].chan = d THEN sn[d] ELSE 0
    BY <1>3 DEF SeenIn, InUse, Range
  <1>7. seen' \in [Chans -> 0 .. MaxSeq] BY <1>3, <1>4, Constants DEF SeenIn
  <1>8. Types'
    <2>1. CalcType' BY <1>3 DEF CalcType, Ready, Holding
    <2> QED BY <1>0, <1>3, <1>5, <1>7, <2>1 DEF Types, StoreType, SaverType, ApiType
  <1>9. Known' BY <1>0, <1>1, <1>2, <1>3, <1>5 DEF Shape, Known
  <1>10. Unique' BY <1>3, <1>5 DEF Unique
  <1>11. Unseen'
    <2> SUFFICES ASSUME NEW d \in Chans, ~InCache(d)' PROVE seen'[d] = 0 BY DEF Unseen
    <2>1. \A x \in InUse' : conv[x].chan # d BY <1>3 DEF InCache, InUse, Range
    <2> QED BY <1>6, <2>1
  <1>12. HeldFits' BY <1>3 DEF HeldFits, Holding, Ready
  <1>13. Shows'
    <2> SUFFICES ASSUME ~raced, NEW x \in InUse' PROVE conv[x].last >= seen'[conv[x].chan]
      BY <1>3 DEF Shows
    <2>1. conv[x].chan \in Chans BY <1>9, <1>3 DEF Known
    <2>2. seen'[conv[x].chan] = sn[conv[x].chan] BY <1>6, <2>1
    <2>3. CASE x = o BY <1>1, <1>2, <1>4, <2>2, <2>3
    <2>4. CASE x \in InUse /\ conv[x].chan # c BY <1>0, <1>4, <2>1, <2>2, <2>4 DEF Shape, Shows
    <2> QED BY <1>5, <2>3, <2>4
  <1>14. o \in InUse => InUse' = InUse /\ Contents' = Contents /\ cache # <<>>
    <2> SUFFICES ASSUME o \in InUse PROVE InUse' = InUse /\ Contents' = Contents /\ cache # <<>>
      OBVIOUS
    <2>1. InCache(c) BY <1>1, InCacheUse
    <2>2. \A x \in InUse : conv[x].chan = c => x = o
      BY <1>0, <1>1, <2>1, CachedIn DEF Shape
    <2>3. InUse' = InUse
      <3>1. \A x \in InUse : x \in InUse' BY <1>5, <2>1, <2>2
      <3>2. \A x \in InUse' : x \in InUse BY <1>5
      <3> QED BY <3>1, <3>2
    <2>4. Contents' = Contents BY <1>3, <2>3, ContentsUse
    <2>5. cache # <<>> BY DEF InUse, Range
    <2> QED BY <2>3, <2>4, <2>5
  <1>15. Saved' = Saved BY DEF Saved
  <1>16. Undisturbed => o \in InUse \/ (needSave /\ saver \notin {"write", "clear"})
    BY <1>0 DEF Saving, AddCached, Undisturbed, o
  <1>17. calc'.pc = "pop" /\ calc'.fill = <<>> BY DEF Ready
  <1>18. FlushListed' BY <1>0 DEF Saving, FlushListed
  <1>19. BumpCached' /\ AddCached' BY <1>17 DEF BumpCached, AddCached
  <1>20. Complete' BY <1>0, <1>14, <1>16 DEF Saving, Complete, Undisturbed
  <1>21. Written' BY <1>0, <1>14, <1>15, <1>16 DEF Saving, Written, Undisturbed, Announcing
  <1>22. Filling'
    BY <1>0, <1>1, <1>14, <1>15, <1>16, <1>17 DEF Saving, Filling, Undisturbed, Announcing, Loading
  <1>23. SaveCovers' BY <1>0, <1>14, <1>15, <1>16 DEF Saving, SaveCovers, Undisturbed
  <1> QED BY <1>8, <1>9, <1>10, <1>11, <1>12, <1>13, <1>18, <1>19, <1>20, <1>21, <1>22, <1>23
          DEF ConvInv, Shape, Saving

-----------------------------------------------------------------------------
(* Loading a list from the store. *)

\* The first conversation of a list enters the cache as a new object.  Unless
\* this is one of the races, nothing else leaves the cache.
LEMMA FillKeeps ==
  ASSUME Types, Shape, NEW list \in Seq(ConvRecord), list # <<>>, NEW o \in Objs, FillWith(list, o),
         UNCHANGED <<snap, store, queue, missed>>
  PROVE  /\ StoreType' /\ Known' /\ Unique' /\ Unseen' /\ Shows'
         /\ raced => raced'
         /\ o # calc.obj /\ \A x \in Objs \ {o} : conv'[x] = conv[x]
         /\ \A d \in Chans : seen'[d] = seen[d] \/ seen'[d] = 0
         /\ ~raced' => /\ {saver, stop} \cap FlushPCs = {}
                       /\ InUse \subseteq InUse'
                       /\ Head(list) \in Saved
                       /\ Contents' = Contents \cup {Head(list)}
  <1> DEFINE h == Head(list)
             c == h.chan
  <1>1. h \in ConvRecord BY RangeHead
  <1>2. c \in Chans /\ h.last \in Nat BY <1>1, Constants DEF ConvRecord
  <1>3. o \notin Used /\ o # calc.obj BY FreshUnused DEF FillWith, New
  <1>4. o \notin InUse BY <1>3 DEF Used
  <1>5. Used \subseteq Objs BY RangeIn DEF Used, InUse, Types, StoreType, SaverType
  <1>6. /\ conv' \in [Objs -> [chan : Chans \cup {0}, unread : Nat, last : 0 .. MaxSeq]]
        /\ conv'[o] = h /\ \A x \in Objs \ {o} : conv'[x] = conv[x]
    BY <1>1 DEF FillWith, Types, StoreType, ConvRecord
  <1>7. \A x \in Used : conv'[x] = conv[x] BY <1>3, <1>5, <1>6
  <1>8. /\ cache' = Added(o, c) /\ seen' = SeenIn(cache', seen)
        /\ raced' = (\/ raced \/ InCache(c) \/ Len(cache) = CacheMax
                     \/ ~Contains(store, h) \/ {saver, stop} \cap FlushPCs # {})
    BY DEF FillWith
  <1> HIDE DEF h, c
  <1>9. /\ cache' \in Seq(Objs) /\ Len(cache') <= CacheMax /\ Distinct(cache', conv')
        /\ o \in InUse' /\ \A x \in InUse' : x = o \/ (x \in InUse /\ conv[x].chan # c)
        /\ Len(cache) < CacheMax => \A x \in InUse : conv[x].chan # c => x \in InUse'
    <2>1. conv'[o].chan = c /\ \A x \in InUse : conv[x].chan # c => conv'[x].chan = conv[x].chan
      BY <1>6, <1>7 DEF Used, c
    <2>2. cache \in Seq(Objs) /\ Len(cache) <= CacheMax /\ Unique BY DEF Types, StoreType, Shape
    <2>3. /\ Added(o, c) \in Seq(Objs) /\ Len(Added(o, c)) <= CacheMax
          /\ Distinct(Added(o, c), conv')
          /\ o \in Range(Added(o, c))
          /\ \A x \in Range(Added(o, c)) : x = o \/ (x \in InUse /\ conv[x].chan # c)
          /\ InCache(c) \/ Len(cache) < CacheMax =>
               \A x \in InUse : conv[x].chan # c => x \in Range(Added(o, c))
      BY <2>1, <2>2, AddedHas
    <2> QED BY <1>8, <2>3 DEF InUse
  <1>10. \A d \in Chans : seen'[d] = IF \E x \in InUse' : conv'[x].chan = d THEN seen[d] ELSE 0
    BY <1>8 DEF SeenIn, InUse, Range
  <1>11. seen' \in [Chans -> 0 .. MaxSeq] BY <1>8, Constants DEF SeenIn, Types, StoreType
  <1>12. raced' \in BOOLEAN BY <1>8 DEF Types, StoreType
  <1>13. StoreType'
    BY <1>6, <1>9, <1>11, <1>12 DEF Types, StoreType
  <1>14. Known'
    <2>1. \A x \in InUse' : conv'[x].chan \in Chans
      BY <1>2, <1>6, <1>7, <1>9 DEF Shape, Known, Used, c
    <2>2. ASSUME NEW f \in Flushers, NEW x \in Range(snap[f].objs) PROVE conv'[x].chan \in Chans
      BY <1>7 DEF Shape, Known, Used
    <2> QED BY <2>1, <2>2 DEF Known
  <1>15. Unique' BY <1>9 DEF Unique
  <1>16. Unseen'
    <2> SUFFICES ASSUME NEW d \in Chans, ~InCache(d)' PROVE seen'[d] = 0 BY DEF Unseen
    <2>1. \A x \in InUse' : conv'[x].chan # d BY DEF InCache, InUse, Range
    <2> QED BY <1>10, <2>1
  <1>17. Shows'
    <2> SUFFICES ASSUME ~raced', NEW x \in InUse' PROVE conv'[x].last >= seen'[conv'[x].chan]
      BY DEF Shows
    <2>1. CASE x = o
      <3>1. seen[c] = 0 BY <1>2, <1>8 DEF Shape, Unseen
      <3>2. seen'[c] = 0 BY <1>2, <1>10, <3>1
      <3> QED BY <1>2, <1>6, <2>1, <3>2 DEF c
    <2>2. CASE x # o
      <3>1. x \in InUse /\ conv'[x] = conv[x] BY <1>7, <1>9, <2>2 DEF Used
      <3>2. conv[x].chan \in Chans BY <3>1 DEF Shape, Known
      <3>3. seen'[conv[x].chan] = seen[conv[x].chan] BY <1>10, <3>1, <3>2
      <3> QED BY <1>8, <3>1, <3>3 DEF Shape, Shows
    <2> QED BY <2>1, <2>2
  <1>18. \A d \in Chans : seen'[d] = seen[d] \/ seen'[d] = 0 BY <1>10
  <1>19. ASSUME ~raced'
         PROVE  /\ {saver, stop} \cap FlushPCs = {}
                /\ InUse \subseteq InUse'
                /\ h \in Saved
                /\ Contents' = Contents \cup {h}
    <2>1. /\ ~InCache(c) /\ Len(cache) # CacheMax /\ Contains(store, h)
          /\ {saver, stop} \cap FlushPCs = {}
      BY <1>8, <1>19
    <2>2. Len(cache) < CacheMax BY <2>1, Constants DEF Types, StoreType
    <2>3. \A x \in InUse : conv[x].chan # c BY <2>1, InCacheUse
    <2>4. InUse \subseteq InUse' BY <1>9, <2>2, <2>3
    <2>5. InUse' \subseteq InUse \cup {o} BY <1>9
    <2>6. h \in Saved BY <2>1 DEF Contains, Saved, Types, StoreType
    <2>7. InUse' = InUse \cup {o} BY <1>9, <2>4, <2>5
    <2>8. \A x \in InUse : conv'[x] = conv[x] BY <1>7 DEF Used
    <2>9. Contents' = Contents \cup {h} BY <1>6, <2>7, <2>8, ContentsUse
    <2> QED BY <2>1, <2>4, <2>6, <2>9
  <1> QED BY <1>3, <1>6, <1>8, <1>13, <1>14, <1>15, <1>16, <1>17, <1>18, <1>19 DEF h

LEMMA CalcFillStep ==
  ASSUME ConvInv, NEW o \in Objs, CalcFill(o)
  PROVE  ConvInv'
  <1> USE DEF CalcFill
  <1>0. Types /\ Shape /\ Saving BY DEF ConvInv
  <1> DEFINE list == calc.fill
  <1>1. list \in Seq(ConvRecord) /\ list # <<>> /\ calc.pc = "fill" BY <1>0 DEF Types, CalcType
  <1>2. /\ Tail(list) \in Seq(ConvRecord) /\ Range(list) = Range(Tail(list)) \cup {Head(list)}
        /\ Len(list) = 1 <=> Tail(list) = <<>>
    BY <1>1, RangeHead
  <1>3. /\ StoreType' /\ Known' /\ Unique' /\ Unseen' /\ Shows' /\ (raced => raced')
        /\ ~raced' => /\ {saver, stop} \cap FlushPCs = {}
                      /\ Head(list) \in Saved
                      /\ Contents' = Contents \cup {Head(list)}
    BY <1>0, <1>1, FillKeeps
  <1>4. /\ calc'.pc = (IF Tail(list) = <<>> THEN "get" ELSE "fill") /\ calc'.fill = Tail(list)
        /\ CalcType'
    BY <1>0, <1>1, <1>2 DEF Types, CalcType, Holding
  <1>5. Types' BY <1>0, <1>3, <1>4 DEF Types, SaverType, ApiType
  <1>6. HeldFits' BY <1>4 DEF HeldFits, Holding
  <1>7. Shape' BY <1>3, <1>6 DEF Shape
  <1>8. Saved' = Saved BY DEF Saved
  <1>9. FlushListed' BY <1>0 DEF Saving, FlushListed
  <1>10. BumpCached' /\ AddCached' BY <1>4 DEF BumpCached, AddCached
  <1>11. Complete' /\ Written' BY <1>3 DEF Complete, Written, Undisturbed, FlushPCs
  <1> HIDE DEF list
  <1>12. ASSUME Undisturbed', ~needSave, ~Announcing'
         PROVE  /\ Contents' \subseteq Saved'
                /\ Saved' \subseteq Contents' \cup Range(calc'.fill) \cup Range(api'.fill)
    <2>1. Undisturbed /\ ~Announcing /\ Loading
      BY <1>1, <1>3, <1>4, <1>12 DEF Undisturbed, Announcing, Loading
    <2>2. Contents \subseteq Saved /\ Saved \subseteq Contents \cup Range(list) \cup Range(api.fill)
      BY <1>0, <1>12, <2>1 DEF Saving, Filling, list
    <2>3. ~raced' BY <1>12 DEF Undisturbed
    <2> QED BY <1>2, <1>3, <1>4, <1>8, <2>2, <2>3
  <1>13. Filling' BY <1>12 DEF Filling
  <1>14. SaveCovers'
    <2> SUFFICES ASSUME Undisturbed', ~needSave, ~Announcing', ~Loading' PROVE Contents' = Saved'
      BY DEF SaveCovers, Undisturbed, Announcing, Loading
    <2>1. calc'.fill = <<>> /\ api.fill = <<>>
      BY <1>0, <1>4 DEF Loading, Types, ApiType
    <2>2. Range(calc'.fill) = {} /\ Range(api'.fill) = {} BY <2>1 DEF Range
    <2> QED BY <1>12, <2>2
  <1> QED BY <1>5, <1>7, <1>9, <1>10, <1>11, <1>13, <1>14 DEF ConvInv, Saving

LEMMA ApiFillStep ==
  ASSUME ConvInv, NEW o \in Objs, ApiFill(o)
  PROVE  ConvInv'
  <1> USE DEF ApiFill
  <1>0. Types /\ Shape /\ Saving BY DEF ConvInv
  <1> DEFINE list == api.fill
  <1>1. list \in Seq(ConvRecord) /\ list # <<>> /\ api.pc = "fill" BY <1>0 DEF Types, ApiType
  <1>2. /\ Tail(list) \in Seq(ConvRecord) /\ Range(list) = Range(Tail(list)) \cup {Head(list)}
        /\ Len(list) = 1 <=> Tail(list) = <<>>
    BY <1>1, RangeHead
  <1>3. /\ StoreType' /\ Known' /\ Unique' /\ Unseen' /\ Shows' /\ (raced => raced')
        /\ o # calc.obj /\ \A x \in Objs \ {o} : conv'[x] = conv[x]
        /\ \A d \in Chans : seen'[d] = seen[d] \/ seen'[d] = 0
        /\ ~raced' => /\ {saver, stop} \cap FlushPCs = {}
                      /\ InUse \subseteq InUse'
                      /\ Head(list) \in Saved
                      /\ Contents' = Contents \cup {Head(list)}
    BY <1>0, <1>1, FillKeeps
  <1>4. /\ api'.pc = (IF Tail(list) = <<>> THEN "idle" ELSE "fill") /\ api'.fill = Tail(list)
        /\ ApiType'
    <2>1. CASE Len(list) = 1 BY <1>2, <2>1 DEF ApiType, NoApi
    <2>2. CASE Len(list) # 1 BY <1>0, <1>1, <1>2, <2>2 DEF Types, ApiType
    <2> QED BY <2>1, <2>2
  <1>5. Types' BY <1>0, <1>3, <1>4 DEF Types, SaverType, CalcType
  <1>6. HeldFits'
    <2>1. calc.pc \in Holding => calc.obj \in Objs \ {o} /\ calc.msg.chan \in Chans
      BY <1>0, <1>3 DEF Types, CalcType, Holding, Message
    <2> QED BY <1>0, <1>3, <2>1, HeldKept DEF Shape
  <1>7. Shape' BY <1>3, <1>6 DEF Shape
  <1>8. Saved' = Saved BY DEF Saved
  <1>9. FlushListed' BY <1>0 DEF Saving, FlushListed
  <1>10. BumpCached' /\ AddCached' BY <1>0, <1>3 DEF Saving, BumpCached, AddCached
  <1>11. Complete' /\ Written' BY <1>3 DEF Complete, Written, Undisturbed, FlushPCs
  <1> HIDE DEF list
  <1>12. ASSUME Undisturbed', ~needSave, ~Announcing'
         PROVE  /\ Contents' \subseteq Saved'
                /\ Saved' \subseteq Contents' \cup Range(calc'.fill) \cup Range(api'.fill)
    <2>1. Undisturbed /\ ~Announcing /\ Loading
      BY <1>1, <1>3, <1>4, <1>12 DEF Undisturbed, Announcing, Loading
    <2>2. Contents \subseteq Saved /\ Saved \subseteq Contents \cup Range(calc.fill) \cup Range(list)
      BY <1>0, <1>12, <2>1 DEF Saving, Filling, list
    <2>3. ~raced' BY <1>12 DEF Undisturbed
    <2> QED BY <1>2, <1>3, <1>4, <1>8, <2>2, <2>3
  <1>13. Filling' BY <1>12 DEF Filling
  <1>14. SaveCovers'
    <2> SUFFICES ASSUME Undisturbed', ~needSave, ~Announcing', ~Loading' PROVE Contents' = Saved'
      BY DEF SaveCovers, Undisturbed, Announcing, Loading
    <2>1. calc.fill = <<>> /\ api'.fill = <<>>
      BY <1>0, <1>4 DEF Loading, Types, CalcType
    <2>2. Range(calc'.fill) = {} /\ Range(api'.fill) = {} BY <2>1 DEF Range
    <2> QED BY <1>12, <2>2
  <1> QED BY <1>5, <1>7, <1>9, <1>10, <1>11, <1>13, <1>14 DEF ConvInv, Saving

-----------------------------------------------------------------------------
\* The invariant holds initially, whatever the store has,
LEMMA InitConv == ConversationInit => ConvInv
  <1> SUFFICES ASSUME ConversationInit PROVE ConvInv OBVIOUS
  <1> USE DEF ConversationInit
  <1>1. store \in Seq(ConvRecord)
    <2>1. PICK old \in SeqOf(Chans, CacheMax) :
             store = [i \in DOMAIN old |-> [chan |-> old[i], unread |-> 0, last |-> 0]]
      OBVIOUS
    <2>2. PICK m \in 0 .. CacheMax : old \in [1 .. m -> Chans] BY DEF SeqOf
    <2>3. m \in Nat BY Constants
    <2>4. \A i \in 1 .. m : [chan |-> old[i], unread |-> 0, last |-> 0] \in ConvRecord
      BY <2>2, Constants DEF ConvRecord
    <2> QED BY <2>1, <2>2, <2>3, <2>4
  <1>2. Types
    <2>1. StoreType
      <3>1. conv \in [Objs -> [chan : Chans \cup {0}, unread : Nat, last : 0 .. MaxSeq]] BY Constants
      <3>2. seen \in [Chans -> 0 .. MaxSeq] BY Constants
      <3>3. queue \in Seq(Message) /\ cache \in Seq(Objs) /\ Len(cache) <= CacheMax BY Constants
      <3> QED BY <1>1, <3>1, <3>2, <3>3 DEF StoreType
    <2>2. SaverType
      <3>1. NoList \in [keys : Seq(Chans), objs : Seq(Objs)] BY DEF NoList
      <3>2. snap \in [Flushers -> [keys : Seq(Chans), objs : Seq(Objs)]] BY <3>1
      <3> QED BY <3>2, Constants DEF SaverType
    <2>3. CalcType BY DEF CalcType, Ready, Holding
    <2>4. ApiType BY DEF ApiType, NoApi
    <2> QED BY <2>1, <2>2, <2>3, <2>4 DEF Types
  <1>3. InUse = {} BY DEF InUse, Range
  <1>4. \A f \in Flushers : Range(snap[f].objs) = {} BY DEF NoList, Range
  <1>5. Shape
    BY <1>3, <1>4 DEF Shape, Known, Unique, Distinct, Unseen, HeldFits, Holding, Shows, Ready
  <1>6. Saving
    BY DEF Saving, FlushListed, BumpCached, AddCached, Complete, Written, Filling, Loading, SaveCovers, Ready, NoApi
  <1> QED BY <1>2, <1>5, <1>6 DEF ConvInv

\* and every step keeps it.
LEMMA StepConv == ConvInv /\ [ConversationNext]_conversationVars => ConvInv'
  <1> SUFFICES ASSUME ConvInv, [ConversationNext]_conversationVars PROVE ConvInv' OBVIOUS
  <1>1. CASE UNCHANGED conversationVars
    <2> USE <1>1 DEF conversationVars
    <2>1. Types' BY DEF ConvInv, Types, StoreType, SaverType, CalcType, ApiType
    <2>2. Shape' BY HeldSame, ShapeSame DEF ConvInv, Same, Shape
    <2>3. Saving' BY <2>1, SavingSame DEF ConvInv, Same
    <2> QED BY <2>1, <2>2, <2>3 DEF ConvInv
  <1>2. CASE \E c \in Chans, n \in 1 .. MaxSeq : PushMessage(c, n) BY <1>2, PushStep
  <1>3. CASE CalcSteps
    BY <1>3, CalcPopStep, CalcReadFailsStep, CalcGetStep, CalcBumpStep, CalcSaveStep, CalcAddStep,
       CalcFillStep, CalcNewStep
       DEF CalcSteps
  <1>4. CASE SaverTick \/ SaverExit BY <1>4, SaverTickStep
  <1>5. CASE SaverSteps
    BY <1>5, SaverKeysStep, SaverGetStep, SaverCollectedStep, SaverWriteStep, SaverWriteFailsStep,
       SaverClearStep
       DEF SaverSteps
  <1>6. CASE \E c \in Chans, unread \in Unreads : SetConversationUnread(c, unread)
    BY <1>6, SetUnreadStep
  <1>7. CASE \E c \in Chans : DeleteConversation(c) BY <1>7, DeleteStep
  <1>8. CASE GetConversations BY <1>8, GetConversationsStep
  <1>9. CASE ApiSteps BY <1>9, ApiSaveStep, ApiFillStep DEF ApiSteps
  <1>10. CASE ConversationStop \/ StopSteps
    BY <1>10, StopBegins, StopKeysStep, StopGetStep, StopCollectedStep, StopWriteStep, StopEnds
       DEF StopSteps
  <1>11. CASE Idle BY <1>1, <1>11 DEF Idle
  <1> QED
    BY <1>1, <1>2, <1>3, <1>4, <1>5, <1>6, <1>7, <1>8, <1>9, <1>10, <1>11 DEF ConversationNext

\* The invariant that carries the two properties: types, what the cached
\* objects are and show, and where a change that is not in the store is known.
THEOREM ConversationInductive == ConversationSpec => []ConvInv
  BY InitConv, StepConv, PTL DEF ConversationSpec

\* A cached conversation shows the newest message that was calculated for it,
\* whatever the order of messages, API calls and flushes (calConversation),
\* for any channels, objects and bounds.
THEOREM ConversationLastCovers == ConversationSpec => []LastCovers
  <1>1. ConvInv => LastCovers
    <2> SUFFICES ASSUME ConvInv PROVE LastCovers OBVIOUS
    <2>1. Types /\ Shape BY DEF ConvInv
    <2>2. TypeOK
      <3>1. \A o \in Objs : conv[o].last \in 0 .. MaxSeq BY <2>1 DEF Types, StoreType
      <3>2. noSave \in 0 .. SyncOnce BY <2>1, Constants DEF Types, SaverType
      <3> QED BY <2>1, <3>1, <3>2 DEF TypeOK, Types, StoreType, SaverType, CalcType, ApiType
    <2>3. ~raced => \A i \in DOMAIN cache : conv[cache[i]].last >= seen[conv[cache[i]].chan]
      BY <2>1 DEF Shape, Shows, InUse, Range
    <2> QED BY <2>2, <2>3 DEF LastCovers
  <1> QED BY <1>1, ConversationInductive, PTL

\* What differs from the store is listed for saving or about to be, unless it
\* is one of the named races (setNeedSave, saveloop, FlushConversations).
THEOREM ConversationSaveCovers == ConversationSpec => []SaveCovers
  <1>1. ConvInv => SaveCovers BY DEF ConvInv, Saving
  <1> QED BY <1>1, ConversationInductive, PTL
=============================================================================
