# Specifications of LiMaoIM

LiMaoIM is an instant-messaging server in Go. Clients keep a connection, send
messages to channels (a person or a group), and the server numbers and stores
each message, updates the recent conversations of its receivers, delivers it to
the connections that are online, repeats a delivery that is not acknowledged,
and tells a webhook about messages and online status. Nodes of a cluster forward
messages to each other and agree on writes through an external consensus library.

This directory holds TLA+ models of its concurrent and persistent parts, TLC
configurations that check them on small instances, and TLAPS proofs of the
results that hold for every instance. `PROJECT.json` has the exact map from
definitions to source lines.

Checking: `tlc -config X.cfg M` for the runs below; `tlapm` on
`TopicAppendProofs`, `TopicLogProofs`, `KeyLockProofs`, `RetryQueueProofs`,
`ClientManagerProofs`, `ChannelCacheProofs`, `SendPathProofs` and `ImClientProofs` for
the proofs (a few minutes each).

## 1. Inventory

Paths are below `src/`; `lim/` is `internal/lim/`, `db/` is `internal/db/`.

| Component | State | Operations | What is hard |
|---|---|---|---|
| Topic, numbers and append (`db/topic_public.go`, `db/topic.go`) | lastSeq, lastMemLog, active segment, list of segments | NextOffset, AppendLog, roll | AppendLog runs on many goroutines without a lock; each access to shared state interleaves with the others |
| Topic, files (`db/topic.go`, `db/segment.go`, `db/index.go`, `db/slot.go`) | log and index files, Segment objects that readers keep, cache of open topics | append, ReadLogs, ReadLastLogs, ReadLogAt, open, evict, recover | torn records, sparse index with a warm part, several Segment objects on one file, reopening |
| Keyed locks (`pkg/keylock`) | table of counted mutexes | Lock, Unlock, Clean, clean loop | creating and dropping a lock while goroutines come and go |
| Timeout heaps (`lim/in_flight_pqueue.go`, `lim/node_in_flight_pqueue.go`) | slice heap whose items know their slot | Push, Pop, Remove, PeekAndShift | removal from the middle, shrinking |
| Delivery and retry (`lim/delivery.go`, `lim/retry_queue.go`, `lim/handler.go`) | map and heap of messages in flight, goroutine pool | DeliveryMsg, RECVACK, scan | map and heap change in separate sections; timeout against late acknowledgement; full pool |
| Client manager, online status (`lim/client_manager.go`, `lim/handler.go`) | map of connections, per-user slice | Add, Remove, look-up; CONNECT, close | slices shared between a writer and readers; list loaded before the lock |
| Conversations (`lim/conversation.go`, `lim/queue.go`) | LRU cache per user, queue, list of users to save | calcLoop, saveloop, flush, API calls, Stop | two loops joined by an unbuffered channel; pointers that outlive the cache; stop order |
| Send path (`lim/handler.go`, `lim/channel.go`, `lim/limao.go`) | none of its own | SEND, SENDACK | several steps, each of which may fail |
| Node data in flight (`lim/node_in_flight_pqueue.go`) | map, heap, store | push, finish, scan, stop | scans may overlap; what Stop saves |
| Channels (`lim/channel.go`, `lim/channel_manager.go`, `lim/api_channel.go`) | map of channel objects with subscriber, deny and allow lists | look-up, API changes | cache against store |
| Notification (`lim/webbhook.go`, `lim/onlinestatus_webhook.go`) | notify queue in the store, batch of status strings | loops | at-least-once, batches at their limit |
| File store (`db/db_file.go`, `db/db_file_public.go`) | buckets, user cursors | lists, cursor, backup | single transactions of an embedded store |
| Replicated store (`lim/storage_*.go`) | commands | one command per write | order of application |
| Client library (`pkg/client`) | heartbeat, pending sends, connection | connect, ping, reconnect, send | goroutines that wait for each other; messages repeated after a reconnection |
| Codec (`pkg/lmproto`) | none | encode, decode | variable lengths, partial packets |
| Wait registry (`pkg/wait`) | table of channels | Register, Trigger | repeated identifiers |
| HTTP API, options, monitoring, RPC stubs | none worth a model | | |

Interactions. A SEND packet runs `handleSend` on the node of the channel, or is
forwarded to it: the channel, from the cache or loaded from the store, says who
may send; the message takes a number with `Topic.NextOffset`, is stored
(`AppendLog`, directly or through an agreed command), entered in the notification
queue and pushed to the conversation queue. Subscribers on other nodes get it as
node data, which stays in flight until the remote call succeeds; those on this
node through the delivery pool, which looks connections up in the client manager
and enters copies in the retry queue; RECVACK packets remove them. The sender
gets a SENDACK. The node that leads the cluster posts the notification queue to
the webhook. Topics are opened under a keyed lock, and conversation caches are
read under another. API handlers change conversations and channels beside all of
this. Shared state (atomics, maps under a mutex, slices) and channels are the only
means of communication within a node.

The client library is the other end: it repeats on a new connection what was not
answered on the old one.

## 2. Modules

| Module | Models | Grain of a step |
|---|---|---|
| `TopicAppend` | NextOffset and AppendLog on concurrent senders, or on the applier of agreed commands | one access to shared state |
| `TopicLog` | the topic over its files | one call; crash anywhere between two calls or within a write |
| `KeyedMutex` | promise of the lock table: a mutex per key | wait, hold, release |
| `KeyLock` | the lock table | one section of the table's lock, or of the inner mutex |
| `PqueueOps` | the heap operations as functions; the loops of up and down are recursive functions of the number of turns | |
| `InFlightPqueue` | the heap under any sequence of operations | one operation |
| `RetryQueue` (uses `PqueueOps`) | deliveries, acknowledgements and scans for one user | one section of a mutex |
| `ClientManager` | registration, kick, removal and look-up for one user | one load, store or locked section |
| `Conversation` | the conversations of one user | one access to cache, store or channel |
| `ChannelCache` | the lists of a channel in store and cache, API handlers and sends | one access to store, cache or object |
| `NodeInFlight` | data in flight to another node, scans that overlap, stop and restart | one section of a mutex, one end of a call |
| `NotifyQueue` | notification queue and the loop of each node | one call of store or webhook |
| `SendPath` (composes `NodeInFlight` and `NotifyQueue`) | a message from permission to SENDACK, with failures | one call of store, topic or queue |
| `ImClient` | client library with the wait registry, and the server and network it meets | one access to shared state, write or packet |
| `MC*` | instances for TLC | |
| `TopicAppendProofs`, `TopicLogProofs`, `KeyLockProofs`, `RetryQueueProofs` (also of `InFlightPqueue`), `ClientManagerProofs`, `ChannelCacheProofs`, `SendPathProofs` (also of `Conversation`), `ImClientProofs` | theorems | |

How state and actions correspond to the code:

* **TopicAppend.** `lastSeq`, `lastMemLog`, `active`, `segments` and `file` are
  the fields of Topic and the records of each segment. A sender goes through
  AppendLog step by step: `LoadActive`, the existence test (`SkipExisting` or
  `PassCheck`), `StoreMemLog`, `LoadLastSeq`/`StoreLastSeq`, `CheckFull`,
  `RollActivate`/`RollRegister`, `LoadTarget`, `SegmentAppend`. `outcome` is what
  the caller was told. `role` distinguishes the node that hands numbers out
  ("issuer") from one that applies agreed appends in any order of their numbers
  ("follower"). Sizes are counted in records.
* **TopicLog.** `file` and `index` are what is on disk, `writer` and `cache` the
  Segment objects with their own idea of it, `pend` the numbers taken and not
  yet appended. `written` is a history of the records written completely to segment 0,
  against which recovery is judged. A record takes one unit. The search in the index is a recursive
  function of the pair of bounds (`Searcher`). `Reopen` follows initSegments, which
  looks for segments in a directory that has none and so starts from segment 0.
* **KeyLock.** `locks`, `count`, `holder` are the table, the counters and the
  inner mutexes; `pc` says where each goroutine is in Lock and Unlock.
* **RetryQueue.** `flight` is the map, `heap` the heap, `worker` the goroutines
  of the pool, `wire` packets a client has got and not acknowledged. A copy of a
  message is an object with its heap index. `handed` counts how often a message was
  handed over: twice when a node repeats a forward. The pool refuses when all goroutines
  are busy. Encryption failures and closed connections are steps of their own.
* **ClientManager.** A slice is an array and a length, and its capacity the length
  of the array, so that appending in place and shifting in place are seen by
  readers that hold the same array. The handlers of all connections and a
  look-up interleave. Several of these interleavings break the list; `raced`
  and `reader.moved` record the ones that do, and nothing else.
* **Conversation.** The cache is a list of object pointers in LRU order. The
  queue, the two loops, one API call and Stop are processes. `Receive` is the
  rendezvous of setNeedSave with the save loop. FlushConversations lists keys,
  then looks the objects up one by one (`LookUp`; no lock is held from one key to
  the next, and each look-up makes its object the most recent), then writes, then
  takes the user off the list, each as a step. The save loop and Stop collect lists
  of their own (`snap`). `missed`, `raced` and `seen` are history variables for the
  properties.
* **ChannelCache.** A handler of the API is the sequence of its accesses
  (`Program`), read off the handler; a goroutine does them one by one. `obj` are
  Channel objects, `cached` the one in the manager's map. `GetChannel` loads list
  by list and publishes at the end, as the code does. `Reached` says which lists a
  removal finds: removeList takes a list's bucket by another rule than addList.
* **NodeInFlight.** `flight` and `heap` are the map and the heap; `proc` the
  goroutines between entering, calling and finishing; `late` remote calls that
  were given up before the other node began with them, and may still arrive. A call
  that it has begun goes on when its caller no longer waits (`ReceivedUnasked`). `Halt` empties memory; `saved` is what Stop
  leaves in the store, which is nothing.
* **NotifyQueue.** `notifyQ` is the bucket, messages under the keys that its
  sequence `notifySeq` has given out, and a batch the ones with the lowest keys
  (`Place`); `notifier` each node's loop between
  reading a batch, posting it and removing it; the leader may change in between.
* **SendPath.** `step` is where the goroutine of a message is in
  handleSendPacketWithFrom. `topic` has, for the channel and for the queue of each
  user (SyncOnce messages), lastSeq (`last`), the number of lastMemLog (`mem`), how
  often it was opened (`life`) and what came of each append (`tries`: written, failed,
  dropped). A number is taken in one step and appended in another; AppendLog drops a
  number that is not above `mem`, and a write that fails has moved `mem`. `work` is
  what a goroutine is at: the sender's, or one of the other node (`Remotes`) that
  handles forwarded data in OnRecvPacket, with the caller that waits for it. A call of
  the store that returns an error may have taken effect or not; `faults` counts what
  goes wrong. `Restart` opens the topics of this node without lastMemLog and from any
  number that initSegments may find (`Reopened`), not only the last. `IsCluster` is
  false for a node that stands alone, which looks at no error of the local delivery. A
  delivery is in `pushed`.
* **ImClient.** `loop` is the goroutine that runs loopConn and, after it, Connect;
  `pinger` that of loopPing; `disconnect` the user's call. The write buffer with
  its sticky error is `rw`. A packet is its number and the key it was encrypted
  with; the server refuses one whose key is not the connection's, as
  `lim/handler.go` does at line 214.

Modelled from its use only (external): the clock, the network library's connect
and close events, the LRU cache library, the consensus library.

## 3. Runs

| Run | Config | Result |
|---|---|---|
| topic_append | `MCTopicAppend` | `IndInv`, `SeqUnique`, `WrittenIsStored`, `DroppedOvertaken` hold |
| topic_log | `MCTopicLog` | `LookupExact`, `ReadFaithful`, `LastFaithful`, `ReopenCovers`, `RecoversExactly`, `OpensAgain` hold |
| keylock | `MCKeyLock` | `IndInv`, `MutualExclusion`, `ImplementsKeyedMutex`, `LockReturns` hold |
| pqueue | `MCInFlightPqueue` | `HeapOrdered`, `ShiftEarliest`, `RemoveExact` hold |
| retry | `MCRetryQueue` | `RemoveOwn`, `Tracked`, `NotForgotten`, `AckFinal` hold |
| clients | `MCClientManager` | `ListExact`, `OneConnPerDevice`, `StatusRight`, `ClosedIsGone`, `ReadComplete` hold |
| conversation | `MCConversation` | `LastCovers`, `SaveCovers`, `SavedEventually`, `QueueDrains` hold |
| conversation_stop | `MCConversationStop` | `StopReturns` is violated |
| channels | `MCChannelCache` | `CacheCoherent`, `RevocationHolds` hold |
| send_path | `MCSendPath` | `AckedStored`, `AckedReaches`, `PushedIsQueued`, `Settles` hold |
| im_client | `MCImClient` | `NotLost`, `AcceptedOnce`, `LoopsPaired`, `FailureHandled` hold |
| client_reconnect | `MCImClientPing` | `GivesUpReconnects` is violated |

### Bounds

* topic_append: three senders, one applier, numbers 1 to 4, one record per
  segment. Three goroutines are enough for one to hold a stale active segment
  while two others roll, and four numbers for a late one to be overtaken.
* topic_log: two senders, numbers to 7, two index entries per segment, an entry
  for every second record, three openings. A segment is full when its index is,
  after five records, so that a roll, reads across it, and two crashes happen. No
  warm entries beyond the last one, so that both parts of the index are searched.
* keylock: three goroutines on one key. Keys do not interact except through the
  identity of lock objects; the proof covers any number of them.
* pqueue: six items, priorities 0 to 2, capacity from 2, so that the heap has
  three levels, removal needs moves in both directions, and growing and
  shrinking occur.
* retry: two messages, either of them handed over a second time (CONSTRAINT
  `OneRepeated`), one connection, two pool goroutines, a clock of one
  tick. The races are between copies of messages that share the heap; two of
  them, with a third slot taken by a stale copy, exhibit all orders. Messages and
  goroutines are interchangeable (SYMMETRY). So are copies, of which only those count
  that something refers to, and `acked` and `refused` count as long as a property asks for
  them (VIEW). With both messages repeated it passes as well, in several minutes. After a panic the model has no step, so that
  deadlock is not checked.
* clients: four connections of three devices, two handlers at a time beside one
  look-up. Three devices are needed for a removal to shift a connection past a
  walker, and for a slice of capacity 1, 2 and 4. What an array holds that no slice
  refers to makes no difference and is left out of the state (VIEW).
* conversation: two channels with a cache for one, two messages with two
  numbers, one API call, one refused store operation, a stop at any time. The
  flush by count happens when other users were counted before, the one by ticker
  otherwise.
* channels: one user, two goroutines of the API with two requests in all, one
  sender. Users do not interact within a list; two requests and a send are enough
  for a load to be overtaken, an object to be replaced and a change to follow a
  revocation. One goroutine with three requests passes as well.
* send_path: two messages for one subscriber of this node, both stored in the channel
  or both SyncOnce, or one of either kind with a subscriber on each of two nodes; one
  is forwarded; one scan, a batch of one, two faults. Two messages can overtake each
  other between number and append, in the topic of the channel and in that of the
  subscriber; one is enough for the data in flight, since data do not interact but
  for their order in the heap. Two faults are a failed write and a crash, a time-out
  and a crash, or two leaders.
* im_client: two callers, two messages, two connections: a message can be written
  by its caller after Connect has repeated it. client_reconnect needs one caller.

Behaviours of clients and channels are followed up to the first overlap that the
properties except (CONSTRAINT `NoOverlap`, `NoCause`); those of retry with up to one
repeated message (`OneRepeated`).

### Fairness

* keylock: table sections and Unlock are weakly fair; taking the inner mutex is
  strongly fair, because a Go mutex hands itself to a waiter that has waited for
  a millisecond.
* conversation: the loops, a call that has begun, the ticker and Stop are weakly
  fair. New messages and calls are not.
* send_path: one weak fairness condition for all goroutines, calls, the timer of
  the scan and the restart. It is enough because faults are bounded and all that
  can be repeated comes to an end; it says no more than that the node runs.
* im_client: the loop's goroutine and the heartbeat are weakly fair. The user, the
  server and the network owe nothing.

### What the violated properties show

* **conversation_stop.** Stop ends the save loop and then waits for the queue. The
  calculation blocks on the channel nobody receives from, the queue is not
  emptied and Stop does not return.
* **client_reconnect.** After three pings without an answer the heartbeat closes
  the connection "to make it reconnect" and returns. The read loop notices, and
  waits on an unbuffered channel for the heartbeat that is gone; it never calls
  Connect. `FailureHandled` shows that this is the only place where it stays.

### Observations

Found as counterexamples while stating the properties; the formulas carry them as
exceptions or hypotheses, so that the rest is checked.

* AppendLog takes any number that is not above that of the last log in memory for
  one that is stored, as the comment at `db/topic_public.go` line 22 says. Two senders
  that append in the other order than they took their numbers lose the earlier
  message, and its sender gets a SENDACK. `DroppedOvertaken`, which is proved, is the
  exact extent: only an overtaken message is lost. The one that overtakes need not be
  stored itself: lastMemLog is set (line 26) before the write, which may fail.
  The queue of a user is a topic as well (`lim/delivery.go` lines 15 and 42), so that of two
  SyncOnce messages to one user the earlier may be lost and acknowledged in the same way.
* A topic that holds one record, or has rolled, starts again from a number that is
  stored when it is reopened. `ReopenCovers` is the case in which it does not. In
  `SendPath` the messages after a restart may therefore get numbers that are stored.
* A crash within a write leaves a part of a record. The next opening cuts it off and then
  reads at the position of before (`db/topic.go` line 108), which panics; the opening after that
  succeeds. `RecoversExactly` and `OpensAgain` say that this is all.
* Nothing calls `RetryQueue.Start` (`lim/limao.go` line 187 starts the node queue only),
  so no message is tried again after MsgTimeout, although `lim/options.go` line 46 says
  "after this time it will try again". `Scan` is therefore an action without fairness
  and no liveness is claimed; the run retry shows that the queue is safe with scans and
  without them.
* A RECVACK that comes between the map and the write of a retry does not keep the packet
  from going out once more: `AckFinal` says only that the message is not entered in the map
  again.
* Without a cluster PutMessage ignores the error of storing for the subscribers (`lim/channel.go`
  line 264): the sender of a SyncOnce message gets a SENDACK for what is in no queue.
  `AckedReaches` therefore speaks of a cluster for the subscribers of this node.
* A packet that Connect of the client library repeats was encrypted with the key of the
  connection before, so the server refuses it (`lim/handler.go` line 214), and the SENDACK with
  that refusal takes it off the list. `NotLost` counts a refused message as answered;
  the repetition never saves a message.
* Add and Remove compute the new list from one they loaded before taking the lock.
  Two connections of a user that arrive at once can end in a list with one of
  them; the other is connected and gets no messages (`raced`, "list").
* Stop of the queue of node data saves a map that is never filled, so that a stop
  loses what a crash loses (`lost`).
* A SENDACK with an error does not mean that nothing was done: the message may be
  stored, notified or delivered.

### Hypotheses in the properties

Some properties hold except where the code does something else. The exceptions
are in the formulas by name, and each was found as a counterexample.

* `ReadFaithful` and `LastFaithful` need a number without index entry, because an
  entry carries the position behind its record and a read from it starts one
  record late; a record in front of a rolled segment is looked for in the segment
  before. They also need `Healthy`: a topic whose files are listed, undamaged and
  ascending, and no Segment object with a stale size. A read of a segment that
  was active opens a second object whose size stays what it was.
* `StatusRight`: GetOnlineUIDs tests for a list, and an empty one stays after the
  last connection, so it also names users who are gone.
* `ListExact`, `OneConnPerDevice`, `StatusRight`, `ClosedIsGone`: up to the first of
  three overlaps. "device": two handlers of one device at the same time (a comment
  in `lim/handler.go` at line 158 notes that an offline report may come late).
  "list": Add or Remove with a list that has changed since it was loaded.
  "shift": a removal that moves the array under a CONNECT that looks for its older
  connection. `ReadComplete` also excepts a removal under the look-up (`moved`).
  Without any one of the four TLC finds a counterexample.
* `RemoveOwn` (its last part), `Tracked`, `AckFinal`: as long as no message was handed
  over a second time (`Once`, in the formulas).
  A message handed over twice, as when another node repeats a forward, is in the
  map before it is in the heap with index 0, and its first RECVACK removes slot 0,
  which is another message or does not exist (a panic, after which the model has
  no step). The run includes such behaviours; without `Once` TLC refutes each of the
  three in them. `NotForgotten` holds in all of them.
* `NotForgotten`: a retry that the full pool refuses is lost (`refused`).
* `LastCovers`, `SaveCovers`: not after a list was loaded from the store while the
  cache or the store were being changed elsewhere, nor after a conversation was
  deleted while the calculation held it (`raced`). `SaveCovers` also excepts a
  conversation that was not in the list last collected: announced for saving before
  it was in the cache, or in the cache only after its keys were listed; and a list
  with one that has left the cache (`missed`). It is put right with the next change.
* `CacheCoherent`, `RevocationHolds`: as long as none of six causes has occurred, each
  of which is needed. "overlap": a list changed in the store while an object was
  loaded. "replaced": the object a request changes is no longer the cached one.
  "contended": two requests on one list. "failed": an error between the store and
  the object. "missed": a removal from a list that removeList looks for in another
  bucket than addList used (`db/db_file.go` line 223; the comment is at `db/db.go` line
  107). "allowSet": whitelistSet puts users on the denylist of the object.
  Subscribers added by the API are in the store only until the channel is loaded
  again, so for subscribers the cache is a subset.
* `AckedStored`, `AckedReaches`: or overtaken in that topic, by a later append that was
  written or failed (`Overtaken`). `AckedReaches` and `Settles`: or lost for the
  other node when this one stops.
* `SavedEventually`: up to the first operation that the store refuses. After it
  the user stays listed but is not counted, so the next flush is another user's.

## 4. Proofs

`TopicAppendProofs` proves, for any sets of senders and appliers, any bound on
numbers and any segment size:

* `Inductive`: `Spec => []IndInv`. `SeqUnique` alone is not inductive: it needs
  that a number in flight belongs to one goroutine (`Ownership`) and is not stored
  (`WrittenIsStored`). `WrittenIsStored` needs that each goroutine's number has no
  outcome yet. `DroppedOvertaken` needs that lastMemLog is a number that passed
  the test (`MemPassed`); `SeqCovered` needs `Bumped`, since StoreLastSeq may store
  a value loaded earlier, and is safe only because the issuer's counter already
  covers all numbers in flight and the follower has one applier (`ApplierOnly`).
  `ActiveListed` and `SegmentsDistinct` need `Listed`: a base offset is the
  number of an append that has come past the roll.
* `TopicSeqUnique`, `TopicWrittenIsStored`, `TopicDroppedOvertaken`,
  `TopicSeqCovered` follow; `TopicLastSeqMonotonic` is an action property from
  the same invariant.

The assumption that at most one goroutine applies agreed commands is the
consensus library's; the senders are any set. The proof has one lemma per part
of the invariant, in which every action that touches the part is a case, and
lemmas for the facts that several share (what appending to a file does to the set
of stored numbers, what listing a segment does to `Listed`).

`KeyLockProofs` proves, for any finite set of goroutines, any keys and lock
objects:

* `Inductive`: `Spec => []IndInv`. The count of a listed lock is the number of
  goroutines that hold or want it (`CountExact`, with cardinality lemmas for a
  goroutine coming and going), so Clean drops only locks nobody uses
  (`UsedIsListed`), so everyone who has locked a key has the same object, whose
  mutex has one holder.
  Here the lemmas go by action, as an action disturbs several parts at once.
* `KeyLockMutualExclusion`, `KeyLockReleaseOwn`, `KeyLockUsedIsListed`.
* `KeyLockImplements`: every behaviour of the table is one of `KeyedMutex`, under
  the mapping that a goroutine holds a key from the acquisition of the inner
  mutex until Unlock counts it out.

`ImClientProofs` proves, for any callers and any bounds on messages and
connections:

* `ClientLoopsPaired`: `LoopsPaired` is inductive as it stands.
* `ClientInductive`: `Spec => []IndInv`. `AcceptedOnce` is not inductive: it needs that
  of the packets in the buffer, on the way and still to be written only one per
  message carries the key of the current connection, and its message has not been
  accepted (`OneFresh`); and that what Connect repeats was made with an earlier key
  (`Dated`). There is a lemma on what a write leaves in the buffer and on the way, one
  for steps after which less is there, and one per action that adds something.
* `ClientNotLost` and `ClientAcceptedOnce` follow; the first rests on a lemma that a
  SENDACK takes no other message off the list.

`SendPathProofs` proves, for any messages, subscribers, scans and nodes, any number of
faults, in a cluster and without one:

* `SendInductive`: `Spec => []IndInv`. What an acknowledgement promises is spread
  over the steps of the handler, so `Past` says what has been done for a message
  that has come to a step, `Worked` what its goroutine, or the one of the other node,
  has in hand there, and `Delivered` for whom it has been stored. That a dropped
  number was overtaken needs `Numbered`: the last number in memory is that of an append
  since the topic was opened, and a number in hand is used by nobody else; a
  topic opened again starts a new life, in which old numbers may return. `Called`: a
  goroutine of the other node that somebody waits for handles that caller's data. For the other node, `NodeTracked` (data it has not got is in the map
  and the heap, in the hands of a goroutine, or lost with a stop) needs `Held`:
  what a goroutine takes out of the map and the heap has arrived, also when
  scans overlap and two of them send the same data. For the webhook, `QueuedOrNotified` needs
  `Posted`: a round removes only what it has posted, also when the leader changed.
* `SendAckedStored`, `SendAckedReaches`, `SendPushedIsQueued` follow.

The proof is compositional: lemmas about the actions of `NodeInFlight` and
`NotifyQueue` alone, one that the steps of the handler only add to what they
promise, and one that combines them.

It goes on with the conversations, which the send path feeds, for any channels,
objects, cache size and number of messages, API calls and refused operations:

* `ConversationInductive`: `ConversationSpec => []ConvInv`, where `ConvInv` is `Types`,
  `Shape` and `Saving`. `LastCovers` is not inductive. The calculation loop holds a
  pointer while others change the cache, so it needs that what the loop holds is for
  the channel of its message and shows what the cache has shown (`HeldFits`), that a
  channel is cached once (`Unique`) and that nothing is remembered of one that is not
  (`Unseen`); those are `Shape`. `SaveCovers` speaks of the moments in which the user
  is not listed, so `Saving` follows a flush to that moment: the user stays listed
  until it ends (`FlushListed`), the list about to be written is what is cached
  (`Complete`), and once it is written cache and store agree until a change is
  announced (`Written`). What the loop is about to change in place, or to put into the
  cache, is there, or will be collected (`BumpCached`, `AddCached`), and a cache that
  is being filled differs from the store by what is left to fill (`Filling`). There is
  one lemma per action, on lemmas about the LRU list: what Get and Add do to the set
  of cached objects, and that a full cache gives up one.
* `ConversationLastCovers` and `ConversationSaveCovers` follow. The races that they
  except are those of the run (section 3).

`ClientManagerProofs` proves, for any connections, devices and arrays:

* `ClientInductive`: `Spec => []IndInv`, about behaviours without the overlaps listed
  above. A handler has its device to itself, so what it found out about it stays
  true (`Stage`); the connections of the list are those registered, apart from
  the ones just being added or removed (`Exact`); and the arrays are shared: a
  goroutine that walks a slice still has in front of it what it looks for
  (`InView`), since the list grows behind what others see (`Behind`) and a shift
  is either behind it or recorded.
* `ClientListExact`, `ClientOneConn`, `ClientStatusRight`, `ClientClosedIsGone` and
  `ClientReadComplete` follow, the first by a bijection from the places of the
  list to the connections.

`TopicLogProofs` proves, for any senders, any bounds and any sizes of segments,
indexes and their warm part:

* `TopicLogInductive`: `Spec => []IndInv`. `IndexOrdered` (an entry names a record, points
  behind none that follows it, and entries are in the order of their records)
  is not inductive: it needs that the active Segment object counts no more than is
  in its file (`Counted`), also after a crash and a truncation, for which only
  the last record of the first file may be damaged and only while the topic is
  down (`Torn`), and no entry names a damaged record (`Real`).
* `TopicLogLookupExact`: Lookup is right on any index in that order. The search is
  shown to be well defined (every pair it calls itself with is shorter) and then
  to return the last entry not above the target, both by a least counterexample.
* `TopicLogReopenCovers`; `TopicLogRecoversExactly`, which is inductive beside `IndInv`: a
  file that ends in a part of a record loses just that (`SoundOfTorn`); and the
  action property `TopicLogOpensAgain`, since what a panicked opening leaves is sound.
* `TopicLogReadInductive`: `Spec => [](IndInv /\ ReadInv)`. The segments of an open topic
  start at 0, ascend and end with the active one, which starts not above what was
  appended (`Rolled`), and no Segment object counts entries that the index lacks
  (`Counting`). The steps need `IndInv` as well.
* `TopicLogReadFaithful` and `TopicLogLastFaithful`, for any number of segments and any
  limit. Lookup starts in front of the record, so that what the first segment gives
  begins with it; what the segments behind give is chained in order (`FlattenHolds`,
  by a least counterexample over the segments); the record in front of a rolled
  segment is looked for in the segment before, which gives nothing. That the last
  `limit` numbers hold at most `limit` records bounds what ReadLastLogs returns.

`RetryQueueProofs` begins with the heap, for any finite set of items and any capacities:

* `PqueueInductive`: the slice is a heap whose items know their slots, whose items
  differ, and which fits its capacity (`PqueueInv`). What up and down do is said of
  the function from slots to deadlines: a heap but for one slot, which may be too
  small for those above it (`Above`) or too large for those below it (`Below`); each
  turn moves the slot, and the loops stop within the turns that the model gives
  them (`Turns`).
* `PqueueHeapOrdered`, `PqueueShiftEarliest` (the root is the minimum, along the path of
  parents) and the action property `PqueueRemoveExact`.

and goes on with the deliveries, for any messages, connections, copies and pool goroutines:

* `RetryInductive`: `BaseInv`, for any number of deliveries of a message. The heap
  stays a heap, a delivery works on a copy of its own that is not queued, the scan
  has what it shifted, and the message of every packet that a connected client has,
  or is about to be sent, is in the map, on its way there, acknowledged or
  refused (`Remembered`). `RetryNotForgotten` follows.
* `RetryOnceInductive`: `BaseInv`, and `OnceInv` as long as no message was handed over
  twice: `Once` is never true again once it is false, so that a step which ends in it
  began in it. A message for a
  connection is with one delivery, in the map, or done (`Single`), and its first copy
  meets no older one in the heap (`First`); what is in the map has its deadline in the
  heap, or its delivery or the scan is about to see to it (`Traced`); so that what a RECVACK has taken out of
  the map is queued at the slot it names or marked as taken out (`Marked`).
* `RetryTracked`, `RetryAckFinal`, `RetryRemoveOwn` and `RetryNoPanic` follow: a RECVACK
  goes to the slot of its own message, and to no slot that does not exist.

`ChannelCacheProofs` proves, for any users, API requests and sends, with any lists
in the bucket of the channel and the channel created on demand or not:

* `ChannelInductive`: `Spec => []IndInv`. `CacheCoherent` speaks of the moments between
  requests only. A goroutine is always somewhere on the list of accesses of its
  handler, or in a load that one of them has begun (`Placed`, `Way`), and the object
  that it loads is its own (`Private`). While no cause is recorded, two requests under
  way write different lists (`OneWriter`); what is left of a request does to the
  store what it does to the object (`SameEffect`), unless it is going to empty the cache
  or to record a cause (`Exempt`); and a list that the cache shows, or will show when a
  load under way ends (`Shown`), agrees with the store once the request that writes
  it is through with its accesses (`Coheres`, `After`). For the revoked: the store, the
  objects shown and the objects that sends hold keep them out (`StoreBars`, `CacheBars`,
  `SendBars`), a request that may let them in again has been taken off the record
  (`Cleared`), and one that revokes has stored it (`Effective`). The proof has three
  lemmas per action, one for each group.
* `ChannelCacheCoherent` and `ChannelRevocationHolds` follow. The causes that they
  exclude are those of the run (section 3).

Assumptions: finite sets of goroutines, items and copies, nil is neither a lock nor a
goroutine, 0 is neither a connection nor a message, natural numbers where the
modules say so (the ASSUMEs, which TLC evaluates).

Induction over data (turns of a loop, halvings of a range) is done over sets: a lemma
takes the set of numbers for which the claim holds, or a least element of those for
which it does not (`SetInduction`, `FirstPlace`).

Only model-checked: liveness (`LockReturns`, `SavedEventually`,
`QueueDrains`, `Settles`, `FailureHandled`), which needs fairness. Every invariant,
every action property without fairness and the refinement of the passing runs is a
theorem.

## 5. What is not modelled

* Protocol codec: sequential functions of bytes, tested in the repository.
* Replicated store: a command per write through an external library; an agreed
  write is a step that may report an error after it took effect. A command that takes
  effect only after its proposer was told of an error is not modelled.
* File store: snapshots, backup and recovery, the cursor of user queues. Deleting
  from the notification queue while a cursor runs over it
  (RemoveMessagesOfNotifyQueue) is taken to delete what it is asked to.
* Run without a cluster: `SendPath` and `NotifyQueue` have the option (`IsCluster`; the
  notification loop of such a node only sleeps, `lim/webbhook.go` line 67) and the
  proofs cover it; the run uses a cluster.
* Channels: person and temporary channels, Parent, the datasource, system
  accounts.
* Batching of online status, offline events, payloads and encryption, HTTP parsing,
  options, metrics, generated code.
* Within modelled parts: record sizes and the simple sanity check of large files,
  Delete and Sync of a topic, bytes left in a file by a write that failed, versions
  and time stamps of conversations, calls that arrive after Stop, a second
  Disconnect of the client (it closes a closed channel).

## 6. Plan

Done: `TopicAppend`, `TopicLog`, `KeyLock`, heaps, `RetryQueue`, `ClientManager`,
`Conversation`, `ChannelCache`, `NodeInFlight`, `NotifyQueue`, `SendPath`, `ImClient`.

Modules left: `PacketCodec` (fixed header, variable length, optional fields; a
stream that arrives in pieces) and `FileStore` (cursor of user queues, snapshot and
recovery, with a crash between transactions).
