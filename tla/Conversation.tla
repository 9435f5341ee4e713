---------------------------- MODULE Conversation ----------------------------
(***************************************************************************)
(* The recent conversations of one user (internal/lim/conversation.go,     *)
(* queue.go): messages are queued, a calculation loop brings the cached    *)
(* conversations up to date, a save loop writes them to the store, and API *)
(* calls read, reset and delete them meanwhile.                            *)
(*                                                                         *)
(* The cache is an LRU list of pointers: a goroutine may hold a pointer to *)
(* a conversation that has left the cache.  setNeedSave is a rendezvous    *)
(* on an unbuffered channel with the save loop.  FlushConversations writes *)
(* the whole list of a user at once.                                       *)
(*                                                                         *)
(* Left out: messages and calls that arrive after Stop (the network is     *)
(* stopped before), the other users (each has a cache and a list entry of  *)
(* its own; only their share of the count remains), versions and time      *)
(* stamps, and the keyed locks, which guard single accesses (KeyLock).     *)
(***************************************************************************)
EXTENDS Naturals, Sequences, SequencesExt

CONSTANTS Chans,       \* channels the user talks in
          Dotted,      \* those whose messages count as unread (RedDot, and not the user's own)
          MaxSeq,      \* bound: message numbers of a channel are 1..MaxSeq
          MaxMsgs,     \* bound: messages
          Unreads,     \* values that SetConversationUnread sets
          Objs,        \* Conversation objects; unreferenced ones are collected
          CacheMax,    \* ConversationOfUserMaxCount
          SyncOnce,    \* ConversationSyncOnce
          MaxApi,      \* bound: API calls
          MaxFails,    \* bound: operations that the store refuses
          Stops        \* whether the server is stopped

ASSUME ConversationAssumption ==
    /\ Dotted \subseteq Chans /\ MaxSeq \in Nat /\ MaxMsgs \in Nat /\ Unreads \subseteq Nat
    /\ Objs \subseteq Nat \ {0} /\ CacheMax \in Nat \ {0}
    /\ SyncOnce \in Nat \ {0} /\ MaxApi \in Nat /\ MaxFails \in Nat
    /\ Stops \in BOOLEAN

VARIABLES
    queue,     \* Queue.buffer: messages to calculate
    sent,      \* messages that were queued
    conv,      \* the Conversation objects: [chan, unread, last]
    cache,     \* the user's LRU cache: objects, least recently used first
    store,     \* the user's conversations in the store
    calc,      \* calcLoop
    api,       \* an API call
    saver,     \* saveloop: "select", "off" or inside FlushConversations
    noSave,    \* its noSaveCount
    needSave,  \* needSaveConversationMap[uid]
    snap,      \* the keys and objects that saveloop and Stop have collected
    stop,      \* Stop: "run", "wait", inside FlushConversations, or "done"
    calls,     \* API calls made
    fails,     \* operations that the store refused
    seen,      \* newest message in each cached conversation (history)
    missed,    \* the last list collected lacked a conversation (history)
    raced      \* a list was loaded while cache or store were in use (history)

conversationVars ==
    <<queue, sent, conv, cache, store, calc, api, saver, noSave, needSave,
      snap, stop, calls, fails, seen, missed, raced>>

NoMsg == [chan |-> 0, seq |-> 0, dot |-> FALSE]
Ready == [pc |-> "pop", msg |-> NoMsg, obj |-> 0, unread |-> 0, fill |-> <<>>]
NoApi == [pc |-> "idle", fill |-> <<>>]
NoList == [keys |-> <<>>, objs |-> <<>>]
Flushers == {"saver", "stop"}
FlushPCs == {"keys", "get", "write", "clear"}

TypeOK ==
    /\ \A o \in Objs : conv[o].last \in 0 .. MaxSeq
    /\ cache \in Seq(Objs) /\ Len(cache) <= CacheMax
    /\ calc.pc \in {"pop", "fill", "get", "bump", "save", "add"}
    /\ api.pc \in {"idle", "fill", "save"}
    /\ saver \in {"select", "off"} \cup FlushPCs
    /\ noSave \in 0 .. SyncOnce /\ needSave \in BOOLEAN
    /\ stop \in {"run", "wait", "done"} \cup FlushPCs
    /\ seen \in [Chans -> 0 .. MaxSeq]

\* The store may hold conversations from before, older than all messages, and
\* other users may have been counted for the next flush.
ConversationInit ==
    /\ queue = <<>> /\ sent = 0
    /\ conv = [o \in Objs |-> [chan |-> 0, unread |-> 0, last |-> 0]]
    /\ cache = <<>>
    /\ \E old \in SeqOf(Chans, CacheMax) :
          /\ IsInjective(old)
          /\ store = [i \in DOMAIN old |-> [chan |-> old[i], unread |-> 0, last |-> 0]]
    /\ calc = Ready /\ api = NoApi
    /\ saver = "select" /\ noSave \in 0 .. SyncOnce - 1 /\ needSave = FALSE
    /\ snap = [f \in Flushers |-> NoList]
    /\ stop = "run" /\ calls = 0 /\ fails = 0
    /\ seen = [c \in Chans |-> 0]
    /\ missed = FALSE /\ raced = FALSE

-----------------------------------------------------------------------------
(* The LRU cache. *)

InCache(c) == \E i \in DOMAIN cache : conv[cache[i]].chan = c
SlotOf(c)  == CHOOSE i \in DOMAIN cache : conv[cache[i]].chan = c
Cached(c)  == cache[SlotOf(c)]
Without(c) == IF InCache(c) THEN RemoveAt(cache, SlotOf(c)) ELSE cache

\* Cache.Get moves what it finds to the recent end.
Touch(c) == IF InCache(c) THEN Append(Without(c), Cached(c)) ELSE cache

\* Cache.Add of the object o for the channel c, which evicts the oldest one.
Added(o, c) ==
    LET s == Append(Without(c), o)
    IN  IF Len(s) > CacheMax THEN Tail(s) ELSE s

Fresh(o) ==
    /\ o # calc.obj
    /\ \A i \in DOMAIN cache : cache[i] # o
    /\ \A f \in Flushers : \A i \in DOMAIN snap[f].objs : snap[f].objs[i] # o
New(o) == Fresh(o) /\ \A p \in Objs : Fresh(p) => o <= p

\* The newest message the cached conversations have got, once the cache is s.
SeenIn(s, sn) == [c \in Chans |-> IF \E i \in DOMAIN s : conv'[s[i]].chan = c THEN sn[c] ELSE 0]

-----------------------------------------------------------------------------
(* PushMessage and calcLoop. *)

\* Messages of a channel may be queued in another order than their numbers, or
\* twice.
PushMessage(c, n) ==
    /\ stop = "run" /\ sent < MaxMsgs
    /\ queue' = Append(queue, [chan |-> c, seq |-> n, dot |-> c \in Dotted])
    /\ sent' = sent + 1
    /\ UNCHANGED <<conv, cache, store, calc, api, saver, noSave, needSave, snap, stop, calls, fails, seen, missed, raced>>

\* The next message; an empty cache is first filled from the store.
CalcPop ==
    /\ calc.pc = "pop" /\ queue # <<>>
    /\ calc' = IF cache = <<>> /\ store # <<>>
               THEN [calc EXCEPT !.pc = "fill", !.msg = Head(queue), !.fill = store]
               ELSE [calc EXCEPT !.pc = "get", !.msg = Head(queue)]
    /\ queue' = Tail(queue)
    /\ UNCHANGED <<sent, conv, cache, store, api, saver, noSave, needSave, snap, stop, calls, fails, seen, missed, raced>>

\* The store cannot be read: the message is skipped.
CalcReadFails ==
    /\ calc.pc = "pop" /\ queue # <<>> /\ cache = <<>> /\ fails < MaxFails
    /\ fails' = fails + 1
    /\ queue' = Tail(queue)
    /\ UNCHANGED <<sent, conv, cache, store, calc, api, saver, noSave, needSave, snap, stop, calls, seen, missed, raced>>

\* One conversation of the list read enters the cache as the object o.
FillWith(list, o) ==
    /\ New(o)
    /\ conv' = [conv EXCEPT ![o] = Head(list)]
    /\ cache' = Added(o, Head(list).chan)
    /\ seen' = SeenIn(cache', seen)
    /\ raced' = \/ raced \/ InCache(Head(list).chan) \/ Len(cache) = CacheMax
                \/ ~Contains(store, Head(list)) \/ {saver, stop} \cap FlushPCs # {}

CalcFill(o) ==
    /\ calc.pc = "fill"
    /\ FillWith(calc.fill, o)
    /\ calc' = [calc EXCEPT !.fill = Tail(@), !.pc = IF Len(calc.fill) = 1 THEN "get" ELSE @]
    /\ UNCHANGED <<queue, sent, store, api, saver, noSave, needSave, snap, stop, calls, fails, missed>>

Dot == IF calc.msg.dot THEN 1 ELSE 0

\* No conversation yet: a new object, which is announced for saving and only
\* then put into the cache.
CalcNew(o) ==
    /\ calc.pc = "get" /\ ~InCache(calc.msg.chan) /\ New(o)
    /\ conv' = [conv EXCEPT ![o] = [chan |-> calc.msg.chan, unread |-> Dot, last |-> calc.msg.seq]]
    /\ calc' = [calc EXCEPT !.pc = "save", !.obj = o]
    /\ UNCHANGED <<queue, sent, cache, store, api, saver, noSave, needSave, snap, stop, calls, fails, seen, missed, raced>>

CalcGet ==
    /\ calc.pc = "get" /\ InCache(calc.msg.chan)
    /\ calc' = [calc EXCEPT !.pc = "bump", !.obj = Cached(calc.msg.chan),
                            !.unread = conv[Cached(calc.msg.chan)].unread]
    /\ cache' = Touch(calc.msg.chan)
    /\ UNCHANGED <<queue, sent, conv, store, api, saver, noSave, needSave, snap, stop, calls, fails, seen, missed, raced>>

\* Mutant: an older message replaces a newer one.
CalcBumpUnguarded ==
    LET m == calc.msg
    IN  /\ calc.pc = "bump"
        /\ conv' = [conv EXCEPT ![calc.obj].unread = IF m.dot THEN calc.unread + 1 ELSE @,
                                ![calc.obj].last = m.seq]
        /\ calc' = [calc EXCEPT !.pc = "save", !.unread = 0]
        /\ UNCHANGED <<queue, sent, cache, store, api, saver, noSave, needSave, snap, stop, calls, fails, seen, missed, raced>>

\* UnreadCount++ is a load and a store without a lock: an API call that resets
\* the counter in between is undone.
CalcBump ==
    LET m == calc.msg
        newer == conv[calc.obj].last < m.seq
    IN  /\ calc.pc = "bump"
        /\ conv' = [conv EXCEPT ![calc.obj].unread = IF m.dot THEN calc.unread + 1 ELSE @,
                                ![calc.obj].last = IF newer THEN m.seq ELSE @]
        /\ calc' = [calc EXCEPT !.pc = IF m.dot \/ newer THEN "save" ELSE "add", !.unread = 0]
        /\ UNCHANGED <<queue, sent, cache, store, api, saver, noSave, needSave, snap, stop, calls, fails, seen, missed, raced>>

CalcAdd ==
    /\ calc.pc = "add"
    /\ conv' = conv
    /\ cache' = Added(calc.obj, calc.msg.chan)
    /\ seen' = SeenIn(cache', [seen EXCEPT ![calc.msg.chan] = IF @ < calc.msg.seq THEN calc.msg.seq ELSE @])
    /\ calc' = Ready
    /\ UNCHANGED <<queue, sent, store, api, saver, noSave, needSave, snap, stop, calls, fails, missed, raced>>

-----------------------------------------------------------------------------
(* saveloop and FlushConversations. *)

\* Mutant: a user who is listed already does not wake the loop, and neither
\* does a new one.
ReceiveUncounted ==
    /\ saver = "select"
    /\ needSave' = TRUE
    /\ UNCHANGED <<noSave, saver>>

\* setNeedSave meets the loop: the user is listed, and counted if new.  Enough
\* of them start a flush.
Receive ==
    LET n == IF needSave THEN noSave ELSE noSave + 1
    IN  /\ saver = "select"
        /\ needSave' = TRUE
        /\ noSave' = IF n >= SyncOnce THEN 0 ELSE n
        /\ saver' = IF n >= SyncOnce THEN "keys" ELSE "select"

CalcSave ==
    /\ calc.pc = "save"
    /\ Receive
    /\ calc' = [calc EXCEPT !.pc = "add"]
    /\ UNCHANGED <<queue, sent, conv, cache, store, api, snap, stop, calls, fails, seen, missed, raced>>

\* The ticker starts a flush if there is something to save.
SaverTick ==
    /\ saver = "select" /\ noSave > 0
    /\ noSave' = 0 /\ saver' = "keys"
    /\ UNCHANGED <<queue, sent, conv, cache, store, calc, api, needSave, snap, stop, calls, fails, seen, missed, raced>>

SaverExit ==
    /\ saver = "select" /\ stop # "run"
    /\ saver' = "off"
    /\ UNCHANGED <<queue, sent, conv, cache, store, calc, api, noSave, needSave, snap, stop, calls, fails, seen, missed, raced>>

\* The keys of the cache are listed, then the object of each one is looked up,
\* which makes it a recent one.  Keys that left the cache meanwhile are skipped.
Keys == [i \in DOMAIN cache |-> conv[cache[i]].chan]

LookUp(f) ==
    LET c == Head(snap[f].keys)
    IN  /\ snap[f].keys # <<>>
        /\ snap' = [snap EXCEPT ![f] =
              [keys |-> Tail(@.keys),
               objs |-> IF InCache(c) THEN Append(@.objs, Cached(c)) ELSE @.objs]]
        /\ cache' = Touch(c)

\* The list is complete.  It misses a conversation that came into the cache
\* meanwhile or is about to, or has one that left it.
Collected(f) ==
    /\ snap[f].keys = <<>>
    /\ missed' = (Range(snap[f].objs) # Range(cache)
                   \/ (calc.pc = "add" /\ ~Contains(snap[f].objs, calc.obj)))

\* What the pointers lead to replaces the user's list in the store.
WriteTo(f) == store' = [i \in DOMAIN snap[f].objs |-> conv[snap[f].objs[i]]]

\* Mutant: the loop ends when the user is not on the list.
SaverKeysExits ==
    /\ saver = "keys"
    /\ IF needSave THEN snap' = [snap EXCEPT !["saver"] = [@ EXCEPT !.keys = Keys]] /\ saver' = "get"
       ELSE saver' = "off" /\ UNCHANGED snap
    /\ UNCHANGED <<queue, sent, conv, cache, store, calc, api, noSave, needSave, stop, calls, fails, seen, missed, raced>>

SaverKeys ==
    /\ saver = "keys"
    /\ IF needSave THEN snap' = [snap EXCEPT !["saver"] = [@ EXCEPT !.keys = Keys]] /\ saver' = "get"
       ELSE saver' = "select" /\ UNCHANGED snap
    /\ UNCHANGED <<queue, sent, conv, cache, store, calc, api, noSave, needSave, stop, calls, fails, seen, missed, raced>>

SaverGet ==
    /\ saver = "get"
    /\ LookUp("saver")
    /\ UNCHANGED <<queue, sent, conv, store, calc, api, saver, noSave, needSave, stop, calls, fails, seen, missed, raced>>

SaverCollected ==
    /\ saver = "get"
    /\ Collected("saver")
    /\ saver' = "write"
    /\ UNCHANGED <<queue, sent, conv, cache, store, calc, api, noSave, needSave, snap, stop, calls, fails, seen, raced>>

\* Mutant: the user is taken off the list although nothing was written.
SaverWriteSkipped ==
    /\ saver = "write"
    /\ saver' = "clear"
    /\ UNCHANGED <<queue, sent, conv, cache, store, calc, api, noSave, needSave, snap, stop, calls, fails, seen, missed, raced>>

SaverWrite ==
    /\ saver = "write"
    /\ WriteTo("saver")
    /\ saver' = "clear"
    /\ UNCHANGED <<queue, sent, conv, cache, calc, api, noSave, needSave, snap, stop, calls, fails, seen, missed, raced>>

\* The store refuses the list: the user stays listed, but is not counted.
SaverWriteFails ==
    /\ saver = "write" /\ fails < MaxFails
    /\ fails' = fails + 1
    /\ snap' = [snap EXCEPT !["saver"] = NoList]
    /\ saver' = "select"
    /\ UNCHANGED <<queue, sent, conv, cache, store, calc, api, noSave, needSave, stop, calls, seen, missed, raced>>

SaverClear ==
    /\ saver = "clear"
    /\ needSave' = FALSE
    /\ snap' = [snap EXCEPT !["saver"] = NoList]
    /\ saver' = "select"
    /\ UNCHANGED <<queue, sent, conv, cache, store, calc, api, noSave, stop, calls, fails, seen, missed, raced>>

-----------------------------------------------------------------------------
(* API calls. *)

SetConversationUnread(c, unread) ==
    /\ stop = "run" /\ api.pc = "idle" /\ calls < MaxApi /\ InCache(c)
    /\ calls' = calls + 1
    /\ conv' = [conv EXCEPT ![Cached(c)].unread = unread]
    /\ cache' = Touch(c)
    /\ api' = [api EXCEPT !.pc = "save"]
    /\ UNCHANGED <<queue, sent, store, calc, saver, noSave, needSave, snap, stop, fails, seen, missed, raced>>

ApiSave ==
    /\ api.pc = "save"
    /\ Receive
    /\ api' = NoApi
    /\ UNCHANGED <<queue, sent, conv, cache, store, calc, snap, stop, calls, fails, seen, missed, raced>>

\* The conversation leaves the cache; nothing is announced or written.
DeleteConversation(c) ==
    /\ stop = "run" /\ api.pc = "idle" /\ calls < MaxApi /\ InCache(c)
    /\ calls' = calls + 1
    /\ cache' = Without(c)
    /\ seen' = [seen EXCEPT ![c] = 0]
    /\ missed' = TRUE
    /\ raced' = (raced \/ calc.obj = Cached(c))
    /\ UNCHANGED <<queue, sent, conv, store, calc, api, saver, noSave, needSave, snap, stop, fails>>

\* GetConversations fills an empty cache as the loop does; then it only reads.
GetConversations ==
    /\ stop = "run" /\ api.pc = "idle" /\ calls < MaxApi /\ cache = <<>> /\ store # <<>>
    /\ calls' = calls + 1
    /\ api' = [api EXCEPT !.pc = "fill", !.fill = store]
    /\ UNCHANGED <<queue, sent, conv, cache, store, calc, saver, noSave, needSave, snap, stop, fails, seen, missed, raced>>

ApiFill(o) ==
    /\ api.pc = "fill"
    /\ FillWith(api.fill, o)
    /\ api' = IF Len(api.fill) = 1 THEN NoApi ELSE [api EXCEPT !.fill = Tail(@)]
    /\ UNCHANGED <<queue, sent, store, calc, saver, noSave, needSave, snap, stop, calls, fails, missed>>

-----------------------------------------------------------------------------
(* Stop: the loops are told to end, the queue is waited for and what is listed *)
(* is written.                                                                  *)

ConversationStop ==
    /\ Stops /\ stop = "run"
    /\ stop' = "wait"
    /\ UNCHANGED <<queue, sent, conv, cache, store, calc, api, saver, noSave, needSave, snap, calls, fails, seen, missed, raced>>

StopWaited ==
    /\ stop = "wait" /\ queue = <<>>
    /\ stop' = "keys"
    /\ UNCHANGED <<queue, sent, conv, cache, store, calc, api, saver, noSave, needSave, snap, calls, fails, seen, missed, raced>>

StopKeys ==
    /\ stop = "keys"
    /\ IF needSave THEN snap' = [snap EXCEPT !["stop"] = [@ EXCEPT !.keys = Keys]] /\ stop' = "get"
       ELSE stop' = "done" /\ UNCHANGED snap
    /\ UNCHANGED <<queue, sent, conv, cache, store, calc, api, saver, noSave, needSave, calls, fails, seen, missed, raced>>

StopGet ==
    /\ stop = "get"
    /\ LookUp("stop")
    /\ UNCHANGED <<queue, sent, conv, store, calc, api, saver, noSave, needSave, stop, calls, fails, seen, missed, raced>>

StopCollected ==
    /\ stop = "get"
    /\ Collected("stop")
    /\ stop' = "write"
    /\ UNCHANGED <<queue, sent, conv, cache, store, calc, api, saver, noSave, needSave, snap, calls, fails, seen, raced>>

StopWrite ==
    /\ stop = "write"
    /\ WriteTo("stop")
    /\ stop' = "clear"
    /\ UNCHANGED <<queue, sent, conv, cache, calc, api, saver, noSave, needSave, snap, calls, fails, seen, missed, raced>>

StopWriteFails ==
    /\ stop = "write" /\ fails < MaxFails
    /\ fails' = fails + 1
    /\ snap' = [snap EXCEPT !["stop"] = NoList]
    /\ stop' = "done"
    /\ UNCHANGED <<queue, sent, conv, cache, store, calc, api, saver, noSave, needSave, calls, seen, missed, raced>>

StopClear ==
    /\ stop = "clear"
    /\ needSave' = FALSE
    /\ snap' = [snap EXCEPT !["stop"] = NoList]
    /\ stop' = "done"
    /\ UNCHANGED <<queue, sent, conv, cache, store, calc, api, saver, noSave, calls, fails, seen, missed, raced>>

-----------------------------------------------------------------------------
CalcSteps ==
    \/ CalcPop \/ CalcReadFails \/ CalcGet \/ CalcBump
    \/ CalcSave \/ CalcAdd
    \/ \E o \in Objs : CalcFill(o) \/ CalcNew(o)

SaverSteps == SaverKeys \/ SaverGet \/ SaverCollected \/ SaverWrite \/ SaverWriteFails \/ SaverClear

ApiSteps == ApiSave \/ \E o \in Objs : ApiFill(o)

StopSteps ==
    \/ StopWaited \/ StopKeys \/ StopGet \/ StopCollected
    \/ StopWrite \/ StopWriteFails \/ StopClear

\* The loops wait for more, or for ever: a server that stops may leave them so
\* (StopReturns).
Idle ==
    /\ stop # "run" \/ (queue = <<>> /\ calc = Ready /\ api = NoApi /\ saver = "select")
    /\ UNCHANGED conversationVars

ConversationNext ==
    \/ \E c \in Chans, n \in 1 .. MaxSeq : PushMessage(c, n)
    \/ CalcSteps
    \/ SaverTick \/ SaverExit \/ SaverSteps
    \/ \E c \in Chans, unread \in Unreads : SetConversationUnread(c, unread)
    \/ \E c \in Chans : DeleteConversation(c)
    \/ GetConversations \/ ApiSteps
    \/ ConversationStop \/ StopSteps
    \/ Idle

ConversationSpec == ConversationInit /\ [][ConversationNext]_conversationVars

\* The goroutines run and the ticker ticks.
FairSpec ==
    /\ ConversationSpec
    /\ WF_conversationVars(CalcSteps) /\ WF_conversationVars(SaverTick) /\ WF_conversationVars(SaverExit) /\ WF_conversationVars(SaverSteps)
    /\ WF_conversationVars(ApiSteps) /\ WF_conversationVars(StopSteps)

-----------------------------------------------------------------------------
\* A cached conversation shows the newest message that was calculated for it
\* since it came into the cache, whatever the order of the messages and however
\* API calls and flushes interleave.  Exempt: a list loaded from the store while
\* the cache fills, or the store is written, from elsewhere, and a conversation
\* that is deleted while calcLoop holds it (raced).
LastCovers ==
    TypeOK /\ (~raced => \A i \in DOMAIN cache : conv[cache[i]].last >= seen[conv[cache[i]].chan])

Contents == { conv[cache[i]] : i \in DOMAIN cache }
Saved    == { store[i] : i \in DOMAIN store }

\* What is in the cache and not in the store will be saved: the user is listed
\* or about to be, because setNeedSave waits for the save loop and the loop
\* takes the user off the list before it listens again.  Exempt are a cache that
\* is being filled, a deletion, and a conversation that was announced before it
\* was in the cache and missed the list that was collected in between; so are
\* the races that LastCovers names.
SaveCovers ==
    (stop = "run" /\ Contents # Saved) =>
        \/ needSave \/ calc.pc = "save" \/ api.pc = "save"
        \/ cache = <<>> \/ calc.pc = "fill" \/ api.pc = "fill"
        \/ missed \/ raced

\* A listed user is saved in the end, by count or by ticker, unless the store
\* refused an operation (then the user stays listed and is not counted again)
\* or the server stops.
SavedEventually == needSave ~> (~needSave \/ fails > 0 \/ stop # "run")

\* Every queued message is calculated while the server runs: the rendezvous of
\* the two loops does not block for ever.
QueueDrains == (queue # <<>>) ~> (queue = <<>> \/ stop # "run")

\* Stop waits for the queue to complete and returns.
StopReturns == (stop = "wait") ~> (stop = "done")
=============================================================================
