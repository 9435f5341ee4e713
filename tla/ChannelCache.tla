---------------------------- MODULE ChannelCache ----------------------------
(***************************************************************************)
(* The lists of one group channel, in the store (internal/db: subscribers, *)
(* denylist, allowlist) and in the Channel objects that ChannelManager     *)
(* caches.  The HTTP handlers of internal/lim/api_channel.go change both;  *)
(* GetChannel loads an object list by list when none is cached; a send     *)
(* asks the object who may send and who gets the message.  Handlers and    *)
(* sends are goroutines that interleave at every access to the store, the  *)
(* cache or the object.                                                    *)
(*                                                                         *)
(* A handler is the sequence of its accesses (Program); a goroutine does   *)
(* the first of its list todo.  Objects are shared: a goroutine holds the  *)
(* id of one (0 for nil), and so does the cache.                           *)
(***************************************************************************)
EXTENDS Naturals, Sequences, FiniteSets

CONSTANTS
    Users,
    Admins,             \* goroutines that run a handler of the API
    Senders,            \* goroutines that send to the channel
    MaxReqs,            \* bound: requests of the API
    Reached,            \* lists whose key lies in the bucket of the channel
    CreateIfNotExist    \* the option CreateIfChannelNotExist

Lists == {"subs", "deny", "allow"}

ASSUME CacheAssumption ==
    /\ Admins \cap Senders = {} /\ IsFiniteSet(Admins) /\ IsFiniteSet(Senders) /\ MaxReqs \in Nat
    /\ Reached \subseteq Lists /\ CreateIfNotExist \in BOOLEAN

VARIABLES
    info,      \* the channel is in the store
    store,     \* its lists there
    cached,    \* the object in channelMap
    obj,       \* the lists of each object
    thr,       \* the goroutines
    reqs,
    revoked,   \* history: users denied or removed by a request that was answered
    causes     \* history: what may have put the cache and the store apart

vars == <<info, store, cached, obj, thr, reqs, revoked, causes>>

Threads == Admins \cup Senders
Ids == 1 .. Cardinality(Threads) + 1
Empty == [l \in Lists |-> {}]
None == [deny |-> {}, subs |-> {}]

\* req, uids: the request; ch: its channel object; wrote: it has changed a
\* list in the store; spoilt: what it loads is behind the store; barred:
\* those revoked when it began; got: those who received the message.
Idle == [req |-> "none", uids |-> {}, todo |-> <<>>, ch |-> 0, wrote |-> FALSE,
         spoilt |-> FALSE, barred |-> None, got |-> {}]

Init ==
    /\ info = TRUE /\ store \in [Lists -> SUBSET Users]
    /\ cached = 0 /\ obj = [i \in Ids |-> Empty]
    /\ thr = [t \in Threads |-> Idle]
    /\ reqs = 0 /\ revoked = None /\ causes = {}

-----------------------------------------------------------------------------
(* The handlers                                                            *)

Do(at, verb, list) == [at |-> at, verb |-> verb, list |-> list]
Store(verb, list) == Do("store", verb, list)
Object(verb, list) == Do("object", verb, list)
Get == Do("get", "none", "none")
Evict == Do("evict", "none", "none")
NotNil == Do("notnil", "none", "none")

\* blacklistAdd and its like: the store, then the cached object.
Through(verb, list) == <<Store(verb, list), Get, Object(verb, list)>>

channelCreateOrUpdate ==
    <<Store("put", "info"), Store("clear", "subs"), Store("add", "subs"), Evict>>

\* The lists of the channel stay in the store.
channelDelete == <<Store("delete", "info"), Store("deleteAgain", "info"), Evict>>

\* The new subscribers are not entered in the object.
addSubscriber == <<Get, NotNil, Do("exist", "none", "subs"), Store("add", "subs")>>
resetSubscriber == <<Get, NotNil, Store("clear", "subs"), Object("clear", "subs"), Store("add", "subs")>>

removeSubscriber ==
    <<Get, Store("remove", "subs"), Object("remove", "subs"), Store("conversation", "none")>>

\* Mutant: the cached object is left as it is.
blacklistAddStoreOnly == <<Store("add", "deny"), Get>>

blacklistAdd == Through("add", "deny")
blacklistRemove == Through("remove", "deny")
blacklistSet ==
    <<Store("clear", "deny"), Store("add", "deny"), Get, Object("clear", "deny"), Object("add", "deny")>>

whitelistAdd == Through("add", "allow")
whitelistRemove == Through("remove", "allow")

\* SetAllowlist ends with AddDenylist.
whitelistSet ==
    <<Store("clear", "allow"), Store("add", "allow"), Get, Object("clear", "allow"), Object("add", "deny")>>

\* GetChannel, Allow and IsSubscriber, and later GetAllSubscribers.
send == <<Get, Do("permit", "none", "none"), Do("deliver", "none", "none")>>

Program ==
    [channelCreateOrUpdate |-> channelCreateOrUpdate, channelDelete |-> channelDelete,
     addSubscriber |-> addSubscriber, resetSubscriber |-> resetSubscriber,
     removeSubscriber |-> removeSubscriber,
     blacklistAdd |-> blacklistAdd, blacklistSet |-> blacklistSet,
     blacklistRemove |-> blacklistRemove,
     whitelistAdd |-> whitelistAdd, whitelistSet |-> whitelistSet,
     whitelistRemove |-> whitelistRemove, send |-> send]

Requests == DOMAIN Program \ {"send"}

\* Requests that may be made without a user.
MayBeEmpty == {"channelCreateOrUpdate", "channelDelete", "blacklistSet", "whitelistSet"}

\* The lists a request writes to the store.
Writes(r) ==
    { Program[r][i].list : i \in { j \in DOMAIN Program[r] :
         Program[r][j].at = "store" /\ Program[r][j].list \in Lists } }

Running(t) == thr[t].req # "none"
At(t, at) == thr[t].todo # <<>> /\ Head(thr[t].todo).at = at

\* The new state of t: it has made its first access.
Went(t) == [thr[t] EXCEPT !.todo = Tail(@)]

Loading(t) == \E i \in DOMAIN thr[t].todo: thr[t].todo[i].at = "publish"

\* t has still to look at the cache or to empty it.
Looks(t) == \E i \in DOMAIN thr[t].todo: thr[t].todo[i].at \in {"get", "evict"}

\* All others that are loading a channel will store one that is behind.
Spoil(t, new) ==
    thr' = [x \in Threads |-> IF x = t THEN new
                              ELSE [thr[x] EXCEPT !.spoilt = @ \/ Loading(x)]]

\* Objects nobody refers to are gone.
Kept(f) == [i \in Ids |-> IF i = cached' \/ \E t \in Threads: thr'[t].ch = i THEN f[i] ELSE Empty]

-----------------------------------------------------------------------------
(* Requests                                                                *)

\* What was revoked counts until a request begins that may undo it.
Undone(r, uids, b) ==
    [deny |-> CASE r \in {"blacklistSet", "blacklistRemove"} -> {}
                [] r \in {"whitelistAdd", "whitelistSet"}    -> b.deny \ uids
                [] OTHER                                     -> b.deny,
     subs |-> IF r \in {"addSubscriber", "resetSubscriber", "channelCreateOrUpdate"}
              THEN b.subs \ uids ELSE b.subs]

\* Another request that changes one of the same lists is under way.
Contends(r) == \E x \in Admins: Running(x) /\ Writes(thr[x].req) \cap Writes(r) # {}

Request(t, r, uids) ==
    /\ ~Running(t)
    /\ reqs < MaxReqs /\ reqs' = reqs + 1
    /\ uids # {} \/ r \in MayBeEmpty
    /\ thr' = [x \in Threads |->
                 IF x = t THEN [Idle EXCEPT !.req = r, !.uids = uids, !.todo = Program[r]]
                 ELSE [thr[x] EXCEPT !.barred = Undone(r, uids, @)]]
    /\ revoked' = Undone(r, uids, revoked)
    /\ causes' = IF Contends(r) THEN causes \cup {"contended"} ELSE causes
    /\ UNCHANGED <<info, store, cached, obj>>

Send(t, u) ==
    /\ ~Running(t)
    /\ thr' = [thr EXCEPT ![t] = [Idle EXCEPT !.req = "send", !.uids = {u}, !.todo = send,
                                              !.barred = revoked]]
    /\ UNCHANGED <<info, store, cached, obj, reqs, revoked, causes>>

\* The whitelist, which goes before the denylist, is about to change.
Whitelisting == \E x \in Admins: Running(x) /\ "allow" \in Writes(thr[x].req)

\* The answer OK, or the end of a send.
Done(t) ==
    /\ Running(t) /\ thr[t].todo = <<>>
    /\ thr' = [thr EXCEPT ![t] = Idle]
    /\ LET uids(r) == IF thr[t].req = r THEN thr[t].uids ELSE {}
           welcome == IF Whitelisting THEN Users ELSE store["allow"]
       IN
       revoked' = [deny |-> revoked.deny \cup (uids("blacklistAdd") \ welcome),
                   subs |-> revoked.subs \cup uids("removeSubscriber")]
    /\ UNCHANGED <<info, store, cached, reqs, causes>>
    /\ obj' = Kept(obj)

\* An error ends the request where it is; so does a panic on a nil channel.
Abandon(t) ==
    /\ thr' = [thr EXCEPT ![t] = Idle]
    /\ causes' = IF thr[t].wrote \/ store' # store THEN causes \cup {"failed"} ELSE causes
    /\ UNCHANGED <<cached, reqs, revoked>>
    /\ obj' = Kept(obj)

-----------------------------------------------------------------------------
(* The store: each call is one transaction or one agreed command           *)

\* What a list becomes.
Changed(verb, list, uids) ==
    CASE verb = "add"    -> list \cup uids
      [] verb = "clear"  -> {}
      [] verb = "remove" -> list \ uids

\* removeList looks into the bucket of the list's own key.
Misses(s) == s.verb = "remove" /\ s.list \notin Reached

Put(t, s) ==
    /\ store' = IF s.list \in Lists /\ ~Misses(s)
                THEN [store EXCEPT ![s.list] = Changed(s.verb, @, thr[t].uids)] ELSE store
    /\ info' = (s.verb = "put" \/ (info /\ s.verb \notin {"delete", "deleteAgain"}))

\* The store is changed after t has taken its object from the cache.
Late(t, s) == s.list \in Lists /\ s.verb # "add" /\ ~Looks(t)

StoreStep(t) ==
    /\ At(t, "store")
    /\ LET s == Head(thr[t].todo)
           new == [Went(t) EXCEPT !.wrote = @ \/ s.list \in Lists]
       IN /\ Put(t, s)
          /\ IF Late(t, s) THEN Spoil(t, new) ELSE thr' = [thr EXCEPT ![t] = new]
          /\ causes' = causes \cup (IF Misses(s) THEN {"missed"} ELSE {})
                         \cup (IF Late(t, s) /\ thr[t].ch # cached THEN {"replaced"} ELSE {})
    /\ UNCHANGED <<cached, obj, reqs, revoked>>

\* An error; an agreed command may have been applied all the same.
\* DeleteChannel of the manager fails unnoticed.
StoreFails(t) ==
    /\ At(t, "store")
    /\ Put(t, Head(thr[t].todo)) \/ UNCHANGED <<info, store>>
    /\ Abandon(t)

\* addSubscriber adds those that are not in the store's list.
Exist(t) ==
    /\ At(t, "exist")
    /\ LET fresh == thr[t].uids \ store["subs"] IN
       thr' = [thr EXCEPT ![t] = [Went(t) EXCEPT !.uids = fresh, !.todo = IF fresh = {} THEN <<>> ELSE @]]
    /\ UNCHANGED <<info, store, cached, obj, reqs, revoked, causes>>

-----------------------------------------------------------------------------
(* ChannelManager                                                          *)

Load == <<Do("read", "none", "subs"), Do("read", "none", "deny"), Do("read", "none", "allow"), Do("publish", "none", "none")>>

Free(i) == i # cached /\ \A t \in Threads: thr[t].ch # i

\* A request that looks at the cache after it has written: loads that are
\* under way will not show it what it has to change.
Turn(t, new) ==
    IF thr[t].wrote THEN Spoil(t, new) ELSE thr' = [thr EXCEPT ![t] = new]

\* GetChannel: the cached object, nil, or the start of a load.
GetChannel(t) ==
    /\ At(t, "get")
    /\ \/ cached # 0 /\ Turn(t, [Went(t) EXCEPT !.ch = cached])
       \/ cached = 0 /\ ~info /\ ~CreateIfNotExist /\ Turn(t, Went(t))
       \/ /\ cached = 0 /\ (info \/ CreateIfNotExist)
          /\ \E i \in Ids: /\ Free(i) /\ \A j \in Ids: Free(j) => i <= j
                           /\ Turn(t, [Went(t) EXCEPT !.ch = i, !.todo = Load \o @])
    /\ UNCHANGED <<info, store, cached, obj, reqs, revoked, causes>>

\* initSubscribers, initBlacklist, initWhitelist
Read(t) ==
    /\ At(t, "read")
    /\ LET l == Head(thr[t].todo).list IN obj' = [obj EXCEPT ![thr[t].ch][l] = store[l]]
    /\ thr' = [thr EXCEPT ![t] = Went(t)]
    /\ UNCHANGED <<info, store, cached, reqs, revoked, causes>>

\* An error of the first look into the store, or of one of the lists.
LoadFails(t) ==
    /\ At(t, "read") \/ (At(t, "get") /\ cached = 0)
    /\ UNCHANGED <<info, store>>
    /\ Abandon(t)

Publish(t) ==
    /\ At(t, "publish")
    /\ cached' = thr[t].ch
    /\ thr' = [thr EXCEPT ![t] = [Went(t) EXCEPT !.spoilt = FALSE]]
    /\ causes' = IF thr[t].spoilt THEN causes \cup {"overlap"} ELSE causes
    /\ obj' = Kept(obj)
    /\ UNCHANGED <<info, store, reqs, revoked>>

DeleteChannelFromCache(t) ==
    /\ At(t, "evict")
    /\ cached' = 0
    /\ Turn(t, Went(t))
    /\ obj' = Kept(obj)
    /\ UNCHANGED <<info, store, reqs, revoked, causes>>

-----------------------------------------------------------------------------
(* The channel object                                                      *)

\* addSubscriber finds nil and answers with an error, the others panic.
NilChannel(t) ==
    /\ At(t, "object") \/ At(t, "notnil")
    /\ thr[t].ch = 0
    /\ UNCHANGED <<info, store>>
    /\ Abandon(t)

HasChannel(t) ==
    /\ At(t, "notnil") /\ thr[t].ch # 0
    /\ thr' = [thr EXCEPT ![t] = Went(t)]
    /\ UNCHANGED <<info, store, cached, obj, reqs, revoked, causes>>

ObjectStep(t) ==
    /\ At(t, "object") /\ thr[t].ch # 0
    /\ LET s == Head(thr[t].todo) IN
       /\ obj' = [obj EXCEPT ![thr[t].ch][s.list] = Changed(s.verb, @, thr[t].uids)]
       /\ causes' = IF thr[t].req = "whitelistSet" /\ s.list = "deny" /\ thr[t].uids # {}
                    THEN causes \cup {"allowSet"} ELSE causes
    /\ thr' = [thr EXCEPT ![t] = Went(t)]
    /\ UNCHANGED <<info, store, cached, reqs, revoked>>

\* Mutant: without a whitelist everybody may send.
AllowAll(c, u) == c["allow"] # {} => u \in c["allow"]

\* A whitelist alone decides, if there is one.
Allow(c, u) == IF c["allow"] # {} THEN u \in c["allow"] ELSE u \notin c["deny"]

\* getSendChannel: a refusal ends the send.
Permit(t) ==
    /\ At(t, "permit")
    /\ LET ok == /\ thr[t].ch # 0
                 /\ \A u \in thr[t].uids: Allow(obj[thr[t].ch], u) /\ u \in obj[thr[t].ch]["subs"]
       IN thr' = [thr EXCEPT ![t] = [Went(t) EXCEPT !.todo = IF ok THEN @ ELSE <<>>]]
    /\ UNCHANGED <<info, store, cached, obj, reqs, revoked, causes>>

\* PutMessage
Deliver(t) ==
    /\ At(t, "deliver")
    /\ thr' = [thr EXCEPT ![t] = [Went(t) EXCEPT !.got = obj[thr[t].ch]["subs"]]]
    /\ UNCHANGED <<info, store, cached, obj, reqs, revoked, causes>>

-----------------------------------------------------------------------------
Step(t) ==
    \/ StoreStep(t) \/ StoreFails(t) \/ Exist(t)
    \/ GetChannel(t) \/ Read(t) \/ LoadFails(t) \/ Publish(t) \/ DeleteChannelFromCache(t)
    \/ NilChannel(t) \/ HasChannel(t) \/ ObjectStep(t) \/ Permit(t) \/ Deliver(t) \/ Done(t)

Next ==
    \/ \E t \in Admins, r \in Requests, uids \in SUBSET Users: Request(t, r, uids)
    \/ \E t \in Senders, u \in Users: Send(t, u)
    \/ \E t \in Threads: Step(t)

Spec == Init /\ [][Next]_vars

-----------------------------------------------------------------------------
TypeOK ==
    /\ info \in BOOLEAN /\ cached \in {0} \cup Ids
    /\ store \in [Lists -> SUBSET Users] /\ obj \in [Ids -> [Lists -> SUBSET Users]]
    /\ \A t \in Threads: thr[t].ch \in {0} \cup Ids
    /\ revoked.deny \subseteq Users /\ revoked.subs \subseteq Users

\* When no request is under way, the cached channel has the lists of the
\* store, except for subscribers added since it was loaded; this holds
\* beside any number of sends, which load the channel too.  The cases in
\* which it does not are recorded as causes: a load that a request's change
\* overtakes, an object replaced under a request, two requests that change
\* the same list, an error between the store and the cache, a removal in
\* the wrong bucket, and SetAllowlist.
CacheCoherent ==
    /\ TypeOK
    /\ causes = {} /\ cached # 0 /\ (\A t \in Admins: ~Running(t)) =>
          /\ obj[cached]["deny"] = store["deny"]
          /\ obj[cached]["allow"] = store["allow"]
          /\ obj[cached]["subs"] \subseteq store["subs"]

\* Who was put on the denylist, or removed from the subscribers, by a
\* request that was answered with OK cannot send, or gets no message, in a
\* send that begins after the answer, whether it finds the channel cached
\* or loads it, unless one of the causes is there or a later request
\* undoes it (blacklistAdd, removeSubscriber, getSendChannel, PutMessage).
\* It speaks of channels without Parent, whose members are the subscribers
\* (channel.go:183), and of ordinary accounts: a system account may always
\* send (channel.go:205).
RevocationHolds ==
    \A t \in Senders: causes = {} =>
       /\ thr[t].got \cap thr[t].barred.subs = {}
       /\ At(t, "deliver") => thr[t].uids \cap (thr[t].barred.deny \cup thr[t].barred.subs) = {}
=============================================================================
