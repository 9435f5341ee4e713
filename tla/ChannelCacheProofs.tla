------------------------- MODULE ChannelCacheProofs -------------------------
(***************************************************************************)
(* Proofs about the channel cache, for any users, handlers and sends.      *)
(*                                                                         *)
(* A handler that has changed a list in the store has still to change the  *)
(* object.  What relates the two meanwhile is what both will be when the   *)
(* handler has done what is left of its list (After).                      *)
(***************************************************************************)
EXTENDS ChannelCache, SequenceTheorems, FiniteSetTheorems, TLAPS

-----------------------------------------------------------------------------
(* Inductive invariant *)

Verbs == {"add", "clear", "remove", "put", "delete", "deleteAgain", "conversation", "none"}
Accesses ==
    [at : {"store", "object", "get", "evict", "notnil", "exist", "permit", "deliver", "read", "publish"},
     verb : Verbs, list : Lists \cup {"info", "none"}]
Bars == [deny : SUBSET Users, subs : SUBSET Users]

Goroutines ==
    [req : DOMAIN Program \cup {"none"}, uids : SUBSET Users, todo : Seq(Accesses),
     ch : {0} \cup Ids, wrote : BOOLEAN, spoilt : BOOLEAN, barred : Bars, got : SUBSET Users]

Types ==
    /\ info \in BOOLEAN /\ cached \in {0} \cup Ids
    /\ store \in [Lists -> SUBSET Users] /\ obj \in [Ids -> [Lists -> SUBSET Users]]
    /\ thr \in [Threads -> Goroutines]
    /\ revoked \in Bars

\* s is what is left of the request r when its first k accesses are done, and
\* the last j of a load that the k-th one has begun.
Way(r, s, k, j) ==
    LET P == Program[r]
    IN  /\ k \in 0 .. Len(P) /\ j \in 0 .. 4
        /\ j > 0 => k > 0 /\ P[k] = Get
        /\ s \in Seq(Accesses) /\ Len(s) = j + (Len(P) - k)
        /\ \A i \in 1 .. j: s[i] = Load[(4 - j) + i]
        /\ \A i \in 1 .. Len(P) - k: s[j + i] = P[k + i]

OnWay(r, s) == \E k \in 0 .. 5, j \in 0 .. 4: Way(r, s, k, j)

\* x is still to be done.
Ahead(s, x) == \E i \in DOMAIN s: s[i] = x

\* The first access of r that changes a list in the store.
First(r) ==
    CASE r \in {"channelCreateOrUpdate", "resetSubscriber"} -> Store("clear", "subs")
      [] r = "removeSubscriber" -> Store("remove", "subs")
      [] r = "blacklistAdd" -> Store("add", "deny")
      [] r = "blacklistSet" -> Store("clear", "deny")
      [] r = "blacklistRemove" -> Store("remove", "deny")
      [] r = "whitelistAdd" -> Store("add", "allow")
      [] r = "whitelistSet" -> Store("clear", "allow")
      [] r = "whitelistRemove" -> Store("remove", "allow")
      [] OTHER -> Get

\* Where a goroutine is in its request.
Placed(t) ==
    /\ ~Running(t) => thr[t].todo = <<>> /\ thr[t].ch = 0 /\ thr[t].got = {}
    /\ Running(t) => OnWay(thr[t].req, thr[t].todo)
    /\ t \in Admins /\ Running(t) => thr[t].req \in Requests
    /\ t \in Senders /\ Running(t) => thr[t].req = "send"
    /\ t \in Admins /\ Running(t) /\ thr[t].req \notin {"channelDelete", "addSubscriber"} =>
          thr[t].wrote \/ Ahead(thr[t].todo, First(thr[t].req))
    /\ thr[t].spoilt => Loading(t)
    /\ Loading(t) => thr[t].ch # 0
    /\ Ahead(thr[t].todo, Do("deliver", "none", "none")) /\ ~Ahead(thr[t].todo, Do("permit", "none", "none")) =>
          thr[t].ch # 0

\* The object that a goroutine loads is its own.
Private ==
    \A t \in Threads: Loading(t) =>
        thr[t].ch # cached /\ \A x \in Threads: x # t => thr[x].ch # thr[t].ch

Writing(t, l) == Running(t) /\ l \in Writes(thr[t].req)

\* Two requests under way change different lists.
OneWriter == \A t, x \in Admins, l \in Lists: Writing(t, l) /\ Writing(x, l) => t = x

\* What the list l, now v, is after the accesses s.
After(at, s, l, uids, v) ==
    LET c == IF Ahead(s, Do(at, "clear", l)) THEN {} ELSE v
        d == IF Ahead(s, Do(at, "remove", l)) THEN c \ uids ELSE c
    IN  IF Ahead(s, Do(at, "add", l)) THEN d \cup uids ELSE d

ObjectAfter(t, l, v) == After("object", thr[t].todo, l, thr[t].uids, v)
StoreAfter(t, l) == After("store", thr[t].todo, l, thr[t].uids, store[l])

Agree(l, a, b) == IF l = "subs" THEN a \subseteq b ELSE a = b

\* SetAllowlist of someone, which leaves the whitelist of the object empty.
Empties(t) == thr[t].req = "whitelistSet" /\ thr[t].uids # {}

EmptiesFirst == \A t \in Admins: Running(t) /\ Empties(t) => Ahead(thr[t].todo, Object("add", "deny"))

\* The cache will be emptied, or a cause will be recorded.
Exempt(t) == Ahead(thr[t].todo, Evict) \/ Empties(t)

\* A handler does to the store what it does to the object.
SameEffect ==
    \A t \in Admins, l \in Lists:
        Writing(t, l) => Exempt(t) \/ Agree(l, ObjectAfter(t, l, store[l]), StoreAfter(t, l))

\* t, which changes the list l, and the object i.
Meets(t, i, l) ==
    IF ~thr[t].wrote THEN Agree(l, obj[i][l], store[l])
    ELSE \/ Exempt(t)
         \/ IF Looks(t) \/ thr[t].ch = i THEN Agree(l, ObjectAfter(t, l, obj[i][l]), StoreAfter(t, l))
            ELSE Agree(l, obj[i][l], store[l])

Coheres(i, l) ==
    /\ (\A t \in Admins: ~Writing(t, l)) => Agree(l, obj[i][l], store[l])
    /\ \A t \in Admins: Writing(t, l) => Meets(t, i, l)

\* The list l of the object i is, or will be, what the cache shows.
Shown(i, l) ==
    \/ i = cached
    \/ \E x \in Threads: /\ Loading(x) /\ ~thr[x].spoilt /\ thr[x].ch = i
                         /\ ~Ahead(thr[x].todo, Do("read", "none", l))

Coherent == \A i \in Ids, l \in Lists: Shown(i, l) => Coheres(i, l)

\* The list l, which is v, keeps out whom b names: the denied are on the denylist
\* and not on the whitelist, the removed are no subscribers.
Denies(l, v, b) ==
    CASE l = "deny"  -> b.deny \subseteq v
      [] l = "allow" -> b.deny \cap v = {}
      [] l = "subs"  -> b.subs \cap v = {}

StoreBars == \A l \in Lists: Denies(l, store[l], revoked)
CacheBars == \A i \in Ids, l \in Lists: Shown(i, l) => Denies(l, obj[i][l], revoked)
SendBars == \A t \in Senders, l \in Lists:
    thr[t].ch # 0 /\ ~Loading(t) => Denies(l, obj[thr[t].ch][l], thr[t].barred)

BarredRevoked == \A t \in Senders:
    thr[t].barred.deny \subseteq revoked.deny /\ thr[t].barred.subs \subseteq revoked.subs

\* A request that may undo what was revoked has been taken off it.
Cleared(t) ==
    /\ thr[t].req \in {"blacklistSet", "blacklistRemove"} => revoked.deny = {}
    /\ thr[t].req \in {"whitelistAdd", "whitelistSet"} => revoked.deny \cap thr[t].uids = {}
    /\ thr[t].req \in {"addSubscriber", "resetSubscriber", "channelCreateOrUpdate"} =>
          revoked.subs \cap thr[t].uids = {}

\* What a revoking request has stored.
Effective(t) ==
    /\ thr[t].req = "blacklistAdd" /\ ~Ahead(thr[t].todo, Store("add", "deny")) =>
          thr[t].uids \subseteq store["deny"]
    /\ thr[t].req = "removeSubscriber" /\ ~Ahead(thr[t].todo, Store("remove", "subs")) =>
          thr[t].uids \cap store["subs"] = {}

Requested == \A t \in Admins: Cleared(t) /\ Effective(t)

Revokes == StoreBars /\ CacheBars /\ SendBars /\ BarredRevoked /\ Requested /\ RevocationHolds

Base == Types /\ (\A t \in Threads: Placed(t)) /\ Private

IndInv ==
    /\ Base
    /\ causes = {} => OneWriter /\ SameEffect /\ EmptiesFirst /\ Coherent /\ Revokes

-----------------------------------------------------------------------------
(* Lists of accesses *)

LEMMA Programs ==
  /\ Program["channelCreateOrUpdate"] =
        <<Store("put", "info"), Store("clear", "subs"), Store("add", "subs"), Evict>>
  /\ Program["channelDelete"] = <<Store("delete", "info"), Store("deleteAgain", "info"), Evict>>
  /\ Program["addSubscriber"] = <<Get, NotNil, Do("exist", "none", "subs"), Store("add", "subs")>>
  /\ Program["resetSubscriber"] =
        <<Get, NotNil, Store("clear", "subs"), Object("clear", "subs"), Store("add", "subs")>>
  /\ Program["removeSubscriber"] =
        <<Get, Store("remove", "subs"), Object("remove", "subs"), Store("conversation", "none")>>
  /\ Program["blacklistAdd"] = <<Store("add", "deny"), Get, Object("add", "deny")>>
  /\ Program["blacklistRemove"] = <<Store("remove", "deny"), Get, Object("remove", "deny")>>
  /\ Program["blacklistSet"] =
        <<Store("clear", "deny"), Store("add", "deny"), Get, Object("clear", "deny"), Object("add", "deny")>>
  /\ Program["whitelistAdd"] = <<Store("add", "allow"), Get, Object("add", "allow")>>
  /\ Program["whitelistRemove"] = <<Store("remove", "allow"), Get, Object("remove", "allow")>>
  /\ Program["whitelistSet"] =
        <<Store("clear", "allow"), Store("add", "allow"), Get, Object("clear", "allow"), Object("add", "deny")>>
  /\ Program["send"] = <<Get, Do("permit", "none", "none"), Do("deliver", "none", "none")>>
  BY DEF Program, channelCreateOrUpdate, channelDelete, addSubscriber, resetSubscriber, removeSubscriber,
         blacklistAdd, blacklistRemove, blacklistSet, whitelistAdd, whitelistRemove, whitelistSet, send, Through

Handlers == {"channelCreateOrUpdate", "channelDelete", "addSubscriber", "resetSubscriber", "removeSubscriber",
             "blacklistAdd", "blacklistRemove", "blacklistSet", "whitelistAdd", "whitelistRemove", "whitelistSet"}

LEMMA ProgramDomain == DOMAIN Program = Handlers \cup {"send"} /\ Requests = Handlers
  BY DEF Program, Requests, Handlers

\* The accesses of a program differ, and none is one of a load.
Regular(P) ==
    /\ P \in Seq(Accesses) /\ Len(P) \in 1 .. 5
    /\ \A i, j \in 1 .. Len(P): P[i] = P[j] => i = j
    /\ \A i \in 1 .. Len(P): P[i].at \notin {"read", "publish"}

LEMMA Regular3 ==
  ASSUME NEW a \in Accesses, NEW b \in Accesses, NEW c \in Accesses,
         a # b, a # c, b # c,
         a.at \notin {"read", "publish"}, b.at \notin {"read", "publish"}, c.at \notin {"read", "publish"}
  PROVE  Regular(<<a, b, c>>)
  <1> DEFINE P == <<a, b, c>>
  <1>1. P \in Seq(Accesses) OBVIOUS
  <1>2. Len(P) = 3 OBVIOUS
  <1>3. P[1] = a /\ P[2] = b /\ P[3] = c OBVIOUS
  <1>4. \A i \in 1 .. 3: i = 1 \/ i = 2 \/ i = 3 OBVIOUS
  <1> HIDE DEF P
  <1>5. \A i, j \in 1 .. 3: P[i] = P[j] => i = j BY <1>3, <1>4
  <1>6. \A i \in 1 .. 3: P[i].at \notin {"read", "publish"} BY <1>3, <1>4
  <1>7. Regular(P) BY <1>1, <1>2, <1>5, <1>6 DEF Regular
  <1> QED BY <1>7 DEF P

LEMMA Regular4 ==
  ASSUME NEW a \in Accesses, NEW b \in Accesses, NEW c \in Accesses, NEW d \in Accesses,
         a # b, a # c, a # d, b # c, b # d, c # d,
         a.at \notin {"read", "publish"}, b.at \notin {"read", "publish"}, c.at \notin {"read", "publish"}, d.at \notin {"read", "publish"}
  PROVE  Regular(<<a, b, c, d>>)
  <1> DEFINE P == <<a, b, c, d>>
  <1>1. P \in Seq(Accesses) OBVIOUS
  <1>2. Len(P) = 4 OBVIOUS
  <1>3. P[1] = a /\ P[2] = b /\ P[3] = c /\ P[4] = d OBVIOUS
  <1>4. \A i \in 1 .. 4: i = 1 \/ i = 2 \/ i = 3 \/ i = 4 OBVIOUS
  <1> HIDE DEF P
  <1>5. \A i, j \in 1 .. 4: P[i] = P[j] => i = j BY <1>3, <1>4
  <1>6. \A i \in 1 .. 4: P[i].at \notin {"read", "publish"} BY <1>3, <1>4
  <1>7. Regular(P) BY <1>1, <1>2, <1>5, <1>6 DEF Regular
  <1> QED BY <1>7 DEF P

LEMMA Regular5 ==
  ASSUME NEW a \in Accesses, NEW b \in Accesses, NEW c \in Accesses, NEW d \in Accesses, NEW e \in Accesses,
         a # b, a # c, a # d, a # e, b # c, b # d, b # e, c # d, c # e, d # e,
         a.at \notin {"read", "publish"}, b.at \notin {"read", "publish"}, c.at \notin {"read", "publish"}, d.at \notin {"read", "publish"}, e.at \notin {"read", "publish"}
  PROVE  Regular(<<a, b, c, d, e>>)
  <1> DEFINE P == <<a, b, c, d, e>>
  <1>1. P \in Seq(Accesses) OBVIOUS
  <1>2. Len(P) = 5 OBVIOUS
  <1>3. P[1] = a /\ P[2] = b /\ P[3] = c /\ P[4] = d /\ P[5] = e OBVIOUS
  <1>4. \A i \in 1 .. 5: i = 1 \/ i = 2 \/ i = 3 \/ i = 4 \/ i = 5 OBVIOUS
  <1> HIDE DEF P
  <1>5. \A i, j \in 1 .. 5: P[i] = P[j] => i = j BY <1>3, <1>4
  <1>6. \A i \in 1 .. 5: P[i].at \notin {"read", "publish"} BY <1>3, <1>4
  <1>7. Regular(P) BY <1>1, <1>2, <1>5, <1>6 DEF Regular
  <1> QED BY <1>7 DEF P

LEMMA Regularity ==
  ASSUME NEW r \in DOMAIN Program PROVE Regular(Program[r])
  <1> USE DEF Accesses, Verbs, Lists, Store, Object, Get, Evict, NotNil, Do
  <1>1. Regular(<<Store("put", "info"), Store("clear", "subs"), Store("add", "subs"), Evict>>) BY Regular4
  <1>2. Regular(<<Store("delete", "info"), Store("deleteAgain", "info"), Evict>>) BY Regular3
  <1>3. Regular(<<Get, NotNil, Do("exist", "none", "subs"), Store("add", "subs")>>) BY Regular4
  <1>4. Regular(<<Get, NotNil, Store("clear", "subs"), Object("clear", "subs"), Store("add", "subs")>>) BY Regular5
  <1>5. Regular(<<Get, Store("remove", "subs"), Object("remove", "subs"), Store("conversation", "none")>>) BY Regular4
  <1>6. Regular(<<Store("add", "deny"), Get, Object("add", "deny")>>) BY Regular3
  <1>7. Regular(<<Store("remove", "deny"), Get, Object("remove", "deny")>>) BY Regular3
  <1>8. Regular(<<Store("clear", "deny"), Store("add", "deny"), Get, Object("clear", "deny"), Object("add", "deny")>>) BY Regular5
  <1>9. Regular(<<Store("add", "allow"), Get, Object("add", "allow")>>) BY Regular3
  <1>10. Regular(<<Store("remove", "allow"), Get, Object("remove", "allow")>>) BY Regular3
  <1>11. Regular(<<Store("clear", "allow"), Store("add", "allow"), Get, Object("clear", "allow"), Object("add", "deny")>>) BY Regular5
  <1>12. Regular(<<Get, Do("permit", "none", "none"), Do("deliver", "none", "none")>>) BY Regular3
  <1> QED BY <1>1, <1>2, <1>3, <1>4, <1>5, <1>6, <1>7, <1>8, <1>9, <1>10, <1>11, <1>12, Programs, ProgramDomain DEF Handlers

LEMMA Fields ==
  /\ \A a, b, c: Do(a, b, c).at = a /\ Do(a, b, c).verb = b /\ Do(a, b, c).list = c
  /\ \A b, c: Store(b, c) = Do("store", b, c) /\ Object(b, c) = Do("object", b, c)
  /\ Get = Do("get", "none", "none") /\ Evict = Do("evict", "none", "none") /\ NotNil = Do("notnil", "none", "none")
  BY DEF Do, Store, Object, Get, Evict, NotNil

LEMMA Eta ==
  ASSUME NEW x \in Accesses PROVE x = Do(x.at, x.verb, x.list)
  BY DEF Do, Accesses

LEMMA Quad ==
  ASSUME NEW a \in Accesses, NEW b \in Accesses, NEW c \in Accesses, NEW d \in Accesses
  PROVE  <<a, b, c, d>> \in Seq(Accesses) /\ Len(<<a, b, c, d>>) = 4
  OBVIOUS

LEMMA Loads ==
  /\ Load \in Seq(Accesses) /\ Len(Load) = 4
  /\ Load[1] = Do("read", "none", "subs") /\ Load[2] = Do("read", "none", "deny")
  /\ Load[3] = Do("read", "none", "allow") /\ Load[4] = Do("publish", "none", "none")
  /\ \A i, j \in 1 .. 4: Load[i] = Load[j] => i = j
  /\ \A i \in 1 .. 4: Load[i].at \in {"read", "publish"}
  <1>1. Do("read", "none", "subs") \in Accesses /\ Do("read", "none", "deny") \in Accesses
        /\ Do("read", "none", "allow") \in Accesses /\ Do("publish", "none", "none") \in Accesses
    BY DEF Do, Accesses, Verbs, Lists
  <1>2. Load \in Seq(Accesses) /\ Len(Load) = 4 BY <1>1, Quad DEF Load
  <1>3. Load[1] = Do("read", "none", "subs") /\ Load[2] = Do("read", "none", "deny")
        /\ Load[3] = Do("read", "none", "allow") /\ Load[4] = Do("publish", "none", "none")
    BY DEF Load
  <1>4. \A i \in 1 .. 4: i = 1 \/ i = 2 \/ i = 3 \/ i = 4 OBVIOUS
  <1>5. \A i, j \in 1 .. 4: Load[i] = Load[j] => i = j BY <1>3, <1>4, Fields
  <1>6. \A i \in 1 .. 4: Load[i].at \in {"read", "publish"} BY <1>3, <1>4, Fields
  <1> QED BY <1>2, <1>3, <1>5, <1>6

\* The accesses of a program one by one.
Steps3(P, a, b, c) == Len(P) = 3 /\ P[1] = a /\ P[2] = b /\ P[3] = c
Steps4(P, a, b, c, d) == Len(P) = 4 /\ P[1] = a /\ P[2] = b /\ P[3] = c /\ P[4] = d
Steps5(P, a, b, c, d, e) == Len(P) = 5 /\ P[1] = a /\ P[2] = b /\ P[3] = c /\ P[4] = d /\ P[5] = e

LEMMA Positions ==
  /\ Steps4(Program["channelCreateOrUpdate"], Store("put", "info"), Store("clear", "subs"), Store("add", "subs"), Evict)
  /\ Steps3(Program["channelDelete"], Store("delete", "info"), Store("deleteAgain", "info"), Evict)
  /\ Steps4(Program["addSubscriber"], Get, NotNil, Do("exist", "none", "subs"), Store("add", "subs"))
  /\ Steps5(Program["resetSubscriber"], Get, NotNil, Store("clear", "subs"), Object("clear", "subs"), Store("add", "subs"))
  /\ Steps4(Program["removeSubscriber"], Get, Store("remove", "subs"), Object("remove", "subs"), Store("conversation", "none"))
  /\ Steps3(Program["blacklistAdd"], Store("add", "deny"), Get, Object("add", "deny"))
  /\ Steps3(Program["blacklistRemove"], Store("remove", "deny"), Get, Object("remove", "deny"))
  /\ Steps5(Program["blacklistSet"], Store("clear", "deny"), Store("add", "deny"), Get, Object("clear", "deny"), Object("add", "deny"))
  /\ Steps3(Program["whitelistAdd"], Store("add", "allow"), Get, Object("add", "allow"))
  /\ Steps3(Program["whitelistRemove"], Store("remove", "allow"), Get, Object("remove", "allow"))
  /\ Steps5(Program["whitelistSet"], Store("clear", "allow"), Store("add", "allow"), Get, Object("clear", "allow"), Object("add", "deny"))
  /\ Steps3(Program["send"], Get, Do("permit", "none", "none"), Do("deliver", "none", "none"))
  <1>3. ASSUME NEW a, NEW b, NEW c PROVE Steps3(<<a, b, c>>, a, b, c) BY DEF Steps3
  <1>4. ASSUME NEW a, NEW b, NEW c, NEW d PROVE Steps4(<<a, b, c, d>>, a, b, c, d) BY DEF Steps4
  <1>5. ASSUME NEW a, NEW b, NEW c, NEW d, NEW e PROVE Steps5(<<a, b, c, d, e>>, a, b, c, d, e) BY DEF Steps5
  <1> QED BY <1>3, <1>4, <1>5, Programs

\* What is ahead, in numbers.
LEMMA WayAhead ==
  ASSUME NEW r \in DOMAIN Program, NEW s, NEW k, NEW j, Way(r, s, k, j)
  PROVE  /\ \A i \in 1 .. Len(Program[r]): Ahead(s, Program[r][i]) <=> i > k
         /\ \A i \in 1 .. 4: Ahead(s, Load[i]) <=> i > 4 - j
         /\ \A x: Ahead(s, x) => \/ \E i \in 1 .. Len(Program[r]): x = Program[r][i]
                                 \/ \E i \in 1 .. 4: x = Load[i]
  <1> DEFINE P == Program[r]
  <1>1. Regular(P) BY Regularity
  <1>2. P \in Seq(Accesses) /\ Len(P) \in Nat BY <1>1 DEF Regular
  <1>3. /\ k \in 0 .. Len(P) /\ j \in 0 .. 4
        /\ s \in Seq(Accesses) /\ Len(s) = j + (Len(P) - k)
        /\ \A i \in 1 .. j: s[i] = Load[(4 - j) + i]
        /\ \A i \in 1 .. Len(P) - k: s[j + i] = P[k + i]
    BY DEF Way
  <1>4. DOMAIN s = 1 .. Len(s) BY <1>3
  <1>5. \A i \in 1 .. Len(P), n \in 1 .. 4: P[i] # Load[n] BY <1>1, Loads DEF Regular
  <1>6. ASSUME NEW i \in 1 .. Len(s) PROVE \/ i \in 1 .. j /\ s[i] = Load[(4 - j) + i]
                                           \/ i - j \in 1 .. Len(P) - k /\ s[i] = P[k + (i - j)]
    <2> HIDE DEF P
    <2>1. CASE i <= j BY <2>1, <1>3
    <2>2. CASE i > j
      <3>1. i - j \in 1 .. Len(P) - k BY <2>2, <1>2, <1>3
      <3>2. s[j + (i - j)] = P[k + (i - j)] BY <3>1, <1>3
      <3>3. j + (i - j) = i BY <1>3
      <3> QED BY <3>1, <3>2, <3>3
    <2> QED BY <2>1, <2>2, <1>3
  <1>7. ASSUME NEW i \in 1 .. Len(P) PROVE Ahead(s, P[i]) <=> i > k
    <2> HIDE DEF P
    <2>1. ASSUME i > k PROVE Ahead(s, P[i])
      <3>1. i - k \in 1 .. Len(P) - k /\ k + (i - k) = i BY <2>1, <1>2, <1>3
      <3>2. s[j + (i - k)] = P[i] BY <3>1, <1>3
      <3>3. j + (i - k) \in 1 .. Len(s) BY <3>1, <1>2, <1>3
      <3> QED BY <3>2, <3>3, <1>4 DEF Ahead
    <2>2. ASSUME NEW n \in 1 .. Len(s), s[n] = P[i] PROVE i > k
      <3>1. n - j \in 1 .. Len(P) - k /\ s[n] = P[k + (n - j)]
        <4>1. ASSUME n \in 1 .. j, s[n] = Load[(4 - j) + n] PROVE FALSE
          <5>1. (4 - j) + n \in 1 .. 4 BY <4>1, <1>3
          <5> QED BY <5>1, <4>1, <2>2, <1>5
        <4> QED BY <4>1, <1>6
      <3>2. k + (n - j) \in 1 .. Len(P) BY <3>1, <1>2, <1>3
      <3>3. k + (n - j) = i BY <3>1, <3>2, <2>2, <1>1 DEF Regular
      <3> QED BY <3>1, <3>3, <1>2, <1>3
    <2> QED BY <2>1, <2>2, <1>4 DEF Ahead
  <1>8. ASSUME NEW i \in 1 .. 4 PROVE Ahead(s, Load[i]) <=> i > 4 - j
    <2> HIDE DEF P
    <2>1. ASSUME i > 4 - j PROVE Ahead(s, Load[i])
      <3>1. i - (4 - j) \in 1 .. j /\ (4 - j) + (i - (4 - j)) = i BY <2>1, <1>3
      <3>2. s[i - (4 - j)] = Load[i] BY <3>1, <1>3
      <3>3. i - (4 - j) \in 1 .. Len(s) BY <3>1, <1>2, <1>3
      <3> QED BY <3>2, <3>3, <1>4 DEF Ahead
    <2>2. ASSUME NEW n \in 1 .. Len(s), s[n] = Load[i] PROVE i > 4 - j
      <3>1. n \in 1 .. j /\ s[n] = Load[(4 - j) + n]
        <4>1. ASSUME n - j \in 1 .. Len(P) - k, s[n] = P[k + (n - j)] PROVE FALSE
          <5>1. k + (n - j) \in 1 .. Len(P) BY <4>1, <1>2, <1>3
          <5> QED BY <5>1, <4>1, <2>2, <1>5
        <4> QED BY <4>1, <1>6
      <3>2. (4 - j) + n \in 1 .. 4 BY <3>1, <1>3
      <3>3. (4 - j) + n = i BY <3>1, <3>2, <2>2, Loads
      <3> QED BY <3>1, <3>3, <1>3
    <2> QED BY <2>1, <2>2, <1>4 DEF Ahead
  <1>9. ASSUME NEW x, Ahead(s, x)
        PROVE \/ \E i \in 1 .. Len(P): x = P[i]
              \/ \E i \in 1 .. 4: x = Load[i]
    <2> HIDE DEF P
    <2>1. PICK n \in 1 .. Len(s): s[n] = x BY <1>9, <1>4 DEF Ahead
    <2>2. n \in 1 .. j => (4 - j) + n \in 1 .. 4 BY <1>3
    <2>3. n - j \in 1 .. Len(P) - k => k + (n - j) \in 1 .. Len(P) BY <1>2, <1>3
    <2> QED BY <2>1, <2>2, <2>3, <1>6
  <1> QED BY <1>7, <1>8, <1>9

\* One access more is done.
LEMMA WayTail ==
  ASSUME NEW r \in DOMAIN Program, NEW s, NEW k, NEW j, Way(r, s, k, j), s # <<>>
  PROVE  /\ j > 0 => Head(s) = Load[5 - j] /\ Way(r, Tail(s), k, j - 1)
         /\ j = 0 => /\ k + 1 \in 1 .. Len(Program[r]) /\ Head(s) = Program[r][k + 1]
                     /\ Way(r, Tail(s), k + 1, 0)
         /\ \A x: Ahead(Tail(s), x) <=> Ahead(s, x) /\ x # Head(s)
         /\ Ahead(s, Head(s))
  <1> DEFINE P == Program[r]
  <1>1. Regular(P) BY Regularity
  <1>2. P \in Seq(Accesses) /\ Len(P) \in Nat BY <1>1 DEF Regular
  <1>3. /\ k \in 0 .. Len(P) /\ j \in 0 .. 4
        /\ s \in Seq(Accesses) /\ Len(s) = j + (Len(P) - k)
        /\ \A i \in 1 .. j: s[i] = Load[(4 - j) + i]
        /\ \A i \in 1 .. Len(P) - k: s[j + i] = P[k + i]
        /\ j > 0 => k > 0 /\ P[k] = Get
    BY DEF Way
  <1> HIDE DEF P
  <1>4. Tail(s) \in Seq(Accesses) /\ Len(Tail(s)) = Len(s) - 1 /\ Len(s) >= 1
        /\ Head(s) = s[1] /\ \A i \in 1 .. Len(s) - 1: Tail(s)[i] = s[i + 1]
    BY <1>3
  <1>5. DOMAIN s = 1 .. Len(s) /\ DOMAIN Tail(s) = 1 .. Len(s) - 1 BY <1>3, <1>4
  <1>6. ASSUME j > 0 PROVE Head(s) = Load[5 - j] /\ Way(r, Tail(s), k, j - 1)
    <2>1. Head(s) = Load[(4 - j) + 1] /\ (4 - j) + 1 = 5 - j BY <1>6, <1>3, <1>4
    <2>2. ASSUME NEW i \in 1 .. j - 1 PROVE Tail(s)[i] = Load[(4 - (j - 1)) + i]
      <3>1. i + 1 \in 1 .. j /\ (4 - j) + (i + 1) = (4 - (j - 1)) + i BY <1>3
      <3>2. i \in 1 .. Len(s) - 1 BY <1>2, <1>3
      <3> QED BY <3>1, <3>2, <1>3, <1>4
    <2>3. ASSUME NEW i \in 1 .. Len(P) - k PROVE Tail(s)[(j - 1) + i] = P[k + i]
      <3>1. (j - 1) + i \in 1 .. Len(s) - 1 /\ ((j - 1) + i) + 1 = j + i BY <1>2, <1>3, <1>6
      <3> QED BY <3>1, <1>3, <1>4
    <2>4. Len(Tail(s)) = (j - 1) + (Len(P) - k) /\ j - 1 \in 0 .. 4 BY <1>2, <1>3, <1>4, <1>6
    <2> QED BY <2>1, <2>2, <2>3, <2>4, <1>3, <1>4, <1>6 DEF Way, P
  <1>7. ASSUME j = 0 PROVE k + 1 \in 1 .. Len(P) /\ Head(s) = P[k + 1] /\ Way(r, Tail(s), k + 1, 0)
    <2>1. k + 1 \in 1 .. Len(P) /\ 1 \in 1 .. Len(P) - k BY <1>2, <1>3, <1>4, <1>7
    <2>2. Head(s) = P[k + 1]
      <3>1. s[j + 1] = P[k + 1] BY <2>1, <1>3
      <3>2. j + 1 = 1 BY <1>7
      <3> QED BY <3>1, <3>2, <1>4
    <2>3. ASSUME NEW i \in 1 .. Len(P) - (k + 1) PROVE Tail(s)[0 + i] = P[(k + 1) + i]
      <3>1. i + 1 \in 1 .. Len(P) - k /\ i \in 1 .. Len(s) - 1 /\ k + (i + 1) = (k + 1) + i /\ j + (i + 1) = i + 1 /\ 0 + i = i
        BY <1>2, <1>3, <1>7
      <3>2. s[j + (i + 1)] = P[k + (i + 1)] BY <3>1, <1>3
      <3>3. Tail(s)[i] = s[i + 1] BY <3>1, <1>4
      <3> QED BY <3>1, <3>2, <3>3
    <2>4. Len(Tail(s)) = 0 + (Len(P) - (k + 1)) /\ k + 1 \in 0 .. Len(P) BY <2>1, <1>2, <1>3, <1>4, <1>7
    <2> QED BY <2>1, <2>2, <2>3, <2>4, <1>3, <1>4 DEF Way, P
  <1>9. ~Ahead(Tail(s), Head(s))
    <2>1. CASE j > 0
      <3>1. Way(r, Tail(s), k, j - 1) /\ Head(s) = Load[5 - j] BY <2>1, <1>6
      <3>2. 5 - j \in 1 .. 4 /\ ~(5 - j > 4 - (j - 1)) BY <2>1, <1>3
      <3>3. Ahead(Tail(s), Load[5 - j]) <=> 5 - j > 4 - (j - 1) BY <3>1, <3>2, WayAhead
      <3> QED BY <3>1, <3>2, <3>3
    <2>2. CASE j = 0
      <3>1. Way(r, Tail(s), k + 1, 0) /\ Head(s) = Program[r][k + 1] /\ k + 1 \in 1 .. Len(Program[r]) BY <2>2, <1>7 DEF P
      <3>2. Ahead(Tail(s), Program[r][k + 1]) <=> k + 1 > k + 1 BY <3>1, WayAhead
      <3> QED BY <3>1, <3>2
    <2> QED BY <2>1, <2>2, <1>3
  <1>10. Ahead(s, Head(s)) BY <1>4, <1>5 DEF Ahead
  <1>11. ASSUME NEW x PROVE Ahead(Tail(s), x) <=> Ahead(s, x) /\ x # Head(s)
    <2>1. ASSUME Ahead(Tail(s), x) PROVE Ahead(s, x)
      <3>1. PICK i \in 1 .. Len(s) - 1: Tail(s)[i] = x BY <2>1, <1>5 DEF Ahead
      <3>2. i + 1 \in 1 .. Len(s) /\ s[i + 1] = x BY <3>1, <1>3, <1>4
      <3> QED BY <3>2, <1>5 DEF Ahead
    <2>2. ASSUME Ahead(s, x), x # Head(s) PROVE Ahead(Tail(s), x)
      <3>1. PICK i \in 1 .. Len(s): s[i] = x BY <2>2, <1>5 DEF Ahead
      <3>2. i # 1 BY <3>1, <2>2, <1>4
      <3>3. i - 1 \in 1 .. Len(s) - 1 /\ (i - 1) + 1 = i BY <3>1, <3>2, <1>3
      <3>4. Tail(s)[i - 1] = x BY <3>1, <3>3, <1>4
      <3> QED BY <3>3, <3>4, <1>5 DEF Ahead
    <2> QED BY <2>1, <2>2, <1>9
  <1> QED BY <1>6, <1>7, <1>10, <1>11 DEF P

\* A program that is not in a load: its first access, and what is ahead.
LEMMA Stages ==
  ASSUME NEW r \in DOMAIN Program, NEW s, OnWay(r, s), s # <<>>, Head(s).at \notin {"read", "publish"}
  PROVE  \E a \in 1 .. Len(Program[r]):
            Head(s) = Program[r][a] /\ \A x: Ahead(s, x) <=> \E i \in a .. Len(Program[r]): x = Program[r][i]
  <1>1. PICK k \in 0 .. 5, j \in 0 .. 4: Way(r, s, k, j) BY DEF OnWay
  <1>2. j = 0
    <2> SUFFICES ASSUME j > 0 PROVE FALSE OBVIOUS
    <2>1. Head(s) = Load[5 - j] BY <1>1, WayTail, ZenonT(30)
    <2>2. 5 - j \in 1 .. 4 OBVIOUS
    <2> QED BY <2>1, <2>2, Loads
  <1>3. k + 1 \in 1 .. Len(Program[r]) /\ Head(s) = Program[r][k + 1] BY <1>1, <1>2, WayTail
  <1>4. Len(Program[r]) \in Nat BY Regularity DEF Regular
  <1>5. \A i \in 1 .. 4: ~Ahead(s, Load[i])
    <2>1. \A i \in 1 .. 4: Ahead(s, Load[i]) <=> i > 4 - j BY <1>1, WayAhead
    <2> QED BY <2>1, <1>2
  <1>6. \A i \in 1 .. Len(Program[r]): Ahead(s, Program[r][i]) <=> i > k BY <1>1, WayAhead
  <1>7. \A x: Ahead(s, x) => \E i \in 1 .. Len(Program[r]): x = Program[r][i] BY <1>1, <1>5, WayAhead
  <1>8. \A i \in 1 .. Len(Program[r]): i > k <=> i \in k + 1 .. Len(Program[r]) BY <1>4
  <1>9. \A i \in k + 1 .. Len(Program[r]): i \in 1 .. Len(Program[r]) BY <1>4
  <1>10. \A x: Ahead(s, x) <=> \E i \in k + 1 .. Len(Program[r]): x = Program[r][i]
    BY <1>6, <1>7, <1>8, <1>9
  <1> QED BY <1>3, <1>10

LEMMA Stage3 ==
  ASSUME NEW r \in DOMAIN Program, NEW s, OnWay(r, s), s # <<>>, Head(s).at \notin {"read", "publish"},
         NEW a, NEW b, NEW c, Steps3(Program[r], a, b, c)
  PROVE  \/ Head(s) = a /\ \A x: Ahead(s, x) <=> x = a \/ x = b \/ x = c
         \/ Head(s) = b /\ \A x: Ahead(s, x) <=> x = b \/ x = c
         \/ Head(s) = c /\ \A x: Ahead(s, x) <=> x = c
  <1>1. PICK k \in 1 .. 3: Head(s) = Program[r][k] /\ \A x: Ahead(s, x) <=> \E i \in k .. 3: x = Program[r][i]
    BY Stages DEF Steps3
  <1>2. CASE k = 1
    <2>1. \A i: i \in 1 .. 3 <=> i = 1 \/ i = 2 \/ i = 3 OBVIOUS
    <2> QED BY <2>1, <1>1, <1>2 DEF Steps3
  <1>3. CASE k = 2
    <2>1. \A i: i \in 2 .. 3 <=> i = 2 \/ i = 3 OBVIOUS
    <2> QED BY <2>1, <1>1, <1>3 DEF Steps3
  <1>4. CASE k = 3
    <2>1. \A i: i \in 3 .. 3 <=> i = 3 OBVIOUS
    <2> QED BY <2>1, <1>1, <1>4 DEF Steps3
  <1> QED BY <1>1, <1>2, <1>3, <1>4

LEMMA Stage4 ==
  ASSUME NEW r \in DOMAIN Program, NEW s, OnWay(r, s), s # <<>>, Head(s).at \notin {"read", "publish"},
         NEW a, NEW b, NEW c, NEW d, Steps4(Program[r], a, b, c, d)
  PROVE  \/ Head(s) = a /\ \A x: Ahead(s, x) <=> x = a \/ x = b \/ x = c \/ x = d
         \/ Head(s) = b /\ \A x: Ahead(s, x) <=> x = b \/ x = c \/ x = d
         \/ Head(s) = c /\ \A x: Ahead(s, x) <=> x = c \/ x = d
         \/ Head(s) = d /\ \A x: Ahead(s, x) <=> x = d
  <1>1. PICK k \in 1 .. 4: Head(s) = Program[r][k] /\ \A x: Ahead(s, x) <=> \E i \in k .. 4: x = Program[r][i]
    BY Stages DEF Steps4
  <1>2. CASE k = 1
    <2>1. \A i: i \in 1 .. 4 <=> i = 1 \/ i = 2 \/ i = 3 \/ i = 4 OBVIOUS
    <2> QED BY <2>1, <1>1, <1>2 DEF Steps4
  <1>3. CASE k = 2
    <2>1. \A i: i \in 2 .. 4 <=> i = 2 \/ i = 3 \/ i = 4 OBVIOUS
    <2> QED BY <2>1, <1>1, <1>3 DEF Steps4
  <1>4. CASE k = 3
    <2>1. \A i: i \in 3 .. 4 <=> i = 3 \/ i = 4 OBVIOUS
    <2> QED BY <2>1, <1>1, <1>4 DEF Steps4
  <1>5. CASE k = 4
    <2>1. \A i: i \in 4 .. 4 <=> i = 4 OBVIOUS
    <2> QED BY <2>1, <1>1, <1>5 DEF Steps4
  <1> QED BY <1>1, <1>2, <1>3, <1>4, <1>5

LEMMA Stage5 ==
  ASSUME NEW r \in DOMAIN Program, NEW s, OnWay(r, s), s # <<>>, Head(s).at \notin {"read", "publish"},
         NEW a, NEW b, NEW c, NEW d, NEW e, Steps5(Program[r], a, b, c, d, e)
  PROVE  \/ Head(s) = a /\ \A x: Ahead(s, x) <=> x = a \/ x = b \/ x = c \/ x = d \/ x = e
         \/ Head(s) = b /\ \A x: Ahead(s, x) <=> x = b \/ x = c \/ x = d \/ x = e
         \/ Head(s) = c /\ \A x: Ahead(s, x) <=> x = c \/ x = d \/ x = e
         \/ Head(s) = d /\ \A x: Ahead(s, x) <=> x = d \/ x = e
         \/ Head(s) = e /\ \A x: Ahead(s, x) <=> x = e
  <1>1. PICK k \in 1 .. 5: Head(s) = Program[r][k] /\ \A x: Ahead(s, x) <=> \E i \in k .. 5: x = Program[r][i]
    BY Stages DEF Steps5
  <1>2. CASE k = 1
    <2>1. \A i: i \in 1 .. 5 <=> i = 1 \/ i = 2 \/ i = 3 \/ i = 4 \/ i = 5 OBVIOUS
    <2> QED BY <2>1, <1>1, <1>2 DEF Steps5
  <1>3. CASE k = 2
    <2>1. \A i: i \in 2 .. 5 <=> i = 2 \/ i = 3 \/ i = 4 \/ i = 5 OBVIOUS
    <2> QED BY <2>1, <1>1, <1>3 DEF Steps5
  <1>4. CASE k = 3
    <2>1. \A i: i \in 3 .. 5 <=> i = 3 \/ i = 4 \/ i = 5 OBVIOUS
    <2> QED BY <2>1, <1>1, <1>4 DEF Steps5
  <1>5. CASE k = 4
    <2>1. \A i: i \in 4 .. 5 <=> i = 4 \/ i = 5 OBVIOUS
    <2> QED BY <2>1, <1>1, <1>5 DEF Steps5
  <1>6. CASE k = 5
    <2>1. \A i: i \in 5 .. 5 <=> i = 5 OBVIOUS
    <2> QED BY <2>1, <1>1, <1>6 DEF Steps5
  <1> QED BY <1>1, <1>2, <1>3, <1>4, <1>5, <1>6

\* A goroutine in a load.
LEMMA HeadLoad ==
  ASSUME NEW r \in DOMAIN Program, NEW s, OnWay(r, s)
  PROVE  /\ Ahead(s, Load[4]) => /\ s # <<>> /\ Head(s).at \in {"read", "publish"}
                                 /\ ~Ahead(s, Get) /\ ~Ahead(s, Evict)
         /\ \A l \in Lists: Ahead(s, Do("read", "none", l)) => Ahead(s, Load[4]) /\ Head(s).at = "read"
         /\ s # <<>> /\ Head(s).at = "publish" => Head(s) = Load[4] /\ Ahead(s, Load[4])
         /\ s # <<>> /\ Head(s).at = "read" =>
               Ahead(s, Load[4]) /\ Head(s).list \in Lists /\ Head(s) = Do("read", "none", Head(s).list)
  <1>1. PICK k \in 0 .. 5, j \in 0 .. 4: Way(r, s, k, j) BY DEF OnWay
  <1>2. Len(s) \in Nat /\ s \in Seq(Accesses) /\ k \in 0 .. Len(Program[r])
        /\ Len(s) = j + (Len(Program[r]) - k) /\ (j > 0 => k > 0 /\ Program[r][k] = Get)
    BY <1>1 DEF Way
  <1>3. Regular(Program[r]) BY Regularity
  <1>4. Len(Program[r]) \in Nat BY <1>3 DEF Regular
  <1>5. \A i \in 1 .. 4: Ahead(s, Load[i]) <=> i > 4 - j BY <1>1, WayAhead
  <1>6. j > 0 <=> Ahead(s, Load[4]) BY <1>5
  <1>7. ASSUME j > 0
        PROVE  s # <<>> /\ Head(s) = Load[5 - j] /\ Head(s).at \in {"read", "publish"}
    <2>1. s # <<>> BY <1>7, <1>2, <1>4
    <2>2. Head(s) = Load[5 - j] BY <2>1, <1>1, <1>7, WayTail
    <2>3. 5 - j \in 1 .. 4 BY <1>7
    <2> QED BY <2>1, <2>2, <2>3, Loads
  <1>8. ASSUME s # <<>>, Head(s).at \in {"read", "publish"} PROVE j > 0
    <2> SUFFICES ASSUME j = 0 PROVE FALSE BY <1>1
    <2>1. k + 1 \in 1 .. Len(Program[r]) /\ Head(s) = Program[r][k + 1] BY <1>1, <1>8, WayTail, ZenonT(30)
    <2> QED BY <2>1, <1>3, <1>8 DEF Regular
  <1>9. ASSUME j > 0 PROVE ~Ahead(s, Get) /\ ~Ahead(s, Evict)
    <2>1. k \in 1 .. Len(Program[r]) /\ Program[r][k] = Get BY <1>2, <1>9
    <2>2. ~Ahead(s, Get) BY <2>1, <1>1, WayAhead
    <2>3. r \notin {"channelCreateOrUpdate", "channelDelete"}
      <3>1. r = "channelCreateOrUpdate" => FALSE
        <4> SUFFICES ASSUME r = "channelCreateOrUpdate" PROVE FALSE OBVIOUS
        <4>1. k = 1 \/ k = 2 \/ k = 3 \/ k = 4 BY <2>1, Positions DEF Steps4
        <4> QED BY <4>1, <2>1, Positions, Fields DEF Steps4
      <3>2. r = "channelDelete" => FALSE
        <4> SUFFICES ASSUME r = "channelDelete" PROVE FALSE OBVIOUS
        <4>1. k = 1 \/ k = 2 \/ k = 3 BY <2>1, Positions DEF Steps3
        <4> QED BY <4>1, <2>1, Positions, Fields DEF Steps3
      <3> QED BY <3>1, <3>2
    <2>4. \A i \in 1 .. Len(Program[r]): Program[r][i] # Evict
      <3>1. ASSUME r = "addSubscriber" PROVE \A i \in 1 .. Len(Program[r]): Program[r][i] # Evict
        <4>1. \A i \in 1 .. 4: i = 1 \/ i = 2 \/ i = 3 \/ i = 4 OBVIOUS
        <4> QED BY <4>1, <3>1, Positions, Fields DEF Steps4
      <3>2. ASSUME r = "resetSubscriber" PROVE \A i \in 1 .. Len(Program[r]): Program[r][i] # Evict
        <4>1. \A i \in 1 .. 5: i = 1 \/ i = 2 \/ i = 3 \/ i = 4 \/ i = 5 OBVIOUS
        <4> QED BY <4>1, <3>2, Positions, Fields DEF Steps5
      <3>3. ASSUME r = "removeSubscriber" PROVE \A i \in 1 .. Len(Program[r]): Program[r][i] # Evict
        <4>1. \A i \in 1 .. 4: i = 1 \/ i = 2 \/ i = 3 \/ i = 4 OBVIOUS
        <4> QED BY <4>1, <3>3, Positions, Fields DEF Steps4
      <3>4. ASSUME r = "blacklistAdd" PROVE \A i \in 1 .. Len(Program[r]): Program[r][i] # Evict
        <4>1. \A i \in 1 .. 3: i = 1 \/ i = 2 \/ i = 3 OBVIOUS
        <4> QED BY <4>1, <3>4, Positions, Fields DEF Steps3
      <3>5. ASSUME r = "blacklistRemove" PROVE \A i \in 1 .. Len(Program[r]): Program[r][i] # Evict
        <4>1. \A i \in 1 .. 3: i = 1 \/ i = 2 \/ i = 3 OBVIOUS
        <4> QED BY <4>1, <3>5, Positions, Fields DEF Steps3
      <3>6. ASSUME r = "blacklistSet" PROVE \A i \in 1 .. Len(Program[r]): Program[r][i] # Evict
        <4>1. \A i \in 1 .. 5: i = 1 \/ i = 2 \/ i = 3 \/ i = 4 \/ i = 5 OBVIOUS
        <4> QED BY <4>1, <3>6, Positions, Fields DEF Steps5
      <3>7. ASSUME r = "whitelistAdd" PROVE \A i \in 1 .. Len(Program[r]): Program[r][i] # Evict
        <4>1. \A i \in 1 .. 3: i = 1 \/ i = 2 \/ i = 3 OBVIOUS
        <4> QED BY <4>1, <3>7, Positions, Fields DEF Steps3
      <3>8. ASSUME r = "whitelistRemove" PROVE \A i \in 1 .. Len(Program[r]): Program[r][i] # Evict
        <4>1. \A i \in 1 .. 3: i = 1 \/ i = 2 \/ i = 3 OBVIOUS
        <4> QED BY <4>1, <3>8, Positions, Fields DEF Steps3
      <3>9. ASSUME r = "whitelistSet" PROVE \A i \in 1 .. Len(Program[r]): Program[r][i] # Evict
        <4>1. \A i \in 1 .. 5: i = 1 \/ i = 2 \/ i = 3 \/ i = 4 \/ i = 5 OBVIOUS
        <4> QED BY <4>1, <3>9, Positions, Fields DEF Steps5
      <3>10. ASSUME r = "send" PROVE \A i \in 1 .. Len(Program[r]): Program[r][i] # Evict
        <4>1. \A i \in 1 .. 3: i = 1 \/ i = 2 \/ i = 3 OBVIOUS
        <4> QED BY <4>1, <3>10, Positions, Fields DEF Steps3
      <3> QED BY <3>1, <3>2, <3>3, <3>4, <3>5, <3>6, <3>7, <3>8, <3>9, <3>10, <2>3, ProgramDomain DEF Handlers
    <2>5. \A i \in 1 .. 4: Load[i] # Evict BY Loads, Fields
    <2>6. ~Ahead(s, Evict) BY <2>4, <2>5, <1>1, WayAhead
    <2> QED BY <2>2, <2>6
  <1>10. ASSUME NEW l \in Lists, Ahead(s, Do("read", "none", l)) PROVE Ahead(s, Load[4]) /\ Head(s).at = "read"
    <2>1. PICK i \in 1 .. 3: Do("read", "none", l) = Load[i]
      <3>1. 1 \in 1 .. 3 /\ 2 \in 1 .. 3 /\ 3 \in 1 .. 3 OBVIOUS
      <3>2. l = "subs" \/ l = "deny" \/ l = "allow" BY DEF Lists
      <3> QED BY <3>1, <3>2, Loads
    <2>2. i > 4 - j BY <2>1, <1>5, <1>10
    <2>3. j > 0 /\ (5 - j = 1 \/ 5 - j = 2 \/ 5 - j = 3) BY <2>2
    <2>4. Load[5 - j].at = "read" BY <2>3, Loads, Fields
    <2> QED BY <2>3, <2>4, <1>6, <1>7
  <1>11. ASSUME s # <<>>, Head(s).at = "publish" PROVE Head(s) = Load[4] /\ Ahead(s, Load[4])
    <2>1. j > 0 /\ Head(s) = Load[5 - j] BY <1>7, <1>8, <1>11
    <2>2. 5 - j = 1 \/ 5 - j = 2 \/ 5 - j = 3 \/ 5 - j = 4 BY <2>1
    <2>3. Load[1].at # "publish" /\ Load[2].at # "publish" /\ Load[3].at # "publish" BY Loads, Fields
    <2> QED BY <2>1, <2>2, <2>3, <1>6, <1>11
  <1>12. ASSUME s # <<>>, Head(s).at = "read"
         PROVE  Ahead(s, Load[4]) /\ Head(s).list \in Lists /\ Head(s) = Do("read", "none", Head(s).list)
    <2>1. j > 0 /\ Head(s) = Load[5 - j] BY <1>7, <1>8, <1>12
    <2>2. 5 - j = 1 \/ 5 - j = 2 \/ 5 - j = 3 \/ 5 - j = 4 BY <2>1
    <2>3. Load[4].at # "read" BY Loads, Fields
    <2>4. 5 - j = 1 \/ 5 - j = 2 \/ 5 - j = 3 BY <2>1, <2>2, <2>3, <1>12
    <2> QED BY <2>1, <2>4, <1>6, Loads, Fields DEF Lists
  <1> QED BY <1>6, <1>7, <1>9, <1>10, <1>11, <1>12

Writer(x, l) == x.at = "store" /\ x.list = l

LEMMA Writes3 ==
  ASSUME NEW r \in DOMAIN Program, NEW a, NEW b, NEW c, Steps3(Program[r], a, b, c)
  PROVE  \A l: l \in Writes(r) <=> l \in Lists /\ (Writer(a, l) \/ Writer(b, l) \/ Writer(c, l))
  <1>1. DOMAIN Program[r] = 1 .. 3 BY Regularity DEF Regular, Steps3
  <1>2. \A i: i \in 1 .. 3 <=> i = 1 \/ i = 2 \/ i = 3 OBVIOUS
  <1>3. \A l: l \in Writes(r) <=> l \in Lists /\ \E i \in 1 .. 3: Writer(Program[r][i], l)
    BY <1>1 DEF Writes, Writer
  <1> QED BY <1>2, <1>3 DEF Steps3

LEMMA Writes4 ==
  ASSUME NEW r \in DOMAIN Program, NEW a, NEW b, NEW c, NEW d, Steps4(Program[r], a, b, c, d)
  PROVE  \A l: l \in Writes(r) <=> l \in Lists /\ (Writer(a, l) \/ Writer(b, l) \/ Writer(c, l) \/ Writer(d, l))
  <1>1. DOMAIN Program[r] = 1 .. 4 BY Regularity DEF Regular, Steps4
  <1>2. \A i: i \in 1 .. 4 <=> i = 1 \/ i = 2 \/ i = 3 \/ i = 4 OBVIOUS
  <1>3. \A l: l \in Writes(r) <=> l \in Lists /\ \E i \in 1 .. 4: Writer(Program[r][i], l)
    BY <1>1 DEF Writes, Writer
  <1> QED BY <1>2, <1>3 DEF Steps4

LEMMA Writes5 ==
  ASSUME NEW r \in DOMAIN Program, NEW a, NEW b, NEW c, NEW d, NEW e, Steps5(Program[r], a, b, c, d, e)
  PROVE  \A l: l \in Writes(r) <=> l \in Lists /\ (Writer(a, l) \/ Writer(b, l) \/ Writer(c, l) \/ Writer(d, l) \/ Writer(e, l))
  <1>1. DOMAIN Program[r] = 1 .. 5 BY Regularity DEF Regular, Steps5
  <1>2. \A i: i \in 1 .. 5 <=> i = 1 \/ i = 2 \/ i = 3 \/ i = 4 \/ i = 5 OBVIOUS
  <1>3. \A l: l \in Writes(r) <=> l \in Lists /\ \E i \in 1 .. 5: Writer(Program[r][i], l)
    BY <1>1 DEF Writes, Writer
  <1> QED BY <1>2, <1>3 DEF Steps5

LEMMA WritesAre ==
  /\ \A r \in {"blacklistAdd", "blacklistSet", "blacklistRemove"}: Writes(r) = {"deny"}
  /\ \A r \in {"whitelistAdd", "whitelistSet", "whitelistRemove"}: Writes(r) = {"allow"}
  /\ \A r \in {"addSubscriber", "resetSubscriber", "removeSubscriber", "channelCreateOrUpdate"}: Writes(r) = {"subs"}
  /\ Writes("channelDelete") = {}
  <1>0. "subs" \in Lists /\ "deny" \in Lists /\ "allow" \in Lists /\ "info" \notin Lists /\ "none" \notin Lists BY DEF Lists
  <1>1. Writes("blacklistAdd") = {"deny"}
    <2>1. "blacklistAdd" \in DOMAIN Program BY ProgramDomain DEF Handlers
    <2>2. \A l: l \in Writes("blacklistAdd") <=> l \in Lists /\ (Writer(Store("add", "deny"), l) \/ Writer(Get, l) \/ Writer(Object("add", "deny"), l))
      BY <2>1, Writes3, Positions
    <2>3. \A l: l \in Writes("blacklistAdd") <=> l \in {"deny"} BY <2>2, <1>0, Fields DEF Writer
    <2> QED BY <2>3
  <1>2. Writes("blacklistSet") = {"deny"}
    <2>1. "blacklistSet" \in DOMAIN Program BY ProgramDomain DEF Handlers
    <2>2. \A l: l \in Writes("blacklistSet") <=> l \in Lists /\ (Writer(Store("clear", "deny"), l) \/ Writer(Store("add", "deny"), l) \/ Writer(Get, l) \/ Writer(Object("clear", "deny"), l) \/ Writer(Object("add", "deny"), l))
      BY <2>1, Writes5, Positions
    <2>3. \A l: l \in Writes("blacklistSet") <=> l \in {"deny"} BY <2>2, <1>0, Fields DEF Writer
    <2> QED BY <2>3
  <1>3. Writes("blacklistRemove") = {"deny"}
    <2>1. "blacklistRemove" \in DOMAIN Program BY ProgramDomain DEF Handlers
    <2>2. \A l: l \in Writes("blacklistRemove") <=> l \in Lists /\ (Writer(Store("remove", "deny"), l) \/ Writer(Get, l) \/ Writer(Object("remove", "deny"), l))
      BY <2>1, Writes3, Positions
    <2>3. \A l: l \in Writes("blacklistRemove") <=> l \in {"deny"} BY <2>2, <1>0, Fields DEF Writer
    <2> QED BY <2>3
  <1>4. Writes("whitelistAdd") = {"allow"}
    <2>1. "whitelistAdd" \in DOMAIN Program BY ProgramDomain DEF Handlers
    <2>2. \A l: l \in Writes("whitelistAdd") <=> l \in Lists /\ (Writer(Store("add", "allow"), l) \/ Writer(Get, l) \/ Writer(Object("add", "allow"), l))
      BY <2>1, Writes3, Positions
    <2>3. \A l: l \in Writes("whitelistAdd") <=> l \in {"allow"} BY <2>2, <1>0, Fields DEF Writer
    <2> QED BY <2>3
  <1>5. Writes("whitelistSet") = {"allow"}
    <2>1. "whitelistSet" \in DOMAIN Program BY ProgramDomain DEF Handlers
    <2>2. \A l: l \in Writes("whitelistSet") <=> l \in Lists /\ (Writer(Store("clear", "allow"), l) \/ Writer(Store("add", "allow"), l) \/ Writer(Get, l) \/ Writer(Object("clear", "allow"), l) \/ Writer(Object("add", "deny"), l))
      BY <2>1, Writes5, Positions
    <2>3. \A l: l \in Writes("whitelistSet") <=> l \in {"allow"} BY <2>2, <1>0, Fields DEF Writer
    <2> QED BY <2>3
  <1>6. Writes("whitelistRemove") = {"allow"}
    <2>1. "whitelistRemove" \in DOMAIN Program BY ProgramDomain DEF Handlers
    <2>2. \A l: l \in Writes("whitelistRemove") <=> l \in Lists /\ (Writer(Store("remove", "allow"), l) \/ Writer(Get, l) \/ Writer(Object("remove", "allow"), l))
      BY <2>1, Writes3, Positions
    <2>3. \A l: l \in Writes("whitelistRemove") <=> l \in {"allow"} BY <2>2, <1>0, Fields DEF Writer
    <2> QED BY <2>3
  <1>7. Writes("addSubscriber") = {"subs"}
    <2>1. "addSubscriber" \in DOMAIN Program BY ProgramDomain DEF Handlers
    <2>2. \A l: l \in Writes("addSubscriber") <=> l \in Lists /\ (Writer(Get, l) \/ Writer(NotNil, l) \/ Writer(Do("exist", "none", "subs"), l) \/ Writer(Store("add", "subs"), l))
      BY <2>1, Writes4, Positions
    <2>3. \A l: l \in Writes("addSubscriber") <=> l \in {"subs"} BY <2>2, <1>0, Fields DEF Writer
    <2> QED BY <2>3
  <1>8. Writes("resetSubscriber") = {"subs"}
    <2>1. "resetSubscriber" \in DOMAIN Program BY ProgramDomain DEF Handlers
    <2>2. \A l: l \in Writes("resetSubscriber") <=> l \in Lists /\ (Writer(Get, l) \/ Writer(NotNil, l) \/ Writer(Store("clear", "subs"), l) \/ Writer(Object("clear", "subs"), l) \/ Writer(Store("add", "subs"), l))
      BY <2>1, Writes5, Positions
    <2>3. \A l: l \in Writes("resetSubscriber") <=> l \in {"subs"} BY <2>2, <1>0, Fields DEF Writer
    <2> QED BY <2>3
  <1>9. Writes("removeSubscriber") = {"subs"}
    <2>1. "removeSubscriber" \in DOMAIN Program BY ProgramDomain DEF Handlers
    <2>2. \A l: l \in Writes("removeSubscriber") <=> l \in Lists /\ (Writer(Get, l) \/ Writer(Store("remove", "subs"), l) \/ Writer(Object("remove", "subs"), l) \/ Writer(Store("conversation", "none"), l))
      BY <2>1, Writes4, Positions
    <2>3. \A l: l \in Writes("removeSubscriber") <=> l \in {"subs"} BY <2>2, <1>0, Fields DEF Writer
    <2> QED BY <2>3
  <1>10. Writes("channelCreateOrUpdate") = {"subs"}
    <2>1. "channelCreateOrUpdate" \in DOMAIN Program BY ProgramDomain DEF Handlers
    <2>2. \A l: l \in Writes("channelCreateOrUpdate") <=> l \in Lists /\ (Writer(Store("put", "info"), l) \/ Writer(Store("clear", "subs"), l) \/ Writer(Store("add", "subs"), l) \/ Writer(Evict, l))
      BY <2>1, Writes4, Positions
    <2>3. \A l: l \in Writes("channelCreateOrUpdate") <=> l \in {"subs"} BY <2>2, <1>0, Fields DEF Writer
    <2> QED BY <2>3
  <1>11. Writes("channelDelete") = {}
    <2>1. "channelDelete" \in DOMAIN Program BY ProgramDomain DEF Handlers
    <2>2. \A l: l \in Writes("channelDelete") <=> l \in Lists /\ (Writer(Store("delete", "info"), l) \/ Writer(Store("deleteAgain", "info"), l) \/ Writer(Evict, l))
      BY <2>1, Writes3, Positions
    <2>3. \A l: l \in Writes("channelDelete") <=> l \in {} BY <2>2, <1>0, Fields DEF Writer
    <2> QED BY <2>3
  <1> QED BY <1>1, <1>2, <1>3, <1>4, <1>5, <1>6, <1>7, <1>8, <1>9, <1>10, <1>11

\* The next access changes a list in the store.
StoreHead(r, s) ==
    LET h == Head(s)
    IN  /\ r # "send"
        /\ h.list \in Lists =>
              /\ h.verb \in {"add", "clear", "remove"} /\ h.list \in Writes(r)
              /\ h.verb = "add" => ~Ahead(s, Store("clear", h.list)) /\ ~Ahead(s, Store("remove", h.list))
              /\ Ahead(s, Get) \/ Ahead(s, Evict) \/ h.list = "subs"
              /\ r = "channelCreateOrUpdate" => Ahead(s, Evict)
              /\ h.list = "deny" /\ h.verb # "add" => r \in {"blacklistSet", "blacklistRemove"}
              /\ h.list = "allow" /\ h.verb = "add" => r \in {"whitelistAdd", "whitelistSet"}
              /\ h.list = "subs" /\ h.verb = "add" =>
                    r \in {"addSubscriber", "resetSubscriber", "channelCreateOrUpdate"}
              /\ \/ h.verb = "add" /\ h.list = "subs" /\ \A b: ~Ahead(s, Object(b, "subs"))
                 \/ r = "channelCreateOrUpdate"
                 \/ r = "whitelistSet" /\ h.verb = "add"
                 \/ Ahead(s, Object(h.verb, h.list))
              /\ r = "blacklistAdd" => h.verb = "add"
              /\ r = "removeSubscriber" => h.verb = "remove"

\* The next access changes a list of the object.
ObjectHead(r, s) ==
    LET h == Head(s)
    IN  /\ h.list \in Lists /\ h.verb \in {"add", "clear", "remove"}
        /\ ~Ahead(s, Get) /\ ~Ahead(s, Evict)
        /\ r \notin {"channelCreateOrUpdate", "channelDelete", "addSubscriber", "send"} /\ ~Ahead(s, First(r))
        /\ h.list \in Writes(r) \/ (r = "whitelistSet" /\ h = Object("add", "deny"))
        /\ h.verb = "add" => ~Ahead(s, Object("clear", h.list)) /\ ~Ahead(s, Object("remove", h.list))
        /\ h.list = "deny" /\ h.verb # "add" => r \in {"blacklistSet", "blacklistRemove"}
        /\ h.list = "allow" /\ h.verb = "add" => r = "whitelistAdd"
        /\ h.list = "subs" => h.verb # "add" /\ \A b: Ahead(s, Object(b, "subs")) => Object(b, "subs") = h
        /\ \A b: Ahead(s, Store(b, h.list)) => h.list = "subs" /\ b = "add"

LEMMA Heads ==
  ASSUME NEW r \in DOMAIN Program, NEW s, OnWay(r, s), s # <<>>
  PROVE  /\ Head(s).at = "store" => StoreHead(r, s)
         /\ Head(s).at = "object" => ObjectHead(r, s)
         /\ Head(s).at = "get" => Head(s) = Get /\ ~Ahead(s, Evict)
         /\ Head(s).at = "evict" => /\ r \in {"channelCreateOrUpdate", "channelDelete"}
                                    /\ \A x: Ahead(s, x) <=> x = Evict
         /\ Head(s).at = "exist" => r = "addSubscriber"
         /\ Head(s).at \in {"permit", "deliver"} => r = "send" /\ ~Ahead(s, Get)
         /\ Head(s).at = "permit" => \A x: Ahead(s, x) <=> x = Do("permit", "none", "none") \/ x = Do("deliver", "none", "none")
         /\ Head(s).at = "deliver" => \A x: Ahead(s, x) <=> x = Do("deliver", "none", "none")
  <1> SUFFICES ASSUME Head(s).at \notin {"read", "publish"}
               PROVE  /\ Head(s).at = "store" => StoreHead(r, s)
                      /\ Head(s).at = "object" => ObjectHead(r, s)
                      /\ Head(s).at = "get" => Head(s) = Get /\ ~Ahead(s, Evict)
                      /\ Head(s).at = "evict" => /\ r \in {"channelCreateOrUpdate", "channelDelete"}
                                                 /\ \A x: Ahead(s, x) <=> x = Evict
                      /\ Head(s).at = "exist" => r = "addSubscriber"
                      /\ Head(s).at \in {"permit", "deliver"} => r = "send" /\ ~Ahead(s, Get)
                      /\ Head(s).at = "permit" => \A x: Ahead(s, x) <=> x = Do("permit", "none", "none") \/ x = Do("deliver", "none", "none")
                      /\ Head(s).at = "deliver" => \A x: Ahead(s, x) <=> x = Do("deliver", "none", "none")
    OBVIOUS
  <1>0. "subs" \in Lists /\ "deny" \in Lists /\ "allow" \in Lists /\ "info" \notin Lists /\ "none" \notin Lists BY DEF Lists
  <1>1. CASE r = "channelCreateOrUpdate"
    <2>1. Steps4(Program[r], Store("put", "info"), Store("clear", "subs"), Store("add", "subs"), Evict) BY <1>1, Positions
    <2>2. \/ Head(s) = Store("put", "info") /\ \A x: Ahead(s, x) <=> x = Store("put", "info") \/ x = Store("clear", "subs") \/ x = Store("add", "subs") \/ x = Evict
          \/ Head(s) = Store("clear", "subs") /\ \A x: Ahead(s, x) <=> x = Store("clear", "subs") \/ x = Store("add", "subs") \/ x = Evict
          \/ Head(s) = Store("add", "subs") /\ \A x: Ahead(s, x) <=> x = Store("add", "subs") \/ x = Evict
          \/ Head(s) = Evict /\ \A x: Ahead(s, x) <=> x = Evict
      BY <2>1, Stage4
    <2>3. First(r) = Store("clear", "subs") BY <1>1 DEF First
    <2> QED BY <2>2, <2>3, <1>0, <1>1, Fields, WritesAre DEF StoreHead, ObjectHead
  <1>2. CASE r = "channelDelete"
    <2>1. Steps3(Program[r], Store("delete", "info"), Store("deleteAgain", "info"), Evict) BY <1>2, Positions
    <2>2. \/ Head(s) = Store("delete", "info") /\ \A x: Ahead(s, x) <=> x = Store("delete", "info") \/ x = Store("deleteAgain", "info") \/ x = Evict
          \/ Head(s) = Store("deleteAgain", "info") /\ \A x: Ahead(s, x) <=> x = Store("deleteAgain", "info") \/ x = Evict
          \/ Head(s) = Evict /\ \A x: Ahead(s, x) <=> x = Evict
      BY <2>1, Stage3
    <2>3. First(r) = Get BY <1>2 DEF First
    <2> QED BY <2>2, <2>3, <1>0, <1>2, Fields, WritesAre DEF StoreHead, ObjectHead
  <1>3. CASE r = "addSubscriber"
    <2>1. Steps4(Program[r], Get, NotNil, Do("exist", "none", "subs"), Store("add", "subs")) BY <1>3, Positions
    <2>2. \/ Head(s) = Get /\ \A x: Ahead(s, x) <=> x = Get \/ x = NotNil \/ x = Do("exist", "none", "subs") \/ x = Store("add", "subs")
          \/ Head(s) = NotNil /\ \A x: Ahead(s, x) <=> x = NotNil \/ x = Do("exist", "none", "subs") \/ x = Store("add", "subs")
          \/ Head(s) = Do("exist", "none", "subs") /\ \A x: Ahead(s, x) <=> x = Do("exist", "none", "subs") \/ x = Store("add", "subs")
          \/ Head(s) = Store("add", "subs") /\ \A x: Ahead(s, x) <=> x = Store("add", "subs")
      BY <2>1, Stage4
    <2>3. First(r) = Get BY <1>3 DEF First
    <2> QED BY <2>2, <2>3, <1>0, <1>3, Fields, WritesAre DEF StoreHead, ObjectHead
  <1>4. CASE r = "resetSubscriber"
    <2>1. Steps5(Program[r], Get, NotNil, Store("clear", "subs"), Object("clear", "subs"), Store("add", "subs")) BY <1>4, Positions
    <2>2. \/ Head(s) = Get /\ \A x: Ahead(s, x) <=> x = Get \/ x = NotNil \/ x = Store("clear", "subs") \/ x = Object("clear", "subs") \/ x = Store("add", "subs")
          \/ Head(s) = NotNil /\ \A x: Ahead(s, x) <=> x = NotNil \/ x = Store("clear", "subs") \/ x = Object("clear", "subs") \/ x = Store("add", "subs")
          \/ Head(s) = Store("clear", "subs") /\ \A x: Ahead(s, x) <=> x = Store("clear", "subs") \/ x = Object("clear", "subs") \/ x = Store("add", "subs")
          \/ Head(s) = Object("clear", "subs") /\ \A x: Ahead(s, x) <=> x = Object("clear", "subs") \/ x = Store("add", "subs")
          \/ Head(s) = Store("add", "subs") /\ \A x: Ahead(s, x) <=> x = Store("add", "subs")
      BY <2>1, Stage5
    <2>3. First(r) = Store("clear", "subs") BY <1>4 DEF First
    <2> QED BY <2>2, <2>3, <1>0, <1>4, Fields, WritesAre DEF StoreHead, ObjectHead
  <1>5. CASE r = "removeSubscriber"
    <2>1. Steps4(Program[r], Get, Store("remove", "subs"), Object("remove", "subs"), Store("conversation", "none")) BY <1>5, Positions
    <2>2. \/ Head(s) = Get /\ \A x: Ahead(s, x) <=> x = Get \/ x = Store("remove", "subs") \/ x = Object("remove", "subs") \/ x = Store("conversation", "none")
          \/ Head(s) = Store("remove", "subs") /\ \A x: Ahead(s, x) <=> x = Store("remove", "subs") \/ x = Object("remove", "subs") \/ x = Store("conversation", "none")
          \/ Head(s) = Object("remove", "subs") /\ \A x: Ahead(s, x) <=> x = Object("remove", "subs") \/ x = Store("conversation", "none")
          \/ Head(s) = Store("conversation", "none") /\ \A x: Ahead(s, x) <=> x = Store("conversation", "none")
      BY <2>1, Stage4
    <2>3. First(r) = Store("remove", "subs") BY <1>5 DEF First
    <2> QED BY <2>2, <2>3, <1>0, <1>5, Fields, WritesAre DEF StoreHead, ObjectHead
  <1>6. CASE r = "blacklistAdd"
    <2>1. Steps3(Program[r], Store("add", "deny"), Get, Object("add", "deny")) BY <1>6, Positions
    <2>2. \/ Head(s) = Store("add", "deny") /\ \A x: Ahead(s, x) <=> x = Store("add", "deny") \/ x = Get \/ x = Object("add", "deny")
          \/ Head(s) = Get /\ \A x: Ahead(s, x) <=> x = Get \/ x = Object("add", "deny")
          \/ Head(s) = Object("add", "deny") /\ \A x: Ahead(s, x) <=> x = Object("add", "deny")
      BY <2>1, Stage3
    <2>3. First(r) = Store("add", "deny") BY <1>6 DEF First
    <2> QED BY <2>2, <2>3, <1>0, <1>6, Fields, WritesAre DEF StoreHead, ObjectHead
  <1>7. CASE r = "blacklistRemove"
    <2>1. Steps3(Program[r], Store("remove", "deny"), Get, Object("remove", "deny")) BY <1>7, Positions
    <2>2. \/ Head(s) = Store("remove", "deny") /\ \A x: Ahead(s, x) <=> x = Store("remove", "deny") \/ x = Get \/ x = Object("remove", "deny")
          \/ Head(s) = Get /\ \A x: Ahead(s, x) <=> x = Get \/ x = Object("remove", "deny")
          \/ Head(s) = Object("remove", "deny") /\ \A x: Ahead(s, x) <=> x = Object("remove", "deny")
      BY <2>1, Stage3
    <2>3. First(r) = Store("remove", "deny") BY <1>7 DEF First
    <2> QED BY <2>2, <2>3, <1>0, <1>7, Fields, WritesAre DEF StoreHead, ObjectHead
  <1>8. CASE r = "blacklistSet"
    <2>1. Steps5(Program[r], Store("clear", "deny"), Store("add", "deny"), Get, Object("clear", "deny"), Object("add", "deny")) BY <1>8, Positions
    <2>2. \/ Head(s) = Store("clear", "deny") /\ \A x: Ahead(s, x) <=> x = Store("clear", "deny") \/ x = Store("add", "deny") \/ x = Get \/ x = Object("clear", "deny") \/ x = Object("add", "deny")
          \/ Head(s) = Store("add", "deny") /\ \A x: Ahead(s, x) <=> x = Store("add", "deny") \/ x = Get \/ x = Object("clear", "deny") \/ x = Object("add", "deny")
          \/ Head(s) = Get /\ \A x: Ahead(s, x) <=> x = Get \/ x = Object("clear", "deny") \/ x = Object("add", "deny")
          \/ Head(s) = Object("clear", "deny") /\ \A x: Ahead(s, x) <=> x = Object("clear", "deny") \/ x = Object("add", "deny")
          \/ Head(s) = Object("add", "deny") /\ \A x: Ahead(s, x) <=> x = Object("add", "deny")
      BY <2>1, Stage5
    <2>3. First(r) = Store("clear", "deny") BY <1>8 DEF First
    <2> QED BY <2>2, <2>3, <1>0, <1>8, Fields, WritesAre DEF StoreHead, ObjectHead
  <1>9. CASE r = "whitelistAdd"
    <2>1. Steps3(Program[r], Store("add", "allow"), Get, Object("add", "allow")) BY <1>9, Positions
    <2>2. \/ Head(s) = Store("add", "allow") /\ \A x: Ahead(s, x) <=> x = Store("add", "allow") \/ x = Get \/ x = Object("add", "allow")
          \/ Head(s) = Get /\ \A x: Ahead(s, x) <=> x = Get \/ x = Object("add", "allow")
          \/ Head(s) = Object("add", "allow") /\ \A x: Ahead(s, x) <=> x = Object("add", "allow")
      BY <2>1, Stage3
    <2>3. First(r) = Store("add", "allow") BY <1>9 DEF First
    <2> QED BY <2>2, <2>3, <1>0, <1>9, Fields, WritesAre DEF StoreHead, ObjectHead
  <1>10. CASE r = "whitelistRemove"
    <2>1. Steps3(Program[r], Store("remove", "allow"), Get, Object("remove", "allow")) BY <1>10, Positions
    <2>2. \/ Head(s) = Store("remove", "allow") /\ \A x: Ahead(s, x) <=> x = Store("remove", "allow") \/ x = Get \/ x = Object("remove", "allow")
          \/ Head(s) = Get /\ \A x: Ahead(s, x) <=> x = Get \/ x = Object("remove", "allow")
          \/ Head(s) = Object("remove", "allow") /\ \A x: Ahead(s, x) <=> x = Object("remove", "allow")
      BY <2>1, Stage3
    <2>3. First(r) = Store("remove", "allow") BY <1>10 DEF First
    <2> QED BY <2>2, <2>3, <1>0, <1>10, Fields, WritesAre DEF StoreHead, ObjectHead
  <1>11. CASE r = "whitelistSet"
    <2>1. Steps5(Program[r], Store("clear", "allow"), Store("add", "allow"), Get, Object("clear", "allow"), Object("add", "deny")) BY <1>11, Positions
    <2>2. \/ Head(s) = Store("clear", "allow") /\ \A x: Ahead(s, x) <=> x = Store("clear", "allow") \/ x = Store("add", "allow") \/ x = Get \/ x = Object("clear", "allow") \/ x = Object("add", "deny")
          \/ Head(s) = Store("add", "allow") /\ \A x: Ahead(s, x) <=> x = Store("add", "allow") \/ x = Get \/ x = Object("clear", "allow") \/ x = Object("add", "deny")
          \/ Head(s) = Get /\ \A x: Ahead(s, x) <=> x = Get \/ x = Object("clear", "allow") \/ x = Object("add", "deny")
          \/ Head(s) = Object("clear", "allow") /\ \A x: Ahead(s, x) <=> x = Object("clear", "allow") \/ x = Object("add", "deny")
          \/ Head(s) = Object("add", "deny") /\ \A x: Ahead(s, x) <=> x = Object("add", "deny")
      BY <2>1, Stage5
    <2>3. First(r) = Store("clear", "allow") BY <1>11 DEF First
    <2> QED BY <2>2, <2>3, <1>0, <1>11, Fields, WritesAre DEF StoreHead, ObjectHead
  <1>12. CASE r = "send"
    <2>1. Steps3(Program[r], Get, Do("permit", "none", "none"), Do("deliver", "none", "none")) BY <1>12, Positions
    <2>2. \/ Head(s) = Get /\ \A x: Ahead(s, x) <=> x = Get \/ x = Do("permit", "none", "none") \/ x = Do("deliver", "none", "none")
          \/ Head(s) = Do("permit", "none", "none") /\ \A x: Ahead(s, x) <=> x = Do("permit", "none", "none") \/ x = Do("deliver", "none", "none")
          \/ Head(s) = Do("deliver", "none", "none") /\ \A x: Ahead(s, x) <=> x = Do("deliver", "none", "none")
      BY <2>1, Stage3
    <2>3. First(r) = Get BY <1>12 DEF First
    <2> QED BY <2>2, <2>3, <1>0, <1>12, Fields, WritesAre DEF StoreHead, ObjectHead
  <1> QED BY <1>1, <1>2, <1>3, <1>4, <1>5, <1>6, <1>7, <1>8, <1>9, <1>10, <1>11, <1>12, ProgramDomain DEF Handlers

LEMMA WayOn ==
  ASSUME NEW r \in DOMAIN Program, NEW s, OnWay(r, s), s # <<>>
  PROVE  /\ OnWay(r, Tail(s)) /\ Tail(s) \in Seq(Accesses) /\ Head(s) \in Accesses
         /\ \A x: Ahead(Tail(s), x) <=> Ahead(s, x) /\ x # Head(s)
         /\ Ahead(s, Head(s))
  <1>1. PICK k \in 0 .. 5, j \in 0 .. 4: Way(r, s, k, j) BY DEF OnWay
  <1>2. Len(Program[r]) \in 1 .. 5 BY Regularity DEF Regular
  <1>3. s \in Seq(Accesses) BY <1>1 DEF Way
  <1>4. OnWay(r, Tail(s))
    <2>1. CASE j > 0
      <3>1. Way(r, Tail(s), k, j - 1) BY <1>1, <2>1, WayTail
      <3>2. j - 1 \in 0 .. 4 BY <2>1
      <3> QED BY <3>1, <3>2 DEF OnWay
    <2>2. CASE j = 0
      <3>1. Way(r, Tail(s), k + 1, 0) /\ k + 1 \in 1 .. Len(Program[r]) BY <1>1, <2>2, WayTail
      <3>2. PICK n \in 1 .. 5: n = Len(Program[r]) BY <1>2
      <3>3. k + 1 \in 1 .. n BY <3>1, <3>2
      <3>4. k + 1 \in 0 .. 5 /\ 0 \in 0 .. 4 BY <3>3
      <3> QED BY <3>1, <3>4 DEF OnWay
    <2> QED BY <2>1, <2>2
  <1>5. Tail(s) \in Seq(Accesses) /\ Head(s) \in Accesses BY <1>3
  <1>6. Ahead(s, Head(s)) /\ \A x: Ahead(Tail(s), x) <=> Ahead(s, x) /\ x # Head(s) BY <1>1, WayTail
  <1> QED BY <1>4, <1>5, <1>6

LEMMA WayEnd ==
  ASSUME NEW r \in DOMAIN Program
  PROVE  OnWay(r, <<>>) /\ \A x: ~Ahead(<<>>, x)
  <1>1. Len(Program[r]) \in 1 .. 5 BY Regularity DEF Regular
  <1>2. Way(r, <<>>, Len(Program[r]), 0)
    <2>1. <<>> \in Seq(Accesses) /\ Len(<<>>) = 0 OBVIOUS
    <2>2. PICK n \in 1 .. 5: n = Len(Program[r]) BY <1>1
    <2>3. n \in 0 .. n /\ 0 \in 0 .. 4 /\ 0 = 0 + (n - n) OBVIOUS
    <2>4. (\A i \in 1 .. 0: FALSE) /\ (\A i \in 1 .. n - n: FALSE) OBVIOUS
    <2> QED BY <2>1, <2>2, <2>3, <2>4 DEF Way
  <1>3. OnWay(r, <<>>)
    <2>1. Len(Program[r]) \in 0 .. 5 /\ 0 \in 0 .. 4 BY <1>1
    <2> QED BY <2>1, <1>2 DEF OnWay
  <1> QED BY <1>3 DEF Ahead

\* GetChannel begins a load.
LEMMA WayLoad ==
  ASSUME NEW r \in DOMAIN Program, NEW s, OnWay(r, s), s # <<>>, Head(s) = Get
  PROVE  /\ OnWay(r, Load \o Tail(s)) /\ Load \o Tail(s) \in Seq(Accesses)
         /\ \A x: Ahead(Load \o Tail(s), x) <=> Ahead(Tail(s), x) \/ \E i \in 1 .. 4: x = Load[i]
  <1> DEFINE P == Program[r]
             u == Load \o Tail(s)
  <1>1. PICK k \in 0 .. 5, j \in 0 .. 4: Way(r, s, k, j) BY DEF OnWay
  <1>2. Len(P) \in 1 .. 5 /\ P \in Seq(Accesses) BY Regularity DEF Regular
  <1>3. j = 0
    <2> SUFFICES ASSUME j > 0 PROVE FALSE OBVIOUS
    <2>1. Head(s) = Load[5 - j] BY <1>1, WayTail
    <2>2. 5 - j \in 1 .. 4 OBVIOUS
    <2>3. Get.at = "get" BY Fields
    <2> QED BY <2>1, <2>2, <2>3, Loads
  <1>4. k + 1 \in 1 .. Len(P) /\ P[k + 1] = Get /\ Way(r, Tail(s), k + 1, 0) BY <1>1, <1>3, WayTail
  <1>5. /\ Tail(s) \in Seq(Accesses) /\ Len(Tail(s)) = 0 + (Len(P) - (k + 1))
        /\ \A i \in 1 .. Len(P) - (k + 1): Tail(s)[0 + i] = P[(k + 1) + i]
    BY <1>4 DEF Way
  <1> HIDE DEF P
  <1>6. Load \in Seq(Accesses) /\ Len(Load) = 4 BY Loads
  <1>7. /\ u \in Seq(Accesses) /\ Len(u) = 4 + Len(Tail(s))
        /\ \A i \in 1 .. 4: u[i] = Load[i]
        /\ \A i \in 1 .. Len(Tail(s)): u[4 + i] = Tail(s)[i]
    <2>1. ASSUME NEW a \in Seq(Accesses), NEW b \in Seq(Accesses), Len(a) = 4
          PROVE  /\ a \o b \in Seq(Accesses) /\ Len(a \o b) = 4 + Len(b)
                 /\ \A i \in 1 .. 4: (a \o b)[i] = a[i]
                 /\ \A i \in 1 .. Len(b): (a \o b)[4 + i] = b[i]
      <3>1. /\ a \o b \in Seq(Accesses) /\ Len(a \o b) = 4 + Len(b)
            /\ \A i \in 1 .. 4 + Len(b): (a \o b)[i] = IF i <= 4 THEN a[i] ELSE b[i - 4]
        <4>1. /\ a \o b \in Seq(Accesses) /\ Len(a \o b) = Len(a) + Len(b)
              /\ \A i \in 1 .. Len(a) + Len(b): (a \o b)[i] = IF i <= Len(a) THEN a[i] ELSE b[i - Len(a)]
          BY ConcatProperties
        <4> QED BY <4>1, <2>1
      <3>2. Len(b) \in Nat OBVIOUS
      <3>3. ASSUME NEW i \in 1 .. 4 PROVE (a \o b)[i] = a[i]
        <4>1. i \in 1 .. 4 + Len(b) /\ i <= 4 BY <3>2
        <4> QED BY <4>1, <3>1
      <3>4. ASSUME NEW i \in 1 .. Len(b) PROVE (a \o b)[4 + i] = b[i]
        <4>1. 4 + i \in 1 .. 4 + Len(b) /\ ~(4 + i <= 4) /\ (4 + i) - 4 = i BY <3>2
        <4> QED BY <4>1, <3>1
      <3> QED BY <3>1, <3>3, <3>4
    <2> QED BY <2>1, <1>5, <1>6
  <1> HIDE DEF u
  <1>8. ASSUME NEW i \in 1 .. Len(P) - (k + 1) PROVE u[4 + i] = P[(k + 1) + i]
    <2>1. i \in 1 .. Len(Tail(s)) /\ 0 + i = i BY <1>2, <1>5
    <2> QED BY <2>1, <1>5, <1>7
  <1>9. ASSUME NEW i \in 1 .. 4 PROVE u[i] = Load[(4 - 4) + i]
    <2>1. (4 - 4) + i = i OBVIOUS
    <2> QED BY <2>1, <1>7
  <1>10. Way(r, u, k + 1, 4)
    <2>1. k + 1 \in 0 .. Len(P) /\ 4 \in 0 .. 4 /\ Len(u) = 4 + (Len(P) - (k + 1)) /\ k + 1 > 0 BY <1>2, <1>4, <1>5, <1>7
    <2> QED BY <2>1, <1>4, <1>7, <1>8, <1>9 DEF Way, P
  <1>11. OnWay(r, u)
    <2>1. k + 1 \in 0 .. 5 /\ 4 \in 0 .. 4 BY <1>2, <1>4
    <2> QED BY <2>1, <1>10 DEF OnWay
  <1>12. ASSUME NEW x PROVE Ahead(u, x) <=> Ahead(Tail(s), x) \/ \E i \in 1 .. 4: x = Load[i]
    <2>1. DOMAIN u = 1 .. Len(u) /\ DOMAIN Tail(s) = 1 .. Len(Tail(s)) BY <1>5, <1>7
    <2>2. \A i \in 1 .. 4: i \in 1 .. Len(u) BY <1>5, <1>7
    <2>3. \A i \in 1 .. Len(Tail(s)): 4 + i \in 1 .. Len(u) BY <1>5, <1>7
    <2>4. ASSUME NEW i \in 1 .. Len(u), i \notin 1 .. 4 PROVE i - 4 \in 1 .. Len(Tail(s)) /\ u[i] = Tail(s)[i - 4]
      <3>1. i - 4 \in 1 .. Len(Tail(s)) /\ 4 + (i - 4) = i BY <2>4, <1>5, <1>7
      <3> QED BY <3>1, <1>7
    <2> QED BY <2>1, <2>2, <2>3, <2>4, <1>7, ZenonT(30) DEF Ahead
  <1> QED BY <1>7, <1>11, <1>12 DEF u

\* What the model asks of the accesses left.
LEMMA LooksLoads ==
  ASSUME NEW r \in DOMAIN Program, NEW s, OnWay(r, s)
  PROVE  /\ (\E i \in DOMAIN s: s[i].at = "publish") <=> Ahead(s, Load[4])
         /\ (\E i \in DOMAIN s: s[i].at \in {"get", "evict"}) <=> Ahead(s, Get) \/ Ahead(s, Evict)
  <1> DEFINE Plain(x) == (x.at = "get" => x = Get) /\ (x.at = "evict" => x = Evict)
  <1>1. PICK k \in 0 .. 5, j \in 0 .. 4: Way(r, s, k, j) BY DEF OnWay
  <1>2. \A i \in 1 .. Len(Program[r]): Plain(Program[r][i])
    <2>1. ASSUME r = "channelCreateOrUpdate" PROVE \A i \in 1 .. Len(Program[r]): Plain(Program[r][i])
      <3>1. Steps4(Program[r], Store("put", "info"), Store("clear", "subs"), Store("add", "subs"), Evict) BY <2>1, Positions
      <3>2. \A i \in 1 .. 4: i = 1 \/ i = 2 \/ i = 3 \/ i = 4 OBVIOUS
      <3> QED BY <3>1, <3>2, Fields DEF Steps4
    <2>2. ASSUME r = "channelDelete" PROVE \A i \in 1 .. Len(Program[r]): Plain(Program[r][i])
      <3>1. Steps3(Program[r], Store("delete", "info"), Store("deleteAgain", "info"), Evict) BY <2>2, Positions
      <3>2. \A i \in 1 .. 3: i = 1 \/ i = 2 \/ i = 3 OBVIOUS
      <3> QED BY <3>1, <3>2, Fields DEF Steps3
    <2>3. ASSUME r = "addSubscriber" PROVE \A i \in 1 .. Len(Program[r]): Plain(Program[r][i])
      <3>1. Steps4(Program[r], Get, NotNil, Do("exist", "none", "subs"), Store("add", "subs")) BY <2>3, Positions
      <3>2. \A i \in 1 .. 4: i = 1 \/ i = 2 \/ i = 3 \/ i = 4 OBVIOUS
      <3> QED BY <3>1, <3>2, Fields DEF Steps4
    <2>4. ASSUME r = "resetSubscriber" PROVE \A i \in 1 .. Len(Program[r]): Plain(Program[r][i])
      <3>1. Steps5(Program[r], Get, NotNil, Store("clear", "subs"), Object("clear", "subs"), Store("add", "subs")) BY <2>4, Positions
      <3>2. \A i \in 1 .. 5: i = 1 \/ i = 2 \/ i = 3 \/ i = 4 \/ i = 5 OBVIOUS
      <3> QED BY <3>1, <3>2, Fields DEF Steps5
    <2>5. ASSUME r = "removeSubscriber" PROVE \A i \in 1 .. Len(Program[r]): Plain(Program[r][i])
      <3>1. Steps4(Program[r], Get, Store("remove", "subs"), Object("remove", "subs"), Store("conversation", "none")) BY <2>5, Positions
      <3>2. \A i \in 1 .. 4: i = 1 \/ i = 2 \/ i = 3 \/ i = 4 OBVIOUS
      <3> QED BY <3>1, <3>2, Fields DEF Steps4
    <2>6. ASSUME r = "blacklistAdd" PROVE \A i \in 1 .. Len(Program[r]): Plain(Program[r][i])
      <3>1. Steps3(Program[r], Store("add", "deny"), Get, Object("add", "deny")) BY <2>6, Positions
      <3>2. \A i \in 1 .. 3: i = 1 \/ i = 2 \/ i = 3 OBVIOUS
      <3> QED BY <3>1, <3>2, Fields DEF Steps3
    <2>7. ASSUME r = "blacklistRemove" PROVE \A i \in 1 .. Len(Program[r]): Plain(Program[r][i])
      <3>1. Steps3(Program[r], Store("remove", "deny"), Get, Object("remove", "deny")) BY <2>7, Positions
      <3>2. \A i \in 1 .. 3: i = 1 \/ i = 2 \/ i = 3 OBVIOUS
      <3> QED BY <3>1, <3>2, Fields DEF Steps3
    <2>8. ASSUME r = "blacklistSet" PROVE \A i \in 1 .. Len(Program[r]): Plain(Program[r][i])
      <3>1. Steps5(Program[r], Store("clear", "deny"), Store("add", "deny"), Get, Object("clear", "deny"), Object("add", "deny")) BY <2>8, Positions
      <3>2. \A i \in 1 .. 5: i = 1 \/ i = 2 \/ i = 3 \/ i = 4 \/ i = 5 OBVIOUS
      <3> QED BY <3>1, <3>2, Fields DEF Steps5
    <2>9. ASSUME r = "whitelistAdd" PROVE \A i \in 1 .. Len(Program[r]): Plain(Program[r][i])
      <3>1. Steps3(Program[r], Store("add", "allow"), Get, Object("add", "allow")) BY <2>9, Positions
      <3>2. \A i \in 1 .. 3: i = 1 \/ i = 2 \/ i = 3 OBVIOUS
      <3> QED BY <3>1, <3>2, Fields DEF Steps3
    <2>10. ASSUME r = "whitelistRemove" PROVE \A i \in 1 .. Len(Program[r]): Plain(Program[r][i])
      <3>1. Steps3(Program[r], Store("remove", "allow"), Get, Object("remove", "allow")) BY <2>10, Positions
      <3>2. \A i \in 1 .. 3: i = 1 \/ i = 2 \/ i = 3 OBVIOUS
      <3> QED BY <3>1, <3>2, Fields DEF Steps3
    <2>11. ASSUME r = "whitelistSet" PROVE \A i \in 1 .. Len(Program[r]): Plain(Program[r][i])
      <3>1. Steps5(Program[r], Store("clear", "allow"), Store("add", "allow"), Get, Object("clear", "allow"), Object("add", "deny")) BY <2>11, Positions
      <3>2. \A i \in 1 .. 5: i = 1 \/ i = 2 \/ i = 3 \/ i = 4 \/ i = 5 OBVIOUS
      <3> QED BY <3>1, <3>2, Fields DEF Steps5
    <2>12. ASSUME r = "send" PROVE \A i \in 1 .. Len(Program[r]): Plain(Program[r][i])
      <3>1. Steps3(Program[r], Get, Do("permit", "none", "none"), Do("deliver", "none", "none")) BY <2>12, Positions
      <3>2. \A i \in 1 .. 3: i = 1 \/ i = 2 \/ i = 3 OBVIOUS
      <3> QED BY <3>1, <3>2, Fields DEF Steps3
    <2> QED BY <2>1, <2>2, <2>3, <2>4, <2>5, <2>6, <2>7, <2>8, <2>9, <2>10, <2>11, <2>12, ProgramDomain DEF Handlers
  <1>3. \A i \in 1 .. Len(Program[r]): Program[r][i].at \notin {"read", "publish"} BY Regularity DEF Regular
  <1>4. \A x: Ahead(s, x) => \/ \E i \in 1 .. Len(Program[r]): x = Program[r][i]
                             \/ \E i \in 1 .. 4: x = Load[i]
    BY <1>1, WayAhead
  <1>5. \A i \in 1 .. 4: Load[i].at \in {"read", "publish"} /\ (Load[i].at = "publish" => Load[i] = Load[4])
    <2>1. \A i \in 1 .. 4: i = 1 \/ i = 2 \/ i = 3 \/ i = 4 OBVIOUS
    <2> QED BY <2>1, Loads, Fields
  <1>6. ASSUME NEW x, Ahead(s, x) PROVE Plain(x) /\ (x.at = "publish" => x = Load[4])
    BY <1>2, <1>3, <1>4, <1>5, <1>6
  <1>7. Load[4].at = "publish" /\ Get.at = "get" /\ Evict.at = "evict" BY Loads, Fields
  <1>8. \A x: Ahead(s, x) <=> \E i \in DOMAIN s: s[i] = x BY DEF Ahead
  <1>9. \A i \in DOMAIN s: Ahead(s, s[i]) BY <1>8
  <1>10. (\E i \in DOMAIN s: s[i].at = "publish") <=> Ahead(s, Load[4]) BY <1>6, <1>7, <1>8, <1>9
  <1>11. (\E i \in DOMAIN s: s[i].at \in {"get", "evict"}) <=> Ahead(s, Get) \/ Ahead(s, Evict) BY <1>6, <1>7, <1>8, <1>9
  <1> QED BY <1>10, <1>11

\* A request or a send begins.
LEMMA Began ==
  ASSUME NEW r \in DOMAIN Program
  PROVE  /\ OnWay(r, Program[r]) /\ Program[r] \in Seq(Accesses)
         /\ \A x: Ahead(Program[r], x) <=> \E i \in 1 .. Len(Program[r]): x = Program[r][i]
         /\ ~Ahead(Program[r], Load[4])
  <1>1. Regular(Program[r]) BY Regularity
  <1>2. Len(Program[r]) \in 1 .. 5 /\ Program[r] \in Seq(Accesses) BY <1>1 DEF Regular
  <1>3. Way(r, Program[r], 0, 0)
    <2>1. PICK n \in 1 .. 5: n = Len(Program[r]) BY <1>2
    <2>2. 0 \in 0 .. n /\ 0 \in 0 .. 4 /\ n = 0 + (n - 0) /\ (\A i \in 1 .. 0: FALSE) OBVIOUS
    <2>3. \A i \in 1 .. n - 0: 0 + i = i OBVIOUS
    <2> QED BY <2>1, <2>2, <2>3, <1>2 DEF Way
  <1>4. OnWay(r, Program[r])
    <2>1. 0 \in 0 .. 5 /\ 0 \in 0 .. 4 OBVIOUS
    <2> QED BY <2>1, <1>3 DEF OnWay
  <1>5. DOMAIN Program[r] = 1 .. Len(Program[r]) BY <1>2
  <1>6. \A x: Ahead(Program[r], x) <=> \E i \in 1 .. Len(Program[r]): x = Program[r][i] BY <1>5 DEF Ahead
  <1>7. ~Ahead(Program[r], Load[4])
    <2>1. Load[4].at = "publish" BY Loads, Fields
    <2> QED BY <2>1, <1>1, <1>6 DEF Regular
  <1> QED BY <1>2, <1>4, <1>6, <1>7

Started(r) ==
    /\ r \notin {"channelDelete", "addSubscriber"} => Ahead(Program[r], First(r))
    /\ r = "whitelistSet" => Ahead(Program[r], Object("add", "deny"))
    /\ r = "channelCreateOrUpdate" => Ahead(Program[r], Evict)
    /\ ~Ahead(Program[r], Do("deliver", "none", "none"))
    /\ \A l \in Writes(r): \A u, v:
          r # "channelCreateOrUpdate" /\ ~(r = "whitelistSet" /\ u # {}) =>
              Agree(l, After("object", Program[r], l, u, v), After("store", Program[r], l, u, v))

LEMMA Begin3 ==
  ASSUME NEW r \in DOMAIN Program, NEW a, NEW b, NEW c, Steps3(Program[r], a, b, c)
  PROVE  \A x: Ahead(Program[r], x) <=> x = a \/ x = b \/ x = c
  <1>1. \A i: i \in 1 .. 3 <=> i = 1 \/ i = 2 \/ i = 3 OBVIOUS
  <1>2. Len(Program[r]) = 3 BY DEF Steps3
  <1>3. \A x: Ahead(Program[r], x) <=> \E i \in 1 .. Len(Program[r]): x = Program[r][i] BY Began
  <1>4. \A x: Ahead(Program[r], x) <=> \E i \in 1 .. 3: x = Program[r][i] BY <1>2, <1>3
  <1> QED BY <1>1, <1>4 DEF Steps3

LEMMA Begin4 ==
  ASSUME NEW r \in DOMAIN Program, NEW a, NEW b, NEW c, NEW d, Steps4(Program[r], a, b, c, d)
  PROVE  \A x: Ahead(Program[r], x) <=> x = a \/ x = b \/ x = c \/ x = d
  <1>1. \A i: i \in 1 .. 4 <=> i = 1 \/ i = 2 \/ i = 3 \/ i = 4 OBVIOUS
  <1>2. Len(Program[r]) = 4 BY DEF Steps4
  <1>3. \A x: Ahead(Program[r], x) <=> \E i \in 1 .. Len(Program[r]): x = Program[r][i] BY Began
  <1>4. \A x: Ahead(Program[r], x) <=> \E i \in 1 .. 4: x = Program[r][i] BY <1>2, <1>3
  <1> QED BY <1>1, <1>4 DEF Steps4

LEMMA Begin5 ==
  ASSUME NEW r \in DOMAIN Program, NEW a, NEW b, NEW c, NEW d, NEW e, Steps5(Program[r], a, b, c, d, e)
  PROVE  \A x: Ahead(Program[r], x) <=> x = a \/ x = b \/ x = c \/ x = d \/ x = e
  <1>1. \A i: i \in 1 .. 5 <=> i = 1 \/ i = 2 \/ i = 3 \/ i = 4 \/ i = 5 OBVIOUS
  <1>2. Len(Program[r]) = 5 BY DEF Steps5
  <1>3. \A x: Ahead(Program[r], x) <=> \E i \in 1 .. Len(Program[r]): x = Program[r][i] BY Began
  <1>4. \A x: Ahead(Program[r], x) <=> \E i \in 1 .. 5: x = Program[r][i] BY <1>2, <1>3
  <1> QED BY <1>1, <1>4 DEF Steps5

LEMMA Starts ==
  ASSUME NEW r \in Requests PROVE Started(r)
  <1>1. CASE r = "channelCreateOrUpdate"
    <2>1. "channelCreateOrUpdate" \in DOMAIN Program BY ProgramDomain DEF Handlers
    <2>2. \A x: Ahead(Program[r], x) <=> x = Store("put", "info") \/ x = Store("clear", "subs") \/ x = Store("add", "subs") \/ x = Evict
      BY <2>1, <1>1, Positions, Begin4
    <2>3. First(r) = Store("clear", "subs") BY <1>1 DEF First
    <2>4. \A l \in Writes(r): l = "subs" BY <1>1, WritesAre
    <2>5. \A u, v: r # "channelCreateOrUpdate" /\ ~(r = "whitelistSet" /\ u # {}) =>
              \A l \in Writes(r): Agree(l, After("object", Program[r], l, u, v), After("store", Program[r], l, u, v))
      BY <2>2, <2>4, <1>1, Fields DEF Agree, After
    <2> QED BY <2>2, <2>3, <2>5, <1>1, Fields DEF Started
  <1>2. CASE r = "channelDelete"
    <2>1. "channelDelete" \in DOMAIN Program BY ProgramDomain DEF Handlers
    <2>2. \A x: Ahead(Program[r], x) <=> x = Store("delete", "info") \/ x = Store("deleteAgain", "info") \/ x = Evict
      BY <2>1, <1>2, Positions, Begin3
    <2>3. First(r) = Get BY <1>2 DEF First
    <2>4. \A l \in Writes(r): FALSE BY <1>2, WritesAre
    <2>5. \A u, v: r # "channelCreateOrUpdate" /\ ~(r = "whitelistSet" /\ u # {}) =>
              \A l \in Writes(r): Agree(l, After("object", Program[r], l, u, v), After("store", Program[r], l, u, v))
      BY <2>2, <2>4, <1>2, Fields DEF Agree, After
    <2> QED BY <2>2, <2>3, <2>5, <1>2, Fields DEF Started
  <1>3. CASE r = "addSubscriber"
    <2>1. "addSubscriber" \in DOMAIN Program BY ProgramDomain DEF Handlers
    <2>2. \A x: Ahead(Program[r], x) <=> x = Get \/ x = NotNil \/ x = Do("exist", "none", "subs") \/ x = Store("add", "subs")
      BY <2>1, <1>3, Positions, Begin4
    <2>3. First(r) = Get BY <1>3 DEF First
    <2>4. \A l \in Writes(r): l = "subs" BY <1>3, WritesAre
    <2>5. \A u, v: r # "channelCreateOrUpdate" /\ ~(r = "whitelistSet" /\ u # {}) =>
              \A l \in Writes(r): Agree(l, After("object", Program[r], l, u, v), After("store", Program[r], l, u, v))
      BY <2>2, <2>4, <1>3, Fields DEF Agree, After
    <2> QED BY <2>2, <2>3, <2>5, <1>3, Fields DEF Started
  <1>4. CASE r = "resetSubscriber"
    <2>1. "resetSubscriber" \in DOMAIN Program BY ProgramDomain DEF Handlers
    <2>2. \A x: Ahead(Program[r], x) <=> x = Get \/ x = NotNil \/ x = Store("clear", "subs") \/ x = Object("clear", "subs") \/ x = Store("add", "subs")
      BY <2>1, <1>4, Positions, Begin5
    <2>3. First(r) = Store("clear", "subs") BY <1>4 DEF First
    <2>4. \A l \in Writes(r): l = "subs" BY <1>4, WritesAre
    <2>5. \A u, v: r # "channelCreateOrUpdate" /\ ~(r = "whitelistSet" /\ u # {}) =>
              \A l \in Writes(r): Agree(l, After("object", Program[r], l, u, v), After("store", Program[r], l, u, v))
      BY <2>2, <2>4, <1>4, Fields DEF Agree, After
    <2> QED BY <2>2, <2>3, <2>5, <1>4, Fields DEF Started
  <1>5. CASE r = "removeSubscriber"
    <2>1. "removeSubscriber" \in DOMAIN Program BY ProgramDomain DEF Handlers
    <2>2. \A x: Ahead(Program[r], x) <=> x = Get \/ x = Store("remove", "subs") \/ x = Object("remove", "subs") \/ x = Store("conversation", "none")
      BY <2>1, <1>5, Positions, Begin4
    <2>3. First(r) = Store("remove", "subs") BY <1>5 DEF First
    <2>4. \A l \in Writes(r): l = "subs" BY <1>5, WritesAre
    <2>5. \A u, v: r # "channelCreateOrUpdate" /\ ~(r = "whitelistSet" /\ u # {}) =>
              \A l \in Writes(r): Agree(l, After("object", Program[r], l, u, v), After("store", Program[r], l, u, v))
      BY <2>2, <2>4, <1>5, Fields DEF Agree, After
    <2> QED BY <2>2, <2>3, <2>5, <1>5, Fields DEF Started
  <1>6. CASE r = "blacklistAdd"
    <2>1. "blacklistAdd" \in DOMAIN Program BY ProgramDomain DEF Handlers
    <2>2. \A x: Ahead(Program[r], x) <=> x = Store("add", "deny") \/ x = Get \/ x = Object("add", "deny")
      BY <2>1, <1>6, Positions, Begin3
    <2>3. First(r) = Store("add", "deny") BY <1>6 DEF First
    <2>4. \A l \in Writes(r): l = "deny" BY <1>6, WritesAre
    <2>5. \A u, v: r # "channelCreateOrUpdate" /\ ~(r = "whitelistSet" /\ u # {}) =>
              \A l \in Writes(r): Agree(l, After("object", Program[r], l, u, v), After("store", Program[r], l, u, v))
      <3>1. ~Ahead(Program[r], Do("object", "clear", "deny")) /\ ~Ahead(Program[r], Do("object", "remove", "deny")) /\ Ahead(Program[r], Do("object", "add", "deny"))
            /\ ~Ahead(Program[r], Do("store", "clear", "deny")) /\ ~Ahead(Program[r], Do("store", "remove", "deny")) /\ Ahead(Program[r], Do("store", "add", "deny"))
        BY <2>2, Fields
      <3> QED BY <3>1, <2>4, <1>6 DEF Agree, After
    <2> QED BY <2>2, <2>3, <2>5, <1>6, Fields DEF Started
  <1>7. CASE r = "blacklistRemove"
    <2>1. "blacklistRemove" \in DOMAIN Program BY ProgramDomain DEF Handlers
    <2>2. \A x: Ahead(Program[r], x) <=> x = Store("remove", "deny") \/ x = Get \/ x = Object("remove", "deny")
      BY <2>1, <1>7, Positions, Begin3
    <2>3. First(r) = Store("remove", "deny") BY <1>7 DEF First
    <2>4. \A l \in Writes(r): l = "deny" BY <1>7, WritesAre
    <2>5. \A u, v: r # "channelCreateOrUpdate" /\ ~(r = "whitelistSet" /\ u # {}) =>
              \A l \in Writes(r): Agree(l, After("object", Program[r], l, u, v), After("store", Program[r], l, u, v))
      <3>1. ~Ahead(Program[r], Do("object", "clear", "deny")) /\ Ahead(Program[r], Do("object", "remove", "deny")) /\ ~Ahead(Program[r], Do("object", "add", "deny"))
            /\ ~Ahead(Program[r], Do("store", "clear", "deny")) /\ Ahead(Program[r], Do("store", "remove", "deny")) /\ ~Ahead(Program[r], Do("store", "add", "deny"))
        BY <2>2, Fields
      <3> QED BY <3>1, <2>4, <1>7 DEF Agree, After
    <2> QED BY <2>2, <2>3, <2>5, <1>7, Fields DEF Started
  <1>8. CASE r = "blacklistSet"
    <2>1. "blacklistSet" \in DOMAIN Program BY ProgramDomain DEF Handlers
    <2>2. \A x: Ahead(Program[r], x) <=> x = Store("clear", "deny") \/ x = Store("add", "deny") \/ x = Get \/ x = Object("clear", "deny") \/ x = Object("add", "deny")
      BY <2>1, <1>8, Positions, Begin5
    <2>3. First(r) = Store("clear", "deny") BY <1>8 DEF First
    <2>4. \A l \in Writes(r): l = "deny" BY <1>8, WritesAre
    <2>5. \A u, v: r # "channelCreateOrUpdate" /\ ~(r = "whitelistSet" /\ u # {}) =>
              \A l \in Writes(r): Agree(l, After("object", Program[r], l, u, v), After("store", Program[r], l, u, v))
      <3>1. Ahead(Program[r], Do("object", "clear", "deny")) /\ ~Ahead(Program[r], Do("object", "remove", "deny")) /\ Ahead(Program[r], Do("object", "add", "deny"))
            /\ Ahead(Program[r], Do("store", "clear", "deny")) /\ ~Ahead(Program[r], Do("store", "remove", "deny")) /\ Ahead(Program[r], Do("store", "add", "deny"))
        BY <2>2, Fields
      <3> QED BY <3>1, <2>4, <1>8 DEF Agree, After
    <2> QED BY <2>2, <2>3, <2>5, <1>8, Fields DEF Started
  <1>9. CASE r = "whitelistAdd"
    <2>1. "whitelistAdd" \in DOMAIN Program BY ProgramDomain DEF Handlers
    <2>2. \A x: Ahead(Program[r], x) <=> x = Store("add", "allow") \/ x = Get \/ x = Object("add", "allow")
      BY <2>1, <1>9, Positions, Begin3
    <2>3. First(r) = Store("add", "allow") BY <1>9 DEF First
    <2>4. \A l \in Writes(r): l = "allow" BY <1>9, WritesAre
    <2>5. \A u, v: r # "channelCreateOrUpdate" /\ ~(r = "whitelistSet" /\ u # {}) =>
              \A l \in Writes(r): Agree(l, After("object", Program[r], l, u, v), After("store", Program[r], l, u, v))
      <3>1. ~Ahead(Program[r], Do("object", "clear", "allow")) /\ ~Ahead(Program[r], Do("object", "remove", "allow")) /\ Ahead(Program[r], Do("object", "add", "allow"))
            /\ ~Ahead(Program[r], Do("store", "clear", "allow")) /\ ~Ahead(Program[r], Do("store", "remove", "allow")) /\ Ahead(Program[r], Do("store", "add", "allow"))
        BY <2>2, Fields
      <3> QED BY <3>1, <2>4, <1>9 DEF Agree, After
    <2> QED BY <2>2, <2>3, <2>5, <1>9, Fields DEF Started
  <1>10. CASE r = "whitelistRemove"
    <2>1. "whitelistRemove" \in DOMAIN Program BY ProgramDomain DEF Handlers
    <2>2. \A x: Ahead(Program[r], x) <=> x = Store("remove", "allow") \/ x = Get \/ x = Object("remove", "allow")
      BY <2>1, <1>10, Positions, Begin3
    <2>3. First(r) = Store("remove", "allow") BY <1>10 DEF First
    <2>4. \A l \in Writes(r): l = "allow" BY <1>10, WritesAre
    <2>5. \A u, v: r # "channelCreateOrUpdate" /\ ~(r = "whitelistSet" /\ u # {}) =>
              \A l \in Writes(r): Agree(l, After("object", Program[r], l, u, v), After("store", Program[r], l, u, v))
      <3>1. ~Ahead(Program[r], Do("object", "clear", "allow")) /\ Ahead(Program[r], Do("object", "remove", "allow")) /\ ~Ahead(Program[r], Do("object", "add", "allow"))
            /\ ~Ahead(Program[r], Do("store", "clear", "allow")) /\ Ahead(Program[r], Do("store", "remove", "allow")) /\ ~Ahead(Program[r], Do("store", "add", "allow"))
        BY <2>2, Fields
      <3> QED BY <3>1, <2>4, <1>10 DEF Agree, After
    <2> QED BY <2>2, <2>3, <2>5, <1>10, Fields DEF Started
  <1>11. CASE r = "whitelistSet"
    <2>1. "whitelistSet" \in DOMAIN Program BY ProgramDomain DEF Handlers
    <2>2. \A x: Ahead(Program[r], x) <=> x = Store("clear", "allow") \/ x = Store("add", "allow") \/ x = Get \/ x = Object("clear", "allow") \/ x = Object("add", "deny")
      BY <2>1, <1>11, Positions, Begin5
    <2>3. First(r) = Store("clear", "allow") BY <1>11 DEF First
    <2>4. \A l \in Writes(r): l = "allow" BY <1>11, WritesAre
    <2>5. \A u, v: r # "channelCreateOrUpdate" /\ ~(r = "whitelistSet" /\ u # {}) =>
              \A l \in Writes(r): Agree(l, After("object", Program[r], l, u, v), After("store", Program[r], l, u, v))
      <3>1. Ahead(Program[r], Do("object", "clear", "allow")) /\ ~Ahead(Program[r], Do("object", "remove", "allow")) /\ ~Ahead(Program[r], Do("object", "add", "allow"))
            /\ Ahead(Program[r], Do("store", "clear", "allow")) /\ ~Ahead(Program[r], Do("store", "remove", "allow")) /\ Ahead(Program[r], Do("store", "add", "allow"))
        BY <2>2, Fields
      <3> QED BY <3>1, <2>4, <1>11 DEF Agree, After
    <2> QED BY <2>2, <2>3, <2>5, <1>11, Fields DEF Started
  <1> QED BY <1>1, <1>2, <1>3, <1>4, <1>5, <1>6, <1>7, <1>8, <1>9, <1>10, <1>11, ProgramDomain DEF Handlers

\* An access done takes nothing from what the list becomes.
LEMMA Peel ==
  ASSUME NEW r \in DOMAIN Program, NEW s, OnWay(r, s), s # <<>>, NEW at, NEW l, NEW u, NEW v
  PROVE  /\ Head(s).at # at \/ Head(s).list # l => After(at, Tail(s), l, u, v) = After(at, s, l, u, v)
         /\ /\ Head(s).at = at /\ Head(s).list = l /\ Head(s).verb \in {"add", "clear", "remove"}
            /\ Head(s).verb = "add" => ~Ahead(s, Do(at, "clear", l)) /\ ~Ahead(s, Do(at, "remove", l))
            => After(at, Tail(s), l, u, Changed(Head(s).verb, v, u)) = After(at, s, l, u, v)
  <1>1. /\ Head(s) \in Accesses
        /\ \A x: Ahead(Tail(s), x) <=> Ahead(s, x) /\ x # Head(s)
        /\ Ahead(s, Head(s))
    BY WayOn
  <1>2. Head(s) = Do(Head(s).at, Head(s).verb, Head(s).list) BY <1>1, Eta
  <1>3. ASSUME Head(s).at # at \/ Head(s).list # l PROVE After(at, Tail(s), l, u, v) = After(at, s, l, u, v)
    <2>1. \A b: Do(at, b, l) # Head(s) BY <1>3, Fields
    <2>2. \A b: Ahead(Tail(s), Do(at, b, l)) <=> Ahead(s, Do(at, b, l)) BY <2>1, <1>1
    <2> QED BY <2>2 DEF After
  <1>4. ASSUME Head(s).at = at, Head(s).list = l, Head(s).verb \in {"add", "clear", "remove"},
               Head(s).verb = "add" => ~Ahead(s, Do(at, "clear", l)) /\ ~Ahead(s, Do(at, "remove", l))
        PROVE  After(at, Tail(s), l, u, Changed(Head(s).verb, v, u)) = After(at, s, l, u, v)
    <2>1. CASE Head(s).verb = "add"
      <3>1. Head(s) = Do(at, "add", l) BY <1>2, <1>4, <2>1
      <3>2. Ahead(s, Do(at, "add", l)) /\ ~Ahead(Tail(s), Do(at, "add", l)) BY <3>1, <1>1
      <3>3. ~Ahead(Tail(s), Do(at, "clear", l)) /\ ~Ahead(Tail(s), Do(at, "remove", l))
            /\ ~Ahead(s, Do(at, "clear", l)) /\ ~Ahead(s, Do(at, "remove", l)) BY <1>1, <1>4, <2>1
      <3>4. Changed(Head(s).verb, v, u) = v \cup u BY <2>1 DEF Changed
      <3> QED BY <3>2, <3>3, <3>4 DEF After
    <2>2. CASE Head(s).verb = "clear"
      <3>1. Head(s) = Do(at, "clear", l) BY <1>2, <1>4, <2>2
      <3>2. Do(at, "clear", l) # Do(at, "add", l) /\ Do(at, "clear", l) # Do(at, "remove", l) BY Fields
      <3>3. Ahead(s, Do(at, "clear", l)) /\ ~Ahead(Tail(s), Do(at, "clear", l))
            /\ (Ahead(Tail(s), Do(at, "add", l)) <=> Ahead(s, Do(at, "add", l)))
            /\ (Ahead(Tail(s), Do(at, "remove", l)) <=> Ahead(s, Do(at, "remove", l))) BY <3>1, <3>2, <1>1
      <3>4. Changed(Head(s).verb, v, u) = {} BY <2>2 DEF Changed
      <3> QED BY <3>3, <3>4 DEF After
    <2>3. CASE Head(s).verb = "remove"
      <3>1. Head(s) = Do(at, "remove", l) BY <1>2, <1>4, <2>3
      <3>2. Do(at, "remove", l) # Do(at, "add", l) /\ Do(at, "clear", l) # Do(at, "remove", l) BY Fields
      <3>3. Ahead(s, Do(at, "remove", l)) /\ ~Ahead(Tail(s), Do(at, "remove", l))
            /\ (Ahead(Tail(s), Do(at, "add", l)) <=> Ahead(s, Do(at, "add", l)))
            /\ (Ahead(Tail(s), Do(at, "clear", l)) <=> Ahead(s, Do(at, "clear", l))) BY <3>1, <3>2, <1>1
      <3>4. Changed(Head(s).verb, v, u) = v \ u BY <2>3 DEF Changed
      <3> QED BY <3>3, <3>4 DEF After
    <2> QED BY <2>1, <2>2, <2>3, <1>4
  <1> QED BY <1>3, <1>4

-----------------------------------------------------------------------------
(* Goroutines take their steps *)

LEMMA IdsAre == 0 \notin Ids
  <1>1. IsFiniteSet(Threads) BY FS_Union, CacheAssumption DEF CacheAssumption, Threads
  <1>2. Cardinality(Threads) \in Nat BY <1>1, FS_CardinalityType
  <1> QED BY <1>2 DEF Ids

\* x does not take the step; what it loads may be spoilt.
Same(x) ==
    /\ thr'[x].req = thr[x].req /\ thr'[x].uids = thr[x].uids /\ thr'[x].todo = thr[x].todo
    /\ thr'[x].ch = thr[x].ch /\ thr'[x].wrote = thr[x].wrote /\ thr'[x].got = thr[x].got
    /\ thr[x].spoilt => thr'[x].spoilt
    /\ thr'[x].spoilt => thr[x].spoilt \/ Loading(x)

Rest(t) == \A x \in Threads \ {t}: Same(x) /\ thr'[x].barred = thr[x].barred

LEMMA Goes ==
  ASSUME Types, NEW t \in Threads, NEW new \in Goroutines,
         thr' = [thr EXCEPT ![t] = new] \/ Spoil(t, new)
  PROVE  /\ thr' \in [Threads -> Goroutines] /\ thr'[t] = new /\ Rest(t)
         /\ Spoil(t, new) => \A x \in Threads \ {t}: Loading(x) => thr'[x].spoilt
  <1>1. thr \in [Threads -> Goroutines] BY DEF Types
  <1>2. CASE thr' = [thr EXCEPT ![t] = new] /\ ~Spoil(t, new) BY <1>1, <1>2 DEF Rest, Same
  <1>3. CASE Spoil(t, new)
    <2>1. thr' = [x \in Threads |-> IF x = t THEN new
                                    ELSE [thr[x] EXCEPT !.spoilt = @ \/ Loading(x)]]
      BY <1>3 DEF Spoil
    <2>2. thr'[t] = new BY <2>1
    <2>3. ASSUME NEW x \in Threads \ {t}
          PROVE  /\ thr'[x] \in Goroutines /\ Same(x) /\ thr'[x].barred = thr[x].barred
                 /\ Loading(x) => thr'[x].spoilt
      <3>1. thr'[x] = [thr[x] EXCEPT !.spoilt = thr[x].spoilt \/ Loading(x)] BY <2>1
      <3>2. thr[x] \in Goroutines BY <1>1
      <3>3. PICK b \in BOOLEAN: b <=> thr[x].spoilt \/ Loading(x) OBVIOUS
      <3>4. thr'[x] = [thr[x] EXCEPT !.spoilt = b] BY <3>1, <3>2, <3>3 DEF Goroutines, Loading
      <3>5. /\ thr'[x] \in Goroutines
            /\ thr'[x].req = thr[x].req /\ thr'[x].uids = thr[x].uids /\ thr'[x].todo = thr[x].todo
            /\ thr'[x].ch = thr[x].ch /\ thr'[x].wrote = thr[x].wrote /\ thr'[x].got = thr[x].got
            /\ thr'[x].barred = thr[x].barred /\ thr'[x].spoilt = b
        BY <3>2, <3>4 DEF Goroutines
      <3> QED BY <3>3, <3>5 DEF Same
    <2>4. thr' \in [Threads -> Goroutines] BY <2>1, <2>2, <2>3
    <2> QED BY <2>2, <2>3, <2>4 DEF Rest
  <1> QED BY <1>2, <1>3

LEMMA LoadsIs ==
  ASSUME Base, NEW x \in Threads
  PROVE  /\ Loading(x) <=> Ahead(thr[x].todo, Load[4])
         /\ Looks(x) <=> Ahead(thr[x].todo, Get) \/ Ahead(thr[x].todo, Evict)
         /\ thr[x] \in Goroutines
         /\ Running(x) => thr[x].req \in DOMAIN Program /\ OnWay(thr[x].req, thr[x].todo)
         /\ ~Running(x) => thr[x].todo = <<>> /\ thr[x].ch = 0
         /\ thr[x].todo # <<>> => Running(x)
         /\ Placed(x)
  <1>1. thr[x] \in Goroutines /\ Placed(x) BY DEF Base, Types
  <1>2. Running(x) => thr[x].req \in DOMAIN Program /\ OnWay(thr[x].req, thr[x].todo)
    BY <1>1 DEF Placed, Running, Goroutines
  <1>3. ~Running(x) => thr[x].todo = <<>> /\ thr[x].ch = 0 BY <1>1 DEF Placed
  <1>4. CASE Running(x) BY <1>1, <1>2, <1>3, <1>4, LooksLoads DEF Loading, Looks
  <1>5. CASE ~Running(x)
    <2>1. DOMAIN thr[x].todo = {} BY <1>3, <1>5
    <2> QED BY <2>1, <1>1, <1>2, <1>3, <1>5 DEF Loading, Looks, Ahead
  <1> QED BY <1>4, <1>5

\* Goroutines that do not take the step stay where they are.
LEMMA BaseStep ==
  ASSUME Base, NEW t \in Threads, \A x \in Threads \ {t}: Same(x), Types', Placed(t)',
         Loading(t)' => /\ cached' = cached
                        /\ (Loading(t) /\ thr'[t].ch = thr[t].ch) \/ Free(thr'[t].ch),
         thr'[t].ch \in {0, thr[t].ch, cached} \/ Free(thr'[t].ch),
         cached' \in {0, cached, thr[t].ch}
  PROVE  Base'
  <1>1. ASSUME NEW x \in Threads \ {t} PROVE Placed(x)'
    <2>1. Placed(x) /\ Same(x) BY DEF Base
    <2>2. (Loading(x)' <=> Loading(x)) /\ (Running(x)' <=> Running(x)) BY <2>1 DEF Same, Loading, Running
    <2> QED BY <2>1, <2>2 DEF Same, Placed
  <1>2. ASSUME NEW x \in Threads, Loading(x)', NEW y \in Threads, y # x
        PROVE  thr'[x].ch # cached' /\ thr'[y].ch # thr'[x].ch
    <2>0. \A z \in Threads: Loading(z) => thr[z].ch # 0 BY DEF Base, Placed
    <2>1. CASE x = t
      <3>1. thr'[y].ch = thr[y].ch /\ cached' = cached BY <1>2, <2>1 DEF Same
      <3>2. thr'[t].ch # cached /\ thr'[t].ch # thr[y].ch
        BY <1>2, <2>1 DEF Base, Private, Free
      <3> QED BY <3>1, <3>2, <2>1
    <2>2. CASE x # t
      <3>1. thr'[x].ch = thr[x].ch /\ Loading(x) BY <1>2, <2>2 DEF Same, Loading
      <3>2. thr[x].ch # cached /\ thr[x].ch # thr[t].ch /\ thr[x].ch # 0 /\ thr[y].ch # thr[x].ch
        BY <3>1, <2>0, <2>2, <1>2 DEF Base, Private
      <3>3. thr[x].ch # cached' BY <3>2
      <3>4. CASE y = t BY <3>1, <3>2, <3>3, <3>4 DEF Free
      <3>5. CASE y # t BY <3>1, <3>2, <3>3, <3>5, <1>2 DEF Same
      <3> QED BY <3>4, <3>5
    <2> QED BY <2>1, <2>2
  <1>3. ASSUME NEW x \in Threads, Loading(x)' PROVE thr'[x].ch # cached'
    <2>0. \A z \in Threads: Loading(z) => thr[z].ch # 0 BY DEF Base, Placed
    <2>1. CASE x = t BY <1>3, <2>1 DEF Base, Private, Free
    <2>2. CASE x # t
      <3>1. thr'[x].ch = thr[x].ch /\ Loading(x) BY <1>3, <2>2 DEF Same, Loading
      <3>2. thr[x].ch # cached /\ thr[x].ch # thr[t].ch /\ thr[x].ch # 0
        BY <3>1, <2>0, <2>2 DEF Base, Private
      <3> QED BY <3>1, <3>2
    <2> QED BY <2>1, <2>2
  <1>4. Private' BY <1>2, <1>3 DEF Private
  <1> QED BY <1>1, <1>4 DEF Base

\* The accesses left, and what they were.
Onward(t) ==
    /\ thr'[t].req = thr[t].req /\ thr'[t].todo = Tail(thr[t].todo)
    /\ \A x: Ahead(thr'[t].todo, x) <=> Ahead(thr[t].todo, x) /\ x # Head(thr[t].todo)

LEMMA Forward ==
  ASSUME Base, NEW t \in Threads, thr[t].todo # <<>>,
         thr'[t].req = thr[t].req, thr'[t].todo = Tail(thr[t].todo),
         thr'[t].ch = thr[t].ch \/ (Head(thr[t].todo).at = "get" /\ thr'[t].ch # 0),
         thr[t].wrote => thr'[t].wrote,
         t \in Admins /\ Head(thr[t].todo) = First(thr[t].req) /\ thr[t].req \notin {"channelDelete", "addSubscriber"} =>
             thr'[t].wrote,
         thr'[t].spoilt => thr[t].spoilt /\ Head(thr[t].todo).at # "publish",
         Head(thr[t].todo).at = "permit" => thr[t].ch # 0
  PROVE  /\ Placed(t)' /\ Onward(t) /\ Running(t) /\ Running(t)'
         /\ Loading(t)' => Loading(t)
         /\ Loading(t) => Head(thr[t].todo).at \in {"read", "publish"}
         /\ Looks(t)' => Looks(t)
         /\ Looks(t) => Looks(t)' \/ Head(thr[t].todo).at \in {"get", "evict"}
  <1> DEFINE r == thr[t].req
             s == thr[t].todo
  <1>1. /\ Loading(t) <=> Ahead(s, Load[4])
        /\ Looks(t) <=> Ahead(s, Get) \/ Ahead(s, Evict)
        /\ Running(t) /\ r \in DOMAIN Program /\ OnWay(r, s) /\ Placed(t)
    BY LoadsIs
  <1>2. /\ OnWay(r, Tail(s)) /\ Ahead(s, Head(s))
        /\ \A x: Ahead(Tail(s), x) <=> Ahead(s, x) /\ x # Head(s)
    BY <1>1, WayOn
  <1>3. /\ Loading(t)' <=> Ahead(Tail(s), Load[4])
        /\ Looks(t)' <=> Ahead(Tail(s), Get) \/ Ahead(Tail(s), Evict)
    BY <1>1, <1>2, LooksLoads, ZenonT(30) DEF Loading, Looks
  <1>4. Loading(t) => Head(s).at \in {"read", "publish"} BY <1>1, HeadLoad
  <1>5. Running(t)' BY <1>1 DEF Running
  <1>6. Get.at = "get" /\ Evict.at = "evict" /\ Load[4].at = "publish"
        /\ Do("permit", "none", "none").at = "permit" BY Fields, Loads
  <1>7. thr'[t].spoilt => Loading(t)' BY <1>1, <1>2, <1>3, <1>6 DEF Placed
  <1>8. Loading(t)' => thr'[t].ch # 0 BY <1>1, <1>2, <1>3 DEF Placed
  <1>9. t \in Admins /\ Running(t)' /\ thr'[t].req \notin {"channelDelete", "addSubscriber"} =>
          thr'[t].wrote \/ Ahead(thr'[t].todo, First(thr'[t].req))
    BY <1>1, <1>2 DEF Placed
  <1>10. Ahead(thr'[t].todo, Do("deliver", "none", "none")) /\ ~Ahead(thr'[t].todo, Do("permit", "none", "none")) =>
          thr'[t].ch # 0
    BY <1>1, <1>2, <1>6 DEF Placed
  <1>11. Placed(t)' BY <1>1, <1>2, <1>5, <1>7, <1>8, <1>9, <1>10 DEF Placed
  <1>12. Onward(t) BY <1>2 DEF Onward
  <1> HIDE DEF r, s
  <1> QED BY <1>1, <1>2, <1>3, <1>4, <1>5, <1>6, <1>11, <1>12 DEF s

\* The rest of the list is left out.
LEMMA CutShort ==
  ASSUME Base, NEW t \in Threads, Running(t), thr'[t].req = thr[t].req, thr'[t].todo = <<>>,
         ~Loading(t), thr'[t].spoilt = thr[t].spoilt, thr[t].req \in {"addSubscriber", "send"}
  PROVE  Placed(t)' /\ ~Loading(t)' /\ Running(t)' /\ \A x: ~Ahead(thr'[t].todo, x)
  <1>1. thr[t].req \in DOMAIN Program /\ Placed(t) BY LoadsIs
  <1>2. OnWay(thr[t].req, <<>>) /\ \A x: ~Ahead(<<>>, x) BY <1>1, WayEnd
  <1>3. ~Loading(t)' BY <1>2 DEF Loading
  <1>4. Requests = Handlers /\ "send" \notin Handlers BY ProgramDomain DEF Handlers
  <1> QED BY <1>1, <1>2, <1>3, <1>4 DEF Placed, Running

\* A goroutine is idle again.
LEMMA Ended ==
  ASSUME Base, NEW t \in Threads, thr'[t] = Idle
  PROVE  /\ Placed(t)' /\ ~Loading(t)' /\ ~Running(t)' /\ thr'[t].ch = 0
  <1>1. /\ thr'[t].req = "none" /\ thr'[t].todo = <<>> /\ thr'[t].ch = 0 /\ thr'[t].got = {}
        /\ thr'[t].spoilt = FALSE
    BY DEF Idle
  <1>2. ~Running(t)' BY <1>1 DEF Running
  <1>3. ~Loading(t)' BY <1>1 DEF Loading
  <1>4. \A x: ~Ahead(<<>>, x) BY DEF Ahead
  <1> QED BY <1>1, <1>2, <1>3, <1>4 DEF Placed

LEMMA IdleType == Idle \in Goroutines /\ None \in Bars
  <1>1. <<>> \in Seq(Accesses) OBVIOUS
  <1> QED BY <1>1 DEF Idle, None, Goroutines, Bars

\* Objects that are cached or held stay as they are.
LEMMA KeptIs ==
  ASSUME Types, NEW f \in [Ids -> [Lists -> SUBSET Users]], obj' = Kept(f)
  PROVE  /\ obj' \in [Ids -> [Lists -> SUBSET Users]]
         /\ \A i \in Ids: i = cached' => obj'[i] = f[i]
         /\ \A x \in Threads: thr'[x].ch \in Ids => obj'[thr'[x].ch] = f[thr'[x].ch]
  <1>1. Empty \in [Lists -> SUBSET Users] BY DEF Empty
  <1> QED BY <1>1 DEF Kept

LEMMA AtHead ==
  ASSUME Base, NEW t \in Threads, NEW at, At(t, at)
  PROVE  /\ thr[t].todo # <<>> /\ Head(thr[t].todo).at = at /\ Running(t)
         /\ thr[t].req \in DOMAIN Program /\ OnWay(thr[t].req, thr[t].todo) /\ thr[t] \in Goroutines
         /\ at \notin {"read", "publish"} => ~Loading(t) /\ ~thr[t].spoilt
         /\ thr[t].req # "send" => t \in Admins
         /\ t \in Admins => thr[t].req \in Requests /\ thr[t].req # "send"
         /\ Tail(thr[t].todo) \in Seq(Accesses)
  <1>1. thr[t].todo # <<>> /\ Head(thr[t].todo).at = at BY DEF At
  <1>2. /\ Running(t) /\ thr[t].req \in DOMAIN Program /\ OnWay(thr[t].req, thr[t].todo) /\ thr[t] \in Goroutines
        /\ Placed(t) /\ (Loading(t) <=> Ahead(thr[t].todo, Load[4]))
    BY <1>1, LoadsIs
  <1>3. Loading(t) => Head(thr[t].todo).at \in {"read", "publish"} BY <1>2, HeadLoad
  <1>4. Tail(thr[t].todo) \in Seq(Accesses) BY <1>1, <1>2, WayOn
  <1>5. Requests = Handlers /\ "send" \notin Handlers BY ProgramDomain DEF Handlers
  <1> QED BY <1>1, <1>2, <1>3, <1>4, <1>5 DEF Placed, Threads

WentOn(t) ==
    /\ Rest(t) /\ Onward(t) /\ Running(t) /\ Running(t)'
    /\ thr'[t].uids = thr[t].uids /\ thr'[t].barred = thr[t].barred /\ thr'[t].ch = thr[t].ch
    /\ thr[t].req \in DOMAIN Program /\ thr[t].todo # <<>> /\ OnWay(thr[t].req, thr[t].todo)

LEMMA StoreBase ==
  ASSUME Base, NEW t \in Threads, StoreStep(t)
  PROVE  /\ Base' /\ WentOn(t) /\ t \in Admins /\ ~Loading(t) /\ ~Loading(t)' /\ thr'[t].got = thr[t].got
         /\ thr'[t].wrote = (thr[t].wrote \/ Head(thr[t].todo).list \in Lists)
         /\ Late(t, Head(thr[t].todo)) => \A x \in Threads \ {t}: Loading(x) => thr'[x].spoilt
         /\ StoreHead(thr[t].req, thr[t].todo) /\ Head(thr[t].todo).at = "store"
         /\ \A l \in Lists: store'[l] = IF Head(thr[t].todo).list = l /\ ~Misses(Head(thr[t].todo))
                                        THEN Changed(Head(thr[t].todo).verb, store[l], thr[t].uids) ELSE store[l]
  <1> DEFINE h == Head(thr[t].todo)
  <1>1. /\ thr[t].todo # <<>> /\ h.at = "store" /\ Running(t) /\ thr[t].req \in DOMAIN Program
        /\ OnWay(thr[t].req, thr[t].todo) /\ thr[t] \in Goroutines
        /\ ~Loading(t) /\ ~thr[t].spoilt /\ (thr[t].req # "send" => t \in Admins)
        /\ (t \in Admins => thr[t].req \in Requests) /\ Tail(thr[t].todo) \in Seq(Accesses)
    BY AtHead DEF StoreStep
  <1>2. StoreHead(thr[t].req, thr[t].todo) BY <1>1, Heads
  <1>3. t \in Admins BY <1>1, <1>2 DEF StoreHead
  <1>4. PICK new: /\ new = [Went(t) EXCEPT !.wrote = @ \/ h.list \in Lists]
                  /\ IF Late(t, h) THEN Spoil(t, new) ELSE thr' = [thr EXCEPT ![t] = new]
    BY DEF StoreStep
  <1>5. PICK w \in BOOLEAN: w = (thr[t].wrote \/ h.list \in Lists) OBVIOUS
  <1>6. /\ new \in Goroutines /\ new.req = thr[t].req /\ new.uids = thr[t].uids /\ new.todo = Tail(thr[t].todo)
        /\ new.ch = thr[t].ch /\ new.wrote = w /\ new.spoilt = thr[t].spoilt /\ new.barred = thr[t].barred
        /\ new.got = thr[t].got
    <2>1. new = [[thr[t] EXCEPT !.todo = Tail(@)] EXCEPT !.wrote = w] BY <1>1, <1>4, <1>5 DEF Went, Goroutines
    <2> QED BY <2>1, <1>1 DEF Goroutines
  <1>7. /\ thr' \in [Threads -> Goroutines] /\ thr'[t] = new /\ Rest(t)
        /\ Late(t, h) => \A x \in Threads \ {t}: Loading(x) => thr'[x].spoilt
    BY <1>4, <1>6, Goes DEF Base
  <1>8. First(thr[t].req).list \in Lists \/ thr[t].req \in {"channelDelete", "addSubscriber"}
    BY <1>1, <1>3, Fields, ProgramDomain DEF First, Lists, Handlers
  <1>9. h = First(thr[t].req) /\ thr[t].req \notin {"channelDelete", "addSubscriber"} => w BY <1>5, <1>8
  <1>10. /\ Placed(t)' /\ Onward(t) /\ Running(t)' /\ (Loading(t)' => Loading(t))
    BY <1>1, <1>5, <1>6, <1>7, <1>9, Forward
  <1>11. store \in [Lists -> SUBSET Users] /\ thr[t].uids \in SUBSET Users BY <1>1 DEF Base, Types, Goroutines
  <1>12. Put(t, h) /\ cached' = cached /\ obj' = obj /\ revoked' = revoked BY DEF StoreStep
  <1>13. \A l \in Lists: store'[l] = IF h.list = l /\ ~Misses(h) THEN Changed(h.verb, store[l], thr[t].uids) ELSE store[l]
    BY <1>11, <1>12 DEF Put
  <1>14. store' \in [Lists -> SUBSET Users]
    <2>1. CASE h.list \in Lists /\ ~Misses(h)
      <3>1. store' = [store EXCEPT ![h.list] = Changed(h.verb, @, thr[t].uids)] BY <2>1, <1>12 DEF Put
      <3>2. h.verb \in {"add", "clear", "remove"} BY <2>1, <1>2 DEF StoreHead
      <3>3. Changed(h.verb, store[h.list], thr[t].uids) \in SUBSET Users BY <3>2, <2>1, <1>11 DEF Changed
      <3> QED BY <3>1, <3>3, <2>1, <1>11
    <2>2. CASE ~(h.list \in Lists /\ ~Misses(h)) BY <2>2, <1>11, <1>12 DEF Put
    <2> QED BY <2>1, <2>2
  <1>15. info' \in BOOLEAN BY <1>12 DEF Put
  <1>16. Types' BY <1>7, <1>12, <1>14, <1>15 DEF Types, Base
  <1>17. Base'
    <2>1. \A x \in Threads \ {t}: Same(x) BY <1>7 DEF Rest
    <2>2. thr'[t].ch = thr[t].ch /\ cached' = cached BY <1>6, <1>7, <1>12
    <2> QED BY <2>1, <2>2, <1>1, <1>10, <1>16, BaseStep
  <1> QED BY <1>1, <1>2, <1>3, <1>5, <1>6, <1>7, <1>10, <1>13, <1>17 DEF WentOn

\* What a request takes off the revoked.
LEMMA UndoneIs ==
  ASSUME NEW r, NEW uids, NEW b \in Bars
  PROVE  /\ Undone(r, uids, b) \in Bars
         /\ Undone(r, uids, b).deny \subseteq b.deny /\ Undone(r, uids, b).subs \subseteq b.subs
         /\ r \in {"blacklistSet", "blacklistRemove"} => Undone(r, uids, b).deny = {}
         /\ r \in {"whitelistAdd", "whitelistSet"} => Undone(r, uids, b).deny \cap uids = {}
         /\ r \in {"addSubscriber", "resetSubscriber", "channelCreateOrUpdate"} =>
               Undone(r, uids, b).subs \cap uids = {}
         /\ \A c \in Bars: b.deny \subseteq c.deny /\ b.subs \subseteq c.subs =>
               /\ Undone(r, uids, b).deny \subseteq Undone(r, uids, c).deny
               /\ Undone(r, uids, b).subs \subseteq Undone(r, uids, c).subs
  BY DEF Undone, Bars

Unbars(t, r, uids) == \A x \in Threads \ {t}: thr'[x].barred = Undone(r, uids, thr[x].barred)

LEMMA RequestBase ==
  ASSUME Base, NEW t \in Admins, NEW r \in Requests, NEW uids \in SUBSET Users, Request(t, r, uids)
  PROVE  /\ Base' /\ (\A x \in Threads \ {t}: Same(x)) /\ ~Running(t) /\ ~Loading(t)' /\ t \in Threads
         /\ thr'[t].req = r /\ thr'[t].uids = uids /\ thr'[t].todo = Program[r] /\ thr'[t].wrote = FALSE
         /\ thr'[t].ch = 0 /\ Unbars(t, r, uids)
  <1>1. t \in Threads /\ r \in DOMAIN Program /\ r # "send" /\ thr \in [Threads -> Goroutines] /\ revoked \in Bars
    BY DEF Threads, Requests, Base, Types
  <1>2. /\ thr' = [x \in Threads |->
                     IF x = t THEN [Idle EXCEPT !.req = r, !.uids = uids, !.todo = Program[r]]
                     ELSE [thr[x] EXCEPT !.barred = Undone(r, uids, @)]]
        /\ ~Running(t) /\ revoked' = Undone(r, uids, revoked)
        /\ info' = info /\ store' = store /\ cached' = cached /\ obj' = obj
    BY DEF Request
  <1>3. OnWay(r, Program[r]) /\ Program[r] \in Seq(Accesses) /\ ~Ahead(Program[r], Load[4]) BY <1>1, Began
  <1>4. thr'[t] = [Idle EXCEPT !.req = r, !.uids = uids, !.todo = Program[r]] BY <1>1, <1>2
  <1>5. /\ thr'[t] \in Goroutines
        /\ thr'[t].req = r /\ thr'[t].uids = uids /\ thr'[t].todo = Program[r] /\ thr'[t].wrote = FALSE
        /\ thr'[t].ch = 0 /\ thr'[t].spoilt = FALSE /\ thr'[t].got = {}
    <2> HIDE DEF Program
    <2> QED BY <1>1, <1>3, <1>4, IdleType DEF Idle, Goroutines
  <1>6. ASSUME NEW x \in Threads \ {t}
        PROVE  thr'[x] \in Goroutines /\ Same(x) /\ thr'[x].barred = Undone(r, uids, thr[x].barred)
    <2>1. thr[x] \in Goroutines BY <1>1
    <2>2. Undone(r, uids, thr[x].barred) \in Bars BY <2>1, UndoneIs DEF Goroutines
    <2>3. thr'[x] = [thr[x] EXCEPT !.barred = Undone(r, uids, thr[x].barred)] BY <1>2
    <2> QED BY <2>1, <2>2, <2>3 DEF Goroutines, Same
  <1>7. thr' \in [Threads -> Goroutines] BY <1>2, <1>5, <1>6
  <1>8. revoked' \in Bars BY <1>1, <1>2, UndoneIs
  <1>9. Types' BY <1>2, <1>7, <1>8 DEF Base, Types
  <1>10. ~Loading(t)' BY <1>1, <1>3, <1>5, LooksLoads DEF Loading
  <1>11. Placed(t)'
    <2>1. r \notin {"channelDelete", "addSubscriber"} => Ahead(Program[r], First(r)) BY Starts DEF Started
    <2>2. Running(t)' BY <1>1, <1>5, ProgramDomain DEF Running, Handlers
    <2>3. t \notin Senders BY CacheAssumption DEF CacheAssumption
    <2>4. ~Ahead(Program[r], Do("deliver", "none", "none")) BY Starts DEF Started
    <2> QED BY <2>1, <2>2, <2>3, <2>4, <1>3, <1>5, <1>10 DEF Placed
  <1>12. Base' BY <1>1, <1>2, <1>5, <1>6, <1>9, <1>10, <1>11, BaseStep
  <1>13. Unbars(t, r, uids) BY <1>6 DEF Unbars
  <1> QED BY <1>1, <1>2, <1>5, <1>6, <1>10, <1>12, <1>13

LEMMA SendBase ==
  ASSUME Base, NEW t \in Senders, NEW u \in Users, Send(t, u)
  PROVE  /\ Base' /\ Rest(t) /\ t \notin Admins /\ ~Running(t) /\ ~Loading(t)' /\ t \in Threads
         /\ thr'[t].uids = {u} /\ thr'[t].todo = send /\ thr'[t].ch = 0 /\ thr'[t].got = {}
         /\ thr'[t].barred = revoked /\ ~At(t, "deliver")'
  <1>1. /\ t \in Threads /\ t \notin Admins /\ "send" \in DOMAIN Program
        /\ thr \in [Threads -> Goroutines] /\ revoked \in Bars
    BY ProgramDomain, CacheAssumption DEF Threads, Base, Types, CacheAssumption, Handlers
  <1>2. Program["send"] = send BY Programs DEF send
  <1>3. OnWay("send", send) /\ send \in Seq(Accesses) /\ ~Ahead(send, Load[4]) BY <1>1, <1>2, Began
  <1>4. PICK new: /\ new = [Idle EXCEPT !.req = "send", !.uids = {u}, !.todo = send, !.barred = revoked]
                  /\ thr' = [thr EXCEPT ![t] = new]
    BY DEF Send
  <1>5. /\ new \in Goroutines
        /\ new.req = "send" /\ new.uids = {u} /\ new.todo = send /\ new.wrote = FALSE
        /\ new.ch = 0 /\ new.spoilt = FALSE /\ new.got = {} /\ new.barred = revoked
    <2> HIDE DEF Program
    <2> QED BY <1>1, <1>3, <1>4, IdleType DEF Idle, Goroutines
  <1>6. thr' \in [Threads -> Goroutines] /\ thr'[t] = new /\ Rest(t) BY <1>1, <1>4, <1>5, Goes DEF Base
  <1>7. ~Running(t) /\ info' = info /\ store' = store /\ cached' = cached /\ obj' = obj /\ revoked' = revoked BY DEF Send
  <1>8. Types' BY <1>6, <1>7 DEF Base, Types
  <1>9. ~Loading(t)' BY <1>1, <1>3, <1>5, <1>6, LooksLoads DEF Loading
  <1>10. Placed(t)'
    <2>1. Running(t)' BY <1>5, <1>6 DEF Running
    <2>2. Ahead(send, Do("permit", "none", "none")) BY <1>1, <1>2, Positions, Begin3
    <2> QED BY <2>1, <2>2, <1>1, <1>3, <1>5, <1>6, <1>9 DEF Placed
  <1>11. Base'
    <2>1. \A x \in Threads \ {t}: Same(x) BY <1>6 DEF Rest
    <2> QED BY <2>1, <1>1, <1>5, <1>6, <1>7, <1>8, <1>9, <1>10, BaseStep
  <1>12. ~At(t, "deliver")'
    <2>1. Head(send) = Get BY DEF send
    <2> QED BY <2>1, <1>5, <1>6, Fields DEF At
  <1> QED BY <1>1, <1>5, <1>6, <1>7, <1>9, <1>11, <1>12

\* The objects that count stay.
Keeps(t) ==
    /\ \A i \in Ids: i = cached' => obj'[i] = obj[i]
    /\ \A x \in Threads: thr'[x].ch \in Ids => obj'[thr'[x].ch] = obj[thr'[x].ch]

LEMMA IdleBase ==
  ASSUME Base, NEW t \in Threads, thr' = [thr EXCEPT ![t] = Idle], obj' = Kept(obj), cached' = cached,
         info' \in BOOLEAN, store' \in [Lists -> SUBSET Users], revoked' \in Bars
  PROVE  /\ Base' /\ Rest(t) /\ ~Running(t)' /\ ~Loading(t)' /\ thr'[t] = Idle
         /\ Keeps(t)
  <1>1. thr' \in [Threads -> Goroutines] /\ thr'[t] = Idle /\ Rest(t) BY IdleType, Goes DEF Base
  <1>2. /\ obj' \in [Ids -> [Lists -> SUBSET Users]]
        /\ \A i \in Ids: i = cached' => obj'[i] = obj[i]
        /\ \A x \in Threads: thr'[x].ch \in Ids => obj'[thr'[x].ch] = obj[thr'[x].ch]
    BY KeptIs DEF Base, Types
  <1>3. Types' BY <1>1, <1>2 DEF Base, Types
  <1>4. Placed(t)' /\ ~Loading(t)' /\ ~Running(t)' /\ thr'[t].ch = 0 BY <1>1, Ended
  <1>5. \A x \in Threads \ {t}: Same(x) BY <1>1 DEF Rest
  <1>6. Base' BY <1>3, <1>4, <1>5, BaseStep
  <1> QED BY <1>1, <1>2, <1>4, <1>6 DEF Keeps

LEMMA DoneBase ==
  ASSUME Base, NEW t \in Threads, Done(t)
  PROVE  /\ Base' /\ Rest(t) /\ Running(t) /\ ~Running(t)' /\ ~Loading(t)' /\ thr'[t] = Idle /\ Keeps(t)
         /\ ~Loading(t) /\ (\A x: ~Ahead(thr[t].todo, x))
         /\ revoked \in Bars /\ revoked' \in Bars /\ revoked.deny \subseteq revoked'.deny /\ revoked.subs \subseteq revoked'.subs
         /\ \A u \in revoked'.deny \ revoked.deny: /\ thr[t].req = "blacklistAdd" /\ u \in thr[t].uids
                                                   /\ ~Whitelisting /\ u \notin store["allow"]
         /\ \A u \in revoked'.subs \ revoked.subs: thr[t].req = "removeSubscriber" /\ u \in thr[t].uids
  <1>1. revoked \in Bars /\ thr[t] \in Goroutines /\ store \in [Lists -> SUBSET Users] BY DEF Base, Types
  <1>2. PICK d, w, q:
          /\ d = IF thr[t].req = "blacklistAdd" THEN thr[t].uids ELSE {}
          /\ q = IF thr[t].req = "removeSubscriber" THEN thr[t].uids ELSE {}
          /\ w = IF Whitelisting THEN Users ELSE store["allow"]
          /\ revoked' = [deny |-> revoked.deny \cup (d \ w), subs |-> revoked.subs \cup q]
    BY DEF Done
  <1>3. d \subseteq Users /\ q \subseteq Users BY <1>1, <1>2 DEF Goroutines
  <1>4. /\ revoked' \in Bars /\ revoked'.deny = revoked.deny \cup (d \ w) /\ revoked'.subs = revoked.subs \cup q
    BY <1>1, <1>2, <1>3 DEF Bars
  <1>5. ASSUME NEW u \in revoked'.deny \ revoked.deny
        PROVE  thr[t].req = "blacklistAdd" /\ u \in thr[t].uids /\ ~Whitelisting /\ u \notin store["allow"]
    <2>1. u \in d /\ u \notin w BY <1>4
    <2>2. u \in Users BY <2>1, <1>3
    <2> QED BY <2>1, <2>2, <1>2
  <1>6. ASSUME NEW u \in revoked'.subs \ revoked.subs PROVE thr[t].req = "removeSubscriber" /\ u \in thr[t].uids
    BY <1>2, <1>4
  <1>7. /\ thr' = [thr EXCEPT ![t] = Idle] /\ obj' = Kept(obj) /\ cached' = cached /\ info' = info /\ store' = store
        /\ Running(t) /\ thr[t].todo = <<>>
    BY DEF Done
  <1>8. Base' /\ Rest(t) /\ ~Running(t)' /\ ~Loading(t)' /\ thr'[t] = Idle /\ Keeps(t)
    BY <1>1, <1>4, <1>7, IdleBase DEF Base, Types
  <1>9. ~Loading(t) /\ \A x: ~Ahead(thr[t].todo, x) BY <1>7 DEF Loading, Ahead
  <1> QED BY <1>1, <1>4, <1>5, <1>6, <1>7, <1>8, <1>9

LEMMA AbandonBase ==
  ASSUME Base, NEW t \in Threads, StoreFails(t) \/ LoadFails(t) \/ NilChannel(t)
  PROVE  /\ Base' /\ Rest(t) /\ ~Running(t)' /\ ~Loading(t)' /\ thr'[t] = Idle /\ Keeps(t)
         /\ cached' = cached /\ revoked' = revoked
         /\ causes' = {} => ~thr[t].wrote /\ store' = store
  <1>1. Abandon(t) BY DEF StoreFails, LoadFails, NilChannel
  <1>2. /\ thr' = [thr EXCEPT ![t] = Idle] /\ obj' = Kept(obj) /\ cached' = cached /\ revoked' = revoked
        /\ causes' = IF thr[t].wrote \/ store' # store THEN causes \cup {"failed"} ELSE causes
    BY <1>1 DEF Abandon
  <1>3. info' \in BOOLEAN /\ store' \in [Lists -> SUBSET Users]
    <2>0. info \in BOOLEAN /\ store \in [Lists -> SUBSET Users] BY DEF Base, Types
    <2>1. CASE info' = info /\ store' = store BY <2>0, <2>1
    <2>2. CASE StoreFails(t) /\ Put(t, Head(thr[t].todo))
      <3> DEFINE h == Head(thr[t].todo)
      <3>1. /\ thr[t].todo # <<>> /\ h.at = "store" /\ thr[t].req \in DOMAIN Program
            /\ OnWay(thr[t].req, thr[t].todo) /\ thr[t] \in Goroutines
        BY <2>2, AtHead DEF StoreFails
      <3>2. StoreHead(thr[t].req, thr[t].todo) BY <3>1, Heads
      <3>3. CASE h.list \in Lists /\ ~Misses(h)
        <4>1. store' = [store EXCEPT ![h.list] = Changed(h.verb, @, thr[t].uids)] BY <3>3, <2>2 DEF Put
        <4>2. h.verb \in {"add", "clear", "remove"} BY <3>3, <3>2 DEF StoreHead
        <4>3. Changed(h.verb, store[h.list], thr[t].uids) \in SUBSET Users BY <4>2, <3>3, <3>1, <2>0 DEF Changed, Goroutines
        <4> QED BY <4>1, <4>3, <3>3, <2>0, <2>2 DEF Put
      <3>4. CASE ~(h.list \in Lists /\ ~Misses(h)) BY <3>4, <2>0, <2>2 DEF Put
      <3> QED BY <3>3, <3>4
    <2> QED BY <2>1, <2>2 DEF StoreFails, LoadFails, NilChannel
  <1>4. Base' /\ Rest(t) /\ ~Running(t)' /\ ~Loading(t)' /\ thr'[t] = Idle /\ Keeps(t)
    BY <1>2, <1>3, IdleBase DEF Base, Types
  <1> QED BY <1>2, <1>4

\* The goroutine takes a step that changes neither its object nor what it asks for.
LEMMA Plainly ==
  ASSUME Base, NEW t \in Threads, NEW at, At(t, at), thr' = [thr EXCEPT ![t] = Went(t)],
         at \notin {"store", "get", "publish", "evict", "permit"}
  PROVE  /\ thr' \in [Threads -> Goroutines] /\ WentOn(t) /\ Placed(t)'
         /\ thr'[t].wrote = thr[t].wrote /\ thr'[t].got = thr[t].got /\ thr'[t].spoilt = thr[t].spoilt
         /\ (Loading(t)' <=> Loading(t)) /\ (Looks(t)' <=> Looks(t))
  <1>0. PICK new: new = Went(t) /\ thr' = [thr EXCEPT ![t] = new] OBVIOUS
  <1>1. /\ thr[t].todo # <<>> /\ Head(thr[t].todo).at = at /\ Running(t) /\ thr[t].req \in DOMAIN Program
        /\ OnWay(thr[t].req, thr[t].todo) /\ thr[t] \in Goroutines
        /\ Tail(thr[t].todo) \in Seq(Accesses)
    BY AtHead
  <1>2. /\ new \in Goroutines /\ new.req = thr[t].req /\ new.uids = thr[t].uids /\ new.todo = Tail(thr[t].todo)
        /\ new.ch = thr[t].ch /\ new.wrote = thr[t].wrote /\ new.spoilt = thr[t].spoilt /\ new.barred = thr[t].barred
        /\ new.got = thr[t].got
    BY <1>0, <1>1 DEF Went, Goroutines
  <1>3. thr' \in [Threads -> Goroutines] /\ thr'[t] = new /\ Rest(t) BY <1>0, <1>2, Goes DEF Base
  <1>4. First(thr[t].req).at \in {"store", "get"} BY Fields DEF First
  <1>5. /\ Placed(t)' /\ Onward(t) /\ Running(t)' /\ (Loading(t)' => Loading(t))
        /\ (Looks(t)' => Looks(t)) /\ (Looks(t) => Looks(t)' \/ at \in {"get", "evict"})
    BY <1>1, <1>2, <1>3, <1>4, Forward
  <1>6. Loading(t) => Loading(t)'
    <2>1. Loading(t) <=> Ahead(thr[t].todo, Load[4]) BY LoadsIs
    <2>2. Load[4].at = "publish" BY Loads, Fields
    <2>3. Loading(t) => Ahead(thr'[t].todo, Load[4]) BY <2>1, <2>2, <1>1, <1>5 DEF Onward
    <2>4. OnWay(thr[t].req, thr'[t].todo) BY <1>1, <1>2, <1>3, WayOn
    <2> QED BY <2>3, <2>4, <1>1, LooksLoads DEF Loading
  <1> QED BY <1>1, <1>2, <1>3, <1>5, <1>6 DEF WentOn

LEMMA HasBase ==
  ASSUME Base, NEW t \in Threads, HasChannel(t)
  PROVE  /\ Base' /\ WentOn(t) /\ Head(thr[t].todo).at = "notnil" /\ ~Loading(t) /\ ~Loading(t)'
         /\ thr'[t].wrote = thr[t].wrote /\ thr'[t].got = thr[t].got /\ (Looks(t)' <=> Looks(t))
  <1>1. /\ At(t, "notnil") /\ thr' = [thr EXCEPT ![t] = Went(t)] /\ info' = info /\ store' = store
        /\ cached' = cached /\ obj' = obj /\ revoked' = revoked
    BY DEF HasChannel
  <1>2. /\ thr' \in [Threads -> Goroutines] /\ WentOn(t) /\ Placed(t)'
        /\ thr'[t].wrote = thr[t].wrote /\ thr'[t].got = thr[t].got
        /\ (Loading(t)' <=> Loading(t)) /\ (Looks(t)' <=> Looks(t))
    BY <1>1, Plainly
  <1>3. ~Loading(t) /\ Head(thr[t].todo).at = "notnil" BY <1>1, AtHead
  <1>4. Types' BY <1>1, <1>2 DEF Base, Types
  <1>5. Base'
    <2>1. (\A x \in Threads \ {t}: Same(x)) /\ thr'[t].ch = thr[t].ch BY <1>2 DEF WentOn, Rest
    <2> QED BY <2>1, <1>1, <1>2, <1>3, <1>4, BaseStep
  <1> QED BY <1>2, <1>3, <1>5

LEMMA ReadBase ==
  ASSUME Base, NEW t \in Threads, Read(t)
  PROVE  /\ Base' /\ WentOn(t) /\ Head(thr[t].todo).at = "read" /\ Loading(t) /\ Loading(t)'
         /\ Head(thr[t].todo).list \in Lists /\ Head(thr[t].todo) = Do("read", "none", Head(thr[t].todo).list)
         /\ thr[t].ch \in Ids
         /\ thr'[t].wrote = thr[t].wrote /\ thr'[t].got = thr[t].got /\ thr'[t].spoilt = thr[t].spoilt
         /\ (Looks(t)' <=> Looks(t))
         /\ \A i \in Ids, l \in Lists:
               obj'[i][l] = IF i = thr[t].ch /\ l = Head(thr[t].todo).list THEN store[l] ELSE obj[i][l]
  <1> DEFINE h == Head(thr[t].todo)
  <1>1. /\ At(t, "read") /\ thr' = [thr EXCEPT ![t] = Went(t)] /\ info' = info /\ store' = store
        /\ cached' = cached /\ revoked' = revoked /\ obj' = [obj EXCEPT ![thr[t].ch][h.list] = store[h.list]]
    BY DEF Read
  <1>2. /\ thr' \in [Threads -> Goroutines] /\ WentOn(t) /\ Placed(t)'
        /\ thr'[t].wrote = thr[t].wrote /\ thr'[t].got = thr[t].got /\ thr'[t].spoilt = thr[t].spoilt
        /\ (Loading(t)' <=> Loading(t)) /\ (Looks(t)' <=> Looks(t))
    BY <1>1, Plainly
  <1>3. /\ thr[t].todo # <<>> /\ h.at = "read" /\ thr[t].req \in DOMAIN Program
        /\ OnWay(thr[t].req, thr[t].todo) /\ thr[t] \in Goroutines
    BY <1>1, AtHead
  <1>4. Ahead(thr[t].todo, Load[4]) /\ h.list \in Lists /\ h = Do("read", "none", h.list) BY <1>3, HeadLoad
  <1>5. Loading(t) /\ Placed(t) BY <1>4, LoadsIs
  <1>6. thr[t].ch \in Ids BY <1>3, <1>5 DEF Placed, Goroutines
  <1>7. store \in [Lists -> SUBSET Users] /\ obj \in [Ids -> [Lists -> SUBSET Users]] BY DEF Base, Types
  <1> HIDE DEF h
  <1>8. /\ obj' \in [Ids -> [Lists -> SUBSET Users]]
        /\ \A i \in Ids, l \in Lists:
               obj'[i][l] = IF i = thr[t].ch /\ l = h.list THEN store[l] ELSE obj[i][l]
    BY <1>1, <1>4, <1>6, <1>7
  <1>9. Types' BY <1>1, <1>2, <1>8 DEF Base, Types
  <1>10. Base'
    <2>1. (\A x \in Threads \ {t}: Same(x)) /\ thr'[t].ch = thr[t].ch BY <1>2 DEF WentOn, Rest
    <2> QED BY <2>1, <1>1, <1>2, <1>5, <1>9, BaseStep
  <1> QED BY <1>2, <1>3, <1>4, <1>5, <1>6, <1>8, <1>10 DEF h

LEMMA ObjectBase ==
  ASSUME Base, NEW t \in Threads, ObjectStep(t)
  PROVE  /\ Base' /\ WentOn(t) /\ Head(thr[t].todo).at = "object" /\ ~Loading(t) /\ ~Loading(t)' /\ t \in Admins
         /\ ObjectHead(thr[t].req, thr[t].todo) /\ thr[t].ch \in Ids
         /\ thr[t].wrote /\ thr'[t].wrote = thr[t].wrote /\ thr'[t].got = thr[t].got
         /\ ~Looks(t) /\ ~Looks(t)'
         /\ \A i \in Ids, l \in Lists:
               obj'[i][l] = IF i = thr[t].ch /\ l = Head(thr[t].todo).list
                            THEN Changed(Head(thr[t].todo).verb, obj[i][l], thr[t].uids) ELSE obj[i][l]
         /\ causes' = {} => ~(thr[t].req = "whitelistSet" /\ Head(thr[t].todo).list = "deny" /\ thr[t].uids # {})
  <1> DEFINE h == Head(thr[t].todo)
  <1>1. /\ At(t, "object") /\ thr[t].ch # 0 /\ thr' = [thr EXCEPT ![t] = Went(t)] /\ info' = info /\ store' = store
        /\ cached' = cached /\ revoked' = revoked
        /\ obj' = [obj EXCEPT ![thr[t].ch][h.list] = Changed(h.verb, @, thr[t].uids)]
        /\ causes' = IF thr[t].req = "whitelistSet" /\ h.list = "deny" /\ thr[t].uids # {}
                     THEN causes \cup {"allowSet"} ELSE causes
    BY DEF ObjectStep
  <1>2. /\ thr' \in [Threads -> Goroutines] /\ WentOn(t) /\ Placed(t)'
        /\ thr'[t].wrote = thr[t].wrote /\ thr'[t].got = thr[t].got
        /\ (Loading(t)' <=> Loading(t)) /\ (Looks(t)' <=> Looks(t))
    BY <1>1, Plainly
  <1>3. /\ thr[t].todo # <<>> /\ h.at = "object" /\ thr[t].req \in DOMAIN Program /\ Running(t) /\ ~Loading(t)
        /\ OnWay(thr[t].req, thr[t].todo) /\ thr[t] \in Goroutines /\ (thr[t].req # "send" => t \in Admins)
    BY <1>1, AtHead
  <1>4. ObjectHead(thr[t].req, thr[t].todo) BY <1>3, Heads
  <1>5. t \in Admins /\ h.list \in Lists /\ h.verb \in {"add", "clear", "remove"} BY <1>3, <1>4 DEF ObjectHead
  <1>6. thr[t].ch \in Ids BY <1>1, <1>3 DEF Goroutines
  <1>7. ~Looks(t)
    <2>1. Looks(t) <=> Ahead(thr[t].todo, Get) \/ Ahead(thr[t].todo, Evict) BY LoadsIs
    <2> QED BY <2>1, <1>4 DEF ObjectHead
  <1>8. thr[t].wrote
    <2>1. Placed(t) BY LoadsIs
    <2> QED BY <2>1, <1>3, <1>4, <1>5 DEF Placed, ObjectHead
  <1>9. obj \in [Ids -> [Lists -> SUBSET Users]] /\ thr[t].uids \in SUBSET Users BY <1>3 DEF Base, Types, Goroutines
  <1>10. Changed(h.verb, obj[thr[t].ch][h.list], thr[t].uids) \in SUBSET Users BY <1>5, <1>6, <1>9 DEF Changed
  <1> HIDE DEF h
  <1>11. /\ obj' \in [Ids -> [Lists -> SUBSET Users]]
         /\ \A i \in Ids, l \in Lists:
               obj'[i][l] = IF i = thr[t].ch /\ l = h.list THEN Changed(h.verb, obj[i][l], thr[t].uids) ELSE obj[i][l]
    BY <1>1, <1>5, <1>6, <1>9, <1>10
  <1>12. Types' BY <1>1, <1>2, <1>11 DEF Base, Types
  <1>13. Base'
    <2>1. (\A x \in Threads \ {t}: Same(x)) /\ thr'[t].ch = thr[t].ch BY <1>2 DEF WentOn, Rest
    <2> QED BY <2>1, <1>1, <1>2, <1>3, <1>12, BaseStep
  <1>14. causes' = {} => ~(thr[t].req = "whitelistSet" /\ h.list = "deny" /\ thr[t].uids # {}) BY <1>1
  <1> QED BY <1>2, <1>3, <1>4, <1>5, <1>6, <1>7, <1>8, <1>11, <1>13, <1>14 DEF h

\* addSubscriber has looked up who is new.
LEMMA ExistAhead ==
  ASSUME NEW s, OnWay("addSubscriber", s), s # <<>>, Head(s).at = "exist"
  PROVE  \A x: Ahead(s, x) <=> x = Do("exist", "none", "subs") \/ x = Store("add", "subs")
  <1>1. "addSubscriber" \in DOMAIN Program BY ProgramDomain DEF Handlers
  <1>2. Steps4(Program["addSubscriber"], Get, NotNil, Do("exist", "none", "subs"), Store("add", "subs")) BY Positions
  <1>3. \/ Head(s) = Get /\ \A x: Ahead(s, x) <=> x = Get \/ x = NotNil \/ x = Do("exist", "none", "subs") \/ x = Store("add", "subs")
        \/ Head(s) = NotNil /\ \A x: Ahead(s, x) <=> x = NotNil \/ x = Do("exist", "none", "subs") \/ x = Store("add", "subs")
        \/ Head(s) = Do("exist", "none", "subs") /\ \A x: Ahead(s, x) <=> x = Do("exist", "none", "subs") \/ x = Store("add", "subs")
        \/ Head(s) = Store("add", "subs") /\ \A x: Ahead(s, x) <=> x = Store("add", "subs")
    BY <1>1, <1>2, Stage4
  <1> QED BY <1>3, Fields

LEMMA ExistBase ==
  ASSUME Base, NEW t \in Threads, Exist(t)
  PROVE  /\ Base' /\ Rest(t) /\ t \in Admins /\ ~Loading(t) /\ ~Loading(t)' /\ Running(t) /\ Running(t)'
         /\ thr[t].req = "addSubscriber" /\ thr'[t].req = thr[t].req
         /\ thr'[t].uids = thr[t].uids \ store["subs"] /\ thr'[t].ch = thr[t].ch
         /\ thr'[t].wrote = thr[t].wrote
         /\ \A x: Ahead(thr[t].todo, x) <=> x = Do("exist", "none", "subs") \/ x = Store("add", "subs")
         /\ \A x: Ahead(thr'[t].todo, x) <=> thr'[t].uids # {} /\ x = Store("add", "subs")
  <1> DEFINE fresh == thr[t].uids \ store["subs"]
  <1>1. /\ thr[t].todo # <<>> /\ Head(thr[t].todo).at = "exist" /\ Running(t) /\ thr[t].req \in DOMAIN Program
        /\ OnWay(thr[t].req, thr[t].todo) /\ thr[t] \in Goroutines /\ ~Loading(t) /\ ~thr[t].spoilt
        /\ (thr[t].req # "send" => t \in Admins) /\ Tail(thr[t].todo) \in Seq(Accesses)
    BY AtHead DEF Exist
  <1>2. thr[t].req = "addSubscriber" BY <1>1, Heads
  <1>3. \A x: Ahead(thr[t].todo, x) <=> x = Do("exist", "none", "subs") \/ x = Store("add", "subs")
    BY <1>1, <1>2, ExistAhead
  <1>4. PICK new: /\ new = [Went(t) EXCEPT !.uids = fresh, !.todo = IF fresh = {} THEN <<>> ELSE @]
                  /\ thr' = [thr EXCEPT ![t] = new]
    BY DEF Exist
  <1>5. PICK todo \in Seq(Accesses): todo = IF fresh = {} THEN <<>> ELSE Tail(thr[t].todo)
    <2>1. <<>> \in Seq(Accesses) /\ Tail(thr[t].todo) \in Seq(Accesses) BY <1>1
    <2>2. CASE fresh = {} BY <2>1, <2>2
    <2>3. CASE fresh # {} BY <2>1, <2>3
    <2> QED BY <2>2, <2>3
  <1>6. new = [[thr[t] EXCEPT !.uids = fresh] EXCEPT !.todo = todo]
    BY <1>1, <1>4, <1>5 DEF Went, Goroutines
  <1>7. /\ new \in Goroutines /\ new.req = thr[t].req /\ new.uids = fresh /\ new.todo = todo
        /\ new.ch = thr[t].ch /\ new.wrote = thr[t].wrote /\ new.spoilt = thr[t].spoilt
        /\ new.got = thr[t].got
    BY <1>1, <1>6 DEF Goroutines
  <1>8. thr' \in [Threads -> Goroutines] /\ thr'[t] = new /\ Rest(t) BY <1>4, <1>7, Goes DEF Base
  <1>9. info' = info /\ store' = store /\ cached' = cached /\ obj' = obj /\ revoked' = revoked BY DEF Exist
  <1>10. Types' BY <1>8, <1>9 DEF Base, Types
  <1>11. /\ Placed(t)' /\ ~Loading(t)' /\ Running(t)'
         /\ \A x: Ahead(thr'[t].todo, x) <=> fresh # {} /\ x = Store("add", "subs")
    <2>1. CASE fresh = {}
      <3>1. todo = <<>> BY <2>1, <1>5
      <3> QED BY <3>1, <2>1, <1>1, <1>2, <1>7, <1>8, CutShort
    <2>2. CASE fresh # {}
      <3>1. todo = Tail(thr[t].todo) BY <2>2, <1>5
      <3>2. Placed(t)' /\ Onward(t) /\ Running(t)' /\ (Loading(t)' => Loading(t))
        BY <3>1, <1>1, <1>2, <1>7, <1>8, Forward
      <3>3. Head(thr[t].todo) = Do("exist", "none", "subs")
        <4>1. Ahead(thr[t].todo, Head(thr[t].todo)) BY <1>1, WayOn
        <4> QED BY <4>1, <1>1, <1>3, Fields
      <3>4. Do("exist", "none", "subs") # Store("add", "subs") BY Fields
      <3> QED BY <3>2, <3>3, <3>4, <2>2, <1>1, <1>3 DEF Onward
    <2> QED BY <2>1, <2>2
  <1>12. Base'
    <2>1. \A x \in Threads \ {t}: Same(x) BY <1>8 DEF Rest
    <2> QED BY <2>1, <1>7, <1>8, <1>9, <1>10, <1>11, BaseStep
  <1> QED BY <1>1, <1>2, <1>3, <1>7, <1>8, <1>11, <1>12

LEMMA PublishBase ==
  ASSUME Base, NEW t \in Threads, Publish(t)
  PROVE  /\ Base' /\ WentOn(t) /\ Head(thr[t].todo).at = "publish" /\ Loading(t) /\ ~Loading(t)'
         /\ thr[t].ch \in Ids /\ Keeps(t) /\ thr'[t].wrote = thr[t].wrote /\ thr'[t].got = thr[t].got
         /\ (Looks(t)' <=> Looks(t)) /\ \A l \in Lists: ~Ahead(thr[t].todo, Do("read", "none", l))
         /\ causes' = {} => ~thr[t].spoilt
  <1> DEFINE h == Head(thr[t].todo)
  <1>1. /\ At(t, "publish") /\ cached' = thr[t].ch /\ info' = info /\ store' = store
        /\ obj' = Kept(obj) /\ revoked' = revoked
        /\ causes' = IF thr[t].spoilt THEN causes \cup {"overlap"} ELSE causes
    BY DEF Publish
  <1>2. /\ thr[t].todo # <<>> /\ h.at = "publish" /\ thr[t].req \in DOMAIN Program /\ Running(t)
        /\ OnWay(thr[t].req, thr[t].todo) /\ thr[t] \in Goroutines /\ Tail(thr[t].todo) \in Seq(Accesses)
    BY <1>1, AtHead
  <1>3. h = Load[4] /\ Ahead(thr[t].todo, Load[4]) /\ \A l \in Lists: ~Ahead(thr[t].todo, Do("read", "none", l))
    BY <1>2, HeadLoad
  <1>4. Loading(t) /\ Placed(t) BY <1>3, LoadsIs
  <1>5. thr[t].ch \in Ids BY <1>2, <1>4 DEF Placed, Goroutines
  <1>6. PICK new: new = [Went(t) EXCEPT !.spoilt = FALSE] /\ thr' = [thr EXCEPT ![t] = new] BY DEF Publish
  <1>7. /\ new \in Goroutines /\ new.req = thr[t].req /\ new.uids = thr[t].uids /\ new.todo = Tail(thr[t].todo)
        /\ new.ch = thr[t].ch /\ new.wrote = thr[t].wrote /\ new.spoilt = FALSE /\ new.barred = thr[t].barred
        /\ new.got = thr[t].got
    BY <1>2, <1>6 DEF Went, Goroutines
  <1>8. thr' \in [Threads -> Goroutines] /\ thr'[t] = new /\ Rest(t) BY <1>6, <1>7, Goes DEF Base
  <1>9. First(thr[t].req).at \in {"store", "get"} BY Fields DEF First
  <1>10. /\ Placed(t)' /\ Onward(t) /\ Running(t)'
         /\ (Looks(t)' => Looks(t)) /\ (Looks(t) => Looks(t)' \/ h.at \in {"get", "evict"})
    BY <1>2, <1>7, <1>8, <1>9, Forward
  <1>11. ~Loading(t)'
    <2>1. ~Ahead(thr'[t].todo, Load[4]) BY <1>3, <1>10 DEF Onward
    <2>2. OnWay(thr[t].req, thr'[t].todo) BY <1>2, <1>7, <1>8, WayOn
    <2> QED BY <2>1, <2>2, <1>2, LooksLoads DEF Loading
  <1>12. /\ obj' \in [Ids -> [Lists -> SUBSET Users]] /\ Keeps(t)
    BY <1>1, KeptIs DEF Base, Types, Keeps
  <1>13. Types' BY <1>1, <1>5, <1>8, <1>12 DEF Base, Types
  <1>14. Base'
    <2>1. (\A x \in Threads \ {t}: Same(x)) /\ thr'[t].ch = thr[t].ch BY <1>7, <1>8 DEF Rest
    <2> QED BY <2>1, <1>1, <1>10, <1>11, <1>13, BaseStep
  <1>15. WentOn(t) BY <1>2, <1>7, <1>8, <1>10 DEF WentOn
  <1>16. Looks(t)' <=> Looks(t) BY <1>2, <1>10
  <1>17. causes' = {} => ~thr[t].spoilt BY <1>1
  <1> QED BY <1>2, <1>3, <1>4, <1>5, <1>7, <1>8, <1>11, <1>12, <1>14, <1>15, <1>16, <1>17

LEMMA EvictBase ==
  ASSUME Base, NEW t \in Threads, DeleteChannelFromCache(t)
  PROVE  /\ Base' /\ WentOn(t) /\ ~Loading(t) /\ ~Loading(t)' /\ t \in Admins /\ cached' = 0
         /\ thr[t].req \in {"channelCreateOrUpdate", "channelDelete"}
         /\ (\A x: Ahead(thr[t].todo, x) <=> x = Evict) /\ (\A x: ~Ahead(thr'[t].todo, x))
         /\ Keeps(t) /\ thr'[t].wrote = thr[t].wrote /\ thr'[t].got = thr[t].got
         /\ thr[t].wrote => \A x \in Threads \ {t}: Loading(x) => thr'[x].spoilt
  <1> DEFINE h == Head(thr[t].todo)
  <1>1. /\ At(t, "evict") /\ cached' = 0 /\ Turn(t, Went(t)) /\ info' = info /\ store' = store
        /\ obj' = Kept(obj) /\ revoked' = revoked
    BY DEF DeleteChannelFromCache
  <1>2. /\ thr[t].todo # <<>> /\ h.at = "evict" /\ thr[t].req \in DOMAIN Program /\ Running(t)
        /\ OnWay(thr[t].req, thr[t].todo) /\ thr[t] \in Goroutines /\ Tail(thr[t].todo) \in Seq(Accesses)
        /\ ~Loading(t) /\ ~thr[t].spoilt /\ (thr[t].req # "send" => t \in Admins)
    BY <1>1, AtHead
  <1>3. thr[t].req \in {"channelCreateOrUpdate", "channelDelete"} /\ \A x: Ahead(thr[t].todo, x) <=> x = Evict
    BY <1>2, Heads
  <1>4. PICK new: new = Went(t) /\ Turn(t, new) BY <1>1
  <1>5. /\ new \in Goroutines /\ new.req = thr[t].req /\ new.uids = thr[t].uids /\ new.todo = Tail(thr[t].todo)
        /\ new.ch = thr[t].ch /\ new.wrote = thr[t].wrote /\ new.spoilt = thr[t].spoilt /\ new.barred = thr[t].barred
        /\ new.got = thr[t].got
    BY <1>2, <1>4 DEF Went, Goroutines
  <1>6. IF thr[t].wrote THEN Spoil(t, new) ELSE thr' = [thr EXCEPT ![t] = new] BY <1>4 DEF Turn
  <1>7. /\ thr' \in [Threads -> Goroutines] /\ thr'[t] = new /\ Rest(t)
        /\ thr[t].wrote => \A x \in Threads \ {t}: Loading(x) => thr'[x].spoilt
    BY <1>5, <1>6, Goes DEF Base
  <1>8. First(thr[t].req).at \in {"store", "get"} BY Fields DEF First
  <1>9. Placed(t)' /\ Onward(t) /\ Running(t)' /\ (Loading(t)' => Loading(t))
    BY <1>2, <1>5, <1>7, <1>8, Forward
  <1>10. \A x: ~Ahead(thr'[t].todo, x)
    <2>1. h = Evict
      <3>1. Ahead(thr[t].todo, h) BY <1>2, WayOn
      <3> QED BY <3>1, <1>3
    <2> QED BY <2>1, <1>3, <1>9 DEF Onward
  <1>11. obj' \in [Ids -> [Lists -> SUBSET Users]] /\ Keeps(t)
    BY <1>1, KeptIs DEF Base, Types, Keeps
  <1>12. Types' BY <1>1, <1>7, <1>11 DEF Base, Types
  <1>13. Base'
    <2>1. (\A x \in Threads \ {t}: Same(x)) /\ thr'[t].ch = thr[t].ch BY <1>5, <1>7 DEF Rest
    <2> QED BY <2>1, <1>1, <1>2, <1>9, <1>12, BaseStep
  <1>14. WentOn(t) BY <1>2, <1>5, <1>7, <1>9 DEF WentOn
  <1> QED BY <1>1, <1>2, <1>3, <1>5, <1>7, <1>9, <1>10, <1>11, <1>13, <1>14

\* A send has still to be permitted, unless it delivers.
LEMMA SendAhead ==
  ASSUME NEW s, OnWay("send", s), s # <<>>
  PROVE  Head(s).at = "deliver" <=> ~Ahead(s, Do("permit", "none", "none"))
  <1>0. "send" \in DOMAIN Program /\ Steps3(Program["send"], Get, Do("permit", "none", "none"), Do("deliver", "none", "none"))
    BY ProgramDomain, Positions
  <1>1. PICK k \in 0 .. 5, j \in 0 .. 4: Way("send", s, k, j) BY DEF OnWay
  <1>2. k \in 0 .. 3 /\ (j > 0 => k > 0 /\ Program["send"][k] = Get) BY <1>0, <1>1 DEF Way, Steps3
  <1>3. Ahead(s, Do("permit", "none", "none")) <=> 2 > k
    <2>1. 2 \in 1 .. Len(Program["send"]) BY <1>0 DEF Steps3
    <2> QED BY <2>1, <1>0, <1>1, WayAhead DEF Steps3
  <1>4. CASE j > 0
    <2>1. k = 1 BY <1>0, <1>2, <1>4, Fields DEF Steps3
    <2>2. Head(s) = Load[5 - j] BY <1>0, <1>1, <1>4, WayTail
    <2>3. 5 - j \in 1 .. 4 BY <1>4
    <2>4. Head(s).at \in {"read", "publish"} BY <2>2, <2>3, Loads
    <2> QED BY <2>1, <2>4, <1>3
  <1>5. CASE j = 0
    <2>0. Len(Program["send"]) = 3 BY <1>0 DEF Steps3
    <2>1. k + 1 \in 1 .. 3 /\ Head(s) = Program["send"][k + 1]
      <3>1. k + 1 \in 1 .. Len(Program["send"]) /\ Head(s) = Program["send"][k + 1] BY <1>0, <1>1, <1>5, WayTail
      <3> QED BY <3>1, <2>0
    <2>2. k = 0 \/ k = 1 \/ k = 2 BY <2>1, <1>2
    <2> QED BY <2>1, <2>2, <1>0, <1>3, Fields DEF Steps3
  <1> QED BY <1>1, <1>4, <1>5

LEMMA PermitBase ==
  ASSUME Base, NEW t \in Threads, Permit(t)
  PROVE  /\ Base' /\ Rest(t) /\ t \in Senders /\ t \notin Admins /\ ~Loading(t) /\ ~Loading(t)'
         /\ Running(t) /\ Running(t)' /\ thr'[t].req = thr[t].req
         /\ thr'[t].uids = thr[t].uids /\ thr'[t].ch = thr[t].ch /\ thr'[t].got = thr[t].got
         /\ thr'[t].barred = thr[t].barred
         /\ At(t, "deliver")' => /\ thr[t].ch # 0
                                 /\ \A u \in thr[t].uids: /\ Allow(obj[thr[t].ch], u)
                                                          /\ u \in obj[thr[t].ch]["subs"]
  <1> DEFINE s == thr[t].todo
  <1>1. /\ s # <<>> /\ Head(s).at = "permit" /\ Running(t) /\ thr[t].req \in DOMAIN Program
        /\ OnWay(thr[t].req, s) /\ thr[t] \in Goroutines /\ ~Loading(t) /\ ~thr[t].spoilt
        /\ (t \in Admins => thr[t].req # "send") /\ Tail(s) \in Seq(Accesses)
    BY AtHead DEF Permit
  <1>2. thr[t].req = "send" BY <1>1, Heads
  <1>3. t \notin Admins /\ t \in Senders BY <1>1, <1>2 DEF Threads
  <1>4. PICK ok, new: /\ ok = (/\ thr[t].ch # 0
                               /\ \A u \in thr[t].uids: Allow(obj[thr[t].ch], u) /\ u \in obj[thr[t].ch]["subs"])
                      /\ new = [Went(t) EXCEPT !.todo = IF ok THEN @ ELSE <<>>]
                      /\ thr' = [thr EXCEPT ![t] = new]
    BY DEF Permit
  <1>5. PICK todo \in Seq(Accesses): todo = IF ok THEN Tail(s) ELSE <<>>
    <2>1. <<>> \in Seq(Accesses) /\ Tail(s) \in Seq(Accesses) BY <1>1
    <2>2. CASE ok BY <2>1, <2>2
    <2>3. CASE ~ok BY <2>1, <2>3
    <2> QED BY <2>2, <2>3
  <1>6. new = [thr[t] EXCEPT !.todo = todo]
    BY <1>1, <1>4, <1>5 DEF Went, Goroutines
  <1>7. /\ new \in Goroutines /\ new.req = thr[t].req /\ new.uids = thr[t].uids /\ new.todo = todo
        /\ new.ch = thr[t].ch /\ new.wrote = thr[t].wrote /\ new.spoilt = thr[t].spoilt
        /\ new.got = thr[t].got /\ new.barred = thr[t].barred
    BY <1>1, <1>6 DEF Goroutines
  <1>8. thr' \in [Threads -> Goroutines] /\ thr'[t] = new /\ Rest(t) BY <1>4, <1>7, Goes DEF Base
  <1>9. info' = info /\ store' = store /\ cached' = cached /\ obj' = obj /\ revoked' = revoked BY DEF Permit
  <1>10. Types' BY <1>8, <1>9 DEF Base, Types
  <1>11. Placed(t)' /\ ~Loading(t)' /\ Running(t)' /\ (At(t, "deliver")' => ok)
    <2>1. CASE ~ok
      <3>1. todo = <<>> BY <2>1, <1>5
      <3> QED BY <3>1, <2>1, <1>1, <1>2, <1>7, <1>8, CutShort DEF At
    <2>2. CASE ok
      <3>1. todo = Tail(s) /\ thr[t].ch # 0 BY <2>2, <1>4, <1>5
      <3>2. Placed(t)' /\ Running(t)' /\ (Loading(t)' => Loading(t))
        BY <3>1, <1>1, <1>3, <1>7, <1>8, Forward
      <3> QED BY <3>2, <2>2, <1>1
    <2> QED BY <2>1, <2>2
  <1>12. Base'
    <2>1. \A x \in Threads \ {t}: Same(x) BY <1>8 DEF Rest
    <2> QED BY <2>1, <1>7, <1>8, <1>9, <1>10, <1>11, BaseStep
  <1> QED BY <1>1, <1>3, <1>4, <1>7, <1>8, <1>11, <1>12

LEMMA DeliverBase ==
  ASSUME Base, NEW t \in Threads, Deliver(t)
  PROVE  /\ Base' /\ WentOn(t) /\ t \in Senders /\ t \notin Admins /\ ~Loading(t) /\ ~Loading(t)'
         /\ thr[t].ch \in Ids /\ thr'[t].got = obj[thr[t].ch]["subs"] /\ ~At(t, "deliver")'
  <1> DEFINE s == thr[t].todo
  <1>1. /\ s # <<>> /\ Head(s).at = "deliver" /\ Running(t) /\ thr[t].req \in DOMAIN Program
        /\ OnWay(thr[t].req, s) /\ thr[t] \in Goroutines /\ ~Loading(t) /\ ~thr[t].spoilt
        /\ (t \in Admins => thr[t].req # "send") /\ Tail(s) \in Seq(Accesses)
    BY AtHead DEF Deliver
  <1>2. thr[t].req = "send" /\ \A x: Ahead(s, x) <=> x = Do("deliver", "none", "none") BY <1>1, Heads
  <1>3. t \notin Admins /\ t \in Senders BY <1>1, <1>2 DEF Threads
  <1>4. thr[t].ch \in Ids
    <2>1. Placed(t) BY LoadsIs
    <2>2. Do("permit", "none", "none") # Do("deliver", "none", "none") BY Fields
    <2> QED BY <2>1, <2>2, <1>1, <1>2 DEF Placed, Goroutines
  <1>5. PICK got, new: /\ got = obj[thr[t].ch]["subs"] /\ new = [Went(t) EXCEPT !.got = got]
                       /\ thr' = [thr EXCEPT ![t] = new]
    BY DEF Deliver
  <1>6. got \in SUBSET Users BY <1>4, <1>5 DEF Base, Types, Lists
  <1>7. /\ new \in Goroutines /\ new.req = thr[t].req /\ new.uids = thr[t].uids /\ new.todo = Tail(s)
        /\ new.ch = thr[t].ch /\ new.wrote = thr[t].wrote /\ new.spoilt = thr[t].spoilt
        /\ new.got = got /\ new.barred = thr[t].barred
    BY <1>1, <1>5, <1>6 DEF Went, Goroutines
  <1>8. thr' \in [Threads -> Goroutines] /\ thr'[t] = new /\ Rest(t) BY <1>5, <1>7, Goes DEF Base
  <1>9. info' = info /\ store' = store /\ cached' = cached /\ obj' = obj /\ revoked' = revoked BY DEF Deliver
  <1>10. Types' BY <1>8, <1>9 DEF Base, Types
  <1>11. Placed(t)' /\ Onward(t) /\ Running(t)' /\ (Loading(t)' => Loading(t)) BY <1>1, <1>3, <1>7, <1>8, Forward
  <1>12. ~At(t, "deliver")'
    <2>1. Head(s) = Do("deliver", "none", "none")
      <3>1. Ahead(s, Head(s)) BY <1>1, WayOn
      <3> QED BY <3>1, <1>2
    <2>2. \A x: ~Ahead(thr'[t].todo, x) BY <2>1, <1>2, <1>11 DEF Onward
    <2>3. OnWay("send", thr'[t].todo) BY <1>1, <1>2, <1>7, <1>8, WayOn
    <2>4. thr'[t].todo = <<>>
      <3> SUFFICES ASSUME thr'[t].todo # <<>> PROVE FALSE OBVIOUS
      <3>1. Ahead(thr'[t].todo, Head(thr'[t].todo)) BY <1>1, <1>2, <2>3, WayOn
      <3> QED BY <3>1, <2>2
    <2> QED BY <2>4 DEF At
  <1>13. Base'
    <2>1. \A x \in Threads \ {t}: Same(x) BY <1>8 DEF Rest
    <2> QED BY <2>1, <1>1, <1>7, <1>8, <1>9, <1>10, <1>11, BaseStep
  <1>14. WentOn(t) BY <1>1, <1>7, <1>8, <1>11 DEF WentOn
  <1> QED BY <1>1, <1>3, <1>4, <1>5, <1>7, <1>8, <1>11, <1>12, <1>13, <1>14

\* The accesses left are the same, but for those to the cache.
Undisturbed(t) ==
    \A x: x.at \in {"store", "object", "evict", "permit"} => (Ahead(thr'[t].todo, x) <=> Ahead(thr[t].todo, x))

Got(t) ==
    \/ cached # 0 /\ thr'[t].ch = cached /\ ~Loading(t)'
    \/ cached = 0 /\ thr'[t].ch = thr[t].ch /\ ~Loading(t)'
    \/ /\ cached = 0 /\ Loading(t)' /\ Free(thr'[t].ch) /\ thr'[t].ch \in Ids
       /\ \A l \in Lists: Ahead(thr'[t].todo, Do("read", "none", l))

LEMMA GetBase ==
  ASSUME Base, NEW t \in Threads, GetChannel(t)
  PROVE  /\ Base' /\ Rest(t) /\ Running(t) /\ Running(t)' /\ ~Loading(t) /\ Looks(t)
         /\ thr'[t].req = thr[t].req /\ thr'[t].uids = thr[t].uids /\ thr'[t].wrote = thr[t].wrote
         /\ thr'[t].barred = thr[t].barred /\ thr'[t].got = thr[t].got
         /\ thr[t].wrote => \A x \in Threads \ {t}: Loading(x) => thr'[x].spoilt
         /\ Undisturbed(t) /\ Got(t) /\ ~At(t, "deliver")'
  <1> DEFINE s == thr[t].todo
  <1>0. At(t, "get") BY DEF GetChannel
  <1>1. /\ s # <<>> /\ Head(s).at = "get" /\ Running(t) /\ thr[t].req \in DOMAIN Program
        /\ OnWay(thr[t].req, s) /\ thr[t] \in Goroutines /\ ~Loading(t) /\ ~thr[t].spoilt
        /\ (t \in Admins => thr[t].req \in Requests) /\ Tail(s) \in Seq(Accesses)
    BY <1>0, AtHead
  <1>2. Head(s) = Get /\ ~Ahead(s, Evict) BY <1>1, Heads
  <1>3. Looks(t)
    <2>1. Looks(t) <=> Ahead(s, Get) \/ Ahead(s, Evict) BY LoadsIs
    <2>2. Ahead(s, Head(s)) BY <1>1, WayOn
    <2> QED BY <2>1, <2>2, <1>2
  <1>4. info' = info /\ store' = store /\ cached' = cached /\ obj' = obj /\ revoked' = revoked BY DEF GetChannel
  <1>5. OnWay(thr[t].req, Tail(s)) /\ \A x: Ahead(Tail(s), x) <=> Ahead(s, x) /\ x # Get BY <1>1, <1>2, WayOn
  <1>6. /\ OnWay(thr[t].req, Load \o Tail(s)) /\ Load \o Tail(s) \in Seq(Accesses)
        /\ \A x: Ahead(Load \o Tail(s), x) <=> Ahead(Tail(s), x) \/ \E i \in 1 .. 4: x = Load[i]
    BY <1>1, <1>2, WayLoad
  <1>7. ASSUME NEW new \in Goroutines, Turn(t, new)
        PROVE  /\ thr' \in [Threads -> Goroutines] /\ thr'[t] = new /\ Rest(t)
               /\ thr[t].wrote => \A x \in Threads \ {t}: Loading(x) => thr'[x].spoilt
    <2>1. IF thr[t].wrote THEN Spoil(t, new) ELSE thr' = [thr EXCEPT ![t] = new] BY <1>7 DEF Turn
    <2> QED BY <2>1, <1>7, Goes DEF Base
  <1>8. First(thr[t].req).at = "store" \/ thr[t].req \in {"channelDelete", "addSubscriber"} \/ t \notin Admins
    BY <1>1, Fields, ProgramDomain DEF First, Handlers
  <1>9. Get.at = "get" /\ \A i \in 1 .. 4: Load[i].at \in {"read", "publish"} BY Fields, Loads
  <1>10. ASSUME NEW c \in {0} \cup Ids, Turn(t, [Went(t) EXCEPT !.ch = c]),
                c = thr[t].ch \/ c \in Ids, (cached # 0 /\ c = cached) \/ (cached = 0 /\ c = thr[t].ch)
         PROVE  /\ Base' /\ Rest(t) /\ Running(t)' /\ thr'[t].req = thr[t].req /\ thr'[t].uids = thr[t].uids
                /\ thr'[t].wrote = thr[t].wrote /\ thr'[t].barred = thr[t].barred /\ thr'[t].got = thr[t].got
                /\ thr[t].wrote => \A x \in Threads \ {t}: Loading(x) => thr'[x].spoilt
                /\ thr'[t].todo = Tail(s) /\ Got(t)
    <2>1. PICK new: new = [Went(t) EXCEPT !.ch = c] /\ Turn(t, new) BY <1>10
    <2>2. /\ new \in Goroutines /\ new.req = thr[t].req /\ new.uids = thr[t].uids /\ new.todo = Tail(s)
          /\ new.ch = c /\ new.wrote = thr[t].wrote /\ new.spoilt = thr[t].spoilt
          /\ new.got = thr[t].got /\ new.barred = thr[t].barred
      BY <2>1, <1>1 DEF Went, Goroutines
    <2>3. /\ thr' \in [Threads -> Goroutines] /\ thr'[t] = new /\ Rest(t)
          /\ thr[t].wrote => \A x \in Threads \ {t}: Loading(x) => thr'[x].spoilt
      BY <2>1, <2>2, <1>7
    <2>4. c \in Ids => c # 0 BY IdsAre
    <2>5. Placed(t)' /\ Running(t)' /\ (Loading(t)' => Loading(t))
      BY <2>2, <2>3, <2>4, <1>1, <1>2, <1>8, <1>9, <1>10, Forward
    <2>6. Types' BY <2>3, <1>4 DEF Base, Types
    <2>7. \A x \in Threads \ {t}: Same(x) BY <2>3 DEF Rest
    <2>8. Base' BY <2>2, <2>3, <2>5, <2>6, <2>7, <1>1, <1>4, <1>10, BaseStep
    <2>9. Got(t) BY <2>2, <2>3, <2>5, <1>1, <1>10 DEF Got
    <2> QED BY <2>2, <2>3, <2>5, <2>8, <2>9
  <1>11. ASSUME NEW i \in Ids, Free(i), cached = 0, Turn(t, [Went(t) EXCEPT !.ch = i, !.todo = Load \o @])
         PROVE  /\ Base' /\ Rest(t) /\ Running(t)' /\ thr'[t].req = thr[t].req /\ thr'[t].uids = thr[t].uids
                /\ thr'[t].wrote = thr[t].wrote /\ thr'[t].barred = thr[t].barred /\ thr'[t].got = thr[t].got
                /\ thr[t].wrote => \A x \in Threads \ {t}: Loading(x) => thr'[x].spoilt
                /\ thr'[t].todo = Load \o Tail(s) /\ Got(t)
    <2>0. PICK todo \in Seq(Accesses): todo = Load \o Tail(s) BY <1>6
    <2>1. PICK new: new = [Went(t) EXCEPT !.ch = i, !.todo = todo] /\ Turn(t, new)
      <3>1. Went(t).todo = Tail(s) BY <1>1 DEF Went, Goroutines
      <3>2. [Went(t) EXCEPT !.ch = i, !.todo = Load \o @] = [Went(t) EXCEPT !.ch = i, !.todo = todo]
        BY <3>1, <2>0, <1>1 DEF Went, Goroutines
      <3> QED BY <3>2, <1>11
    <2>2. /\ new \in Goroutines /\ new.req = thr[t].req /\ new.uids = thr[t].uids /\ new.todo = todo
          /\ new.ch = i /\ new.wrote = thr[t].wrote /\ new.spoilt = thr[t].spoilt
          /\ new.got = thr[t].got /\ new.barred = thr[t].barred
      BY <2>1, <1>1 DEF Went, Goroutines
    <2>3. /\ thr' \in [Threads -> Goroutines] /\ thr'[t] = new /\ Rest(t)
          /\ thr[t].wrote => \A x \in Threads \ {t}: Loading(x) => thr'[x].spoilt
      BY <2>1, <2>2, <1>7
    <2>4. i # 0 BY IdsAre
    <2>5. \A x: Ahead(todo, x) <=> (Ahead(s, x) /\ x # Get) \/ \E n \in 1 .. 4: x = Load[n] BY <2>0, <1>5, <1>6
    <2>6. Loading(t)'
      <3>1. Ahead(todo, Load[4]) BY <2>5
      <3>2. OnWay(thr[t].req, todo) /\ thr'[t].todo = todo BY <2>0, <2>2, <2>3, <1>6
      <3>3. \E n \in DOMAIN todo: todo[n].at = "publish" BY <3>1, <3>2, <1>1, LooksLoads
      <3> QED BY <3>2, <3>3 DEF Loading
    <2>7. Placed(t)'
      <3>1. Placed(t) /\ OnWay(thr[t].req, todo) BY <2>0, <1>6, LoadsIs
      <3>2. First(thr[t].req).at = "store" /\ Ahead(s, First(thr[t].req)) => Ahead(todo, First(thr[t].req)) BY <2>5, <1>9
      <3> QED BY <3>1, <3>2, <2>2, <2>3, <2>4, <2>6, <1>1, <1>8 DEF Placed, Running
    <2>8. Types' BY <2>3, <1>4 DEF Base, Types
    <2>9. \A x \in Threads \ {t}: Same(x) BY <2>3 DEF Rest
    <2>10. Base' BY <2>2, <2>3, <2>7, <2>8, <2>9, <1>4, <1>11, BaseStep
    <2>11. \A l \in Lists: Ahead(todo, Do("read", "none", l))
      <3>1. 1 \in 1 .. 4 /\ 2 \in 1 .. 4 /\ 3 \in 1 .. 4 OBVIOUS
      <3> QED BY <3>1, <2>5, Loads DEF Lists
    <2>12. Got(t) BY <2>2, <2>3, <2>6, <2>11, <1>11 DEF Got
    <2> QED BY <2>0, <2>2, <2>3, <2>10, <2>12, <1>1 DEF Running
  <1>12. /\ Base' /\ Rest(t) /\ Running(t)' /\ thr'[t].req = thr[t].req /\ thr'[t].uids = thr[t].uids
         /\ thr'[t].wrote = thr[t].wrote /\ thr'[t].barred = thr[t].barred /\ thr'[t].got = thr[t].got
         /\ thr[t].wrote => \A x \in Threads \ {t}: Loading(x) => thr'[x].spoilt
         /\ thr'[t].todo \in {Tail(s), Load \o Tail(s)} /\ Got(t)
    <2>0. cached \in {0} \cup Ids /\ thr[t].ch \in {0} \cup Ids BY <1>1 DEF Base, Types, Goroutines
    <2>1. CASE cached # 0 /\ Turn(t, [Went(t) EXCEPT !.ch = cached]) BY <2>0, <2>1, <1>10
    <2>2. CASE cached = 0 /\ Turn(t, Went(t))
      <3>1. Went(t) = [Went(t) EXCEPT !.ch = thr[t].ch] BY <1>1 DEF Went, Goroutines
      <3> QED BY <3>1, <2>0, <2>2, <1>10
    <2>3. CASE cached = 0 /\ \E i \in Ids: Free(i) /\ Turn(t, [Went(t) EXCEPT !.ch = i, !.todo = Load \o @])
      BY <2>3, <1>11
    <2> QED BY <2>1, <2>2, <2>3 DEF GetChannel
  <1>13. Undisturbed(t) BY <1>5, <1>6, <1>9, <1>12 DEF Undisturbed
  <1>14. ~At(t, "deliver")'
    <2> SUFFICES ASSUME At(t, "deliver")' PROVE FALSE OBVIOUS
    <2>1. thr'[t].todo # <<>> /\ Head(thr'[t].todo).at = "deliver" /\ OnWay(thr[t].req, thr'[t].todo)
      BY <1>5, <1>6, <1>12 DEF At
    <2>2. thr[t].req = "send" BY <2>1, <1>1, Heads
    <2>3. Ahead(s, Do("permit", "none", "none")) BY <2>2, <1>1, SendAhead
    <2>4. ~Ahead(thr'[t].todo, Do("permit", "none", "none")) BY <2>1, <2>2, SendAhead
    <2>5. Do("permit", "none", "none").at = "permit" BY Fields
    <2> QED BY <2>3, <2>4, <2>5, <1>13 DEF Undisturbed
  <1> QED BY <1>1, <1>3, <1>12, <1>13, <1>14

-----------------------------------------------------------------------------
(* The cache and the store *)

LEMMA Agreement ==
  ASSUME NEW l, NEW a, NEW b, NEW c
  PROVE  /\ Agree(l, a, a)
         /\ Agree(l, a, b) /\ Agree(l, b, c) => Agree(l, a, c)
         /\ \A at, s, u: Agree(l, a, b) => Agree(l, After(at, s, l, u, a), After(at, s, l, u, b))
  <1>1. Agree(l, a, a) /\ (Agree(l, a, b) /\ Agree(l, b, c) => Agree(l, a, c)) BY DEF Agree
  <1>2. ASSUME NEW at, NEW s, NEW u, Agree(l, a, b) PROVE Agree(l, After(at, s, l, u, a), After(at, s, l, u, b))
    <2>1. CASE l # "subs" BY <2>1, <1>2 DEF Agree
    <2>2. CASE l = "subs"
      <3>1. a \subseteq b BY <2>2, <1>2 DEF Agree
      <3>2. After(at, s, l, u, a) \subseteq After(at, s, l, u, b) BY <3>1 DEF After
      <3> QED BY <3>2, <2>2 DEF Agree
    <2> QED BY <2>1, <2>2
  <1> QED BY <1>1, <1>2

LEMMA AfterNothing ==
  ASSUME NEW at, NEW s, NEW l, NEW u, NEW v, \A x: ~Ahead(s, x) PROVE After(at, s, l, u, v) = v
  BY DEF After

\* What the accesses to store and object do does not depend on the others.
LEMMA AfterSame ==
  ASSUME NEW at, NEW s, NEW z, NEW l, NEW u, NEW v, \A b: Ahead(z, Do(at, b, l)) <=> Ahead(s, Do(at, b, l))
  PROVE  After(at, z, l, u, v) = After(at, s, l, u, v)
  BY DEF After

LEMMA OtherMeets ==
  ASSUME NEW x, Same(x), NEW l
  PROVE  /\ Writing(x, l)' <=> Writing(x, l)
         /\ Exempt(x)' <=> Exempt(x)
         /\ Empties(x)' <=> Empties(x)
         /\ Running(x)' <=> Running(x)
         /\ Loading(x)' <=> Loading(x)
         /\ store'[l] = store[l] =>
               /\ (Agree(l, ObjectAfter(x, l, store[l]), StoreAfter(x, l)))' <=>
                      Agree(l, ObjectAfter(x, l, store[l]), StoreAfter(x, l))
               /\ \A i: obj'[i][l] = obj[i][l] => (Meets(x, i, l)' <=> Meets(x, i, l))
  <1>1. /\ Writing(x, l)' <=> Writing(x, l)
        /\ Exempt(x)' <=> Exempt(x)
        /\ Empties(x)' <=> Empties(x)
        /\ Running(x)' <=> Running(x)
        /\ Loading(x)' <=> Loading(x)
        /\ Looks(x)' <=> Looks(x)
    BY DEF Same, Writing, Exempt, Empties, Running, Loading, Looks
  <1>2. ASSUME store'[l] = store[l]
        PROVE  (Agree(l, ObjectAfter(x, l, store[l]), StoreAfter(x, l)))' <=>
                  Agree(l, ObjectAfter(x, l, store[l]), StoreAfter(x, l))
    BY <1>2 DEF Same, ObjectAfter, StoreAfter
  <1>3. ASSUME store'[l] = store[l], NEW i, obj'[i][l] = obj[i][l] PROVE Meets(x, i, l)' <=> Meets(x, i, l)
    BY <1>1, <1>3 DEF Same, ObjectAfter, StoreAfter, Meets
  <1> QED BY <1>1, <1>2, <1>3

\* The request goes on, and what it has to do to store and object is the same.
Stays(t) ==
    /\ Running(t) /\ Running(t)' /\ thr'[t].req = thr[t].req /\ thr'[t].uids = thr[t].uids
    /\ thr'[t].wrote = thr[t].wrote /\ Undisturbed(t)

LEMMA StaysIs ==
  ASSUME NEW t, Stays(t), NEW l
  PROVE  /\ Writing(t, l)' <=> Writing(t, l)
         /\ Exempt(t)' <=> Exempt(t)
         /\ Empties(t)' <=> Empties(t)
         /\ Ahead(thr'[t].todo, Object("add", "deny")) <=> Ahead(thr[t].todo, Object("add", "deny"))
         /\ \A v: After("object", thr'[t].todo, l, thr'[t].uids, v) = After("object", thr[t].todo, l, thr[t].uids, v)
         /\ \A v: After("store", thr'[t].todo, l, thr'[t].uids, v) = After("store", thr[t].todo, l, thr[t].uids, v)
  <1>1. \A b: Do("store", b, l).at = "store" /\ Do("object", b, l).at = "object" BY Fields
  <1>2. Evict.at = "evict" /\ Object("add", "deny").at = "object" BY Fields
  <1>3. /\ \A b: Ahead(thr'[t].todo, Do("store", b, l)) <=> Ahead(thr[t].todo, Do("store", b, l))
        /\ \A b: Ahead(thr'[t].todo, Do("object", b, l)) <=> Ahead(thr[t].todo, Do("object", b, l))
        /\ Ahead(thr'[t].todo, Evict) <=> Ahead(thr[t].todo, Evict)
        /\ Ahead(thr'[t].todo, Object("add", "deny")) <=> Ahead(thr[t].todo, Object("add", "deny"))
    BY <1>1, <1>2 DEF Stays, Undisturbed
  <1>4. /\ Writing(t, l)' <=> Writing(t, l)
        /\ Exempt(t)' <=> Exempt(t)
        /\ Empties(t)' <=> Empties(t)
    BY <1>3 DEF Stays, Writing, Exempt, Empties
  <1>5. \A v: After("object", thr'[t].todo, l, thr[t].uids, v) = After("object", thr[t].todo, l, thr[t].uids, v)
    BY <1>3, AfterSame
  <1>6. \A v: After("store", thr'[t].todo, l, thr[t].uids, v) = After("store", thr[t].todo, l, thr[t].uids, v)
    BY <1>3, AfterSame
  <1> QED BY <1>3, <1>4, <1>5, <1>6 DEF Stays

LEMMA StaysMeets ==
  ASSUME NEW t, Stays(t), NEW l, NEW i, store'[l] = store[l], obj'[i][l] = obj[i][l], Meets(t, i, l),
         thr[t].wrote => (Looks(t) \/ thr[t].ch = i <=> Looks(t)' \/ thr'[t].ch = i)
  PROVE  Meets(t, i, l)'
  <1>1. Exempt(t)' <=> Exempt(t) BY StaysIs
  <1>2. After("object", thr'[t].todo, l, thr'[t].uids, obj'[i][l]) = After("object", thr[t].todo, l, thr[t].uids, obj[i][l])
    BY StaysIs
  <1>3. After("store", thr'[t].todo, l, thr'[t].uids, store'[l]) = After("store", thr[t].todo, l, thr[t].uids, store[l])
    BY StaysIs
  <1>4. thr'[t].wrote = thr[t].wrote BY DEF Stays
  <1> QED BY <1>1, <1>2, <1>3, <1>4 DEF Meets, ObjectAfter, StoreAfter

\* A step that does not change the store, and that does not begin or end a request.
LEMMA StaysOn ==
  ASSUME NEW t \in Threads, \A x \in Threads \ {t}: Same(x), store' = store, t \in Admins => Stays(t),
         OneWriter, SameEffect, EmptiesFirst
  PROVE  OneWriter' /\ SameEffect' /\ EmptiesFirst'
  <1>0. \A x \in Admins: x \in Threads BY DEF Threads
  <1>1. \A x \in Admins, l \in Lists: Writing(x, l)' <=> Writing(x, l) BY <1>0, OtherMeets, StaysIs
  <1>2. OneWriter' BY <1>1 DEF OneWriter
  <1>3. ASSUME NEW x \in Admins, NEW l \in Lists, Writing(x, l)'
        PROVE  (Exempt(x) \/ Agree(l, ObjectAfter(x, l, store[l]), StoreAfter(x, l)))'
    <2>1. Exempt(x) \/ Agree(l, ObjectAfter(x, l, store[l]), StoreAfter(x, l)) BY <1>1, <1>3 DEF SameEffect
    <2>2. CASE x # t BY <2>1, <2>2, <1>0, OtherMeets
    <2>3. CASE x = t
      <3>1. Exempt(t)' <=> Exempt(t) BY <2>3, StaysIs
      <3>2. After("object", thr'[t].todo, l, thr'[t].uids, store'[l]) = After("object", thr[t].todo, l, thr[t].uids, store[l])
        BY <2>3, StaysIs
      <3>3. After("store", thr'[t].todo, l, thr'[t].uids, store'[l]) = After("store", thr[t].todo, l, thr[t].uids, store[l])
        BY <2>3, StaysIs
      <3> QED BY <3>1, <3>2, <3>3, <2>1, <2>3 DEF ObjectAfter, StoreAfter
    <2> QED BY <2>2, <2>3
  <1>4. SameEffect' BY <1>3 DEF SameEffect
  <1>5. ASSUME NEW x \in Admins, (Running(x) /\ Empties(x))' PROVE Ahead(thr'[x].todo, Object("add", "deny"))
    <2>1. CASE x # t BY <2>1, <1>0, <1>5, OtherMeets DEF EmptiesFirst, Same
    <2>2. CASE x = t BY <2>2, <1>5, StaysIs DEF EmptiesFirst, Stays
    <2> QED BY <2>1, <2>2
  <1>6. EmptiesFirst' BY <1>5 DEF EmptiesFirst
  <1> QED BY <1>2, <1>4, <1>6

LEMMA StaysCoheres ==
  ASSUME NEW t \in Threads, \A x \in Threads \ {t}: Same(x), t \in Admins => Stays(t),
         NEW i, NEW l, store'[l] = store[l], obj'[i][l] = obj[i][l], Coheres(i, l),
         t \in Admins /\ thr[t].wrote => (Looks(t) \/ thr[t].ch = i <=> Looks(t)' \/ thr'[t].ch = i)
  PROVE  Coheres(i, l)'
  <1>0. \A x \in Admins: x \in Threads BY DEF Threads
  <1>1. \A x \in Admins: Writing(x, l)' <=> Writing(x, l) BY <1>0, OtherMeets, StaysIs
  <1>2. ASSUME NEW x \in Admins, Writing(x, l)' PROVE Meets(x, i, l)'
    <2>1. Meets(x, i, l) BY <1>1, <1>2 DEF Coheres
    <2>2. CASE x # t BY <2>1, <2>2, <1>0, OtherMeets
    <2>3. CASE x = t BY <2>1, <2>3, StaysMeets
    <2> QED BY <2>2, <2>3
  <1>3. (\A x \in Admins: ~Writing(x, l)') => Agree(l, obj'[i][l], store'[l]) BY <1>1 DEF Coheres
  <1> QED BY <1>2, <1>3 DEF Coheres

\* What is shown was shown before, or t has loaded it.
LEMMA ShownBefore ==
  ASSUME NEW t \in Threads, \A x \in Threads \ {t}: Same(x), NEW i \in Ids, NEW l, Shown(i, l)', cached' \in {0, cached}
  PROVE  \/ Shown(i, l)
         \/ Loading(t)' /\ ~thr'[t].spoilt /\ thr'[t].ch = i /\ ~Ahead(thr'[t].todo, Do("read", "none", l))
  <1>1. CASE i = cached' BY <1>1, IdsAre DEF Shown
  <1>2. ASSUME NEW x \in Threads, Loading(x)', ~thr'[x].spoilt, thr'[x].ch = i, ~Ahead(thr'[x].todo, Do("read", "none", l)),
               x # t
        PROVE  Shown(i, l)
    <2>1. Same(x) /\ Loading(x) BY <1>2, OtherMeets
    <2> QED BY <2>1, <1>2 DEF Same, Shown
  <1> QED BY <1>1, <1>2 DEF Shown

\* When all loads under way are spoilt, only the cached object is shown.
LEMMA SpoiltShown ==
  ASSUME NEW t \in Threads, \A x \in Threads \ {t}: Same(x) /\ (Loading(x) => thr'[x].spoilt),
         NEW i \in Ids, NEW l, Shown(i, l)'
  PROVE  i = cached' \/ (Loading(t)' /\ ~Ahead(thr'[t].todo, Do("read", "none", l)))
  <1>1. \A x \in Threads \ {t}: Loading(x)' => thr'[x].spoilt BY OtherMeets
  <1> QED BY <1>1 DEF Shown

LEMMA KeepsShown ==
  ASSUME NEW t, Keeps(t), NEW i \in Ids, NEW l, Shown(i, l)' PROVE obj'[i] = obj[i]
  BY DEF Keeps, Shown

Together == OneWriter /\ SameEffect /\ EmptiesFirst /\ Coherent

LEMMA WentStays ==
  ASSUME NEW t, WentOn(t), thr'[t].wrote = thr[t].wrote,
         Head(thr[t].todo).at \notin {"store", "object", "evict", "permit"}
  PROVE  Stays(t)
  BY DEF WentOn, Onward, Stays, Undisturbed

\* A step that neither changes the store nor shows anything new.
LEMMA SilentTogether ==
  ASSUME Together, NEW t \in Threads, \A x \in Threads \ {t}: Same(x), store' = store, t \in Admins => Stays(t),
         t \in Admins => thr'[t].ch = thr[t].ch /\ (Looks(t)' <=> Looks(t)),
         \A i \in Ids, l \in Lists: Shown(i, l)' => Shown(i, l) /\ obj'[i][l] = obj[i][l]
  PROVE  Together'
  <1>1. OneWriter' /\ SameEffect' /\ EmptiesFirst' BY StaysOn DEF Together
  <1>2. ASSUME NEW i \in Ids, NEW l \in Lists, Shown(i, l)' PROVE Coheres(i, l)'
    <2>1. Coheres(i, l) /\ obj'[i][l] = obj[i][l] BY <1>2 DEF Together, Coherent
    <2> QED BY <2>1, StaysCoheres
  <1> QED BY <1>1, <1>2 DEF Together, Coherent

LEMMA SendTogether ==
  ASSUME Base, Together, NEW t \in Senders, NEW u \in Users, Send(t, u) PROVE Together'
  <1>1. /\ Rest(t) /\ t \notin Admins /\ ~Loading(t)' /\ t \in Threads BY SendBase
  <1>2. store' = store /\ obj' = obj /\ cached' = cached BY DEF Send
  <1>3. \A x \in Threads \ {t}: Same(x) BY <1>1 DEF Rest
  <1>4. \A i \in Ids, l \in Lists: Shown(i, l)' => Shown(i, l) /\ obj'[i][l] = obj[i][l]
    BY <1>1, <1>2, <1>3, ShownBefore
  <1> QED BY <1>1, <1>2, <1>3, <1>4, SilentTogether

LEMMA PermitTogether ==
  ASSUME Base, Together, NEW t \in Threads, Permit(t) PROVE Together'
  <1>1. Rest(t) /\ t \notin Admins /\ ~Loading(t)' BY PermitBase
  <1>2. store' = store /\ obj' = obj /\ cached' = cached BY DEF Permit
  <1>3. \A x \in Threads \ {t}: Same(x) BY <1>1 DEF Rest
  <1>4. \A i \in Ids, l \in Lists: Shown(i, l)' => Shown(i, l) /\ obj'[i][l] = obj[i][l]
    BY <1>1, <1>2, <1>3, ShownBefore
  <1> QED BY <1>1, <1>2, <1>3, <1>4, SilentTogether

LEMMA DeliverTogether ==
  ASSUME Base, Together, NEW t \in Threads, Deliver(t) PROVE Together'
  <1>1. WentOn(t) /\ t \notin Admins /\ ~Loading(t)' BY DeliverBase
  <1>2. store' = store /\ obj' = obj /\ cached' = cached BY DEF Deliver
  <1>3. \A x \in Threads \ {t}: Same(x) BY <1>1 DEF Rest, WentOn
  <1>4. \A i \in Ids, l \in Lists: Shown(i, l)' => Shown(i, l) /\ obj'[i][l] = obj[i][l]
    BY <1>1, <1>2, <1>3, ShownBefore
  <1> QED BY <1>1, <1>2, <1>3, <1>4, SilentTogether

LEMMA HasTogether ==
  ASSUME Base, Together, NEW t \in Threads, HasChannel(t) PROVE Together'
  <1>1. /\ WentOn(t) /\ ~Loading(t)' /\ Head(thr[t].todo).at = "notnil"
        /\ thr'[t].wrote = thr[t].wrote /\ (Looks(t)' <=> Looks(t))
    BY HasBase
  <1>2. store' = store /\ obj' = obj /\ cached' = cached BY DEF HasChannel
  <1>3. (\A x \in Threads \ {t}: Same(x)) /\ thr'[t].ch = thr[t].ch BY <1>1 DEF Rest, WentOn
  <1>4. \A i \in Ids, l \in Lists: Shown(i, l)' => Shown(i, l) /\ obj'[i][l] = obj[i][l]
    BY <1>1, <1>2, <1>3, ShownBefore
  <1>5. Stays(t) BY <1>1, WentStays
  <1> QED BY <1>1, <1>2, <1>3, <1>4, <1>5, SilentTogether

LEMMA PublishTogether ==
  ASSUME Base, Together, NEW t \in Threads, Publish(t), causes' = {} PROVE Together'
  <1>1. /\ WentOn(t) /\ Head(thr[t].todo).at = "publish" /\ Loading(t) /\ ~Loading(t)'
        /\ thr[t].ch \in Ids /\ Keeps(t) /\ thr'[t].wrote = thr[t].wrote
        /\ (Looks(t)' <=> Looks(t)) /\ (\A l \in Lists: ~Ahead(thr[t].todo, Do("read", "none", l)))
        /\ ~thr[t].spoilt
    BY PublishBase
  <1>2. store' = store /\ cached' = thr[t].ch BY DEF Publish
  <1>3. (\A x \in Threads \ {t}: Same(x)) /\ thr'[t].ch = thr[t].ch BY <1>1 DEF Rest, WentOn
  <1>4. ASSUME NEW i \in Ids, NEW l \in Lists, Shown(i, l)' PROVE Shown(i, l) /\ obj'[i][l] = obj[i][l]
    <2>1. obj'[i] = obj[i] BY <1>1, <1>4, KeepsShown
    <2>2. CASE i = thr[t].ch BY <2>1, <2>2, <1>1 DEF Shown
    <2>3. ASSUME NEW x \in Threads, Loading(x)', ~thr'[x].spoilt, thr'[x].ch = i, ~Ahead(thr'[x].todo, Do("read", "none", l))
          PROVE  Shown(i, l)
      <3>1. x # t BY <2>3, <1>1
      <3>2. Same(x) /\ Loading(x) BY <3>1, <2>3, <1>3, OtherMeets
      <3> QED BY <3>2, <2>3 DEF Same, Shown
    <2> QED BY <2>1, <2>2, <2>3, <1>2, <1>4 DEF Shown
  <1>5. Stays(t) BY <1>1, WentStays
  <1> QED BY <1>1, <1>2, <1>3, <1>4, <1>5, SilentTogether

LEMMA ReadTogether ==
  ASSUME Base, Together, NEW t \in Threads, Read(t) PROVE Together'
  <1> DEFINE h == Head(thr[t].todo)
  <1>1. /\ WentOn(t) /\ h.at = "read" /\ Loading(t) /\ Loading(t)'
        /\ h.list \in Lists /\ h = Do("read", "none", h.list)
        /\ thr[t].ch \in Ids /\ thr'[t].wrote = thr[t].wrote /\ thr'[t].spoilt = thr[t].spoilt
        /\ (Looks(t)' <=> Looks(t))
        /\ \A i \in Ids, l \in Lists: obj'[i][l] = IF i = thr[t].ch /\ l = h.list THEN store[l] ELSE obj[i][l]
    BY ReadBase
  <1>2. store' = store /\ cached' = cached BY DEF Read
  <1>3. (\A x \in Threads \ {t}: Same(x)) /\ thr'[t].ch = thr[t].ch BY <1>1 DEF Rest, WentOn
  <1>4. Stays(t) BY <1>1, WentStays
  <1>5. OneWriter' /\ SameEffect' /\ EmptiesFirst' BY <1>2, <1>3, <1>4, StaysOn DEF Together
  <1>6. ASSUME NEW i \in Ids, NEW l \in Lists, Shown(i, l)' PROVE Coheres(i, l)'
    <2>1. CASE i = thr[t].ch /\ l = h.list
      <3>1. obj'[i][l] = store'[l] BY <2>1, <1>1, <1>2
      <3>2. Agree(l, obj'[i][l], store'[l]) BY <3>1, Agreement
      <3>3. ASSUME NEW x \in Admins, Writing(x, l)' PROVE Meets(x, i, l)'
        <4>1. (Exempt(x) \/ Agree(l, ObjectAfter(x, l, store[l]), StoreAfter(x, l)))' BY <3>3, <1>5 DEF SameEffect
        <4>2. (Agree(l, ObjectAfter(x, l, store[l]), StoreAfter(x, l)))' =>
                 (Agree(l, ObjectAfter(x, l, obj[i][l]), StoreAfter(x, l)))'
          BY <3>1
        <4> QED BY <3>2, <4>1, <4>2 DEF Meets
      <3> QED BY <3>2, <3>3 DEF Coheres
    <2>2. CASE ~(i = thr[t].ch /\ l = h.list)
      <3>1. obj'[i][l] = obj[i][l] BY <2>2, <1>1
      <3>2. Shown(i, l)
        <4>1. \/ Shown(i, l)
              \/ Loading(t)' /\ ~thr'[t].spoilt /\ thr'[t].ch = i /\ ~Ahead(thr'[t].todo, Do("read", "none", l))
          BY <1>2, <1>3, <1>6, ShownBefore
        <4>2. ASSUME ~thr'[t].spoilt, thr'[t].ch = i, ~Ahead(thr'[t].todo, Do("read", "none", l)) PROVE Shown(i, l)
          <5>1. l # h.list BY <4>2, <2>2, <1>3
          <5>2. Do("read", "none", l) # h BY <5>1, Fields
          <5>3. ~Ahead(thr[t].todo, Do("read", "none", l)) BY <5>2, <4>2, <1>1 DEF WentOn, Onward
          <5> QED BY <5>3, <4>2, <1>1, <1>3 DEF Shown
        <4> QED BY <4>1, <4>2
      <3>3. Coheres(i, l) BY <3>2 DEF Together, Coherent
      <3> QED BY <3>1, <3>3, <1>1, <1>2, <1>3, <1>4, StaysCoheres
    <2> QED BY <2>1, <2>2
  <1> QED BY <1>5, <1>6 DEF Together, Coherent

LEMMA GetTogether ==
  ASSUME Base, Together, NEW t \in Threads, GetChannel(t) PROVE Together'
  <1>1. /\ Rest(t) /\ Running(t) /\ Running(t)' /\ ~Loading(t) /\ Looks(t)
        /\ thr'[t].req = thr[t].req /\ thr'[t].uids = thr[t].uids /\ thr'[t].wrote = thr[t].wrote
        /\ (thr[t].wrote => \A x \in Threads \ {t}: Loading(x) => thr'[x].spoilt)
        /\ Undisturbed(t) /\ Got(t)
    BY GetBase
  <1>2. store' = store /\ cached' = cached /\ obj' = obj BY DEF GetChannel
  <1>3. \A x \in Threads \ {t}: Same(x) BY <1>1 DEF Rest
  <1>4. Stays(t) BY <1>1 DEF Stays
  <1>5. OneWriter' /\ SameEffect' /\ EmptiesFirst' BY <1>2, <1>3, <1>4, StaysOn DEF Together
  <1>6. ASSUME NEW i \in Ids, NEW l \in Lists, Shown(i, l)' PROVE Coheres(i, l)'
    <2>1. Loading(t)' => Ahead(thr'[t].todo, Do("read", "none", l)) BY <1>1 DEF Got
    <2>2. Shown(i, l) BY <2>1, <1>2, <1>3, <1>6, ShownBefore
    <2>3. Coheres(i, l) BY <2>2 DEF Together, Coherent
    <2>4. CASE ~thr[t].wrote BY <2>3, <2>4, <1>2, <1>3, <1>4, StaysCoheres
    <2>5. CASE thr[t].wrote
      <3>1. i = cached BY <2>1, <2>5, <1>1, <1>2, <1>3, <1>6, SpoiltShown
      <3>2. thr'[t].ch = i BY <3>1, <1>1, IdsAre DEF Got
      <3> QED BY <3>2, <2>3, <1>1, <1>2, <1>3, <1>4, StaysCoheres
    <2> QED BY <2>4, <2>5
  <1> QED BY <1>5, <1>6 DEF Together, Coherent

LEMMA WritersBy ==
  ASSUME NEW t \in Threads, \A x \in Threads \ {t}: Same(x), OneWriter, SameEffect, EmptiesFirst,
         \A l \in Lists: t \in Admins /\ Writing(t, l)' => Writing(t, l),
         \A x \in Admins \ {t}, l \in Lists: Writing(x, l) => store'[l] = store[l],
         \A l \in Lists: t \in Admins /\ Writing(t, l)' =>
             Exempt(t)' \/ (Agree(l, ObjectAfter(t, l, store[l]), StoreAfter(t, l)))',
         t \in Admins /\ (Running(t) /\ Empties(t))' => Ahead(thr'[t].todo, Object("add", "deny"))
  PROVE  OneWriter' /\ SameEffect' /\ EmptiesFirst'
  <1>0. \A x \in Admins: x \in Threads BY DEF Threads
  <1>1. \A x \in Admins, l \in Lists: Writing(x, l)' => Writing(x, l) BY <1>0, OtherMeets
  <1>2. OneWriter' BY <1>1 DEF OneWriter
  <1>3. ASSUME NEW x \in Admins, NEW l \in Lists, Writing(x, l)'
        PROVE  (Exempt(x) \/ Agree(l, ObjectAfter(x, l, store[l]), StoreAfter(x, l)))'
    <2>1. Exempt(x) \/ Agree(l, ObjectAfter(x, l, store[l]), StoreAfter(x, l)) BY <1>1, <1>3 DEF SameEffect
    <2>2. CASE x # t
      <3>1. store'[l] = store[l] /\ Same(x) BY <2>2, <1>0, <1>1, <1>3
      <3> QED BY <3>1, <2>1, OtherMeets
    <2>3. CASE x = t BY <2>3, <1>3
    <2> QED BY <2>2, <2>3
  <1>4. SameEffect' BY <1>3 DEF SameEffect
  <1>5. ASSUME NEW x \in Admins, (Running(x) /\ Empties(x))' PROVE Ahead(thr'[x].todo, Object("add", "deny"))
    <2>1. CASE x # t BY <2>1, <1>0, <1>5, OtherMeets DEF EmptiesFirst, Same
    <2>2. CASE x = t BY <2>2, <1>5
    <2> QED BY <2>1, <2>2
  <1>6. EmptiesFirst' BY <1>5 DEF EmptiesFirst
  <1> QED BY <1>2, <1>4, <1>6

LEMMA CoheresBy ==
  ASSUME NEW t \in Threads, \A x \in Threads \ {t}: Same(x), NEW i, NEW l,
         Coheres(i, l), store'[l] = store[l], obj'[i][l] = obj[i][l],
         t \in Admins /\ Writing(t, l)' => Meets(t, i, l)',
         t \in Admins /\ Writing(t, l) /\ ~Writing(t, l)' => Agree(l, obj[i][l], store[l])
  PROVE  Coheres(i, l)'
  <1>0. \A x \in Admins: x \in Threads BY DEF Threads
  <1>1. ASSUME NEW x \in Admins, Writing(x, l)' PROVE Meets(x, i, l)'
    <2>1. CASE x # t
      <3>1. Meets(x, i, l) BY <2>1, <1>0, <1>1, OtherMeets DEF Coheres
      <3> QED BY <3>1, <2>1, <1>0, OtherMeets
    <2>2. CASE x = t BY <2>2, <1>1
    <2> QED BY <2>1, <2>2
  <1>2. ASSUME \A x \in Admins: ~Writing(x, l)' PROVE Agree(l, obj'[i][l], store'[l])
    <2>1. \A x \in Admins \ {t}: ~Writing(x, l) BY <1>0, <1>2, OtherMeets
    <2> QED BY <2>1, <1>2 DEF Coheres
  <1> QED BY <1>1, <1>2 DEF Coheres

LEMMA EvictTogether ==
  ASSUME Base, Together, NEW t \in Threads, DeleteChannelFromCache(t) PROVE Together'
  <1>1. /\ WentOn(t) /\ ~Loading(t)' /\ cached' = 0
        /\ thr[t].req \in {"channelCreateOrUpdate", "channelDelete"}
        /\ (\A x: ~Ahead(thr'[t].todo, x))
        /\ Keeps(t) /\ thr'[t].wrote = thr[t].wrote
        /\ (thr[t].wrote => \A x \in Threads \ {t}: Loading(x) => thr'[x].spoilt)
    BY EvictBase
  <1>2. store' = store BY DEF DeleteChannelFromCache
  <1>3. /\ \A x \in Threads \ {t}: Same(x)
        /\ Running(t) /\ Running(t)' /\ thr'[t].req = thr[t].req /\ thr'[t].uids = thr[t].uids
    BY <1>1 DEF Rest, WentOn, Onward
  <1>4. \A l: Writing(t, l)' <=> Writing(t, l) BY <1>3 DEF Writing
  <1>5. \A l \in Lists: (Agree(l, ObjectAfter(t, l, store[l]), StoreAfter(t, l)))'
    <2>1. \A l, v: After("object", thr'[t].todo, l, thr'[t].uids, v) = v /\ After("store", thr'[t].todo, l, thr'[t].uids, v) = v
      BY <1>1, AfterNothing
    <2> QED BY <2>1, Agreement DEF ObjectAfter, StoreAfter
  <1>6. ~Empties(t)' BY <1>1, <1>3 DEF Empties
  <1>7. OneWriter' /\ SameEffect' /\ EmptiesFirst' BY <1>2, <1>3, <1>4, <1>5, <1>6, WritersBy DEF Together
  <1>8. ASSUME NEW i \in Ids, NEW l \in Lists, Shown(i, l)' PROVE Coheres(i, l)'
    <2>1. ~thr[t].wrote BY <1>1, <1>3, <1>8, SpoiltShown, IdsAre
    <2>2. Shown(i, l) BY <1>1, <1>3, <1>8, ShownBefore
    <2>3. Coheres(i, l) BY <2>2 DEF Together, Coherent
    <2>4. obj'[i][l] = obj[i][l] BY <1>1, <1>8, KeepsShown
    <2>5. t \in Admins /\ Writing(t, l)' => Meets(t, i, l)'
      <3>1. t \in Admins /\ Writing(t, l)' => Meets(t, i, l) BY <2>3, <1>4 DEF Coheres
      <3> QED BY <3>1, <2>1, <2>4, <1>1, <1>2 DEF Meets
    <2> QED BY <2>3, <2>4, <2>5, <1>2, <1>3, <1>4, CoheresBy
  <1> QED BY <1>7, <1>8 DEF Together, Coherent

LEMMA ExistTogether ==
  ASSUME Base, Together, NEW t \in Threads, Exist(t) PROVE Together'
  <1>1. /\ Rest(t) /\ ~Loading(t)' /\ Running(t) /\ Running(t)' /\ t \in Admins
        /\ thr[t].req = "addSubscriber" /\ thr'[t].req = thr[t].req
        /\ thr'[t].uids = thr[t].uids \ store["subs"] /\ thr'[t].ch = thr[t].ch
        /\ thr'[t].wrote = thr[t].wrote
        /\ \A x: Ahead(thr[t].todo, x) <=> x = Do("exist", "none", "subs") \/ x = Store("add", "subs")
        /\ \A x: Ahead(thr'[t].todo, x) <=> thr'[t].uids # {} /\ x = Store("add", "subs")
    BY ExistBase
  <1>2. store' = store /\ obj' = obj /\ cached' = cached BY DEF Exist
  <1>3. \A x \in Threads \ {t}: Same(x) BY <1>1 DEF Rest
  <1>4. \A l: (Writing(t, l)' <=> Writing(t, l)) /\ (Writing(t, l) => l = "subs") BY <1>1, WritesAre DEF Writing
  <1>5. /\ \A v: After("object", thr'[t].todo, "subs", thr'[t].uids, v) = v
        /\ \A v: After("object", thr[t].todo, "subs", thr[t].uids, v) = v
        /\ After("store", thr[t].todo, "subs", thr[t].uids, store["subs"]) = store["subs"] \cup thr[t].uids
        /\ After("store", thr'[t].todo, "subs", thr'[t].uids, store["subs"]) = store["subs"] \cup thr[t].uids
    <2>1. /\ ~Ahead(thr[t].todo, Do("store", "clear", "subs")) /\ ~Ahead(thr[t].todo, Do("store", "remove", "subs"))
          /\ Ahead(thr[t].todo, Do("store", "add", "subs"))
          /\ \A b: ~Ahead(thr[t].todo, Do("object", b, "subs"))
      BY <1>1, Fields
    <2>2. /\ ~Ahead(thr'[t].todo, Do("store", "clear", "subs")) /\ ~Ahead(thr'[t].todo, Do("store", "remove", "subs"))
          /\ Ahead(thr'[t].todo, Do("store", "add", "subs")) <=> thr'[t].uids # {}
          /\ \A b: ~Ahead(thr'[t].todo, Do("object", b, "subs"))
      BY <1>1, Fields
    <2>3. \A v: After("object", thr[t].todo, "subs", thr[t].uids, v) = v BY <2>1 DEF After
    <2>4. \A v: After("object", thr'[t].todo, "subs", thr'[t].uids, v) = v BY <2>2 DEF After
    <2>5. After("store", thr[t].todo, "subs", thr[t].uids, store["subs"]) = store["subs"] \cup thr[t].uids BY <2>1 DEF After
    <2>6. After("store", thr'[t].todo, "subs", thr'[t].uids, store["subs"]) =
             IF thr'[t].uids # {} THEN store["subs"] \cup thr'[t].uids ELSE store["subs"]
      BY <2>2 DEF After
    <2>7. (IF thr'[t].uids # {} THEN store["subs"] \cup thr'[t].uids ELSE store["subs"]) = store["subs"] \cup thr[t].uids
      BY <1>1
    <2> QED BY <2>3, <2>4, <2>5, <2>6, <2>7
  <1>6. \A l \in Lists: Writing(t, l)' => (Agree(l, ObjectAfter(t, l, store[l]), StoreAfter(t, l)))'
    <2>1. (Agree("subs", ObjectAfter(t, "subs", store["subs"]), StoreAfter(t, "subs")))'
      BY <1>2, <1>5 DEF ObjectAfter, StoreAfter, Agree
    <2> QED BY <2>1, <1>4
  <1>7. ~Empties(t)' /\ ~Empties(t) BY <1>1 DEF Empties
  <1>8. OneWriter' /\ SameEffect' /\ EmptiesFirst' BY <1>2, <1>3, <1>4, <1>6, <1>7, WritersBy DEF Together
  <1>9. Get # Store("add", "subs") /\ Evict # Store("add", "subs") /\ Get # Do("exist", "none", "subs") /\ Evict # Do("exist", "none", "subs")
    BY Fields
  <1>10. ~Exempt(t) /\ ~Exempt(t)' BY <1>1, <1>7, <1>9 DEF Exempt
  <1>11. ~Looks(t) /\ ~Looks(t)'
    <2>1. Looks(t) <=> Ahead(thr[t].todo, Get) \/ Ahead(thr[t].todo, Evict) BY LoadsIs
    <2>2. Base' BY ExistBase
    <2>3. (Looks(t) <=> Ahead(thr[t].todo, Get) \/ Ahead(thr[t].todo, Evict))'
      <3>1. thr'[t].req \in DOMAIN Program BY <1>1, ProgramDomain DEF Handlers
      <3>2. OnWay(thr'[t].req, thr'[t].todo) BY <2>2, <1>1 DEF Base, Placed
      <3> QED BY <3>1, <3>2, LooksLoads DEF Looks
    <2> QED BY <2>1, <2>3, <1>1, <1>9
  <1>12. ASSUME NEW i \in Ids, NEW l \in Lists, Shown(i, l)' PROVE Coheres(i, l)'
    <2>1. Shown(i, l) BY <1>1, <1>2, <1>3, <1>12, ShownBefore
    <2>2. Coheres(i, l) BY <2>1 DEF Together, Coherent
    <2>3. ASSUME Writing(t, l)' PROVE Meets(t, i, l)'
      <3>1. l = "subs" /\ Meets(t, i, "subs") BY <2>2, <2>3, <1>1, <1>4 DEF Coheres
      <3>2. CASE ~thr[t].wrote BY <3>1, <3>2, <1>1, <1>2 DEF Meets
      <3>3. CASE thr[t].wrote
        <4>1. IF thr[t].ch = i THEN Agree("subs", ObjectAfter(t, "subs", obj[i]["subs"]), StoreAfter(t, "subs"))
              ELSE Agree("subs", obj[i]["subs"], store["subs"])
          BY <3>1, <3>3, <1>10, <1>11 DEF Meets
        <4>2. After("object", thr'[t].todo, "subs", thr'[t].uids, obj'[i]["subs"]) = After("object", thr[t].todo, "subs", thr[t].uids, obj[i]["subs"])
          BY <1>2, <1>5
        <4>3. After("store", thr'[t].todo, "subs", thr'[t].uids, store'["subs"]) = After("store", thr[t].todo, "subs", thr[t].uids, store["subs"])
          BY <1>2, <1>5
        <4> QED BY <4>1, <4>2, <4>3, <3>1, <3>3, <1>1, <1>2, <1>10, <1>11 DEF Meets, ObjectAfter, StoreAfter
      <3> QED BY <3>2, <3>3
    <2> QED BY <2>2, <2>3, <1>2, <1>3, <1>4, CoheresBy
  <1> QED BY <1>8, <1>12 DEF Together, Coherent

LEMMA DoneTogether ==
  ASSUME Base, Together, NEW t \in Threads, Done(t) PROVE Together'
  <1>1. /\ Rest(t) /\ Running(t) /\ ~Running(t)' /\ ~Loading(t)' /\ Keeps(t) /\ (\A x: ~Ahead(thr[t].todo, x))
    BY DoneBase
  <1>2. store' = store /\ cached' = cached BY DEF Done
  <1>3. \A x \in Threads \ {t}: Same(x) BY <1>1 DEF Rest
  <1>4. \A l: ~Writing(t, l)' BY <1>1 DEF Writing
  <1>5. OneWriter' /\ SameEffect' /\ EmptiesFirst' BY <1>1, <1>2, <1>3, <1>4, WritersBy DEF Together
  <1>6. ASSUME NEW i \in Ids, NEW l \in Lists, Shown(i, l)' PROVE Coheres(i, l)'
    <2>1. Shown(i, l) BY <1>1, <1>2, <1>3, <1>6, ShownBefore
    <2>2. Coheres(i, l) BY <2>1 DEF Together, Coherent
    <2>3. obj'[i][l] = obj[i][l] BY <1>1, <1>6, KeepsShown
    <2>4. ASSUME t \in Admins, Writing(t, l) PROVE Agree(l, obj[i][l], store[l])
      <3>1. ~Exempt(t) BY <2>4, <1>1 DEF Together, EmptiesFirst, Exempt
      <3>2. Meets(t, i, l) BY <2>2, <2>4 DEF Coheres
      <3>3. ObjectAfter(t, l, obj[i][l]) = obj[i][l] /\ StoreAfter(t, l) = store[l]
        BY <1>1, AfterNothing DEF ObjectAfter, StoreAfter
      <3> QED BY <3>1, <3>2, <3>3 DEF Meets
    <2> QED BY <2>2, <2>3, <2>4, <1>2, <1>3, <1>4, CoheresBy
  <1> QED BY <1>5, <1>6 DEF Together, Coherent

LEMMA AbandonTogether ==
  ASSUME Base, Together, NEW t \in Threads, StoreFails(t) \/ LoadFails(t) \/ NilChannel(t), causes' = {} PROVE Together'
  <1>1. /\ Rest(t) /\ ~Running(t)' /\ ~Loading(t)' /\ Keeps(t)
        /\ cached' = cached /\ ~thr[t].wrote /\ store' = store
    BY AbandonBase
  <1>2. \A x \in Threads \ {t}: Same(x) BY <1>1 DEF Rest
  <1>3. \A l: ~Writing(t, l)' BY <1>1 DEF Writing
  <1>4. OneWriter' /\ SameEffect' /\ EmptiesFirst' BY <1>1, <1>2, <1>3, WritersBy DEF Together
  <1>5. ASSUME NEW i \in Ids, NEW l \in Lists, Shown(i, l)' PROVE Coheres(i, l)'
    <2>1. Shown(i, l) BY <1>1, <1>2, <1>5, ShownBefore
    <2>2. Coheres(i, l) BY <2>1 DEF Together, Coherent
    <2>3. obj'[i][l] = obj[i][l] BY <1>1, <1>5, KeepsShown
    <2>4. ASSUME t \in Admins, Writing(t, l) PROVE Agree(l, obj[i][l], store[l])
      BY <2>2, <2>4, <1>1 DEF Coheres, Meets
    <2> QED BY <2>2, <2>3, <2>4, <1>1, <1>2, <1>3, CoheresBy
  <1> QED BY <1>4, <1>5 DEF Together, Coherent

LEMMA AfterTwice ==
  ASSUME NEW at, NEW s, NEW l, NEW u, NEW v
  PROVE  After(at, s, l, u, After(at, s, l, u, v)) = After(at, s, l, u, v)
  BY DEF After

LEMMA CoheresSole ==
  ASSUME NEW t \in Admins, NEW i, NEW l \in Lists, OneWriter', Writing(t, l)', Meets(t, i, l)'
  PROVE  Coheres(i, l)'
  BY DEF Coheres, OneWriter

LEMMA RequestTogether ==
  ASSUME Base, Together, NEW t \in Admins, NEW r \in Requests, NEW uids \in SUBSET Users, Request(t, r, uids), causes' = {}
  PROVE  Together'
  <1>1. /\ (\A x \in Threads \ {t}: Same(x)) /\ ~Running(t) /\ ~Loading(t)' /\ t \in Threads
        /\ thr'[t].req = r /\ thr'[t].uids = uids /\ thr'[t].todo = Program[r] /\ thr'[t].wrote = FALSE
    BY RequestBase
  <1>2. store' = store /\ cached' = cached /\ obj' = obj BY DEF Request
  <1>3. ~Contends(r) BY DEF Request
  <1>4. ASSUME NEW l \in Writes(r), NEW x \in Admins PROVE ~Writing(x, l)
    BY <1>3 DEF Contends, Writing
  <1>5. \A l: ~Writing(t, l) /\ (Writing(t, l)' => l \in Writes(r)) BY <1>1 DEF Writing
  <1>6. Started(r) BY Starts
  <1>0. \A x \in Admins: x \in Threads BY DEF Threads
  <1>7. OneWriter'
    <2>1. ASSUME NEW x \in Admins, NEW y \in Admins, NEW l \in Lists, Writing(x, l)', Writing(y, l)' PROVE x = y
      <3>1. \A z \in Admins \ {t}: Writing(z, l)' => Writing(z, l) BY <1>0, <1>1, OtherMeets
      <3>2. CASE x = t \/ y = t BY <3>1, <3>2, <2>1, <1>4, <1>5
      <3>3. CASE x # t /\ y # t BY <3>1, <3>3, <2>1 DEF Together, OneWriter
      <3> QED BY <3>2, <3>3
    <2> QED BY <2>1 DEF OneWriter
  <1>8. ASSUME NEW x \in Admins, NEW l \in Lists, Writing(x, l)'
        PROVE  Exempt(x)' \/ (Agree(l, ObjectAfter(x, l, store[l]), StoreAfter(x, l)))'
    <2>1. CASE x # t
      <3>1. Same(x) /\ Writing(x, l) /\ store'[l] = store[l] BY <2>1, <1>0, <1>1, <1>2, <1>8, OtherMeets
      <3>2. Exempt(x) \/ Agree(l, ObjectAfter(x, l, store[l]), StoreAfter(x, l)) BY <3>1 DEF Together, SameEffect
      <3> QED BY <3>1, <3>2, OtherMeets
    <2>2. CASE x = t
      <3>1. l \in Writes(r) BY <2>2, <1>5, <1>8
      <3>2. CASE r = "channelCreateOrUpdate" BY <3>2, <2>2, <1>1, <1>6 DEF Started, Exempt
      <3>3. CASE r = "whitelistSet" /\ uids # {} BY <3>3, <2>2, <1>1 DEF Exempt, Empties
      <3>4. CASE r # "channelCreateOrUpdate" /\ ~(r = "whitelistSet" /\ uids # {})
        <4>1. Agree(l, After("object", Program[r], l, uids, store[l]), After("store", Program[r], l, uids, store[l]))
          BY <3>1, <3>4, <1>6 DEF Started
        <4> QED BY <4>1, <2>2, <1>1, <1>2 DEF ObjectAfter, StoreAfter
      <3> QED BY <3>2, <3>3, <3>4
    <2> QED BY <2>1, <2>2
  <1>9. SameEffect' BY <1>8 DEF SameEffect
  <1>10. EmptiesFirst'
    <2>1. ASSUME NEW x \in Admins, (Running(x) /\ Empties(x))' PROVE Ahead(thr'[x].todo, Object("add", "deny"))
      <3>1. CASE x # t BY <3>1, <2>1, <1>0, <1>1, OtherMeets DEF Together, EmptiesFirst, Same
      <3>2. CASE x = t BY <3>2, <2>1, <1>1, <1>6 DEF Started, Empties
      <3> QED BY <3>1, <3>2
    <2> QED BY <2>1 DEF EmptiesFirst
  <1>11. ASSUME NEW i \in Ids, NEW l \in Lists, Shown(i, l)' PROVE Coheres(i, l)'
    <2>1. Shown(i, l) BY <1>1, <1>2, <1>11, ShownBefore
    <2>2. Coheres(i, l) BY <2>1 DEF Together, Coherent
    <2>3. Writing(t, l)' => Meets(t, i, l)'
      <3> SUFFICES ASSUME Writing(t, l)' PROVE Meets(t, i, l)' OBVIOUS
      <3>1. \A x \in Admins: ~Writing(x, l) BY <1>4, <1>5
      <3>2. Agree(l, obj[i][l], store[l]) BY <3>1, <2>2 DEF Coheres
      <3> QED BY <3>2, <1>1, <1>2 DEF Meets
    <2> QED BY <2>2, <2>3, <1>1, <1>2, <1>5, CoheresBy
  <1> QED BY <1>7, <1>9, <1>10, <1>11 DEF Together, Coherent

\* What is left of the request, after an access to the store or the object.
LEMMA WentWriter ==
  ASSUME NEW t, WentOn(t), Head(thr[t].todo).at \in {"store", "object"}, NEW l
  PROVE  /\ Writing(t, l)' <=> Writing(t, l)
         /\ Empties(t)' <=> Empties(t)
         /\ Exempt(t)' <=> Exempt(t)
         /\ Head(thr[t].todo) # Object("add", "deny") /\ Ahead(thr[t].todo, Object("add", "deny")) =>
               Ahead(thr'[t].todo, Object("add", "deny"))
         /\ \A at: Head(thr[t].todo).at # at \/ Head(thr[t].todo).list # l =>
               \A v: After(at, thr'[t].todo, l, thr'[t].uids, v) = After(at, thr[t].todo, l, thr[t].uids, v)
  <1>1. /\ Running(t) /\ Running(t)' /\ thr'[t].req = thr[t].req /\ thr'[t].uids = thr[t].uids
        /\ thr'[t].todo = Tail(thr[t].todo) /\ thr[t].todo # <<>> /\ OnWay(thr[t].req, thr[t].todo)
        /\ thr[t].req \in DOMAIN Program
        /\ \A x: Ahead(thr'[t].todo, x) <=> Ahead(thr[t].todo, x) /\ x # Head(thr[t].todo)
    BY DEF WentOn, Onward
  <1>2. Evict.at = "evict" BY Fields
  <1>3. Ahead(thr'[t].todo, Evict) <=> Ahead(thr[t].todo, Evict) BY <1>1, <1>2
  <1>4. ASSUME NEW at, Head(thr[t].todo).at # at \/ Head(thr[t].todo).list # l, NEW v
        PROVE  After(at, thr'[t].todo, l, thr'[t].uids, v) = After(at, thr[t].todo, l, thr[t].uids, v)
    <2>1. After(at, Tail(thr[t].todo), l, thr[t].uids, v) = After(at, thr[t].todo, l, thr[t].uids, v)
      BY <1>1, <1>4, Peel
    <2> QED BY <2>1, <1>1
  <1> QED BY <1>1, <1>3, <1>4 DEF Writing, Empties, Exempt

LEMMA ObjectTogether ==
  ASSUME Base, Together, NEW t \in Threads, ObjectStep(t), causes' = {}
  PROVE  Together'
  <1> DEFINE h == Head(thr[t].todo)
             r == thr[t].req
             s == thr[t].todo
  <1>1. /\ WentOn(t) /\ h.at = "object" /\ ~Loading(t)' /\ t \in Admins
        /\ ObjectHead(r, s) /\ thr[t].ch \in Ids
        /\ thr[t].wrote /\ thr'[t].wrote = thr[t].wrote
        /\ ~Looks(t) /\ ~Looks(t)'
        /\ (\A i \in Ids, l \in Lists:
               obj'[i][l] = IF i = thr[t].ch /\ l = h.list THEN Changed(h.verb, obj[i][l], thr[t].uids) ELSE obj[i][l])
        /\ ~(r = "whitelistSet" /\ h.list = "deny" /\ thr[t].uids # {})
    BY ObjectBase
  <1>2. store' = store /\ cached' = cached BY DEF ObjectStep
  <1>3. /\ \A x \in Threads \ {t}: Same(x)
        /\ Running(t) /\ Running(t)' /\ thr'[t].req = r /\ thr'[t].uids = thr[t].uids /\ thr'[t].ch = thr[t].ch
        /\ r \in DOMAIN Program /\ s # <<>> /\ OnWay(r, s) /\ thr'[t].todo = Tail(s)
    BY <1>1 DEF Rest, WentOn, Onward
  <1>4. /\ h.list \in Lists /\ h.verb \in {"add", "clear", "remove"}
        /\ h.list \in Writes(r) \/ (r = "whitelistSet" /\ h = Object("add", "deny"))
        /\ h.verb = "add" => ~Ahead(s, Object("clear", h.list)) /\ ~Ahead(s, Object("remove", h.list))
    BY <1>1 DEF ObjectHead
  <1>5. \A l: /\ Writing(t, l)' <=> Writing(t, l)
              /\ Empties(t)' <=> Empties(t)
              /\ Exempt(t)' <=> Exempt(t)
              /\ h # Object("add", "deny") /\ Ahead(s, Object("add", "deny")) => Ahead(thr'[t].todo, Object("add", "deny"))
              /\ \A v: After("store", thr'[t].todo, l, thr'[t].uids, v) = After("store", s, l, thr[t].uids, v)
              /\ h.list # l => \A v: After("object", thr'[t].todo, l, thr'[t].uids, v) = After("object", s, l, thr[t].uids, v)
    <2> SUFFICES ASSUME NEW l
                 PROVE  /\ Writing(t, l)' <=> Writing(t, l)
                        /\ Empties(t)' <=> Empties(t)
                        /\ Exempt(t)' <=> Exempt(t)
                        /\ h # Object("add", "deny") /\ Ahead(s, Object("add", "deny")) => Ahead(thr'[t].todo, Object("add", "deny"))
                        /\ \A v: After("store", thr'[t].todo, l, thr'[t].uids, v) = After("store", s, l, thr[t].uids, v)
                        /\ h.list # l => \A v: After("object", thr'[t].todo, l, thr'[t].uids, v) = After("object", s, l, thr[t].uids, v)
      OBVIOUS
    <2>1. /\ Writing(t, l)' <=> Writing(t, l)
          /\ Empties(t)' <=> Empties(t)
          /\ Exempt(t)' <=> Exempt(t)
          /\ h # Object("add", "deny") /\ Ahead(s, Object("add", "deny")) => Ahead(thr'[t].todo, Object("add", "deny"))
          /\ \A at: h.at # at \/ h.list # l =>
                \A v: After(at, thr'[t].todo, l, thr'[t].uids, v) = After(at, s, l, thr[t].uids, v)
      <3>1. WentOn(t) /\ Head(thr[t].todo).at \in {"store", "object"} BY <1>1
      <3> QED BY <3>1, WentWriter
    <2>2. \A v: After("store", thr'[t].todo, l, thr'[t].uids, v) = After("store", s, l, thr[t].uids, v)
      <3> HIDE DEF h, s
      <3> QED BY <2>1, <1>1
    <2> QED BY <2>1, <2>2
  <1>6. \A v: After("object", thr'[t].todo, h.list, thr'[t].uids, Changed(h.verb, v, thr[t].uids)) = After("object", s, h.list, thr[t].uids, v)
    <2>1. \A b, l: Object(b, l) = Do("object", b, l) BY Fields
    <2>2. \A v: After("object", Tail(s), h.list, thr[t].uids, Changed(h.verb, v, thr[t].uids)) = After("object", s, h.list, thr[t].uids, v)
      BY <2>1, <1>1, <1>3, <1>4, Peel
    <2> QED BY <2>2, <1>3
  <1>7. Object("add", "deny").list = "deny" /\ Object("add", "deny").verb = "add" BY Fields
  <1>8. ASSUME NEW l \in Lists, Writing(t, l)'
        PROVE  Exempt(t)' \/ (Agree(l, ObjectAfter(t, l, store[l]), StoreAfter(t, l)))'
    <2>0. l \in Writes(r) /\ Writing(t, l) BY <1>5, <1>8 DEF Writing
    <2>1. Exempt(t) \/ Agree(l, ObjectAfter(t, l, store[l]), StoreAfter(t, l)) BY <2>0, <1>1 DEF Together, SameEffect
    <2>2. CASE h.list # l
      <3>1. After("object", thr'[t].todo, l, thr'[t].uids, store'[l]) = After("object", s, l, thr[t].uids, store[l])
        BY <2>2, <1>2, <1>5
      <3>2. After("store", thr'[t].todo, l, thr'[t].uids, store'[l]) = After("store", s, l, thr[t].uids, store[l])
        BY <1>2, <1>5
      <3> QED BY <3>1, <3>2, <2>1, <1>5 DEF ObjectAfter, StoreAfter
    <2>3. CASE h.list = l /\ l = "subs"
      <3>1. \A b: ~Ahead(thr'[t].todo, Do("object", b, "subs"))
        <4>1. \A b: Ahead(s, Object(b, "subs")) => Object(b, "subs") = h BY <2>3, <1>1 DEF ObjectHead
        <4>2. \A b: Object(b, "subs") = Do("object", b, "subs") BY Fields
        <4>3. \A x: Ahead(thr'[t].todo, x) <=> Ahead(s, x) /\ x # h BY <1>1 DEF WentOn, Onward
        <4> QED BY <4>1, <4>2, <4>3
      <3>2. ~Ahead(s, Do("store", "clear", "subs")) /\ ~Ahead(s, Do("store", "remove", "subs"))
        <4>1. \A b: Ahead(s, Store(b, "subs")) => b = "add" BY <2>3, <1>1 DEF ObjectHead
        <4>2. \A b: Store(b, "subs") = Do("store", b, "subs") BY Fields
        <4> QED BY <4>1, <4>2
      <3>3. After("object", thr'[t].todo, "subs", thr'[t].uids, store'["subs"]) = store["subs"] BY <3>1, <1>2 DEF After
      <3>4. store["subs"] \subseteq After("store", s, "subs", thr[t].uids, store["subs"]) BY <3>2 DEF After
      <3>5. After("store", thr'[t].todo, "subs", thr'[t].uids, store'["subs"]) = After("store", s, "subs", thr[t].uids, store["subs"])
        BY <1>2, <1>5
      <3> QED BY <3>3, <3>4, <3>5, <2>3 DEF ObjectAfter, StoreAfter, Agree
    <2>4. CASE h.list = l /\ l # "subs" /\ ~Exempt(t)
      <3>1. \A b: ~Ahead(s, Do("store", b, l))
        <4>1. \A b: ~Ahead(s, Store(b, l)) BY <2>4, <1>1 DEF ObjectHead
        <4>2. \A b: Store(b, l) = Do("store", b, l) BY Fields
        <4> QED BY <4>1, <4>2
      <3>2. After("store", s, l, thr[t].uids, store[l]) = store[l] BY <3>1 DEF After
      <3>3. After("object", s, l, thr[t].uids, store[l]) = store[l] BY <3>2, <2>1, <2>4 DEF ObjectAfter, StoreAfter, Agree
      <3>4. After("object", thr'[t].todo, l, thr'[t].uids, Changed(h.verb, store[l], thr[t].uids)) = store[l] BY <3>3, <2>4, <1>6
      <3>5. After("object", thr'[t].todo, l, thr'[t].uids, store[l]) = store[l] BY <3>4, AfterTwice
      <3>6. After("store", thr'[t].todo, l, thr'[t].uids, store'[l]) = store[l] BY <3>2, <1>2, <1>5
      <3> QED BY <3>5, <3>6, <1>2, Agreement DEF ObjectAfter, StoreAfter
    <2> QED BY <2>2, <2>3, <2>4, <1>5
  <1>9. (Running(t) /\ Empties(t))' => Ahead(thr'[t].todo, Object("add", "deny"))
    <2> SUFFICES ASSUME Empties(t)' PROVE Ahead(thr'[t].todo, Object("add", "deny")) OBVIOUS
    <2>1. Empties(t) BY <1>5
    <2>2. Ahead(s, Object("add", "deny")) BY <2>1, <1>1, <1>3 DEF Together, EmptiesFirst
    <2>3. h # Object("add", "deny") BY <2>1, <1>1, <1>7 DEF Empties
    <2> QED BY <2>2, <2>3, <1>5
  <1>10. OneWriter' /\ SameEffect' /\ EmptiesFirst' BY <1>2, <1>3, <1>5, <1>8, <1>9, WritersBy DEF Together
  <1>11. ASSUME NEW i \in Ids, NEW l \in Lists, Shown(i, l)' PROVE Coheres(i, l)'
    <2>1. Shown(i, l) BY <1>1, <1>2, <1>3, <1>11, ShownBefore
    <2>2. Coheres(i, l) BY <2>1 DEF Together, Coherent
    <2>3. ASSUME Writing(t, l) PROVE Meets(t, i, l)'
      <3>1. Meets(t, i, l) BY <2>2, <2>3, <1>1 DEF Coheres
      <3>2. CASE Exempt(t) BY <3>2, <1>1, <1>5 DEF Meets
      <3>3. CASE ~Exempt(t) /\ thr[t].ch = i
        <4>1. Agree(l, After("object", s, l, thr[t].uids, obj[i][l]), After("store", s, l, thr[t].uids, store[l]))
          BY <3>1, <3>3, <1>1 DEF Meets, ObjectAfter, StoreAfter
        <4>2. After("object", thr'[t].todo, l, thr'[t].uids, obj'[i][l]) = After("object", s, l, thr[t].uids, obj[i][l])
          <5>1. CASE h.list = l BY <5>1, <3>3, <1>1, <1>6
          <5>2. CASE h.list # l BY <5>2, <1>1, <1>5
          <5> QED BY <5>1, <5>2
        <4>3. After("store", thr'[t].todo, l, thr'[t].uids, store'[l]) = After("store", s, l, thr[t].uids, store[l])
          BY <1>2, <1>5
        <4> QED BY <4>1, <4>2, <4>3, <3>3, <1>1, <1>3 DEF Meets, ObjectAfter, StoreAfter
      <3>4. CASE ~Exempt(t) /\ thr[t].ch # i BY <3>1, <3>4, <1>1, <1>2, <1>3 DEF Meets
      <3> QED BY <3>2, <3>3, <3>4
    <2>4. CASE obj'[i][l] = obj[i][l] BY <2>2, <2>3, <2>4, <1>2, <1>3, <1>5, CoheresBy
    <2>5. CASE obj'[i][l] # obj[i][l]
      <3>1. i = thr[t].ch /\ l = h.list BY <2>5, <1>1
      <3>2. l \in Writes(r)
        <4> SUFFICES ASSUME l \notin Writes(r) PROVE FALSE OBVIOUS
        <4>1. r = "whitelistSet" /\ h = Object("add", "deny") BY <3>1, <1>4
        <4>2. thr[t].uids = {} /\ h.verb = "add" BY <4>1, <1>1, <1>7
        <4>3. obj'[i][l] = Changed("add", obj[i][l], {}) BY <3>1, <4>2, <1>1
        <4> QED BY <4>3, <2>5 DEF Changed
      <3>3. Writing(t, l) /\ Writing(t, l)' BY <3>2, <1>3, <1>5 DEF Writing
      <3>4. Meets(t, i, l)' BY <3>3, <2>3
      <3> QED BY <3>3, <3>4, <1>1, <1>10, CoheresSole
    <2> QED BY <2>4, <2>5
  <1> QED BY <1>10, <1>11 DEF Together, Coherent

LEMMA Absorbs ==
  ASSUME NEW at, NEW s, NEW l, NEW u, NEW v, NEW b \in {"add", "clear", "remove"}, Ahead(s, Do(at, b, l))
  PROVE  After(at, s, l, u, Changed(b, v, u)) = After(at, s, l, u, v)
  <1>1. CASE b = "add" BY <1>1 DEF After, Changed
  <1>2. CASE b = "clear" BY <1>2 DEF After, Changed
  <1>3. CASE b = "remove" BY <1>3 DEF After, Changed
  <1> QED BY <1>1, <1>2, <1>3

LEMMA WentLooks ==
  ASSUME Base, NEW t \in Threads, WentOn(t), Head(thr[t].todo).at \notin {"get", "evict"}
  PROVE  Looks(t)' <=> Looks(t)
  <1>1. Looks(t) <=> Ahead(thr[t].todo, Get) \/ Ahead(thr[t].todo, Evict) BY LoadsIs
  <1>2. /\ thr[t].req \in DOMAIN Program /\ OnWay(thr[t].req, Tail(thr[t].todo)) /\ thr'[t].todo = Tail(thr[t].todo)
        /\ \A x: Ahead(thr'[t].todo, x) <=> Ahead(thr[t].todo, x) /\ x # Head(thr[t].todo)
    BY WayOn DEF WentOn, Onward
  <1>3. Looks(t)' <=> Ahead(thr'[t].todo, Get) \/ Ahead(thr'[t].todo, Evict) BY <1>2, LooksLoads DEF Looks
  <1>4. Get.at = "get" /\ Evict.at = "evict" BY Fields
  <1> QED BY <1>1, <1>2, <1>3, <1>4

LEMMA WriterOf ==
  ASSUME NEW r \in Requests, NEW l \in Writes(r), NEW k \in Writes(r) PROVE l = k
  BY WritesAre, ProgramDomain DEF Handlers

LEMMA StoreTogether ==
  ASSUME Base, Together, NEW t \in Threads, StoreStep(t), causes' = {}
  PROVE  Together'
  <1> DEFINE h == Head(thr[t].todo)
             r == thr[t].req
             s == thr[t].todo
             u == thr[t].uids
  <1>1. /\ WentOn(t) /\ t \in Admins /\ ~Loading(t)'
        /\ thr'[t].wrote = (thr[t].wrote \/ h.list \in Lists)
        /\ (Late(t, h) => \A x \in Threads \ {t}: Loading(x) => thr'[x].spoilt)
        /\ StoreHead(r, s) /\ h.at = "store"
    BY StoreBase
  <1>2. ~Misses(h) /\ (Late(t, h) => thr[t].ch = cached) /\ obj' = obj /\ cached' = cached BY DEF StoreStep
  <1>3. \A l \in Lists: store'[l] = IF h.list = l THEN Changed(h.verb, store[l], u) ELSE store[l] BY <1>2, StoreBase
  <1>4. /\ \A x \in Threads \ {t}: Same(x)
        /\ Running(t) /\ Running(t)' /\ thr'[t].req = r /\ thr'[t].uids = u /\ thr'[t].ch = thr[t].ch
        /\ r \in DOMAIN Program /\ s # <<>> /\ OnWay(r, s) /\ thr'[t].todo = Tail(s) /\ r \in Requests
    BY <1>1 DEF Rest, WentOn, Onward, StoreHead, Requests
  <1>5. h.list \in Lists =>
           /\ h.verb \in {"add", "clear", "remove"} /\ h.list \in Writes(r)
           /\ h.verb = "add" => ~Ahead(s, Store("clear", h.list)) /\ ~Ahead(s, Store("remove", h.list))
           /\ Ahead(s, Get) \/ Ahead(s, Evict) \/ h.list = "subs"
           /\ r = "channelCreateOrUpdate" => Ahead(s, Evict)
           /\ \/ h.verb = "add" /\ h.list = "subs" /\ \A b: ~Ahead(s, Object(b, "subs"))
              \/ r = "channelCreateOrUpdate"
              \/ r = "whitelistSet" /\ h.verb = "add"
              \/ Ahead(s, Object(h.verb, h.list))
    BY <1>1 DEF StoreHead
  <1>6. WentOn(t) /\ Head(thr[t].todo).at \in {"store", "object"} BY <1>1
  <1>7. ASSUME NEW l
        PROVE /\ Writing(t, l)' <=> Writing(t, l)
              /\ Empties(t)' <=> Empties(t)
              /\ Exempt(t)' <=> Exempt(t)
              /\ h # Object("add", "deny") /\ Ahead(s, Object("add", "deny")) => Ahead(thr'[t].todo, Object("add", "deny"))
              /\ \A v: After("object", thr'[t].todo, l, thr'[t].uids, v) = After("object", s, l, u, v)
              /\ h.list # l => \A v: After("store", thr'[t].todo, l, thr'[t].uids, v) = After("store", s, l, u, v)
    <2>1. /\ Writing(t, l)' <=> Writing(t, l)
          /\ Empties(t)' <=> Empties(t)
          /\ Exempt(t)' <=> Exempt(t)
          /\ h # Object("add", "deny") /\ Ahead(s, Object("add", "deny")) => Ahead(thr'[t].todo, Object("add", "deny"))
          /\ \A at: h.at # at \/ h.list # l =>
                \A v: After(at, thr'[t].todo, l, thr'[t].uids, v) = After(at, s, l, u, v)
      BY <1>6, WentWriter
    <2> HIDE DEF h, s, u
    <2>2. \A v: After("object", thr'[t].todo, l, thr'[t].uids, v) = After("object", s, l, u, v) BY <2>1, <1>1
    <2> QED BY <2>1, <2>2
  <1>8. ASSUME NEW l \in Lists
        PROVE  After("store", thr'[t].todo, l, thr'[t].uids, store'[l]) = After("store", s, l, u, store[l])
    <2>1. CASE h.list # l BY <2>1, <1>3, <1>7
    <2>2. CASE h.list = l
      <3>1. \A b: Store(b, l) = Do("store", b, l) BY Fields
      <3>2. h.verb = "add" => ~Ahead(s, Do("store", "clear", l)) /\ ~Ahead(s, Do("store", "remove", l))
        BY <3>1, <2>2, <1>5
      <3>3. After("store", Tail(s), l, u, Changed(h.verb, store[l], u)) = After("store", s, l, u, store[l])
        BY <3>2, <2>2, <1>1, <1>4, <1>5, Peel
      <3> QED BY <3>3, <2>2, <1>3, <1>4
    <2> QED BY <2>1, <2>2
  <1>9. Looks(t)' <=> Looks(t) BY <1>1, WentLooks
  <1>10. Looks(t) <=> Ahead(s, Get) \/ Ahead(s, Evict) BY LoadsIs
  <1>11. ASSUME NEW l \in Lists, h.list = l PROVE Writing(t, l) /\ Writing(t, l)' BY <1>4, <1>5, <1>7, <1>11 DEF Writing
  <1>12. ASSUME NEW l \in Lists, Writing(t, l)', ~Exempt(t)
         PROVE  Agree(l, After("object", s, l, u, store'[l]), After("store", s, l, u, store[l]))
    <2>1. Agree(l, After("object", s, l, u, store[l]), After("store", s, l, u, store[l]))
      BY <1>1, <1>7, <1>12 DEF Together, SameEffect, ObjectAfter, StoreAfter
    <2>2. CASE h.list # l BY <2>1, <2>2, <1>3
    <2>3. CASE h.list = l /\ h.verb = "add" /\ l = "subs" /\ \A b: ~Ahead(s, Object(b, "subs"))
      <3>1. \A b: Store(b, "subs") = Do("store", b, "subs") /\ Object(b, "subs") = Do("object", b, "subs") BY Fields
      <3>2. After("object", s, l, u, store'[l]) = store'[l] BY <3>1, <2>3 DEF After
      <3>3. Ahead(s, Do("store", "add", "subs"))
        <4>1. Ahead(s, h) /\ h \in Accesses BY <1>4, WayOn
        <4>2. h = Do(h.at, h.verb, h.list) BY <4>1, Eta
        <4> QED BY <4>1, <4>2, <2>3, <1>1
      <3>4. ~Ahead(s, Do("store", "clear", "subs")) /\ ~Ahead(s, Do("store", "remove", "subs")) BY <3>1, <2>3, <1>5
      <3>5. After("store", s, l, u, store[l]) = store[l] \cup u BY <3>3, <3>4, <2>3 DEF After
      <3>6. store'[l] = store[l] \cup u BY <2>3, <1>3 DEF Changed
      <3> QED BY <3>2, <3>5, <3>6, Agreement
    <2>4. CASE h.list = l /\ Ahead(s, Object(h.verb, l))
      <3>1. Object(h.verb, l) = Do("object", h.verb, l) BY Fields
      <3>2. store'[l] = Changed(h.verb, store[l], u) BY <2>4, <1>3
      <3>3. h.verb \in {"add", "clear", "remove"} BY <2>4, <1>5
      <3>4. After("object", s, l, u, store'[l]) = After("object", s, l, u, store[l])
        BY <3>1, <3>2, <3>3, <2>4, Absorbs
      <3> QED BY <3>4, <2>1
    <2>5. CASE h.list = l /\ r = "whitelistSet" /\ h.verb = "add"
      <3>1. u = {} BY <2>5, <1>12 DEF Exempt, Empties
      <3>2. store'[l] = store[l] BY <3>1, <2>5, <1>3 DEF Changed
      <3> QED BY <3>2, <2>1
    <2>6. CASE h.list = l /\ r = "channelCreateOrUpdate" BY <2>6, <1>5, <1>12 DEF Exempt
    <2> HIDE DEF h, s, u, r
    <2> QED BY <2>2, <2>3, <2>4, <2>5, <2>6, <1>5
  <1>13. ASSUME NEW l \in Lists, Writing(t, l)'
         PROVE  Exempt(t)' \/ (Agree(l, ObjectAfter(t, l, store[l]), StoreAfter(t, l)))'
    BY <1>7, <1>8, <1>12, <1>13 DEF ObjectAfter, StoreAfter
  <1>14. ASSUME NEW x \in Admins \ {t}, NEW l \in Lists, Writing(x, l) PROVE store'[l] = store[l]
    <2>1. h.list # l BY <1>1, <1>11, <1>14 DEF Together, OneWriter
    <2> QED BY <2>1, <1>3
  <1>15. (Running(t) /\ Empties(t))' => Ahead(thr'[t].todo, Object("add", "deny"))
    <2> SUFFICES ASSUME Empties(t)' PROVE Ahead(thr'[t].todo, Object("add", "deny")) OBVIOUS
    <2>1. Ahead(s, Object("add", "deny")) BY <1>1, <1>4, <1>7 DEF Together, EmptiesFirst
    <2>2. Object("add", "deny").at = "object" BY Fields
    <2> QED BY <2>1, <2>2, <1>1, <1>7
  <1>16. OneWriter' /\ SameEffect' /\ EmptiesFirst' BY <1>4, <1>7, <1>13, <1>14, <1>15, WritersBy DEF Together
  <1>17. ASSUME NEW i \in Ids, NEW l \in Lists, Shown(i, l)' PROVE Coheres(i, l)'
    <2>1. Shown(i, l) BY <1>1, <1>2, <1>4, <1>17, ShownBefore
    <2>2. Coheres(i, l) BY <2>1 DEF Together, Coherent
    <2>3. CASE h.list # l
      <3>1. ASSUME Writing(t, l) PROVE Meets(t, i, l)'
        <4>1. h.list \notin Lists BY <3>1, <2>3, <1>4, <1>5, WriterOf DEF Writing
        <4>2. Meets(t, i, l) BY <3>1, <2>2, <1>1 DEF Coheres
        <4>3. thr'[t].wrote = thr[t].wrote
          <5>1. thr[t].wrote \in BOOLEAN BY DEF Base, Types, Goroutines
          <5> QED BY <5>1, <4>1, <1>1
        <4>4. After("object", thr'[t].todo, l, thr'[t].uids, obj'[i][l]) = After("object", s, l, u, obj[i][l]) BY <1>2, <1>7
        <4>5. store'[l] = store[l] BY <2>3, <1>3
        <4> QED BY <4>2, <4>3, <4>4, <4>5, <1>2, <1>4, <1>7, <1>8, <1>9 DEF Meets, ObjectAfter, StoreAfter
      <3>2. store'[l] = store[l] /\ obj'[i][l] = obj[i][l] BY <2>3, <1>2, <1>3
      <3> QED BY <3>1, <3>2, <2>2, <1>4, <1>7, CoheresBy
    <2>4. CASE h.list = l
      <3>1. Writing(t, l) /\ Writing(t, l)' BY <2>4, <1>11
      <3>2. Meets(t, i, l) BY <3>1, <2>2, <1>1 DEF Coheres
      <3>3. thr'[t].wrote = TRUE BY <2>4, <1>1
      <3>8. /\ Exempt(t)' <=> Exempt(t)
            /\ Looks(t)' <=> Looks(t)
            /\ thr'[t].ch = thr[t].ch
        BY <1>4, <1>7, <1>9
      <3>9. /\ Exempt(t)' => Meets(t, i, l)'
            /\ (Looks(t) \/ thr[t].ch = i)' /\ (Agree(l, ObjectAfter(t, l, obj[i][l]), StoreAfter(t, l)))' => Meets(t, i, l)'
            /\ ~(Looks(t) \/ thr[t].ch = i)' /\ (Agree(l, obj[i][l], store[l]))' => Meets(t, i, l)'
        BY <3>3 DEF Meets
      <3>4. ASSUME Exempt(t) PROVE Meets(t, i, l)' BY <3>4, <3>8, <3>9
      <3>5. ASSUME ~Exempt(t) /\ (Looks(t) \/ thr[t].ch = i) PROVE Meets(t, i, l)'
        <4>1. Agree(l, After("object", s, l, u, obj[i][l]), After("store", s, l, u, store[l]))
          <5>1. CASE thr[t].wrote BY <5>1, <3>2, <3>5 DEF Meets, ObjectAfter, StoreAfter
          <5>2. CASE ~thr[t].wrote
            <6>1. Agree(l, obj[i][l], store[l]) BY <5>2, <3>2 DEF Meets
            <6>2. Agree(l, After("object", s, l, u, obj[i][l]), After("object", s, l, u, store[l])) BY <6>1, Agreement
            <6>3. Agree(l, After("object", s, l, u, store[l]), After("store", s, l, u, store[l]))
              BY <3>1, <3>5, <1>1 DEF Together, SameEffect, ObjectAfter, StoreAfter
            <6> QED BY <6>2, <6>3, Agreement
          <5> QED BY <5>1, <5>2
        <4>2. After("object", thr'[t].todo, l, thr'[t].uids, obj'[i][l]) = After("object", s, l, u, obj[i][l]) BY <1>2, <1>7
        <4>3. (Agree(l, ObjectAfter(t, l, obj[i][l]), StoreAfter(t, l)))' BY <4>1, <4>2, <1>8 DEF ObjectAfter, StoreAfter
        <4> QED BY <4>3, <3>5, <3>8, <3>9
      <3>6. ASSUME ~Exempt(t) /\ ~Looks(t) /\ thr[t].ch # i PROVE Meets(t, i, l)'
        <4>1. Agree(l, obj[i][l], store[l]) BY <3>2, <3>6 DEF Meets
        <4>2. h.verb = "add"
          <5> SUFFICES ASSUME h.verb # "add" PROVE FALSE OBVIOUS
          <5>1. Late(t, h) BY <3>6, <2>4 DEF Late
          <5>2. i = cached' BY <5>1, <1>1, <1>4, <1>17, SpoiltShown
          <5> QED BY <5>1, <5>2, <3>6, <1>2
        <4>3. l = "subs" BY <3>6, <2>4, <1>5, <1>10
        <4>4. store'[l] = store[l] \cup u BY <4>2, <2>4, <1>3 DEF Changed
        <4>5. Agree(l, obj'[i][l], store'[l]) BY <4>1, <4>3, <4>4, <1>2 DEF Agree
        <4> QED BY <4>5, <3>6, <3>8, <3>9
      <3>7. Meets(t, i, l)' BY <3>4, <3>5, <3>6
      <3> QED BY <3>1, <3>7, <1>1, <1>16, CoheresSole
    <2> QED BY <2>3, <2>4
  <1> QED BY <1>16, <1>17 DEF Together, Coherent

-----------------------------------------------------------------------------
(* Who was revoked *)

Lesser(b, c) == b.deny \subseteq c.deny /\ b.subs \subseteq c.subs

\* A change of the list l that lets in none of those whom b names.
Mild(verb, l, u, b) ==
    /\ l = "deny" /\ verb # "add" => b.deny = {}
    /\ l = "allow" /\ verb = "add" => b.deny \cap u = {}
    /\ l = "subs" /\ verb = "add" => b.subs \cap u = {}

LEMMA DenyingLess ==
  ASSUME NEW l \in Lists, NEW v, NEW b, NEW c, Lesser(b, c)
  PROVE  /\ Denies(l, v, c) => Denies(l, v, b)
         /\ \A verb, u: Mild(verb, l, u, c) => Mild(verb, l, u, b)
  <1>1. Denies(l, v, c) => Denies(l, v, b)
    <2>1. CASE l = "deny" BY <2>1 DEF Denies, Lesser
    <2>2. CASE l = "allow" BY <2>2 DEF Denies, Lesser
    <2>3. CASE l = "subs" BY <2>3 DEF Denies, Lesser
    <2> QED BY <2>1, <2>2, <2>3 DEF Lists
  <1>2. \A verb, u: Mild(verb, l, u, c) => Mild(verb, l, u, b) BY DEF Mild, Lesser
  <1> QED BY <1>1, <1>2

LEMMA MildDenies ==
  ASSUME NEW l \in Lists, NEW v, NEW b, NEW u, NEW verb \in {"add", "clear", "remove"},
         Mild(verb, l, u, b), Denies(l, v, b)
  PROVE  Denies(l, Changed(verb, v, u), b)
  <1>1. Changed("add", v, u) = v \cup u /\ Changed("clear", v, u) = {} /\ Changed("remove", v, u) = v \ u BY DEF Changed
  <1>2. CASE l = "deny" BY <1>1, <1>2 DEF Denies, Mild
  <1>3. CASE l = "allow" BY <1>1, <1>3 DEF Denies, Mild
  <1>4. CASE l = "subs" BY <1>1, <1>4 DEF Denies, Mild
  <1> QED BY <1>2, <1>3, <1>4 DEF Lists

LEMMA AgreeDenies ==
  ASSUME NEW l \in Lists, NEW v, NEW w, NEW b, Agree(l, v, w), Denies(l, w, b) PROVE Denies(l, v, b)
  <1>1. CASE l = "deny" BY <1>1 DEF Denies, Agree
  <1>2. CASE l = "allow" BY <1>2 DEF Denies, Agree
  <1>3. CASE l = "subs" BY <1>3 DEF Denies, Agree
  <1> QED BY <1>1, <1>2, <1>3 DEF Lists

Barring(x) == \A l \in Lists: thr[x].ch # 0 /\ ~Loading(x) => Denies(l, obj[thr[x].ch][l], thr[x].barred)

Held(x) ==
    /\ thr[x].got \cap thr[x].barred.subs = {}
    /\ At(x, "deliver") => thr[x].uids \cap (thr[x].barred.deny \cup thr[x].barred.subs) = {}

LEMMA RevokesAre ==
  ASSUME Revokes, causes = {}
  PROVE  /\ StoreBars /\ CacheBars
         /\ \A x \in Senders: Barring(x) /\ Lesser(thr[x].barred, revoked) /\ Held(x)
         /\ \A x \in Admins: Cleared(x) /\ Effective(x)
  BY DEF Revokes, SendBars, BarredRevoked, Requested, RevocationHolds, Barring, Lesser, Held

\* What a step of t keeps for the others, and what it has to show for itself.
LEMMA RevokesBy ==
  ASSUME Revokes, causes = {}, NEW t \in Threads,
         \A x \in Threads \ {t}: Same(x) /\ Lesser(thr'[x].barred, thr[x].barred),
         \A x \in Senders \ {t}: Lesser(thr'[x].barred, revoked'),
         StoreBars', CacheBars',
         \A x \in Senders \ {t}, l \in Lists:
             thr[x].ch # 0 /\ ~Loading(x) => Denies(l, obj'[thr[x].ch][l], thr[x].barred),
         \A x \in Admins \ {t}: Cleared(x)' /\ Effective(x)',
         t \in Admins => Cleared(t)' /\ Effective(t)',
         t \in Senders => Barring(t)' /\ Lesser(thr'[t].barred, revoked') /\ Held(t)'
  PROVE  Revokes'
  <1>0. \A x \in Senders: x \in Threads BY DEF Threads
  <1>1. ASSUME NEW x \in Senders \ {t} PROVE Barring(x)' /\ Held(x)'
    <2>1. Same(x) /\ Lesser(thr'[x].barred, thr[x].barred) BY <1>0
    <2>2. /\ thr'[x].ch = thr[x].ch /\ thr'[x].got = thr[x].got /\ thr'[x].uids = thr[x].uids /\ thr'[x].todo = thr[x].todo
          /\ (Loading(x)' <=> Loading(x)) /\ (At(x, "deliver")' <=> At(x, "deliver"))
      BY <2>1 DEF Same, Loading, At
    <2>3. ASSUME NEW l \in Lists, thr'[x].ch # 0, ~Loading(x)' PROVE Denies(l, obj'[thr'[x].ch][l], thr'[x].barred)
      <3>1. Denies(l, obj'[thr[x].ch][l], thr[x].barred) BY <2>2, <2>3
      <3> QED BY <3>1, <2>1, <2>2, DenyingLess
    <2>4. Held(x) BY RevokesAre
    <2> QED BY <2>1, <2>2, <2>3, <2>4 DEF Barring, Held, Lesser
  <1>2. \A x \in Senders: Barring(x)' /\ Lesser(thr'[x].barred, revoked') /\ Held(x)' BY <1>1
  <1>3. \A x \in Admins: Cleared(x)' /\ Effective(x)' OBVIOUS
  <1> QED BY <1>2, <1>3 DEF Revokes, SendBars, BarredRevoked, Requested, RevocationHolds, Barring, Lesser, Held

LEMMA OtherCleared ==
  ASSUME NEW x, Same(x)
  PROVE  /\ revoked' = revoked /\ Cleared(x) => Cleared(x)'
         /\ store' = store /\ Effective(x) => Effective(x)'
  BY DEF Same, Cleared, Effective

\* The store and the revoked are as they were, and so are the objects of the sends.
LEMMA QuietRevokes ==
  ASSUME Base, Revokes, causes = {}, NEW t \in Threads, Rest(t), store' = store, revoked' = revoked,
         \A x \in Senders \ {t}: thr[x].ch # 0 /\ ~Loading(x) => obj'[thr[x].ch] = obj[thr[x].ch],
         CacheBars',
         t \in Admins => Cleared(t)' /\ Effective(t)',
         t \in Senders => Barring(t)' /\ Lesser(thr'[t].barred, revoked) /\ Held(t)'
  PROVE  Revokes'
  <1>0. \A x \in Senders \cup Admins: x \in Threads BY DEF Threads
  <1>1. \A x \in Threads \ {t}: Same(x) /\ Lesser(thr'[x].barred, thr[x].barred) BY DEF Rest, Lesser
  <1>2. StoreBars' BY DEF Revokes, StoreBars
  <1>3. \A x \in Senders \ {t}: Lesser(thr'[x].barred, revoked') BY <1>0, RevokesAre DEF Rest
  <1>4. \A x \in Admins \ {t}: Cleared(x)' /\ Effective(x)' BY <1>0, <1>1, OtherCleared, RevokesAre
  <1>5. ASSUME NEW x \in Senders \ {t}, NEW l \in Lists, thr[x].ch # 0, ~Loading(x)
        PROVE  Denies(l, obj'[thr[x].ch][l], thr[x].barred)
    BY <1>5, RevokesAre DEF Barring
  <1> QED BY <1>1, <1>2, <1>3, <1>4, <1>5, RevokesBy

\* A step that shows nothing new.
LEMMA NothingShown ==
  ASSUME CacheBars, revoked' = revoked,
         \A i \in Ids, l \in Lists: Shown(i, l)' => Shown(i, l) /\ obj'[i][l] = obj[i][l]
  PROVE  CacheBars'
  BY DEF CacheBars

\* A send is not about to deliver unless it was permitted.
LEMMA NotYetDelivers ==
  ASSUME Base, NEW t \in Senders, WentOn(t), Head(thr[t].todo).at \notin {"permit", "deliver"}
  PROVE  ~At(t, "deliver")'
  <1>1. t \in Threads BY DEF Threads
  <1>2. thr[t].req = "send" BY <1>1, LoadsIs DEF Placed, WentOn
  <1>3. OnWay("send", thr[t].todo) /\ OnWay("send", Tail(thr[t].todo)) /\ thr[t].todo # <<>> BY <1>2, WayOn DEF WentOn
  <1>4. Ahead(thr[t].todo, Do("permit", "none", "none")) BY <1>3, SendAhead
  <1>5. Ahead(thr'[t].todo, Do("permit", "none", "none")) /\ thr'[t].todo = Tail(thr[t].todo)
    BY <1>4, Fields DEF WentOn, Onward
  <1>6. ASSUME At(t, "deliver")' PROVE FALSE
    <2>1. thr'[t].todo # <<>> /\ Head(thr'[t].todo).at = "deliver" BY <1>6 DEF At
    <2> QED BY <2>1, <1>3, <1>5, SendAhead
  <1> QED BY <1>6

LEMMA StaysCleared ==
  ASSUME NEW t, Stays(t)
  PROVE  /\ revoked' = revoked /\ Cleared(t) => Cleared(t)'
         /\ store' = store /\ Effective(t) => Effective(t)'
  <1>1. Store("add", "deny").at = "store" /\ Store("remove", "subs").at = "store" BY Fields
  <1>2. /\ Ahead(thr'[t].todo, Store("add", "deny")) <=> Ahead(thr[t].todo, Store("add", "deny"))
        /\ Ahead(thr'[t].todo, Store("remove", "subs")) <=> Ahead(thr[t].todo, Store("remove", "subs"))
    BY <1>1 DEF Stays, Undisturbed
  <1> QED BY <1>2 DEF Stays, Cleared, Effective

LEMMA SendRevokes ==
  ASSUME Base, Revokes, causes = {}, NEW t \in Senders, NEW u \in Users, Send(t, u) PROVE Revokes'
  <1>1. /\ Rest(t) /\ t \notin Admins /\ ~Loading(t)' /\ t \in Threads
        /\ thr'[t].ch = 0 /\ thr'[t].got = {} /\ thr'[t].barred = revoked /\ ~At(t, "deliver")'
    BY SendBase
  <1>2. store' = store /\ obj' = obj /\ cached' = cached /\ revoked' = revoked BY DEF Send
  <1>3. \A x \in Threads \ {t}: Same(x) BY <1>1 DEF Rest
  <1>4. \A i \in Ids, l \in Lists: Shown(i, l)' => Shown(i, l) /\ obj'[i][l] = obj[i][l]
    BY <1>1, <1>2, <1>3, ShownBefore
  <1>5. CacheBars' BY <1>2, <1>4, NothingShown, RevokesAre
  <1>6. Barring(t)' /\ Lesser(thr'[t].barred, revoked) /\ Held(t)' BY <1>1 DEF Barring, Lesser, Held
  <1> QED BY <1>1, <1>2, <1>5, <1>6, QuietRevokes

LEMMA PermitRevokes ==
  ASSUME Base, Revokes, causes = {}, NEW t \in Threads, Permit(t) PROVE Revokes'
  <1>1. /\ Rest(t) /\ t \in Senders /\ t \notin Admins /\ ~Loading(t) /\ ~Loading(t)'
        /\ thr'[t].uids = thr[t].uids /\ thr'[t].ch = thr[t].ch /\ thr'[t].got = thr[t].got
        /\ thr'[t].barred = thr[t].barred
        /\ At(t, "deliver")' => /\ thr[t].ch # 0
                                /\ \A u \in thr[t].uids: Allow(obj[thr[t].ch], u) /\ u \in obj[thr[t].ch]["subs"]
    BY PermitBase
  <1>2. store' = store /\ obj' = obj /\ cached' = cached /\ revoked' = revoked BY DEF Permit
  <1>3. \A x \in Threads \ {t}: Same(x) BY <1>1 DEF Rest
  <1>4. \A i \in Ids, l \in Lists: Shown(i, l)' => Shown(i, l) /\ obj'[i][l] = obj[i][l]
    BY <1>1, <1>2, <1>3, ShownBefore
  <1>5. CacheBars' BY <1>2, <1>4, NothingShown, RevokesAre
  <1>6. Barring(t) /\ Lesser(thr[t].barred, revoked) /\ Held(t) BY <1>1, RevokesAre
  <1>7. Barring(t)' BY <1>1, <1>2, <1>6 DEF Barring
  <1>8. ASSUME At(t, "deliver")' PROVE thr[t].uids \cap (thr[t].barred.deny \cup thr[t].barred.subs) = {}
    <2>1. "deny" \in Lists /\ "allow" \in Lists /\ "subs" \in Lists BY DEF Lists
    <2>2. /\ Denies("deny", obj[thr[t].ch]["deny"], thr[t].barred)
          /\ Denies("allow", obj[thr[t].ch]["allow"], thr[t].barred)
          /\ Denies("subs", obj[thr[t].ch]["subs"], thr[t].barred)
      BY <2>1, <1>1, <1>6, <1>8 DEF Barring
    <2>3. /\ thr[t].barred.deny \subseteq obj[thr[t].ch]["deny"]
          /\ thr[t].barred.deny \cap obj[thr[t].ch]["allow"] = {}
          /\ thr[t].barred.subs \cap obj[thr[t].ch]["subs"] = {}
      BY <2>2 DEF Denies
    <2>4. \A u \in thr[t].uids: Allow(obj[thr[t].ch], u) /\ u \in obj[thr[t].ch]["subs"] BY <1>1, <1>8
    <2> QED BY <2>3, <2>4 DEF Allow
  <1>9. Held(t)' BY <1>1, <1>6, <1>8 DEF Held
  <1> QED BY <1>1, <1>2, <1>5, <1>6, <1>7, <1>9, QuietRevokes

LEMMA DeliverRevokes ==
  ASSUME Base, Revokes, causes = {}, NEW t \in Threads, Deliver(t) PROVE Revokes'
  <1>1. /\ WentOn(t) /\ t \in Senders /\ t \notin Admins /\ ~Loading(t) /\ ~Loading(t)'
        /\ thr[t].ch \in Ids /\ thr'[t].got = obj[thr[t].ch]["subs"] /\ ~At(t, "deliver")'
    BY DeliverBase
  <1>2. store' = store /\ obj' = obj /\ cached' = cached /\ revoked' = revoked BY DEF Deliver
  <1>3. (\A x \in Threads \ {t}: Same(x)) /\ Rest(t) /\ thr'[t].ch = thr[t].ch /\ thr'[t].barred = thr[t].barred
    BY <1>1 DEF Rest, WentOn
  <1>4. \A i \in Ids, l \in Lists: Shown(i, l)' => Shown(i, l) /\ obj'[i][l] = obj[i][l]
    BY <1>1, <1>2, <1>3, ShownBefore
  <1>5. CacheBars' BY <1>2, <1>4, NothingShown, RevokesAre
  <1>6. Barring(t) /\ Lesser(thr[t].barred, revoked) BY <1>1, RevokesAre
  <1>7. Barring(t)' BY <1>1, <1>2, <1>3, <1>6 DEF Barring
  <1>8. Denies("subs", obj[thr[t].ch]["subs"], thr[t].barred) BY <1>1, <1>6, IdsAre DEF Barring, Lists
  <1>9. Held(t)' BY <1>1, <1>3, <1>8 DEF Held, Denies
  <1> QED BY <1>1, <1>2, <1>3, <1>5, <1>6, <1>7, <1>9, QuietRevokes

LEMMA HasRevokes ==
  ASSUME Base, Revokes, causes = {}, NEW t \in Threads, HasChannel(t) PROVE Revokes'
  <1>1. /\ WentOn(t) /\ ~Loading(t) /\ ~Loading(t)' /\ Head(thr[t].todo).at = "notnil"
        /\ thr'[t].wrote = thr[t].wrote /\ thr'[t].got = thr[t].got
    BY HasBase
  <1>2. store' = store /\ obj' = obj /\ cached' = cached /\ revoked' = revoked BY DEF HasChannel
  <1>3. (\A x \in Threads \ {t}: Same(x)) /\ Rest(t) /\ thr'[t].ch = thr[t].ch /\ thr'[t].barred = thr[t].barred
    BY <1>1 DEF Rest, WentOn
  <1>4. \A i \in Ids, l \in Lists: Shown(i, l)' => Shown(i, l) /\ obj'[i][l] = obj[i][l]
    BY <1>1, <1>2, <1>3, ShownBefore
  <1>5. CacheBars' BY <1>2, <1>4, NothingShown, RevokesAre
  <1>6. Stays(t) BY <1>1, WentStays
  <1>7. t \in Admins => Cleared(t)' /\ Effective(t)' BY <1>2, <1>6, StaysCleared, RevokesAre
  <1>8. ASSUME t \in Senders PROVE Barring(t)' /\ Lesser(thr'[t].barred, revoked) /\ Held(t)'
    <2>1. Barring(t) /\ Lesser(thr[t].barred, revoked) /\ Held(t) BY <1>8, RevokesAre
    <2>2. ~At(t, "deliver")' BY <1>1, <1>8, NotYetDelivers
    <2> QED BY <2>1, <2>2, <1>1, <1>2, <1>3 DEF Barring, Held
  <1> QED BY <1>2, <1>3, <1>5, <1>7, <1>8, QuietRevokes

LEMMA PublishRevokes ==
  ASSUME Base, Revokes, causes = {}, NEW t \in Threads, Publish(t), causes' = {} PROVE Revokes'
  <1>1. /\ WentOn(t) /\ Head(thr[t].todo).at = "publish" /\ Loading(t) /\ ~Loading(t)'
        /\ thr[t].ch \in Ids /\ Keeps(t) /\ thr'[t].wrote = thr[t].wrote /\ thr'[t].got = thr[t].got
        /\ (\A l \in Lists: ~Ahead(thr[t].todo, Do("read", "none", l)))
        /\ ~thr[t].spoilt
    BY PublishBase
  <1>2. store' = store /\ cached' = thr[t].ch /\ revoked' = revoked BY DEF Publish
  <1>3. (\A x \in Threads \ {t}: Same(x)) /\ Rest(t) /\ thr'[t].ch = thr[t].ch /\ thr'[t].barred = thr[t].barred
    BY <1>1 DEF Rest, WentOn
  <1>4. ASSUME NEW i \in Ids, NEW l \in Lists, Shown(i, l)' PROVE Shown(i, l) /\ obj'[i][l] = obj[i][l]
    <2>1. obj'[i] = obj[i] BY <1>1, <1>4, KeepsShown
    <2>2. CASE i = thr[t].ch BY <2>1, <2>2, <1>1 DEF Shown
    <2>3. ASSUME NEW x \in Threads, Loading(x)', ~thr'[x].spoilt, thr'[x].ch = i, ~Ahead(thr'[x].todo, Do("read", "none", l))
          PROVE  Shown(i, l)
      <3>1. x # t BY <2>3, <1>1
      <3>2. Same(x) /\ Loading(x) BY <3>1, <2>3, <1>3, OtherMeets
      <3> QED BY <3>2, <2>3 DEF Same, Shown
    <2> QED BY <2>1, <2>2, <2>3, <1>2, <1>4 DEF Shown
  <1>5. CacheBars' BY <1>2, <1>4, NothingShown, RevokesAre
  <1>6. Stays(t) BY <1>1, WentStays
  <1>7. t \in Admins => Cleared(t)' /\ Effective(t)' BY <1>2, <1>6, StaysCleared, RevokesAre
  <1>8. ASSUME t \in Senders PROVE Barring(t)' /\ Lesser(thr'[t].barred, revoked) /\ Held(t)'
    <2>1. CacheBars /\ Lesser(thr[t].barred, revoked) /\ Held(t) BY <1>8, RevokesAre
    <2>2. ~At(t, "deliver")' BY <1>1, <1>8, NotYetDelivers
    <2>3. ASSUME NEW l \in Lists PROVE Denies(l, obj'[thr'[t].ch][l], thr'[t].barred)
      <3>1. Shown(thr[t].ch, l) BY <1>1 DEF Shown
      <3>2. Denies(l, obj[thr[t].ch][l], revoked) BY <3>1, <2>1, <1>1 DEF CacheBars
      <3>3. Denies(l, obj[thr[t].ch][l], thr[t].barred) BY <3>2, <2>1, DenyingLess
      <3>4. obj'[thr[t].ch] = obj[thr[t].ch] BY <1>1, <1>2 DEF Keeps
      <3> QED BY <3>3, <3>4, <1>3
    <2> QED BY <2>1, <2>2, <2>3, <1>1, <1>3 DEF Barring, Held
  <1>9. ASSUME NEW x \in Senders \ {t}, thr[x].ch # 0 PROVE obj'[thr[x].ch] = obj[thr[x].ch]
    <2>1. x \in Threads /\ thr'[x].ch = thr[x].ch BY <1>3 DEF Threads, Same
    <2>2. thr[x].ch \in Ids BY <2>1, <1>9 DEF Base, Types, Goroutines
    <2> QED BY <2>1, <2>2, <1>1 DEF Keeps
  <1> QED BY <1>2, <1>3, <1>5, <1>7, <1>8, <1>9, QuietRevokes

LEMMA ReadRevokes ==
  ASSUME Base, Revokes, causes = {}, NEW t \in Threads, Read(t) PROVE Revokes'
  <1> DEFINE h == Head(thr[t].todo)
  <1>1. /\ WentOn(t) /\ h.at = "read" /\ Loading(t) /\ Loading(t)'
        /\ h.list \in Lists /\ h = Do("read", "none", h.list)
        /\ thr[t].ch \in Ids /\ thr'[t].wrote = thr[t].wrote /\ thr'[t].spoilt = thr[t].spoilt
        /\ thr'[t].got = thr[t].got
        /\ \A i \in Ids, l \in Lists: obj'[i][l] = IF i = thr[t].ch /\ l = h.list THEN store[l] ELSE obj[i][l]
    BY ReadBase
  <1>2. store' = store /\ cached' = cached /\ revoked' = revoked BY DEF Read
  <1>3. (\A x \in Threads \ {t}: Same(x)) /\ Rest(t) /\ thr'[t].ch = thr[t].ch /\ thr'[t].barred = thr[t].barred
    BY <1>1 DEF Rest, WentOn
  <1>4. Stays(t) BY <1>1, WentStays
  <1>5. ASSUME NEW i \in Ids, NEW l \in Lists, Shown(i, l)' PROVE Denies(l, obj'[i][l], revoked)
    <2>1. CASE i = thr[t].ch /\ l = h.list
      <3>1. obj'[i][l] = store[l] BY <2>1, <1>1
      <3> QED BY <3>1, RevokesAre DEF StoreBars
    <2>2. CASE ~(i = thr[t].ch /\ l = h.list)
      <3>1. obj'[i][l] = obj[i][l] BY <2>2, <1>1
      <3>2. Shown(i, l)
        <4>1. \/ Shown(i, l)
              \/ Loading(t)' /\ ~thr'[t].spoilt /\ thr'[t].ch = i /\ ~Ahead(thr'[t].todo, Do("read", "none", l))
          BY <1>2, <1>3, <1>5, ShownBefore
        <4>2. ASSUME ~thr'[t].spoilt, thr'[t].ch = i, ~Ahead(thr'[t].todo, Do("read", "none", l)) PROVE Shown(i, l)
          <5>1. l # h.list BY <4>2, <2>2, <1>3
          <5>2. Do("read", "none", l) # h BY <5>1, Fields
          <5>3. ~Ahead(thr[t].todo, Do("read", "none", l)) BY <5>2, <4>2, <1>1 DEF WentOn, Onward
          <5> QED BY <5>3, <4>2, <1>1, <1>3 DEF Shown
        <4> QED BY <4>1, <4>2
      <3> QED BY <3>1, <3>2, RevokesAre DEF CacheBars
    <2> QED BY <2>1, <2>2
  <1>6. CacheBars' BY <1>2, <1>5 DEF CacheBars
  <1>7. t \in Admins => Cleared(t)' /\ Effective(t)' BY <1>2, <1>4, StaysCleared, RevokesAre
  <1>8. ASSUME t \in Senders PROVE Barring(t)' /\ Lesser(thr'[t].barred, revoked) /\ Held(t)'
    <2>1. Lesser(thr[t].barred, revoked) /\ Held(t) BY <1>8, RevokesAre
    <2>2. ~At(t, "deliver")' BY <1>1, <1>8, NotYetDelivers
    <2> QED BY <2>1, <2>2, <1>1, <1>3 DEF Barring, Held
  <1>9. ASSUME NEW x \in Senders \ {t}, thr[x].ch # 0 PROVE obj'[thr[x].ch] = obj[thr[x].ch]
    <2>1. x \in Threads BY DEF Threads
    <2>2. thr[x].ch \in Ids BY <2>1, <1>9 DEF Base, Types, Goroutines
    <2>3. thr[x].ch # thr[t].ch BY <2>1, <1>1, <1>9 DEF Base, Private
    <2>4. obj' = [obj EXCEPT ![thr[t].ch][h.list] = store[h.list]] BY DEF Read
    <2> QED BY <2>2, <2>3, <2>4 DEF Base, Types
  <1> QED BY <1>2, <1>3, <1>6, <1>7, <1>8, <1>9, QuietRevokes

LEMMA GetRevokes ==
  ASSUME Base, Revokes, causes = {}, NEW t \in Threads, GetChannel(t) PROVE Revokes'
  <1>1. /\ Rest(t) /\ Running(t) /\ Running(t)' /\ ~Loading(t)
        /\ thr'[t].req = thr[t].req /\ thr'[t].uids = thr[t].uids /\ thr'[t].wrote = thr[t].wrote
        /\ thr'[t].barred = thr[t].barred /\ thr'[t].got = thr[t].got
        /\ Undisturbed(t) /\ Got(t) /\ ~At(t, "deliver")'
    BY GetBase
  <1>2. store' = store /\ cached' = cached /\ obj' = obj /\ revoked' = revoked BY DEF GetChannel
  <1>3. \A x \in Threads \ {t}: Same(x) BY <1>1 DEF Rest
  <1>4. Stays(t) BY <1>1 DEF Stays
  <1>5. ASSUME NEW i \in Ids, NEW l \in Lists, Shown(i, l)' PROVE Shown(i, l) /\ obj'[i][l] = obj[i][l]
    <2>1. Loading(t)' => Ahead(thr'[t].todo, Do("read", "none", l)) BY <1>1 DEF Got
    <2> QED BY <2>1, <1>2, <1>3, <1>5, ShownBefore
  <1>6. CacheBars' BY <1>2, <1>5, NothingShown, RevokesAre
  <1>7. t \in Admins => Cleared(t)' /\ Effective(t)' BY <1>2, <1>4, StaysCleared, RevokesAre
  <1>8. ASSUME t \in Senders PROVE Barring(t)' /\ Lesser(thr'[t].barred, revoked) /\ Held(t)'
    <2>1. CacheBars /\ Lesser(thr[t].barred, revoked) /\ Held(t) /\ Barring(t) BY <1>8, RevokesAre
    <2>2. ASSUME NEW l \in Lists, thr'[t].ch # 0, ~Loading(t)' PROVE Denies(l, obj'[thr'[t].ch][l], thr'[t].barred)
      <3>1. CASE cached # 0 /\ thr'[t].ch = cached
        <4>1. cached \in Ids BY <3>1 DEF Base, Types
        <4>2. Shown(cached, l) BY DEF Shown
        <4>3. Denies(l, obj[cached][l], revoked) BY <4>1, <4>2, <2>1 DEF CacheBars
        <4>4. Denies(l, obj[cached][l], thr[t].barred) BY <4>3, <2>1, DenyingLess
        <4> QED BY <4>4, <3>1, <1>1, <1>2
      <3>2. CASE thr'[t].ch = thr[t].ch BY <3>2, <2>1, <2>2, <1>1, <1>2 DEF Barring
      <3> QED BY <3>1, <3>2, <2>2, <1>1 DEF Got
    <2> QED BY <2>1, <2>2, <1>1 DEF Barring, Held
  <1> QED BY <1>1, <1>2, <1>6, <1>7, <1>8, QuietRevokes

LEMMA EvictRevokes ==
  ASSUME Base, Revokes, causes = {}, NEW t \in Threads, DeleteChannelFromCache(t) PROVE Revokes'
  <1>1. /\ WentOn(t) /\ ~Loading(t)' /\ cached' = 0 /\ t \in Admins
        /\ thr[t].req \in {"channelCreateOrUpdate", "channelDelete"} /\ Keeps(t)
    BY EvictBase
  <1>2. store' = store /\ revoked' = revoked BY DEF DeleteChannelFromCache
  <1>3. /\ (\A x \in Threads \ {t}: Same(x)) /\ Rest(t) /\ thr'[t].req = thr[t].req /\ thr'[t].uids = thr[t].uids
        /\ t \notin Senders
    BY <1>1, CacheAssumption DEF Rest, WentOn, Onward, CacheAssumption
  <1>4. ASSUME NEW i \in Ids, NEW l \in Lists, Shown(i, l)' PROVE Shown(i, l) /\ obj'[i][l] = obj[i][l]
    <2>1. Shown(i, l) BY <1>1, <1>3, <1>4, ShownBefore
    <2> QED BY <2>1, <1>1, <1>4, KeepsShown
  <1>5. CacheBars' BY <1>2, <1>4, NothingShown, RevokesAre
  <1>6. Cleared(t)' /\ Effective(t)' BY <1>1, <1>2, <1>3, RevokesAre DEF Cleared, Effective
  <1>7. ASSUME NEW x \in Senders \ {t}, thr[x].ch # 0 PROVE obj'[thr[x].ch] = obj[thr[x].ch]
    <2>1. x \in Threads /\ thr'[x].ch = thr[x].ch BY <1>3 DEF Threads, Same
    <2>2. thr[x].ch \in Ids BY <2>1, <1>7 DEF Base, Types, Goroutines
    <2> QED BY <2>1, <2>2, <1>1 DEF Keeps
  <1> QED BY <1>2, <1>3, <1>5, <1>6, <1>7, QuietRevokes

LEMMA ExistRevokes ==
  ASSUME Base, Revokes, causes = {}, NEW t \in Threads, Exist(t) PROVE Revokes'
  <1>1. /\ Rest(t) /\ ~Loading(t)' /\ t \in Admins
        /\ thr[t].req = "addSubscriber" /\ thr'[t].req = thr[t].req
        /\ thr'[t].uids = thr[t].uids \ store["subs"]
    BY ExistBase
  <1>2. store' = store /\ obj' = obj /\ cached' = cached /\ revoked' = revoked BY DEF Exist
  <1>3. (\A x \in Threads \ {t}: Same(x)) /\ t \notin Senders BY <1>1, CacheAssumption DEF Rest, CacheAssumption
  <1>4. \A i \in Ids, l \in Lists: Shown(i, l)' => Shown(i, l) /\ obj'[i][l] = obj[i][l]
    BY <1>1, <1>2, <1>3, ShownBefore
  <1>5. CacheBars' BY <1>2, <1>4, NothingShown, RevokesAre
  <1>6. Cleared(t)' /\ Effective(t)'
    <2>1. Cleared(t) BY <1>1, RevokesAre
    <2>2. revoked.subs \cap thr'[t].uids = {} BY <2>1, <1>1 DEF Cleared
    <2> QED BY <2>2, <1>1, <1>2 DEF Cleared, Effective
  <1> QED BY <1>1, <1>2, <1>3, <1>5, <1>6, QuietRevokes

LEMMA IdleHeld ==
  ASSUME NEW t, thr'[t] = Idle
  PROVE  Barring(t)' /\ Held(t)' /\ Cleared(t)' /\ Effective(t)' /\ \A b: Lesser(thr'[t].barred, b)
  <1>1. /\ thr'[t].req = "none" /\ thr'[t].todo = <<>> /\ thr'[t].ch = 0 /\ thr'[t].got = {}
        /\ thr'[t].barred.deny = {} /\ thr'[t].barred.subs = {}
    BY DEF Idle, None
  <1> QED BY <1>1 DEF Barring, Held, Cleared, Effective, Lesser, At

LEMMA AbandonRevokes ==
  ASSUME Base, Revokes, causes = {}, NEW t \in Threads, StoreFails(t) \/ LoadFails(t) \/ NilChannel(t), causes' = {}
  PROVE  Revokes'
  <1>1. /\ Rest(t) /\ ~Running(t)' /\ ~Loading(t)' /\ Keeps(t) /\ thr'[t] = Idle
        /\ cached' = cached /\ store' = store /\ revoked' = revoked
    BY AbandonBase
  <1>2. \A x \in Threads \ {t}: Same(x) BY <1>1 DEF Rest
  <1>3. ASSUME NEW i \in Ids, NEW l \in Lists, Shown(i, l)' PROVE Shown(i, l) /\ obj'[i][l] = obj[i][l]
    <2>1. Shown(i, l) BY <1>1, <1>2, <1>3, ShownBefore
    <2> QED BY <2>1, <1>1, <1>3, KeepsShown
  <1>4. CacheBars' BY <1>1, <1>3, NothingShown, RevokesAre
  <1>5. ASSUME NEW x \in Senders \ {t}, thr[x].ch # 0 PROVE obj'[thr[x].ch] = obj[thr[x].ch]
    <2>1. x \in Threads /\ thr'[x].ch = thr[x].ch BY <1>2 DEF Threads, Same
    <2>2. thr[x].ch \in Ids BY <2>1, <1>5 DEF Base, Types, Goroutines
    <2> QED BY <2>1, <2>2, <1>1 DEF Keeps
  <1>6. Barring(t)' /\ Held(t)' /\ Cleared(t)' /\ Effective(t)' /\ Lesser(thr'[t].barred, revoked) BY <1>1, IdleHeld
  <1> QED BY <1>1, <1>4, <1>5, <1>6, QuietRevokes

LEMMA RequestRevokes ==
  ASSUME Base, Revokes, causes = {}, NEW t \in Admins, NEW r \in Requests, NEW uids \in SUBSET Users, Request(t, r, uids)
  PROVE  Revokes'
  <1>1. /\ (\A x \in Threads \ {t}: Same(x)) /\ ~Loading(t)' /\ t \in Threads
        /\ thr'[t].req = r /\ thr'[t].uids = uids /\ thr'[t].todo = Program[r]
    BY RequestBase
  <1>16. Unbars(t, r, uids) BY RequestBase
  <1>15. \A x \in Threads \ {t}: thr'[x].barred = Undone(r, uids, thr[x].barred) BY <1>16 DEF Unbars
  <1>2. store' = store /\ cached' = cached /\ obj' = obj /\ revoked' = Undone(r, uids, revoked) BY DEF Request
  <1>3. revoked \in Bars /\ \A x \in Threads: thr[x].barred \in Bars BY DEF Base, Types, Goroutines
  <1>4. Lesser(revoked', revoked) BY <1>2, <1>3, UndoneIs DEF Lesser
  <1>5. \A x \in Threads \ {t}: Lesser(thr'[x].barred, thr[x].barred) BY <1>15, <1>3, UndoneIs DEF Lesser
  <1>6. ASSUME NEW x \in Senders \ {t} PROVE Lesser(thr'[x].barred, revoked')
    <2>1. x \in Threads BY DEF Threads
    <2>2. Lesser(thr[x].barred, revoked) BY RevokesAre
    <2> QED BY <2>1, <2>2, <1>2, <1>3, <1>15, UndoneIs DEF Lesser
  <1>7. \A l \in Lists: Denies(l, store'[l], revoked') BY <1>2, <1>4, DenyingLess, RevokesAre DEF StoreBars
  <1>8. ASSUME NEW i \in Ids, NEW l \in Lists, Shown(i, l)' PROVE Denies(l, obj'[i][l], revoked')
    <2>1. Shown(i, l) BY <1>1, <1>2, <1>8, ShownBefore
    <2>2. Denies(l, obj[i][l], revoked) BY <2>1, RevokesAre DEF CacheBars
    <2> QED BY <2>2, <1>2, <1>4, DenyingLess
  <1>9. StoreBars' /\ CacheBars' BY <1>7, <1>8 DEF StoreBars, CacheBars
  <1>10. ASSUME NEW x \in Admins \ {t} PROVE Cleared(x)' /\ Effective(x)'
    <2>1. Same(x) /\ Cleared(x) /\ Effective(x) BY <1>1, RevokesAre DEF Threads
    <2>2. Effective(x)' BY <2>1, <1>2, OtherCleared
    <2>3. Cleared(x)' BY <2>1, <1>4 DEF Cleared, Same, Lesser
    <2> QED BY <2>2, <2>3
  <1>11. Cleared(t)' BY <1>1, <1>2, <1>3, UndoneIs DEF Cleared
  <1>12. Effective(t)'
    <2>1. r \notin {"channelDelete", "addSubscriber"} => Ahead(Program[r], First(r)) BY Starts DEF Started
    <2>2. /\ r = "blacklistAdd" => First(r) = Store("add", "deny")
          /\ r = "removeSubscriber" => First(r) = Store("remove", "subs")
      BY DEF First
    <2> QED BY <2>1, <2>2, <1>1 DEF Effective
  <1>13. \A x \in Senders \ {t}, l \in Lists:
             thr[x].ch # 0 /\ ~Loading(x) => Denies(l, obj'[thr[x].ch][l], thr[x].barred)
    BY <1>2, RevokesAre DEF Barring
  <1>14. t \notin Senders BY CacheAssumption DEF CacheAssumption
  <1> QED BY <1>1, <1>5, <1>6, <1>9, <1>10, <1>11, <1>12, <1>13, <1>14, RevokesBy

LEMMA ObjectRevokes ==
  ASSUME Base, Revokes, causes = {}, NEW t \in Threads, ObjectStep(t) PROVE Revokes'
  <1> DEFINE h == Head(thr[t].todo)
  <1>1. /\ WentOn(t) /\ h.at = "object" /\ ~Loading(t)' /\ t \in Admins
        /\ ObjectHead(thr[t].req, thr[t].todo) /\ thr[t].ch \in Ids
        /\ \A i \in Ids, l \in Lists:
              obj'[i][l] = IF i = thr[t].ch /\ l = h.list THEN Changed(h.verb, obj[i][l], thr[t].uids) ELSE obj[i][l]
    BY ObjectBase
  <1>2. store' = store /\ cached' = cached /\ revoked' = revoked BY DEF ObjectStep
  <1>3. /\ (\A x \in Threads \ {t}: Same(x)) /\ Rest(t) /\ thr'[t].req = thr[t].req /\ thr'[t].uids = thr[t].uids
        /\ t \notin Senders
    BY <1>1, CacheAssumption DEF Rest, WentOn, Onward, CacheAssumption
  <1>4. Cleared(t) /\ Effective(t) BY <1>1, RevokesAre
  <1>5. /\ h.list \in Lists /\ h.verb \in {"add", "clear", "remove"}
        /\ h.list = "deny" /\ h.verb # "add" => thr[t].req \in {"blacklistSet", "blacklistRemove"}
        /\ h.list = "allow" /\ h.verb = "add" => thr[t].req = "whitelistAdd"
        /\ h.list = "subs" => h.verb # "add"
    BY <1>1 DEF ObjectHead
  <1>6. Mild(h.verb, h.list, thr[t].uids, revoked) BY <1>4, <1>5 DEF Cleared, Mild
  <1>7. ASSUME NEW b, Lesser(b, revoked), NEW i \in Ids, NEW l \in Lists, Denies(l, obj[i][l], b)
        PROVE  Denies(l, obj'[i][l], b)
    <2>1. CASE i = thr[t].ch /\ l = h.list
      <3>1. Mild(h.verb, l, thr[t].uids, b) BY <2>1, <1>5, <1>6, <1>7, DenyingLess
      <3>2. Denies(l, Changed(h.verb, obj[i][l], thr[t].uids), b) BY <3>1, <1>5, <1>7, MildDenies
      <3> QED BY <3>2, <2>1, <1>1
    <2>2. CASE ~(i = thr[t].ch /\ l = h.list) BY <2>2, <1>1, <1>7
    <2> QED BY <2>1, <2>2
  <1>8. ASSUME NEW i \in Ids, NEW l \in Lists, Shown(i, l)' PROVE Denies(l, obj'[i][l], revoked)
    <2>1. Shown(i, l) BY <1>1, <1>2, <1>3, <1>8, ShownBefore
    <2>2. Denies(l, obj[i][l], revoked) BY <2>1, RevokesAre DEF CacheBars
    <2> QED BY <2>2, <1>7 DEF Lesser
  <1>9. StoreBars' /\ CacheBars' BY <1>2, <1>8, RevokesAre DEF StoreBars, CacheBars
  <1>10. ASSUME NEW x \in Senders \ {t}, NEW l \in Lists, thr[x].ch # 0, ~Loading(x)
         PROVE  Denies(l, obj'[thr[x].ch][l], thr[x].barred)
    <2>1. x \in Threads BY DEF Threads
    <2>2. thr[x].ch \in Ids BY <2>1, <1>10 DEF Base, Types, Goroutines
    <2>3. Denies(l, obj[thr[x].ch][l], thr[x].barred) /\ Lesser(thr[x].barred, revoked) BY <1>10, RevokesAre DEF Barring
    <2> QED BY <2>2, <2>3, <1>7
  <1>11. Cleared(t)' BY <1>2, <1>3, <1>4 DEF Cleared
  <1>12. Effective(t)'
    <2>1. Store("add", "deny").at = "store" /\ Store("remove", "subs").at = "store" BY Fields
    <2>2. /\ Ahead(thr'[t].todo, Store("add", "deny")) <=> Ahead(thr[t].todo, Store("add", "deny"))
          /\ Ahead(thr'[t].todo, Store("remove", "subs")) <=> Ahead(thr[t].todo, Store("remove", "subs"))
      BY <2>1, <1>1 DEF WentOn, Onward
    <2> QED BY <2>2, <1>2, <1>3, <1>4 DEF Effective
  <1>13. \A x \in Admins \ {t}: Cleared(x)' /\ Effective(x)' BY <1>2, <1>3, OtherCleared, RevokesAre DEF Threads
  <1>14. \A x \in Threads \ {t}: Same(x) /\ Lesser(thr'[x].barred, thr[x].barred) BY <1>3 DEF Rest, Lesser
  <1>15. \A x \in Senders \ {t}: Lesser(thr'[x].barred, revoked') BY <1>2, <1>3, RevokesAre DEF Rest, Threads
  <1> QED BY <1>3, <1>9, <1>10, <1>11, <1>12, <1>13, <1>14, <1>15, RevokesBy

LEMMA StoreRevokes ==
  ASSUME Base, OneWriter, Revokes, causes = {}, NEW t \in Threads, StoreStep(t), causes' = {} PROVE Revokes'
  <1> DEFINE h == Head(thr[t].todo)
             r == thr[t].req
             u == thr[t].uids
  <1>1. /\ WentOn(t) /\ t \in Admins /\ ~Loading(t)' /\ StoreHead(r, thr[t].todo) /\ h.at = "store"
    BY StoreBase
  <1>2. ~Misses(h) /\ obj' = obj /\ cached' = cached /\ revoked' = revoked BY DEF StoreStep
  <1>3. \A l \in Lists: store'[l] = IF h.list = l THEN Changed(h.verb, store[l], u) ELSE store[l] BY <1>2, StoreBase
  <1>4. /\ (\A x \in Threads \ {t}: Same(x)) /\ Rest(t) /\ Running(t) /\ thr'[t].req = r /\ thr'[t].uids = u
        /\ t \notin Senders /\ r \in DOMAIN Program /\ thr[t].todo # <<>> /\ OnWay(r, thr[t].todo)
    BY <1>1, CacheAssumption DEF Rest, WentOn, Onward, CacheAssumption
  <1>5. h.list \in Lists =>
           /\ h.verb \in {"add", "clear", "remove"} /\ h.list \in Writes(r)
           /\ h.list = "deny" /\ h.verb # "add" => r \in {"blacklistSet", "blacklistRemove"}
           /\ h.list = "allow" /\ h.verb = "add" => r \in {"whitelistAdd", "whitelistSet"}
           /\ h.list = "subs" /\ h.verb = "add" =>
                 r \in {"addSubscriber", "resetSubscriber", "channelCreateOrUpdate"}
           /\ r = "blacklistAdd" => h.verb = "add"
           /\ r = "removeSubscriber" => h.verb = "remove"
    BY <1>1 DEF StoreHead
  <1>6. Cleared(t) /\ Effective(t) BY <1>1, RevokesAre
  <1>7. ASSUME NEW l \in Lists PROVE Denies(l, store'[l], revoked)
    <2>1. Denies(l, store[l], revoked) BY RevokesAre DEF StoreBars
    <2>2. CASE h.list # l BY <2>1, <2>2, <1>3
    <2>3. CASE h.list = l
      <3>1. Mild(h.verb, l, u, revoked) /\ h.verb \in {"add", "clear", "remove"} BY <2>3, <1>5, <1>6 DEF Cleared, Mild
      <3>2. Denies(l, Changed(h.verb, store[l], u), revoked) BY <3>1, <2>1, MildDenies
      <3> QED BY <3>2, <2>3, <1>3
    <2> QED BY <2>2, <2>3
  <1>8. StoreBars' BY <1>2, <1>7 DEF StoreBars
  <1>9. \A i \in Ids, l \in Lists: Shown(i, l)' => Shown(i, l) /\ obj'[i][l] = obj[i][l]
    BY <1>1, <1>2, <1>4, ShownBefore
  <1>10. CacheBars' BY <1>2, <1>9, NothingShown, RevokesAre
  <1>11. "deny" \in Lists /\ "subs" \in Lists BY DEF Lists
  <1>12. ASSUME NEW x \in Admins \ {t} PROVE Cleared(x)' /\ Effective(x)'
    <2>1. Same(x) /\ Cleared(x) /\ Effective(x) BY <1>4, RevokesAre DEF Threads
    <2>2. ASSUME NEW l \in Lists, thr[x].req # "none", l \in Writes(thr[x].req) PROVE store'[l] = store[l]
      <3>1. Writing(x, l) BY <2>2 DEF Writing, Running
      <3>2. h.list = l => Writing(t, l) BY <1>4, <1>5, <2>2 DEF Writing
      <3>3. h.list # l BY <3>1, <3>2, <1>1, <2>2 DEF OneWriter
      <3> QED BY <3>3, <1>3
    <2>3. "deny" \in Writes("blacklistAdd") /\ "subs" \in Writes("removeSubscriber") BY WritesAre
    <2>4. thr[x].req = "blacklistAdd" => store'["deny"] = store["deny"] BY <2>2, <2>3, <1>11
    <2>5. thr[x].req = "removeSubscriber" => store'["subs"] = store["subs"] BY <2>2, <2>3, <1>11
    <2>6. Effective(x)' BY <2>1, <2>4, <2>5 DEF Effective, Same
    <2> QED BY <2>1, <2>6, <1>2, OtherCleared
  <1>13. Cleared(t)' BY <1>2, <1>4, <1>6 DEF Cleared
  <1>14. /\ h = Do(h.at, h.verb, h.list)
         /\ \A x: Ahead(thr'[t].todo, x) <=> Ahead(thr[t].todo, x) /\ x # h
    <2>1. h \in Accesses BY <1>4, WayOn
    <2> QED BY <2>1, <1>1, Eta DEF WentOn, Onward
  <1>15. ASSUME r = "blacklistAdd", ~Ahead(thr'[t].todo, Store("add", "deny")) PROVE u \subseteq store'["deny"]
    <2>1. CASE h.list = "deny"
      <3>1. h.verb = "add" BY <2>1, <1>5, <1>11, <1>15
      <3> QED BY <3>1, <2>1, <1>3, <1>11 DEF Changed
    <2>2. CASE h.list # "deny"
      <3>1. Store("add", "deny") # h BY <2>2, Fields
      <3>2. u \subseteq store["deny"] BY <3>1, <1>6, <1>14, <1>15 DEF Effective
      <3> QED BY <3>2, <2>2, <1>3, <1>11
    <2> QED BY <2>1, <2>2
  <1>16. ASSUME r = "removeSubscriber", ~Ahead(thr'[t].todo, Store("remove", "subs")) PROVE u \cap store'["subs"] = {}
    <2>1. CASE h.list = "subs"
      <3>1. h.verb = "remove" BY <2>1, <1>5, <1>11, <1>16
      <3> QED BY <3>1, <2>1, <1>3, <1>11 DEF Changed
    <2>2. CASE h.list # "subs"
      <3>1. Store("remove", "subs") # h BY <2>2, Fields
      <3>2. u \cap store["subs"] = {} BY <3>1, <1>6, <1>14, <1>16 DEF Effective
      <3> QED BY <3>2, <2>2, <1>3, <1>11
    <2> QED BY <2>1, <2>2
  <1>17. Effective(t)' BY <1>4, <1>15, <1>16 DEF Effective
  <1>18. \A x \in Threads \ {t}: Same(x) /\ Lesser(thr'[x].barred, thr[x].barred) BY <1>4 DEF Rest, Lesser
  <1>19. \A x \in Senders \ {t}: Lesser(thr'[x].barred, revoked') BY <1>2, <1>4, RevokesAre DEF Rest, Threads
  <1>20. \A x \in Senders \ {t}, l \in Lists:
             thr[x].ch # 0 /\ ~Loading(x) => Denies(l, obj'[thr[x].ch][l], thr[x].barred)
    BY <1>2, RevokesAre DEF Barring
  <1> QED BY <1>4, <1>8, <1>10, <1>12, <1>13, <1>17, <1>18, <1>19, <1>20, RevokesBy

LEMMA DoneRevokes ==
  ASSUME Base, Together, Together', Revokes, causes = {}, NEW t \in Threads, Done(t) PROVE Revokes'
  <1>1. /\ Rest(t) /\ Running(t) /\ ~Running(t)' /\ ~Loading(t)' /\ Keeps(t) /\ thr'[t] = Idle
        /\ (\A x: ~Ahead(thr[t].todo, x))
        /\ Lesser(revoked, revoked')
    BY DoneBase DEF Lesser
  <1>2. /\ \A u \in revoked'.deny \ revoked.deny: /\ thr[t].req = "blacklistAdd" /\ u \in thr[t].uids
                                                  /\ ~Whitelisting /\ u \notin store["allow"]
        /\ \A u \in revoked'.subs \ revoked.subs: thr[t].req = "removeSubscriber" /\ u \in thr[t].uids
    BY DoneBase
  <1>3. store' = store /\ cached' = cached BY DEF Done
  <1>4. \A x \in Threads \ {t}: Same(x) BY <1>1 DEF Rest
  <1>5. /\ revoked'.deny = revoked.deny \/ (thr[t].req = "blacklistAdd" /\ ~Whitelisting)
        /\ revoked'.subs = revoked.subs \/ thr[t].req = "removeSubscriber"
    BY <1>1, <1>2 DEF Lesser
  <1>6. thr[t].req # "send" => t \in Admins BY <1>1, LoadsIs DEF Placed, Threads
  <1>7. ASSUME NEW l \in Lists PROVE Denies(l, store[l], revoked')
    <2>1. Denies(l, store[l], revoked) BY RevokesAre DEF StoreBars
    <2>2. thr[t].req = "blacklistAdd" => thr[t].uids \subseteq store["deny"] BY <1>1, <1>6, RevokesAre DEF Effective
    <2>3. thr[t].req = "removeSubscriber" => thr[t].uids \cap store["subs"] = {} BY <1>1, <1>6, RevokesAre DEF Effective
    <2>4. CASE l = "deny" BY <2>1, <2>2, <2>4, <1>2 DEF Denies
    <2>5. CASE l = "allow" BY <2>1, <2>5, <1>2 DEF Denies
    <2>6. CASE l = "subs" BY <2>1, <2>3, <2>6, <1>2 DEF Denies
    <2> QED BY <2>4, <2>5, <2>6 DEF Lists
  <1>8. StoreBars' BY <1>3, <1>7 DEF StoreBars
  <1>9. ASSUME NEW l \in Lists, t \in Admins, l \in Writes(thr[t].req), NEW x \in Admins PROVE ~Writing(x, l)'
    <2>1. CASE x = t BY <2>1, <1>1 DEF Writing
    <2>2. CASE x # t
      <3>1. Writing(t, l) BY <1>1, <1>9 DEF Writing
      <3>2. x \in Threads \ {t} BY <2>2 DEF Threads
      <3>3. ~Writing(x, l) BY <3>1, <2>2, <1>9 DEF Together, OneWriter
      <3> QED BY <3>2, <3>3, <1>4, OtherMeets
    <2> QED BY <2>1, <2>2
  <1>10. /\ "deny" \in Writes("blacklistAdd") /\ "subs" \in Writes("removeSubscriber")
         /\ "deny" \in Lists /\ "subs" \in Lists /\ "allow" \in Lists
    BY WritesAre DEF Lists
  <1>11. ASSUME revoked'.deny # revoked.deny, NEW x \in Admins PROVE ~Writing(x, "deny")' /\ ~Writing(x, "allow")'
    <2>1. thr[t].req = "blacklistAdd" /\ ~Whitelisting BY <1>5, <1>11
    <2>2. ~Writing(x, "deny")' BY <2>1, <1>6, <1>9, <1>10
    <2>3. ~Writing(x, "allow") BY <2>1 DEF Whitelisting, Writing
    <2>4. CASE x = t BY <2>2, <2>4, <1>1 DEF Writing
    <2>5. CASE x # t
      <3>1. x \in Threads \ {t} BY <2>5 DEF Threads
      <3> QED BY <3>1, <2>2, <2>3, <1>4, OtherMeets
    <2> QED BY <2>4, <2>5
  <1>12. ASSUME revoked'.subs # revoked.subs, NEW x \in Admins PROVE ~Writing(x, "subs")'
    BY <1>5, <1>6, <1>9, <1>10, <1>12
  <1>13. ASSUME NEW i \in Ids, NEW l \in Lists, Shown(i, l)' PROVE Denies(l, obj'[i][l], revoked')
    <2>1. Shown(i, l) BY <1>1, <1>3, <1>4, <1>13, ShownBefore
    <2>2. obj'[i][l] = obj[i][l] BY <1>1, <1>13, KeepsShown
    <2>3. Denies(l, obj[i][l], revoked) BY <2>1, RevokesAre DEF CacheBars
    <2>4. CASE IF l = "subs" THEN revoked'.subs = revoked.subs ELSE revoked'.deny = revoked.deny
      <3>1. Denies(l, obj[i][l], revoked')
        <4>1. CASE l = "deny" BY <4>1, <2>3, <2>4 DEF Denies
        <4>2. CASE l = "allow" BY <4>2, <2>3, <2>4 DEF Denies
        <4>3. CASE l = "subs" BY <4>3, <2>3, <2>4 DEF Denies
        <4> QED BY <4>1, <4>2, <4>3 DEF Lists
      <3> QED BY <3>1, <2>2
    <2>5. CASE IF l = "subs" THEN revoked'.subs # revoked.subs ELSE revoked'.deny # revoked.deny
      <3>1. \A x \in Admins: ~Writing(x, l)'
        <4>1. CASE l = "deny" BY <4>1, <2>5, <1>11
        <4>2. CASE l = "allow" BY <4>2, <2>5, <1>11
        <4>3. CASE l = "subs" BY <4>3, <2>5, <1>12
        <4> QED BY <4>1, <4>2, <4>3 DEF Lists
      <3>2. Coheres(i, l)' BY <1>13 DEF Together, Coherent
      <3>3. Agree(l, obj'[i][l], store[l]) BY <3>1, <3>2, <1>3 DEF Coheres
      <3> QED BY <3>3, <1>7, AgreeDenies
    <2> QED BY <2>4, <2>5
  <1>14. CacheBars' BY <1>13 DEF CacheBars
  <1>15. ASSUME NEW x \in Admins \ {t} PROVE Cleared(x)' /\ Effective(x)'
    <2>1. Same(x) /\ Cleared(x) /\ Effective(x) /\ x \in Threads BY <1>4, RevokesAre DEF Threads
    <2>2. Effective(x)' BY <2>1, <1>3, OtherCleared
    <2>3. thr'[x].req = thr[x].req /\ thr'[x].uids = thr[x].uids BY <2>1 DEF Same
    <2>4. ASSUME thr'[x].req \in {"blacklistSet", "blacklistRemove", "whitelistAdd", "whitelistSet"} PROVE revoked'.deny = revoked.deny
      <3>1. "deny" \in Writes(thr'[x].req) \/ "allow" \in Writes(thr'[x].req) BY <2>4, WritesAre
      <3>2. Writing(x, "deny")' \/ Writing(x, "allow")' BY <3>1, <2>4 DEF Writing, Running
      <3> QED BY <3>2, <1>11
    <2>5. ASSUME thr'[x].req \in {"addSubscriber", "resetSubscriber", "channelCreateOrUpdate"} PROVE revoked'.subs = revoked.subs
      <3>1. "subs" \in Writes(thr'[x].req) BY <2>5, WritesAre
      <3>2. Writing(x, "subs")' BY <3>1, <2>5 DEF Writing, Running
      <3> QED BY <3>2, <1>12
    <2>6. Cleared(x)' BY <2>1, <2>3, <2>4, <2>5 DEF Cleared
    <2> QED BY <2>2, <2>6
  <1>16. Barring(t)' /\ Held(t)' /\ Cleared(t)' /\ Effective(t)' /\ Lesser(thr'[t].barred, revoked') BY <1>1, IdleHeld
  <1>17. \A x \in Threads \ {t}: Same(x) /\ Lesser(thr'[x].barred, thr[x].barred) BY <1>1 DEF Rest, Lesser
  <1>18. ASSUME NEW x \in Senders \ {t} PROVE Lesser(thr'[x].barred, revoked')
    <2>1. Lesser(thr[x].barred, revoked) /\ x \in Threads BY RevokesAre DEF Threads
    <2> QED BY <2>1, <1>1 DEF Rest, Lesser
  <1>19. ASSUME NEW x \in Senders \ {t}, NEW l \in Lists, thr[x].ch # 0, ~Loading(x)
         PROVE  Denies(l, obj'[thr[x].ch][l], thr[x].barred)
    <2>1. x \in Threads /\ thr'[x].ch = thr[x].ch BY <1>4 DEF Threads, Same
    <2>2. thr[x].ch \in Ids BY <2>1, <1>19 DEF Base, Types, Goroutines
    <2>3. obj'[thr[x].ch] = obj[thr[x].ch] BY <2>1, <2>2, <1>1 DEF Keeps
    <2> QED BY <2>3, <1>19, RevokesAre DEF Barring
  <1> QED BY <1>8, <1>14, <1>15, <1>16, <1>17, <1>18, <1>19, RevokesBy

-----------------------------------------------------------------------------
(* The theorems *)

LEMMA InitInv == Init => IndInv
  <1> SUFFICES ASSUME Init PROVE IndInv OBVIOUS
  <1>1. /\ info = TRUE /\ store \in [Lists -> SUBSET Users] /\ cached = 0 /\ obj = [i \in Ids |-> Empty]
        /\ thr = [t \in Threads |-> Idle] /\ revoked = None /\ causes = {}
    BY DEF Init
  <1>2. Idle \in Goroutines /\ None \in Bars BY IdleType
  <1>3. Empty \in [Lists -> SUBSET Users] BY DEF Empty
  <1>4. Types BY <1>1, <1>2, <1>3 DEF Types
  <1>5. ASSUME NEW t \in Threads
        PROVE  /\ thr[t].req = "none" /\ thr[t].todo = <<>> /\ thr[t].ch = 0 /\ thr[t].got = {} /\ thr[t].spoilt = FALSE
               /\ thr[t].barred.deny = {} /\ thr[t].barred.subs = {}
               /\ ~Running(t) /\ ~Loading(t) /\ ~At(t, "deliver")
    <2>1. thr[t] = Idle BY <1>1
    <2>2. /\ thr[t].req = "none" /\ thr[t].todo = <<>> /\ thr[t].ch = 0 /\ thr[t].got = {} /\ thr[t].spoilt = FALSE
          /\ thr[t].barred.deny = {} /\ thr[t].barred.subs = {}
      BY <2>1 DEF Idle, None
    <2> QED BY <2>2 DEF Running, Loading, At
  <1>6. \A x: ~Ahead(<<>>, x) BY DEF Ahead
  <1>7. \A t \in Threads: Placed(t) BY <1>5, <1>6 DEF Placed
  <1>8. Private BY <1>5 DEF Private
  <1>9. \A t \in Admins \cup Senders: t \in Threads BY DEF Threads
  <1>10. \A t \in Admins, l \in Lists: ~Writing(t, l) BY <1>5, <1>9 DEF Writing
  <1>11. OneWriter /\ SameEffect /\ EmptiesFirst BY <1>5, <1>9, <1>10 DEF OneWriter, SameEffect, EmptiesFirst
  <1>12. \A i \in Ids, l \in Lists: ~Shown(i, l) BY <1>1, <1>5, IdsAre DEF Shown
  <1>13. Coherent /\ CacheBars BY <1>12 DEF Coherent, CacheBars
  <1>14. revoked.deny = {} /\ revoked.subs = {} BY <1>1 DEF None
  <1>15. StoreBars
    <2>1. \A l \in Lists: l = "deny" \/ l = "allow" \/ l = "subs" BY DEF Lists
    <2>2. \A v: Denies("deny", v, revoked) /\ Denies("allow", v, revoked) /\ Denies("subs", v, revoked)
      BY <1>14 DEF Denies
    <2> QED BY <2>1, <2>2 DEF StoreBars
  <1>16. SendBars /\ BarredRevoked BY <1>5, <1>9 DEF SendBars, BarredRevoked
  <1>17. Requested BY <1>5, <1>9 DEF Requested, Cleared, Effective
  <1>18. RevocationHolds BY <1>5, <1>9 DEF RevocationHolds
  <1> QED BY <1>4, <1>7, <1>8, <1>11, <1>13, <1>15, <1>16, <1>17, <1>18 DEF IndInv, Base, Revokes

\* Causes are recorded for good.
LEMMA CausesStay ==
  ASSUME Next, causes' = {} PROVE causes = {}
  <1>1. ASSUME NEW t, NEW r, NEW uids, Request(t, r, uids) PROVE causes = {} BY <1>1 DEF Request
  <1>2. ASSUME NEW t, NEW u, Send(t, u) PROVE causes = {} BY <1>2 DEF Send
  <1>3. ASSUME NEW t, Step(t) PROVE causes = {}
    <2>1. ASSUME Abandon(t) PROVE causes = {} BY <2>1 DEF Abandon
    <2>2. CASE StoreStep(t) BY <2>2 DEF StoreStep
    <2>3. CASE StoreFails(t) \/ LoadFails(t) \/ NilChannel(t) BY <2>1, <2>3 DEF StoreFails, LoadFails, NilChannel
    <2>4. CASE Exist(t) \/ GetChannel(t) \/ Read(t) BY <2>4 DEF Exist, GetChannel, Read
    <2>5. CASE Publish(t) BY <2>5 DEF Publish
    <2>6. CASE DeleteChannelFromCache(t) \/ HasChannel(t) BY <2>6 DEF DeleteChannelFromCache, HasChannel
    <2>7. CASE ObjectStep(t) BY <2>7 DEF ObjectStep
    <2>8. CASE Permit(t) \/ Deliver(t) \/ Done(t) BY <2>8 DEF Permit, Deliver, Done
    <2> QED BY <2>2, <2>3, <2>4, <2>5, <2>6, <2>7, <2>8, <1>3 DEF Step
  <1> QED BY <1>1, <1>2, <1>3 DEF Next

LEMMA NextBase ==
  ASSUME Base, Next PROVE Base'
  <1>1. ASSUME NEW t \in Admins, NEW r \in Requests, NEW uids \in SUBSET Users, Request(t, r, uids) PROVE Base'
    BY <1>1, RequestBase
  <1>2. ASSUME NEW t \in Senders, NEW u \in Users, Send(t, u) PROVE Base' BY <1>2, SendBase
  <1>3. ASSUME NEW t \in Threads, Step(t) PROVE Base'
    <2>1. CASE StoreStep(t) BY <2>1, StoreBase
    <2>2. CASE StoreFails(t) \/ LoadFails(t) \/ NilChannel(t) BY <2>2, AbandonBase
    <2>3. CASE Exist(t) BY <2>3, ExistBase
    <2>4. CASE GetChannel(t) BY <2>4, GetBase
    <2>5. CASE Read(t) BY <2>5, ReadBase
    <2>6. CASE Publish(t) BY <2>6, PublishBase
    <2>7. CASE DeleteChannelFromCache(t) BY <2>7, EvictBase
    <2>8. CASE HasChannel(t) BY <2>8, HasBase
    <2>9. CASE ObjectStep(t) BY <2>9, ObjectBase
    <2>10. CASE Permit(t) BY <2>10, PermitBase
    <2>11. CASE Deliver(t) BY <2>11, DeliverBase
    <2>12. CASE Done(t) BY <2>12, DoneBase
    <2> QED BY <2>1, <2>2, <2>3, <2>4, <2>5, <2>6, <2>7, <2>8, <2>9, <2>10, <2>11, <2>12, <1>3 DEF Step
  <1> QED BY <1>1, <1>2, <1>3 DEF Next

LEMMA NextTogether ==
  ASSUME Base, Together, Next, causes' = {} PROVE Together'
  <1>1. ASSUME NEW t \in Admins, NEW r \in Requests, NEW uids \in SUBSET Users, Request(t, r, uids) PROVE Together'
    BY <1>1, RequestTogether
  <1>2. ASSUME NEW t \in Senders, NEW u \in Users, Send(t, u) PROVE Together' BY <1>2, SendTogether
  <1>3. ASSUME NEW t \in Threads, Step(t) PROVE Together'
    <2>1. CASE StoreStep(t) BY <2>1, StoreTogether
    <2>2. CASE StoreFails(t) \/ LoadFails(t) \/ NilChannel(t) BY <2>2, AbandonTogether
    <2>3. CASE Exist(t) BY <2>3, ExistTogether
    <2>4. CASE GetChannel(t) BY <2>4, GetTogether
    <2>5. CASE Read(t) BY <2>5, ReadTogether
    <2>6. CASE Publish(t) BY <2>6, PublishTogether
    <2>7. CASE DeleteChannelFromCache(t) BY <2>7, EvictTogether
    <2>8. CASE HasChannel(t) BY <2>8, HasTogether
    <2>9. CASE ObjectStep(t) BY <2>9, ObjectTogether
    <2>10. CASE Permit(t) BY <2>10, PermitTogether
    <2>11. CASE Deliver(t) BY <2>11, DeliverTogether
    <2>12. CASE Done(t) BY <2>12, DoneTogether
    <2> QED BY <2>1, <2>2, <2>3, <2>4, <2>5, <2>6, <2>7, <2>8, <2>9, <2>10, <2>11, <2>12, <1>3 DEF Step
  <1> QED BY <1>1, <1>2, <1>3 DEF Next

LEMMA NextRevokes ==
  ASSUME Base, Together, Revokes, Next, causes' = {}, causes = {} PROVE Revokes'
  <1>0. Together' BY NextTogether
  <1>1. ASSUME NEW t \in Admins, NEW r \in Requests, NEW uids \in SUBSET Users, Request(t, r, uids) PROVE Revokes'
    BY <1>1, RequestRevokes
  <1>2. ASSUME NEW t \in Senders, NEW u \in Users, Send(t, u) PROVE Revokes' BY <1>2, SendRevokes
  <1>3. ASSUME NEW t \in Threads, Step(t) PROVE Revokes'
    <2>0. OneWriter BY DEF Together
    <2>1. CASE StoreStep(t) BY <2>0, <2>1, StoreRevokes
    <2>2. CASE StoreFails(t) \/ LoadFails(t) \/ NilChannel(t) BY <2>2, AbandonRevokes
    <2>3. CASE Exist(t) BY <2>3, ExistRevokes
    <2>4. CASE GetChannel(t) BY <2>4, GetRevokes
    <2>5. CASE Read(t) BY <2>5, ReadRevokes
    <2>6. CASE Publish(t) BY <2>6, PublishRevokes
    <2>7. CASE DeleteChannelFromCache(t) BY <2>7, EvictRevokes
    <2>8. CASE HasChannel(t) BY <2>8, HasRevokes
    <2>9. CASE ObjectStep(t) BY <2>9, ObjectRevokes
    <2>10. CASE Permit(t) BY <2>10, PermitRevokes
    <2>11. CASE Deliver(t) BY <2>11, DeliverRevokes
    <2>12. CASE Done(t) BY <2>12, <1>0, DoneRevokes
    <2> QED BY <2>1, <2>2, <2>3, <2>4, <2>5, <2>6, <2>7, <2>8, <2>9, <2>10, <2>11, <2>12, <1>3 DEF Step
  <1> QED BY <1>1, <1>2, <1>3 DEF Next

\* Nothing happens.
LEMMA StutterInv ==
  ASSUME IndInv, UNCHANGED vars PROVE IndInv'
  BY DEF vars, IndInv, Base, Types, Placed, Private, OneWriter, SameEffect, EmptiesFirst, Coherent, Revokes,
     StoreBars, CacheBars, SendBars, BarredRevoked, Requested, RevocationHolds, Cleared, Effective, Coheres, Meets,
     Shown, Writing, Running, Loading, Looks, Exempt, Empties, ObjectAfter, StoreAfter, At

\* In every state the goroutines are where their handlers can be, and while no
\* cause is recorded, each list of an object that the cache shows, or will show,
\* and the list of the store are made equal by what is left of the request that
\* changes it (blacklistAdd and its like: the store, then the cached object),
\* and both keep out whom the answered requests have denied or removed.
THEOREM ChannelInductive == Spec => []IndInv
  <1>1. Init => IndInv BY InitInv
  <1>2. ASSUME IndInv, [Next]_vars PROVE IndInv'
    <2>1. CASE UNCHANGED vars BY <2>1, <1>2, StutterInv
    <2>2. CASE Next
      <3>1. Base BY <1>2 DEF IndInv
      <3>2. Base' BY <3>1, <2>2, NextBase
      <3>3. ASSUME causes' = {} PROVE Together' /\ Revokes'
        <4>1. causes = {} BY <3>3, <2>2, CausesStay
        <4>2. Together /\ Revokes BY <4>1, <1>2 DEF IndInv, Together
        <4>3. Together' BY <4>2, <3>1, <3>3, <2>2, NextTogether
        <4>4. Revokes' BY <4>1, <4>2, <3>1, <3>3, <2>2, NextRevokes
        <4> QED BY <4>3, <4>4
      <3> QED BY <3>2, <3>3 DEF IndInv, Together
    <2> QED BY <2>1, <2>2, <1>2
  <1> QED BY <1>1, <1>2, PTL DEF Spec

\* When no request is under way and no cause is recorded, the cached channel
\* has the denylist and the whitelist of the store and no subscribers that the
\* store does not have, whatever requests and sends went before
\* (ChannelManager, api_channel.go).
THEOREM ChannelCacheCoherent == Spec => []CacheCoherent
  <1>1. IndInv => CacheCoherent
    <2> SUFFICES ASSUME IndInv PROVE CacheCoherent OBVIOUS
    <2>1. Types BY DEF IndInv, Base
    <2>2. TypeOK BY <2>1 DEF Types, TypeOK, Goroutines, Bars
    <2>3. ASSUME causes = {}, cached # 0, \A t \in Admins: ~Running(t), NEW l \in Lists
          PROVE  Agree(l, obj[cached][l], store[l])
      <3>1. cached \in Ids BY <2>1, <2>3 DEF Types
      <3>2. Shown(cached, l) BY DEF Shown
      <3>3. Coherent BY <2>3 DEF IndInv
      <3>4. Coheres(cached, l) BY <3>1, <3>2, <3>3 DEF Coherent
      <3>5. \A t \in Admins: ~Writing(t, l) BY <2>3 DEF Writing
      <3> QED BY <3>4, <3>5 DEF Coheres
    <2>4. "deny" \in Lists /\ "allow" \in Lists /\ "subs" \in Lists BY DEF Lists
    <2> QED BY <2>2, <2>3, <2>4 DEF CacheCoherent, Agree
  <1> QED BY <1>1, ChannelInductive, PTL

\* A send that begins after blacklistAdd or removeSubscriber was answered is
\* refused to the user, or does not reach it, until a later request undoes
\* that or one of the causes comes up (getSendChannel, PutMessage).
THEOREM ChannelRevocationHolds == Spec => []RevocationHolds
  <1>1. IndInv => RevocationHolds
    <2>1. CASE causes = {} BY <2>1 DEF IndInv, Revokes
    <2>2. CASE causes # {} BY <2>2 DEF RevocationHolds
    <2> QED BY <2>1, <2>2
  <1> QED BY <1>1, ChannelInductive, PTL
=============================================================================
