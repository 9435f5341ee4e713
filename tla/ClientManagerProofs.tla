------------------------ MODULE ClientManagerProofs ------------------------
(***************************************************************************)
(* Proofs about ClientManager, for any number of connections, devices,     *)
(* handlers and arrays.                                                    *)
(*                                                                         *)
(* The invariant says, for behaviours without one of the overlaps, what    *)
(* each handler knows at each of its steps (Stage), where the connections  *)
(* of the list come from (Exact), and what a goroutine still finds in an   *)
(* array that others write to (InView).  A handler has its device to       *)
(* itself, so what it has found out about the device stays true; what it   *)
(* sees of the shared array stays true because the list grows at its end   *)
(* and because a shift is either seen or recorded.                         *)
(***************************************************************************)
EXTENDS ClientManager, FiniteSetTheorems, WellFoundedInduction, TLAPS

Slices == [arr: Nat, len: Nat]

Recs == [pc: PCs, sl: Slices, i: Nat, target: Conns \cup {0}]

\* A slice is within its array.
SliceOK(s) ==
    /\ s \in Slices
    /\ s = NoSlice \/ (s.arr \in Arrays /\ s.len <= Len(array[s.arr]) /\ Len(array[s.arr]) >= 1)

Types ==
    /\ clients \subseteq Conns
    /\ array \in [Arrays -> Seq(Conns \cup {0})]
    /\ proc \in [Procs -> Recs]
    /\ reader \in [pc: {"idle", "walk", "done"}, sl: Slices, i: Nat, got: SUBSET Conns,
                   must: SUBSET Conns, moved: BOOLEAN, missed: SUBSET Conns]
    /\ sock \in [Conns -> {"new", "open", "closed"}]
    /\ status \in [Devices -> {"online", "offline"}]
    /\ raced \subseteq Overlaps
    /\ SliceOK(list) /\ SliceOK(reader.sl) /\ \A p \in Procs: SliceOK(proc[p].sl)
    /\ \A p \in Procs: /\ proc[p].pc = "idle" => proc[p] = Idle
                       /\ proc[p].pc = "walk" => proc[p].i >= 1
                       /\ proc[p].pc = "addLock" => proc[p].sl # NoSlice
    /\ reader.pc = "walk" => reader.i >= 1

\* x is among the elements of s from place i on.
InView(x, s, i) == \E j \in i .. s.len: Elem(s, j) = x

\* s shows a part of the list that appending does not touch.
Behind(s) == s.arr = list.arr => s.len <= list.len

\* The registered connections of the device of p.
Mine(p) == { c \in clients : DeviceOf(c) = DeviceOf(p[2]) }

Adding(x) == proc[<<"connect", x>>].pc \in {"addLoad", "addLock"}
Removing(x) == \E p \in Procs: proc[p].pc \in {"rmLoad", "rmLock"} /\ proc[p].target = x

\* What a handler knows of its device.
Knows(p) ==
    LET w == proc[p] IN
    /\ w.pc # "idle" => sock[p[2]] = (IF p[1] = "connect" THEN "open" ELSE "closed")
    /\ w.pc \in {"add", "addLoad", "addLock"} => p[1] = "connect"
    /\ w.pc \in {"rm", "rmLoad", "rmLock"} =>
          w.target \in Conns /\ DeviceOf(w.target) = DeviceOf(p[2]) /\ (p[1] = "disconnect" => w.target = p[2])
    /\ p[1] = "connect" /\ w.pc \notin {"idle", "report"} => p[2] \notin Listed
    /\ p[1] = "connect" /\ w.pc \in {"find", "walk"} => p[2] \notin clients
    /\ w.pc = "rm" => Mine(p) = {w.target}
    /\ w.pc \in {"rmLoad", "rmLock", "add"} => Mine(p) = {}
    /\ p[1] = "disconnect" /\ w.pc \in {"find", "walk", "report"} => Mine(p) = {}
    /\ w.pc \in {"addLoad", "addLock"} => Mine(p) = {p[2]}
    /\ p[1] = "connect" /\ w.pc = "report" => Mine(p) = {p[2]}

\* What it still finds in the slice that it has loaded.
Sees(p) ==
    LET w == proc[p] IN
    /\ w.pc = "rmLock" => InView(w.target, w.sl, 1)
    /\ p[1] = "connect" /\ w.pc = "walk" =>
          Behind(w.sl) /\ \A y \in Mine(p): InView(y, w.sl, w.i)

Stage(p) == Knows(p) /\ Sees(p)

\* Handlers have their devices to themselves, and a device one connection.
Exclusive ==
    /\ \A p, q \in Procs: proc[p].pc # "idle" /\ proc[q].pc # "idle" /\ DeviceOf(p[2]) = DeviceOf(q[2]) => p = q
    /\ \A c, d \in clients: DeviceOf(c) = DeviceOf(d) => c = d

\* The list holds the registered connections, before their registration is
\* complete not yet and until their removal is complete still, each once.
Exact ==
    /\ \A x \in Listed: x \in Conns
    /\ \A x \in Conns: x \in Listed <=> (x \in clients /\ ~Adding(x)) \/ Removing(x)
    /\ \A i, j \in 1 .. list.len: Elem(list, i) = Elem(list, j) => i = j

Sockets ==
    /\ \A c \in Conns: sock[c] = "new" =>
          c \notin clients /\ c \notin Listed /\ \A p \in Procs: p[2] = c => proc[p].pc = "idle"
    /\ \A c \in clients: sock[c] = "open" \/ proc[<<"disconnect", c>>].pc = "rm"

\* The status of a device no handler is at.
Reported ==
    \A d \in Devices: (\A p \in Procs: DeviceOf(p[2]) = d => proc[p].pc = "idle") =>
       (status[d] = "online" <=> \E c \in clients: DeviceOf(c) = d)

\* What a call of GetClientsWithUID has got and will get.
Reading ==
    /\ reader.pc = "walk" /\ ~reader.moved =>
          /\ Behind(reader.sl)
          /\ \A c \in reader.must: c \in clients /\ (c \in reader.got \/ InView(c, reader.sl, reader.i))
    /\ reader.pc = "done" /\ ~reader.moved => reader.missed = {}

Clean ==
    /\ Exclusive /\ Exact /\ Sockets /\ Reported /\ Reading
    /\ \A p \in Procs: Stage(p)

IndInv == Types /\ (NoOverlap => Clean)

-----------------------------------------------------------------------------
LEMMA IdleRec == Idle \in Recs /\ NoSlice \in Slices /\ NoSlice.arr \notin Arrays
  BY ClientAssumption DEF Idle, Recs, NoSlice, Slices, PCs

\* A handler takes a step of its own.
LEMMA Moved ==
  ASSUME Types, NEW p \in Procs, NEW r \in Recs, proc' = [proc EXCEPT ![p] = r]
  PROVE  proc' \in [Procs -> Recs] /\ proc'[p] = r /\ \A q \in Procs: q # p => proc'[q] = proc[q]
  BY DEF Types

LEMMA RecAt ==
  ASSUME Types, NEW p \in Procs
  PROVE  /\ proc[p] \in Recs
         /\ proc[p] = [pc |-> proc[p].pc, sl |-> proc[p].sl, i |-> proc[p].i, target |-> proc[p].target]
         /\ proc[p].pc \in PCs /\ proc[p].sl \in Slices /\ proc[p].i \in Nat /\ proc[p].target \in Conns \cup {0}
         /\ p[2] \in Conns /\ p[1] \in {"connect", "disconnect"}
  BY DEF Types, Recs, Procs

LEMMA RecUpdates ==
  ASSUME NEW w \in Recs, NEW c, NEW i
  PROVE  /\ [w EXCEPT !.pc = c] = [pc |-> c, sl |-> w.sl, i |-> w.i, target |-> w.target]
         /\ [w EXCEPT !.i = i] = [pc |-> w.pc, sl |-> w.sl, i |-> i, target |-> w.target]
  BY DEF Recs

\* Only the pc changes.
LEMMA Gone ==
  ASSUME Types, NEW p \in Procs, NEW c \in PCs, Goto(p, c)
  PROVE  /\ proc' \in [Procs -> Recs] /\ \A q \in Procs: q # p => proc'[q] = proc[q]
         /\ proc'[p] = [pc |-> c, sl |-> proc[p].sl, i |-> proc[p].i, target |-> proc[p].target]
  <1> DEFINE r == [pc |-> c, sl |-> proc[p].sl, i |-> proc[p].i, target |-> proc[p].target]
  <1>1. r \in Recs BY RecAt DEF Recs
  <1>2. [proc[p] EXCEPT !.pc = c] = r BY RecAt, RecUpdates
  <1>3. proc' = [proc EXCEPT ![p] = r] BY <1>2 DEF Goto
  <1> QED BY <1>1, <1>3, Moved

\* The record of the handler that takes the step.
Becomes(p, r) == r \in Recs /\ proc'[p] = r /\ \A q \in Procs: q # p => proc'[q] = proc[q]
Fits == proc' \in [Procs -> Recs]

\* What each step does to its handler.
LEMMA ProcSteps ==
  ASSUME Types, NEW p \in Procs
  PROVE  /\ Find(p) => Fits /\ Becomes(p, [pc |-> "walk", sl |-> list, i |-> 1, target |-> 0])
         /\ RemoveClient(p) => Fits /\ Becomes(p,
               IF proc[p].target \in clients
               THEN [pc |-> "rmLoad", sl |-> proc[p].sl, i |-> proc[p].i, target |-> proc[p].target]
               ELSE [Idle EXCEPT !.pc = AfterRemove(p)])
         /\ RemoveLoad(p) => Fits /\ Becomes(p, [pc |-> "rmLock", sl |-> list, i |-> 0, target |-> proc[p].target])
         /\ RemoveLocked(p) => Fits /\ Becomes(p, [Idle EXCEPT !.pc = AfterRemove(p)])
         /\ AddClient(p) => Fits /\ Becomes(p, [pc |-> "addLoad", sl |-> proc[p].sl, i |-> proc[p].i, target |-> proc[p].target])
         /\ \A a: AddLoad(p, a) => Fits /\ Becomes(p,
               IF list = NoSlice
               THEN [pc |-> "report", sl |-> proc[p].sl, i |-> proc[p].i, target |-> proc[p].target]
               ELSE [pc |-> "addLock", sl |-> list, i |-> 0, target |-> 0])
         /\ \A a: AddLocked(p, a) => Fits /\ Becomes(p, [Idle EXCEPT !.pc = "report"])
         /\ Report(p) => Fits /\ Becomes(p, Idle)
  <1> USE DEF Becomes, Fits
  <1>0. list \in Slices BY DEF Types, SliceOK
  <1>i. ASSUME NEW c \in PCs PROVE [Idle EXCEPT !.pc = c] \in Recs
    BY IdleRec DEF Idle, Recs
  <1>a. AfterRemove(p) \in PCs BY DEF AfterRemove, PCs
  <1>r. ASSUME NEW c \in PCs, NEW s \in Slices, NEW i \in Nat
        PROVE  [pc |-> c, sl |-> s, i |-> i, target |-> proc[p].target] \in Recs
    BY RecAt DEF Recs
  <1>1. ASSUME Find(p)
        PROVE  Fits /\ Becomes(p, [pc |-> "walk", sl |-> list, i |-> 1, target |-> 0])
    <2>1. [pc |-> "walk", sl |-> list, i |-> 1, target |-> 0] \in Recs BY <1>0 DEF PCs, Recs
    <2> QED BY <1>1, <2>1, Moved DEF Find
  <1>2. ASSUME RemoveClient(p)
        PROVE  Fits /\ Becomes(p, IF proc[p].target \in clients
               THEN [pc |-> "rmLoad", sl |-> proc[p].sl, i |-> proc[p].i, target |-> proc[p].target]
               ELSE [Idle EXCEPT !.pc = AfterRemove(p)])
    <2> DEFINE r == IF proc[p].target \in clients
               THEN [pc |-> "rmLoad", sl |-> proc[p].sl, i |-> proc[p].i, target |-> proc[p].target]
               ELSE [Idle EXCEPT !.pc = AfterRemove(p)]
    <2>1. r \in Recs BY <1>a, <1>i, <1>r, RecAt DEF PCs
    <2>2. [proc[p] EXCEPT !.pc = "rmLoad"] =
             [pc |-> "rmLoad", sl |-> proc[p].sl, i |-> proc[p].i, target |-> proc[p].target]
      BY RecAt, RecUpdates
    <2>3. proc' = [proc EXCEPT ![p] = r] BY <1>2, <2>2 DEF RemoveClient
    <2> QED BY <2>1, <2>3, Moved
  <1>3. ASSUME RemoveLoad(p)
        PROVE  Fits /\ Becomes(p, [pc |-> "rmLock", sl |-> list, i |-> 0, target |-> proc[p].target])
    <2>1. [pc |-> "rmLock", sl |-> list, i |-> 0, target |-> proc[p].target] \in Recs BY <1>0, <1>r DEF PCs
    <2> QED BY <1>3, <2>1, Moved DEF RemoveLoad
  <1>4. ASSUME RemoveLocked(p) PROVE Fits /\ Becomes(p, [Idle EXCEPT !.pc = AfterRemove(p)])
    <2>1. proc' = [proc EXCEPT ![p] = [Idle EXCEPT !.pc = AfterRemove(p)]] BY <1>4 DEF RemoveLocked
    <2> QED BY <1>a, <1>i, <2>1, Moved
  <1>5. ASSUME AddClient(p)
        PROVE  Fits /\ Becomes(p, [pc |-> "addLoad", sl |-> proc[p].sl, i |-> proc[p].i, target |-> proc[p].target])
    BY <1>5, <1>r, Gone, RecAt DEF AddClient, PCs
  <1>6. ASSUME NEW a, AddLoad(p, a)
        PROVE  Fits /\ Becomes(p, IF list = NoSlice
               THEN [pc |-> "report", sl |-> proc[p].sl, i |-> proc[p].i, target |-> proc[p].target]
               ELSE [pc |-> "addLock", sl |-> list, i |-> 0, target |-> 0])
    <2>1. CASE list = NoSlice BY <1>6, <1>r, <2>1, Gone, RecAt DEF AddLoad, PCs
    <2>2. CASE list # NoSlice
      <3>1. [pc |-> "addLock", sl |-> list, i |-> 0, target |-> 0] \in Recs BY <1>0 DEF PCs, Recs
      <3> QED BY <1>6, <2>2, <3>1, Moved DEF AddLoad
    <2> QED BY <2>1, <2>2
  <1>7. ASSUME NEW a, AddLocked(p, a) PROVE Fits /\ Becomes(p, [Idle EXCEPT !.pc = "report"])
    <2>1. proc' = [proc EXCEPT ![p] = [Idle EXCEPT !.pc = "report"]] BY <1>7 DEF AddLocked
    <2> QED BY <1>i, <2>1, Moved DEF PCs
  <1>8. ASSUME Report(p) PROVE Fits /\ Becomes(p, Idle)
    BY <1>8, IdleRec, Moved DEF Report, Finish
  <1> QED BY <1>1, <1>2, <1>3, <1>4, <1>5, <1>6, <1>7, <1>8

-----------------------------------------------------------------------------
(* What the steps do to the arrays *)

Elems == Conns \cup {0}

LEMMA FirstOf ==
  ASSUME NEW S \in SUBSET Nat, S # {}
  PROVE  (CHOOSE i \in S: \A j \in S: i <= j) \in S
  <1>1. PICK a \in S: TRUE OBVIOUS
  <1>2. \E i \in S: \A j \in S: <<j, i>> \notin OpToRel(<, Nat)
    BY <1>1, NatLessThanWellFounded, WFMin
  <1>3. ASSUME NEW i \in Nat, NEW j \in Nat, <<j, i>> \notin OpToRel(<, Nat) PROVE ~(j < i)
    BY <1>3 DEF OpToRel
  <1>4. PICK i \in S: \A j \in S: <<j, i>> \notin OpToRel(<, Nat) BY <1>2
  <1>5. \A j \in S: ~(j < i) BY <1>3, <1>4
  <1>6. \A j \in S: i <= j BY <1>5
  <1> QED BY <1>6

LEMMA SliceFacts ==
  ASSUME Types, NEW s, SliceOK(s)
  PROVE  /\ s \in Slices /\ s.arr \in Nat /\ s.len \in Nat
         /\ s.len > 0 => s.arr \in Arrays
         /\ s.arr \in Arrays => /\ array[s.arr] \in Seq(Elems) /\ Len(array[s.arr]) \in Nat
                                /\ s.len <= Len(array[s.arr]) /\ Len(array[s.arr]) >= 1
         /\ \A i \in 1 .. s.len: Elem(s, i) = array[s.arr][i] /\ Elem(s, i) \in Elems
         /\ s.arr \notin Arrays => s = NoSlice
  <1>1. s \in Slices /\ s.arr \in Nat /\ s.len \in Nat BY DEF SliceOK, Slices
  <1>2. s.len > 0 => s.arr \in Arrays BY DEF SliceOK, NoSlice
  <1>3. s.arr \in Arrays => /\ array[s.arr] \in Seq(Elems) /\ Len(array[s.arr]) \in Nat
                            /\ s.len <= Len(array[s.arr]) /\ Len(array[s.arr]) >= 1
    <2> SUFFICES ASSUME s.arr \in Arrays
        PROVE /\ array[s.arr] \in Seq(Elems) /\ Len(array[s.arr]) \in Nat
              /\ s.len <= Len(array[s.arr]) /\ Len(array[s.arr]) >= 1
      OBVIOUS
    <2>1. array[s.arr] \in Seq(Elems) BY DEF Types, Elems
    <2>2. s # NoSlice BY IdleRec
    <2> QED BY <2>1, <2>2 DEF SliceOK
  <1>4. ASSUME NEW i \in 1 .. s.len PROVE Elem(s, i) = array[s.arr][i] /\ Elem(s, i) \in Elems
    <2>1. s.arr \in Arrays BY <1>1, <1>2
    <2> QED BY <1>1, <1>3, <2>1 DEF Elem
  <1> QED BY <1>1, <1>2, <1>3, <1>4 DEF SliceOK

\* A removal takes the first place of its target out of the slice it has
\* loaded, by moving down what comes after it.
Taken(s, k) ==
    /\ array' \in [Arrays -> Seq(Elems)]
    /\ \A a \in Arrays: Len(array'[a]) = Len(array[a])
    /\ \A a \in Arrays: a # s.arr => array'[a] = array[a]
    /\ \A i \in 1 .. Len(array[s.arr]):
          array'[s.arr][i] = IF k <= i /\ i < s.len THEN array[s.arr][i + 1] ELSE array[s.arr][i]
    /\ list' = [arr |-> s.arr, len |-> s.len - 1]

LEMMA RemoveEffect ==
  ASSUME Types, NEW p \in Procs, RemoveLocked(p), NEW s, s = proc[p].sl
  PROVE  \/ ~InView(proc[p].target, s, 1) /\ UNCHANGED <<list, array, reader, raced>>
         \/ \E k \in 1 .. s.len:
               /\ Elem(s, k) = proc[p].target /\ s.arr \in Arrays /\ Taken(s, k)
               /\ reader' = [reader EXCEPT !.moved = @ \/ (reader.pc = "walk" /\ reader.sl.arr = s.arr)]
               /\ raced' = raced \cup (IF s # list THEN {"list"} ELSE {})
                             \cup (IF \E q \in Procs: /\ proc[q].pc = "walk" /\ proc[q].sl.arr = s.arr
                                                      /\ q[1] = "connect"
                                   THEN {"shift"} ELSE {})
  <1> DEFINE hits == { i \in 1 .. s.len : Elem(s, i) = proc[p].target }
             k == CHOOSE i \in hits : \A j \in hits : i <= j
  <1>0. SliceOK(s) BY DEF Types
  <1>f. s.len \in Nat /\ s.arr \in Nat /\ s \in Slices BY <1>0, SliceFacts
  <1>1. CASE hits = {} BY <1>1 DEF RemoveLocked, InView
  <1>2. CASE hits # {}
    <2>1. hits \in SUBSET Nat BY <1>f
    <2>2. k \in hits
      <3> HIDE DEF hits
      <3> QED BY <1>2, <2>1, FirstOf
    <2>e. /\ array' = [array EXCEPT ![s.arr] =
                         [i \in DOMAIN @ |-> IF k <= i /\ i < s.len THEN @[i + 1] ELSE @[i]]]
          /\ list' = [s EXCEPT !.len = @ - 1]
          /\ reader' = [reader EXCEPT !.moved = @ \/ (reader.pc = "walk" /\ reader.sl.arr = s.arr)]
          /\ raced' = raced \cup (IF s # list THEN {"list"} ELSE {})
                            \cup (IF \E q \in { q \in Procs : At(q, "walk") /\ proc[q].sl.arr = s.arr } : q[1] = "connect"
                                  THEN {"shift"} ELSE {})
      BY <1>2 DEF RemoveLocked
    <2> HIDE DEF k
    <2>3. k \in 1 .. s.len /\ Elem(s, k) = proc[p].target BY <2>2
    <2>4. s.arr \in Arrays BY <1>0, <1>f, <2>3, SliceFacts
    <2> DEFINE A == array[s.arr]
               B == [i \in DOMAIN A |-> IF k <= i /\ i < s.len THEN A[i + 1] ELSE A[i]]
    <2>5. A \in Seq(Elems) /\ Len(A) \in Nat /\ s.len <= Len(A) BY <1>0, <2>4, SliceFacts
    <2>6. array' = [array EXCEPT ![s.arr] = B] BY <2>e
    <2>7. B \in Seq(Elems) /\ Len(B) = Len(A)
      <3>1. \A i \in 1 .. Len(A): B[i] \in Elems
        <4> TAKE i \in 1 .. Len(A)
        <4>1. CASE k <= i /\ i < s.len
          <5>1. i + 1 \in 1 .. Len(A) BY <1>f, <2>5, <4>1
          <5> QED BY <2>5, <4>1, <5>1
        <4>2. CASE ~(k <= i /\ i < s.len) BY <2>5, <4>2
        <4> QED BY <4>1, <4>2
      <3>2. DOMAIN B = 1 .. Len(A) BY <2>5
      <3> HIDE DEF B
      <3>3. B \in [1 .. Len(A) -> Elems]
        <4>1. B = [i \in DOMAIN B |-> B[i]] BY DEF B
        <4> QED BY <3>1, <3>2, <4>1
      <3> QED BY <2>5, <3>3
    <2>8. Taken(s, k)
      <3>1. array \in [Arrays -> Seq(Elems)] BY DEF Types, Elems
      <3>2. array' \in [Arrays -> Seq(Elems)] /\ array'[s.arr] = B /\ \A a \in Arrays: a # s.arr => array'[a] = array[a]
        <4> HIDE DEF A, B
        <4> QED BY <2>4, <2>6, <2>7, <3>1
      <3>3. \A i \in 1 .. Len(A): B[i] = IF k <= i /\ i < s.len THEN A[i + 1] ELSE A[i] BY <2>5
      <3>4. list' = [arr |-> s.arr, len |-> s.len - 1] BY <1>f, <2>e DEF Slices
      <3> QED BY <2>7, <3>2, <3>3, <3>4 DEF Taken
    <2> QED BY <2>3, <2>4, <2>8, <2>e DEF At
  <1> QED BY <1>1, <1>2

\* An addition makes a list of the elements of s and x, behind s in its
\* array or in an array that nobody uses.
Grown(s, x, b) ==
    /\ array' \in [Arrays -> Seq(Elems)]
    /\ b \in Arrays /\ list' = [arr |-> b, len |-> s.len + 1]
    /\ Len(array'[b]) >= s.len + 1
    /\ \A a \in Arrays: a # b => array'[a] = array[a]
    /\ \A i \in 1 .. s.len: array'[b][i] = array[s.arr][i]
    /\ array'[b][s.len + 1] = x
    /\ \/ Fresh(b)
       \/ /\ b = s.arr /\ Len(array'[b]) = Len(array[b])
          /\ \A i \in 1 .. Len(array[b]): i # s.len + 1 => array'[b][i] = array[b][i]

LEMMA AddLoadEffect ==
  ASSUME Types, NEW p \in Procs, NEW a \in Arrays, AddLoad(p, a), list = NoSlice
  PROVE  Grown(list, p[2], a)
  <1>1. array' = [array EXCEPT ![a] = <<p[2]>>] /\ list' = [arr |-> a, len |-> 1] /\ Fresh(a)
    BY DEF AddLoad
  <1>2. p[2] \in Elems BY RecAt DEF Elems
  <1>3. <<p[2]>> \in Seq(Elems) /\ Len(<<p[2]>>) = 1 /\ <<p[2]>>[1] = p[2] BY <1>2
  <1>4. array \in [Arrays -> Seq(Elems)] BY DEF Types, Elems
  <1>5. array' \in [Arrays -> Seq(Elems)] /\ array'[a] = <<p[2]>> /\ \A b \in Arrays: b # a => array'[b] = array[b]
    BY <1>1, <1>3, <1>4
  <1>6. list.len = 0 BY DEF NoSlice
  <1> QED BY <1>1, <1>3, <1>5, <1>6 DEF Grown

LEMMA AddLockedEffect ==
  ASSUME Types, NEW p \in Procs, NEW a \in Arrays, AddLocked(p, a), NEW s, s = proc[p].sl
  PROVE  \E b \in Arrays: Grown(s, p[2], b)
  <1> DEFINE A == array[s.arr]
             G == [i \in 1 .. 2 * s.len |-> IF i <= s.len THEN Elem(s, i) ELSE 0]
             H == [G EXCEPT ![s.len + 1] = p[2]]
             J == [A EXCEPT ![s.len + 1] = p[2]]
  <1>0. SliceOK(s) /\ s # NoSlice BY DEF Types, AddLocked, At
  <1>1. s.arr \in Arrays BY <1>0, SliceFacts
  <1>2. /\ A \in Seq(Elems) /\ Len(A) \in Nat /\ s.len <= Len(A) /\ Len(A) >= 1 /\ s.len \in Nat
        /\ \A i \in 1 .. s.len: Elem(s, i) = A[i] /\ Elem(s, i) \in Elems
    BY <1>0, <1>1, SliceFacts
  <1>3. p[2] \in Elems /\ 0 \in Elems BY RecAt DEF Elems
  <1>4. array \in [Arrays -> Seq(Elems)] BY DEF Types, Elems
  <1>5. /\ array' = IF s.len < Len(A) THEN [array EXCEPT ![s.arr][s.len + 1] = p[2]] ELSE [array EXCEPT ![a] = H]
        /\ list' = [arr |-> IF s.len < Len(A) THEN s.arr ELSE a, len |-> s.len + 1]
        /\ Fresh(a)
    BY DEF AddLocked
  <1>6. CASE s.len < Len(A)
    <2>1. array' = [array EXCEPT ![s.arr] = J] /\ list' = [arr |-> s.arr, len |-> s.len + 1]
      BY <1>1, <1>4, <1>5, <1>6
    <2>2. J \in Seq(Elems) /\ Len(J) = Len(A) /\ J[s.len + 1] = p[2]
          /\ \A i \in 1 .. Len(A): i # s.len + 1 => J[i] = A[i]
      BY <1>2, <1>3, <1>6
    <2> HIDE DEF A, J
    <2>3. array' \in [Arrays -> Seq(Elems)] /\ array'[s.arr] = J /\ \A b \in Arrays: b # s.arr => array'[b] = array[b]
      BY <1>1, <1>4, <2>1, <2>2
    <2>4. \A i \in 1 .. s.len: i \in 1 .. Len(A) /\ i # s.len + 1 BY <1>2
    <2>5. Len(array'[s.arr]) >= s.len + 1 BY <1>2, <1>6, <2>2, <2>3
    <2>6. \A i \in 1 .. s.len: array'[s.arr][i] = array[s.arr][i] BY <2>2, <2>3, <2>4 DEF A
    <2>7. Len(array'[s.arr]) = Len(array[s.arr])
          /\ \A i \in 1 .. Len(array[s.arr]): i # s.len + 1 => array'[s.arr][i] = array[s.arr][i]
      BY <2>2, <2>3 DEF A
    <2>8. Grown(s, p[2], s.arr) BY <1>1, <2>1, <2>2, <2>3, <2>5, <2>6, <2>7 DEF Grown
    <2> QED BY <1>1, <2>8
  <1>7. CASE ~(s.len < Len(A))
    <2>1. array' = [array EXCEPT ![a] = H] /\ list' = [arr |-> a, len |-> s.len + 1] BY <1>5, <1>7
    <2>2. s.len >= 1 /\ s.len + 1 \in 1 .. 2 * s.len /\ 2 * s.len \in Nat BY <1>2, <1>7
    <2>3. G \in [1 .. 2 * s.len -> Elems] BY <1>2, <1>3
    <2>4. H \in [1 .. 2 * s.len -> Elems] /\ H[s.len + 1] = p[2]
          /\ \A i \in 1 .. s.len: H[i] = A[i]
      <3>1. \A i \in 1 .. s.len: G[i] = A[i] /\ i \in 1 .. 2 * s.len /\ i # s.len + 1 BY <1>2
      <3> HIDE DEF G, A
      <3>2. H \in [1 .. 2 * s.len -> Elems] /\ H[s.len + 1] = p[2] BY <1>3, <2>2, <2>3
      <3>3. \A i \in 1 .. s.len: H[i] = G[i] BY <2>3, <3>1
      <3> QED BY <3>1, <3>2, <3>3
    <2> HIDE DEF A, G, H
    <2>5. H \in Seq(Elems) /\ Len(H) = 2 * s.len BY <2>2, <2>4
    <2>6. array' \in [Arrays -> Seq(Elems)] /\ array'[a] = H /\ \A b \in Arrays: b # a => array'[b] = array[b]
      BY <1>4, <2>1, <2>5
    <2>7. Len(array'[a]) >= s.len + 1 BY <1>2, <2>2, <2>5, <2>6
    <2>8. \A i \in 1 .. s.len: array'[a][i] = array[s.arr][i] BY <2>4, <2>6 DEF A
    <2>9. Grown(s, p[2], a) BY <1>5, <2>1, <2>4, <2>6, <2>7, <2>8 DEF Grown
    <2> QED BY <2>9
  <1> QED BY <1>6, <1>7

\* A slice that somebody holds stays within its array.
LEMMA HeldStays ==
  ASSUME Types, NEW s, SliceOK(s),
         \/ array' = array
         \/ \E t, k: Taken(t, k)
         \/ \E t, x, b: Grown(t, x, b) /\ s.arr # b
         \/ \E t, x, b: Grown(t, x, b) /\ b = t.arr /\ Len(array'[b]) = Len(array[b])
  PROVE  SliceOK(s)'
  BY DEF SliceOK, Taken, Grown

-----------------------------------------------------------------------------
Readers == [pc: {"idle", "walk", "done"}, sl: Slices, i: Nat, got: SUBSET Conns,
            must: SUBSET Conns, moved: BOOLEAN, missed: SUBSET Conns]

LEMMA ReaderUpdates ==
  ASSUME NEW r \in Readers, NEW b \in BOOLEAN, NEW m \in SUBSET Conns
  PROVE  /\ [r EXCEPT !.moved = b] \in Readers /\ [r EXCEPT !.must = m] \in Readers
         /\ [r EXCEPT !.moved = b].pc = r.pc /\ [r EXCEPT !.moved = b].sl = r.sl /\ [r EXCEPT !.moved = b].i = r.i
         /\ [r EXCEPT !.moved = b].moved = b /\ [r EXCEPT !.moved = b].got = r.got
         /\ [r EXCEPT !.moved = b].must = r.must /\ [r EXCEPT !.moved = b].missed = r.missed
         /\ [r EXCEPT !.must = m].pc = r.pc /\ [r EXCEPT !.must = m].sl = r.sl /\ [r EXCEPT !.must = m].i = r.i
         /\ [r EXCEPT !.must = m].moved = r.moved /\ [r EXCEPT !.must = m].got = r.got
         /\ [r EXCEPT !.must = m].must = m /\ [r EXCEPT !.must = m].missed = r.missed
  BY DEF Readers

\* The handler that a step is about, for the type of its record.
RecOK(w) ==
    /\ w.pc = "idle" => w = Idle
    /\ w.pc = "walk" => w.i >= 1
    /\ w.pc = "addLock" => w.sl # NoSlice

LEMMA Starts ==
  ASSUME Types, NEW c \in Conns
  PROVE  /\ <<"connect", c>> \in Procs /\ <<"disconnect", c>> \in Procs
         /\ Remover(c) \in Recs
         /\ Connect(c) => Fits /\ \A q \in Procs: q # <<"connect", c>> => proc'[q] = proc[q]
         /\ Connect(c) => proc'[<<"connect", c>>] = [pc |-> "find", sl |-> proc[<<"connect", c>>].sl,
                             i |-> proc[<<"connect", c>>].i, target |-> proc[<<"connect", c>>].target]
         /\ Disconnect(c) => Fits /\ \A q \in Procs: q # <<"disconnect", c>> => proc'[q] = proc[q]
         /\ Disconnect(c) => proc'[<<"disconnect", c>>] = IF c \in clients THEN Remover(c) ELSE proc[<<"disconnect", c>>]
  <1>1. <<"connect", c>> \in Procs /\ <<"disconnect", c>> \in Procs BY DEF Procs
  <1>2. Remover(c) \in Recs BY IdleRec DEF Remover, Recs, PCs
  <1>3. ASSUME Connect(c)
        PROVE  /\ Fits /\ \A q \in Procs: q # <<"connect", c>> => proc'[q] = proc[q]
               /\ proc'[<<"connect", c>>] = [pc |-> "find", sl |-> proc[<<"connect", c>>].sl,
                             i |-> proc[<<"connect", c>>].i, target |-> proc[<<"connect", c>>].target]
    <2>1. "find" \in PCs BY DEF PCs
    <2> QED BY <1>1, <1>3, <2>1, Gone DEF Connect, Fits
  <1>4. ASSUME Disconnect(c)
        PROVE  /\ Fits /\ \A q \in Procs: q # <<"disconnect", c>> => proc'[q] = proc[q]
               /\ proc'[<<"disconnect", c>>] = IF c \in clients THEN Remover(c) ELSE proc[<<"disconnect", c>>]
    <2>1. CASE c \in clients
      <3>1. proc' = [proc EXCEPT ![<<"disconnect", c>>] = Remover(c)] BY <1>4, <2>1 DEF Disconnect
      <3> QED BY <1>1, <1>2, <2>1, <3>1, Moved DEF Fits
    <2>2. CASE c \notin clients BY <1>4, <2>2 DEF Disconnect, Fits, Types
    <2> QED BY <2>1, <2>2
  <1> QED BY <1>1, <1>2, <1>3, <1>4

\* A step of Walk: the end of the list, another element, or a match.
LEMMA Walks ==
  ASSUME Types, NEW p \in Procs, Walk(p), NEW w, w = proc[p]
  PROVE  /\ Fits
         /\ \/ w.i > w.sl.len /\ Becomes(p, [Idle EXCEPT !.pc = IF p[1] = "connect" THEN "add" ELSE "report"])
            \/ /\ w.i <= w.sl.len /\ ~Matches(p, Elem(w.sl, w.i))
               /\ Becomes(p, [pc |-> w.pc, sl |-> w.sl, i |-> w.i + 1, target |-> w.target])
            \/ /\ w.i <= w.sl.len /\ Matches(p, Elem(w.sl, w.i))
               /\ Becomes(p, IF p[1] = "connect" THEN Remover(Elem(w.sl, w.i)) ELSE Idle)
  <1> USE DEF Becomes, Fits
  <1>0. w \in Recs /\ w.i \in Nat /\ w.sl.len \in Nat BY RecAt, SliceFacts DEF Types
  <1>e. proc' = [proc EXCEPT ![p] =
              IF w.i > w.sl.len
              THEN [Idle EXCEPT !.pc = IF p[1] = "connect" THEN "add" ELSE "report"]
              ELSE IF ~Matches(p, Elem(w.sl, w.i)) THEN [w EXCEPT !.i = @ + 1]
              ELSE IF p[1] = "connect" THEN Remover(Elem(w.sl, w.i)) ELSE Idle]
    BY DEF Walk
  <1>1. CASE w.i > w.sl.len
    <2>1. [Idle EXCEPT !.pc = IF p[1] = "connect" THEN "add" ELSE "report"] \in Recs
      BY IdleRec DEF Idle, Recs, PCs
    <2> QED BY <1>1, <2>1, Moved DEF Walk
  <1>2. CASE w.i <= w.sl.len /\ ~Matches(p, Elem(w.sl, w.i))
    <2> DEFINE r == [pc |-> w.pc, sl |-> w.sl, i |-> w.i + 1, target |-> w.target]
    <2>1. r \in Recs BY <1>0 DEF Recs
    <2>2. [w EXCEPT !.i = @ + 1] = r BY <1>0, RecUpdates
    <2>3. proc' = [proc EXCEPT ![p] = r]
      <3>1. ~(w.i > w.sl.len) BY <1>0, <1>2
      <3> HIDE DEF r
      <3> QED BY <1>2, <1>e, <2>2, <3>1
    <2> QED BY <1>2, <2>1, <2>3, Moved
  <1>3. CASE w.i <= w.sl.len /\ Matches(p, Elem(w.sl, w.i))
    <2>1. Elem(w.sl, w.i) \in Conns BY <1>3 DEF Matches, Types
    <2> DEFINE r == IF p[1] = "connect" THEN Remover(Elem(w.sl, w.i)) ELSE Idle
    <2>2. r \in Recs BY <2>1, IdleRec DEF Remover, Recs, PCs
    <2>3. proc' = [proc EXCEPT ![p] = r]
      <3>1. ~(w.i > w.sl.len) BY <1>0, <1>3
      <3> QED BY <1>3, <1>e, <3>1
    <2> QED BY <1>3, <2>2, <2>3, Moved
  <1> QED BY <1>0, <1>1, <1>2, <1>3

\* What each step leaves of the types when it leaves the arrays alone.
LEMMA TypesKept ==
  ASSUME Types, Fits, NEW p \in Procs, \A q \in Procs: q # p => proc'[q] = proc[q],
         RecOK(proc'[p]), SliceOK(proc'[p].sl),
         clients' \subseteq Conns, UNCHANGED <<list, array>>,
         reader' \in Readers, SliceOK(reader'.sl), reader'.pc = "walk" => reader'.i >= 1,
         sock' \in [Conns -> {"new", "open", "closed"}],
         status' \in [Devices -> {"online", "offline"}], raced' \subseteq Overlaps
  PROVE  Types'
  <1>1. ASSUME NEW s, SliceOK(s) PROVE SliceOK(s)' BY <1>1, HeldStays
  <1>2. \A q \in Procs: RecOK(proc'[q]) /\ SliceOK(proc'[q].sl) BY DEF Types, RecOK
  <1>3. \A q \in Procs: SliceOK(proc[q].sl)' BY <1>1, <1>2
  <1>4. SliceOK(list)' /\ SliceOK(reader.sl)' BY <1>1 DEF Types
  <1>5. array' \in [Arrays -> Seq(Conns \cup {0})] BY DEF Types
  <1> QED BY <1>2, <1>3, <1>4, <1>5 DEF Types, RecOK, Fits, Readers

\* The steps that change the list.
LEMMA TypesGrown ==
  ASSUME Types, NEW p \in Procs, Fits, \A q \in Procs: q # p => proc'[q] = proc[q],
         RecOK(proc'[p]), proc'[p].sl = NoSlice \/ proc'[p].sl = proc[p].sl,
         clients' = clients, sock' = sock, status' = status, raced' \subseteq Overlaps,
         \/ reader' = reader /\ \E s, x, b: SliceOK(s) /\ Grown(s, x, b)
         \/ /\ \E s: SliceOK(s) /\ s.arr \in Arrays /\ \E k \in 1 .. s.len: Taken(s, k)
            /\ \E b \in BOOLEAN: reader' = [reader EXCEPT !.moved = b]
  PROVE  Types'
  <1>r. reader \in Readers BY DEF Types, Readers
  <1>1. reader' \in Readers /\ reader'.sl = reader.sl /\ reader'.pc = reader.pc /\ reader'.i = reader.i
    <2>1. CASE reader' = reader BY <1>r, <2>1
    <2>2. ASSUME NEW b \in BOOLEAN, reader' = [reader EXCEPT !.moved = b]
          PROVE  reader' \in Readers /\ reader'.sl = reader.sl /\ reader'.pc = reader.pc /\ reader'.i = reader.i
      BY <1>r, <2>2 DEF Readers
    <2> QED BY <2>1, <2>2
  <1>2. array' \in [Arrays -> Seq(Conns \cup {0})] BY DEF Grown, Taken, Elems
  <1>3. SliceOK(reader.sl) /\ \A q \in Procs: SliceOK(proc[q].sl) BY DEF Types
  <1>n. SliceOK(NoSlice)' BY IdleRec DEF SliceOK
  <1>4. SliceOK(reader.sl)' /\ (\A q \in Procs: proc'[q].sl = proc[q].sl => SliceOK(proc[q].sl)') /\ SliceOK(list)'
    <2>1. ASSUME NEW s, SliceOK(s), s.arr \in Arrays, NEW k \in 1 .. s.len, Taken(s, k)
          PROVE  SliceOK(reader.sl)' /\ (\A q \in Procs: proc'[q].sl = proc[q].sl => SliceOK(proc[q].sl)') /\ SliceOK(list)'
      <3>1. ASSUME NEW t, SliceOK(t) PROVE SliceOK(t)' BY <2>1, <3>1, HeldStays
      <3>2. list'.arr = s.arr /\ list'.len = s.len - 1 /\ list' = [arr |-> s.arr, len |-> s.len - 1]
        BY <2>1 DEF Taken
      <3>3. s.len \in Nat /\ s.arr \in Nat /\ s.len <= Len(array[s.arr]) /\ Len(array[s.arr]) >= 1 /\ Len(array[s.arr]) \in Nat
        BY <2>1, SliceFacts
      <3>4. Len(array'[s.arr]) = Len(array[s.arr]) BY <2>1 DEF Taken
      <3>5. list' \in Slices BY <2>1, <3>2, <3>3 DEF Slices
      <3>6. SliceOK(list)' BY <2>1, <3>2, <3>3, <3>4, <3>5 DEF SliceOK
      <3> QED BY <1>1, <1>3, <3>1, <3>6
    <2>2. ASSUME NEW s, NEW x, NEW b, SliceOK(s), Grown(s, x, b)
          PROVE  SliceOK(reader.sl)' /\ (\A q \in Procs: proc'[q].sl = proc[q].sl => SliceOK(proc[q].sl)') /\ SliceOK(list)'
      <3>1. ASSUME NEW t, SliceOK(t), t.arr # b \/ ~Fresh(b) PROVE SliceOK(t)'
        <4>1. CASE t.arr # b BY <2>2, <3>1, <4>1, HeldStays
        <4>2. CASE ~Fresh(b)
          <5>1. b = s.arr /\ Len(array'[b]) = Len(array[b]) BY <2>2, <4>2 DEF Grown
          <5> QED BY <2>2, <3>1, <5>1, HeldStays
        <4> QED BY <3>1, <4>1, <4>2
      <3>2. Fresh(b) => reader.sl.arr # b /\ \A q \in Procs: proc[q].sl.arr # b BY DEF Fresh
      <3>3. list' = [arr |-> b, len |-> s.len + 1] /\ b \in Arrays /\ Len(array'[b]) >= s.len + 1
            /\ Len(array'[b]) \in Nat
        BY <2>2 DEF Grown
      <3>4. s.len \in Nat BY <2>2, SliceFacts
      <3>5. list' \in Slices /\ list'.arr = b /\ list'.len = s.len + 1
        BY <3>3, <3>4, ClientAssumption DEF Slices
      <3>6. SliceOK(list)' BY <3>3, <3>4, <3>5 DEF SliceOK
      <3> QED BY <1>1, <1>3, <3>1, <3>2, <3>6
    <2> QED BY <2>1, <2>2
  <1>5. \A q \in Procs: SliceOK(proc[q].sl)'
    <2> TAKE q \in Procs
    <2>1. CASE proc'[q].sl = proc[q].sl BY <1>4, <2>1
    <2>2. CASE proc'[q].sl = NoSlice BY <1>n, <2>2 DEF SliceOK
    <2> QED BY <2>1, <2>2
  <1>6. \A q \in Procs: RecOK(proc'[q]) BY DEF Types, RecOK
  <1> QED BY <1>1, <1>2, <1>4, <1>5, <1>6 DEF Types, RecOK, Fits, Readers

LEMMA StepTypes ==
  ASSUME Types, [Next]_vars
  PROVE  Types'
  <1>0. /\ SliceOK(list) /\ SliceOK(reader.sl) /\ SliceOK(NoSlice) /\ reader \in Readers
        /\ \A p \in Procs: SliceOK(proc[p].sl) /\ RecOK(proc[p])
        /\ clients \subseteq Conns /\ (reader.pc = "walk" => reader.i >= 1)
        /\ sock \in [Conns -> {"new", "open", "closed"}]
        /\ status \in [Devices -> {"online", "offline"}] /\ raced \subseteq Overlaps
    BY IdleRec DEF Types, RecOK, Readers, SliceOK
  <1> USE DEF Record
  <1>1. ASSUME NEW c \in Conns, Connect(c) PROVE Types'
    <2>1. sock' \in [Conns -> {"new", "open", "closed"}] /\ raced' \subseteq Overlaps
      <3>1. sock' = [sock EXCEPT ![c] = "open"] /\ raced' \subseteq raced \cup {"device"} BY <1>1 DEF Connect
      <3> QED BY <1>0, <3>1 DEF Overlaps
    <2>e. proc'[<<"connect", c>>] = [pc |-> "find", sl |-> proc[<<"connect", c>>].sl,
                  i |-> proc[<<"connect", c>>].i, target |-> proc[<<"connect", c>>].target]
      BY <1>1, Starts
    <2>2. RecOK(proc'[<<"connect", c>>]) BY <2>e DEF RecOK
    <2>3. SliceOK(proc'[<<"connect", c>>].sl)
      <3>1. proc'[<<"connect", c>>].sl = proc[<<"connect", c>>].sl BY <2>e
      <3>2. SliceOK(proc[<<"connect", c>>].sl) BY <1>0, Starts
      <3> QED BY <3>1, <3>2 DEF SliceOK
    <2>4. /\ <<"connect", c>> \in Procs /\ Fits
          /\ \A q \in Procs: q # <<"connect", c>> => proc'[q] = proc[q]
      BY <1>1, Starts
    <2>5. UNCHANGED <<clients, list, array, reader, status>> BY <1>1 DEF Connect
    <2> QED BY <1>0, <2>1, <2>2, <2>3, <2>4, <2>5, TypesKept
  <1>2. ASSUME NEW c \in Conns, Disconnect(c) PROVE Types'
    <2>1. sock' \in [Conns -> {"new", "open", "closed"}] /\ raced' \subseteq Overlaps
      <3>1. sock' = [sock EXCEPT ![c] = "closed"] /\ raced' \subseteq raced \cup {"device"} BY <1>2 DEF Disconnect
      <3> QED BY <1>0, <3>1 DEF Overlaps
    <2>e. proc'[<<"disconnect", c>>] \in {Remover(c), proc[<<"disconnect", c>>]} BY <1>2, Starts
    <2>2. RecOK(proc'[<<"disconnect", c>>])
      <3>1. RecOK(Remover(c)) BY DEF RecOK, Remover
      <3> QED BY <1>0, <2>e, <3>1, Starts DEF RecOK
    <2>3. SliceOK(proc'[<<"disconnect", c>>].sl)
      <3>1. Remover(c).sl = NoSlice BY DEF Remover
      <3> QED BY <1>0, <2>e, <3>1, Starts DEF SliceOK
    <2>4. /\ <<"disconnect", c>> \in Procs /\ Fits
          /\ \A q \in Procs: q # <<"disconnect", c>> => proc'[q] = proc[q]
      BY <1>2, Starts
    <2>5. UNCHANGED <<clients, list, array, reader, status>> BY <1>2 DEF Disconnect
    <2> QED BY <1>0, <2>1, <2>2, <2>3, <2>4, <2>5, TypesKept
  <1>3. ASSUME NEW p \in Procs, Find(p) PROVE Types'
    <2>1. RecOK(proc'[p]) /\ SliceOK(proc'[p].sl) 
      <3>1. proc'[p] = [pc |-> "walk", sl |-> list, i |-> 1, target |-> 0] BY <1>3, ProcSteps DEF Becomes
      <3>2. RecOK(proc'[p]) BY <3>1 DEF RecOK
      <3>3. SliceOK(proc'[p].sl) BY <1>0, <3>1 DEF SliceOK
      <3> QED BY <3>2, <3>3
    <2>2. Fits /\ \A q \in Procs: q # p => proc'[q] = proc[q] BY <1>3, ProcSteps DEF Becomes
    <2> QED BY <1>0, <1>3, <2>1, <2>2, TypesKept DEF Find
  <1>4. ASSUME NEW p \in Procs, Walk(p) PROVE Types'
    <2>1. Fits /\ \A q \in Procs: q # p => proc'[q] = proc[q] BY <1>4, Walks DEF Becomes
    <2>i. proc[p].i \in Nat /\ proc[p].i >= 1 BY <1>0, <1>4, RecAt DEF Walk, At, RecOK
    <2>2. RecOK(proc'[p]) /\ SliceOK(proc'[p].sl)
      <3>1. \/ proc'[p] = [Idle EXCEPT !.pc = IF p[1] = "connect" THEN "add" ELSE "report"]
            \/ proc'[p] = [pc |-> proc[p].pc, sl |-> proc[p].sl, i |-> proc[p].i + 1, target |-> proc[p].target]
            \/ \E x: proc'[p] = Remover(x)
            \/ proc'[p] = Idle
        BY <1>4, Walks DEF Becomes
      <3>2. proc[p].pc = "walk" BY <1>4 DEF Walk, At
      <3>a. ASSUME proc'[p] = [Idle EXCEPT !.pc = IF p[1] = "connect" THEN "add" ELSE "report"]
            PROVE  RecOK(proc'[p]) /\ proc'[p].sl = NoSlice
        <4>1. proc'[p].pc \in {"add", "report"} /\ proc'[p].sl = NoSlice BY <3>a DEF Idle
        <4> QED BY <4>1 DEF RecOK
      <3>b. ASSUME proc'[p] = [pc |-> proc[p].pc, sl |-> proc[p].sl, i |-> proc[p].i + 1, target |-> proc[p].target]
            PROVE  RecOK(proc'[p]) /\ proc'[p].sl = proc[p].sl
        BY <2>i, <3>2, <3>b DEF RecOK
      <3>c. ASSUME NEW x, proc'[p] = Remover(x) PROVE RecOK(proc'[p]) /\ proc'[p].sl = NoSlice
        BY <3>c DEF RecOK, Remover
      <3>d. ASSUME proc'[p] = Idle PROVE RecOK(proc'[p]) /\ proc'[p].sl = NoSlice
        BY <3>d DEF RecOK, Idle
      <3>3. RecOK(proc'[p]) BY <3>1, <3>a, <3>b, <3>c, <3>d
      <3>4. proc'[p].sl \in {NoSlice, proc[p].sl} BY <3>1, <3>a, <3>b, <3>c, <3>d
      <3>5. SliceOK(proc'[p].sl) BY <1>0, <3>4 DEF SliceOK
      <3> QED BY <3>3, <3>5
    <2> QED BY <1>0, <1>4, <2>1, <2>2, TypesKept DEF Walk
  <1>5. ASSUME NEW p \in Procs, RemoveClient(p) PROVE Types'
    <2>1. Fits /\ \A q \in Procs: q # p => proc'[q] = proc[q] BY <1>5, ProcSteps DEF Becomes
    <2>2. RecOK(proc'[p]) /\ SliceOK(proc'[p].sl)
      <3>1. \/ proc'[p] = [pc |-> "rmLoad", sl |-> proc[p].sl, i |-> proc[p].i, target |-> proc[p].target]
            \/ proc'[p] = [Idle EXCEPT !.pc = AfterRemove(p)]
        BY <1>5, ProcSteps DEF Becomes
      <3>2. RecOK(proc'[p]) BY <3>1 DEF RecOK, Idle, AfterRemove
      <3>3. proc'[p].sl \in {NoSlice, proc[p].sl} BY <3>1 DEF Idle
      <3>4. SliceOK(proc'[p].sl) BY <1>0, <3>3 DEF SliceOK
      <3> QED BY <3>2, <3>4
    <2>3. reader' = [reader EXCEPT !.must = @ \ {proc[p].target}] BY <1>5 DEF RemoveClient
    <2>4. reader' \in Readers /\ reader'.sl = reader.sl /\ reader'.pc = reader.pc /\ reader'.i = reader.i
      BY <1>0, <2>3 DEF Readers
    <2> QED BY <1>0, <1>5, <2>1, <2>2, <2>4, TypesKept DEF RemoveClient
  <1>6. ASSUME NEW p \in Procs, RemoveLoad(p) PROVE Types'
    <2>1. Fits /\ \A q \in Procs: q # p => proc'[q] = proc[q] BY <1>6, ProcSteps DEF Becomes
    <2>2. RecOK(proc'[p]) /\ SliceOK(proc'[p].sl) 
      <3>1. proc'[p] = [pc |-> "rmLock", sl |-> list, i |-> 0, target |-> proc[p].target]
        BY <1>6, ProcSteps DEF Becomes
      <3>2. RecOK(proc'[p]) BY <3>1 DEF RecOK
      <3>3. SliceOK(proc'[p].sl) BY <1>0, <3>1 DEF SliceOK
      <3> QED BY <3>2, <3>3
    <2> QED BY <1>0, <1>6, <2>1, <2>2, TypesKept DEF RemoveLoad
  <1>7. ASSUME NEW p \in Procs, RemoveLocked(p) PROVE Types'
    <2>1. Fits /\ \A q \in Procs: q # p => proc'[q] = proc[q] BY <1>7, ProcSteps DEF Becomes
    <2>r. proc'[p] = [Idle EXCEPT !.pc = AfterRemove(p)] BY <1>7, ProcSteps DEF Becomes
    <2>2. RecOK(proc'[p]) /\ proc'[p].sl = NoSlice BY <2>r DEF RecOK, Idle, AfterRemove
    <2>3. CASE UNCHANGED <<list, array, reader, raced>>
      BY <1>0, <1>7, <2>1, <2>2, <2>3, TypesKept DEF RemoveLocked
    <2>4. ASSUME NEW k \in 1 .. proc[p].sl.len, proc[p].sl.arr \in Arrays, Taken(proc[p].sl, k),
                 reader' = [reader EXCEPT !.moved = @ \/ (reader.pc = "walk" /\ reader.sl.arr = proc[p].sl.arr)],
                 raced' \subseteq raced \cup {"list", "shift"}
          PROVE  Types'
      <3>1. raced' \subseteq Overlaps BY <1>0, <2>4 DEF Overlaps
      <3>2. \E b \in BOOLEAN: reader' = [reader EXCEPT !.moved = b]
        <4>1. (reader.moved \/ (reader.pc = "walk" /\ reader.sl.arr = proc[p].sl.arr)) \in BOOLEAN
          BY <1>0 DEF Readers
        <4> QED BY <2>4, <4>1
      <3> QED BY <1>0, <1>7, <2>1, <2>2, <2>4, <3>1, <3>2, TypesGrown DEF RemoveLocked
    <2> QED BY <1>7, <2>3, <2>4, RemoveEffect
  <1>8. ASSUME NEW p \in Procs, AddClient(p) PROVE Types'
    <2>1. Fits /\ \A q \in Procs: q # p => proc'[q] = proc[q] BY <1>8, ProcSteps DEF Becomes
    <2>2. RecOK(proc'[p]) /\ SliceOK(proc'[p].sl) 
      <3>1. proc'[p] = [pc |-> "addLoad", sl |-> proc[p].sl, i |-> proc[p].i, target |-> proc[p].target]
        BY <1>8, ProcSteps DEF Becomes
      <3>2. RecOK(proc'[p]) BY <3>1 DEF RecOK
      <3>3. SliceOK(proc'[p].sl) BY <1>0, <3>1 DEF SliceOK
      <3> QED BY <3>2, <3>3
    <2>3. clients' \subseteq Conns BY <1>0, <1>8, RecAt DEF AddClient
    <2> QED BY <1>0, <1>8, <2>1, <2>2, <2>3, TypesKept DEF AddClient
  <1>9. ASSUME NEW p \in Procs, NEW a \in Arrays, AddLoad(p, a) PROVE Types'
    <2>1. Fits /\ \A q \in Procs: q # p => proc'[q] = proc[q] BY <1>9, ProcSteps DEF Becomes
    <2>2. CASE list # NoSlice
      <3>1. RecOK(proc'[p]) /\ SliceOK(proc'[p].sl) 
        <4>1. proc'[p] = [pc |-> "addLock", sl |-> list, i |-> 0, target |-> 0]
          BY <1>9, <2>2, ProcSteps DEF Becomes
        <4>2. RecOK(proc'[p]) BY <2>2, <4>1 DEF RecOK
        <4>3. SliceOK(proc'[p].sl) BY <1>0, <4>1 DEF SliceOK
        <4> QED BY <4>2, <4>3
      <3> QED BY <1>0, <1>9, <2>1, <2>2, <3>1, TypesKept DEF AddLoad
    <2>3. CASE list = NoSlice
      <3>0. proc'[p] = [pc |-> "report", sl |-> proc[p].sl, i |-> proc[p].i, target |-> proc[p].target]
        BY <1>9, <2>3, ProcSteps DEF Becomes
      <3>1. RecOK(proc'[p]) BY <3>0 DEF RecOK
      <3>2. Grown(list, p[2], a) BY <1>9, <2>3, AddLoadEffect
      <3>3. proc'[p].sl = proc[p].sl BY <3>0
      <3> QED BY <1>0, <1>9, <2>1, <3>1, <3>2, <3>3, TypesGrown DEF AddLoad
    <2> QED BY <2>2, <2>3
  <1>10. ASSUME NEW p \in Procs, NEW a \in Arrays, AddLocked(p, a) PROVE Types'
    <2>1. Fits /\ \A q \in Procs: q # p => proc'[q] = proc[q] BY <1>10, ProcSteps DEF Becomes
    <2>r. proc'[p] = [Idle EXCEPT !.pc = "report"] BY <1>10, ProcSteps DEF Becomes
    <2>2. RecOK(proc'[p]) /\ proc'[p].sl = NoSlice BY <2>r DEF RecOK, Idle
    <2>3. PICK b \in Arrays: Grown(proc[p].sl, p[2], b) BY <1>10, AddLockedEffect
    <2>4. raced' \subseteq Overlaps BY <1>0, <1>10 DEF AddLocked, Overlaps
    <2> QED BY <1>0, <1>10, <2>1, <2>2, <2>3, <2>4, TypesGrown DEF AddLocked
  <1>11. ASSUME NEW p \in Procs, Report(p) PROVE Types'
    <2>1. Fits /\ proc'[p] = Idle /\ \A q \in Procs: q # p => proc'[q] = proc[q] BY <1>11, ProcSteps DEF Becomes
    <2>2. RecOK(proc'[p]) /\ SliceOK(proc'[p].sl) BY <1>0, <2>1 DEF RecOK, Idle
    <2>3. status' \in [Devices -> {"online", "offline"}]  BY <1>0, <1>11 DEF Report
    <2> QED BY <1>0, <1>11, <2>1, <2>2, <2>3, TypesKept DEF Report
  <1>12. CASE ReadStart \/ ReadNext
    <2>p. PICK p \in Procs: TRUE
      <3>1. 1 \in Conns BY ClientAssumption DEF Conns
      <3>2. <<"connect", 1>> \in Procs BY <3>1 DEF Procs
      <3> QED BY <3>2
    <2>1. Fits /\ \A q \in Procs: proc'[q] = proc[q] BY <1>12 DEF Types, Fits, ReadStart, ReadNext
    <2>2. SliceOK(proc'[p].sl) /\ RecOK(proc'[p]) BY <1>0, <2>1 DEF SliceOK, RecOK
    <2>3. reader' \in Readers /\ SliceOK(reader'.sl) /\ (reader'.pc = "walk" => reader'.i >= 1)
      <3>1. CASE ReadStart
        <4>1. reader' = [pc |-> "walk", sl |-> list, i |-> 1, got |-> {},
                  must |-> { c \in clients : proc[<<"connect", c>>] = Idle },
                  moved |-> FALSE, missed |-> {}]
          BY <3>1 DEF ReadStart
        <4>2. list \in Slices BY <1>0 DEF SliceOK
        <4> QED BY <1>0, <4>1, <4>2 DEF Readers, SliceOK
      <3>2. CASE ReadNext /\ reader.i > reader.sl.len
        <4>1. reader' = [pc |-> "done", sl |-> NoSlice, i |-> 0, got |-> {}, must |-> {},
                         moved |-> reader.moved, missed |-> reader.must \ reader.got]
          BY <3>2 DEF ReadNext
        <4> QED BY <1>0, <4>1, IdleRec DEF Readers, SliceOK
      <3>3. CASE ReadNext /\ ~(reader.i > reader.sl.len)
        <4> DEFINE g == IF Elem(reader.sl, reader.i) \in clients THEN reader.got \cup {Elem(reader.sl, reader.i)} ELSE reader.got
        <4>1. reader' = [pc |-> "walk", sl |-> reader.sl, i |-> reader.i + 1, got |-> g,
                         must |-> reader.must, moved |-> reader.moved, missed |-> {}]
          BY <3>3 DEF ReadNext
        <4>2. g \in SUBSET Conns BY <1>0 DEF Readers
        <4> HIDE DEF g
        <4>3. reader.i \in Nat /\ reader.sl \in Slices BY <1>0 DEF Readers
        <4>4. reader' \in Readers BY <1>0, <4>1, <4>2, <4>3 DEF Readers
        <4> QED BY <1>0, <4>1, <4>3, <4>4 DEF SliceOK
      <3> QED BY <1>12, <3>1, <3>2, <3>3
    <2> QED BY <1>0, <1>12, <2>1, <2>2, <2>3, TypesKept DEF ReadStart, ReadNext
  <1>13. CASE UNCHANGED vars
    BY <1>13 DEF vars, Types, SliceOK
  <1> QED BY <1>1, <1>2, <1>3, <1>4, <1>5, <1>6, <1>7, <1>8, <1>9, <1>10, <1>11, <1>12, <1>13 DEF Next

-----------------------------------------------------------------------------
(* One device at a time *)

\* No other handler is at the device of p.
Alone(p) == \A q \in Procs: q # p /\ proc[q].pc # "idle" => DeviceOf(q[2]) # DeviceOf(p[2])

\* Then what is being added or removed of the device is what p is doing.
LEMMA OwnDevice ==
  ASSUME Types, NEW p \in Procs, Alone(p), \A q \in Procs: Stage(q),
         NEW x \in Conns, DeviceOf(x) = DeviceOf(p[2])
  PROVE  /\ Adding(x) <=> p = <<"connect", x>> /\ proc[p].pc \in {"addLoad", "addLock"}
         /\ Removing(x) <=> proc[p].pc \in {"rmLoad", "rmLock"} /\ proc[p].target = x
  <1>1. <<"connect", x>> \in Procs /\ <<"connect", x>>[2] = x BY DEF Procs
  <1>2. Adding(x) => <<"connect", x>> = p BY <1>1 DEF Adding, Alone
  <1>3. ASSUME NEW q \in Procs, proc[q].pc \in {"rmLoad", "rmLock"}, proc[q].target = x PROVE q = p
    <2>1. DeviceOf(q[2]) = DeviceOf(p[2]) BY <1>3 DEF Stage, Knows
    <2> QED BY <1>3, <2>1 DEF Alone
  <1> QED BY <1>1, <1>2, <1>3 DEF Adding, Removing

\* What holds of the device of p, all of it the work of p.
Device(p) ==
    LET mine(c) == DeviceOf(c) = DeviceOf(p[2])
        pc == proc[p].pc
    IN  /\ \A c, d \in clients: mine(c) /\ mine(d) => c = d
        /\ \A x \in Conns: mine(x) =>
              (x \in Listed <=> \/ x \in clients /\ ~(p = <<"connect", x>> /\ pc \in {"addLoad", "addLock"})
                                \/ pc \in {"rmLoad", "rmLock"} /\ proc[p].target = x)
        /\ \A c \in Conns: mine(c) /\ sock[c] = "new" =>
              c \notin clients /\ c \notin Listed /\ (c = p[2] => pc = "idle")
        /\ \A c \in clients: mine(c) => sock[c] = "open" \/ (p = <<"disconnect", c>> /\ pc = "rm")
        /\ pc = "idle" => (status[DeviceOf(p[2])] = "online" <=> \E c \in clients: mine(c))

LEMMA DeviceHas ==
  ASSUME Types, Clean, NEW p \in Procs, Alone(p)
  PROVE  Device(p)
  <1> USE DEF Clean
  <1>p. p[2] \in Conns /\ \A q \in Procs: q[2] \in Conns BY DEF Procs
  <1>1. \A c, d \in clients: DeviceOf(c) = DeviceOf(p[2]) /\ DeviceOf(d) = DeviceOf(p[2]) => c = d
    BY DEF Exclusive
  <1>2. ASSUME NEW x \in Conns, DeviceOf(x) = DeviceOf(p[2])
        PROVE  x \in Listed <=> \/ x \in clients /\ ~(p = <<"connect", x>> /\ proc[p].pc \in {"addLoad", "addLock"})
                                \/ proc[p].pc \in {"rmLoad", "rmLock"} /\ proc[p].target = x
    BY <1>2, OwnDevice DEF Exact
  <1>3. \A c \in Conns: DeviceOf(c) = DeviceOf(p[2]) /\ sock[c] = "new" =>
              c \notin clients /\ c \notin Listed /\ (c = p[2] => proc[p].pc = "idle")
    BY DEF Sockets
  <1>4. ASSUME NEW c \in clients, DeviceOf(c) = DeviceOf(p[2])
        PROVE  sock[c] = "open" \/ (p = <<"disconnect", c>> /\ proc[p].pc = "rm")
    <2>1. <<"disconnect", c>> \in Procs /\ <<"disconnect", c>>[2] = c BY DEF Procs, Types
    <2> QED BY <1>4, <2>1 DEF Sockets, Alone
  <1>5. ASSUME proc[p].pc = "idle"
        PROVE  status[DeviceOf(p[2])] = "online" <=> \E c \in clients: DeviceOf(c) = DeviceOf(p[2])
    <2>1. DeviceOf(p[2]) \in Devices BY <1>p DEF Devices
    <2>2. \A q \in Procs: DeviceOf(q[2]) = DeviceOf(p[2]) => proc[q].pc = "idle" BY <1>5 DEF Alone
    <2> QED BY <2>1, <2>2 DEF Reported
  <1> QED BY <1>1, <1>2, <1>3, <1>4, <1>5 DEF Device

\* Outside the device of p nothing changes.
Apart(p) ==
    /\ \A q \in Procs: q # p => proc'[q] = proc[q]
    /\ clients' \subseteq Conns
    /\ \A c \in Conns: DeviceOf(c) # DeviceOf(p[2]) => (c \in clients' <=> c \in clients)
    /\ \A c \in Conns: c # p[2] => sock'[c] = sock[c]
    /\ \A d \in Devices: d # DeviceOf(p[2]) => status'[d] = status[d]

\* The list keeps the connections of other devices, and other handlers still
\* find what they look for.
ListKept(p) ==
    /\ \A x \in Conns: DeviceOf(x) # DeviceOf(p[2]) => (x \in Listed' <=> x \in Listed)
    /\ \A x \in Listed': x \in Conns
    /\ \A i, j \in 1 .. list'.len: Elem(list, i)' = Elem(list, j)' => i = j
    /\ \A q \in Procs: q # p /\ proc[q].pc = "rmLock" => InView(proc[q].target, proc[q].sl, 1)'
    /\ \A q \in Procs: q # p /\ q[1] = "connect" /\ proc[q].pc = "walk" =>
          Behind(proc[q].sl)' /\ \A y \in Mine(q): InView(y, proc[q].sl, proc[q].i)'

LEMMA DeviceStep ==
  ASSUME Types, Clean, NEW p \in Procs, Alone(p),
         Apart(p), ListKept(p), Device(p)', Stage(p)', Reading'
  PROVE  Clean'
  <1> USE DEF Clean, Apart, ListKept
  <1>p. p[2] \in Conns /\ \A q \in Procs: q[2] \in Conns BY DEF Procs
  <1>1. \A q \in Procs: Stage(q)'
    <2> TAKE q \in Procs
    <2>1. CASE q = p BY <2>1
    <2>2. CASE q # p /\ proc[q].pc = "idle" BY <2>2 DEF Stage, Knows, Sees
    <2>3. CASE q # p /\ proc[q].pc # "idle"
      <3>1. DeviceOf(q[2]) # DeviceOf(p[2]) BY <2>3 DEF Alone
      <3>2. proc'[q] = proc[q] /\ sock'[q[2]] = sock[q[2]] BY <1>p, <2>3, <3>1
      <3>3. Mine(q)' = Mine(q)
        <4>1. \A c \in Conns: DeviceOf(c) = DeviceOf(q[2]) => (c \in clients' <=> c \in clients) BY <3>1
        <4> QED BY <4>1 DEF Mine, Types
      <3>4. (q[2] \in Listed' <=> q[2] \in Listed) /\ (q[2] \in clients' <=> q[2] \in clients) BY <1>p, <3>1
      <3>5. Stage(q) OBVIOUS
      <3>6. (proc[q].pc = "rmLock" => InView(proc[q].target, proc[q].sl, 1))'
        BY <2>3, <3>2 DEF InView, Elem
      <3>7. (q[1] = "connect" /\ proc[q].pc = "walk" =>
               Behind(proc[q].sl) /\ \A y \in Mine(q): InView(y, proc[q].sl, proc[q].i))'
        BY <2>3, <3>2, <3>3 DEF InView, Behind, Elem
      <3>8. Knows(q)' BY <3>2, <3>3, <3>4, <3>5 DEF Stage, Knows
      <3>9. Sees(q)' BY <3>6, <3>7 DEF Sees
      <3> QED BY <3>8, <3>9 DEF Stage
    <2> QED BY <2>1, <2>2, <2>3
  <1>2. Exclusive'
    <2>1. \A q, r \in Procs: proc'[q].pc # "idle" /\ proc'[r].pc # "idle" /\ DeviceOf(q[2]) = DeviceOf(r[2]) => q = r
      BY DEF Exclusive, Alone
    <2>2. \A c, d \in clients': DeviceOf(c) = DeviceOf(d) => c = d BY DEF Exclusive, Device
    <2> QED BY <2>1, <2>2 DEF Exclusive
  <1>3. \A x \in Conns: x \in Listed' <=> (x \in clients' /\ ~Adding(x)') \/ Removing(x)'
    <2> TAKE x \in Conns
    <2>1. CASE DeviceOf(x) = DeviceOf(p[2])
      <3>1. <<"connect", x>> \in Procs /\ <<"connect", x>>[2] = x BY DEF Procs
      <3>2. Adding(x)' <=> p = <<"connect", x>> /\ proc'[p].pc \in {"addLoad", "addLock"}
        BY <2>1, <3>1 DEF Adding, Alone
      <3>3. ASSUME NEW q \in Procs, proc'[q].pc \in {"rmLoad", "rmLock"}, proc'[q].target = x PROVE q = p
        <4>1. DeviceOf(q[2]) = DeviceOf(p[2]) BY <1>1, <2>1, <3>3 DEF Stage, Knows
        <4> QED BY <3>3, <4>1 DEF Alone
      <3>4. Removing(x)' <=> proc'[p].pc \in {"rmLoad", "rmLock"} /\ proc'[p].target = x
        BY <3>3 DEF Removing
      <3> QED BY <2>1, <3>2, <3>4 DEF Device
    <2>2. CASE DeviceOf(x) # DeviceOf(p[2])
      <3>1. <<"connect", x>> # p BY <2>2
      <3>2. <<"connect", x>> \in Procs BY DEF Procs
      <3>3. Adding(x)' <=> Adding(x) BY <3>1, <3>2 DEF Adding
      <3>4. proc[p].pc \in {"rmLoad", "rmLock"} => proc[p].target # x BY <2>2 DEF Stage, Knows
      <3>5. proc'[p].pc \in {"rmLoad", "rmLock"} => proc'[p].target # x BY <1>1, <2>2 DEF Stage, Knows
      <3>6. Removing(x)' <=> Removing(x) BY <3>4, <3>5 DEF Removing
      <3> QED BY <2>2, <3>3, <3>6 DEF Exact
    <2> QED BY <2>1, <2>2
  <1>4. Exact' BY <1>3 DEF Exact
  <1>5. Sockets'
    <2>1. ASSUME NEW c \in Conns, sock'[c] = "new"
          PROVE  c \notin clients' /\ c \notin Listed' /\ \A q \in Procs: q[2] = c => proc'[q].pc = "idle"
      <3>1. CASE DeviceOf(c) = DeviceOf(p[2])
        <4>1. c \notin clients' /\ c \notin Listed' /\ (c = p[2] => proc'[p].pc = "idle") BY <2>1, <3>1 DEF Device
        <4> QED BY <2>1, <3>1, <4>1 DEF Alone
      <3>2. CASE DeviceOf(c) # DeviceOf(p[2]) BY <2>1, <3>2 DEF Sockets
      <3> QED BY <3>1, <3>2
    <2>2. ASSUME NEW c \in clients' PROVE sock'[c] = "open" \/ proc'[<<"disconnect", c>>].pc = "rm"
      <3>1. CASE DeviceOf(c) = DeviceOf(p[2]) BY <3>1 DEF Device
      <3>2. CASE DeviceOf(c) # DeviceOf(p[2])
        <4>1. c \in clients /\ c \in Conns /\ sock'[c] = sock[c] BY <3>2
        <4>2. <<"disconnect", c>> \in Procs /\ <<"disconnect", c>> # p BY <3>2, <4>1 DEF Procs
        <4> QED BY <4>1, <4>2 DEF Sockets
      <3> QED BY <3>1, <3>2
    <2> QED BY <2>1, <2>2 DEF Sockets
  <1>6. Reported'
    <2> SUFFICES ASSUME NEW d \in Devices, \A q \in Procs: DeviceOf(q[2]) = d => proc'[q].pc = "idle"
                 PROVE  status'[d] = "online" <=> \E c \in clients': DeviceOf(c) = d
      BY DEF Reported
    <2>1. CASE d = DeviceOf(p[2]) BY <2>1 DEF Device
    <2>2. CASE d # DeviceOf(p[2])
      <3>1. \A q \in Procs: DeviceOf(q[2]) = d => proc[q].pc = "idle" BY <2>2
      <3>2. status[d] = "online" <=> \E c \in clients: DeviceOf(c) = d BY <3>1 DEF Reported
      <3> QED BY <2>2, <3>2 DEF Types
    <2> QED BY <2>1, <2>2
  <1> QED BY <1>1, <1>2, <1>4, <1>5, <1>6

-----------------------------------------------------------------------------
(* Steps that leave the list alone *)

LEMMA SameList ==
  ASSUME Types, Clean, NEW p \in Procs, Apart(p), UNCHANGED <<list, array>>
  PROVE  Listed' = Listed /\ ListKept(p)
  <1>1. Listed' = Listed BY DEF Listed, Elem
  <1>2. \A x \in Listed': x \in Conns BY <1>1 DEF Clean, Exact
  <1>3. \A i, j \in 1 .. list'.len: Elem(list, i)' = Elem(list, j)' => i = j BY DEF Clean, Exact, Elem
  <1>4. ASSUME NEW q \in Procs, q # p, proc[q].pc = "rmLock" PROVE InView(proc[q].target, proc[q].sl, 1)'
    <2>1. proc'[q] = proc[q] BY <1>4 DEF Apart
    <2>2. InView(proc[q].target, proc[q].sl, 1) BY <1>4 DEF Clean, Stage, Sees
    <2> QED BY <2>1, <2>2 DEF InView, Elem
  <1>5. ASSUME NEW q \in Procs, q # p, q[1] = "connect", proc[q].pc = "walk"
        PROVE  Behind(proc[q].sl)' /\ \A y \in Mine(q): InView(y, proc[q].sl, proc[q].i)'
    <2>1. proc'[q] = proc[q] BY <1>5 DEF Apart
    <2>2. Behind(proc[q].sl) /\ \A y \in Mine(q): InView(y, proc[q].sl, proc[q].i) BY <1>5 DEF Clean, Stage, Sees
    <2> QED BY <2>1, <2>2 DEF InView, Elem, Behind
  <1> QED BY <1>1, <1>2, <1>3, <1>4, <1>5 DEF ListKept

LEMMA SameReader ==
  ASSUME Types, Clean, UNCHANGED <<list, array>>, reader'.pc = reader.pc, reader'.sl = reader.sl,
         reader'.i = reader.i, reader'.got = reader.got, reader'.moved = reader.moved,
         reader'.missed = reader.missed, reader'.must \subseteq reader.must,
         \A c \in reader'.must: c \in clients => c \in clients'
  PROVE  Reading'
  <1>1. ASSUME reader.pc = "walk", ~reader.moved
        PROVE  Behind(reader.sl)' /\ \A c \in reader'.must: c \in clients' /\ (c \in reader'.got \/ InView(c, reader.sl, reader.i)')
    <2>1. Behind(reader.sl) /\ \A c \in reader.must: c \in clients /\ (c \in reader.got \/ InView(c, reader.sl, reader.i))
      BY <1>1 DEF Clean, Reading
    <2> QED BY <2>1 DEF Behind, InView, Elem
  <1>2. reader.pc = "done" /\ ~reader.moved => reader.missed = {} BY DEF Clean, Reading
  <1> QED BY <1>1, <1>2 DEF Reading

\* A handler that runs has its device to itself.
LEMMA RunsAlone ==
  ASSUME Clean, NEW p \in Procs, proc[p].pc # "idle"
  PROVE  Alone(p)
  BY DEF Clean, Exclusive, Alone

LEMMA NotBusy ==
  ASSUME Types, NEW c \in Conns, ~Busy(c), NEW k \in {"connect", "disconnect"}
  PROVE  <<k, c>> \in Procs /\ <<k, c>>[1] = k /\ <<k, c>>[2] = c /\ Alone(<<k, c>>) /\ proc[<<k, c>>] = Idle
  <1>1. <<k, c>> \in Procs BY DEF Procs
  <1>2. \A q \in Procs: DeviceOf(q[2]) = DeviceOf(c) => proc[q] = Idle BY DEF Busy
  <1>3. Idle.pc = "idle" BY DEF Idle
  <1> QED BY <1>1, <1>2, <1>3 DEF Alone

LEMMA ConnectStep ==
  ASSUME Types, Clean, NEW c \in Conns, Connect(c), raced' = {}
  PROVE  Clean'
  <1> DEFINE p == <<"connect", c>>
  <1>0. ~Busy(c) BY DEF Connect, Record
  <1>1. p \in Procs /\ p[1] = "connect" /\ p[2] = c /\ Alone(p) /\ proc[p] = Idle BY <1>0, NotBusy
  <1>2. Goto(p, "find") /\ sock[c] = "new" /\ sock' = [sock EXCEPT ![c] = "open"]
        /\ UNCHANGED <<clients, list, array, reader, status>>
    BY DEF Connect
  <1> HIDE DEF p
  <1>3. /\ \A q \in Procs: q # p => proc'[q] = proc[q]
        /\ proc'[p] = [pc |-> "find", sl |-> proc[p].sl, i |-> proc[p].i, target |-> proc[p].target]
    BY <1>1, <1>2, Gone DEF PCs
  <1>4. sock'[c] = "open" /\ \A d \in Conns: d # c => sock'[d] = sock[d] BY <1>2 DEF Types
  <1>5. Apart(p) BY <1>1, <1>2, <1>3, <1>4 DEF Apart, Types
  <1>6. Listed' = Listed /\ ListKept(p) BY <1>1, <1>2, <1>5, SameList
  <1>7. proc'[p].pc = "find" /\ proc[p].pc = "idle" BY <1>1, <1>3 DEF Idle
  <1>8. Device(p) BY <1>1, DeviceHas
  <1>9. Device(p)' BY <1>1, <1>2, <1>4, <1>6, <1>7, <1>8 DEF Device
  <1>10. c \notin clients /\ c \notin Listed BY <1>2 DEF Clean, Sockets
  <1>11. Stage(p)' BY <1>1, <1>2, <1>4, <1>6, <1>7, <1>10 DEF Stage, Knows, Sees
  <1>12. Reading' BY <1>2, SameReader
  <1> QED BY <1>1, <1>5, <1>6, <1>9, <1>11, <1>12, DeviceStep

LEMMA DisconnectStep ==
  ASSUME Types, Clean, NEW c \in Conns, Disconnect(c), raced' = {}
  PROVE  Clean'
  <1> DEFINE p == <<"disconnect", c>>
  <1>0. ~Busy(c) BY DEF Disconnect, Record
  <1>1. p \in Procs /\ p[1] = "disconnect" /\ p[2] = c /\ Alone(p) /\ proc[p] = Idle BY <1>0, NotBusy
  <1>2. /\ proc' = IF c \in clients THEN [proc EXCEPT ![p] = Remover(c)] ELSE proc
        /\ sock[c] = "open" /\ sock' = [sock EXCEPT ![c] = "closed"]
        /\ UNCHANGED <<clients, list, array, reader, status>>
    BY DEF Disconnect
  <1>d. \A x: p = <<"disconnect", x>> <=> x = c OBVIOUS
  <1> HIDE DEF p
  <1>3. /\ \A q \in Procs: q # p => proc'[q] = proc[q]
        /\ proc'[p] = IF c \in clients THEN Remover(c) ELSE Idle
    BY <1>1, <1>2 DEF Types
  <1>4. sock'[c] = "closed" /\ \A d \in Conns: d # c => sock'[d] = sock[d] BY <1>2 DEF Types
  <1>5. Apart(p) BY <1>1, <1>2, <1>3, <1>4 DEF Apart, Types
  <1>6. Listed' = Listed /\ ListKept(p) BY <1>1, <1>2, <1>5, SameList
  <1>7. /\ proc[p].pc = "idle"
        /\ c \in clients => proc'[p].pc = "rm" /\ proc'[p].target = c
        /\ c \notin clients => proc'[p].pc = "idle"
    BY <1>1, <1>3 DEF Idle, Remover
  <1>8. Device(p) BY <1>1, DeviceHas
  <1>9. Device(p)'
    <2>0. clients \subseteq Conns BY DEF Types
    <2>1. CASE c \in clients
      <3>1. \A x \in Conns: DeviceOf(x) = DeviceOf(p[2]) => (x \in Listed <=> x \in clients) BY <1>7, <1>8 DEF Device
      <3>2. \A x \in clients: DeviceOf(x) = DeviceOf(p[2]) => x = c BY <1>1, <1>8, <2>1 DEF Device
      <3>3. \A x \in Conns: DeviceOf(x) = DeviceOf(p[2]) /\ sock'[x] = "new" => x \notin clients /\ x # c
        BY <1>4, <1>8, <2>1 DEF Device
      <3> QED BY <1>1, <1>2, <1>6, <1>7, <1>d, <2>0, <2>1, <3>1, <3>2, <3>3 DEF Device
    <2>2. CASE c \notin clients
      BY <1>1, <1>2, <1>4, <1>6, <1>7, <1>8, <2>0, <2>2 DEF Device
    <2> QED BY <2>1, <2>2
  <1>10. c \in clients => Mine(p)' = {c} BY <1>1, <1>2, <1>8 DEF Device, Mine
  <1>11. Stage(p)' BY <1>1, <1>4, <1>7, <1>10 DEF Stage, Knows, Sees
  <1>12. Reading' BY <1>2, SameReader
  <1> QED BY <1>1, <1>5, <1>6, <1>9, <1>11, <1>12, DeviceStep

\* A step of p that changes its own record only.
LEMMA OwnStep ==
  ASSUME Types, Clean, NEW p \in Procs, proc[p].pc # "idle",
         \A q \in Procs: q # p => proc'[q] = proc[q],
         UNCHANGED <<clients, list, array, reader, sock, status>>,
         Stage(p)', proc'[p].pc # "idle",
         proc[p].pc \in {"addLoad", "addLock"} <=> proc'[p].pc \in {"addLoad", "addLock"},
         proc[p].pc \in {"rmLoad", "rmLock"} <=> proc'[p].pc \in {"rmLoad", "rmLock"},
         proc[p].pc \in {"rmLoad", "rmLock"} => proc'[p].target = proc[p].target,
         proc[p].pc # "rm"
  PROVE  Clean'
  <1>1. Alone(p) BY RunsAlone
  <1>2. Apart(p) BY DEF Apart, Types
  <1>3. Listed' = Listed /\ ListKept(p) BY <1>2, SameList
  <1>4. Device(p) BY <1>1, DeviceHas
  <1>5. Device(p)' BY <1>3, <1>4 DEF Device
  <1>6. Reading' BY SameReader
  <1> QED BY <1>1, <1>2, <1>3, <1>5, <1>6, DeviceStep

\* The connections of a device that are in the list are in view from its start.
LEMMA ListedInView ==
  ASSUME NEW x, x \in Listed
  PROVE  InView(x, list, 1)
  BY DEF Listed, InView

LEMMA FindStep ==
  ASSUME Types, Clean, NEW p \in Procs, Find(p)
  PROVE  Clean'
  <1>1. /\ proc'[p] = [pc |-> "walk", sl |-> list, i |-> 1, target |-> 0]
        /\ \A q \in Procs: q # p => proc'[q] = proc[q]
    BY ProcSteps DEF Becomes
  <1>2. proc[p].pc = "find" /\ UNCHANGED <<clients, list, array, reader, sock, status>> BY DEF Find, At
  <1>3. proc'[p].pc = "walk" /\ proc'[p].sl = list /\ proc'[p].i = 1 BY <1>1
  <1>4. Knows(p) /\ Device(p) BY <1>2, RunsAlone, DeviceHas DEF Clean, Stage
  <1>5. Listed' = Listed /\ Mine(p)' = Mine(p) BY <1>2 DEF Listed, Elem, Mine
  <1>6. Knows(p)' BY <1>2, <1>3, <1>4, <1>5 DEF Knows
  <1>7. \A y \in Mine(p): InView(y, list, 1)
    <2> TAKE y \in Mine(p)
    <2>1. y \in Listed BY <1>2, <1>4 DEF Device, Mine, Types
    <2> QED BY <2>1, ListedInView
  <1>8. Sees(p)'
    <2>1. Behind(list)' BY <1>2, SliceFacts DEF Behind, Types
    <2> QED BY <1>2, <1>3, <1>5, <1>7, <2>1 DEF Sees, InView, Elem, Behind
  <1> QED BY <1>1, <1>2, <1>3, <1>6, <1>8, OwnStep DEF Stage

LEMMA RemoveLoadStep ==
  ASSUME Types, Clean, NEW p \in Procs, RemoveLoad(p)
  PROVE  Clean'
  <1>1. /\ proc'[p] = [pc |-> "rmLock", sl |-> list, i |-> 0, target |-> proc[p].target]
        /\ \A q \in Procs: q # p => proc'[q] = proc[q]
    BY ProcSteps DEF Becomes
  <1>2. proc[p].pc = "rmLoad" /\ UNCHANGED <<clients, list, array, reader, sock, status>> BY DEF RemoveLoad, At
  <1>3. proc'[p].pc = "rmLock" /\ proc'[p].sl = list /\ proc'[p].target = proc[p].target BY <1>1
  <1>4. Knows(p) /\ Device(p) BY <1>2, RunsAlone, DeviceHas DEF Clean, Stage
  <1>5. Listed' = Listed /\ Mine(p)' = Mine(p) BY <1>2 DEF Listed, Elem, Mine
  <1>6. Knows(p)' BY <1>2, <1>3, <1>4, <1>5 DEF Knows
  <1>7. proc[p].target \in Listed BY <1>2, <1>4 DEF Device, Knows
  <1>8. InView(proc[p].target, list, 1) BY <1>7, ListedInView
  <1>9. Sees(p)' BY <1>2, <1>3, <1>8 DEF Sees, InView, Elem
  <1> QED BY <1>1, <1>2, <1>3, <1>6, <1>9, OwnStep DEF Stage

\* A handleConnect that has walked past the end has met no connection of its
\* device, and one that meets a connection has met the only one.
LEMMA WalkStep ==
  ASSUME Types, Clean, NEW p \in Procs, Walk(p)
  PROVE  Clean'
  <1> DEFINE w == proc[p]
             x == Elem(w.sl, w.i)
  <1>1. w.pc = "walk" /\ UNCHANGED <<clients, list, array, reader, sock, status>> BY DEF Walk, At
  <1>2. Knows(p) /\ Sees(p) /\ Device(p) BY <1>1, RunsAlone, DeviceHas DEF Clean, Stage
  <1>3. Listed' = Listed /\ Mine(p)' = Mine(p) BY <1>1 DEF Listed, Elem, Mine
  <1>4. w.i \in Nat /\ w.sl.len \in Nat /\ p[1] \in {"connect", "disconnect"} /\ p[2] \in Conns
    BY RecAt, SliceFacts DEF Types
  <1>5. ASSUME w.i > w.sl.len, Becomes(p, [Idle EXCEPT !.pc = IF p[1] = "connect" THEN "add" ELSE "report"])
        PROVE  Clean'
    <2>1. proc'[p].pc = (IF p[1] = "connect" THEN "add" ELSE "report") /\ \A q \in Procs: q # p => proc'[q] = proc[q]
      BY <1>5 DEF Becomes, Idle
    <2>2. Mine(p) = {}
      <3>1. CASE p[1] = "connect"
        <4>1. ASSUME NEW y \in Mine(p) PROVE FALSE
          <5>1. InView(y, w.sl, w.i) BY <1>1, <1>2, <3>1 DEF Sees
          <5>2. PICK j \in w.i .. w.sl.len: Elem(w.sl, j) = y BY <5>1 DEF InView
          <5> QED BY <1>4, <1>5, <5>2
        <4> QED BY <4>1
      <3>2. CASE p[1] = "disconnect" BY <1>1, <1>2, <3>2 DEF Knows
      <3> QED BY <1>4, <3>1, <3>2
    <2>3. Knows(p)' BY <1>1, <1>2, <1>3, <1>4, <2>1, <2>2 DEF Knows
    <2>4. Sees(p)' BY <2>1 DEF Sees
    <2> QED BY <1>1, <2>1, <2>3, <2>4, OwnStep DEF Stage
  <1>6. ASSUME w.i <= w.sl.len, ~Matches(p, x),
               Becomes(p, [pc |-> w.pc, sl |-> w.sl, i |-> w.i + 1, target |-> w.target])
        PROVE  Clean'
    <2>0. proc'[p] = [pc |-> w.pc, sl |-> w.sl, i |-> w.i + 1, target |-> w.target] BY <1>6 DEF Becomes
    <2>1. /\ proc'[p].pc = "walk" /\ proc'[p].sl = w.sl /\ proc'[p].i = w.i + 1
          /\ \A q \in Procs: q # p => proc'[q] = proc[q]
      BY <1>1, <1>6, <2>0 DEF Becomes
    <2>2. Knows(p)' BY <1>1, <1>2, <1>3, <2>1 DEF Knows
    <2>3. ASSUME p[1] = "connect" PROVE Behind(w.sl) /\ \A y \in Mine(p): InView(y, w.sl, w.i + 1)
      <3>1. ASSUME NEW y \in Mine(p) PROVE InView(y, w.sl, w.i + 1)
        <4>1. InView(y, w.sl, w.i) BY <1>1, <1>2, <2>3 DEF Sees
        <4>2. PICK j \in w.i .. w.sl.len: Elem(w.sl, j) = y BY <4>1 DEF InView
        <4>3. j # w.i BY <1>6, <4>2 DEF Matches, Mine
        <4>4. j \in w.i + 1 .. w.sl.len BY <1>4, <4>2, <4>3
        <4> QED BY <4>2, <4>4 DEF InView
      <3> QED BY <1>1, <1>2, <2>3, <3>1 DEF Sees
    <2>4. Sees(p)' BY <1>1, <1>3, <2>1, <2>3 DEF Sees, InView, Behind, Elem
    <2> QED BY <1>1, <2>1, <2>2, <2>4, OwnStep DEF Stage
  <1>7. ASSUME Matches(p, x), Becomes(p, IF p[1] = "connect" THEN Remover(x) ELSE Idle) PROVE Clean'
    <2>1. x \in Mine(p) BY <1>7 DEF Matches, Mine
    <2>2. p[1] = "connect" BY <1>1, <1>2, <1>4, <2>1 DEF Knows
    <2> HIDE DEF x
    <2>3. proc'[p] = Remover(x) BY <1>7, <2>2 DEF Becomes
    <2>4. proc'[p].pc = "rm" /\ proc'[p].target = x /\ \A q \in Procs: q # p => proc'[q] = proc[q]
      BY <1>7, <2>3 DEF Remover, Becomes
    <2>5. Mine(p) = {x} /\ x \in Conns /\ DeviceOf(x) = DeviceOf(p[2]) BY <1>2, <2>1 DEF Mine, Device, Types
    <2>6. Knows(p)' BY <1>1, <1>2, <1>3, <2>2, <2>4, <2>5 DEF Knows
    <2>7. Sees(p)' BY <2>4 DEF Sees
    <2> QED BY <1>1, <2>4, <2>6, <2>7, OwnStep DEF Stage
  <1> QED BY <1>5, <1>6, <1>7, Walks

LEMMA RemoveClientStep ==
  ASSUME Types, Clean, NEW p \in Procs, RemoveClient(p)
  PROVE  Clean'
  <1> DEFINE x == proc[p].target
  <1>1. /\ proc[p].pc = "rm" /\ clients' = clients \ {x} /\ reader' = [reader EXCEPT !.must = @ \ {x}]
        /\ UNCHANGED <<list, array, sock, status>>
    BY DEF RemoveClient, At
  <1>2. Alone(p) /\ Knows(p) /\ Device(p) BY <1>1, RunsAlone, DeviceHas DEF Clean, Stage
  <1>3. Mine(p) = {x} /\ x \in clients /\ x \in Conns /\ DeviceOf(x) = DeviceOf(p[2]) BY <1>1, <1>2 DEF Knows, Mine
  <1>4. /\ proc'[p] = [pc |-> "rmLoad", sl |-> proc[p].sl, i |-> proc[p].i, target |-> x]
        /\ \A q \in Procs: q # p => proc'[q] = proc[q]
    BY <1>3, ProcSteps DEF Becomes
  <1>5. proc'[p].pc = "rmLoad" /\ proc'[p].target = x BY <1>4
  <1>6. Apart(p) BY <1>1, <1>3, <1>4 DEF Apart, Types
  <1>7. Listed' = Listed /\ ListKept(p) BY <1>1, <1>6, SameList
  <1>8. Mine(p)' = {} BY <1>1, <1>3 DEF Mine
  <1>9. Device(p)' BY <1>1, <1>2, <1>3, <1>5, <1>7 DEF Device
  <1>10. Stage(p)' BY <1>1, <1>2, <1>5, <1>7, <1>8 DEF Stage, Knows, Sees
  <1>11. Reading'
    <2>1. reader \in Readers BY DEF Types, Readers
    <2>2. reader.must \ {x} \in SUBSET Conns BY <2>1 DEF Readers
    <2>3. /\ reader'.pc = reader.pc /\ reader'.sl = reader.sl /\ reader'.i = reader.i /\ reader'.got = reader.got
          /\ reader'.moved = reader.moved /\ reader'.missed = reader.missed /\ reader'.must = reader.must \ {x}
      BY <1>1, <2>1 DEF Readers
    <2> QED BY <1>1, <2>3, SameReader
  <1> QED BY <1>2, <1>6, <1>7, <1>9, <1>10, <1>11, DeviceStep

LEMMA AddClientStep ==
  ASSUME Types, Clean, NEW p \in Procs, AddClient(p)
  PROVE  Clean'
  <1>1. proc[p].pc = "add" /\ clients' = clients \cup {p[2]} /\ UNCHANGED <<list, array, reader, sock, status>>
    BY DEF AddClient, At
  <1>2. Alone(p) /\ Knows(p) /\ Device(p) BY <1>1, RunsAlone, DeviceHas DEF Clean, Stage
  <1>3. p[1] = "connect" /\ Mine(p) = {} /\ p[2] \notin Listed /\ p[2] \in Conns /\ sock[p[2]] = "open"
    BY <1>1, <1>2, RecAt DEF Knows
  <1>4. /\ proc'[p] = [pc |-> "addLoad", sl |-> proc[p].sl, i |-> proc[p].i, target |-> proc[p].target]
        /\ \A q \in Procs: q # p => proc'[q] = proc[q]
    BY ProcSteps DEF Becomes
  <1>5. proc'[p].pc = "addLoad" BY <1>4
  <1>6. Apart(p) BY <1>1, <1>3, <1>4 DEF Apart, Types
  <1>7. Listed' = Listed /\ ListKept(p) BY <1>1, <1>6, SameList
  <1>8. Mine(p)' = {p[2]} BY <1>1, <1>3 DEF Mine
  <1>9. Device(p)'
    <2>1. p = <<"connect", p[2]>> BY <1>3 DEF Procs
    <2>2. \A c \in clients: DeviceOf(c) # DeviceOf(p[2]) BY <1>3 DEF Mine
    <2> QED BY <1>1, <1>2, <1>3, <1>5, <1>7, <2>1, <2>2 DEF Device
  <1>10. Stage(p)' BY <1>1, <1>2, <1>3, <1>5, <1>7, <1>8 DEF Stage, Knows, Sees
  <1>11. Reading' BY <1>1, SameReader
  <1> QED BY <1>2, <1>6, <1>7, <1>9, <1>10, <1>11, DeviceStep

LEMMA AddLoadStep ==
  ASSUME Types, Clean, NEW p \in Procs, NEW a \in Arrays, AddLoad(p, a), list # NoSlice
  PROVE  Clean'
  <1>1. proc[p].pc = "addLoad" /\ UNCHANGED <<clients, list, array, reader, sock, status>> BY DEF AddLoad, At
  <1>2. /\ proc'[p] = [pc |-> "addLock", sl |-> list, i |-> 0, target |-> 0]
        /\ \A q \in Procs: q # p => proc'[q] = proc[q]
    BY ProcSteps DEF Becomes
  <1>3. proc'[p].pc = "addLock" BY <1>2
  <1>4. Knows(p) BY DEF Clean, Stage
  <1>5. Listed' = Listed /\ Mine(p)' = Mine(p) BY <1>1 DEF Listed, Elem, Mine
  <1>6. Knows(p)' BY <1>1, <1>3, <1>4, <1>5 DEF Knows
  <1>7. Sees(p)' BY <1>3 DEF Sees
  <1> QED BY <1>1, <1>2, <1>3, <1>6, <1>7, OwnStep DEF Stage

LEMMA ReportStep ==
  ASSUME Types, Clean, NEW p \in Procs, Report(p)
  PROVE  Clean'
  <1> DEFINE d == DeviceOf(p[2])
  <1>1. /\ proc[p].pc = "report"
        /\ status' = [status EXCEPT ![d] = IF p[1] = "connect" THEN "online" ELSE "offline"]
        /\ UNCHANGED <<clients, list, array, reader, sock>>
    BY DEF Report, At
  <1>2. Alone(p) /\ Knows(p) /\ Device(p) BY <1>1, RunsAlone, DeviceHas DEF Clean, Stage
  <1>3. proc'[p] = Idle /\ \A q \in Procs: q # p => proc'[q] = proc[q] BY ProcSteps DEF Becomes
  <1>4. proc'[p].pc = "idle" BY <1>3 DEF Idle
  <1>5. p[2] \in Conns /\ d \in Devices /\ p[1] \in {"connect", "disconnect"} BY RecAt DEF Devices
  <1>6. status'[d] = (IF p[1] = "connect" THEN "online" ELSE "offline") /\ \A e \in Devices: e # d => status'[e] = status[e]
    BY <1>1, <1>5 DEF Types
  <1>7. Apart(p) BY <1>1, <1>3, <1>6 DEF Apart, Types
  <1>8. Listed' = Listed /\ ListKept(p) BY <1>1, <1>7, SameList
  <1>9. IF p[1] = "connect" THEN Mine(p) = {p[2]} ELSE Mine(p) = {} BY <1>1, <1>2, <1>5 DEF Knows
  <1>10. status'[d] = "online" <=> \E c \in clients: DeviceOf(c) = d
    BY <1>5, <1>6, <1>9 DEF Mine
  <1>11. Device(p)' BY <1>1, <1>2, <1>4, <1>8, <1>10 DEF Device
  <1>12. Stage(p)' BY <1>4 DEF Stage, Knows, Sees
  <1>13. Reading' BY <1>1, SameReader
  <1> QED BY <1>2, <1>7, <1>8, <1>11, <1>12, <1>13, DeviceStep

LEMMA ReadStep ==
  ASSUME Types, Clean, ReadStart \/ ReadNext
  PROVE  Clean'
  <1>1. UNCHANGED <<clients, list, array, proc, sock, status>> BY DEF ReadStart, ReadNext
  <1>2. Listed' = Listed BY <1>1 DEF Listed, Elem
  <1>3. Exclusive' /\ Sockets' /\ Reported' BY <1>1, <1>2 DEF Clean, Exclusive, Sockets, Reported
  <1>4. Exact' BY <1>1, <1>2 DEF Clean, Exact, Adding, Removing, Elem
  <1>5. ASSUME NEW q \in Procs PROVE Stage(q)'
    <2>1. Knows(q) /\ Sees(q) BY DEF Clean, Stage
    <2>2. Mine(q)' = Mine(q) BY <1>1 DEF Mine
    <2>3. Knows(q)' BY <1>1, <1>2, <2>1, <2>2 DEF Knows
    <2>4. Sees(q)' BY <1>1, <2>1, <2>2 DEF Sees, InView, Behind, Elem
    <2> QED BY <2>3, <2>4 DEF Stage
  <1>6. CASE ReadStart
    <2>1. reader' = [pc |-> "walk", sl |-> list, i |-> 1, got |-> {},
                     must |-> { c \in clients : proc[<<"connect", c>>] = Idle },
                     moved |-> FALSE, missed |-> {}]
      BY <1>6 DEF ReadStart
    <2>2. /\ reader'.pc = "walk" /\ reader'.sl = list /\ reader'.i = 1
          /\ reader'.must = { c \in clients : proc[<<"connect", c>>] = Idle }
      BY <2>1
    <2>3. ASSUME NEW c \in clients, proc[<<"connect", c>>] = Idle PROVE InView(c, list, 1)
      <3>1. ~Adding(c) BY <2>3 DEF Adding, Idle
      <3>2. c \in Listed BY <3>1 DEF Clean, Exact, Types
      <3> QED BY <3>2, ListedInView
    <2>4. list.len \in Nat BY SliceFacts DEF Types
    <2>5. Reading' BY <1>1, <2>2, <2>3, <2>4 DEF Reading, Behind, InView, Elem
    <2> QED BY <1>3, <1>4, <1>5, <2>5 DEF Clean
  <1>7. CASE ReadNext
    <2>0. /\ reader.pc = "walk" /\ reader.i \in Nat /\ reader.sl.len \in Nat
          /\ ~reader.moved =>
                Behind(reader.sl) /\ \A c \in reader.must: c \in clients /\ (c \in reader.got \/ InView(c, reader.sl, reader.i))
      BY <1>7, SliceFacts DEF ReadNext, Types, Clean, Reading
    <2>1. CASE reader.i > reader.sl.len
      <3>1. reader' = [pc |-> "done", sl |-> NoSlice, i |-> 0, got |-> {}, must |-> {},
                       moved |-> reader.moved, missed |-> reader.must \ reader.got]
        BY <1>7, <2>1 DEF ReadNext
      <3>2. reader'.pc = "done" /\ reader'.moved = reader.moved /\ reader'.missed = reader.must \ reader.got BY <3>1
      <3>3. \A c: ~InView(c, reader.sl, reader.i) BY <2>0, <2>1 DEF InView
      <3>4. ~reader.moved => reader'.missed = {} BY <2>0, <3>2, <3>3
      <3>5. Reading' BY <3>2, <3>4 DEF Reading
      <3> QED BY <1>3, <1>4, <1>5, <3>5 DEF Clean
    <2>2. CASE ~(reader.i > reader.sl.len)
      <3> DEFINE x == Elem(reader.sl, reader.i)
                 g == IF x \in clients THEN reader.got \cup {x} ELSE reader.got
      <3>1. reader' = [pc |-> "walk", sl |-> reader.sl, i |-> reader.i + 1, got |-> g,
                       must |-> reader.must, moved |-> reader.moved, missed |-> {}]
        BY <1>7, <2>2 DEF ReadNext
      <3>2. /\ reader'.pc = "walk" /\ reader'.sl = reader.sl /\ reader'.i = reader.i + 1 /\ reader'.got = g
            /\ reader'.must = reader.must /\ reader'.moved = reader.moved
        BY <3>1
      <3>3. ASSUME NEW c \in reader.must, ~reader.moved PROVE c \in g \/ InView(c, reader.sl, reader.i + 1)
        <4>1. CASE c \in reader.got BY <4>1
        <4>2. CASE c \notin reader.got
          <5>1. c \in clients /\ InView(c, reader.sl, reader.i) BY <2>0, <3>3, <4>2
          <5>2. PICK j \in reader.i .. reader.sl.len: Elem(reader.sl, j) = c BY <5>1 DEF InView
          <5>3. CASE j = reader.i BY <5>1, <5>2, <5>3
          <5>4. CASE j # reader.i
            <6>1. j \in reader.i + 1 .. reader.sl.len BY <2>0, <5>2, <5>4
            <6> QED BY <5>2, <6>1 DEF InView
          <5> QED BY <5>3, <5>4
        <4> QED BY <4>1, <4>2
      <3> HIDE DEF g
      <3>4. Reading' BY <1>1, <2>0, <3>2, <3>3 DEF Reading, Behind, InView, Elem
      <3> QED BY <1>3, <1>4, <1>5, <3>4 DEF Clean
    <2> QED BY <2>1, <2>2
  <1> QED BY <1>6, <1>7

-----------------------------------------------------------------------------
(* Steps that change the list *)

\* What a shift leaves in the list: all but its target, each once.
LEMMA TakenList ==
  ASSUME Types, Exact, NEW k \in 1 .. list.len, Taken(list, k), list.arr \in Arrays
  PROVE  /\ Listed' = Listed \ {Elem(list, k)}
         /\ \A i, j \in 1 .. list'.len: Elem(list, i)' = Elem(list, j)' => i = j
  <1> DEFINE t == Elem(list, k)
             A == array[list.arr]
             n == list.len
  <1>1. n \in Nat /\ Len(A) \in Nat /\ n <= Len(A) BY SliceFacts DEF Types
  <1>2. list'.arr = list.arr /\ list'.len = n - 1 BY DEF Taken
  <1>3. ASSUME NEW i \in 1 .. n - 1
        PROVE  Elem(list, i)' = IF k <= i THEN Elem(list, i + 1) ELSE Elem(list, i)
    <2>1. i \in 1 .. Len(A) /\ i < n BY <1>1
    <2> QED BY <1>2, <2>1 DEF Elem, Taken
  <1>4. \A i, j \in 1 .. n: Elem(list, i) = Elem(list, j) => i = j BY DEF Exact
  <1>5. \A i, j \in 1 .. n - 1: Elem(list, i)' = Elem(list, j)' => i = j
    <2> TAKE i \in 1 .. n - 1, j \in 1 .. n - 1
    <2> HAVE Elem(list, i)' = Elem(list, j)'
    <2>1. i \in 1 .. n /\ i + 1 \in 1 .. n /\ j \in 1 .. n /\ j + 1 \in 1 .. n BY <1>1
    <2>2. CASE k <= i /\ k <= j BY <1>1, <1>3, <1>4, <2>1, <2>2
    <2>3. CASE k <= i /\ ~(k <= j)
      <3>1. Elem(list, i + 1) = Elem(list, j) BY <1>3, <2>3
      <3>2. i + 1 = j BY <1>4, <2>1, <3>1
      <3> QED BY <1>1, <2>3, <3>2
    <2>4. CASE ~(k <= i) /\ k <= j
      <3>1. Elem(list, j + 1) = Elem(list, i) BY <1>3, <2>4
      <3>2. j + 1 = i BY <1>4, <2>1, <3>1
      <3> QED BY <1>1, <2>4, <3>2
    <2>5. CASE ~(k <= i) /\ ~(k <= j) BY <1>3, <1>4, <2>1, <2>5
    <2> QED BY <2>2, <2>3, <2>4, <2>5
  <1>6. ASSUME NEW x \in Listed' PROVE x \in Listed \ {t}
    <2>1. PICK i \in 1 .. n - 1: x = Elem(list, i)' BY <1>2 DEF Listed
    <2>2. i \in 1 .. n /\ i + 1 \in 1 .. n BY <1>1
    <2>3. CASE k <= i
      <3>1. x = Elem(list, i + 1) /\ i + 1 # k BY <1>1, <1>3, <2>1, <2>3
      <3>2. x # t BY <1>4, <2>2, <3>1
      <3> QED BY <2>2, <3>1, <3>2 DEF Listed
    <2>4. CASE ~(k <= i)
      <3>1. x = Elem(list, i) /\ i # k BY <1>1, <1>3, <2>1, <2>4
      <3>2. x # t BY <1>4, <2>2, <3>1
      <3> QED BY <2>2, <3>1, <3>2 DEF Listed
    <2> QED BY <2>3, <2>4
  <1>7. ASSUME NEW x \in Listed, x # t PROVE x \in Listed'
    <2>1. PICK j \in 1 .. n: x = Elem(list, j) BY DEF Listed
    <2>2. j # k BY <1>7, <2>1
    <2>3. CASE j < k
      <3>1. j \in 1 .. n - 1 /\ ~(k <= j) BY <1>1, <2>3
      <3>2. x = Elem(list, j)' BY <1>3, <2>1, <3>1
      <3> QED BY <1>2, <3>1, <3>2 DEF Listed
    <2>4. CASE k < j
      <3>1. j - 1 \in 1 .. n - 1 /\ k <= j - 1 /\ (j - 1) + 1 = j BY <1>1, <2>4
      <3>2. x = Elem(list, j - 1)' BY <1>3, <2>1, <3>1
      <3> QED BY <1>2, <3>1, <3>2 DEF Listed
    <2> QED BY <1>1, <2>2, <2>3, <2>4
  <1> QED BY <1>2, <1>5, <1>6, <1>7

\* A shift of the list does not hide from a slice anything but its target.
LEMMA TakenView ==
  ASSUME Types, NEW k \in 1 .. list.len, Taken(list, k), list.arr \in Arrays,
         NEW s, SliceOK(s), NEW x, x # Elem(list, k), InView(x, s, 1)
  PROVE  \E j \in 1 .. s.len: array'[s.arr][j] = x
  <1>1. PICK j \in 1 .. s.len: Elem(s, j) = x BY DEF InView
  <1>2. s.len \in Nat /\ list.len \in Nat /\ s.arr \in Arrays
        /\ Len(array[s.arr]) \in Nat /\ s.len <= Len(array[s.arr])
    <2>1. s.len \in Nat /\ list.len \in Nat BY SliceFacts DEF Types
    <2>2. s.len > 0 BY <1>1, <2>1
    <2> QED BY <2>1, <2>2, SliceFacts
  <1>3. CASE s.arr # list.arr BY <1>1, <1>2, <1>3 DEF Taken, Elem
  <1>4. CASE s.arr = list.arr /\ (j < k \/ j > list.len)
    <2>1. j \in 1 .. Len(array[s.arr]) BY <1>2
    <2>2. array'[s.arr][j] = array[s.arr][j] BY <1>2, <1>4, <2>1 DEF Taken
    <2> QED BY <1>1, <2>2 DEF Elem
  <1>5. CASE s.arr = list.arr /\ k < j /\ j <= list.len
    <2>1. j - 1 \in 1 .. Len(array[s.arr]) /\ j - 1 \in 1 .. s.len /\ k <= j - 1 /\ j - 1 < list.len /\ (j - 1) + 1 = j
      BY <1>2, <1>5
    <2>2. array'[s.arr][j - 1] = array[s.arr][j] BY <1>5, <2>1 DEF Taken
    <2> QED BY <1>1, <2>1, <2>2 DEF Elem
  <1>6. j # k \/ s.arr # list.arr BY <1>1 DEF Elem
  <1> QED BY <1>2, <1>3, <1>4, <1>5, <1>6

LEMMA RemoveLockedStep ==
  ASSUME Types, Clean, NEW p \in Procs, RemoveLocked(p), raced' = {}
  PROVE  Clean'
  <1> DEFINE t == proc[p].target
             s == proc[p].sl
  <1>1. proc[p].pc = "rmLock" /\ UNCHANGED <<clients, sock, status>> BY DEF RemoveLocked, At
  <1>2. Alone(p) /\ Knows(p) /\ Sees(p) /\ Device(p) BY <1>1, RunsAlone, DeviceHas DEF Clean, Stage
  <1>3. InView(t, s, 1) BY <1>1, <1>2 DEF Sees
  <1>4. PICK k \in 1 .. s.len:
           /\ Elem(s, k) = t /\ s.arr \in Arrays /\ Taken(s, k)
           /\ reader' = [reader EXCEPT !.moved = @ \/ (reader.pc = "walk" /\ reader.sl.arr = s.arr)]
           /\ raced' = raced \cup (IF s # list THEN {"list"} ELSE {})
                         \cup (IF \E q \in Procs: /\ proc[q].pc = "walk" /\ proc[q].sl.arr = s.arr
                                                  /\ q[1] = "connect"
                               THEN {"shift"} ELSE {})
    BY <1>3, RemoveEffect
  <1>5. s = list BY <1>4
  <1>6. \A q \in Procs: proc[q].pc = "walk" /\ q[1] = "connect" => proc[q].sl.arr # list.arr BY <1>4, <1>5
  <1>7. k \in 1 .. list.len /\ Elem(list, k) = t /\ list.arr \in Arrays /\ Taken(list, k) BY <1>4, <1>5
  <1>8. /\ t \in Conns /\ DeviceOf(t) = DeviceOf(p[2]) /\ Mine(p) = {} /\ p[1] \in {"connect", "disconnect"}
        /\ p[1] = "connect" => p[2] \notin Listed
    BY <1>1, <1>2, RecAt DEF Knows
  <1>9. proc'[p] = [Idle EXCEPT !.pc = AfterRemove(p)] /\ \A q \in Procs: q # p => proc'[q] = proc[q]
    BY ProcSteps DEF Becomes
  <1>10. proc'[p].pc = AfterRemove(p) BY <1>9 DEF Idle
  <1>11. /\ Listed' = Listed \ {t}
         /\ \A i, j \in 1 .. list'.len: Elem(list, i)' = Elem(list, j)' => i = j
    BY <1>7, TakenList DEF Clean
  <1>12. Apart(p) BY <1>1, <1>9 DEF Apart, Types
  <1>13. list'.arr = list.arr BY <1>7 DEF Taken
  <1>14. ListKept(p)
    <2>1. \A x \in Conns: DeviceOf(x) # DeviceOf(p[2]) => (x \in Listed' <=> x \in Listed) BY <1>8, <1>11
    <2>2. \A x \in Listed': x \in Conns BY <1>11 DEF Clean, Exact
    <2>3. ASSUME NEW q \in Procs, q # p, proc[q].pc = "rmLock" PROVE InView(proc[q].target, proc[q].sl, 1)'
      <3>1. proc'[q] = proc[q] BY <1>9, <2>3
      <3>2. InView(proc[q].target, proc[q].sl, 1) /\ DeviceOf(proc[q].target) = DeviceOf(q[2])
        BY <2>3 DEF Clean, Stage, Sees, Knows
      <3>3. DeviceOf(q[2]) # DeviceOf(p[2]) BY <1>2, <2>3 DEF Alone
      <3>4. proc[q].target # t BY <1>8, <3>2, <3>3
      <3>s. SliceOK(proc[q].sl) BY DEF Types
      <3>5. \E j \in 1 .. proc[q].sl.len: array'[proc[q].sl.arr][j] = proc[q].target
        BY <1>7, <3>2, <3>4, <3>s, TakenView
      <3> QED BY <3>1, <3>5 DEF InView, Elem
    <2>4. ASSUME NEW q \in Procs, q # p, q[1] = "connect", proc[q].pc = "walk"
          PROVE  Behind(proc[q].sl)' /\ \A y \in Mine(q): InView(y, proc[q].sl, proc[q].i)'
      <3>1. proc'[q] = proc[q] /\ proc[q].sl.arr # list.arr BY <1>6, <1>9, <2>4
      <3>2. \A y \in Mine(q): InView(y, proc[q].sl, proc[q].i) BY <2>4 DEF Clean, Stage, Sees
      <3>3. Behind(proc[q].sl)' BY <1>13, <3>1 DEF Behind
      <3>4. ASSUME NEW y \in Mine(q) PROVE InView(y, proc[q].sl, proc[q].i)'
        <4>1. PICK j \in proc[q].i .. proc[q].sl.len: Elem(proc[q].sl, j) = y BY <3>2 DEF InView
        <4>2. proc[q].i \in Nat /\ proc[q].sl.len \in Nat /\ proc[q].i >= 1 BY <2>4, RecAt, SliceFacts DEF Types
        <4>3. proc[q].sl.arr \in Arrays BY <4>1, <4>2, SliceFacts DEF Types
        <4>4. array'[proc[q].sl.arr] = array[proc[q].sl.arr] BY <1>7, <3>1, <4>3 DEF Taken
        <4> QED BY <3>1, <4>1, <4>4 DEF InView, Elem
      <3> QED BY <3>3, <3>4
    <2> QED BY <1>11, <2>1, <2>2, <2>3, <2>4 DEF ListKept
  <1>15. Device(p)'
    <2>1. \A c \in clients: DeviceOf(c) # DeviceOf(p[2]) BY <1>8 DEF Mine
    <2> QED BY <1>1, <1>2, <1>10, <1>11, <2>1 DEF Device, AfterRemove
  <1>16. Stage(p)'
    <2>1. Mine(p)' = {} BY <1>1, <1>8 DEF Mine
    <2> QED BY <1>1, <1>2, <1>8, <1>10, <1>11, <2>1 DEF Stage, Knows, Sees, AfterRemove
  <1>17. Reading'
    <2>1. reader \in Readers BY DEF Types, Readers
    <2>2. (reader.moved \/ (reader.pc = "walk" /\ reader.sl.arr = s.arr)) \in BOOLEAN BY <2>1 DEF Readers
    <2>3. /\ reader'.pc = reader.pc /\ reader'.sl = reader.sl /\ reader'.i = reader.i /\ reader'.got = reader.got
          /\ reader'.missed = reader.missed /\ reader'.must = reader.must
          /\ reader'.moved = (reader.moved \/ (reader.pc = "walk" /\ reader.sl.arr = s.arr))
      BY <1>4, <2>1 DEF Readers
    <2>4. reader.pc = "done" /\ ~reader'.moved => reader.missed = {} BY <2>1, <2>3 DEF Clean, Reading
    <2>5. ASSUME reader.pc = "walk", ~reader'.moved
          PROVE  Behind(reader.sl)' /\ \A c \in reader.must: c \in clients /\ (c \in reader.got \/ InView(c, reader.sl, reader.i)')
      <3>1. ~reader.moved /\ reader.sl.arr # list.arr BY <1>5, <2>3, <2>5
      <3>2. \A c \in reader.must: c \in clients /\ (c \in reader.got \/ InView(c, reader.sl, reader.i))
        BY <2>5, <3>1 DEF Clean, Reading
      <3>3. Behind(reader.sl)' BY <1>13, <2>3, <3>1 DEF Behind
      <3>4. ASSUME NEW c \in reader.must, InView(c, reader.sl, reader.i) PROVE InView(c, reader.sl, reader.i)'
        <4>1. PICK j \in reader.i .. reader.sl.len: Elem(reader.sl, j) = c BY <3>4 DEF InView
        <4>2. reader.i \in Nat /\ reader.sl.len \in Nat /\ reader.i >= 1 BY <2>5, SliceFacts DEF Types
        <4>3. reader.sl.arr \in Arrays BY <4>1, <4>2, SliceFacts DEF Types
        <4>4. array'[reader.sl.arr] = array[reader.sl.arr] BY <1>7, <3>1, <4>3 DEF Taken
        <4> QED BY <2>3, <4>1, <4>4 DEF InView, Elem
      <3> QED BY <3>2, <3>3, <3>4
    <2> QED BY <1>1, <2>3, <2>4, <2>5 DEF Reading
  <1> QED BY <1>2, <1>12, <1>14, <1>15, <1>16, <1>17, DeviceStep

\* A list grows at its end.
LEMMA GrownList ==
  ASSUME Types, Exact, NEW x, x \notin Listed, NEW b, Grown(list, x, b)
  PROVE  /\ Listed' = Listed \cup {x}
         /\ \A i, j \in 1 .. list'.len: Elem(list, i)' = Elem(list, j)' => i = j
  <1>n. PICK n: n = list.len OBVIOUS
  <1>1. n \in Nat BY <1>n, SliceFacts DEF Types
  <1>2. list'.arr = b /\ list'.len = n + 1 BY <1>n DEF Grown
  <1>3. \A i \in 1 .. n: Elem(list, i)' = Elem(list, i) BY <1>2, <1>n DEF Grown, Elem
  <1>4. Elem(list, n + 1)' = x BY <1>2, <1>n DEF Grown, Elem
  <1>5. \A i \in 1 .. n + 1: i \in 1 .. n \/ i = n + 1 BY <1>1
  <1>6. \A i \in 1 .. n: Elem(list, i) \in Listed /\ i \in 1 .. n + 1 BY <1>1, <1>n DEF Listed
  <1>7. n + 1 \in 1 .. n + 1 BY <1>1
  <1>8. ASSUME NEW y \in Listed' PROVE y \in Listed \cup {x}
    <2>1. PICK i \in 1 .. n + 1: y = Elem(list, i)' BY <1>2 DEF Listed
    <2> QED BY <1>3, <1>4, <1>5, <1>6, <2>1
  <1>9. ASSUME NEW y \in Listed PROVE y \in Listed'
    <2>1. PICK i \in 1 .. n: y = Elem(list, i) BY <1>n DEF Listed
    <2>2. y = Elem(list, i)' /\ i \in 1 .. list'.len BY <1>2, <1>3, <1>6, <2>1
    <2> QED BY <2>2 DEF Listed
  <1>10. x \in Listed' BY <1>2, <1>4, <1>7 DEF Listed
  <1>11. ASSUME NEW i \in 1 .. n + 1, NEW j \in 1 .. n + 1, Elem(list, i)' = Elem(list, j)' PROVE i = j
    <2>1. CASE i \in 1 .. n /\ j \in 1 .. n BY <1>3, <1>11, <1>n, <2>1 DEF Exact
    <2>2. CASE i \in 1 .. n /\ j = n + 1 BY <1>3, <1>4, <1>6, <1>11, <2>2
    <2>3. CASE i = n + 1 /\ j \in 1 .. n BY <1>3, <1>4, <1>6, <1>11, <2>3
    <2> QED BY <1>5, <2>1, <2>2, <2>3
  <1> QED BY <1>2, <1>8, <1>9, <1>10, <1>11

\* A slice that is no longer than the list sees the same, and still is not.
LEMMA GrownBehind ==
  ASSUME Types, NEW x, NEW b, Grown(list, x, b), NEW s, SliceOK(s), Behind(s), Fresh(b) => s.arr # b
  PROVE  /\ \A j \in 1 .. s.len: array'[s.arr][j] = array[s.arr][j]
         /\ s.arr = list'.arr => s.len <= list'.len
  <1>1. s.len \in Nat /\ list.len \in Nat BY SliceFacts DEF Types
  <1>2. list'.arr = b /\ list'.len = list.len + 1 BY DEF Grown
  <1>3. CASE s.arr # b
    <2>1. ASSUME NEW j \in 1 .. s.len PROVE array'[s.arr][j] = array[s.arr][j]
      <3>1. s.arr \in Arrays BY <1>1, SliceFacts
      <3> QED BY <1>3, <3>1 DEF Grown
    <2> QED BY <1>2, <1>3, <2>1
  <1>4. CASE s.arr = b
    <2>1. b = list.arr BY <1>4 DEF Grown
    <2>2. s.len <= list.len BY <1>4, <2>1 DEF Behind
    <2>3. \A j \in 1 .. s.len: j \in 1 .. list.len BY <1>1, <2>2
    <2>4. \A j \in 1 .. s.len: array'[b][j] = array[b][j] BY <2>1, <2>3 DEF Grown
    <2> QED BY <1>1, <1>2, <1>4, <2>2, <2>4
  <1> QED BY <1>3, <1>4

\* A slice still shows a connection of the list.
LEMMA GrownView ==
  ASSUME Types, NEW x, NEW b, Grown(list, x, b), NEW s, SliceOK(s), Fresh(b) => s.arr # b,
         NEW y, y \in Listed, InView(y, s, 1)
  PROVE  \E j \in 1 .. s.len: array'[s.arr][j] = y
  <1>1. PICK j \in 1 .. s.len: Elem(s, j) = y BY DEF InView
  <1>2. s.len \in Nat /\ list.len \in Nat BY SliceFacts DEF Types
  <1>3. s.arr \in Arrays /\ Len(array[s.arr]) \in Nat /\ s.len <= Len(array[s.arr]) BY <1>1, <1>2, SliceFacts
  <1>4. CASE s.arr # b BY <1>1, <1>3, <1>4 DEF Grown, Elem
  <1>5. CASE s.arr = b
    <2>1. b = list.arr /\ \A i \in 1 .. Len(array[b]): i # list.len + 1 => array'[b][i] = array[b][i]
      BY <1>5 DEF Grown
    <2>2. CASE j # list.len + 1
      <3>1. j \in 1 .. Len(array[b]) BY <1>2, <1>3, <1>5
      <3> QED BY <1>1, <1>5, <2>1, <2>2, <3>1 DEF Elem
    <2>3. CASE j = list.len + 1
      <3>1. PICK i \in 1 .. list.len: y = Elem(list, i) BY DEF Listed
      <3>2. i \in 1 .. s.len /\ i \in 1 .. Len(array[b]) /\ i # list.len + 1 BY <1>2, <1>3, <1>5, <2>3
      <3> QED BY <1>5, <2>1, <3>1, <3>2 DEF Elem
    <2> QED BY <2>2, <2>3
  <1> QED BY <1>4, <1>5

LEMMA GrownStep ==
  ASSUME Types, Clean, NEW p \in Procs, proc[p].pc \in {"addLoad", "addLock"}, NEW b, Grown(list, p[2], b),
         proc'[p].pc = "report", \A q \in Procs: q # p => proc'[q] = proc[q],
         UNCHANGED <<clients, reader, sock, status>>
  PROVE  Clean'
  <1>2. Alone(p) /\ Knows(p) /\ Device(p) BY RunsAlone, DeviceHas DEF Clean, Stage
  <1>3. p[1] = "connect" /\ p[2] \notin Listed /\ p[2] \in Conns /\ Mine(p) = {p[2]} BY <1>2, RecAt DEF Knows
  <1>4. /\ Listed' = Listed \cup {p[2]}
        /\ \A i, j \in 1 .. list'.len: Elem(list, i)' = Elem(list, j)' => i = j
    BY <1>3, GrownList DEF Clean
  <1>5. Apart(p) BY DEF Apart, Types
  <1>6. ASSUME NEW q \in Procs PROVE SliceOK(proc[q].sl) /\ (Fresh(b) => proc[q].sl.arr # b) BY DEF Types, Fresh
  <1>7. ListKept(p)
    <2>1. \A x \in Conns: DeviceOf(x) # DeviceOf(p[2]) => (x \in Listed' <=> x \in Listed) BY <1>4
    <2>2. \A x \in Listed': x \in Conns BY <1>3, <1>4 DEF Clean, Exact
    <2>3. ASSUME NEW q \in Procs, q # p, proc[q].pc = "rmLock" PROVE InView(proc[q].target, proc[q].sl, 1)'
      <3>1. proc'[q] = proc[q] BY <2>3
      <3>2. InView(proc[q].target, proc[q].sl, 1) /\ proc[q].target \in Conns BY <2>3 DEF Clean, Stage, Sees, Knows
      <3>3. proc[q].target \in Listed
        <4>1. Removing(proc[q].target) BY <2>3 DEF Removing
        <4> QED BY <3>2, <4>1 DEF Clean, Exact
      <3>4. \E j \in 1 .. proc[q].sl.len: array'[proc[q].sl.arr][j] = proc[q].target
        BY <1>6, <3>2, <3>3, GrownView
      <3> QED BY <3>1, <3>4 DEF InView, Elem
    <2>4. ASSUME NEW q \in Procs, q # p, q[1] = "connect", proc[q].pc = "walk"
          PROVE  Behind(proc[q].sl)' /\ \A y \in Mine(q): InView(y, proc[q].sl, proc[q].i)'
      <3>1. proc'[q] = proc[q] BY <2>4
      <3>2. Behind(proc[q].sl) /\ \A y \in Mine(q): InView(y, proc[q].sl, proc[q].i) BY <2>4 DEF Clean, Stage, Sees
      <3>3. /\ \A j \in 1 .. proc[q].sl.len: array'[proc[q].sl.arr][j] = array[proc[q].sl.arr][j]
            /\ proc[q].sl.arr = list'.arr => proc[q].sl.len <= list'.len
        BY <1>6, <3>2, GrownBehind
      <3>4. ASSUME NEW y \in Mine(q) PROVE InView(y, proc[q].sl, proc[q].i)'
        <4>1. PICK j \in proc[q].i .. proc[q].sl.len: Elem(proc[q].sl, j) = y BY <3>2 DEF InView
        <4>2. proc[q].i \in Nat /\ proc[q].sl.len \in Nat /\ proc[q].i >= 1 BY <2>4, RecAt, SliceFacts DEF Types
        <4>3. array'[proc[q].sl.arr][j] = array[proc[q].sl.arr][j] BY <3>3, <4>1, <4>2
        <4> QED BY <3>1, <4>1, <4>3 DEF InView, Elem
      <3> QED BY <3>1, <3>3, <3>4 DEF Behind
    <2> QED BY <1>4, <2>1, <2>2, <2>3, <2>4 DEF ListKept
  <1>8. Device(p)' BY <1>2, <1>3, <1>4 DEF Device, Mine
  <1>9. Stage(p)'
    <2>1. Mine(p)' = {p[2]} BY <1>3 DEF Mine
    <2>2. Knows(p)' BY <1>2, <1>3, <2>1 DEF Knows
    <2>3. Sees(p)' BY DEF Sees
    <2> QED BY <2>2, <2>3 DEF Stage
  <1>10. Reading'
    <2>1. reader.pc = "done" /\ ~reader.moved => reader.missed = {} BY DEF Clean, Reading
    <2>2. ASSUME reader.pc = "walk", ~reader.moved
          PROVE  Behind(reader.sl)' /\ \A c \in reader.must: c \in clients /\ (c \in reader.got \/ InView(c, reader.sl, reader.i)')
      <3>1. /\ Behind(reader.sl)
            /\ \A c \in reader.must: c \in clients /\ (c \in reader.got \/ InView(c, reader.sl, reader.i))
        BY <2>2 DEF Clean, Reading
      <3>2. SliceOK(reader.sl) /\ (Fresh(b) => reader.sl.arr # b) BY DEF Types, Fresh
      <3>3. /\ \A j \in 1 .. reader.sl.len: array'[reader.sl.arr][j] = array[reader.sl.arr][j]
            /\ reader.sl.arr = list'.arr => reader.sl.len <= list'.len
        BY <3>1, <3>2, GrownBehind
      <3>4. ASSUME NEW c \in reader.must, InView(c, reader.sl, reader.i) PROVE InView(c, reader.sl, reader.i)'
        <4>1. PICK j \in reader.i .. reader.sl.len: Elem(reader.sl, j) = c BY <3>4 DEF InView
        <4>2. reader.i \in Nat /\ reader.sl.len \in Nat /\ reader.i >= 1 BY <2>2, SliceFacts DEF Types
        <4>3. array'[reader.sl.arr][j] = array[reader.sl.arr][j] BY <3>3, <4>1, <4>2
        <4> QED BY <4>1, <4>3 DEF InView, Elem
      <3> QED BY <3>1, <3>3, <3>4 DEF Behind
    <2> QED BY <2>1, <2>2 DEF Reading
  <1> QED BY <1>2, <1>5, <1>7, <1>8, <1>9, <1>10, DeviceStep

-----------------------------------------------------------------------------
(* The invariant and what follows from it *)

LEMMA InitInd == Init => IndInv
  <1> SUFFICES ASSUME Init PROVE IndInv OBVIOUS
  <1> USE DEF Init
  <1>1. array \in [Arrays -> Seq(Conns \cup {0})]
    <2>1. <<>> \in Seq(Conns \cup {0}) OBVIOUS
    <2> QED BY <2>1
  <1>2. \A p \in Procs: proc[p] = Idle OBVIOUS
  <1>3. SliceOK(NoSlice) BY IdleRec DEF SliceOK
  <1>4. Idle.pc = "idle" /\ Idle.sl = NoSlice BY DEF Idle
  <1>5. Types
    <2>1. proc \in [Procs -> Recs] BY IdleRec
    <2>2. reader \in [pc: {"idle", "walk", "done"}, sl: Slices, i: Nat, got: SUBSET Conns,
                      must: SUBSET Conns, moved: BOOLEAN, missed: SUBSET Conns]
      BY IdleRec DEF NoReader
    <2>3. reader.sl = NoSlice /\ reader.pc = "idle" BY DEF NoReader
    <2>4. /\ SliceOK(list) /\ SliceOK(reader.sl)
          /\ \A p \in Procs: SliceOK(proc[p].sl)
      BY <1>2, <1>3, <1>4, <2>3
    <2> QED BY <1>1, <1>2, <1>4, <2>1, <2>2, <2>3, <2>4 DEF Types
  <1>6. Listed = {} BY DEF Listed, NoSlice
  <1>7. Clean
    <2>1. Exclusive /\ Sockets /\ Reported BY <1>2, <1>4, <1>6 DEF Exclusive, Sockets, Reported
    <2>2. Exact
      <3>1. \A x \in Conns: ~Removing(x) BY <1>2, <1>4 DEF Removing
      <3>2. 1 .. list.len = {} BY DEF NoSlice
      <3> QED BY <1>6, <3>1, <3>2 DEF Exact
    <2>3. Reading BY DEF Reading, NoReader
    <2>4. \A p \in Procs: Stage(p) BY <1>2, <1>4 DEF Stage, Knows, Sees
    <2> QED BY <2>1, <2>2, <2>3, <2>4 DEF Clean
  <1> QED BY <1>5, <1>7 DEF IndInv

\* An overlap is never forgotten.
LEMMA RacedGrows ==
  ASSUME Next, raced' = {}
  PROVE  raced = {}
  <1>1. ASSUME NEW c \in Conns, Connect(c) \/ Disconnect(c) PROVE raced = {}
    BY <1>1 DEF Connect, Disconnect, Record
  <1>2. ASSUME NEW p \in Procs, RemoveLocked(p) PROVE raced = {}
    BY <1>2 DEF RemoveLocked
  <1>3. ASSUME NEW p \in Procs, NEW a \in Arrays, AddLocked(p, a) PROVE raced = {}
    BY <1>3 DEF AddLocked, Record
  <1>4. ASSUME NEW p \in Procs,
               \/ Find(p) \/ Walk(p) \/ RemoveClient(p) \/ RemoveLoad(p) \/ AddClient(p) \/ Report(p)
               \/ \E a \in Arrays: AddLoad(p, a)
        PROVE  raced = {}
    BY <1>4 DEF Find, Walk, RemoveClient, RemoveLoad, AddClient, Report, AddLoad
  <1>5. CASE ReadStart \/ ReadNext BY <1>5 DEF ReadStart, ReadNext
  <1> QED BY <1>1, <1>2, <1>3, <1>4, <1>5 DEF Next

LEMMA NextClean ==
  ASSUME Types, Clean, Next, raced' = {}
  PROVE  Clean'
  <1>1. ASSUME NEW c \in Conns, Connect(c) PROVE Clean' BY <1>1, ConnectStep
  <1>2. ASSUME NEW c \in Conns, Disconnect(c) PROVE Clean' BY <1>2, DisconnectStep
  <1>3. ASSUME NEW p \in Procs, Find(p) PROVE Clean' BY <1>3, FindStep
  <1>4. ASSUME NEW p \in Procs, Walk(p) PROVE Clean' BY <1>4, WalkStep
  <1>5. ASSUME NEW p \in Procs, RemoveClient(p) PROVE Clean' BY <1>5, RemoveClientStep
  <1>6. ASSUME NEW p \in Procs, RemoveLoad(p) PROVE Clean' BY <1>6, RemoveLoadStep
  <1>7. ASSUME NEW p \in Procs, RemoveLocked(p) PROVE Clean' BY <1>7, RemoveLockedStep
  <1>8. ASSUME NEW p \in Procs, AddClient(p) PROVE Clean' BY <1>8, AddClientStep
  <1>9. ASSUME NEW p \in Procs, NEW a \in Arrays, AddLoad(p, a) PROVE Clean'
    <2>1. CASE list # NoSlice BY <1>9, <2>1, AddLoadStep
    <2>2. CASE list = NoSlice
      <3>1. Grown(list, p[2], a) BY <1>9, <2>2, AddLoadEffect
      <3>2. /\ proc'[p] = [pc |-> "report", sl |-> proc[p].sl, i |-> proc[p].i, target |-> proc[p].target]
            /\ \A q \in Procs: q # p => proc'[q] = proc[q]
        BY <1>9, <2>2, ProcSteps DEF Becomes
      <3>3. proc'[p].pc = "report" BY <3>2
      <3>4. proc[p].pc = "addLoad" /\ UNCHANGED <<clients, reader, sock, status>> BY <1>9 DEF AddLoad, At
      <3> QED BY <3>1, <3>2, <3>3, <3>4, GrownStep
    <2> QED BY <2>1, <2>2
  <1>10. ASSUME NEW p \in Procs, NEW a \in Arrays, AddLocked(p, a) PROVE Clean'
    <2>1. PICK b \in Arrays: Grown(proc[p].sl, p[2], b) BY <1>10, AddLockedEffect
    <2>2. proc[p].sl = list BY <1>10 DEF AddLocked, Record
    <2>3. Grown(list, p[2], b) BY <2>1, <2>2
    <2>4. proc'[p] = [Idle EXCEPT !.pc = "report"] /\ \A q \in Procs: q # p => proc'[q] = proc[q]
      BY <1>10, ProcSteps DEF Becomes
    <2>5. proc'[p].pc = "report" BY <2>4 DEF Idle
    <2>6. proc[p].pc = "addLock" /\ UNCHANGED <<clients, reader, sock, status>> BY <1>10 DEF AddLocked, At
    <2> QED BY <2>3, <2>4, <2>5, <2>6, GrownStep
  <1>11. ASSUME NEW p \in Procs, Report(p) PROVE Clean' BY <1>11, ReportStep
  <1>12. CASE ReadStart \/ ReadNext BY <1>12, ReadStep
  <1> QED BY <1>1, <1>2, <1>3, <1>4, <1>5, <1>6, <1>7, <1>8, <1>9, <1>10, <1>11, <1>12 DEF Next

\* Every step keeps the invariant, whatever has overlapped before.
LEMMA StepInd == IndInv /\ [Next]_vars => IndInv'
  <1> SUFFICES ASSUME IndInv, [Next]_vars PROVE IndInv' OBVIOUS
  <1>1. Types' BY StepTypes DEF IndInv
  <1>2. CASE Next
    <2>1. NoOverlap' => raced = {} BY <1>2, RacedGrows DEF NoOverlap
    <2>2. NoOverlap' => Clean' BY <1>2, <2>1, NextClean DEF IndInv, NoOverlap
    <2> QED BY <1>1, <2>2 DEF IndInv
  <1>3. CASE UNCHANGED vars
    <2>1. NoOverlap' => Clean
      BY <1>3 DEF IndInv, NoOverlap, vars
    <2>2. Listed' = Listed /\ \A q: Mine(q)' = Mine(q) BY <1>3 DEF vars, Listed, Elem, Mine
    <2>3. ASSUME Clean PROVE Clean'
      <3>1. Exclusive' /\ Sockets' /\ Reported' BY <1>3, <2>2, <2>3 DEF vars, Clean, Exclusive, Sockets, Reported
      <3>2. Exact' BY <1>3, <2>2, <2>3 DEF vars, Clean, Exact, Adding, Removing, Elem
      <3>3. Reading' BY <1>3, <2>3 DEF vars, Clean, Reading, Behind, InView, Elem
      <3>4. ASSUME NEW q \in Procs PROVE Stage(q)'
        <4>1. Knows(q) /\ Sees(q) BY <2>3 DEF Clean, Stage
        <4>2. Knows(q)' BY <1>3, <2>2, <4>1 DEF vars, Knows
        <4>3. Sees(q)' BY <1>3, <2>2, <4>1 DEF vars, Sees, InView, Behind, Elem
        <4> QED BY <4>2, <4>3 DEF Stage
      <3> QED BY <3>1, <3>2, <3>3, <3>4 DEF Clean
    <2> QED BY <1>1, <2>1, <2>3 DEF IndInv
  <1> QED BY <1>2, <1>3

\* What the manager's handlers rely on holds in every behaviour that has not
\* met one of the three overlaps yet, for any number of connections, devices
\* and handlers at once.
THEOREM ClientInductive == Spec => []IndInv
  BY InitInd, StepInd, PTL DEF Spec

\* Between handlers the list is the registered connections, each once.
THEOREM ClientListExact == Spec => []ListExact
  <1>1. IndInv => ListExact
    <2> SUFFICES ASSUME IndInv PROVE ListExact OBVIOUS
    <2>1. Types BY DEF IndInv
    <2>2. TypeOK
      <3>1. list = NoSlice \/ (list.arr \in Arrays /\ list.len \in 0 .. Len(array[list.arr]))
        BY <2>1, SliceFacts DEF Types, SliceOK
      <3>2. \A p \in Procs: proc[p].pc \in PCs /\ proc[p].target \in Conns \cup {0} BY <2>1, RecAt
      <3> QED BY <2>1, <3>1, <3>2 DEF TypeOK, Types
    <2>3. ASSUME Quiet, NoOverlap PROVE Listed = clients /\ Cardinality(Listed) = list.len
      <3>1. Exact BY <2>3 DEF IndInv, Clean
      <3>2. \A p \in Procs: proc[p].pc = "idle" BY <2>3 DEF Quiet, Idle
      <3>3. \A x \in Conns: ~Adding(x) /\ ~Removing(x) BY <3>2 DEF Adding, Removing, Procs
      <3>4. Listed = clients BY <2>1, <3>1, <3>3 DEF Exact, Types
      <3>5. list.len \in Nat BY <2>1, SliceFacts DEF Types
      <3> DEFINE f == [i \in 1 .. list.len |-> Elem(list, i)]
      <3>6. f \in Bijection(1 .. list.len, Listed)
        <4>1. f \in [1 .. list.len -> Listed] BY DEF Listed
        <4>2. \A i, j \in 1 .. list.len: f[i] = f[j] => i = j BY <3>1 DEF Exact
        <4>3. \A x \in Listed: \E i \in 1 .. list.len: f[i] = x BY DEF Listed
        <4> HIDE DEF f
        <4> QED BY <4>1, <4>2, <4>3 DEF Bijection, Injection, Surjection, IsInjective
      <3>7. ExistsBijection(1 .. list.len, Listed) BY <3>6 DEF ExistsBijection
      <3>8. Cardinality(Listed) = list.len BY <3>5, <3>7, FS_CountingElements
      <3> QED BY <3>4, <3>8
    <2> QED BY <2>2, <2>3 DEF ListExact
  <1> QED BY <1>1, ClientInductive, PTL

\* A device has one connection between handlers.
THEOREM ClientOneConn == Spec => []OneConnPerDevice
  <1>1. IndInv => OneConnPerDevice BY DEF IndInv, OneConnPerDevice, Clean, Exclusive
  <1> QED BY <1>1, ClientInductive, PTL

\* The status that the webhook was told last is the status of the device.
THEOREM ClientStatusRight == Spec => []StatusRight
  <1>1. IndInv => StatusRight
    <2> SUFFICES ASSUME IndInv, Quiet, NoOverlap
        PROVE  /\ \A d \in Devices : status[d] = "online" <=> \E c \in clients : DeviceOf(c) = d
               /\ clients # {} => GetOnlineUIDs
      BY DEF StatusRight
    <2>1. \A p \in Procs: proc[p].pc = "idle" BY DEF Quiet, Idle
    <2>2. \A d \in Devices : status[d] = "online" <=> \E c \in clients : DeviceOf(c) = d
      BY <2>1 DEF IndInv, Clean, Reported
    <2>3. ASSUME NEW c \in clients PROVE list # NoSlice
      <3>1. c \in Conns BY DEF IndInv, Types
      <3>2. ~Adding(c) BY <2>1, <3>1 DEF Adding, Procs
      <3>3. c \in Listed BY <3>1, <3>2 DEF IndInv, Clean, Exact
      <3> QED BY <3>3 DEF Listed, NoSlice
    <2> QED BY <2>2, <2>3 DEF GetOnlineUIDs
  <1> QED BY <1>1, ClientInductive, PTL

\* A connection whose close was handled is not registered.
THEOREM ClientClosedIsGone == Spec => []ClosedIsGone
  <1>1. IndInv => ClosedIsGone
    <2> SUFFICES ASSUME IndInv, Quiet, NoOverlap, NEW c \in clients PROVE sock[c] = "open"
      BY DEF ClosedIsGone
    <2>1. <<"disconnect", c>> \in Procs BY DEF IndInv, Types, Procs
    <2>2. proc[<<"disconnect", c>>].pc = "idle" BY <2>1 DEF Quiet, Idle
    <2> QED BY <2>2 DEF IndInv, Clean, Sockets
  <1> QED BY <1>1, ClientInductive, PTL

\* A look-up that no shift has disturbed returns every connection that was
\* registered before it and still is.
THEOREM ClientReadComplete == Spec => []ReadComplete
  <1>1. IndInv => ReadComplete BY DEF IndInv, ReadComplete, Clean, Reading
  <1> QED BY <1>1, ClientInductive, PTL
=============================================================================
