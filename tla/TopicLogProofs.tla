--------------------------- MODULE TopicLogProofs ---------------------------
(***************************************************************************)
(* Proofs about TopicLog, for any number of senders, records and openings  *)
(* and any sizes of segments and indexes.                                  *)
(*                                                                         *)
(* The order of the index (IndexOrdered) is inductive with a bound on the  *)
(* position that the active Segment object counts (Counted) and with what  *)
(* a crash may leave in the first file (Torn).  That Lookup finds the      *)
(* right entry of an index in that order is a proof about its recursive    *)
(* search: that it is well defined, and what it returns.                   *)
(* What a read returns is put together from the place that Lookup gives,   *)
(* the first segment and the ones behind it, which are in order (ReadInv). *)
(***************************************************************************)
EXTENDS TopicLog, SequenceTheorems, WellFoundedInduction, TLAPS

Records == 0 .. MaxSeq
Entries == [off: Bases, pos: Nat]

\* Segment objects.
Objects == [position: Nat, total: Nat, entries: Nat]

Types ==
    /\ TypeOK
    /\ file \in [Bases -> Seq(Records)]
    /\ index \in [Bases -> Seq(Entries)]
    /\ writer \in Objects /\ cache \in [Bases -> Objects \cup {Closed}]

\* The active object counts no more than there is in the file.
Counted == Up => writer.position <= Len(file[active])

\* Only a crash leaves a part of a record, and opening takes it away.
Torn == \A i \in DOMAIN file[0]: file[0][i] = Junk => i = Len(file[0]) /\ state = "down"

\* An entry is not about a part of a record.
Real == \A b \in Bases: \A i \in DOMAIN index[b]: index[b][i].off # Junk

IndInv == Types /\ Counted /\ Torn /\ Real /\ IndexOrdered /\ ReopenCovers

-----------------------------------------------------------------------------
(* Sound *)

LEMMA FirstPlace ==
  ASSUME NEW S \in SUBSET Nat, S # {}
  PROVE  /\ (CHOOSE i \in S: \A j \in S: i <= j) \in S
         /\ \A j \in S: (CHOOSE i \in S: \A k \in S: i <= k) <= j
  <1>1. PICK a \in S: TRUE OBVIOUS
  <1>2. \E i \in S: \A j \in S: <<j, i>> \notin OpToRel(<, Nat)
    BY <1>1, NatLessThanWellFounded, WFMin
  <1>3. ASSUME NEW i \in Nat, NEW j \in Nat, <<j, i>> \notin OpToRel(<, Nat) PROVE ~(j < i)
    BY <1>3 DEF OpToRel
  <1>4. PICK i \in S: \A j \in S: <<j, i>> \notin OpToRel(<, Nat) BY <1>2
  <1>5. \A j \in S: ~(j < i) BY <1>3, <1>4
  <1>6. \A j \in S: i <= j BY <1>5
  <1> QED BY <1>6

\* Sound keeps what is in front of the first part of a record.
LEMMA SoundFacts ==
  ASSUME NEW f \in Seq(Records)
  PROVE  /\ Sound(f) \in Seq(Records) /\ Len(Sound(f)) <= Len(f) /\ Len(Sound(f)) \in Nat
         /\ \A i \in 1 .. Len(Sound(f)): Sound(f)[i] = f[i] /\ f[i] # Junk
         /\ Len(Sound(f)) < Len(f) => f[Len(Sound(f)) + 1] = Junk
         /\ Len(Sound(f)) = Len(f) => Sound(f) = f
         /\ Sound(f) # f => Len(Sound(f)) < Len(f)
  <1> DEFINE bad == { i \in DOMAIN f : f[i] = Junk }
             k == CHOOSE i \in bad : \A j \in bad : i <= j
  <1>0. Len(f) \in Nat /\ DOMAIN f = 1 .. Len(f) OBVIOUS
  <1>1. CASE bad = {}
    <2>1. Sound(f) = f BY <1>1 DEF Sound
    <2>2. \A i \in 1 .. Len(f): f[i] # Junk BY <1>0, <1>1
    <2> QED BY <1>0, <2>1, <2>2
  <1>2. CASE bad # {}
    <2>1. bad \in SUBSET Nat BY <1>0
    <2>2. k \in bad /\ \A j \in bad: k <= j
      <3> HIDE DEF bad
      <3> QED BY <1>2, <2>1, FirstPlace
    <2>3. Sound(f) = SubSeq(f, 1, k - 1) BY <1>2 DEF Sound
    <2> HIDE DEF k
    <2>4. k \in 1 .. Len(f) /\ f[k] = Junk BY <1>0, <2>2
    <2>5. \A i \in 1 .. k - 1: i \in 1 .. Len(f) /\ f[i] # Junk BY <1>0, <2>2, <2>4
    <2>6. Sound(f) \in Seq(Records) /\ Len(Sound(f)) = k - 1 /\ \A i \in 1 .. k - 1: Sound(f)[i] = f[i]
      BY <1>0, <2>3, <2>4
    <2>7. Sound(f) # f BY <1>0, <2>4, <2>6
    <2> QED BY <1>0, <2>4, <2>5, <2>6, <2>7
  <1> QED BY <1>1, <1>2

\* A file that ends in a part of a record, and has no other, loses just that.
LEMMA SoundOfTorn ==
  ASSUME NEW f \in Seq(Records), \A i \in 1 .. Len(f): f[i] = Junk => i = Len(f)
  PROVE  Sound(f) = f \/ (f # <<>> /\ f[Len(f)] = Junk /\ Len(Sound(f)) = Len(f) - 1)
  <1>1. CASE Len(Sound(f)) = Len(f) BY <1>1, SoundFacts
  <1>2. CASE Len(Sound(f)) < Len(f)
    <2>0. Len(f) \in Nat /\ Len(Sound(f)) \in Nat BY SoundFacts
    <2>1. Len(Sound(f)) + 1 \in 1 .. Len(f) /\ f[Len(Sound(f)) + 1] = Junk BY <1>2, <2>0, SoundFacts
    <2>2. Len(Sound(f)) + 1 = Len(f) BY <2>1
    <2>3. f # <<>> BY <2>0, <2>2
    <2> QED BY <2>0, <2>1, <2>2, <2>3
  <1> QED BY <1>1, <1>2, SoundFacts

LEMMA AppendFacts ==
  ASSUME NEW T, NEW f \in Seq(T), NEW x \in T
  PROVE  /\ Append(f, x) \in Seq(T) /\ Len(Append(f, x)) = Len(f) + 1 /\ Append(f, x) # <<>>
         /\ DOMAIN Append(f, x) = 1 .. Len(f) + 1 /\ DOMAIN f = 1 .. Len(f) /\ Len(f) \in Nat
         /\ Append(f, x)[Len(f) + 1] = x /\ \A i \in 1 .. Len(f): Append(f, x)[i] = f[i]
  OBVIOUS

-----------------------------------------------------------------------------
(* What the steps do *)

LEMMA TypeFacts ==
  ASSUME Types
  PROVE  /\ 0 \in Bases /\ Bases = Records /\ Junk = 0
         /\ \A b \in Bases: /\ file[b] \in Seq(Records) /\ DOMAIN file[b] = 1 .. Len(file[b]) /\ Len(file[b]) \in Nat
                            /\ index[b] \in Seq(Entries) /\ DOMAIN index[b] = 1 .. Len(index[b]) /\ Len(index[b]) \in Nat
                            /\ NewSegment(b) \in Objects /\ Reader(b) \in Objects
  <1>1. 0 \in Bases /\ Bases = Records /\ Junk = 0 BY TopicLogAssumption DEF Bases, Records, Junk
  <1>2. ASSUME NEW b \in Bases
        PROVE  /\ file[b] \in Seq(Records) /\ DOMAIN file[b] = 1 .. Len(file[b]) /\ Len(file[b]) \in Nat
               /\ index[b] \in Seq(Entries) /\ DOMAIN index[b] = 1 .. Len(index[b]) /\ Len(index[b]) \in Nat
    BY DEF Types
  <1>3. ASSUME NEW b \in Bases PROVE NewSegment(b) \in Objects
    BY <1>2 DEF NewSegment, Objects
  <1>4. ASSUME NEW b \in Bases PROVE Reader(b) \in Objects
    BY <1>3 DEF Reader, Types
  <1> QED BY <1>1, <1>2, <1>3, <1>4

\* The record r goes to the end of the file of segment b.
Appended(b, r) == b \in Bases /\ r \in Records /\ file' = [file EXCEPT ![b] = Append(@, r)]

\* The first file loses the part of a record.
Truncated == file' = [file EXCEPT ![0] = Sound(@)]

\* AppendLog on the object w of segment b.
Wrote(b, w, n) ==
    /\ Appended(b, n) /\ n # Junk
    /\ writer' \in Objects /\ writer'.position = w.position + 1
    /\ \/ UNCHANGED index
       \/ index' = [index EXCEPT ![b] = Append(@, [off |-> n, pos |-> w.position + 1])]

LEMMA AppendSteps ==
  ASSUME Types, NEW s \in Senders, NEW tooLarge \in BOOLEAN, AppendLog(s, tooLarge)
  PROVE  \E b \in Bases, w \in Objects, n \in Records:
            /\ Up /\ Up' /\ n = pend[s] /\ n # 0 /\ active' = b /\ n <= lastSeq' /\ lastSeq <= lastSeq' /\ lastSeq' \in Records
            /\ lastMemLog' \in Records /\ segments' \in Seq(Bases) /\ since' \in Nat
            /\ b # active => b = n
            /\ (w = writer /\ b = active) \/ w.position = 0
            /\ IF tooLarge THEN writer' = w /\ UNCHANGED <<file, index>> ELSE Wrote(b, w, n)
  <1> DEFINE n == pend[s]
             b == IF Full THEN n ELSE active
             w == IF Full THEN NewSegment(n) ELSE writer
             sn == IF Full THEN 0 ELSE since
  <1>0. state = "up" /\ state' = "up" /\ n # 0 BY DEF AppendLog
  <1>1. n \in Records /\ n \in Bases /\ b \in Bases /\ lastSeq \in Records BY TypeFacts DEF Types, TypeOK, Records
  <1>2. w \in Objects BY <1>1, TypeFacts DEF Types
  <1>3. (w = writer /\ b = active) \/ w.position = 0 BY DEF NewSegment
  <1>4. /\ lastMemLog' = n /\ active' = b
        /\ lastSeq' = IF lastSeq < n THEN n ELSE lastSeq
        /\ segments' = IF Full THEN Append(segments, n) ELSE segments
    BY DEF AppendLog
  <1>5. n <= lastSeq' /\ lastSeq <= lastSeq' /\ lastSeq' \in Records BY <1>1, <1>4 DEF Records
  <1>6. segments' \in Seq(Bases) BY <1>1, <1>4 DEF Types, TypeOK
  <1>7. b # active => b = n OBVIOUS
  <1>8. sn \in Nat BY DEF Types, TypeOK
  <1>9. CASE tooLarge
    <2>1. writer' = w /\ since' = sn /\ UNCHANGED <<file, index>> BY <1>9 DEF AppendLog
    <2> HIDE DEF n, b, w, sn
    <2> QED BY <1>0, <1>1, <1>2, <1>3, <1>4, <1>5, <1>6, <1>7, <1>8, <1>9, <2>1 DEF Up, n
  <1>10. CASE ~tooLarge
    <2>1. WriteTo(b, w, sn, n) BY <1>10 DEF AppendLog
    <2> HIDE DEF n, b, w, sn
    <2>2. w.position \in Nat /\ w.total \in Nat /\ w.entries \in Nat BY <1>2 DEF Objects
    <2>3. since' \in Nat BY <1>8, <2>1 DEF WriteTo
    <2>4. \E e \in {w.entries + 1, w.entries}:
             writer' = [position |-> w.position + 1, total |-> w.total, entries |-> e]
      BY <2>1 DEF WriteTo
    <2>5. writer' \in Objects /\ writer'.position = w.position + 1 BY <2>2, <2>4 DEF Objects
    <2>6. \/ UNCHANGED index
          \/ index' = [index EXCEPT ![b] = Append(@, [off |-> n, pos |-> w.position + 1])]
      BY <2>1 DEF WriteTo
    <2>7. Appended(b, n) BY <1>1, <2>1 DEF WriteTo, Appended
    <2>8. Wrote(b, w, n) BY <1>0, <2>5, <2>6, <2>7, TypeFacts DEF Wrote
    <2> QED BY <1>0, <1>1, <1>2, <1>3, <1>4, <1>5, <1>6, <1>7, <1>10, <2>3, <2>8 DEF Up, n
  <1> QED BY <1>9, <1>10

\* The file of one segment changes.
LEMMA FileOf ==
  ASSUME Types, NEW b \in Bases, NEW r \in Records, Appended(b, r)
  PROVE  /\ file' \in [Bases -> Seq(Records)] /\ \A c \in Bases: c # b => file'[c] = file[c]
         /\ file'[b] = Append(file[b], r) /\ Len(file'[b]) = Len(file[b]) + 1 /\ file'[b] # <<>>
         /\ DOMAIN file'[b] = 1 .. Len(file[b]) + 1
         /\ file'[b][Len(file[b]) + 1] = r /\ \A i \in 1 .. Len(file[b]): file'[b][i] = file[b][i]
  <1>1. file'[b] = Append(file[b], r) /\ \A c \in Bases: c # b => file'[c] = file[c] BY DEF Types, Appended
  <1>2. file[b] \in Seq(Records) BY TypeFacts
  <1>3. Append(file[b], r) \in Seq(Records) BY <1>2, AppendFacts
  <1>4. file' \in [Bases -> Seq(Records)] BY <1>3 DEF Types, Appended
  <1> QED BY <1>1, <1>2, <1>4, AppendFacts

LEMMA FileCut ==
  ASSUME Types, Truncated
  PROVE  /\ file' \in [Bases -> Seq(Records)] /\ file'[0] = Sound(file[0])
         /\ \A c \in Bases: c # 0 => file'[c] = file[c]
  <1>1. file[0] \in Seq(Records) BY TypeFacts
  <1>2. Sound(file[0]) \in Seq(Records) BY <1>1, SoundFacts
  <1> QED BY <1>2, TypeFacts DEF Types, Truncated

LEMMA ReopenSteps ==
  ASSUME Types, Reopen
  PROVE  /\ ~Up /\ Truncated /\ UNCHANGED <<index, pend, written>>
         /\ opens' \in 0 .. MaxOpens /\ lastMemLog' = 0
         /\ \/ state' = "panicked" /\ UNCHANGED <<lastSeq, segments, active, writer, cache, shared, since>>
            \/ /\ state' = "up" /\ (Sound(file[0]) = file[0] \/ Sound(file[0]) = <<>>)
               /\ lastSeq' \in Records
               /\ Sound(file[0]) = file[0] /\ Len(file[0]) >= 2 => lastSeq' = file[0][Len(file[0])]
               /\ segments' = <<0>> /\ active' = 0 /\ since' = 0 /\ shared' = TRUE
               /\ writer' \in Objects /\ writer'.position = Len(Sound(file[0]))
               /\ cache' = [b \in Bases |-> IF b = 0 THEN writer' ELSE Closed]
  <1> DEFINE f == file[0]
  <1>0. f \in Seq(Records) /\ Len(f) \in Nat BY TypeFacts
  <1>f. f = <<>> <=> Len(f) = 0 BY <1>0
  <1>1. /\ ~Up /\ Truncated /\ UNCHANGED <<index, pend, written>> /\ lastMemLog' = 0
        /\ opens' = opens + 1 /\ opens < MaxOpens
    BY DEF Reopen, Truncated, Truncate, Up
  <1>2. opens' \in 0 .. MaxOpens BY <1>1, TopicLogAssumption DEF Types, TypeOK
  <1>3. CASE state' = "panicked" /\ UNCHANGED <<lastSeq, segments, active, writer, cache, shared, since>>
    BY <1>1, <1>2, <1>3
  <1>4. CASE /\ ~(Truncate(f) # f /\ LastStart(f) # 0)
             /\ state' = "up" /\ lastSeq' = LastOffset(f, 0)
             /\ segments' = <<0>> /\ active' = 0 /\ since' = 0
             /\ writer' = [NewSegment(0) EXCEPT !.position = Len(Truncate(f))]
             /\ cache' = [b \in Bases |-> IF b = 0 THEN writer' ELSE Closed]
             /\ shared' = TRUE
    <2>1. Sound(f) \in Seq(Records) /\ Len(Sound(f)) \in Nat /\ Len(Sound(f)) <= Len(f) BY <1>0, SoundFacts
    <2>2. Sound(f) # f => LastStart(f) = 0 BY <1>4 DEF Truncate
    <2>3. Sound(f) = f \/ Sound(f) = <<>>
      <3>1. CASE Sound(f) # f
        <4>1. Len(Sound(f)) < Len(f) BY <1>0, <3>1, SoundFacts
        <4>2. f # <<>> BY <1>f, <2>1, <4>1
        <4>3. Len(Sound(f)) = 0 BY <2>1, <2>2, <3>1, <4>2 DEF LastStart
        <4> QED BY <2>1, <4>3
      <3> QED BY <3>1
    <2>4. Sound(f) = f /\ Len(f) >= 1 => LastStart(f) = Len(f) - 1 BY <1>f DEF LastStart
    <2>5. Sound(f) = f /\ Len(f) >= 2 => lastSeq' = f[Len(f)] BY <1>0, <1>4, <2>4 DEF LastOffset
    <2>6. lastSeq' \in Records
      <3>1. CASE Sound(f) = f /\ Len(f) >= 2 BY <1>0, <2>5, <3>1
      <3>2. CASE ~(Sound(f) = f /\ Len(f) >= 2)
        <4>1. LastStart(f) = 0
          <5>1. CASE Sound(f) # f BY <2>2, <5>1
          <5>2. CASE Sound(f) = f /\ Len(f) = 1 BY <2>4, <5>2
          <5>3. CASE Sound(f) = f /\ Len(f) = 0 BY <1>f, <5>3 DEF LastStart
          <5>4. Len(f) >= 2 \/ Len(f) = 1 \/ Len(f) = 0
            <6>1. ASSUME NEW m \in Nat PROVE m >= 2 \/ m = 1 \/ m = 0 OBVIOUS
            <6> QED BY <1>0, <6>1
          <5> QED BY <3>2, <5>1, <5>2, <5>3, <5>4
        <4> QED BY <1>4, <4>1, TypeFacts DEF LastOffset
      <3> QED BY <3>1, <3>2
    <2>7. writer' \in Objects /\ writer'.position = Len(Sound(f))
      BY <1>4, <2>1, TypeFacts DEF Truncate, Objects, NewSegment
    <2> QED BY <1>1, <1>2, <1>4, <2>3, <2>5, <2>6, <2>7
  <1> QED BY <1>3, <1>4 DEF Reopen, Damaged

\* Where a step writes the cache of Segment objects.
LEMMA CacheTypes ==
  ASSUME cache' \in [Bases -> Objects \cup {Closed}]
  PROVE  \A b \in Bases: cache'[b] = Closed \/ cache'[b].total \in Nat
  BY DEF Objects

LEMMA StepTypes ==
  ASSUME Types, [Next]_vars
  PROVE  Types'
  <1>1. CASE Reopen
    <2>0. state' \in {"up", "panicked"} /\ opens' \in 0 .. MaxOpens /\ lastMemLog' = 0 /\ UNCHANGED <<index, pend, written>> /\ Truncated
      BY <1>1, ReopenSteps
    <2>1. file' \in [Bases -> Seq(Records)] BY <2>0, FileCut
    <2>2. /\ lastSeq' \in Records /\ segments' \in Seq(Bases) /\ active' \in Bases /\ since' \in Nat /\ shared' \in BOOLEAN
          /\ writer' \in Objects /\ cache' \in [Bases -> Objects \cup {Closed}]
      <3>1. CASE UNCHANGED <<lastSeq, segments, active, writer, cache, shared, since>>
        BY <3>1 DEF Types, TypeOK, Records
      <3>2. CASE /\ lastSeq' \in Records /\ segments' = <<0>> /\ active' = 0 /\ since' = 0 /\ shared' = TRUE
                 /\ writer' \in Objects /\ cache' = [b \in Bases |-> IF b = 0 THEN writer' ELSE Closed]
        <4>1. <<0>> \in Seq(Bases) BY TypeFacts
        <4> QED BY <3>2, <4>1, TypeFacts
      <3> QED BY <1>1, <3>1, <3>2, ReopenSteps
    <2> QED BY <2>0, <2>1, <2>2, CacheTypes, TypeFacts DEF Types, TypeOK, Records, Objects, Entries
  <1>2. CASE Close
    BY <1>2, CacheTypes DEF Close, Types, TypeOK, Records
  <1>3. ASSUME NEW torn \in 0 .. MaxSeq, Crash(torn) PROVE Types'
    <2>1. file' \in [Bases -> Seq(Records)]
      <3>1. CASE UNCHANGED file BY <3>1 DEF Types
      <3>2. CASE file' = [file EXCEPT ![IF Full THEN torn ELSE active] = Append(@, Junk)]
        <4>1. (IF Full THEN torn ELSE active) \in Bases BY DEF Types, TypeOK, Bases
        <4>2. Appended(IF Full THEN torn ELSE active, Junk) BY <3>2, <4>1, TypeFacts DEF Appended
        <4> QED BY <4>1, <4>2, FileOf, TypeFacts
      <3> QED BY <1>3, <3>1, <3>2 DEF Crash
    <2>2. pend' \in [Senders -> 0 .. MaxSeq] BY <1>3, TopicLogAssumption DEF Crash
    <2> QED BY <1>3, <2>1, <2>2, CacheTypes DEF Crash, Types, TypeOK, Records
  <1>4. ASSUME NEW s \in Senders, NextOffset(s) PROVE Types'
    <2>1. lastSeq' \in 0 .. MaxSeq /\ pend' \in [Senders -> 0 .. MaxSeq]
      BY <1>4, TopicLogAssumption DEF NextOffset, Types, TypeOK
    <2> QED BY <1>4, <2>1, CacheTypes DEF NextOffset, Types, TypeOK, Records
  <1>5. ASSUME NEW s \in Senders, SkipExisting(s) PROVE Types'
    <2>1. pend' \in [Senders -> 0 .. MaxSeq] BY <1>5, TopicLogAssumption DEF SkipExisting, Types, TypeOK
    <2> QED BY <1>5, <2>1, CacheTypes DEF SkipExisting, Types, TypeOK, Records
  <1>6. ASSUME NEW s \in Senders, NEW tooLarge \in BOOLEAN, AppendLog(s, tooLarge) PROVE Types'
    <2>1. PICK b \in Bases, w \in Objects, n \in Records:
            /\ Up /\ Up' /\ n = pend[s] /\ n # 0 /\ active' = b /\ n <= lastSeq' /\ lastSeq <= lastSeq' /\ lastSeq' \in Records
            /\ lastMemLog' \in Records /\ segments' \in Seq(Bases) /\ since' \in Nat
            /\ b # active => b = n
            /\ (w = writer /\ b = active) \/ w.position = 0
            /\ IF tooLarge THEN writer' = w /\ UNCHANGED <<file, index>> ELSE Wrote(b, w, n)
      BY <1>6, AppendSteps
    <2>2. file' \in [Bases -> Seq(Records)] /\ index' \in [Bases -> Seq(Entries)] /\ writer' \in Objects
      <3>1. CASE tooLarge BY <2>1, <3>1 DEF Types
      <3>2. CASE ~tooLarge
        <4>1. Wrote(b, w, n) BY <2>1, <3>2
        <4>2. file' \in [Bases -> Seq(Records)] /\ writer' \in Objects BY <4>1, FileOf DEF Wrote
        <4>3. [off |-> n, pos |-> w.position + 1] \in Entries
          <5>1. w.position \in Nat BY DEF Objects
          <5> QED BY <5>1, TypeFacts DEF Entries
        <4>4. Append(index[b], [off |-> n, pos |-> w.position + 1]) \in Seq(Entries) BY <4>3, AppendFacts, TypeFacts
        <4>5. index' \in [Bases -> Seq(Entries)] BY <4>1, <4>4 DEF Wrote, Types
        <4> QED BY <4>2, <4>5
      <3> QED BY <3>1, <3>2
    <2>3. /\ shared' = (shared /\ ~Full) /\ cache' = (IF shared' THEN [cache EXCEPT ![active] = writer'] ELSE cache)
          /\ pend' = [pend EXCEPT ![s] = 0] /\ UNCHANGED <<state, opens>>
      BY <1>6 DEF AppendLog
    <2>4. cache' \in [Bases -> Objects \cup {Closed}] BY <2>2, <2>3 DEF Types
    <2>5. pend' \in [Senders -> 0 .. MaxSeq] /\ opens' \in 0 .. MaxOpens /\ state' \in {"up", "down", "panicked"}
      BY <2>3, TopicLogAssumption DEF Types, TypeOK
    <2>6. shared' \in BOOLEAN BY <2>3
    <2>7. written' \in Seq(1 .. MaxSeq)
      <3>1. written \in Seq(1 .. MaxSeq) /\ n \in 1 .. MaxSeq BY <2>1, TopicLogAssumption DEF Types, TypeOK, Records
      <3>2. Append(written, n) \in Seq(1 .. MaxSeq) BY <3>1, AppendFacts
      <3>3. written' = written \/ written' = Append(written, n) BY <1>6, <2>1 DEF AppendLog
      <3> QED BY <3>1, <3>2, <3>3
    <2> QED BY <2>1, <2>2, <2>4, <2>5, <2>6, <2>7, CacheTypes, TypeFacts DEF Types, TypeOK, Records, Objects, Entries
  <1>7. ASSUME NEW off \in 0 .. MaxSeq, Read(off) PROVE Types'
    <2>1. cache' \in [Bases -> Objects \cup {Closed}] BY <1>7, TypeFacts DEF Read, Types
    <2> QED BY <1>7, <2>1, CacheTypes DEF Read, Types, TypeOK, Records
  <1>8. CASE UNCHANGED vars BY <1>8 DEF vars, Types, TypeOK
  <1> QED BY <1>1, <1>2, <1>3, <1>4, <1>5, <1>6, <1>7, <1>8 DEF Next, Exhausted

-----------------------------------------------------------------------------
(* Recovery and appends *)

\* check of records that were written completely, and of these with a part of
\* another one behind them.
LEMMA SoundOfWritten ==
  ASSUME NEW c \in Seq(1 .. MaxSeq)
  PROVE  Sound(c) = c /\ Sound(Append(c, Junk)) = c
  <1>1. \A i \in DOMAIN c: c[i] # Junk BY TopicLogAssumption DEF Junk
  <1>2. Sound(c) = c BY <1>1 DEF Sound
  <1> DEFINE f == Append(c, Junk)
             g == Sound(f)
  <1>3. c \in Seq(Records) /\ Junk \in Records BY TopicLogAssumption DEF Records, Junk
  <1>4. /\ f \in Seq(Records) /\ Len(f) = Len(c) + 1 /\ Len(c) \in Nat /\ f[Len(c) + 1] = Junk
        /\ \A i \in 1 .. Len(c): f[i] = c[i] /\ f[i] # Junk
    BY <1>1, <1>3, AppendFacts
  <1>5. /\ g \in Seq(Records) /\ Len(g) <= Len(f) /\ Len(g) \in Nat
        /\ \A i \in 1 .. Len(g): g[i] = f[i] /\ f[i] # Junk
        /\ Len(g) < Len(f) => f[Len(g) + 1] = Junk
    BY <1>4, SoundFacts
  <1> HIDE DEF f, g
  <1>6. Len(g) <= Len(c)
    <2>1. CASE Len(g) = Len(c) + 1 BY <1>4, <1>5, <2>1
    <2> QED BY <1>4, <1>5, <2>1
  <1>7. Len(g) >= Len(c)
    <2>1. CASE Len(g) < Len(c)
      <3>1. Len(g) + 1 \in 1 .. Len(c) /\ Len(g) < Len(f) BY <1>4, <1>5, <2>1
      <3> QED BY <1>4, <1>5, <3>1
    <2> QED BY <1>4, <1>5, <2>1
  <1>8. Len(g) = Len(c) /\ \A i \in 1 .. Len(c): g[i] = c[i] BY <1>4, <1>5, <1>6, <1>7
  <1>9. g = c BY <1>3, <1>5, <1>8
  <1> QED BY <1>2, <1>9 DEF f, g

LEMMA StepRecovers ==
  ASSUME Types, RecoversExactly, [Next]_vars
  PROVE  RecoversExactly'
  <1>0. 0 \in Bases /\ Junk \in Records /\ written \in Seq(1 .. MaxSeq) BY TypeFacts DEF Types, TypeOK
  <1>1. CASE Reopen
    <2>1. file'[0] = Sound(file[0]) /\ written' = written BY <1>1, ReopenSteps, FileCut
    <2>2. file[0] = written \/ file[0] = Append(written, Junk) BY DEF RecoversExactly
    <2> QED BY <1>0, <2>1, <2>2, SoundOfWritten DEF RecoversExactly
  <1>2. ASSUME NEW torn \in 0 .. MaxSeq, Crash(torn) PROVE RecoversExactly'
    <2>1. file[0] = written /\ state' = "down" /\ written' = written BY <1>2 DEF Crash, RecoversExactly
    <2>2. CASE UNCHANGED file BY <2>1, <2>2 DEF RecoversExactly
    <2>3. CASE file' = [file EXCEPT ![IF Full THEN torn ELSE active] = Append(@, Junk)]
      <3>1. (IF Full THEN torn ELSE active) \in Bases /\ file \in [Bases -> Seq(Records)] BY DEF Types, TypeOK, Bases
      <3>2. file'[0] = file[0] \/ file'[0] = Append(file[0], Junk) BY <1>0, <2>3, <3>1
      <3> QED BY <2>1, <3>2 DEF RecoversExactly
    <2> QED BY <1>2, <2>2, <2>3 DEF Crash
  <1>3. ASSUME NEW s \in Senders, NEW tooLarge \in BOOLEAN, AppendLog(s, tooLarge) PROVE RecoversExactly'
    <2>1. file[0] = written BY <1>3 DEF AppendLog, RecoversExactly
    <2>2. PICK b \in Bases, n \in Records:
             /\ b = active' /\ n = pend[s]
             /\ \/ tooLarge /\ UNCHANGED file
                \/ ~tooLarge /\ Appended(b, n)
      BY <1>3, AppendSteps DEF Wrote
    <2>3. written' = IF tooLarge \/ b # 0 THEN written ELSE Append(written, n) BY <1>3, <2>2 DEF AppendLog
    <2>4. CASE tooLarge BY <2>1, <2>2, <2>3, <2>4 DEF RecoversExactly
    <2>5. CASE ~tooLarge
      <3>1. file'[0] = IF b = 0 THEN Append(file[0], n) ELSE file[0] BY <1>0, <2>2, <2>5 DEF Appended, Types
      <3> QED BY <2>1, <2>3, <2>5, <3>1 DEF RecoversExactly
    <2> QED BY <2>4, <2>5
  <1>4. ASSUME NEW s \in Senders, NextOffset(s) \/ SkipExisting(s) PROVE RecoversExactly'
    BY <1>4 DEF NextOffset, SkipExisting, RecoversExactly
  <1>5. ASSUME NEW off \in 0 .. MaxSeq, Read(off) PROVE RecoversExactly' BY <1>5 DEF Read, RecoversExactly
  <1>6. CASE Close BY <1>6 DEF Close, RecoversExactly
  <1>7. CASE UNCHANGED vars BY <1>7 DEF vars, RecoversExactly
  <1> QED BY <1>1, <1>2, <1>3, <1>4, <1>5, <1>6, <1>7 DEF Next, Exhausted

-----------------------------------------------------------------------------
(* The order of the index *)

LEMMA OrderAppendFile ==
  ASSUME NEW f \in Seq(Records), NEW x \in Seq(Entries), InOrder(f, x), NEW r \in Records
  PROVE  InOrder(Append(f, r), x)
  <1> DEFINE g == Append(f, r)
  <1>1. DOMAIN f = 1 .. Len(f) /\ DOMAIN g = 1 .. Len(f) + 1 /\ Len(f) \in Nat /\ \A i \in 1 .. Len(f): g[i] = f[i]
    BY AppendFacts
  <1>2. \A k \in DOMAIN f: k \in DOMAIN g /\ g[k] = f[k] BY <1>1
  <1> HIDE DEF g
  <1>3. ASSUME NEW i \in DOMAIN x PROVE \E k \in DOMAIN g : g[k] = x[i].off /\ x[i].pos <= k
    <2>1. PICK k \in DOMAIN f: f[k] = x[i].off /\ x[i].pos <= k BY DEF InOrder
    <2> QED BY <1>2, <2>1
  <1>4. ASSUME NEW i \in DOMAIN x, NEW j \in 1 .. i - 1
        PROVE  \E k, l \in DOMAIN g : k < l /\ g[k] = x[j].off /\ g[l] = x[i].off
    <2>1. PICK k \in DOMAIN f, l \in DOMAIN f: k < l /\ f[k] = x[j].off /\ f[l] = x[i].off BY DEF InOrder
    <2> QED BY <1>2, <2>1
  <1>5. InOrder(g, x) BY <1>3, <1>4 DEF InOrder
  <1> QED BY <1>5 DEF g

LEMMA OrderAppendBoth ==
  ASSUME NEW f \in Seq(Records), NEW x \in Seq(Entries), InOrder(f, x), NEW r \in Records,
         NEW e \in Entries, e.off = r, e.pos <= Len(f) + 1
  PROVE  InOrder(Append(f, r), Append(x, e))
  <1> DEFINE g == Append(f, r)
             y == Append(x, e)
             m == Len(x)
  <1>1. /\ DOMAIN f = 1 .. Len(f) /\ DOMAIN g = 1 .. Len(f) + 1 /\ Len(f) \in Nat /\ \A i \in 1 .. Len(f): g[i] = f[i]
        /\ g[Len(f) + 1] = r
    BY AppendFacts
  <1>2. DOMAIN x = 1 .. m /\ DOMAIN y = 1 .. m + 1 /\ m \in Nat /\ y[m + 1] = e /\ \A i \in 1 .. m: y[i] = x[i]
    BY AppendFacts
  <1>3. \A k \in DOMAIN f: k \in DOMAIN g /\ g[k] = f[k] /\ k < Len(f) + 1 BY <1>1
  <1>4. Len(f) + 1 \in DOMAIN g BY <1>1
  <1> HIDE DEF g, y, m
  <1>5. ASSUME NEW i \in 1 .. m
        PROVE  /\ \E k \in DOMAIN g : g[k] = y[i].off /\ y[i].pos <= k
               /\ \A j \in 1 .. i - 1 : \E k, l \in DOMAIN g : k < l /\ g[k] = y[j].off /\ g[l] = y[i].off
    <2>1. i \in DOMAIN x /\ y[i] = x[i] /\ \A j \in 1 .. i - 1: y[j] = x[j] BY <1>2
    <2>2. \E k \in DOMAIN f : f[k] = x[i].off /\ x[i].pos <= k BY <2>1 DEF InOrder
    <2>3. ASSUME NEW j \in 1 .. i - 1 PROVE \E k, l \in DOMAIN g : k < l /\ g[k] = y[j].off /\ g[l] = y[i].off
      <3>1. PICK k \in DOMAIN f, l \in DOMAIN f: k < l /\ f[k] = x[j].off /\ f[l] = x[i].off BY <2>1 DEF InOrder
      <3> QED BY <1>3, <2>1, <3>1
    <2> QED BY <1>3, <2>1, <2>2, <2>3
  <1>6. /\ \E k \in DOMAIN g : g[k] = y[m + 1].off /\ y[m + 1].pos <= k
        /\ \A j \in 1 .. (m + 1) - 1 : \E k, l \in DOMAIN g : k < l /\ g[k] = y[j].off /\ g[l] = y[m + 1].off
    <2>1. ASSUME NEW j \in 1 .. (m + 1) - 1 PROVE \E k, l \in DOMAIN g : k < l /\ g[k] = y[j].off /\ g[l] = y[m + 1].off
      <3>1. j \in DOMAIN x /\ y[j] = x[j] BY <1>2
      <3>2. PICK k \in DOMAIN f: f[k] = x[j].off BY <3>1 DEF InOrder
      <3>3. k \in DOMAIN g /\ k < Len(f) + 1 /\ g[k] = y[j].off BY <1>3, <3>1, <3>2
      <3> QED BY <1>1, <1>2, <1>4, <3>3
    <2> QED BY <1>1, <1>2, <1>4, <2>1
  <1>7. \A i \in DOMAIN y: i \in 1 .. m \/ i = m + 1 BY <1>2
  <1>8. InOrder(g, y) BY <1>5, <1>6, <1>7 DEF InOrder
  <1> QED BY <1>8 DEF g, y

LEMMA OrderCut ==
  ASSUME NEW f \in Seq(Records), NEW x \in Seq(Entries), InOrder(f, x),
         \A i \in 1 .. Len(f): f[i] = Junk => i = Len(f), \A i \in DOMAIN x: x[i].off # Junk
  PROVE  InOrder(Sound(f), x)
  <1>1. CASE Sound(f) = f BY <1>1
  <1>2. CASE f # <<>> /\ f[Len(f)] = Junk /\ Len(Sound(f)) = Len(f) - 1
    <2>1. /\ Sound(f) \in Seq(Records) /\ DOMAIN Sound(f) = 1 .. Len(f) - 1 /\ Len(f) \in Nat /\ DOMAIN f = 1 .. Len(f)
          /\ \A i \in 1 .. Len(f) - 1: Sound(f)[i] = f[i]
      BY <1>2, SoundFacts
    <2>2. \A k \in DOMAIN f: f[k] # Junk => k \in DOMAIN Sound(f) /\ Sound(f)[k] = f[k] BY <1>2, <2>1
    <2>3. \A i \in DOMAIN x: \A j \in 1 .. i - 1: j \in DOMAIN x OBVIOUS
    <2>4. ASSUME NEW i \in DOMAIN x PROVE \E k \in DOMAIN Sound(f) : Sound(f)[k] = x[i].off /\ x[i].pos <= k
      <3>1. PICK k \in DOMAIN f: f[k] = x[i].off /\ x[i].pos <= k BY DEF InOrder
      <3> QED BY <2>2, <3>1
    <2>5. ASSUME NEW i \in DOMAIN x, NEW j \in 1 .. i - 1
          PROVE  \E k, l \in DOMAIN Sound(f) : k < l /\ Sound(f)[k] = x[j].off /\ Sound(f)[l] = x[i].off
      <3>1. PICK k \in DOMAIN f, l \in DOMAIN f: k < l /\ f[k] = x[j].off /\ f[l] = x[i].off BY DEF InOrder
      <3>2. f[k] # Junk /\ f[l] # Junk BY <2>3, <3>1
      <3> QED BY <2>2, <3>1, <3>2
    <2> QED BY <2>4, <2>5 DEF InOrder
  <1> QED BY <1>1, <1>2, SoundOfTorn

-----------------------------------------------------------------------------
(* The numbers that lastSeq covers *)

\* A topic that has not rolled has its records in the first file.
LEMMA StoredIn ==
  ASSUME NEW g \in [Bases -> Seq(Records)], \A b \in Bases \ {0}: g[b] = <<>>
  PROVE  LET st == (UNION { { g[b][i] : i \in DOMAIN g[b] } : b \in Bases }) \ {Junk}
         IN  /\ \A n \in st: n # Junk /\ \E i \in 1 .. Len(g[0]): n = g[0][i]
             /\ \A i \in 1 .. Len(g[0]): g[0][i] # Junk => g[0][i] \in st
  <1>0. 0 \in Bases BY TopicLogAssumption DEF Bases
  <1> DEFINE st == (UNION { { g[b][i] : i \in DOMAIN g[b] } : b \in Bases }) \ {Junk}
  <1>1. DOMAIN g[0] = 1 .. Len(g[0]) BY <1>0
  <1>2. DOMAIN <<>> = {} OBVIOUS
  <1>3. ASSUME NEW n \in st PROVE n # Junk /\ \E i \in 1 .. Len(g[0]): n = g[0][i]
    <2>1. PICK b \in Bases: n \in { g[b][i] : i \in DOMAIN g[b] } BY <1>3
    <2>2. PICK i \in DOMAIN g[b]: n = g[b][i] BY <2>1
    <2>3. b = 0
      <3>1. CASE b # 0 BY <1>2, <2>2, <3>1
      <3> QED BY <3>1
    <2> QED BY <1>1, <1>3, <2>2, <2>3
  <1>4. ASSUME NEW i \in 1 .. Len(g[0]), g[0][i] # Junk PROVE g[0][i] \in st
    BY <1>0, <1>1, <1>4
  <1> QED BY <1>3, <1>4

\* Where every record is larger than the one in front of it, the last is the largest.
LEMMA LastLargest ==
  ASSUME NEW f \in Seq(Records), \A i \in 2 .. Len(f): f[i - 1] < f[i]
  PROVE  \A i \in 1 .. Len(f): f[i] <= f[Len(f)]
  <1>0. Len(f) \in Nat /\ \A i \in 1 .. Len(f): f[i] \in Nat
    <2>1. Len(f) \in Nat /\ \A i \in 1 .. Len(f): f[i] \in Records OBVIOUS
    <2> QED BY <2>1, TopicLogAssumption DEF Records
  <1> DEFINE far == { d \in Nat: d < Len(f) /\ f[Len(f) - d] > f[Len(f)] }
             d == CHOOSE a \in far: \A c \in far: a <= c
  <1>1. CASE far # {}
    <2>1. far \in SUBSET Nat OBVIOUS
    <2>2. d \in far /\ \A c \in far: d <= c
      <3> HIDE DEF far
      <3> QED BY <1>1, <2>1, FirstPlace
    <2> HIDE DEF d
    <2>3. d \in Nat /\ d < Len(f) /\ f[Len(f) - d] > f[Len(f)] BY <2>2
    <2>4. d # 0
      <3>1. CASE d = 0
        <4>1. Len(f) - d = Len(f) /\ Len(f) \in 1 .. Len(f) BY <1>0, <2>3, <3>1
        <4> QED BY <1>0, <2>3, <4>1
      <3> QED BY <3>1
    <2>5. d - 1 \in Nat /\ d - 1 < Len(f) /\ ~(d <= d - 1) BY <2>3, <2>4, <1>0
    <2>6. ~(f[Len(f) - (d - 1)] > f[Len(f)]) BY <2>2, <2>5
    <2> DEFINE k == Len(f) - d
    <2>7. k + 1 = Len(f) - (d - 1) /\ k + 1 \in 2 .. Len(f) /\ (k + 1) - 1 = k /\ k \in 1 .. Len(f) BY <1>0, <2>3, <2>4
    <2> HIDE DEF k
    <2>8. f[k] < f[k + 1] BY <2>7
    <2>9. f[k] > f[Len(f)] /\ ~(f[k + 1] > f[Len(f)]) BY <2>3, <2>6, <2>7 DEF k
    <2>10. f[k] \in Nat /\ f[k + 1] \in Nat /\ f[Len(f)] \in Nat
      <3>1. Len(f) \in 1 .. Len(f) /\ k + 1 \in 1 .. Len(f) BY <1>0, <2>7
      <3> QED BY <1>0, <2>7, <3>1
    <2> QED BY <2>8, <2>9, <2>10
  <1>2. CASE far = {}
    <2>1. ASSUME NEW i \in 1 .. Len(f) PROVE f[i] <= f[Len(f)]
      <3>1. Len(f) - i \in Nat /\ Len(f) - i < Len(f) /\ Len(f) - (Len(f) - i) = i BY <1>0
      <3>2. ~(f[i] > f[Len(f)]) BY <1>2, <3>1
      <3>3. f[i] \in Nat /\ f[Len(f)] \in Nat
        <4>1. Len(f) \in 1 .. Len(f) BY <1>0
        <4> QED BY <1>0, <4>1
      <3> QED BY <3>2, <3>3
    <2> QED BY <2>1
  <1> QED BY <1>1, <1>2

\* ReopenCovers from what the first file holds.
LEMMA CoversNext ==
  ASSUME Types', /\ Up' /\ Len(file'[0]) # 1
                 /\ \A b \in Bases \ {0} : file'[b] = <<>>
                 /\ \A i \in 2 .. Len(file'[0]) : file'[0][i - 1] < file'[0][i]
                 => \A i \in 1 .. Len(file'[0]): file'[0][i] <= lastSeq'
  PROVE  ReopenCovers'
  <1> SUFFICES ASSUME /\ Up' /\ Len(file'[0]) # 1
                      /\ \A b \in Bases \ {0} : file'[b] = <<>>
                      /\ \A i \in 2 .. Len(file'[0]) : file'[0][i - 1] < file'[0][i],
                      NEW n \in Stored'
               PROVE  n <= lastSeq'
    BY DEF ReopenCovers
  <1>1. file' \in [Bases -> Seq(Records)] BY DEF Types
  <1>2. PICK i \in 1 .. Len(file'[0]): n = file'[0][i] BY <1>1, StoredIn DEF Stored
  <1> QED BY <1>2

\* What ReopenCovers says of the first file.
LEMMA CoversNow ==
  ASSUME Types, Torn, ReopenCovers, Up, Len(file[0]) # 1,
         \A b \in Bases \ {0} : file[b] = <<>>,
         \A i \in 2 .. Len(file[0]) : file[0][i - 1] < file[0][i]
  PROVE  \A i \in 1 .. Len(file[0]): file[0][i] <= lastSeq
  <1> SUFFICES ASSUME NEW i \in 1 .. Len(file[0]) PROVE file[0][i] <= lastSeq OBVIOUS
  <1>1. file \in [Bases -> Seq(Records)] BY DEF Types
  <1>2. i \in DOMAIN file[0] /\ file[0][i] # Junk BY TypeFacts DEF Torn, Up
  <1>3. file[0][i] \in Stored BY <1>1, <1>2, StoredIn DEF Stored
  <1> QED BY <1>3 DEF ReopenCovers

LEMMA InitInd == Init => IndInv
  <1> SUFFICES ASSUME Init PROVE IndInv OBVIOUS
  <1>1. <<>> \in Seq(Records) /\ <<>> \in Seq(Entries) /\ <<>> \in Seq(Bases) /\ DOMAIN <<>> = {} /\ Len(<<>>) = 0 OBVIOUS
  <1>2. 0 \in Bases BY TopicLogAssumption DEF Bases
  <1>3. file \in [Bases -> Seq(Records)] /\ index \in [Bases -> Seq(Entries)] /\ cache \in [Bases -> Objects \cup {Closed}]
    BY <1>1 DEF Init
  <1>4. writer \in Objects BY DEF Init, Objects
  <1>5. pend \in [Senders -> 0 .. MaxSeq] /\ written \in Seq(1 .. MaxSeq) BY TopicLogAssumption DEF Init
  <1>6. \A b \in Bases: file[b] = <<>> /\ index[b] = <<>> /\ cache[b] = Closed BY DEF Init
  <1>7. Types BY <1>1, <1>2, <1>3, <1>4, <1>5, <1>6, TopicLogAssumption DEF Init, Types, TypeOK, Records, Objects, Entries
  <1>8. Counted /\ ReopenCovers BY DEF Init, Counted, ReopenCovers, Up
  <1>9. Torn /\ Real BY <1>1, <1>2, <1>6 DEF Torn, Real
  <1>10. IndexOrdered BY <1>1, <1>6 DEF IndexOrdered, InOrder
  <1> QED BY <1>7, <1>8, <1>9, <1>10 DEF IndInv

LEMMA ReopenInd ==
  ASSUME IndInv, Types', Reopen
  PROVE  Counted' /\ Torn' /\ Real' /\ IndexOrdered' /\ ReopenCovers'
  <1> DEFINE f == file[0]
  <1>0. Types /\ Counted /\ Torn /\ Real /\ IndexOrdered /\ ReopenCovers BY DEF IndInv
  <1>1. f \in Seq(Records) /\ 0 \in Bases /\ Len(f) \in Nat BY <1>0, TypeFacts
  <1>2. Truncated /\ index' = index /\ (state' = "panicked" \/ state' = "up") BY <1>0, ReopenSteps
  <1>3. file'[0] = Sound(f) /\ \A c \in Bases: c # 0 => file'[c] = file[c] BY <1>0, <1>2, FileCut
  <1>4. Counted'
    <2>1. CASE state' = "panicked" BY <2>1 DEF Counted, Up
    <2>2. CASE state' = "up"
      <3>1. active' = 0 /\ writer'.position = Len(Sound(f)) BY <1>0, <2>2, ReopenSteps
      <3>2. Len(Sound(f)) \in Nat BY <1>1, SoundFacts
      <3> QED BY <1>3, <3>1, <3>2 DEF Counted
    <2> QED BY <1>2, <2>1, <2>2
  <1>5. Torn'
    <2>1. DOMAIN Sound(f) = 1 .. Len(Sound(f)) /\ \A i \in 1 .. Len(Sound(f)): Sound(f)[i] # Junk BY <1>1, SoundFacts
    <2> QED BY <1>3, <2>1 DEF Torn
  <1>6. Real' BY <1>0, <1>2 DEF Real
  <1>7. IndexOrdered'
    <2>1. ASSUME NEW b \in Bases PROVE InOrder(file'[b], index[b])
      <3>1. InOrder(file[b], index[b]) BY <1>0 DEF IndexOrdered
      <3>2. CASE b # 0 BY <1>3, <3>1, <3>2
      <3>3. CASE b = 0
        <4>1. \A i \in 1 .. Len(f): f[i] = Junk => i = Len(f) BY <1>1 DEF Torn, IndInv
        <4>2. \A i \in DOMAIN index[0]: index[0][i].off # Junk BY <1>0, <1>1 DEF Real
        <4>3. index[0] \in Seq(Entries) BY <1>0, <1>1, TypeFacts
        <4>4. InOrder(Sound(f), index[0]) BY <1>1, <3>1, <3>3, <4>1, <4>2, <4>3, OrderCut
        <4> QED BY <1>3, <3>3, <4>4
      <3> QED BY <3>2, <3>3
    <2> QED BY <1>2, <2>1 DEF IndexOrdered
  <1>8. ReopenCovers'
    <2>1. ASSUME Up', Len(file'[0]) # 1, \A i \in 2 .. Len(file'[0]) : file'[0][i - 1] < file'[0][i]
          PROVE  \A i \in 1 .. Len(file'[0]): file'[0][i] <= lastSeq'
      <3>1. state' = "up" BY <2>1 DEF Up
      <3>2. CASE Sound(f) = <<>>
        <4>1. Len(file'[0]) = 0 BY <1>3, <3>2
        <4> QED BY <4>1
      <3>3. CASE Sound(f) = f
        <4>1. Len(f) >= 2 => lastSeq' = f[Len(f)] BY <1>0, <3>1, <3>3, ReopenSteps
        <4>2. \A i \in 1 .. Len(f): f[i] <= f[Len(f)] BY <1>1, <1>3, <2>1, <3>3, LastLargest
        <4>3. Len(f) >= 2 \/ Len(f) = 0
          <5>1. ASSUME NEW m \in Nat, m # 1 PROVE m >= 2 \/ m = 0 BY <5>1
          <5> QED BY <1>1, <1>3, <2>1, <3>3, <5>1
        <4> QED BY <1>1, <1>3, <3>3, <4>1, <4>2, <4>3
      <3> QED BY <1>0, <3>1, <3>2, <3>3, ReopenSteps
    <2> QED BY <2>1, CoversNext
  <1> QED BY <1>4, <1>5, <1>6, <1>7, <1>8

LEMMA CrashInd ==
  ASSUME IndInv, Types', NEW torn \in 0 .. MaxSeq, Crash(torn)
  PROVE  Counted' /\ Torn' /\ Real' /\ IndexOrdered' /\ ReopenCovers'
  <1>0. Types /\ Counted /\ Torn /\ Real /\ IndexOrdered /\ ReopenCovers BY DEF IndInv
  <1>1. Up /\ state = "up" /\ state' = "down" /\ index' = index BY DEF Crash, Up
  <1>2. Counted' /\ ReopenCovers' BY <1>1 DEF Counted, ReopenCovers, Up
  <1>3. Real' BY <1>0, <1>1 DEF Real
  <1>4. UNCHANGED file \/ \E b \in Bases: Appended(b, Junk)
    <2>1. CASE UNCHANGED file BY <2>1
    <2>2. CASE file' = [file EXCEPT ![IF Full THEN torn ELSE active] = Append(@, Junk)]
      <3>1. (IF Full THEN torn ELSE active) \in Bases BY <1>0 DEF Types, TypeOK, Bases
      <3>2. Junk \in Records BY <1>0, TypeFacts
      <3> QED BY <2>2, <3>1, <3>2 DEF Appended
    <2> QED BY <2>1, <2>2 DEF Crash
  <1>5. \A i \in DOMAIN file[0]: file[0][i] # Junk BY <1>0, <1>1 DEF Torn
  <1>6. CASE UNCHANGED file
    <2>1. Torn' BY <1>5, <1>6 DEF Torn
    <2>2. IndexOrdered' BY <1>0, <1>1, <1>6 DEF IndexOrdered
    <2> QED BY <1>2, <1>3, <2>1, <2>2
  <1>7. ASSUME NEW b \in Bases, Appended(b, Junk) PROVE Torn' /\ IndexOrdered'
    <2>0. Junk \in Records /\ 0 \in Bases BY <1>0, TypeFacts
    <2>1. file'[b] = Append(file[b], Junk) /\ \A c \in Bases: c # b => file'[c] = file[c] BY <1>0, <1>7, <2>0, FileOf
    <2>2. Torn'
      <3>1. CASE b = 0
        <4>1. /\ DOMAIN file'[0] = 1 .. Len(file[0]) + 1 /\ Len(file'[0]) = Len(file[0]) + 1 /\ Len(file[0]) \in Nat
              /\ DOMAIN file[0] = 1 .. Len(file[0]) /\ \A i \in 1 .. Len(file[0]): file'[0][i] = file[0][i]
          BY <1>0, <1>7, <2>0, <3>1, FileOf, TypeFacts
        <4>2. \A i \in 1 .. Len(file[0]) + 1: i \in 1 .. Len(file[0]) \/ i = Len(file[0]) + 1 BY <4>1
        <4> QED BY <1>1, <1>5, <4>1, <4>2 DEF Torn
      <3>2. CASE b # 0 BY <1>5, <2>0, <2>1, <3>2 DEF Torn
      <3> QED BY <3>1, <3>2
    <2>3. ASSUME NEW c \in Bases PROVE InOrder(file'[c], index[c])
      <3>1. file[c] \in Seq(Records) /\ index[c] \in Seq(Entries) /\ InOrder(file[c], index[c])
        BY <1>0, TypeFacts DEF IndexOrdered
      <3>2. InOrder(Append(file[c], Junk), index[c]) BY <2>0, <3>1, OrderAppendFile
      <3> QED BY <2>1, <3>1, <3>2
    <2> QED BY <1>1, <2>2, <2>3 DEF IndexOrdered
  <1> QED BY <1>2, <1>3, <1>4, <1>6, <1>7

LEMMA WroteInd ==
  ASSUME IndInv, Types', NEW b \in Bases, NEW w \in Objects, NEW n \in Records, Wrote(b, w, n),
         Up, Up', active' = b, n <= lastSeq', lastSeq <= lastSeq', (w = writer /\ b = active) \/ w.position = 0
  PROVE  Counted' /\ Torn' /\ Real' /\ IndexOrdered' /\ ReopenCovers'
  <1>0. Types /\ Counted /\ Torn /\ Real /\ IndexOrdered /\ ReopenCovers BY DEF IndInv
  <1>1. Appended(b, n) /\ n # Junk BY DEF Wrote
  <1>2. /\ \A c \in Bases: c # b => file'[c] = file[c]
        /\ file'[b] = Append(file[b], n) /\ Len(file'[b]) = Len(file[b]) + 1 /\ file'[b] # <<>>
        /\ DOMAIN file'[b] = 1 .. Len(file[b]) + 1
        /\ file'[b][Len(file[b]) + 1] = n /\ \A i \in 1 .. Len(file[b]): file'[b][i] = file[b][i]
    BY <1>0, <1>1, FileOf
  <1>3. 0 \in Bases /\ Len(file[b]) \in Nat /\ DOMAIN file[b] = 1 .. Len(file[b]) /\ w.position \in Nat
    BY <1>0, TypeFacts DEF Objects
  <1>4. w.position <= Len(file[b]) BY <1>0, <1>3 DEF Counted
  <1>5. \A i \in 1 .. Len(file[b]) + 1: i \in 1 .. Len(file[b]) \/ i = Len(file[b]) + 1 BY <1>3
  <1>6. \A i \in DOMAIN file[0]: file[0][i] # Junk BY <1>0 DEF Torn, Up
  <1>7. Counted'
    <2>1. writer'.position = w.position + 1 BY DEF Wrote
    <2> QED BY <1>2, <1>3, <1>4, <2>1 DEF Counted
  <1>8. Torn'
    <2>1. CASE b = 0 BY <1>1, <1>2, <1>3, <1>5, <1>6, <2>1 DEF Torn
    <2>2. CASE b # 0 BY <1>2, <1>3, <1>6, <2>2 DEF Torn
    <2> QED BY <2>1, <2>2
  <1> DEFINE e == [off |-> n, pos |-> w.position + 1]
  <1>9. e \in Entries /\ e.off = n /\ e.pos <= Len(file[b]) + 1
    <2>1. n \in Bases BY <1>0, TypeFacts
    <2> QED BY <1>3, <1>4, <2>1 DEF Entries
  <1>10. UNCHANGED index \/ index' = [index EXCEPT ![b] = Append(@, e)] BY DEF Wrote
  <1> HIDE DEF e
  <1>11. ASSUME NEW c \in Bases
         PROVE  index'[c] = index[c] \/ (c = b /\ index'[c] = Append(index[c], e))
    BY <1>0, <1>10 DEF Types
  <1>12. Real'
    <2>1. ASSUME NEW c \in Bases, NEW i \in DOMAIN index'[c] PROVE index'[c][i].off # Junk
      <3>0. index[c] \in Seq(Entries) /\ \A j \in DOMAIN index[c]: index[c][j].off # Junk BY <1>0, TypeFacts DEF Real
      <3>1. CASE index'[c] = index[c] BY <3>0, <3>1, <2>1
      <3>2. CASE index'[c] = Append(index[c], e)
        <4>1. i \in 1 .. Len(index[c]) + 1 /\ DOMAIN index[c] = 1 .. Len(index[c]) /\ Len(index[c]) \in Nat
          BY <1>9, <2>1, <3>0, <3>2, AppendFacts
        <4>2. CASE i \in 1 .. Len(index[c])
          <5>1. index'[c][i] = index[c][i] BY <1>9, <3>0, <3>2, <4>2, AppendFacts
          <5> QED BY <3>0, <4>1, <4>2, <5>1
        <4>3. CASE i = Len(index[c]) + 1
          <5>1. index'[c][i] = e BY <1>9, <3>0, <3>2, <4>3, AppendFacts
          <5> QED BY <1>1, <1>9, <5>1
        <4> QED BY <4>1, <4>2, <4>3
      <3> QED BY <1>11, <3>1, <3>2
    <2> QED BY <2>1 DEF Real
  <1>13. ASSUME NEW c \in Bases PROVE InOrder(file'[c], index'[c])
    <2>1. file[c] \in Seq(Records) /\ index[c] \in Seq(Entries) /\ InOrder(file[c], index[c])
      BY <1>0, TypeFacts DEF IndexOrdered
    <2>2. InOrder(Append(file[c], n), index[c]) BY <2>1, OrderAppendFile
    <2>3. CASE index'[c] = index[c] BY <1>2, <2>1, <2>2, <2>3
    <2>4. CASE c = b /\ index'[c] = Append(index[c], e)
      <3>1. InOrder(Append(file[c], n), Append(index[c], e)) BY <1>9, <2>1, <2>4, OrderAppendBoth
      <3> QED BY <1>2, <2>4, <3>1
    <2> QED BY <1>11, <2>3, <2>4
  <1>14. IndexOrdered' BY <1>13 DEF IndexOrdered
  <1>15. ReopenCovers'
    <2>1. ASSUME Up', Len(file'[0]) # 1, \A c \in Bases \ {0} : file'[c] = <<>>,
                 \A i \in 2 .. Len(file'[0]) : file'[0][i - 1] < file'[0][i]
          PROVE  \A i \in 1 .. Len(file'[0]): file'[0][i] <= lastSeq'
      <3>1. b = 0 BY <1>2, <2>1
      <3>2. \A c \in Bases \ {0} : file[c] = <<>> BY <1>2, <2>1, <3>1
      <3> DEFINE f == file[0]
                 g == file'[0]
      <3>3. /\ Len(g) = Len(f) + 1 /\ Len(f) \in Nat /\ g[Len(f) + 1] = n /\ \A i \in 1 .. Len(f): g[i] = f[i]
        BY <1>2, <1>3, <3>1
      <3>4. f \in Seq(Records) /\ \A i \in 1 .. Len(f): f[i] \in Nat
        <4>1. f \in Seq(Records) BY <1>0, <1>3, TypeFacts
        <4>2. \A i \in 1 .. Len(f): f[i] \in Records BY <4>1
        <4> QED BY <4>1, <4>2, TopicLogAssumption DEF Records
      <3>5. lastSeq \in Nat /\ lastSeq' \in Nat /\ n \in Nat
        <4>1. lastSeq \in 0 .. MaxSeq /\ lastSeq' \in 0 .. MaxSeq BY <1>0 DEF Types, TypeOK
        <4> QED BY <4>1, TopicLogAssumption DEF Records
      <3>6. ASSUME NEW i \in 1 .. Len(f) PROVE g[i] <= lastSeq'
        <4>1. CASE Len(f) = 1
          <5>1. g[1] < g[2] /\ g[2] = n /\ i = 1 /\ g[1] \in Nat
            <6>1. 2 \in 2 .. Len(g) /\ 2 - 1 = 1 /\ i = 1 BY <3>3, <4>1
            <6>2. g[2 - 1] < g[2] BY <2>1, <6>1
            <6> QED BY <3>3, <3>4, <4>1, <6>1, <6>2
          <5> QED BY <3>5, <5>1
        <4>2. CASE Len(f) # 1
          <5>1. ASSUME NEW j \in 2 .. Len(f) PROVE f[j - 1] < f[j]
            <6>1. j \in 1 .. Len(f) /\ j - 1 \in 1 .. Len(f) /\ j \in 2 .. Len(g) BY <3>3
            <6>2. g[j - 1] < g[j] BY <2>1, <6>1
            <6> QED BY <3>3, <6>1, <6>2
          <5>2. f[i] <= lastSeq BY <1>0, <3>2, <4>2, <5>1, CoversNow
          <5> QED BY <3>3, <3>4, <3>5, <5>2
        <4> QED BY <4>1, <4>2
      <3> QED BY <1>5, <3>1, <3>3, <3>6
    <2> QED BY <2>1, CoversNext
  <1> QED BY <1>7, <1>8, <1>12, <1>14, <1>15

\* The files, their indexes and the active object stay, and so does the state.
LEMMA QuietInd ==
  ASSUME IndInv, Types', UNCHANGED <<file, index>>, lastSeq <= lastSeq',
         UNCHANGED state \/ (Up /\ state' = "down"),
         Up' => (active' = active /\ writer' = writer) \/ (active' \in Bases /\ writer'.position = 0)
  PROVE  Counted' /\ Torn' /\ Real' /\ IndexOrdered' /\ ReopenCovers'
  <1>0. Types /\ Counted /\ Torn /\ Real /\ IndexOrdered /\ ReopenCovers BY DEF IndInv
  <1>1. Counted'
    <2>1. ASSUME Up', active' = active, writer' = writer PROVE Counted' BY <1>0, <2>1 DEF Counted, Up
    <2>2. ASSUME Up', active' \in Bases, writer'.position = 0 PROVE Counted'
      <3>1. Len(file[active']) \in Nat BY <1>0, <2>2, TypeFacts
      <3> QED BY <2>2, <3>1 DEF Counted
    <2> QED BY <2>1, <2>2 DEF Counted
  <1>2. Torn' BY <1>0 DEF Torn, Up
  <1>3. Real' BY <1>0 DEF Real
  <1>4. IndexOrdered' BY <1>0 DEF IndexOrdered
  <1>5. ReopenCovers'
    <2>1. ASSUME Up', Len(file[0]) # 1, \A c \in Bases \ {0} : file[c] = <<>>,
                 \A i \in 2 .. Len(file[0]) : file[0][i - 1] < file[0][i], NEW i \in 1 .. Len(file[0])
          PROVE  file[0][i] <= lastSeq'
      <3>1. Up BY <2>1 DEF Up
      <3>2. file[0][i] <= lastSeq BY <1>0, <2>1, <3>1, CoversNow
      <3>3. lastSeq \in Nat /\ lastSeq' \in Nat
        <4>1. lastSeq \in 0 .. MaxSeq /\ lastSeq' \in 0 .. MaxSeq BY <1>0 DEF Types, TypeOK
        <4> QED BY <4>1, TopicLogAssumption
      <3>4. file[0][i] \in Nat
        <4>1. file[0] \in Seq(Records) BY <1>0, TypeFacts
        <4>2. file[0][i] \in Records BY <2>1, <4>1
        <4> QED BY <4>2, TopicLogAssumption DEF Records
      <3> QED BY <3>2, <3>3, <3>4
    <2> QED BY <2>1, CoversNext
  <1> QED BY <1>1, <1>2, <1>3, <1>4, <1>5

LEMMA StepInd == IndInv /\ [Next]_vars => IndInv'
  <1> SUFFICES ASSUME IndInv, [Next]_vars PROVE IndInv' OBVIOUS
  <1>0. Types /\ Types' BY StepTypes DEF IndInv
  <1>l. lastSeq \in Nat
    <2>1. lastSeq \in 0 .. MaxSeq BY <1>0 DEF Types, TypeOK
    <2> QED BY <2>1
  <1> DEFINE Rest == Counted' /\ Torn' /\ Real' /\ IndexOrdered' /\ ReopenCovers'
  <1> SUFFICES Rest BY <1>0 DEF IndInv
  <1>1. CASE Reopen BY <1>0, <1>1, ReopenInd
  <1>2. CASE Close
    <2>1. Up /\ state' = "down" /\ ~Up' /\ UNCHANGED <<file, index>> /\ lastSeq <= lastSeq' BY <1>2, <1>l DEF Close, Up
    <2> QED BY <1>0, <2>1, QuietInd
  <1>3. ASSUME NEW torn \in 0 .. MaxSeq, Crash(torn) PROVE Rest BY <1>0, <1>3, CrashInd
  <1>4. ASSUME NEW s \in Senders, NextOffset(s) \/ SkipExisting(s) PROVE Rest
    <2>1. UNCHANGED <<file, index, state, active, writer>> /\ (lastSeq' = lastSeq + 1 \/ lastSeq' = lastSeq)
      BY <1>4 DEF NextOffset, SkipExisting
    <2>2. lastSeq <= lastSeq' BY <1>l, <2>1
    <2> QED BY <1>0, <2>1, <2>2, QuietInd
  <1>5. ASSUME NEW s \in Senders, NEW tooLarge \in BOOLEAN, AppendLog(s, tooLarge) PROVE Rest
    <2>1. PICK b \in Bases, w \in Objects, n \in Records:
            /\ Up /\ Up' /\ n = pend[s] /\ n # 0 /\ active' = b /\ n <= lastSeq' /\ lastSeq <= lastSeq' /\ lastSeq' \in Records
            /\ lastMemLog' \in Records /\ segments' \in Seq(Bases) /\ since' \in Nat
            /\ b # active => b = n
            /\ (w = writer /\ b = active) \/ w.position = 0
            /\ IF tooLarge THEN writer' = w /\ UNCHANGED <<file, index>> ELSE Wrote(b, w, n)
      BY <1>0, <1>5, AppendSteps
    <2>2. CASE tooLarge
      <3>1. writer' = w /\ UNCHANGED <<file, index>> /\ UNCHANGED state BY <2>1, <2>2 DEF Up
      <3> QED BY <1>0, <2>1, <3>1, QuietInd
    <2>3. CASE ~tooLarge BY <1>0, <2>1, <2>3, WroteInd
    <2> QED BY <2>2, <2>3
  <1>6. ASSUME NEW off \in 0 .. MaxSeq, Read(off) PROVE Rest
    <2>1. UNCHANGED <<file, index, state, active, writer, lastSeq>> BY <1>6 DEF Read
    <2>2. lastSeq <= lastSeq' BY <1>l, <2>1
    <2> QED BY <1>0, <2>1, <2>2, QuietInd
  <1>7. CASE UNCHANGED vars
    <2>1. UNCHANGED <<file, index, state, active, writer, lastSeq>> BY <1>7 DEF vars
    <2>2. lastSeq <= lastSeq' BY <1>l, <2>1
    <2> QED BY <1>0, <2>1, <2>2, QuietInd
  <1> QED BY <1>1, <1>2, <1>3, <1>4, <1>5, <1>6, <1>7 DEF Next, Exhausted

-----------------------------------------------------------------------------
(* The search of the index.  Where an argument needs induction over a         *)
(* length, FirstPlace takes the least length at which it would fail.          *)

Off(x, i) == x[i + 1].off

\* What the search gives, from the entry in the middle and the two halves.
Side(x, target, m, left, right) ==
    IF Off(x, m) > target THEN left ELSE IF Off(x, m) < target THEN right ELSE m

\* One unfolding of the search, with g for what the two halves give.
Halved(x, begin, end, target, g) ==
    [r \in (begin .. end) \X (begin .. end) |->
        LET mid == (r[1] + r[2] + 1) \div 2
            off == x[mid + 1].off
        IN  IF r[1] >= r[2] THEN r[1]
            ELSE IF off > target THEN g[<<r[1], mid - 1>>]
            ELSE IF off < target THEN g[<<mid, r[2]>>]
            ELSE mid]

LEMMA MidFacts ==
  ASSUME NEW lo \in Nat, NEW hi \in Nat, lo < hi
  PROVE  \E m \in Nat: m = (lo + hi + 1) \div 2 /\ lo < m /\ m <= hi
  OBVIOUS

Splits(x, begin, end, target, g, lo, hi, v) ==
    /\ lo >= hi => v = lo
    /\ lo < hi => \E m \in begin .. end:
          /\ m = (lo + hi + 1) \div 2 /\ lo < m /\ m <= hi /\ m - 1 \in begin .. end
          /\ v = Side(x, target, m, g[<<lo, m - 1>>], g[<<m, hi>>])

LEMMA HalvedAt ==
  ASSUME NEW x \in Seq(Entries), NEW begin \in Nat, NEW end \in Nat, NEW target \in Nat, NEW g,
         NEW lo \in begin .. end, NEW hi \in begin .. end
  PROVE  Splits(x, begin, end, target, g, lo, hi, Halved(x, begin, end, target, g)[<<lo, hi>>])
  <1> DEFINE r == <<lo, hi>>
  <1>1. r \in (begin .. end) \X (begin .. end) /\ r[1] = lo /\ r[2] = hi OBVIOUS
  <1>2. lo \in Nat /\ hi \in Nat OBVIOUS
  <1> HIDE DEF r
  <1>3. Halved(x, begin, end, target, g)[r] =
            LET mid == (r[1] + r[2] + 1) \div 2
                off == x[mid + 1].off
            IN  IF r[1] >= r[2] THEN r[1]
                ELSE IF off > target THEN g[<<r[1], mid - 1>>]
                ELSE IF off < target THEN g[<<mid, r[2]>>]
                ELSE mid
    BY <1>1, Zenon DEF Halved
  <1>4. ASSUME lo >= hi PROVE Halved(x, begin, end, target, g)[r] = lo BY <1>1, <1>3, <1>4
  <1>5. ASSUME lo < hi
        PROVE  \E m \in begin .. end:
                   /\ m = (lo + hi + 1) \div 2 /\ lo < m /\ m <= hi /\ m - 1 \in begin .. end
                   /\ Halved(x, begin, end, target, g)[r] =
                        Side(x, target, m, g[<<lo, m - 1>>], g[<<m, hi>>])
    <2>1. PICK m \in Nat: m = (lo + hi + 1) \div 2 /\ lo < m /\ m <= hi BY <1>2, <1>5, MidFacts
    <2>2. m \in begin .. end /\ m - 1 \in begin .. end BY <1>2, <2>1
    <2>3. ~(lo >= hi) BY <1>2, <1>5
    <2>4. Halved(x, begin, end, target, g)[r] =
            IF x[m + 1].off > target THEN g[<<lo, m - 1>>]
            ELSE IF x[m + 1].off < target THEN g[<<m, hi>>] ELSE m
      BY <1>1, <1>3, <2>1, <2>3, Zenon
    <2> QED BY <2>1, <2>2, <2>4 DEF Off, Side
  <1> QED BY <1>4, <1>5 DEF r, Splits

LEMMA HalvedFcn ==
  ASSUME NEW x, NEW begin, NEW end, NEW target, NEW g
  PROVE  Halved(x, begin, end, target, g) =
            [r \in (begin .. end) \X (begin .. end) |-> Halved(x, begin, end, target, g)[r]]
  BY DEF Halved

\* g is the search for all pairs of places fewer than k apart.
Unfolds(x, begin, end, target, g, k) ==
    \A lo, hi \in begin .. end: hi - lo < k => g[<<lo, hi>>] = Halved(x, begin, end, target, g)[<<lo, hi>>]

\* The search is well defined: the two halves are shorter than the whole.
LEMMA SearchExists ==
  ASSUME NEW x \in Seq(Entries), NEW begin \in Nat, NEW end \in Nat, NEW target \in Nat
  PROVE  \A k \in Nat: \E g: Unfolds(x, begin, end, target, g, k)
  <1> DEFINE bad == { k \in Nat: ~ \E g: Unfolds(x, begin, end, target, g, k) }
             k == CHOOSE i \in bad: \A j \in bad: i <= j
             Half(g) == Halved(x, begin, end, target, g)
  <1> SUFFICES ASSUME bad # {} PROVE FALSE OBVIOUS
  <1>1. bad \in SUBSET Nat OBVIOUS
  <1>2. k \in bad /\ \A j \in bad: k <= j
    <2> HIDE DEF bad
    <2> QED BY <1>1, FirstPlace
  <1> HIDE DEF k
  <1>3. k \in Nat /\ (~ \E g: Unfolds(x, begin, end, target, g, k)) BY <1>2
  <1>4. CASE k = 0
    <2> DEFINE g == [r \in (begin .. end) \X (begin .. end) |-> r[1]]
    <2>1. ASSUME NEW lo \in begin .. end, NEW hi \in begin .. end, hi - lo < 0
          PROVE  g[<<lo, hi>>] = Half(g)[<<lo, hi>>]
      <3>1. g[<<lo, hi>>] = lo OBVIOUS
      <3>2. lo >= hi BY <2>1
      <3> HIDE DEF g
      <3>3. Half(g)[<<lo, hi>>] = lo BY <3>2, HalvedAt DEF Splits
      <3> QED BY <3>1, <3>3
    <2> HIDE DEF g
    <2>2. Unfolds(x, begin, end, target, g, k) BY <1>4, <2>1 DEF Unfolds
    <2> QED BY <1>3, <2>2
  <1>5. CASE k # 0
    <2>1. k - 1 \in Nat /\ ~(k <= k - 1) BY <1>3, <1>5
    <2>2. PICK g: Unfolds(x, begin, end, target, g, k - 1) BY <1>2, <2>1
    <2> DEFINE h == Half(g)
    <2>3. ASSUME NEW lo \in begin .. end, NEW hi \in begin .. end, hi - lo < k
          PROVE  h[<<lo, hi>>] = Half(h)[<<lo, hi>>]
      <3>0. lo \in Nat /\ hi \in Nat OBVIOUS
      <3>1. CASE lo >= hi
        <4>1. Half(g)[<<lo, hi>>] = lo BY <3>1, HalvedAt DEF Splits
        <4>2. Half(h)[<<lo, hi>>] = lo BY <3>1, HalvedAt DEF Splits
        <4> QED BY <4>1, <4>2
      <3>2. CASE lo < hi
        <4>u. Splits(x, begin, end, target, g, lo, hi, Half(g)[<<lo, hi>>]) BY HalvedAt
        <4>1. PICK m \in begin .. end:
                /\ m = (lo + hi + 1) \div 2 /\ lo < m /\ m <= hi /\ m - 1 \in begin .. end
                /\ Half(g)[<<lo, hi>>] = Side(x, target, m, g[<<lo, m - 1>>], g[<<m, hi>>])
          BY <3>2, <4>u DEF Splits
        <4>v. Splits(x, begin, end, target, h, lo, hi, Half(h)[<<lo, hi>>]) BY HalvedAt
        <4>2. PICK n \in begin .. end:
                /\ n = (lo + hi + 1) \div 2
                /\ Half(h)[<<lo, hi>>] = Side(x, target, n, h[<<lo, n - 1>>], h[<<n, hi>>])
          BY <3>2, <4>v DEF Splits
        <4>3. n = m BY <4>1, <4>2
        <4>4. (m - 1) - lo < k - 1 /\ hi - m < k - 1 BY <1>3, <2>3, <3>0, <4>1
        <4>5. g[<<lo, m - 1>>] = h[<<lo, m - 1>>] BY <2>2, <4>1, <4>4 DEF Unfolds
        <4>6. g[<<m, hi>>] = h[<<m, hi>>] BY <2>2, <4>1, <4>4 DEF Unfolds
        <4> HIDE DEF h, Half
        <4>7. Half(g) = h BY DEF h
        <4> QED BY <4>1, <4>2, <4>3, <4>5, <4>6, <4>7
      <3> QED BY <3>0, <3>1, <3>2
    <2> HIDE DEF h
    <2>4. Unfolds(x, begin, end, target, h, k) BY <2>3 DEF Unfolds
    <2> QED BY <1>3, <2>4
  <1> QED BY <1>4, <1>5

LEMMA SearcherIs ==
  ASSUME NEW x \in Seq(Entries), NEW begin \in Nat, NEW end \in Nat, NEW target \in Nat
  PROVE  Searcher(x, begin, end, target) = Halved(x, begin, end, target, Searcher(x, begin, end, target))
  <1> DEFINE P == (begin .. end) \X (begin .. end)
             Half(g) == Halved(x, begin, end, target, g)
  <1>1. PICK g: Unfolds(x, begin, end, target, g, end + 1) BY SearchExists
  <1>2. \A lo, hi \in begin .. end: hi - lo < end + 1 OBVIOUS
  <1>3. \A lo, hi \in begin .. end: g[<<lo, hi>>] = Half(g)[<<lo, hi>>] BY <1>1, <1>2 DEF Unfolds
  <1> DEFINE f == [r \in P |-> g[r]]
  <1>4. ASSUME NEW lo \in begin .. end, NEW hi \in begin .. end
        PROVE  f[<<lo, hi>>] = Half(f)[<<lo, hi>>]
    <2>0. lo \in Nat /\ hi \in Nat OBVIOUS
    <2>a. \A u, v \in begin .. end: f[<<u, v>>] = g[<<u, v>>] OBVIOUS
    <2> HIDE DEF f, Half
    <2>1. CASE lo >= hi
      <3>1. Half(g)[<<lo, hi>>] = lo BY <2>1, HalvedAt DEF Half, Splits
      <3>2. Half(f)[<<lo, hi>>] = lo BY <2>1, HalvedAt DEF Half, Splits
      <3> QED BY <1>3, <2>a, <3>1, <3>2
    <2>2. CASE lo < hi
      <3>u. Splits(x, begin, end, target, g, lo, hi, Half(g)[<<lo, hi>>]) BY HalvedAt DEF Half
      <3>1. PICK m \in begin .. end:
              /\ m = (lo + hi + 1) \div 2 /\ m - 1 \in begin .. end
              /\ Half(g)[<<lo, hi>>] = Side(x, target, m, g[<<lo, m - 1>>], g[<<m, hi>>])
        BY <2>2, <3>u DEF Splits
      <3>v. Splits(x, begin, end, target, f, lo, hi, Half(f)[<<lo, hi>>]) BY HalvedAt DEF Half
      <3>2. PICK n \in begin .. end:
              /\ n = (lo + hi + 1) \div 2
              /\ Half(f)[<<lo, hi>>] = Side(x, target, n, f[<<lo, n - 1>>], f[<<n, hi>>])
        BY <2>2, <3>v DEF Splits
      <3>3. n = m BY <3>1, <3>2
      <3>4. f[<<lo, m - 1>>] = g[<<lo, m - 1>>] /\ f[<<m, hi>>] = g[<<m, hi>>] BY <2>a, <3>1
      <3> QED BY <1>3, <2>a, <3>1, <3>2, <3>3, <3>4
    <2> QED BY <2>0, <2>1, <2>2
  <1>5. f = Half(f)
    <2>1. \A r \in P: f[r] = Half(f)[r]
      <3>1. \A r \in P: \E lo, hi \in begin .. end: r = <<lo, hi>> OBVIOUS
      <3> HIDE DEF f, P, Half
      <3> QED BY <1>4, <3>1
    <2>3. f = [r \in P |-> f[r]] OBVIOUS
    <2>2. Half(f) = [r \in P |-> Half(f)[r]]
      <3> HIDE DEF f
      <3> QED BY HalvedFcn, Zenon
    <2> HIDE DEF f, P, Half
    <2> QED BY <2>1, <2>2, <2>3
  <1>6. Searcher(x, begin, end, target) = CHOOSE s: s = Half(s) BY Zenon DEF Searcher, Halved
  <1> HIDE DEF f, Half
  <1>7. (CHOOSE s: s = Half(s)) = Half(CHOOSE s: s = Half(s)) BY <1>5
  <1>8. Searcher(x, begin, end, target) = Half(Searcher(x, begin, end, target)) BY <1>6, <1>7, Zenon
  <1> QED BY <1>8, Zenon DEF Half

\* Of entries begin .. end, k is the last one that does not exceed target.
LastBelow(x, end, target, k) == Off(x, k) <= target /\ \A j \in k + 1 .. end: Off(x, j) > target

\* The search between lo and hi is right when the entry at lo does not exceed
\* target and the entries behind hi do.
LEMMA SearchRight ==
  ASSUME NEW x \in Seq(Entries), NEW begin \in Nat, NEW end \in Nat, NEW target \in Nat, end < Len(x),
         \A i, j \in begin .. end: i < j => Off(x, i) < Off(x, j),
         NEW lo \in begin .. end, NEW hi \in begin .. end, lo <= hi,
         Off(x, lo) <= target, \A j \in hi + 1 .. end: Off(x, j) > target
  PROVE  /\ Searcher(x, begin, end, target)[<<lo, hi>>] \in begin .. end
         /\ LastBelow(x, end, target, Searcher(x, begin, end, target)[<<lo, hi>>])
  <1> DEFINE S == Searcher(x, begin, end, target)
             Right(l, h) == S[<<l, h>>] \in begin .. end /\ LastBelow(x, end, target, S[<<l, h>>])
             Asks(l, h) == l <= h /\ Off(x, l) <= target /\ \A j \in h + 1 .. end: Off(x, j) > target
             bad == { d \in Nat: \E l, h \in begin .. end: Asks(l, h) /\ h - l = d /\ ~Right(l, h) }
             d == CHOOSE i \in bad: \A j \in bad: i <= j
  <1>0. \A i \in begin .. end: Off(x, i) \in Nat
    <2>1. ASSUME NEW i \in begin .. end PROVE Off(x, i) \in Nat
      <3>1. i + 1 \in 1 .. Len(x) OBVIOUS
      <3>2. x[i + 1] \in Entries BY <3>1
      <3> QED BY <3>2, TopicLogAssumption DEF Entries, Bases, Off
    <2> QED BY <2>1
  <1>1. bad = {}
    <2> SUFFICES ASSUME bad # {} PROVE FALSE OBVIOUS
    <2>1. bad \in SUBSET Nat OBVIOUS
    <2>2. d \in bad /\ \A j \in bad: d <= j
      <3> HIDE DEF bad
      <3> QED BY <2>1, FirstPlace
    <2> HIDE DEF d
    <2>3. PICK l \in begin .. end, h \in begin .. end: Asks(l, h) /\ h - l = d /\ ~Right(l, h) BY <2>2
    <2>4. l \in Nat /\ h \in Nat /\ d \in Nat BY <2>2
    <2>5. ASSUME NEW u \in begin .. end, NEW v \in begin .. end, Asks(u, v), v - u < d PROVE Right(u, v)
      <3>1. v - u \in Nat /\ ~(d <= v - u) BY <2>4, <2>5
      <3>2. v - u \notin bad BY <2>2, <3>1
      <3> HIDE DEF Asks, Right
      <3> QED BY <2>5, <3>1, <3>2
    <2>6. S = Halved(x, begin, end, target, S) BY SearcherIs
    <2>7. Splits(x, begin, end, target, S, l, h, S[<<l, h>>])
      <3> HIDE DEF S
      <3>1. Splits(x, begin, end, target, S, l, h, Halved(x, begin, end, target, S)[<<l, h>>]) BY HalvedAt
      <3> QED BY <2>6, <3>1
    <2> HIDE DEF S, bad
    <2>8. CASE l >= h
      <3>1. l = h BY <2>3, <2>4, <2>8
      <3>2. S[<<l, h>>] = l BY <2>7, <2>8 DEF Splits
      <3> QED BY <2>3, <3>1, <3>2 DEF LastBelow
    <2>9. CASE l < h
      <3>1. PICK m \in begin .. end:
              /\ l < m /\ m <= h /\ m - 1 \in begin .. end
              /\ S[<<l, h>>] = Side(x, target, m, S[<<l, m - 1>>], S[<<m, h>>])
        BY <2>7, <2>9 DEF Splits
      <3>2. Off(x, m) \in Nat /\ \A j \in m + 1 .. end: Off(x, m) < Off(x, j) /\ Off(x, j) \in Nat
        <4>1. \A j \in m + 1 .. end: j \in begin .. end /\ m < j OBVIOUS
        <4> QED BY <1>0, <4>1
      <3>3. CASE Off(x, m) > target
        <4>1. S[<<l, h>>] = S[<<l, m - 1>>] BY <3>1, <3>3 DEF Side
        <4>2. Asks(l, m - 1)
          <5>1. l <= m - 1 /\ (m - 1) + 1 = m BY <2>4, <3>1
          <5>2. ASSUME NEW j \in (m - 1) + 1 .. end PROVE Off(x, j) > target
            <6>1. j = m \/ j \in m + 1 .. end BY <5>1
            <6>2. CASE j = m BY <3>3, <6>2
            <6>3. CASE j \in m + 1 .. end BY <3>2, <3>3, <6>3
            <6> QED BY <6>1, <6>2, <6>3
          <5> QED BY <2>3, <5>1, <5>2
        <4>3. (m - 1) - l < d BY <2>3, <2>4, <3>1
        <4>4. Right(l, m - 1) BY <2>5, <3>1, <4>2, <4>3
        <4> QED BY <2>3, <4>1, <4>4
      <3>4. CASE Off(x, m) < target
        <4>1. S[<<l, h>>] = S[<<m, h>>] BY <3>1, <3>2, <3>4 DEF Side
        <4>2. Asks(m, h) BY <2>3, <3>1, <3>2, <3>4
        <4>3. h - m < d BY <2>3, <2>4, <3>1
        <4>4. Right(m, h) BY <2>5, <4>2, <4>3
        <4> QED BY <2>3, <4>1, <4>4
      <3>5. CASE Off(x, m) = target
        <4>1. S[<<l, h>>] = m BY <3>1, <3>5 DEF Side
        <4>2. LastBelow(x, end, target, m) BY <3>2, <3>5 DEF LastBelow
        <4> QED BY <2>3, <4>1, <4>2
      <3> QED BY <3>2, <3>3, <3>4, <3>5
    <2> QED BY <2>4, <2>8, <2>9
  <1>2. Asks(lo, hi) OBVIOUS
  <1>3. hi - lo \in Nat OBVIOUS
  <1> HIDE DEF Asks, S
  <1>4. Right(lo, hi) BY <1>1, <1>2, <1>3
  <1> QED BY <1>4 DEF S

LEMMA OffsAscend ==
  ASSUME Types, IndexOrdered, Ascending, NEW b \in Bases,
         NEW i \in DOMAIN index[b], NEW j \in DOMAIN index[b], j < i
  PROVE  index[b][j].off < index[b][i].off
  <1>1. j \in 1 .. i - 1 BY TypeFacts
  <1>2. PICK k \in DOMAIN file[b], l \in DOMAIN file[b]:
           k < l /\ file[b][k] = index[b][j].off /\ file[b][l] = index[b][i].off
    BY <1>1 DEF IndexOrdered, InOrder
  <1> QED BY <1>2 DEF Ascending

\* The last entry below the target, as LookupExact names it.
LEMMA LastChosen ==
  ASSUME NEW x \in Seq(Entries), NEW n \in 1 .. Len(x), NEW target \in Nat, NEW k \in 0 .. n - 1,
         LastBelow(x, n - 1, target, k)
  PROVE  LET below == { i \in 1 .. n : x[i].off <= target }
         IN  below # {} /\ k + 1 = CHOOSE i \in below : \A j \in below : j <= i
  <1> DEFINE below == { i \in 1 .. n : x[i].off <= target }
             c == CHOOSE i \in below : \A j \in below : j <= i
  <1>0. \A i \in 1 .. n: x[i].off \in Nat
    <2>1. ASSUME NEW i \in 1 .. n PROVE x[i].off \in Nat
      <3>1. x[i] \in Entries OBVIOUS
      <3> QED BY <3>1, TopicLogAssumption DEF Entries, Bases
    <2> QED BY <2>1
  <1>1. k + 1 \in below
    <2>1. x[k + 1].off <= target BY DEF LastBelow, Off
    <2>2. k + 1 \in 1 .. n OBVIOUS
    <2> QED BY <2>1, <2>2
  <1>2. ASSUME NEW j \in below PROVE j <= k + 1
    <2>1. j \in 1 .. n /\ x[j].off <= target OBVIOUS
    <2>2. CASE j > k + 1
      <3>1. j - 1 \in k + 1 .. n - 1 /\ (j - 1) + 1 = j BY <2>1, <2>2
      <3>2. x[j].off > target BY <3>1 DEF LastBelow, Off
      <3> QED BY <1>0, <2>1, <3>2
    <2> QED BY <2>1, <2>2
  <1>3. below \in SUBSET Nat OBVIOUS
  <1> HIDE DEF below
  <1>4. c \in below /\ \A j \in below: j <= c BY <1>1, <1>2
  <1>5. c <= k + 1 /\ k + 1 <= c BY <1>1, <1>2, <1>4
  <1>6. c \in Nat /\ k + 1 \in Nat BY <1>1, <1>3, <1>4
  <1>7. ASSUME NEW u \in Nat, NEW v \in Nat, u <= v, v <= u PROVE u = v BY <1>7
  <1>8. c = k + 1 BY <1>5, <1>6, <1>7
  <1> QED BY <1>1, <1>8 DEF below

LEMMA LookupIs ==
  ASSUME Types, NEW b \in Bases, NEW n \in 0 .. Len(index[b]), NEW target \in b .. MaxSeq,
         \A i, j \in DOMAIN index[b]: j < i => index[b][j].off < index[b][i].off
  PROVE  LET below == { i \in 1 .. n : index[b][i].off <= target }
         IN  Lookup(b, n, target) = IF below = {} THEN [off |-> b, pos |-> 0]
                                    ELSE index[b][CHOOSE i \in below : \A j \in below : j <= i]
  <1> DEFINE x == index[b]
             below == { i \in 1 .. n : x[i].off <= target }
             warm == IF n - 1 > WarmEntries THEN n - 1 - WarmEntries ELSE 0
             none == [off |-> b, pos |-> 0]
             last == CHOOSE i \in below : \A j \in below : j <= i
  <1>0. x \in Seq(Entries) /\ DOMAIN x = 1 .. Len(x) /\ Len(x) \in Nat /\ n \in Nat BY TypeFacts
  <1>t. target \in Nat /\ MaxSeq \in Nat /\ WarmEntries \in Nat BY TopicLogAssumption DEF Bases
  <1>1. Lookup(b, n, target) = IF n = 0 THEN none
        ELSE IF Off(x, warm) < target THEN x[Searcher(x, warm, n - 1, target)[<<warm, n - 1>>] + 1]
        ELSE IF Off(x, 0) > target THEN none
        ELSE x[Searcher(x, 0, warm, target)[<<0, warm>>] + 1]
    BY DEF Lookup, Search, Off
  <1>2. ASSUME NEW k \in 0 .. n - 1, LastBelow(x, n - 1, target, k), n # 0
        PROVE  below # {} /\ k + 1 = last
    <2>1. n \in 1 .. Len(x) BY <1>0, <1>2
    <2> HIDE DEF x
    <2> QED BY <1>0, <1>t, <1>2, <2>1, LastChosen
  <1>3. CASE n = 0
    <2>1. below = {} BY <1>3
    <2> QED BY <1>1, <1>3, <2>1
  <1>4. CASE n # 0
    <2>0. n - 1 \in Nat /\ n - 1 < Len(x) /\ warm \in 0 .. n - 1 BY <1>0, <1>t, <1>4
    <2>1. \A i \in 0 .. n - 1: i + 1 \in DOMAIN x BY <1>0
    <2>2. \A i, j \in 0 .. n - 1: i < j => Off(x, i) < Off(x, j)
      <3>1. ASSUME NEW i \in 0 .. n - 1, NEW j \in 0 .. n - 1, i < j PROVE x[i + 1].off < x[j + 1].off
        <4>1. i + 1 < j + 1 BY <1>0, <3>1
        <4> QED BY <2>1, <4>1
      <3> QED BY <3>1 DEF Off
    <2>3. \A i \in 0 .. n - 1: Off(x, i) \in Nat
      <3>1. ASSUME NEW i \in 0 .. n - 1 PROVE x[i + 1].off \in Nat
        <4>1. x[i + 1] \in Entries BY <1>0, <2>1
        <4> QED BY <4>1, TopicLogAssumption DEF Entries, Bases
      <3> QED BY <3>1 DEF Off
    <2> HIDE DEF x, warm, last
    <2>w. warm \in Nat BY <2>0
    <2>4. CASE Off(x, warm) < target
      <3> DEFINE k == Searcher(x, warm, n - 1, target)[<<warm, n - 1>>]
      <3>a. warm \in warm .. n - 1 /\ n - 1 \in warm .. n - 1 /\ warm <= n - 1 BY <2>0
      <3>b. Off(x, warm) <= target BY <1>t, <2>0, <2>3, <2>4
      <3>c. \A j \in (n - 1) + 1 .. n - 1: FALSE BY <2>0
      <3>d. \A i \in warm .. n - 1: i \in 0 .. n - 1 BY <2>0
      <3>1. \A i, j \in warm .. n - 1: i < j => Off(x, i) < Off(x, j) BY <2>2, <3>d
      <3>2. k \in warm .. n - 1 /\ LastBelow(x, n - 1, target, k)
        BY <1>0, <1>t, <2>0, <2>w, <3>a, <3>b, <3>c, <3>1, SearchRight
      <3>3. Lookup(b, n, target) = x[k + 1] BY <1>1, <1>4, <2>4
      <3> HIDE DEF k
      <3>4. k \in 0 .. n - 1 BY <2>0, <3>2
      <3>5. below # {} /\ k + 1 = last BY <1>2, <1>4, <3>2, <3>4
      <3> QED BY <3>3, <3>5 DEF x, last
    <2>5. CASE ~(Off(x, warm) < target) /\ Off(x, 0) > target
      <3>1. Lookup(b, n, target) = none BY <1>1, <1>4, <2>5
      <3>2. ASSUME NEW i \in 1 .. n PROVE ~(x[i].off <= target)
        <4>1. i - 1 \in 0 .. n - 1 /\ (i - 1) + 1 = i /\ 0 \in 0 .. n - 1 /\ (i - 1 = 0 \/ 0 < i - 1) BY <1>0
        <4>2. Off(x, i - 1) > target
          <5>1. CASE i - 1 = 0 BY <2>5, <5>1
          <5>2. CASE 0 < i - 1 BY <1>t, <2>2, <2>3, <2>5, <4>1, <5>2
          <5> QED BY <4>1, <5>1, <5>2
        <4>3. x[i].off > target /\ x[i].off \in Nat BY <2>3, <4>1, <4>2 DEF Off
        <4> QED BY <1>t, <4>3
      <3>3. below = {} BY <3>2
      <3> QED BY <3>1, <3>3 DEF x
    <2>6. CASE ~(Off(x, warm) < target) /\ ~(Off(x, 0) > target)
      <3> DEFINE k == Searcher(x, 0, warm, target)[<<0, warm>>]
      <3>1. 0 \in 0 .. n - 1 BY <2>0
      <3>2. /\ 0 \in 0 .. warm /\ warm \in 0 .. warm /\ 0 <= warm /\ Off(x, 0) <= target /\ warm < Len(x)
            /\ \A j \in warm + 1 .. warm: Off(x, j) > target
            /\ \A i, j \in 0 .. warm: i < j => Off(x, i) < Off(x, j)
        BY <1>0, <1>t, <2>0, <2>w, <2>2, <2>3, <2>6, <3>1
      <3>3. k \in 0 .. warm /\ LastBelow(x, warm, target, k)
        BY <1>0, <1>t, <2>w, <3>2, SearchRight
      <3>4. Lookup(b, n, target) = x[k + 1] BY <1>1, <1>4, <2>6
      <3> HIDE DEF k
      <3>5. k \in 0 .. n - 1 BY <2>0, <3>3
      <3>6. LastBelow(x, n - 1, target, k)
        <4>1. ASSUME NEW j \in k + 1 .. n - 1 PROVE Off(x, j) > target
          <5>0. j \in 0 .. n - 1 /\ (j \in k + 1 .. warm \/ warm < j) BY <2>0, <3>3
          <5>1. CASE j \in k + 1 .. warm BY <3>3, <5>1 DEF LastBelow
          <5>2. CASE warm < j
            <6>1. Off(x, warm) < Off(x, j) /\ Off(x, warm) \in Nat /\ Off(x, j) \in Nat BY <2>0, <2>2, <2>3, <5>0, <5>2
            <6> QED BY <1>t, <2>6, <6>1
          <5> QED BY <5>0, <5>1, <5>2
        <4> QED BY <3>3, <4>1 DEF LastBelow
      <3>7. below # {} /\ k + 1 = last BY <1>2, <1>4, <3>5, <3>6
      <3> QED BY <3>4, <3>7 DEF x, last
    <2> QED BY <2>4, <2>5, <2>6
  <1> QED BY <1>3, <1>4

-----------------------------------------------------------------------------
(* What the segments and the Segment objects of an open topic are like *)

\* The segments start from 0, ascend and end with the active one, which is no
\* newer than the last log in memory.
Rolled ==
    Up => /\ Len(segments) >= 1 /\ segments[1] = 0 /\ segments[Len(segments)] = active
          /\ \A i, j \in DOMAIN segments: i < j => segments[i] < segments[j]
          /\ active <= lastMemLog

\* No Segment object counts entries that its index does not have.
Counting ==
    /\ Up => writer.entries <= Len(index[active])
    /\ \A b \in Bases: cache[b] # Closed => cache[b].entries <= Len(index[b])

ReadInv == Rolled /\ Counting

LEMMA InitRead == Init => ReadInv
  BY DEF Init, ReadInv, Rolled, Counting, Up

LEMMA AppendRolls ==
  ASSUME Types, Rolled, NEW s \in Senders, NEW tooLarge \in BOOLEAN, AppendLog(s, tooLarge)
  PROVE  Rolled'
  <1> DEFINE n == pend[s]
  <1>0. Up /\ n # 0 /\ lastMemLog < n /\ lastMemLog' = n BY DEF AppendLog, Up
  <1>1. n \in Nat /\ n \in Bases /\ active \in Nat /\ lastMemLog \in Nat /\ segments \in Seq(Bases)
    BY TopicLogAssumption DEF Types, TypeOK, Bases
  <1> DEFINE len == Len(segments)
  <1>2. len \in Nat /\ len >= 1 /\ segments[1] = 0 /\ segments[len] = active /\ active <= lastMemLog /\ DOMAIN segments = 1 .. len
    BY <1>0, <1>1 DEF Rolled
  <1>3. \A i, j \in 1 .. len: i < j => segments[i] < segments[j] BY <1>0, <1>2 DEF Rolled
  <1>4. CASE Full
    <2>1. active' = n /\ segments' = Append(segments, n) BY <1>4 DEF AppendLog
    <2>2. /\ Len(segments') = len + 1 /\ DOMAIN segments' = 1 .. len + 1 /\ segments'[len + 1] = n
          /\ \A i \in 1 .. len: segments'[i] = segments[i]
      BY <1>1, <2>1, AppendFacts
    <2>3. \A i \in 1 .. len: segments[i] \in Nat /\ segments[i] <= active
      <3>1. ASSUME NEW i \in 1 .. len PROVE segments[i] \in Nat /\ segments[i] <= active
        <4>1. segments[i] \in Nat
          <5>1. segments[i] \in Bases BY <1>1
          <5> QED BY <5>1 DEF Bases
        <4>2. CASE i = len BY <1>1, <1>2, <4>2
        <4>3. CASE i < len
          <5>1. len \in 1 .. len BY <1>2
          <5>2. segments[i] < segments[len] BY <1>3, <4>3, <5>1
          <5> QED BY <1>1, <1>2, <4>1, <5>2
        <4>4. i = len \/ i < len
          <5>1. ASSUME NEW m \in Nat, NEW j \in 1 .. m PROVE j = m \/ j < m OBVIOUS
          <5> QED BY <1>2, <5>1
        <4> QED BY <4>1, <4>2, <4>3, <4>4
      <3> QED BY <3>1
    <2>4. ASSUME NEW i \in 1 .. len + 1, NEW j \in 1 .. len + 1, i < j PROVE segments'[i] < segments'[j]
      <3>1. i \in 1 .. len BY <1>2, <2>4
      <3>2. CASE j = len + 1
        <4>1. segments'[i] <= active /\ segments'[i] \in Nat BY <2>2, <2>3, <3>1
        <4>2. segments'[j] = n BY <2>2, <3>2
        <4> QED BY <1>0, <1>1, <1>2, <4>1, <4>2
      <3>3. CASE j # len + 1
        <4>1. j \in 1 .. len BY <1>2, <3>3
        <4> QED BY <1>3, <2>2, <2>4, <3>1, <4>1
      <3> QED BY <3>2, <3>3
    <2>5. segments'[1] = 0
      <3>1. 1 \in 1 .. len BY <1>2
      <3> QED BY <1>2, <2>2, <3>1
    <2>6. len + 1 >= 1 /\ n <= n BY <1>1, <1>2
    <2> HIDE DEF len, n
    <2> QED BY <1>0, <2>1, <2>2, <2>4, <2>5, <2>6 DEF Rolled
  <1>5. CASE ~Full
    <2>1. active' = active /\ segments' = segments BY <1>5 DEF AppendLog
    <2>2. active <= n BY <1>0, <1>1, <1>2
    <2> QED BY <1>0, <1>2, <1>3, <2>1, <2>2 DEF Rolled
  <1> QED BY <1>4, <1>5

LEMMA AppendCounts ==
  ASSUME Types, Types', Counting, NEW s \in Senders, NEW tooLarge \in BOOLEAN, AppendLog(s, tooLarge)
  PROVE  Counting'
  <1> DEFINE n == pend[s]
             b == IF Full THEN n ELSE active
             w == IF Full THEN NewSegment(n) ELSE writer
             sn == IF Full THEN 0 ELSE since
  <1>0. Up /\ active' = b BY DEF AppendLog, Up
  <1>1. n \in Bases /\ active \in Bases /\ b \in Bases BY DEF Types, TypeOK, Bases
  <1>2. \A c \in Bases: Len(index[c]) \in Nat /\ index[c] \in Seq(Entries) BY TypeFacts
  <1>3. w \in Objects /\ w.entries \in Nat /\ w.position \in Nat
    <2>1. w \in Objects BY <1>1, TypeFacts DEF Types
    <2> QED BY <2>1 DEF Objects
  <1>4. w.entries <= Len(index[b])
    <2>1. CASE Full
      <3>1. NewSegment(n).entries = Len(index[n]) BY DEF NewSegment
      <3> QED BY <1>1, <1>2, <2>1, <3>1
    <2>2. CASE ~Full BY <1>0, <2>2 DEF Counting
    <2> QED BY <2>1, <2>2
  <1> HIDE DEF n, b, w, sn
  <1>5. writer'.entries <= Len(index'[b]) /\ \A c \in Bases: Len(index'[c]) \in Nat /\ Len(index[c]) <= Len(index'[c])
    <2>1. CASE tooLarge
      <3>1. writer' = w /\ UNCHANGED index BY <2>1 DEF AppendLog, n, w
      <3> QED BY <1>2, <1>4, <3>1
    <2>2. CASE ~tooLarge
      <3>1. WriteTo(b, w, sn, n) BY <2>2 DEF AppendLog, n, w, b, sn
      <3> DEFINE e == [off |-> n, pos |-> w.position + 1]
      <3>2. CASE index' = [index EXCEPT ![b] = Append(@, e)] /\ writer'.entries = w.entries + 1
        <4>0. e \in Entries BY <1>1, <1>3 DEF Entries
        <4> HIDE DEF e
        <4>1. index'[b] = Append(index[b], e) /\ \A c \in Bases: c # b => index'[c] = index[c] BY <1>1, <3>2 DEF Types
        <4>2. Len(index'[b]) = Len(index[b]) + 1 BY <1>1, <1>2, <4>0, <4>1, AppendFacts
        <4>3. writer'.entries <= Len(index'[b]) BY <1>1, <1>2, <1>3, <1>4, <3>2, <4>2
        <4>4. ASSUME NEW c \in Bases PROVE Len(index'[c]) \in Nat /\ Len(index[c]) <= Len(index'[c])
          <5>1. CASE c = b BY <1>1, <1>2, <4>2, <5>1
          <5>2. CASE c # b BY <1>2, <4>1, <5>2
          <5> QED BY <5>1, <5>2
        <4> QED BY <4>3, <4>4
      <3>3. CASE index' = index /\ writer'.entries = w.entries BY <1>2, <1>4, <3>3
      <3> QED BY <3>1, <3>2, <3>3 DEF WriteTo
    <2> QED BY <2>1, <2>2
  <1>6. ASSUME NEW c \in Bases, cache'[c] # Closed PROVE cache'[c].entries <= Len(index'[c])
    <2>1. cache' = IF shared' THEN [cache EXCEPT ![active] = writer'] ELSE cache BY DEF AppendLog
    <2>2. shared' => b = active BY DEF AppendLog, b
    <2>3. CASE cache'[c] = cache[c]
      <3>1. cache[c] \in Objects \cup {Closed} BY DEF Types
      <3>2. cache[c].entries \in Nat /\ cache[c].entries <= Len(index[c]) BY <1>6, <2>3, <3>1 DEF Counting, Objects
      <3> QED BY <1>2, <1>5, <2>3, <3>2
    <2>4. CASE shared' /\ c = active
      <3>1. cache'[c] = writer' BY <2>1, <2>4 DEF Types
      <3> QED BY <1>5, <2>2, <2>4, <3>1
    <2>5. cache'[c] = cache[c] \/ (shared' /\ c = active) BY <2>1 DEF Types
    <2> QED BY <2>3, <2>4, <2>5
  <1> QED BY <1>0, <1>5, <1>6 DEF Counting

LEMMA StepRead == IndInv /\ ReadInv /\ [Next]_vars => ReadInv'
  <1> SUFFICES ASSUME IndInv, ReadInv, [Next]_vars PROVE ReadInv' OBVIOUS
  <1>0. Types /\ Types' /\ Rolled /\ Counting BY StepTypes DEF IndInv, ReadInv
  <1>1. CASE Reopen
    <2>1. UNCHANGED index BY <1>1 DEF Reopen
    <2>2. CASE state' = "panicked" /\ UNCHANGED <<lastSeq, segments, active, writer, cache, shared, since>>
      BY <1>0, <2>1, <2>2 DEF ReadInv, Rolled, Counting, Up
    <2>3. CASE /\ segments' = <<0>> /\ active' = 0
               /\ writer' = [NewSegment(0) EXCEPT !.position = Len(Truncate(file[0]))]
               /\ cache' = [b \in Bases |-> IF b = 0 THEN writer' ELSE Closed]
      <3>1. writer'.entries = Len(index[0]) /\ Len(index[0]) \in Nat BY <1>0, <2>3, TypeFacts DEF NewSegment
      <3>2. lastMemLog' = 0 BY <1>1 DEF Reopen
      <3>3. Rolled' BY <2>3, <3>2 DEF Rolled
      <3>4. Counting' BY <2>1, <2>3, <3>1 DEF Counting
      <3> QED BY <3>3, <3>4 DEF ReadInv
    <2> QED BY <1>1, <2>2, <2>3 DEF Reopen
  <1>2. CASE Close BY <1>0, <1>2 DEF Close, ReadInv, Rolled, Counting, Up
  <1>3. ASSUME NEW torn \in 0 .. MaxSeq, Crash(torn) PROVE ReadInv'
    BY <1>0, <1>3 DEF Crash, ReadInv, Rolled, Counting, Up
  <1>4. ASSUME NEW s \in Senders, NextOffset(s) \/ SkipExisting(s) PROVE ReadInv'
    BY <1>0, <1>4 DEF NextOffset, SkipExisting, ReadInv, Rolled, Counting, Up
  <1>5. ASSUME NEW s \in Senders, NEW tooLarge \in BOOLEAN, AppendLog(s, tooLarge) PROVE ReadInv'
    BY <1>0, <1>5, AppendRolls, AppendCounts DEF ReadInv
  <1>6. ASSUME NEW off \in 0 .. MaxSeq, Read(off) PROVE ReadInv'
    <2>1. UNCHANGED <<state, lastMemLog, segments, active, writer, index>> BY <1>6 DEF Read
    <2>2. Rolled' BY <1>0, <2>1 DEF Rolled, Up
    <2>3. ASSUME NEW b \in Bases, cache'[b] # Closed PROVE cache'[b].entries <= Len(index[b])
      <3>1. cache'[b] = Reader(b) \/ cache'[b] = cache[b] BY <1>6 DEF Read
      <3>2. cache'[b] = cache[b] \/ cache'[b] = NewSegment(b) BY <3>1 DEF Reader
      <3>3. NewSegment(b).entries <= Len(index[b]) BY <1>0, TypeFacts DEF NewSegment
      <3> QED BY <1>0, <2>3, <3>2, <3>3 DEF Counting
    <2>4. Counting' BY <1>0, <2>1, <2>3 DEF Counting, Up
    <2> QED BY <2>2, <2>4 DEF ReadInv
  <1>7. CASE UNCHANGED vars BY <1>0, <1>7 DEF vars, ReadInv, Rolled, Counting, Up
  <1> QED BY <1>1, <1>2, <1>3, <1>4, <1>5, <1>6, <1>7 DEF Next, Exhausted

-----------------------------------------------------------------------------
(* Records in order: putting sequences together *)

Sorted(s) == \A i, j \in DOMAIN s: i < j => s[i] < s[j]

\* The records of s come in front of those of t.
Before(s, t) == \A x \in ToSet(s), y \in ToSet(t): x < y

LEMMA SeqFacts ==
  ASSUME NEW s \in Seq(Records)
  PROVE  /\ Len(s) \in Nat /\ DOMAIN s = 1 .. Len(s) /\ \A i \in 1 .. Len(s): s[i] \in Records /\ s[i] \in Nat
         /\ \A x: x \in ToSet(s) <=> \E i \in 1 .. Len(s): s[i] = x
  <1>1. Len(s) \in Nat /\ DOMAIN s = 1 .. Len(s) OBVIOUS
  <1>2. ASSUME NEW i \in 1 .. Len(s) PROVE s[i] \in Records /\ s[i] \in Nat
    <2>1. s[i] \in Records OBVIOUS
    <2> QED BY <2>1, TopicLogAssumption DEF Records
  <1>3. \A x: x \in ToSet(s) <=> \E i \in 1 .. Len(s): s[i] = x BY <1>1 DEF ToSet
  <1> QED BY <1>1, <1>2, <1>3

LEMMA ConcatSorted ==
  ASSUME NEW s \in Seq(Records), NEW t \in Seq(Records), Sorted(s), Sorted(t), Before(s, t)
  PROVE  /\ s \o t \in Seq(Records) /\ Sorted(s \o t)
         /\ \A x: x \in ToSet(s \o t) <=> x \in ToSet(s) \/ x \in ToSet(t)
  <1> DEFINE u == s \o t
             a == Len(s)
             b == Len(t)
  <1>1. /\ u \in Seq(Records) /\ Len(u) = a + b
        /\ \A i \in 1 .. a: u[i] = s[i]
        /\ \A i \in a + 1 .. a + b: u[i] = t[i - a]
    <2>1. /\ u \in Seq(Records) /\ Len(u) = a + b
          /\ \A i \in 1 .. a + b: u[i] = IF i <= a THEN s[i] ELSE t[i - a]
      BY ConcatProperties
    <2>2. a \in Nat /\ b \in Nat OBVIOUS
    <2> HIDE DEF u, a, b
    <2> QED BY <2>1, <2>2
  <1>2. a \in Nat /\ b \in Nat /\ DOMAIN u = 1 .. a + b BY <1>1
  <1>3. ASSUME NEW i \in 1 .. a + b, NEW j \in 1 .. a + b, i < j PROVE u[i] < u[j]
    <2>1. CASE j \in 1 .. a
      <3>1. i \in 1 .. a BY <1>3, <2>1
      <3>2. s[i] < s[j] BY <1>3, <2>1, <3>1, SeqFacts DEF Sorted
      <3> QED BY <1>1, <2>1, <3>1, <3>2
    <2>2. CASE i \in a + 1 .. a + b
      <3>1. j \in a + 1 .. a + b BY <1>2, <1>3, <2>2
      <3>2. i - a \in 1 .. b /\ j - a \in 1 .. b /\ i - a < j - a BY <1>2, <1>3, <2>2, <3>1
      <3>3. t[i - a] < t[j - a] BY <3>2, SeqFacts DEF Sorted
      <3> QED BY <1>1, <2>2, <3>1, <3>3
    <2>3. CASE i \in 1 .. a /\ j \in a + 1 .. a + b
      <3>1. j - a \in 1 .. b BY <1>2, <2>3
      <3>2. s[i] \in ToSet(s) /\ t[j - a] \in ToSet(t) BY <2>3, <3>1, SeqFacts
      <3>3. s[i] < t[j - a] BY <3>2 DEF Before
      <3> QED BY <1>1, <2>3, <3>3
    <2>4. j \in 1 .. a \/ i \in a + 1 .. a + b \/ (i \in 1 .. a /\ j \in a + 1 .. a + b) BY <1>2, <1>3
    <2> QED BY <2>1, <2>2, <2>3, <2>4
  <1>4. ASSUME NEW x PROVE x \in ToSet(u) <=> x \in ToSet(s) \/ x \in ToSet(t)
    <2>1. ASSUME x \in ToSet(u) PROVE x \in ToSet(s) \/ x \in ToSet(t)
      <3>0. \A y: y \in ToSet(u) <=> \E i \in 1 .. Len(u): u[i] = y BY <1>1, SeqFacts
      <3>1. PICK i \in 1 .. a + b: u[i] = x BY <1>1, <2>1, <3>0
      <3>2. CASE i \in 1 .. a BY <1>1, <3>1, <3>2, SeqFacts
      <3>3. CASE i \in a + 1 .. a + b
        <4>1. i - a \in 1 .. b /\ t[i - a] = x BY <1>1, <1>2, <3>1, <3>3
        <4> QED BY <4>1, SeqFacts
      <3> QED BY <1>2, <3>2, <3>3
    <2>2. ASSUME x \in ToSet(s) PROVE x \in ToSet(u)
      <3>1. PICK i \in 1 .. a: s[i] = x BY <2>2, SeqFacts
      <3>2. i \in 1 .. a + b /\ u[i] = x BY <1>1, <1>2, <3>1
      <3> QED BY <1>1, <3>2, SeqFacts
    <2>3. ASSUME x \in ToSet(t) PROVE x \in ToSet(u)
      <3>1. PICK i \in 1 .. b: t[i] = x BY <2>3, SeqFacts
      <3>2. a + i \in a + 1 .. a + b /\ a + i \in 1 .. a + b /\ (a + i) - a = i BY <1>2, <3>1
      <3>3. u[a + i] = x BY <1>1, <3>1, <3>2
      <3> QED BY <1>1, <3>2, <3>3, SeqFacts
    <2> QED BY <2>1, <2>2, <2>3
  <1> QED BY <1>1, <1>2, <1>3, <1>4 DEF Sorted

\* One step of putting the sequences of r together.
Joined(r, f) == [i \in 1 .. Len(r) |-> IF i = 1 THEN r[i] ELSE f[i - 1] \o r[i]]

\* f does so up to the sequence with number k.
Joins(r, f, k) == \A i \in 1 .. Len(r): i <= k => f[i] = IF i = 1 THEN r[i] ELSE f[i - 1] \o r[i]

LEMMA JoinExists ==
  ASSUME NEW r, Len(r) \in Nat
  PROVE  \A k \in Nat: \E f: Joins(r, f, k)
  <1> DEFINE bad == { k \in Nat: ~ \E f: Joins(r, f, k) }
             k == CHOOSE i \in bad: \A j \in bad: i <= j
  <1> SUFFICES ASSUME bad # {} PROVE FALSE OBVIOUS
  <1>1. bad \in SUBSET Nat OBVIOUS
  <1>2. k \in bad /\ \A j \in bad: k <= j
    <2> HIDE DEF bad
    <2> QED BY <1>1, FirstPlace
  <1> HIDE DEF k
  <1>3. k \in Nat /\ (~ \E f: Joins(r, f, k)) BY <1>2
  <1>4. CASE k = 0
    <2>1. Joins(r, r, 0) BY DEF Joins
    <2> QED BY <1>3, <1>4, <2>1
  <1>5. CASE k # 0
    <2>1. k - 1 \in Nat /\ ~(k <= k - 1) BY <1>3, <1>5
    <2>2. PICK g: Joins(r, g, k - 1) BY <1>2, <2>1
    <2> DEFINE f == [i \in 1 .. Len(r) |-> IF i = k THEN (IF k = 1 THEN r[k] ELSE g[k - 1] \o r[k]) ELSE g[i]]
    <2>3. ASSUME NEW i \in 1 .. Len(r), i <= k PROVE f[i] = IF i = 1 THEN r[i] ELSE f[i - 1] \o r[i]
      <3>1. i # 1 => i - 1 \in 1 .. Len(r) /\ i - 1 # k BY <1>3, <2>3
      <3>2. i # 1 => f[i - 1] = g[i - 1] BY <3>1
      <3>3. CASE i = k
        <4>1. f[i] = IF k = 1 THEN r[k] ELSE g[k - 1] \o r[k] BY <3>3
        <4> HIDE DEF f
        <4> QED BY <3>2, <3>3, <4>1
      <3>4. CASE i # k
        <4>1. f[i] = g[i] BY <3>4
        <4>2. i <= k - 1 BY <1>3, <2>3, <3>4
        <4> HIDE DEF f
        <4> QED BY <2>2, <3>2, <4>1, <4>2 DEF Joins
      <3> QED BY <3>3, <3>4
    <2> HIDE DEF f
    <2>4. Joins(r, f, k) BY <2>3 DEF Joins
    <2> QED BY <1>3, <2>4
  <1> QED BY <1>4, <1>5

LEMMA FlattenIs ==
  ASSUME NEW r, Len(r) \in Nat, Len(r) # 0
  PROVE  \E f: FlattenSeq(r) = f[Len(r)] /\ Joins(r, f, Len(r))
  <1>1. PICK g: Joins(r, g, Len(r)) BY JoinExists
  <1> DEFINE f == [i \in 1 .. Len(r) |-> g[i]]
  <1>2. f = Joined(r, f)
    <2>1. ASSUME NEW i \in 1 .. Len(r) PROVE f[i] = IF i = 1 THEN r[i] ELSE f[i - 1] \o r[i]
      <3>1. i # 1 => i - 1 \in 1 .. Len(r) OBVIOUS
      <3>2. f[i] = g[i] /\ (i # 1 => f[i - 1] = g[i - 1]) BY <3>1
      <3>3. i <= Len(r) OBVIOUS
      <3> HIDE DEF f
      <3> QED BY <1>1, <3>2, <3>3 DEF Joins
    <2>2. f = [i \in 1 .. Len(r) |-> f[i]] OBVIOUS
    <2> HIDE DEF f
    <2> QED BY <2>1, <2>2, Zenon DEF Joined
  <1> HIDE DEF f
  <1> DEFINE c == CHOOSE h: h = Joined(r, h)
  <1>3. c = Joined(r, c) BY <1>2
  <1>4. FlattenSeq(r) = c[Len(r)] BY Zenon DEF FlattenSeq, Joined
  <1> HIDE DEF c
  <1>5. \A i \in 1 .. Len(r): Joined(r, c)[i] = IF i = 1 THEN r[i] ELSE c[i - 1] \o r[i] BY Zenon DEF Joined
  <1>6. Joins(r, c, Len(r)) BY <1>3, <1>5 DEF Joins
  <1> QED BY <1>4, <1>6

\* Sequences in order, one after the other.
Chained(r) ==
    /\ r \in Seq(Seq(Records))
    /\ \A j \in 1 .. Len(r): Sorted(r[j])
    /\ \A j, k \in 1 .. Len(r): j < k => Before(r[j], r[k])

\* s holds the first m sequences of r, in order.
Holds(s, r, m) ==
    /\ s \in Seq(Records) /\ Sorted(s)
    /\ \A x: x \in ToSet(s) <=> \E j \in 1 .. m: x \in ToSet(r[j])

LEMMA FlattenHolds ==
  ASSUME NEW r, Chained(r)
  PROVE  Holds(FlattenSeq(r), r, Len(r))
  <1>0. Len(r) \in Nat /\ \A j \in 1 .. Len(r): r[j] \in Seq(Records) BY DEF Chained
  <1>1. CASE Len(r) = 0
    <2>1. FlattenSeq(r) = r BY <1>1 DEF FlattenSeq
    <2>2. r = <<>> BY <1>1 DEF Chained
    <2>3. <<>> \in Seq(Records) /\ Sorted(<<>>) /\ \A x: x \notin ToSet(<<>>) BY DEF Sorted, ToSet
    <2>4. ~ \E j \in 1 .. Len(r): TRUE BY <1>1
    <2> QED BY <2>1, <2>2, <2>3, <2>4 DEF Holds
  <1>2. CASE Len(r) # 0
    <2>1. PICK f: FlattenSeq(r) = f[Len(r)] /\ Joins(r, f, Len(r)) BY <1>0, <1>2, FlattenIs
    <2>2. ASSUME NEW i \in 1 .. Len(r) PROVE f[i] = IF i = 1 THEN r[i] ELSE f[i - 1] \o r[i]
      BY <1>0, <2>1 DEF Joins
    <2> DEFINE bad == { m \in 1 .. Len(r): ~Holds(f[m], r, m) }
               m == CHOOSE i \in bad: \A j \in bad: i <= j
    <2>3. ASSUME bad # {} PROVE FALSE
      <3>1. bad \in SUBSET Nat BY <1>0
      <3>2. m \in bad /\ \A j \in bad: m <= j
        <4> HIDE DEF bad
        <4> QED BY <2>3, <3>1, FirstPlace
      <3> HIDE DEF m
      <3>3. m \in 1 .. Len(r) /\ ~Holds(f[m], r, m) BY <3>2
      <3>4. r[m] \in Seq(Records) /\ Sorted(r[m]) BY <1>0, <3>3 DEF Chained
      <3>5. CASE m = 1
        <4>1. f[m] = r[m] BY <2>2, <3>3, <3>5
        <4>2. \A j \in 1 .. m: j = m BY <3>5
        <4>3. m \in 1 .. m BY <3>5
        <4>4. Holds(f[m], r, m) BY <3>4, <4>1, <4>2, <4>3 DEF Holds
        <4> QED BY <3>3, <4>4
      <3>6. CASE m # 1
        <4>1. m - 1 \in 1 .. Len(r) /\ m - 1 < m /\ m \in Nat BY <1>0, <3>3, <3>6
        <4>2. m - 1 \notin bad
          <5> HIDE DEF bad
          <5> QED BY <3>2, <4>1
        <4>3. Holds(f[m - 1], r, m - 1) BY <4>1, <4>2
        <4>4. f[m] = f[m - 1] \o r[m] BY <2>2, <3>3, <3>6
        <4>5. Before(f[m - 1], r[m])
          <5>1. ASSUME NEW x \in ToSet(f[m - 1]), NEW y \in ToSet(r[m]) PROVE x < y
            <6>1. PICK j \in 1 .. m - 1: x \in ToSet(r[j]) BY <4>3, <5>1 DEF Holds
            <6>2. j \in 1 .. Len(r) /\ j < m BY <1>0, <3>3, <4>1, <6>1
            <6>3. Before(r[j], r[m]) BY <3>3, <6>2 DEF Chained
            <6> QED BY <5>1, <6>1, <6>3 DEF Before
          <5> QED BY <5>1 DEF Before
        <4>6. /\ f[m] \in Seq(Records) /\ Sorted(f[m])
              /\ \A x: x \in ToSet(f[m]) <=> x \in ToSet(f[m - 1]) \/ x \in ToSet(r[m])
          BY <3>4, <4>3, <4>4, <4>5, ConcatSorted DEF Holds
        <4>7. \A j: j \in 1 .. m <=> j \in 1 .. m - 1 \/ j = m BY <3>3, <4>1
        <4>8. \A x: x \in ToSet(f[m]) <=> \E j \in 1 .. m: x \in ToSet(r[j])
          <5>1. ASSUME NEW x PROVE x \in ToSet(f[m]) <=> \E j \in 1 .. m: x \in ToSet(r[j])
            <6>1. x \in ToSet(f[m - 1]) <=> \E j \in 1 .. m - 1: x \in ToSet(r[j]) BY <4>3 DEF Holds
            <6>2. (\E j \in 1 .. m: x \in ToSet(r[j])) <=> (\E j \in 1 .. m - 1: x \in ToSet(r[j])) \/ x \in ToSet(r[m])
              BY <4>7
            <6> QED BY <4>6, <6>1, <6>2
          <5> QED BY <5>1
        <4>9. Holds(f[m], r, m) BY <4>6, <4>8 DEF Holds
        <4> QED BY <3>3, <4>9
      <3> QED BY <3>5, <3>6
    <2>4. Len(r) \in 1 .. Len(r) BY <1>0, <1>2
    <2>5. Holds(f[Len(r)], r, Len(r)) BY <2>3, <2>4
    <2> QED BY <2>1, <2>5
  <1> QED BY <1>1, <1>2

-----------------------------------------------------------------------------
(* Reading a healthy topic *)

LEMMA SegmentFacts ==
  ASSUME IndInv, ReadInv, Healthy, NEW k \in 1 .. Len(segments)
  PROVE  LET b == segments[k] IN
         /\ b \in Bases /\ b \in Nat /\ file[b] \in Seq(Records) /\ Sorted(file[b])
         /\ Size(Reader(b)) = Len(file[b]) /\ From(b, 0) = file[b]
         /\ \A x \in ToSet(file[b]): x \in Stored /\ x \in Nat /\ b <= x
         /\ \A j \in k + 1 .. Len(segments): /\ segments[j] \in Nat /\ b < segments[j]
                                             /\ \A x \in ToSet(file[b]): x < segments[j]
  <1>0. Types /\ Rolled /\ Up /\ Clean /\ Ascending /\ InPlace /\ UpToDate BY DEF IndInv, ReadInv, Healthy
  <1>1. segments \in Seq(Bases) /\ Len(segments) \in Nat /\ DOMAIN segments = 1 .. Len(segments)
    BY <1>0 DEF Types, TypeOK
  <1>o. \A i, j \in 1 .. Len(segments): i < j => segments[i] < segments[j] BY <1>0, <1>1 DEF Rolled
  <1> DEFINE b == segments[k]
  <1>2. b \in Bases /\ b \in Nat /\ \A j \in 1 .. Len(segments): segments[j] \in Nat
    BY <1>1, TopicLogAssumption DEF Bases
  <1>3. file[b] \in Seq(Records) BY <1>0, <1>2, TypeFacts
  <1>4. Sorted(file[b]) BY <1>0, <1>2 DEF Ascending, Sorted
  <1>5. Size(Reader(b)) = Len(file[b]) BY <1>0, <1>2 DEF UpToDate
  <1>6. From(b, 0) = file[b]
    <2>1. From(b, 0) = SubSeq(file[b], 1, Len(file[b])) BY <1>5 DEF From
    <2> QED BY <1>3, <2>1, SubSeqFull
  <1>7. ASSUME NEW x \in ToSet(file[b])
        PROVE  x \in Stored /\ x \in Nat /\ b <= x /\ (k < Len(segments) => x < segments[k + 1])
    <2>1. PICK i \in 1 .. Len(file[b]): file[b][i] = x BY <1>3, SeqFacts
    <2>2. i \in DOMAIN file[b] /\ x \in Nat BY <1>3, <2>1, SeqFacts
    <2>3. x # Junk
      <3>1. Sound(file[b]) = file[b] BY <1>0, <1>2 DEF Clean
      <3> QED BY <1>3, <2>1, <3>1, SoundFacts
    <2>4. x \in Stored
      <3>1. x \in { file[b][l] : l \in DOMAIN file[b] } BY <2>1, <2>2
      <3> HIDE DEF b
      <3>2. \A c \in Bases: { file[c][l] : l \in DOMAIN file[c] } \subseteq Stored \cup {Junk} BY Zenon DEF Stored
      <3> QED BY <1>2, <2>3, <3>1, <3>2
    <2> QED BY <1>0, <1>1, <2>1, <2>2, <2>4 DEF InPlace
  <1>8. ASSUME NEW j \in k + 1 .. Len(segments)
        PROVE  segments[j] \in Nat /\ b < segments[j] /\ \A x \in ToSet(file[b]): x < segments[j]
    <2>1. j \in 1 .. Len(segments) /\ k < j /\ k + 1 \in 1 .. Len(segments) /\ k < Len(segments) /\ (j = k + 1 \/ k + 1 < j)
      BY <1>1
    <2>2. b < segments[j] /\ segments[k + 1] <= segments[j]
      <3>1. b < segments[j] BY <1>o, <2>1
      <3>2. CASE j = k + 1 BY <1>2, <2>1, <3>1, <3>2
      <3>3. CASE k + 1 < j
        <4>1. segments[k + 1] < segments[j] BY <1>o, <2>1, <3>3
        <4> QED BY <1>2, <2>1, <3>1, <4>1
      <3> QED BY <2>1, <3>2, <3>3
    <2>3. ASSUME NEW x \in ToSet(file[b]) PROVE x < segments[j]
      <3>1. x \in Nat /\ x < segments[k + 1] BY <1>7, <2>1, <2>3
      <3> HIDE DEF b
      <3> QED BY <1>2, <2>1, <2>2, <3>1
    <2> QED BY <1>2, <2>1, <2>2, <2>3
  <1> QED BY <1>2, <1>3, <1>4, <1>5, <1>6, <1>7, <1>8

LEMMA PlaceOf ==
  ASSUME IndInv, ReadInv, Healthy, NEW n \in Stored
  PROVE  n \in Records /\ n \in Nat /\ n # 0 /\ \E k \in 1 .. Len(segments): n \in ToSet(file[segments[k]])
  <1>0. Types /\ Listed BY DEF IndInv, Healthy
  <1>1. PICK b \in Bases: n \in { file[b][i] : i \in DOMAIN file[b] } BY DEF Stored
  <1>2. PICK i \in DOMAIN file[b]: n = file[b][i] BY <1>1
  <1>3. file[b] \in Seq(Records) /\ DOMAIN file[b] = 1 .. Len(file[b]) BY <1>0, TypeFacts
  <1>4. n \in Records /\ n \in Nat /\ n # 0
    <2>1. n \in Records /\ n \in Nat BY <1>2, <1>3, SeqFacts
    <2>2. \A m \in Stored: m # Junk BY Zenon DEF Stored
    <2> QED BY <2>1, <2>2 DEF Junk
  <1>5. file[b] # <<>> BY <1>2
  <1>6. PICK k \in DOMAIN segments: segments[k] = b BY <1>0, <1>5 DEF Listed
  <1>7. DOMAIN segments = 1 .. Len(segments) BY <1>0 DEF Types, TypeOK
  <1>8. n \in ToSet(file[b]) BY <1>2, <1>3, SeqFacts
  <1> QED BY <1>4, <1>6, <1>7, <1>8

\* The records of the segments behind segment i.
LEMMA RestHolds ==
  ASSUME IndInv, ReadInv, Healthy, NEW i \in 1 .. Len(segments)
  PROVE  LET rest == [j \in 1 .. Len(segments) - i |-> From(segments[i + j], 0)]
             s == FlattenSeq(rest)
         IN  /\ s \in Seq(Records) /\ Sorted(s)
             /\ \A x: x \in ToSet(s) <=> \E j \in i + 1 .. Len(segments): x \in ToSet(file[segments[j]])
  <1> DEFINE m == Len(segments) - i
             rest == [j \in 1 .. m |-> From(segments[i + j], 0)]
  <1>0. segments \in Seq(Bases) /\ Len(segments) \in Nat BY DEF IndInv, Types, TypeOK
  <1>1. m \in Nat BY <1>0
  <1>2. \A j \in 1 .. m: i + j \in 1 .. Len(segments) /\ i + j \in i + 1 .. Len(segments) BY <1>0
  <1>3. ASSUME NEW j \in 1 .. m PROVE rest[j] = file[segments[i + j]] BY <1>2, SegmentFacts
  <1>4. ASSUME NEW j \in 1 .. m PROVE file[segments[i + j]] \in Seq(Records) BY <1>2, SegmentFacts
  <1>5. rest \in Seq(Seq(Records)) /\ Len(rest) = m
    <2>1. rest \in [1 .. m -> Seq(Records)] BY <1>2, <1>4, SegmentFacts
    <2> HIDE DEF rest, m
    <2> QED BY <1>1, <2>1
  <1> HIDE DEF rest
  <1>6. \A j \in 1 .. m: Sorted(rest[j]) BY <1>2, <1>3, SegmentFacts
  <1>7. ASSUME NEW j \in 1 .. m, NEW k \in 1 .. m, j < k PROVE Before(rest[j], rest[k])
    <2>1. i + j \in 1 .. Len(segments) /\ i + k \in 1 .. Len(segments) /\ i + k \in (i + j) + 1 .. Len(segments)
      BY <1>0, <1>7
    <2>2. ASSUME NEW x \in ToSet(file[segments[i + j]]), NEW y \in ToSet(file[segments[i + k]]) PROVE x < y
      <3>1. x < segments[i + k] /\ x \in Nat /\ segments[i + k] \in Nat BY <2>1, <2>2, SegmentFacts
      <3>2. segments[i + k] <= y /\ y \in Nat BY <2>1, <2>2, SegmentFacts
      <3> QED BY <3>1, <3>2
    <2> QED BY <1>3, <2>2 DEF Before
  <1>8. Chained(rest) BY <1>5, <1>6, <1>7 DEF Chained
  <1>9. Holds(FlattenSeq(rest), rest, m) BY <1>5, <1>8, FlattenHolds
  <1>10. ASSUME NEW x
         PROVE  (\E j \in 1 .. m: x \in ToSet(rest[j])) <=> \E j \in i + 1 .. Len(segments): x \in ToSet(file[segments[j]])
    <2>1. ASSUME NEW j \in 1 .. m, x \in ToSet(rest[j]) PROVE \E l \in i + 1 .. Len(segments): x \in ToSet(file[segments[l]])
      <3>1. x \in ToSet(file[segments[i + j]]) BY <1>3, <2>1
      <3> QED BY <1>2, <3>1
    <2>2. ASSUME NEW l \in i + 1 .. Len(segments), x \in ToSet(file[segments[l]]) PROVE \E j \in 1 .. m: x \in ToSet(rest[j])
      <3>1. l - i \in 1 .. m /\ i + (l - i) = l BY <1>0
      <3>2. rest[l - i] = file[segments[l]] BY <1>3, <3>1
      <3> QED BY <2>2, <3>1, <3>2
    <2> QED BY <2>1, <2>2
  <1>11. /\ FlattenSeq(rest) \in Seq(Records) /\ Sorted(FlattenSeq(rest))
         /\ \A x: x \in ToSet(FlattenSeq(rest)) <=> \E j \in i + 1 .. Len(segments): x \in ToSet(file[segments[j]])
    BY <1>9, <1>10 DEF Holds
  <1> QED BY <1>11 DEF rest

LEMMA LastPlace ==
  ASSUME NEW n \in Nat, NEW S \in SUBSET (1 .. n), S # {}
  PROVE  (CHOOSE i \in S : \A j \in S : j <= i) \in S
  <1> DEFINE T == { d \in 0 .. n: n - d \in S }
             d == CHOOSE i \in T: \A j \in T: i <= j
  <1>1. T \in SUBSET Nat OBVIOUS
  <1>2. T # {}
    <2>1. PICK a \in S: TRUE OBVIOUS
    <2>2. a \in 1 .. n /\ n - a \in 0 .. n /\ n - (n - a) = a OBVIOUS
    <2> QED BY <2>1, <2>2
  <1>3. d \in T /\ \A j \in T: d <= j
    <2> HIDE DEF T
    <2> QED BY <1>1, <1>2, FirstPlace
  <1> HIDE DEF d
  <1>4. ASSUME NEW j \in S PROVE j <= n - d
    <2>1. j \in 1 .. n /\ n - j \in 0 .. n /\ n - (n - j) = j OBVIOUS
    <2>2. n - j \in T BY <2>1
    <2>3. d <= n - j /\ d \in 0 .. n BY <1>3, <2>2
    <2> QED BY <2>1, <2>3
  <1>5. n - d \in S BY <1>3
  <1> QED BY <1>4, <1>5

\* Where the reading of a segment starts: in front of the record, if the segment
\* has it.
LEMMA LookupStarts ==
  ASSUME IndInv, ReadInv, Healthy, NEW k \in 1 .. Len(segments),
         NEW off \in Records, segments[k] <= off, ~Indexed(off)
  PROVE  LET b == segments[k]
             e == Lookup(b, Reader(b).entries, off)
         IN  /\ e.pos \in Nat /\ (e.off = off <=> off = b) /\ (off = b => e.pos = 0)
             /\ \A q \in 1 .. Len(file[b]): file[b][q] = off => e.pos <= q - 1
  <1> DEFINE b == segments[k]
             n == Reader(b).entries
             e == Lookup(b, n, off)
             below == { i \in 1 .. n : index[b][i].off <= off }
             c == CHOOSE i \in below : \A j \in below : j <= i
  <1>0. Types /\ IndexOrdered /\ Ascending /\ Counting BY DEF IndInv, ReadInv, Healthy
  <1>1. b \in Bases /\ b \in Nat /\ off \in Nat /\ off \in b .. MaxSeq BY SegmentFacts, TopicLogAssumption DEF Records
  <1>2. Len(index[b]) \in Nat /\ index[b] \in Seq(Entries) /\ DOMAIN index[b] = 1 .. Len(index[b]) /\ Reader(b) \in Objects
    BY <1>0, <1>1, TypeFacts
  <1>3. n \in 0 .. Len(index[b])
    <2>1. n \in Nat BY <1>2 DEF Objects
    <2>2. CASE cache[b] # Closed BY <1>0, <1>1, <1>2, <2>1, <2>2 DEF Reader, Counting
    <2>3. CASE cache[b] = Closed BY <1>2, <2>3 DEF Reader, NewSegment
    <2> QED BY <2>2, <2>3
  <1>4. \A i, j \in DOMAIN index[b]: j < i => index[b][j].off < index[b][i].off BY <1>0, <1>1, OffsAscend
  <1>5. e = IF below = {} THEN [off |-> b, pos |-> 0] ELSE index[b][c]
    <2> HIDE DEF n, b
    <2> QED BY <1>0, <1>1, <1>3, <1>4, LookupIs
  <1> HIDE DEF e
  <1>6. CASE below = {}
    <2>1. e.off = b /\ e.pos = 0 BY <1>5, <1>6
    <2>2. \A q \in 1 .. Len(file[b]): 0 <= q - 1 BY <1>0, <1>1, TypeFacts
    <2>3. 0 \in Nat OBVIOUS
    <2> QED BY <2>1, <2>2, <2>3 DEF e
  <1>7. CASE below # {}
    <2>1. c \in below
      <3>1. n \in Nat /\ below \in SUBSET (1 .. n) BY <1>3
      <3> HIDE DEF below, n
      <3> QED BY <1>7, <3>1, LastPlace
    <2> HIDE DEF c
    <2>2. c \in 1 .. Len(index[b]) /\ index[b][c].off <= off BY <1>2, <1>3, <2>1
    <2>3. e = index[b][c] /\ e \in Entries BY <1>2, <1>5, <1>7, <2>2
    <2>4. e.off \in Nat /\ e.pos \in Nat BY <2>3, TopicLogAssumption DEF Entries, Bases
    <2>5. e.off # off
      <3>1. c \in DOMAIN index[b] BY <1>2, <2>2
      <3> QED BY <1>1, <2>3, <3>1 DEF Indexed
    <2>6. e.off < off BY <1>1, <2>2, <2>3, <2>4, <2>5
    <2>7. PICK l \in DOMAIN file[b]: file[b][l] = e.off /\ e.pos <= l
      BY <1>0, <1>1, <1>2, <2>2, <2>3 DEF IndexOrdered, InOrder
    <2>8. file[b] \in Seq(Records) /\ Sorted(file[b]) /\ \A x \in ToSet(file[b]): b <= x BY SegmentFacts
    <2>9. l \in 1 .. Len(file[b]) /\ Len(file[b]) \in Nat /\ DOMAIN file[b] = 1 .. Len(file[b]) /\ e.off \in ToSet(file[b])
      BY <2>7, <2>8, SeqFacts
    <2>10. off # b BY <1>1, <2>4, <2>6, <2>8, <2>9
    <2>11. ASSUME NEW q \in 1 .. Len(file[b]), file[b][q] = off PROVE e.pos <= q - 1
      <3>1. CASE q < l
        <4>1. off < e.off BY <2>7, <2>8, <2>9, <2>11, <3>1 DEF Sorted
        <4> QED BY <1>1, <2>4, <2>6, <4>1
      <3>2. CASE q = l BY <2>5, <2>7, <2>11, <3>2
      <3>3. CASE l < q
        <4>1. q \in Nat /\ l \in Nat /\ e.pos <= l BY <2>7, <2>9
        <4> QED BY <2>4, <3>3, <4>1
      <3> QED BY <2>9, <3>1, <3>2, <3>3
    <2> QED BY <2>4, <2>5, <2>10, <2>11 DEF e
  <1> QED BY <1>6, <1>7

\* The part of a sequence in order from place q on.
LEMMA TailSorted ==
  ASSUME NEW f \in Seq(Records), Sorted(f), NEW q \in 1 .. Len(f)
  PROVE  LET s == SubSeq(f, q, Len(f))
         IN  s \in Seq(Records) /\ Sorted(s) /\ \A x: x \in ToSet(s) <=> x \in ToSet(f) /\ f[q] <= x
  <1> DEFINE s == SubSeq(f, q, Len(f))
             n == Len(f)
             m == n - q + 1
  <1>0. n \in Nat /\ q \in Nat /\ m \in Nat /\ q <= n /\ DOMAIN f = 1 .. n OBVIOUS
  <1>1. s \in Seq(Records) /\ Len(s) = m /\ \A i \in 1 .. m: s[i] = f[q + i - 1]
    <2>1. \A i \in q .. n: f[i] \in Records OBVIOUS
    <2>2. q \in Int /\ n \in Int /\ q <= n BY <1>0
    <2> QED BY <2>1, <2>2, SubSeqProperties
  <1> HIDE DEF s
  <1>2. \A i \in 1 .. m: q + i - 1 \in 1 .. n BY <1>0
  <1>3. ASSUME NEW i \in 1 .. m, NEW j \in 1 .. m, i < j PROVE s[i] < s[j]
    <2>1. q + i - 1 < q + j - 1 BY <1>0, <1>3
    <2> QED BY <1>0, <1>1, <1>2, <2>1 DEF Sorted
  <1>4. ASSUME NEW x PROVE x \in ToSet(s) <=> x \in ToSet(f) /\ f[q] <= x
    <2>1. ASSUME x \in ToSet(s) PROVE x \in ToSet(f) /\ f[q] <= x
      <3>1. PICK i \in 1 .. m: s[i] = x BY <1>1, <2>1, SeqFacts
      <3> DEFINE p == q + i - 1
      <3>2. p \in 1 .. n /\ f[p] = x /\ (p = q \/ q < p) BY <1>0, <1>1, <1>2, <3>1
      <3> HIDE DEF p
      <3>3. x \in ToSet(f) /\ f[q] \in Nat /\ x \in Nat BY <3>2, SeqFacts
      <3>4. CASE p = q BY <3>2, <3>3, <3>4
      <3>5. CASE q < p
        <4>1. f[q] < f[p] BY <1>0, <3>2, <3>5 DEF Sorted
        <4> QED BY <3>2, <3>3, <4>1
      <3> QED BY <3>2, <3>3, <3>4, <3>5
    <2>2. ASSUME x \in ToSet(f), f[q] <= x PROVE x \in ToSet(s)
      <3>1. PICK p \in 1 .. n: f[p] = x BY <2>2, SeqFacts
      <3>2. f[q] \in Nat /\ f[p] \in Nat BY SeqFacts
      <3>3. ~(p < q)
        <4>1. ASSUME p < q PROVE FALSE
          <5>1. f[p] < f[q] BY <1>0, <4>1 DEF Sorted
          <5> QED BY <2>2, <3>1, <3>2, <5>1
        <4> QED BY <4>1
      <3>4. p - q + 1 \in 1 .. m /\ q + (p - q + 1) - 1 = p BY <1>0, <3>3
      <3>5. s[p - q + 1] = x BY <1>1, <3>1, <3>4
      <3> QED BY <1>1, <3>4, <3>5, SeqFacts
    <2> QED BY <2>1, <2>2
  <1>5. DOMAIN s = 1 .. m BY <1>1
  <1>6. Sorted(s) BY <1>3, <1>5 DEF Sorted
  <1> QED BY <1>1, <1>4, <1>6 DEF s

\* readTargetPosition finds a record that is there, and nothing else.
LEMMA HitsAre ==
  ASSUME IndInv, ReadInv, Healthy, NEW k \in 1 .. Len(segments), NEW p \in Nat, NEW off
  PROVE  LET b == segments[k] IN
         /\ off \notin ToSet(file[b]) => Hits(b, p, off) = {}
         /\ \A q \in 1 .. Len(file[b]): file[b][q] = off /\ p <= q - 1 => Hits(b, p, off) = {q - 1}
  <1> DEFINE b == segments[k]
             f == file[b]
  <1>0. f \in Seq(Records) /\ Sorted(f) /\ Size(Reader(b)) = Len(f) BY SegmentFacts
  <1>1. Len(f) \in Nat /\ DOMAIN f = 1 .. Len(f) BY <1>0
  <1>2. Hits(b, p, off) = { q \in p .. Len(f) - 1 : f[q + 1] = off } BY <1>0 DEF Hits
  <1> HIDE DEF f
  <1>3. \A q \in p .. Len(f) - 1: q + 1 \in 1 .. Len(f) BY <1>1
  <1>4. ASSUME off \notin ToSet(f) PROVE Hits(b, p, off) = {}
    <2>1. \A i \in 1 .. Len(f): f[i] # off BY <1>0, <1>4, SeqFacts
    <2> QED BY <1>2, <1>3, <2>1
  <1>5. ASSUME NEW q \in 1 .. Len(f), f[q] = off, p <= q - 1 PROVE Hits(b, p, off) = {q - 1}
    <2>1. q - 1 \in p .. Len(f) - 1 /\ (q - 1) + 1 = q BY <1>1, <1>5
    <2>2. ASSUME NEW o \in p .. Len(f) - 1, f[o + 1] = off PROVE o = q - 1
      <3>1. o + 1 \in 1 .. Len(f) BY <1>3
      <3>2. f[q] \in Nat BY <1>0, SeqFacts
      <3>3. ~(o + 1 < q) /\ ~(q < o + 1)
        <4>1. ASSUME NEW i \in 1 .. Len(f), NEW j \in 1 .. Len(f), i < j PROVE f[i] < f[j]
          BY <1>0, <1>1, <4>1 DEF Sorted
        <4> QED BY <1>5, <2>2, <3>1, <3>2, <4>1
      <3> QED BY <1>1, <3>1, <3>3
    <2> QED BY <1>2, <1>5, <2>1, <2>2
  <1> QED BY <1>4, <1>5 DEF f

LEMMA FirstOfOne == ASSUME NEW p \in Nat PROVE First({p}) = p
  <1>1. p <= p OBVIOUS
  <1> QED BY <1>1 DEF First

\* The segment in which the reading starts gives its records from off on.
LEMMA SegmentReads ==
  ASSUME IndInv, ReadInv, Healthy, NEW k \in 1 .. Len(segments),
         NEW off \in Records, segments[k] <= off, ~Indexed(off),
         \/ off = segments[k] \/ off \in ToSet(file[segments[k]])
         \/ \A x \in ToSet(file[segments[k]]): x < off
  PROVE  LET s == SegmentRead(segments[k], off)
         IN  s \in Seq(Records) /\ Sorted(s) /\ \A x: x \in ToSet(s) <=> x \in ToSet(file[segments[k]]) /\ off <= x
  <1> DEFINE b == segments[k]
             e == Lookup(b, Reader(b).entries, off)
             s == SegmentRead(b, off)
  <1>1. /\ b \in Nat /\ file[b] \in Seq(Records) /\ Sorted(file[b]) /\ Size(Reader(b)) = Len(file[b]) /\ From(b, 0) = file[b]
        /\ \A x \in ToSet(file[b]): x \in Nat /\ b <= x
    BY SegmentFacts
  <1>2. /\ e.pos \in Nat /\ (e.off = off <=> off = b) /\ (off = b => e.pos = 0)
        /\ \A q \in 1 .. Len(file[b]): file[b][q] = off => e.pos <= q - 1
    BY LookupStarts
  <1>3. s = IF e.off = off THEN From(b, e.pos)
            ELSE IF Hits(b, e.pos, off) = {} THEN <<>> ELSE From(b, First(Hits(b, e.pos, off)))
    BY DEF SegmentRead
  <1>o. off \in Nat BY TopicLogAssumption DEF Records
  <1> HIDE DEF e, s
  <1>4. CASE off = b
    <2>1. s = file[b] BY <1>1, <1>2, <1>3, <1>4
    <2> QED BY <1>1, <1>4, <2>1 DEF s
  <1>5. CASE off # b /\ off \in ToSet(file[b])
    <2>1. PICK q \in 1 .. Len(file[b]): file[b][q] = off BY <1>1, <1>5, SeqFacts
    <2>2. e.pos <= q - 1 BY <1>2, <2>1
    <2>3. Hits(b, e.pos, off) = {q - 1} BY <1>2, <2>1, <2>2, HitsAre
    <2>4. q - 1 \in Nat /\ (q - 1) + 1 = q BY <1>1
    <2>5. First({q - 1}) = q - 1 BY <2>4, FirstOfOne
    <2>6. s = From(b, q - 1) BY <1>2, <1>3, <1>5, <2>3, <2>5
    <2>7. s = SubSeq(file[b], q, Len(file[b])) BY <1>1, <2>4, <2>6 DEF From
    <2>8. s \in Seq(Records) /\ Sorted(s) /\ \A x: x \in ToSet(s) <=> x \in ToSet(file[b]) /\ file[b][q] <= x
      BY <1>1, <2>7, TailSorted
    <2> QED BY <2>1, <2>8 DEF s
  <1>6. CASE off # b /\ off \notin ToSet(file[b]) /\ \A x \in ToSet(file[b]): x < off
    <2>1. Hits(b, e.pos, off) = {} BY <1>2, <1>6, HitsAre
    <2>2. s = <<>> BY <1>2, <1>3, <1>6, <2>1
    <2>3. <<>> \in Seq(Records) /\ Sorted(<<>>) /\ \A x: x \notin ToSet(<<>>) BY DEF Sorted, ToSet
    <2>4. \A x \in ToSet(file[b]): ~(off <= x) BY <1>1, <1>6, <1>o
    <2> QED BY <2>2, <2>3, <2>4 DEF s
  <1> QED BY <1>4, <1>5, <1>6

\* The segment that the reading starts from is not behind the record, and the
\* ones in front of it have nothing that is wanted.
LEMMA BaseOf ==
  ASSUME IndInv, ReadInv, Healthy, NEW off, off = 0 \/ off \in Stored
  PROVE  LET i == First(BaseIndex(off)) IN
         /\ BaseIndex(off) # {} /\ i \in 1 .. Len(segments) /\ segments[i] <= off
         /\ \/ off = segments[i] \/ off \in ToSet(file[segments[i]])
            \/ \A x \in ToSet(file[segments[i]]): x < off
         /\ off \in ToSet(file[segments[i]]) \/ off = 0 \/ \E j \in 2 .. Len(segments): segments[j] = off
         /\ \A j \in i + 1 .. Len(segments): \A x \in ToSet(file[segments[j]]): off <= x
         /\ \A x \in Stored: off <= x => \E j \in i .. Len(segments): x \in ToSet(file[segments[j]])
  <1> DEFINE i == First(BaseIndex(off))
             len == Len(segments)
  <1>0. Types /\ Rolled /\ Up BY DEF IndInv, ReadInv, Healthy
  <1>1. segments \in Seq(Bases) /\ len \in Nat /\ DOMAIN segments = 1 .. len BY <1>0 DEF Types, TypeOK
  <1>2. \A j \in 1 .. len: segments[j] \in Nat BY <1>1, TopicLogAssumption DEF Bases
  <1>o. off \in Nat BY PlaceOf
  <1>3. ASSUME NEW j \in 1 .. len, NEW l \in 1 .. len, j <= l PROVE segments[j] <= segments[l]
    <2>1. CASE j = l BY <1>2, <2>1
    <2>2. CASE j < l
      <3>1. segments[j] < segments[l] BY <1>0, <1>1, <2>2 DEF Rolled
      <3> QED BY <1>2, <3>1
    <2> QED BY <1>3, <2>1, <2>2
  <1>4. ASSUME NEW k \in 1 .. len, segments[k] <= off, \A j \in k + 1 .. len: off <= segments[j] PROVE k \in BaseIndex(off)
    <2>1. k < len => k + 1 \in k + 1 .. len BY <1>1
    <2>2. off >= segments[k] BY <1>2, <1>4, <1>o
    <2> QED BY <1>1, <1>4, <2>1, <2>2 DEF BaseIndex
  <1>5. \E k \in BaseIndex(off): (off = segments[k] /\ k = 1) \/ off \in ToSet(file[segments[k]])
    <2>1. CASE off = 0
      <3>1. 1 \in 1 .. len /\ segments[1] = 0 BY <1>0, <1>1 DEF Rolled
      <3>2. \A j \in 1 + 1 .. len: off <= segments[j]
        <4>1. \A j \in 1 + 1 .. len: j \in 1 .. len BY <1>1
        <4> QED BY <1>2, <2>1, <4>1
      <3>3. 1 \in BaseIndex(off) BY <1>4, <2>1, <3>1, <3>2
      <3> QED BY <2>1, <3>1, <3>3
    <2>2. CASE off \in Stored
      <3>1. PICK k \in 1 .. len: off \in ToSet(file[segments[k]]) BY <2>2, PlaceOf
      <3>2. segments[k] <= off BY <3>1, SegmentFacts
      <3>3. \A j \in k + 1 .. len: off < segments[j] /\ segments[j] \in Nat BY <3>1, SegmentFacts
      <3>4. \A j \in k + 1 .. len: off <= segments[j] BY <1>o, <3>3
      <3>5. k \in BaseIndex(off) BY <1>4, <3>2, <3>4
      <3> QED BY <3>1, <3>5
    <2> QED BY <2>1, <2>2
  <1>6. BaseIndex(off) # {} BY <1>5
  <1>7. i \in BaseIndex(off) /\ \A j \in BaseIndex(off): i <= j
    <2>1. BaseIndex(off) \in SUBSET Nat BY <1>1 DEF BaseIndex
    <2> QED BY <1>6, <2>1, FirstPlace DEF First
  <1> HIDE DEF i
  <1>8. i \in 1 .. len /\ segments[i] <= off /\ (i < len => off <= segments[i + 1])
    <2>1. i \in DOMAIN segments /\ off >= segments[i] /\ (i < len => off <= segments[i + 1]) BY <1>7 DEF BaseIndex
    <2> QED BY <1>1, <1>2, <1>o, <2>1
  <1>9. ASSUME NEW j \in i + 1 .. len PROVE j \in 1 .. len /\ off <= segments[j]
    <2>1. j \in 1 .. len /\ i + 1 \in 1 .. len /\ i < len /\ i + 1 <= j BY <1>1, <1>8
    <2>2. off <= segments[i + 1] /\ segments[i + 1] <= segments[j] BY <1>3, <1>8, <2>1
    <2> QED BY <1>2, <1>o, <2>1, <2>2
  <1>10. ASSUME NEW j \in i + 1 .. len, NEW x \in ToSet(file[segments[j]]) PROVE off <= x
    <2>1. j \in 1 .. len /\ off <= segments[j] BY <1>9
    <2>2. segments[j] <= x /\ x \in Nat BY <1>10, <2>1, SegmentFacts
    <2> QED BY <1>2, <1>o, <2>1, <2>2
  <1>11. ASSUME NEW x \in Stored, off <= x PROVE \E j \in i .. len: x \in ToSet(file[segments[j]])
    <2>1. PICK j \in 1 .. len: x \in ToSet(file[segments[j]]) BY PlaceOf
    <2>2. CASE j < i
      <3>1. i \in j + 1 .. len BY <1>1, <1>8, <2>2
      <3>2. x < segments[i] /\ x \in Nat BY <2>1, <3>1, SegmentFacts
      <3> QED BY <1>2, <1>8, <1>11, <1>o, <3>2
    <2>3. CASE ~(j < i)
      <3>1. j \in i .. len BY <1>1, <1>8, <2>3
      <3> QED BY <2>1, <3>1
    <2> QED BY <2>2, <2>3
  <1>12. PICK k \in BaseIndex(off): (off = segments[k] /\ k = 1) \/ off \in ToSet(file[segments[k]]) BY <1>5
  <1>13. k \in 1 .. len /\ i <= k BY <1>1, <1>7, <1>12 DEF BaseIndex
  <1>14. CASE k = 1 /\ off = segments[k]
    <2>1. i = 1 BY <1>8, <1>13, <1>14
    <2>2. off = 0 BY <1>0, <1>14 DEF Rolled
    <2> QED BY <1>6, <1>8, <1>10, <1>11, <1>14, <2>1, <2>2 DEF i
  <1>15. CASE off \in ToSet(file[segments[k]]) /\ i = k
    BY <1>6, <1>8, <1>10, <1>11, <1>15 DEF i
  <1>16. CASE off \in ToSet(file[segments[k]]) /\ i < k
    <2>1. k \in i + 1 .. len /\ i + 1 \in i + 1 .. len /\ i + 1 \in 2 .. len /\ i + 1 <= k BY <1>1, <1>8, <1>13, <1>16
    <2>2. segments[k] <= off BY <1>13, <1>16, SegmentFacts
    <2>3. ASSUME NEW x \in ToSet(file[segments[i]]) PROVE x < off
      <3>1. x < segments[k] /\ x \in Nat BY <1>8, <2>1, <2>3, SegmentFacts
      <3> QED BY <1>2, <1>13, <1>o, <2>2, <3>1
    <2>4. segments[i + 1] = off
      <3>1. off <= segments[i + 1] /\ i + 1 \in 1 .. len BY <1>9, <2>1
      <3>2. segments[i + 1] <= segments[k] BY <1>3, <1>13, <2>1, <3>1
      <3> QED BY <1>2, <1>13, <1>o, <2>2, <3>1, <3>2
    <2> QED BY <1>6, <1>8, <1>10, <1>11, <2>1, <2>3, <2>4 DEF i
  <1> QED BY <1>8, <1>12, <1>13, <1>14, <1>15, <1>16

\* ReadLogs takes the first records of all those from off on.
LEMMA ReadsFrom ==
  ASSUME IndInv, ReadInv, Healthy, NEW off, off = 0 \/ off \in Stored, ~Indexed(off)
  PROVE  \E all \in Seq(Records):
            /\ Sorted(all) /\ \A x: x \in ToSet(all) <=> x \in Stored /\ off <= x
            /\ \A limit \in Nat: ReadLogs(off, limit) = SubSeq(all, 1, IF limit < Len(all) THEN limit ELSE Len(all))
  <1> DEFINE i == First(BaseIndex(off))
             len == Len(segments)
             rest == [j \in 1 .. len - i |-> From(segments[i + j], 0)]
             head == SegmentRead(segments[i], off)
             tail == FlattenSeq(rest)
             all == head \o tail
  <1>0. /\ BaseIndex(off) # {} /\ i \in 1 .. len /\ segments[i] <= off
        /\ \/ off = segments[i] \/ off \in ToSet(file[segments[i]])
           \/ \A x \in ToSet(file[segments[i]]): x < off
        /\ \A j \in i + 1 .. len: \A x \in ToSet(file[segments[j]]): off <= x
        /\ \A x \in Stored: off <= x => \E j \in i .. len: x \in ToSet(file[segments[j]])
    BY BaseOf
  <1>1. \A limit \in Nat: ReadLogs(off, limit) = SubSeq(all, 1, IF limit < Len(all) THEN limit ELSE Len(all))
    BY <1>0 DEF ReadLogs
  <1>2. off \in Records
    <2>1. 0 \in Records BY TopicLogAssumption DEF Records
    <2> QED BY <2>1, PlaceOf
  <1>l. len \in Nat BY DEF IndInv, Types, TypeOK
  <1> HIDE DEF i
  <1>3. tail \in Seq(Records) /\ Sorted(tail) /\ \A x: x \in ToSet(tail) <=> \E j \in i + 1 .. len: x \in ToSet(file[segments[j]])
    BY <1>0, RestHolds
  <1>4. head \in Seq(Records) /\ Sorted(head) /\ \A x: x \in ToSet(head) <=> x \in ToSet(file[segments[i]]) /\ off <= x
    BY <1>0, <1>2, SegmentReads
  <1> HIDE DEF head, tail, rest
  <1>5. Before(head, tail)
    <2>1. ASSUME NEW x \in ToSet(head), NEW y \in ToSet(tail) PROVE x < y
      <3>1. x \in ToSet(file[segments[i]]) BY <1>4, <2>1
      <3>2. PICK j \in i + 1 .. len: y \in ToSet(file[segments[j]]) BY <1>3, <2>1
      <3>3. j \in 1 .. len BY <1>0, <1>l
      <3>4. x \in Nat /\ x < segments[j] /\ segments[j] \in Nat BY <1>0, <3>1, SegmentFacts
      <3>5. segments[j] <= y /\ y \in Nat BY <3>2, <3>3, SegmentFacts
      <3> QED BY <3>4, <3>5
    <2> QED BY <2>1 DEF Before
  <1>6. all \in Seq(Records) /\ Sorted(all) /\ \A x: x \in ToSet(all) <=> x \in ToSet(head) \/ x \in ToSet(tail)
    BY <1>3, <1>4, <1>5, ConcatSorted
  <1> HIDE DEF all
  <1>7. ASSUME NEW x PROVE x \in ToSet(all) <=> x \in Stored /\ off <= x
    <2>1. ASSUME x \in ToSet(head) PROVE x \in Stored /\ off <= x BY <1>0, <1>4, <2>1, SegmentFacts
    <2>2. ASSUME x \in ToSet(tail) PROVE x \in Stored /\ off <= x
      <3>1. PICK j \in i + 1 .. len: x \in ToSet(file[segments[j]]) BY <1>3, <2>2
      <3>2. j \in 1 .. len BY <1>0, <1>l
      <3>3. x \in Stored BY <3>1, <3>2, SegmentFacts
      <3> QED BY <1>0, <3>1, <3>3
    <2>3. ASSUME x \in Stored, off <= x PROVE x \in ToSet(head) \/ x \in ToSet(tail)
      <3>1. PICK j \in i .. len: x \in ToSet(file[segments[j]]) BY <1>0, <2>3
      <3>2. CASE j = i BY <1>4, <2>3, <3>1, <3>2
      <3>3. CASE j # i
        <4>1. j \in i + 1 .. len BY <1>0, <1>l, <3>1, <3>3
        <4> QED BY <1>3, <3>1, <4>1
      <3> QED BY <3>2, <3>3
    <2> QED BY <1>6, <2>1, <2>2, <2>3
  <1> QED BY <1>1, <1>6, <1>7

\* The beginning of a sequence in order.
LEMMA HeadFacts ==
  ASSUME NEW s \in Seq(Records), NEW limit \in Nat
  PROVE  LET m == IF limit < Len(s) THEN limit ELSE Len(s)
             r == SubSeq(s, 1, m)
         IN  m \in 0 .. Len(s) /\ m <= limit /\ r \in Seq(Records) /\ Len(r) = m /\ DOMAIN r = 1 .. m /\ \A i \in 1 .. m: r[i] = s[i]
  <1> DEFINE m == IF limit < Len(s) THEN limit ELSE Len(s)
             r == SubSeq(s, 1, m)
  <1>1. Len(s) \in Nat OBVIOUS
  <1>2. m \in 0 .. Len(s) /\ m <= limit /\ m \in Int /\ 1 \in Int BY <1>1
  <1>3. \A i \in 1 .. m: i \in 1 .. Len(s) BY <1>1, <1>2
  <1> HIDE DEF m
  <1>4. \A i \in 1 .. m: s[i] \in Records BY <1>3
  <1>5. r \in Seq(Records) /\ Len(r) = (IF 1 <= m THEN m - 1 + 1 ELSE 0) /\ \A i \in 1 .. m - 1 + 1: r[i] = s[1 + i - 1]
    BY <1>2, <1>4, SubSeqProperties
  <1>6. Len(r) = m /\ m - 1 + 1 = m /\ \A i \in 1 .. m: 1 + i - 1 = i BY <1>2, <1>5
  <1> HIDE DEF r
  <1>7. DOMAIN r = 1 .. m BY <1>5, <1>6
  <1>8. \A i \in 1 .. m: r[i] = s[i] BY <1>5, <1>6
  <1> QED BY <1>2, <1>5, <1>6, <1>7, <1>8 DEF m, r

\* No more records than there are numbers.
LEMMA FewRecords ==
  ASSUME NEW s \in Seq(Records), Sorted(s), NEW lo \in Nat, NEW hi \in Nat, lo <= hi + 1,
         \A x \in ToSet(s): lo <= x /\ x <= hi
  PROVE  Len(s) <= hi + 1 - lo
  <1> DEFINE bad == { i \in 1 .. Len(s): ~(lo + i - 1 <= s[i]) }
             k == CHOOSE i \in bad: \A j \in bad: i <= j
  <1>0. Len(s) \in Nat /\ DOMAIN s = 1 .. Len(s) /\ \A i \in 1 .. Len(s): s[i] \in Nat /\ lo <= s[i] /\ s[i] <= hi
    BY SeqFacts
  <1>1. ASSUME bad # {} PROVE FALSE
    <2>1. bad \in SUBSET Nat BY <1>0
    <2>2. k \in bad /\ \A j \in bad: k <= j
      <3> HIDE DEF bad
      <3> QED BY <1>1, <2>1, FirstPlace
    <2> HIDE DEF k
    <2>3. k \in 1 .. Len(s) /\ ~(lo + k - 1 <= s[k]) BY <2>2
    <2>4. CASE k = 1 BY <1>0, <2>3, <2>4
    <2>5. CASE k # 1
      <3>1. k - 1 \in 1 .. Len(s) /\ k - 1 < k BY <1>0, <2>3, <2>5
      <3>2. k - 1 \notin bad
        <4> HIDE DEF bad
        <4> QED BY <1>0, <2>2, <2>3, <3>1
      <3>3. lo + (k - 1) - 1 <= s[k - 1] BY <3>1, <3>2
      <3>4. s[k - 1] < s[k] BY <1>0, <2>3, <3>1 DEF Sorted
      <3> QED BY <1>0, <2>3, <3>1, <3>3, <3>4
    <2> QED BY <2>4, <2>5
  <1>2. CASE Len(s) = 0 BY <1>2
  <1>3. CASE Len(s) # 0
    <2>1. Len(s) \in 1 .. Len(s) BY <1>0, <1>3
    <2>2. lo + Len(s) - 1 <= s[Len(s)] BY <1>1, <2>1
    <2> HIDE DEF bad
    <2> QED BY <1>0, <2>1, <2>2
  <1> QED BY <1>2, <1>3

LEMMA Faithful ==
  ASSUME IndInv, ReadInv, Healthy, NEW off \in Stored, NEW limit \in 1 .. MaxSeq, ~Indexed(off)
  PROVE  LET r == ReadLogs(off, limit)
             due == { n \in Stored : n >= off }
         IN  /\ \A i \in DOMAIN r : r[i] \in due /\ \A j \in 1 .. i - 1 : r[j] < r[i]
             /\ \A n \in due : \/ \E i \in DOMAIN r : r[i] = n
                               \/ (Len(r) = limit /\ r[limit] < n)
  <1> DEFINE r == ReadLogs(off, limit)
             due == { n \in Stored : n >= off }
  <1>1. PICK all \in Seq(Records):
            /\ Sorted(all) /\ \A x: x \in ToSet(all) <=> x \in Stored /\ off <= x
            /\ \A l \in Nat: ReadLogs(off, l) = SubSeq(all, 1, IF l < Len(all) THEN l ELSE Len(all))
    BY ReadsFrom
  <1>2. limit \in Nat /\ limit >= 1 BY TopicLogAssumption
  <1> DEFINE m == IF limit < Len(all) THEN limit ELSE Len(all)
  <1>3. r = SubSeq(all, 1, m) BY <1>1, <1>2
  <1>4. m \in 0 .. Len(all) /\ Len(r) = m /\ DOMAIN r = 1 .. m /\ \A i \in 1 .. m: r[i] = all[i]
    BY <1>2, <1>3, HeadFacts
  <1>5. Len(all) \in Nat /\ DOMAIN all = 1 .. Len(all) /\ \A x: x \in ToSet(all) <=> \E i \in 1 .. Len(all): all[i] = x
    BY SeqFacts
  <1>6. off \in Nat /\ \A x \in Stored: x \in Nat BY PlaceOf
  <1>7. \A i \in 1 .. m: i \in 1 .. Len(all) BY <1>4, <1>5
  <1> HIDE DEF r
  <1>8. ASSUME NEW i \in 1 .. m PROVE r[i] \in due /\ \A j \in 1 .. i - 1 : r[j] < r[i]
    <2>1. all[i] \in ToSet(all) BY <1>5, <1>7
    <2>2. r[i] \in Stored /\ off <= r[i] BY <1>1, <1>4, <2>1
    <2>3. r[i] \in due BY <1>6, <2>2
    <2>4. ASSUME NEW j \in 1 .. i - 1 PROVE r[j] < r[i]
      <3>1. j \in 1 .. m /\ j < i BY <1>4, <1>5, <2>4
      <3>2. all[j] < all[i] BY <1>1, <1>5, <1>7, <3>1 DEF Sorted
      <3> QED BY <1>4, <3>1, <3>2
    <2> QED BY <2>3, <2>4
  <1>9. ASSUME NEW n \in due PROVE (\E i \in 1 .. m : r[i] = n) \/ (m = limit /\ r[limit] < n)
    <2>1. n \in Stored /\ off <= n BY <1>6, <1>9
    <2>2. PICK p \in 1 .. Len(all): all[p] = n BY <1>1, <1>5, <2>1
    <2>3. CASE p \in 1 .. m BY <1>4, <2>2, <2>3
    <2>4. CASE p \notin 1 .. m
      <3>0. m < p
        <4> HIDE DEF m
        <4> QED BY <1>4, <1>5, <2>4
      <3>1. m = limit /\ limit \in 1 .. m /\ limit \in 1 .. Len(all) /\ limit < p
        <4>0. ASSUME NEW a \in Nat, NEW l \in Nat, NEW o \in 1 .. a, (IF l < a THEN l ELSE a) < o PROVE l < a
          BY <4>0
        <4>1. m = limit BY <1>2, <1>5, <3>0, <4>0
        <4> HIDE DEF m
        <4> QED BY <1>2, <1>4, <1>5, <3>0, <4>1
      <3>2. all[limit] < all[p] BY <1>1, <1>5, <3>1 DEF Sorted
      <3> QED BY <1>4, <2>2, <3>1, <3>2
    <2> QED BY <2>3, <2>4
  <1> HIDE DEF due, m
  <1>10. /\ \A i \in DOMAIN r : r[i] \in due /\ \A j \in 1 .. i - 1 : r[j] < r[i]
         /\ \A n \in due : (\E i \in DOMAIN r : r[i] = n) \/ (Len(r) = limit /\ r[limit] < n)
    BY <1>4, <1>8, <1>9
  <1> QED BY <1>10 DEF r, due

\* ReadLogs with a limit that is no smaller than the number of records that it
\* may return.
LEMMA Complete ==
  ASSUME IndInv, ReadInv, Healthy, NEW off, off = 0 \/ off \in Stored, ~Indexed(off), NEW limit \in Nat,
         lastSeq < off + limit, NEW n \in Stored, off <= n
  PROVE  \E i \in DOMAIN ReadLogs(off, limit): ReadLogs(off, limit)[i] = n
  <1>1. PICK all \in Seq(Records):
            /\ Sorted(all) /\ \A x: x \in ToSet(all) <=> x \in Stored /\ off <= x
            /\ \A l \in Nat: ReadLogs(off, l) = SubSeq(all, 1, IF l < Len(all) THEN l ELSE Len(all))
    BY ReadsFrom
  <1>2. off \in Nat /\ n \in Nat /\ \A x \in Stored: x \in Nat BY PlaceOf
  <1>3. lastSeq \in Nat BY TopicLogAssumption DEF IndInv, Types, TypeOK
  <1>4. \A x \in Stored: x <= lastSeq BY DEF Healthy, Covered
  <1>5. off <= lastSeq BY <1>2, <1>3, <1>4
  <1>6. Len(all) <= lastSeq + 1 - off
    <2>1. \A x \in ToSet(all): off <= x /\ x <= lastSeq BY <1>1, <1>4
    <2>2. off <= lastSeq + 1 BY <1>2, <1>3, <1>5
    <2> QED BY <1>1, <1>2, <1>3, <2>1, <2>2, FewRecords
  <1>7. Len(all) \in Nat /\ Len(all) <= limit
    <2>1. Len(all) \in Nat OBVIOUS
    <2> QED BY <1>2, <1>3, <1>6, <2>1
  <1>8. ReadLogs(off, limit) = SubSeq(all, 1, Len(all))
    <2>1. ~(limit < Len(all)) BY <1>7
    <2> QED BY <1>1, <2>1
  <1>9. ReadLogs(off, limit) = all BY <1>8, SubSeqFull
  <1>10. PICK p \in 1 .. Len(all): all[p] = n BY <1>1, SeqFacts
  <1> QED BY <1>9, <1>10, SeqFacts

LEMMA FoundAt ==
  ASSUME IndInv, ReadInv, Healthy, NEW off \in Stored, ~Indexed(off), \A i \in 2 .. Len(segments) : segments[i] # off
  PROVE  ReadLogAt(off) = {off}
  <1> DEFINE i == First(BaseIndex(off))
             b == segments[i]
             p == Lookup(b, Reader(b).entries, off).pos
  <1>1. off \in Records /\ off # 0 BY PlaceOf
  <1>2. BaseIndex(off) # {} /\ i \in 1 .. Len(segments) /\ b <= off /\ off \in ToSet(file[b]) BY <1>1, BaseOf
  <1>3. ReadLogAt(off) = { file[b][q + 1] : q \in Hits(b, p, off) } BY <1>2 DEF ReadLogAt
  <1> HIDE DEF i
  <1>4. p \in Nat /\ \A q \in 1 .. Len(file[b]): file[b][q] = off => p <= q - 1 BY <1>1, <1>2, LookupStarts
  <1>5. file[b] \in Seq(Records) BY <1>2, SegmentFacts
  <1> HIDE DEF p
  <1>6. PICK q \in 1 .. Len(file[b]): file[b][q] = off BY <1>2, <1>5, SeqFacts
  <1>7. p <= q - 1 BY <1>4, <1>6
  <1>8. Hits(b, p, off) = {q - 1} BY <1>2, <1>4, <1>6, <1>7, HitsAre
  <1>9. (q - 1) + 1 = q BY <1>5
  <1> HIDE DEF b
  <1> QED BY <1>3, <1>6, <1>8, <1>9

-----------------------------------------------------------------------------
(* Theorems *)

\* The inductive invariant holds of a topic over its files, through any crashes,
\* evictions and reopenings.
THEOREM TopicLogInductive == Spec => []IndInv
  <1>1. Init => IndInv BY InitInd
  <1>2. IndInv /\ [Next]_vars => IndInv' BY StepInd
  <1> QED BY <1>1, <1>2, PTL DEF Spec

\* Every index entry names a record of its file and points at or in front of the
\* end of that record, the entries are in the order of the records, and Lookup
\* finds the largest entry that does not exceed the target whenever the numbers
\* of the file ascend (Index.Lookup and indexSlotRangeFor of index.go).
THEOREM TopicLogLookupExact == Spec => []LookupExact
  <1>1. IndInv => LookupExact
    <2> SUFFICES ASSUME IndInv PROVE LookupExact OBVIOUS
    <2>1. Types /\ TypeOK /\ IndexOrdered BY DEF IndInv, Types
    <2>2. ASSUME Clean, Ascending, NEW b \in Bases, NEW n \in 0 .. Len(index[b]), NEW target \in b .. MaxSeq
          PROVE  LET below == { i \in 1 .. n : index[b][i].off <= target }
                 IN  Lookup(b, n, target) = IF below = {} THEN [off |-> b, pos |-> 0]
                                            ELSE index[b][CHOOSE i \in below : \A j \in below : j <= i]
      <3>1. \A i, j \in DOMAIN index[b]: j < i => index[b][j].off < index[b][i].off
        BY <2>1, <2>2, OffsAscend
      <3> QED BY <2>1, <3>1, LookupIs
    <2> QED BY <2>1, <2>2 DEF LookupExact
  <1> QED BY <1>1, TopicLogInductive, PTL

\* After any number of crashes and reopenings, a topic that has not rolled and
\* whose records ascend hands out no number that is stored, unless it holds
\* exactly one record (initSegments and NextOffset of topic.go).
THEOREM TopicLogReopenCovers == Spec => []ReopenCovers
  <1>1. IndInv => ReopenCovers BY DEF IndInv
  <1> QED BY <1>1, TopicLogInductive, PTL

\* A crash leaves at most a part of one record behind those that were written
\* completely to the first segment, and an opening, also one that panics, leaves
\* these and nothing else, through any crashes and reopenings (SanityCheck and
\* check of segment.go, initSegments of topic.go).
THEOREM TopicLogRecoversExactly == Spec => []RecoversExactly
  <1>1. Init => RecoversExactly
    <2>1. 0 \in Bases BY TopicLogAssumption DEF Bases
    <2> QED BY <2>1 DEF Init, RecoversExactly
  <1>2. IndInv /\ RecoversExactly /\ [Next]_vars => RecoversExactly' BY StepRecovers DEF IndInv
  <1> QED BY <1>1, <1>2, TopicLogInductive, PTL DEF Spec

\* After an opening that panicked at a damaged record the next one succeeds: the
\* record was cut off before (initSegments of topic.go).
THEOREM TopicLogOpensAgain == Spec => OpensAgain
  <1>1. IndInv /\ RecoversExactly /\ [Next]_vars => [state = "panicked" /\ opens' # opens => state' = "up"]_vars
    <2> SUFFICES ASSUME IndInv, RecoversExactly, [Next]_vars, state = "panicked", opens' # opens PROVE state' = "up"
      OBVIOUS
    <2>1. Reopen BY DEF Next, Close, Crash, NextOffset, SkipExisting, AppendLog, Read, Exhausted, vars
    <2>2. file[0] = written /\ written \in Seq(1 .. MaxSeq) BY DEF RecoversExactly, IndInv, Types, TypeOK
    <2>3. Sound(file[0]) = file[0] BY <2>2, SoundOfWritten
    <2>4. ~Damaged BY <2>3 DEF Damaged, Truncate
    <2> QED BY <2>1, <2>4 DEF Reopen
  <1> QED BY <1>1, TopicLogInductive, TopicLogRecoversExactly, PTL DEF Spec, OpensAgain

\* The segments of an open topic ascend up to the active one and no Segment
\* object counts more entries than its index has.
THEOREM TopicLogReadInductive == Spec => [](IndInv /\ ReadInv)
  <1>1. Init => IndInv /\ ReadInv BY InitInd, InitRead
  <1>2. IndInv /\ ReadInv /\ [Next]_vars => (IndInv /\ ReadInv)' BY StepInd, StepRead
  <1> QED BY <1>1, <1>2, PTL DEF Spec

\* ReadLogs returns the records from a stored number on, in order and across
\* segments, up to its limit, whichever parts of the index and of the files the
\* number is looked for in (Topic.ReadLogs, Segment.ReadLogs).
THEOREM TopicLogReadFaithful == Spec => []ReadFaithful
  <1>1. IndInv /\ ReadInv => ReadFaithful
    <2> SUFFICES ASSUME IndInv, ReadInv, Healthy, NEW off \in Stored, NEW limit \in 1 .. MaxSeq, ~Indexed(off)
                 PROVE  LET r == ReadLogs(off, limit)
                            due == { n \in Stored : n >= off }
                        IN  /\ \A i \in DOMAIN r : r[i] \in due /\ \A j \in 1 .. i - 1 : r[j] < r[i]
                            /\ \A n \in due : \/ \E i \in DOMAIN r : r[i] = n
                                              \/ (Len(r) = limit /\ r[limit] < n)
      BY DEF ReadFaithful
    <2> QED BY Faithful
  <1> QED BY <1>1, TopicLogReadInductive, PTL

\* ReadLastLogs returns all of the latest records, the whole log when fewer were
\* written, and ReadLogAt finds a record by its number (Topic.ReadLastLogs,
\* Topic.ReadLogAt).
THEOREM TopicLogLastFaithful == Spec => []LastFaithful
  <1>1. IndInv /\ ReadInv => LastFaithful
    <2> SUFFICES ASSUME IndInv, ReadInv, Healthy PROVE LastFaithful BY DEF LastFaithful
    <2>0. lastSeq \in Nat /\ MaxSeq \in Nat BY TopicLogAssumption DEF IndInv, Types, TypeOK
    <2>1. ASSUME NEW limit \in 1 .. MaxSeq, NEW n \in Stored, n >= lastSeq - limit + 1,
                 lastSeq < limit \/ (lastSeq - limit + 1 \in Stored /\ ~Indexed(lastSeq - limit + 1))
          PROVE  \E i \in DOMAIN ReadLastLogs(limit) : ReadLastLogs(limit)[i] = n
      <3>0. limit \in Nat /\ n \in Nat BY <2>0, PlaceOf
      <3>1. CASE lastSeq < limit
        <4>1. ReadLastLogs(limit) = ReadLogs(0, lastSeq + 1) BY <3>1 DEF ReadLastLogs
        <4>2. ~Indexed(0) BY DEF Indexed, IndInv, Real, Junk
        <4>3. lastSeq + 1 \in Nat /\ lastSeq < 0 + (lastSeq + 1) /\ 0 <= n BY <2>0, <3>0
        <4>4. \E i \in DOMAIN ReadLogs(0, lastSeq + 1): ReadLogs(0, lastSeq + 1)[i] = n BY <4>2, <4>3, Complete
        <4> QED BY <4>1, <4>4
      <3>2. CASE ~(lastSeq < limit)
        <4> DEFINE from == lastSeq - limit + 1
        <4>1. ReadLastLogs(limit) = ReadLogs(from, limit) BY <3>2 DEF ReadLastLogs
        <4>2. from \in Stored /\ ~Indexed(from) BY <2>1, <3>2
        <4>3. lastSeq < from + limit /\ from <= n BY <2>0, <2>1, <3>0, <3>2
        <4> HIDE DEF from
        <4>4. \E i \in DOMAIN ReadLogs(from, limit): ReadLogs(from, limit)[i] = n BY <3>0, <4>2, <4>3, Complete
        <4> QED BY <4>1, <4>4
      <3> QED BY <3>1, <3>2
    <2>2. \A off \in Stored :
             ~Indexed(off) /\ (\A i \in 2 .. Len(segments) : segments[i] # off) => ReadLogAt(off) = {off}
      BY FoundAt
    <2> QED BY <2>1, <2>2 DEF LastFaithful
  <1> QED BY <1>1, TopicLogReadInductive, PTL
=============================================================================
