------------------------- MODULE TopicAppendProofs -------------------------
(***************************************************************************)
(* Proofs about TopicAppend, for every set of senders or applier, every    *)
(* number of sequence numbers and every segment size.                      *)
(*                                                                         *)
(* The argument: a number in flight has one owner (Ownership), so what is  *)
(* written under it was not written before (SeqUnique, WrittenIsStored).   *)
(* lastMemLog always names a log that passed the existence test            *)
(* (MemPassed), so a log that fails the test was overtaken by another one  *)
(* (DroppedOvertaken).  Listed and Bumped do the same for the list of      *)
(* segments and for lastSeq.                                               *)
(***************************************************************************)
EXTENDS TopicAppend, TLAPS

\* The initial topic is well typed.
LEMMA InitType == Init => TypeOK
  BY TopicAssumption DEF Init, TypeOK, Bases, Seqs, PCs, Outcomes

\* A goroutine inside AppendLog holds a number that indexes outcome.
LEMMA StepType ==
  ASSUME TypeOK, Ownership, [Next]_vars
  PROVE  TypeOK'
  <1>0. role' = role BY DEF Next, vars
  <1> USE <1>0, TopicAssumption DEF TypeOK, Bases, Seqs, PCs, Outcomes, Goto, Ownership
  <1>1. ASSUME NEW p \in Senders, NextOffset(p) PROVE TypeOK'
    BY <1>1 DEF NextOffset, Procs
  <1>2. ASSUME NEW p \in Appliers, NEW n \in Seqs, Apply(p, n) PROVE TypeOK'
    BY <1>2 DEF Apply, Procs
  <1>3. ASSUME NEW p \in Procs, AppendLog(p) PROVE TypeOK'
    <2>1. CASE LoadActive(p) BY <2>1 DEF LoadActive
    <2>2. CASE SkipExisting(p) BY <2>2 DEF SkipExisting, Finish
    <2>3. CASE PassCheck(p) BY <2>3 DEF PassCheck
    <2>4. CASE StoreMemLog(p) BY <2>4 DEF StoreMemLog
    <2>5. CASE LoadLastSeq(p) BY <2>5 DEF LoadLastSeq
    <2>6. CASE StoreLastSeq(p) BY <2>6 DEF StoreLastSeq
    <2>7. CASE CheckFull(p) BY <2>7 DEF CheckFull
    <2>8. CASE RollActivate(p) BY <2>8 DEF RollActivate
    <2>9. CASE RollRegister(p) BY <2>9 DEF RollRegister
    <2>10. CASE LoadTarget(p) BY <2>10 DEF LoadTarget
    <2>11. CASE SegmentAppend(p) BY <2>11 DEF SegmentAppend, Finish
    <2>12. CASE SegmentAppendFails(p) BY <2>12 DEF SegmentAppendFails, Finish
    <2> QED BY <1>3, <2>1, <2>2, <2>3, <2>4, <2>5, <2>6, <2>7, <2>8, <2>9,
               <2>10, <2>11, <2>12 DEF AppendLog
  <1>4. CASE Exhausted \/ UNCHANGED vars
    BY <1>4 DEF Exhausted, vars
  <1> QED BY <1>1, <1>2, <1>3, <1>4 DEF Next

-----------------------------------------------------------------------------
\* What Append does to a sequence, position by position.
LEMMA AppendFacts ==
  ASSUME NEW S, NEW s \in Seq(S), NEW e \in S
  PROVE  /\ Len(s) \in Nat
         /\ DOMAIN s = 1 .. Len(s)
         /\ DOMAIN Append(s, e) = 1 .. Len(s) + 1
         /\ \A i \in DOMAIN s : i \in DOMAIN Append(s, e) /\ Append(s, e)[i] = s[i]
         /\ \A i \in DOMAIN Append(s, e) : i \in DOMAIN s \/ i = Len(s) + 1
         /\ Append(s, e)[Len(s) + 1] = e
  OBVIOUS

\* Where a stored number is.
LEMMA StoredWhere ==
  ASSUME NEW n
  PROVE  n \in Stored <=> \E b \in Bases : \E i \in DOMAIN file[b] : n = file[b][i]
  BY DEF Stored

\* A write adds its number to the stored ones.
LEMMA StoredAppend ==
  ASSUME TypeOK, Ownership, NEW p \in Procs, SegmentAppend(p)
  PROVE  Stored' = Stored \cup {log[p]}
  <1> USE DEF TypeOK, Bases, Seqs
  <1> DEFINE b == seg[p]
  <1>1. /\ b \in Bases /\ file[b] \in Seq(Seqs)
        /\ file' = [file EXCEPT ![b] = Append(file[b], log[p])]
    BY DEF SegmentAppend
  <1>2. log[p] \in Seqs
    BY DEF SegmentAppend, Finish, Goto, Ownership
  <1>3. /\ \A c \in Bases : c # b => file'[c] = file[c]
        /\ file'[b] = Append(file[b], log[p])
    BY <1>1
  <1>4. /\ DOMAIN file'[b] = 1 .. Len(file[b]) + 1
        /\ \A i \in DOMAIN file[b] : i \in DOMAIN file'[b] /\ file'[b][i] = file[b][i]
        /\ file'[b][Len(file[b]) + 1] = log[p]
        /\ DOMAIN file[b] = 1 .. Len(file[b]) /\ Len(file[b]) \in Nat
    BY <1>1, <1>2, <1>3
  <1> HIDE DEF b, TypeOK
  <1>5. ASSUME NEW n \in Stored' PROVE n \in Stored \cup {log[p]}
    <2>1. PICK c \in Bases : \E i \in DOMAIN file'[c] : n = file'[c][i]
      BY DEF Stored
    <2>2. PICK i \in DOMAIN file'[c] : n = file'[c][i]
      BY <2>1
    <2>3. CASE c # b BY <2>2, <2>3, <1>3, StoredWhere
    <2>4. CASE c = b BY <2>2, <2>4, <1>1, <1>4, StoredWhere
    <2> QED BY <2>3, <2>4
  <1>6. ASSUME NEW n \in Stored PROVE n \in Stored'
    <2>1. PICK c \in Bases : \E i \in DOMAIN file[c] : n = file[c][i]
      BY StoredWhere
    <2>2. PICK i \in DOMAIN file[c] : n = file[c][i]
      BY <2>1
    <2>3. i \in DOMAIN file'[c] /\ n = file'[c][i]
      BY <2>2, <1>3, <1>4
    <2> QED BY <2>3 DEF Stored
  <1>7. log[p] \in Stored'
    <2>1. /\ b \in Bases
          /\ Len(file[b]) + 1 \in DOMAIN file'[b]
          /\ log[p] = file'[b][Len(file[b]) + 1]
      BY <1>1, <1>4
    <2> QED BY <2>1 DEF Stored
  <1> QED BY <1>5, <1>6, <1>7

\* What listing a segment does to the list.
LEMMA RegisterFacts ==
  ASSUME TypeOK, Ownership, Listed, NEW p \in Procs, RollRegister(p)
  PROVE  /\ DOMAIN segments' = DOMAIN segments \cup {Len(segments) + 1}
         /\ \A i \in DOMAIN segments : segments'[i] = segments[i]
         /\ segments'[Len(segments) + 1] = log[p]
         /\ outcome' = outcome /\ log' = log /\ active' = active
         /\ pc' = [pc EXCEPT ![p] = "target"] /\ pc[p] = "register"
         /\ log[p] # 0 /\ outcome[log[p]] = "pending"
         /\ \A i \in DOMAIN segments : segments[i] # log[p]
  <1>1. segments \in Seq(Bases) /\ log[p] \in Bases /\ segments' = Append(segments, log[p])
    BY DEF TypeOK, Bases, RollRegister
  <1>2. /\ outcome' = outcome /\ log' = log /\ active' = active
        /\ pc' = [pc EXCEPT ![p] = "target"] /\ pc[p] = "register"
    BY DEF RollRegister, Goto
  <1>3. log[p] # 0 /\ outcome[log[p]] = "pending"
    BY <1>2, TopicAssumption DEF Ownership, Seqs
  <1>4. \A i \in DOMAIN segments : segments[i] # log[p]
    BY <1>2, <1>3 DEF Listed
  <1>5. /\ Len(segments) \in Nat /\ DOMAIN segments = 1 .. Len(segments)
        /\ DOMAIN segments' = 1 .. Len(segments) + 1
        /\ \A i \in DOMAIN segments : segments'[i] = segments[i]
        /\ segments'[Len(segments) + 1] = log[p]
    BY <1>1, AppendFacts
  <1> QED BY <1>2, <1>3, <1>4, <1>5

\* Passed only grows: an append that passed the existence test stays passed
\* until, and after, it ends.
LEMMA PassedGrows ==
  ASSUME TypeOK, Ownership, SeqCovered, [Next]_vars
  PROVE  Passed \subseteq Passed'
  <1> USE TopicAssumption DEF TypeOK, Bases, Seqs, Goto, Finish, Procs, Ownership, SeqCovered, Passed
  <1>1. ASSUME NEW p \in Senders, NextOffset(p) PROVE Passed \subseteq Passed'
    BY <1>1 DEF NextOffset
  <1>2. ASSUME NEW p \in Appliers, NEW n \in Seqs, Apply(p, n) PROVE Passed \subseteq Passed'
    BY <1>2 DEF Apply
  <1>3. ASSUME NEW p \in Procs, AppendLog(p) PROVE Passed \subseteq Passed'
    <2>1. CASE LoadActive(p) BY <2>1 DEF LoadActive
    <2>2. CASE SkipExisting(p) BY <2>2 DEF SkipExisting, Exists
    <2>3. CASE PassCheck(p) BY <2>3 DEF PassCheck, Exists
    <2>4. CASE StoreMemLog(p) BY <2>4 DEF StoreMemLog
    <2>5. CASE LoadLastSeq(p) BY <2>5 DEF LoadLastSeq
    <2>6. CASE StoreLastSeq(p) BY <2>6 DEF StoreLastSeq
    <2>7. CASE CheckFull(p) BY <2>7 DEF CheckFull
    <2>8. CASE RollActivate(p) BY <2>8 DEF RollActivate
    <2>9. CASE RollRegister(p) BY <2>9 DEF RollRegister
    <2>10. CASE LoadTarget(p) BY <2>10 DEF LoadTarget
    <2>11. CASE SegmentAppend(p) BY <2>11 DEF SegmentAppend
    <2>12. CASE SegmentAppendFails(p) BY <2>12 DEF SegmentAppendFails
    <2> QED BY <1>3, <2>1, <2>2, <2>3, <2>4, <2>5, <2>6, <2>7, <2>8, <2>9,
               <2>10, <2>11, <2>12 DEF AppendLog
  <1>4. CASE Exhausted BY <1>4 DEF Exhausted, vars
  <1>5. CASE UNCHANGED vars BY <1>5 DEF vars
  <1> QED BY <1>1, <1>2, <1>3, <1>4, <1>5 DEF Next

\* A number is taken by a sender or reaches the applier only while it is free.
LEMMA OwnershipStep ==
  ASSUME TypeOK, Ownership, SeqCovered, [Next]_vars
  PROVE  Ownership'
  <1> USE TopicAssumption DEF TypeOK, Bases, Seqs, Goto, Finish, Procs, Ownership, SeqCovered
  <1>1. ASSUME NEW p \in Senders, NextOffset(p) PROVE Ownership'
    BY <1>1 DEF NextOffset
  <1>2. ASSUME NEW p \in Appliers, NEW n \in Seqs, Apply(p, n) PROVE Ownership'
    BY <1>2 DEF Apply
  <1>3. ASSUME NEW p \in Procs, AppendLog(p) PROVE Ownership'
    <2>1. CASE LoadActive(p) BY <2>1 DEF LoadActive
    <2>2. CASE SkipExisting(p) BY <2>2 DEF SkipExisting, Exists
    <2>3. CASE PassCheck(p) BY <2>3 DEF PassCheck, Exists
    <2>4. CASE StoreMemLog(p) BY <2>4 DEF StoreMemLog
    <2>5. CASE LoadLastSeq(p) BY <2>5 DEF LoadLastSeq
    <2>6. CASE StoreLastSeq(p) BY <2>6 DEF StoreLastSeq
    <2>7. CASE CheckFull(p) BY <2>7 DEF CheckFull
    <2>8. CASE RollActivate(p) BY <2>8 DEF RollActivate
    <2>9. CASE RollRegister(p) BY <2>9 DEF RollRegister
    <2>10. CASE LoadTarget(p) BY <2>10 DEF LoadTarget
    <2>11. CASE SegmentAppend(p) BY <2>11 DEF SegmentAppend
    <2>12. CASE SegmentAppendFails(p) BY <2>12 DEF SegmentAppendFails
    <2> QED BY <1>3, <2>1, <2>2, <2>3, <2>4, <2>5, <2>6, <2>7, <2>8, <2>9,
               <2>10, <2>11, <2>12 DEF AppendLog
  <1>4. CASE Exhausted BY <1>4 DEF Exhausted, vars
  <1>5. CASE UNCHANGED vars BY <1>5 DEF vars
  <1> QED BY <1>1, <1>2, <1>3, <1>4, <1>5 DEF Next

\* lastSeq changes under a goroutine only when it is raised.
LEMMA BumpedStep ==
  ASSUME TypeOK, Ownership, ApplierOnly, SeqCovered, Bumped, [Next]_vars
  PROVE  Bumped'
  <1> USE TopicAssumption DEF TypeOK, Bases, Seqs, Goto, Finish, Procs, Ownership, SeqCovered, Bumped
  <1>1. ASSUME NEW p \in Senders, NextOffset(p) PROVE Bumped'
    <2>1. \A q \in Procs : pc[q] # "bumpStore"
      BY <1>1 DEF NextOffset
    <2>2. \A q \in Procs : pc'[q] # "bumpStore"
      BY <1>1, <2>1 DEF NextOffset
    <2>3. \A q \in Procs : pc'[q] \in {"full", "roll", "register", "target", "write"}
                             => log'[q] = log[q] /\ pc'[q] = pc[q]
      BY <1>1 DEF NextOffset
    <2>4. lastSeq' = lastSeq + 1 /\ lastSeq \in Nat
      BY <1>1 DEF NextOffset
    <2> QED BY <2>2, <2>3, <2>4
  <1>2. ASSUME NEW p \in Appliers, NEW n \in Seqs, Apply(p, n) PROVE Bumped'
    BY <1>2 DEF Apply
  <1>3. ASSUME NEW p \in Procs, AppendLog(p) PROVE Bumped'
    <2>1. CASE LoadActive(p) BY <2>1 DEF LoadActive
    <2>2. CASE SkipExisting(p) BY <2>2 DEF SkipExisting, Exists
    <2>3. CASE PassCheck(p) BY <2>3 DEF PassCheck, Exists
    <2>4. CASE StoreMemLog(p) BY <2>4 DEF StoreMemLog
    <2>5. CASE LoadLastSeq(p) BY <2>5 DEF LoadLastSeq
    <2>6. CASE StoreLastSeq(p)
      <3>1. lastSeq < log[p] /\ outcome[log[p]] = "pending" /\ log[p] \in Seqs
        BY <2>6 DEF StoreLastSeq
      <3>2. role = "follower" /\ \A q \in Procs : pc[q] # "idle" => q = p
        BY <2>6, <3>1 DEF ApplierOnly, StoreLastSeq
      <3> QED BY <2>6, <3>2 DEF StoreLastSeq
    <2>7. CASE CheckFull(p) BY <2>7 DEF CheckFull
    <2>8. CASE RollActivate(p) BY <2>8 DEF RollActivate
    <2>9. CASE RollRegister(p) BY <2>9 DEF RollRegister
    <2>10. CASE LoadTarget(p) BY <2>10 DEF LoadTarget
    <2>11. CASE SegmentAppend(p) BY <2>11 DEF SegmentAppend
    <2>12. CASE SegmentAppendFails(p) BY <2>12 DEF SegmentAppendFails
    <2> QED BY <1>3, <2>1, <2>2, <2>3, <2>4, <2>5, <2>6, <2>7, <2>8, <2>9,
               <2>10, <2>11, <2>12 DEF AppendLog
  <1>4. CASE Exhausted BY <1>4 DEF Exhausted, vars
  <1>5. CASE UNCHANGED vars BY <1>5 DEF vars
  <1> QED BY <1>1, <1>2, <1>3, <1>4, <1>5 DEF Next

\* Listed survives a step that leaves the list alone, frees no number, and
\* brings no goroutine with a listed number back in front of the roll.
LEMMA ListedKept ==
  ASSUME TypeOK, Listed, segments' = segments,
         \A n \in Seqs : outcome[n] # "free" => outcome'[n] # "free",
         \A q \in Procs :
             \/ log'[q] = log[q] /\ pc'[q] \in {pc[q], "idle"}
             \/ outcome[log'[q]] = "free" /\ log'[q] \in Seqs
  PROVE  Listed'
  <1>1. \A i \in DOMAIN segments : segments[i] # 0 => segments[i] \in Seqs
    BY TopicAssumption DEF TypeOK, Bases, Seqs
  <1>2. \A i \in DOMAIN segments : segments[i] # 0 => outcome'[segments[i]] # "free"
    BY <1>1 DEF Listed
  <1>3. \A i \in DOMAIN segments : segments[i] # 0 =>
           \A q \in Procs : log'[q] = segments[i] => pc'[q] \in {"idle", "target", "write"}
    BY <1>1 DEF Listed
  <1> QED BY <1>2, <1>3 DEF Listed

\* The end of an append keeps Listed.
LEMMA ListedFinish ==
  ASSUME TypeOK, Ownership, Listed, NEW p \in Procs, NEW r \in Outcomes \ {"free"},
         NEW from \in PCs \ {"idle"}, Finish(p, from, r), UNCHANGED <<segments, log>>
  PROVE  Listed'
  <1>1. \A n \in Seqs : outcome[n] # "free" => outcome'[n] # "free"
    BY DEF TypeOK, Finish
  <1>2. \A q \in Procs : pc'[q] \in {pc[q], "idle"}
    BY DEF TypeOK, Finish, Goto
  <1>3. segments' = segments /\ \A q \in Procs : log'[q] = log[q]
    OBVIOUS
  <1>4. \A q \in Procs :
            \/ log'[q] = log[q] /\ pc'[q] \in {pc[q], "idle"}
            \/ outcome[log'[q]] = "free" /\ log'[q] \in Seqs
    BY <1>2, <1>3
  <1> QED BY <1>1, <1>3, <1>4, ListedKept

\* A segment is listed by the append it was created for.
LEMMA ListedStep ==
  ASSUME TypeOK, Ownership, SeqCovered, Listed, [Next]_vars
  PROVE  Listed'
  <1> USE TopicAssumption DEF TypeOK, Bases, Seqs, Goto, Finish, Procs, Ownership, SeqCovered, Listed
  <1>1. ASSUME NEW p \in Senders, NextOffset(p) PROVE Listed'
    BY <1>1 DEF NextOffset
  <1>2. ASSUME NEW p \in Appliers, NEW n \in Seqs, Apply(p, n) PROVE Listed'
    <2>1. \A m \in Seqs : outcome[m] # "free" => outcome'[m] # "free"
      BY <1>2 DEF Apply
    <2>2. \A q \in Procs :
              \/ log'[q] = log[q] /\ pc'[q] \in {pc[q], "idle"}
              \/ outcome[log'[q]] = "free" /\ log'[q] \in Seqs
      <3>1. log'[p] = n /\ outcome[n] = "free"
        BY <1>2 DEF Apply
      <3>2. \A q \in Procs : q # p => log'[q] = log[q] /\ pc'[q] = pc[q]
        BY <1>2 DEF Apply
      <3> QED BY <3>1, <3>2
    <2>3. segments' = segments BY <1>2 DEF Apply
    <2> QED BY <2>1, <2>2, <2>3, ListedKept
  <1>3. ASSUME NEW p \in Procs, AppendLog(p) PROVE Listed'
    <2>1. CASE LoadActive(p) BY <2>1 DEF LoadActive
    <2>2. CASE SkipExisting(p) BY <2>2, ListedFinish DEF SkipExisting, PCs, Outcomes
    <2>3. CASE PassCheck(p) BY <2>3 DEF PassCheck, Exists
    <2>4. CASE StoreMemLog(p) BY <2>4 DEF StoreMemLog
    <2>5. CASE LoadLastSeq(p) BY <2>5 DEF LoadLastSeq
    <2>6. CASE StoreLastSeq(p) BY <2>6 DEF StoreLastSeq
    <2>7. CASE CheckFull(p) BY <2>7 DEF CheckFull
    <2>8. CASE RollActivate(p) BY <2>8 DEF RollActivate
    <2>9. CASE RollRegister(p)
      <3>1. /\ DOMAIN segments' = DOMAIN segments \cup {Len(segments) + 1}
            /\ \A i \in DOMAIN segments : segments'[i] = segments[i]
            /\ segments'[Len(segments) + 1] = log[p]
            /\ outcome' = outcome /\ log' = log /\ active' = active
            /\ pc' = [pc EXCEPT ![p] = "target"] /\ pc[p] = "register"
        BY <2>9, RegisterFacts
      <3>2. log[p] # 0 /\ outcome[log[p]] = "pending"
        BY <2>9, RegisterFacts
      <3>3. \A q \in Procs : log'[q] = log[p] => pc'[q] \in {"idle", "target", "write"}
        BY <3>1
      <3>4. \A i \in DOMAIN segments : segments[i] # 0 =>
              \A q \in Procs : log'[q] = segments[i] => pc'[q] \in {"idle", "target", "write"}
        BY <3>1
      <3> HIDE DEF TypeOK, Ownership, SeqCovered
      <3> QED BY <3>1, <3>2, <3>3, <3>4
    <2>10. CASE LoadTarget(p) BY <2>10 DEF LoadTarget
    <2>11. CASE SegmentAppend(p) BY <2>11, ListedFinish DEF SegmentAppend, PCs, Outcomes
    <2>12. CASE SegmentAppendFails(p) BY <2>12, ListedFinish DEF SegmentAppendFails, PCs, Outcomes
    <2> QED BY <1>3, <2>1, <2>2, <2>3, <2>4, <2>5, <2>6, <2>7, <2>8, <2>9,
               <2>10, <2>11, <2>12 DEF AppendLog
  <1>4. CASE Exhausted BY <1>4 DEF Exhausted, vars
  <1>5. CASE UNCHANGED vars BY <1>5 DEF vars
  <1> QED BY <1>1, <1>2, <1>3, <1>4, <1>5 DEF Next

\* A roll lists its segment before it ends.
LEMMA ActiveStep ==
  ASSUME TypeOK, Ownership, Listed, ActiveListed, [Next]_vars
  PROVE  ActiveListed'
  <1> USE TopicAssumption DEF TypeOK, Bases, Seqs, Goto, Finish, Procs, ActiveListed
  <1>1. ASSUME NEW p \in Senders, NextOffset(p) PROVE ActiveListed'
    BY <1>1 DEF NextOffset
  <1>2. ASSUME NEW p \in Appliers, NEW n \in Seqs, Apply(p, n) PROVE ActiveListed'
    BY <1>2 DEF Apply
  <1>3. ASSUME NEW p \in Procs, AppendLog(p) PROVE ActiveListed'
    <2>1. CASE LoadActive(p) BY <2>1 DEF LoadActive
    <2>2. CASE SkipExisting(p) BY <2>2 DEF SkipExisting, Exists
    <2>3. CASE PassCheck(p) BY <2>3 DEF PassCheck, Exists
    <2>4. CASE StoreMemLog(p) BY <2>4 DEF StoreMemLog
    <2>5. CASE LoadLastSeq(p) BY <2>5 DEF LoadLastSeq
    <2>6. CASE StoreLastSeq(p) BY <2>6 DEF StoreLastSeq
    <2>7. CASE CheckFull(p) BY <2>7 DEF CheckFull
    <2>8. CASE RollActivate(p) BY <2>8 DEF RollActivate
    <2>9. CASE RollRegister(p)
      <3>1. /\ DOMAIN segments' = DOMAIN segments \cup {Len(segments) + 1}
            /\ \A i \in DOMAIN segments : segments'[i] = segments[i]
            /\ segments'[Len(segments) + 1] = log[p]
            /\ outcome' = outcome /\ log' = log /\ active' = active
            /\ pc' = [pc EXCEPT ![p] = "target"] /\ pc[p] = "register"
        BY <2>9, RegisterFacts
      <3> HIDE DEF TypeOK
      <3>2. CASE \E i \in DOMAIN segments : segments[i] = active
        BY <3>1, <3>2
      <3>3. CASE log[p] = active
        BY <3>1, <3>3
      <3>4. CASE \E q \in Procs : q # p /\ pc[q] = "register" /\ log[q] = active
        BY <3>1, <3>4 DEF TypeOK
      <3> QED BY <3>2, <3>3, <3>4
    <2>10. CASE LoadTarget(p) BY <2>10 DEF LoadTarget
    <2>11. CASE SegmentAppend(p) BY <2>11 DEF SegmentAppend
    <2>12. CASE SegmentAppendFails(p) BY <2>12 DEF SegmentAppendFails
    <2> QED BY <1>3, <2>1, <2>2, <2>3, <2>4, <2>5, <2>6, <2>7, <2>8, <2>9,
               <2>10, <2>11, <2>12 DEF AppendLog
  <1>4. CASE Exhausted BY <1>4 DEF Exhausted, vars
  <1>5. CASE UNCHANGED vars BY <1>5 DEF vars
  <1> QED BY <1>1, <1>2, <1>3, <1>4, <1>5 DEF Next

\* A segment that is being rolled to is not listed yet.
LEMMA DistinctStep ==
  ASSUME TypeOK, Ownership, Listed, SegmentsDistinct, [Next]_vars
  PROVE  SegmentsDistinct'
  <1> USE TopicAssumption DEF TypeOK, Bases, Seqs, Goto, Finish, Procs, Ownership, Listed, SegmentsDistinct
  <1>1. ASSUME NEW p \in Senders, NextOffset(p) PROVE SegmentsDistinct'
    BY <1>1 DEF NextOffset
  <1>2. ASSUME NEW p \in Appliers, NEW n \in Seqs, Apply(p, n) PROVE SegmentsDistinct'
    BY <1>2 DEF Apply
  <1>3. ASSUME NEW p \in Procs, AppendLog(p) PROVE SegmentsDistinct'
    <2>1. CASE LoadActive(p) BY <2>1 DEF LoadActive
    <2>2. CASE SkipExisting(p) BY <2>2 DEF SkipExisting, Exists
    <2>3. CASE PassCheck(p) BY <2>3 DEF PassCheck, Exists
    <2>4. CASE StoreMemLog(p) BY <2>4 DEF StoreMemLog
    <2>5. CASE LoadLastSeq(p) BY <2>5 DEF LoadLastSeq
    <2>6. CASE StoreLastSeq(p) BY <2>6 DEF StoreLastSeq
    <2>7. CASE CheckFull(p) BY <2>7 DEF CheckFull
    <2>8. CASE RollActivate(p) BY <2>8 DEF RollActivate
    <2>9. CASE RollRegister(p)
      <3>1. /\ DOMAIN segments' = DOMAIN segments \cup {Len(segments) + 1}
            /\ \A i \in DOMAIN segments : segments'[i] = segments[i]
            /\ segments'[Len(segments) + 1] = log[p]
            /\ outcome' = outcome /\ log' = log /\ active' = active
            /\ pc' = [pc EXCEPT ![p] = "target"] /\ pc[p] = "register"
        BY <2>9, RegisterFacts
      <3> HIDE DEF TypeOK, Ownership
      <3>2. \A i \in DOMAIN segments : segments[i] # log[p]
        BY <3>1, <2>9, RegisterFacts
      <3> QED BY <3>1, <3>2
    <2>10. CASE LoadTarget(p) BY <2>10 DEF LoadTarget
    <2>11. CASE SegmentAppend(p) BY <2>11 DEF SegmentAppend
    <2>12. CASE SegmentAppendFails(p) BY <2>12 DEF SegmentAppendFails
    <2> QED BY <1>3, <2>1, <2>2, <2>3, <2>4, <2>5, <2>6, <2>7, <2>8, <2>9,
               <2>10, <2>11, <2>12 DEF AppendLog
  <1>4. CASE Exhausted BY <1>4 DEF Exhausted, vars
  <1>5. CASE UNCHANGED vars BY <1>5 DEF vars
  <1> QED BY <1>1, <1>2, <1>3, <1>4, <1>5 DEF Next

\* A dropped log leaves the log that overtook it behind: lastMemLog is one that
\* passed, and it is not the dropped one, which has not passed.
LEMMA DroppedStep ==
  ASSUME TypeOK, Ownership, SeqCovered, MemPassed, DroppedOvertaken, [Next]_vars
  PROVE  DroppedOvertaken' /\ MemPassed'
  <1>1. Passed \subseteq Passed'
    BY PassedGrows
  <1>2. ASSUME outcome' = outcome \/ \E n \in Seqs, o \in Outcomes \ {"dropped"} :
                                        outcome' = [outcome EXCEPT ![n] = o]
        PROVE  DroppedOvertaken'
    <2>1. \A n \in Seqs : outcome'[n] = "dropped" => outcome[n] = "dropped"
      BY <1>2 DEF TypeOK
    <2> QED BY <2>1, <1>1 DEF DroppedOvertaken
  <1>3. ASSUME lastMemLog' = lastMemLog PROVE MemPassed'
    BY <1>3, <1>1 DEF MemPassed
  <1>4. ASSUME NEW p \in Senders, NextOffset(p) PROVE DroppedOvertaken' /\ MemPassed'
    <2>1. lastSeq + 1 \in Seqs
      BY <1>4, TopicAssumption DEF NextOffset, TypeOK, Seqs
    <2> QED BY <2>1, <1>2, <1>3, <1>4 DEF NextOffset, Outcomes
  <1>5. ASSUME NEW p \in Appliers, NEW n \in Seqs, Apply(p, n)
        PROVE  DroppedOvertaken' /\ MemPassed'
    BY <1>2, <1>3, <1>5 DEF Apply, Outcomes
  <1>6. ASSUME NEW p \in Procs, AppendLog(p) PROVE DroppedOvertaken' /\ MemPassed'
    <2>1. CASE SkipExisting(p)
      <3>1. /\ pc[p] = "check" /\ log[p] \in Seqs /\ outcome[log[p]] = "pending"
            /\ outcome' = [outcome EXCEPT ![log[p]] = "dropped"]
            /\ lastMemLog # 0 /\ lastMemLog >= log[p] /\ lastMemLog' = lastMemLog
        BY <2>1 DEF SkipExisting, Exists, Finish, Goto, Ownership
      <3>2. lastMemLog \in Passed
        BY <3>1 DEF MemPassed
      <3>3. log[p] \notin Passed
        BY <3>1 DEF Passed, Ownership
      <3>4. lastMemLog \in Passed' /\ lastMemLog > log[p]
        BY <1>1, <3>1, <3>2, <3>3, TopicAssumption DEF TypeOK, Seqs
      <3>5. \A n \in Seqs : outcome'[n] = "dropped" => n = log[p] \/ outcome[n] = "dropped"
        BY <3>1 DEF TypeOK
      <3> QED BY <1>1, <1>3, <3>1, <3>4, <3>5 DEF DroppedOvertaken
    <2>2. CASE StoreMemLog(p)
      <3>1. /\ lastMemLog' = log[p] /\ log[p] \in Seqs /\ log'[p] = log[p]
            /\ pc'[p] = "bump" /\ outcome' = outcome
        BY <2>2 DEF StoreMemLog, Goto, Ownership, TypeOK
      <3>2. lastMemLog' \in Passed'
        BY <3>1 DEF Passed
      <3> QED BY <1>2, <3>1, <3>2 DEF MemPassed
    <2>3. CASE SegmentAppend(p) \/ SegmentAppendFails(p)
      <3>1. log[p] \in Seqs
        BY <2>3 DEF SegmentAppend, SegmentAppendFails, Finish, Goto, Ownership
      <3> QED BY <1>2, <1>3, <2>3, <3>1 DEF SegmentAppend, SegmentAppendFails, Finish, Outcomes
    <2> QED BY <1>2, <1>3, <1>6, <2>1, <2>2, <2>3 DEF AppendLog, LoadActive, PassCheck,
              LoadLastSeq, StoreLastSeq, CheckFull, RollActivate, RollRegister, LoadTarget
  <1>7. CASE Exhausted \/ UNCHANGED vars
    BY <1>2, <1>3, <1>7 DEF Exhausted, vars
  <1> QED BY <1>4, <1>5, <1>6, <1>7 DEF Next

\* A write stores a number that was pending, hence stored nowhere.
LEMMA StoredStep ==
  ASSUME TypeOK, Ownership, SeqCovered, Bumped, SeqUnique, WrittenIsStored, [Next]_vars
  PROVE  SeqUnique' /\ WrittenIsStored' /\ \A n \in Stored' : n <= lastSeq'
  <1> DEFINE Goal == SeqUnique' /\ WrittenIsStored' /\ \A n \in Stored' : n <= lastSeq'
  <1>1. ASSUME NEW p \in Procs, SegmentAppend(p) PROVE Goal
    <2>1. /\ log[p] \in Seqs /\ outcome[log[p]] = "pending" /\ log[p] <= lastSeq
          /\ outcome' = [outcome EXCEPT ![log[p]] = "written"] /\ lastSeq' = lastSeq
      BY <1>1 DEF SegmentAppend, Finish, Goto, Ownership, Bumped
    <2>2. log[p] \notin Stored
      BY <2>1 DEF WrittenIsStored
    <2>3. Stored' = Stored \cup {log[p]}
      BY <1>1, StoredAppend
    <2>4. WrittenIsStored'
      BY <2>1, <2>3 DEF WrittenIsStored, TypeOK
    <2>5. \A n \in Stored' : n <= lastSeq'
      BY <2>1, <2>3 DEF SeqCovered
    <2>6. SeqUnique'
      <3> DEFINE b == seg[p]
      <3>1. /\ b \in Bases /\ file[b] \in Seq(Seqs)
            /\ file' = [file EXCEPT ![b] = Append(file[b], log[p])]
        BY <1>1 DEF SegmentAppend, TypeOK
      <3>2. /\ \A c \in Bases : c # b => file'[c] = file[c]
            /\ file'[b] = Append(file[b], log[p])
        BY <3>1 DEF TypeOK
      <3>3. /\ \A i \in DOMAIN file[b] : file'[b][i] = file[b][i]
            /\ \A i \in DOMAIN file'[b] : i \in DOMAIN file[b] \/ i = Len(file[b]) + 1
            /\ file'[b][Len(file[b]) + 1] = log[p]
        BY <2>1, <3>1, <3>2, AppendFacts
      <3>4. \A c \in Bases : \A i \in DOMAIN file[c] : file[c][i] # log[p]
        BY <2>2, StoredWhere
      <3> HIDE DEF b
      <3>5. ASSUME NEW c \in Bases, NEW d \in Bases,
                   NEW i \in DOMAIN file'[c], NEW j \in DOMAIN file'[d],
                   file'[c][i] = file'[d][j]
            PROVE  c = d /\ i = j
        <4>1. \/ i \in DOMAIN file[c] /\ file'[c][i] = file[c][i]
              \/ c = b /\ i = Len(file[b]) + 1 /\ file'[c][i] = log[p]
          BY <3>2, <3>3
        <4>2. \/ j \in DOMAIN file[d] /\ file'[d][j] = file[d][j]
              \/ d = b /\ j = Len(file[b]) + 1 /\ file'[d][j] = log[p]
          BY <3>2, <3>3
        <4> QED BY <3>4, <3>5, <4>1, <4>2 DEF SeqUnique
      <3> QED BY <3>5 DEF SeqUnique
    <2> QED BY <2>4, <2>5, <2>6
  <1>2. ASSUME file' = file, lastSeq' >= lastSeq,
               outcome' = outcome \/ \E n \in Seqs, o \in Outcomes \ {"written"} :
                            outcome[n] # "written" /\ outcome' = [outcome EXCEPT ![n] = o]
        PROVE  Goal
    <2>1. Stored' = Stored
      BY <1>2 DEF Stored
    <2>2. \A n \in Seqs : outcome'[n] = "written" <=> outcome[n] = "written"
      BY <1>2 DEF TypeOK
    <2>3. \A n \in Stored : n \in Nat
      BY TopicAssumption, StoredWhere DEF TypeOK, Seqs
    <2>4. lastSeq \in Nat /\ lastSeq' \in Nat
      BY StepType, TopicAssumption DEF TypeOK
    <2>5. \A n \in Stored' : n <= lastSeq'
      BY <1>2, <2>1, <2>3, <2>4 DEF SeqCovered
    <2> QED BY <1>2, <2>1, <2>2, <2>5 DEF SeqUnique, WrittenIsStored
  <1>3. ASSUME NEW p \in Senders, NextOffset(p) PROVE Goal
    <2>1. /\ lastSeq + 1 \in Seqs /\ outcome[lastSeq + 1] = "free"
      BY <1>3, TopicAssumption DEF NextOffset, TypeOK, Seqs, SeqCovered
    <2>2. lastSeq' >= lastSeq
      BY <1>3, TopicAssumption DEF NextOffset, TypeOK
    <2>3. /\ file' = file /\ "pending" \in Outcomes \ {"written"}
          /\ outcome' = [outcome EXCEPT ![lastSeq + 1] = "pending"]
      BY <1>3 DEF NextOffset, Outcomes
    <2> QED BY <2>1, <2>2, <2>3, <1>2
  <1>4. ASSUME NEW p \in Appliers, NEW n \in Seqs, Apply(p, n) PROVE Goal
    <2>1. lastSeq' >= lastSeq
      BY <1>4, TopicAssumption DEF Apply, TypeOK
    <2>2. /\ file' = file /\ "pending" \in Outcomes \ {"written"} /\ outcome[n] # "written"
          /\ outcome' = [outcome EXCEPT ![n] = "pending"]
      BY <1>4 DEF Apply, Outcomes
    <2> QED BY <2>1, <2>2, <1>2
  <1>5. ASSUME NEW p \in Procs, AppendLog(p) PROVE Goal
    <2>1. CASE SkipExisting(p) \/ SegmentAppendFails(p)
      <3>1. log[p] \in Seqs /\ outcome[log[p]] = "pending"
        BY <2>1 DEF SkipExisting, SegmentAppendFails, Finish, Goto, Ownership
      <3> QED BY <1>2, <2>1, <3>1, TopicAssumption
              DEF SkipExisting, SegmentAppendFails, Finish, Outcomes, TypeOK
    <2>2. CASE StoreLastSeq(p)
      <3>1. lastSeq < log[p]
        BY <2>2 DEF StoreLastSeq, Goto, Bumped
      <3> QED BY <1>2, <2>2, <3>1, TopicAssumption DEF StoreLastSeq, TypeOK
    <2>3. CASE SegmentAppend(p) BY <1>1, <2>3
    <2>4. ASSUME UNCHANGED <<file, lastSeq, outcome>> PROVE Goal
      BY <1>2, <2>4, TopicAssumption DEF TypeOK
    <2> QED BY <1>5, <2>1, <2>2, <2>3, <2>4 DEF AppendLog, LoadActive, PassCheck, StoreMemLog,
              LoadLastSeq, CheckFull, RollActivate, RollRegister, LoadTarget
  <1>6. CASE Exhausted \/ UNCHANGED vars
    BY <1>2, <1>6, TopicAssumption DEF Exhausted, vars, TypeOK
  <1> QED BY <1>1, <1>3, <1>4, <1>5, <1>6 DEF Next

\* On a node that hands numbers out, a number above lastSeq stays untouched.
LEMMA FreeStep ==
  ASSUME TypeOK, Ownership, SeqCovered, Bumped, [Next]_vars, role = "issuer"
  PROVE  \A n \in Seqs : n > lastSeq' => outcome'[n] = "free"
  <1> USE TopicAssumption DEF TypeOK, Seqs, SeqCovered
  <1>1. ASSUME NEW p \in Senders, NextOffset(p)
        PROVE  \A n \in Seqs : n > lastSeq' => outcome'[n] = "free"
    BY <1>1 DEF NextOffset
  <1>2. ASSUME lastSeq' = lastSeq, outcome' = outcome
        PROVE  \A n \in Seqs : n > lastSeq' => outcome'[n] = "free"
    BY <1>2
  <1>3. ASSUME NEW p \in Procs, AppendLog(p)
        PROVE  \A n \in Seqs : n > lastSeq' => outcome'[n] = "free"
    <2>1. pc[p] # "idle"
      BY <1>3 DEF AppendLog, LoadActive, SkipExisting, PassCheck, StoreMemLog, LoadLastSeq,
          StoreLastSeq, CheckFull, RollActivate, RollRegister, LoadTarget, SegmentAppend,
          SegmentAppendFails, Finish, Goto
    <2>2. log[p] \in Seqs /\ log[p] <= lastSeq /\ pc[p] # "bumpStore"
      BY <2>1 DEF Ownership, Bumped
    <2>3. CASE SkipExisting(p) \/ SegmentAppend(p) \/ SegmentAppendFails(p)
      BY <2>2, <2>3 DEF SkipExisting, SegmentAppend, SegmentAppendFails, Finish
    <2> QED BY <1>2, <1>3, <2>2, <2>3 DEF AppendLog, LoadActive, PassCheck, StoreMemLog,
          LoadLastSeq, StoreLastSeq, CheckFull, RollActivate, RollRegister, LoadTarget, Goto
  <1>4. CASE Exhausted \/ UNCHANGED vars
    BY <1>2, <1>4 DEF Exhausted, vars
  <1> QED BY <1>1, <1>3, <1>4 DEF Next, Apply

\* On a follower nobody but the applier leaves the idle state.
LEMMA ApplierStep ==
  ASSUME TypeOK, ApplierOnly, [Next]_vars
  PROVE  ApplierOnly'
  <1>0. role' = role BY DEF Next, vars
  <1> USE <1>0 DEF ApplierOnly, TypeOK
  <1>1. ASSUME NEW p \in Senders, NextOffset(p) PROVE ApplierOnly'
    BY <1>1 DEF NextOffset
  <1>2. ASSUME NEW p \in Appliers, NEW n \in Seqs, Apply(p, n) PROVE ApplierOnly'
    BY <1>2 DEF Apply, Goto, Procs
  <1>3. ASSUME NEW p \in Procs, AppendLog(p) PROVE ApplierOnly'
    <2>1. pc[p] # "idle" /\ \E to \in PCs : pc' = [pc EXCEPT ![p] = to]
      BY <1>3 DEF AppendLog, LoadActive, SkipExisting, PassCheck, StoreMemLog, LoadLastSeq,
          StoreLastSeq, CheckFull, RollActivate, RollRegister, LoadTarget, SegmentAppend,
          SegmentAppendFails, Finish, Goto, PCs
    <2> QED BY <2>1
  <1>4. CASE Exhausted \/ UNCHANGED vars
    BY <1>4 DEF Exhausted, vars
  <1> QED BY <1>1, <1>2, <1>3, <1>4 DEF Next

-----------------------------------------------------------------------------
\* The properties with their strengthening hold in every reachable state of a
\* topic, whatever the interleaving of the appends.
THEOREM Inductive == Spec => []IndInv
  <1>1. Init => IndInv
    <2> SUFFICES ASSUME Init PROVE IndInv
      OBVIOUS
    <2>1. TypeOK BY InitType
    <2>2. Stored = {} BY DEF Init, Stored
    <2>3. Ownership /\ ApplierOnly /\ MemPassed /\ Bumped /\ SeqUnique /\ DroppedOvertaken
      BY DEF Init, Ownership, ApplierOnly, MemPassed, Bumped, SeqUnique, DroppedOvertaken
    <2>4. WrittenIsStored /\ SeqCovered
      BY <2>2 DEF Init, WrittenIsStored, SeqCovered
    <2>5. Listed /\ ActiveListed /\ SegmentsDistinct
      BY DEF Init, Listed, ActiveListed, SegmentsDistinct
    <2> QED BY <2>1, <2>3, <2>4, <2>5 DEF IndInv
  <1>2. IndInv /\ [Next]_vars => IndInv'
    <2> SUFFICES ASSUME IndInv, [Next]_vars PROVE IndInv'
      OBVIOUS
    <2> USE DEF IndInv
    <2>1. TypeOK' BY StepType
    <2>2. Ownership' /\ ApplierOnly' BY OwnershipStep, ApplierStep
    <2>3. Bumped' BY BumpedStep
    <2>4. Listed' BY ListedStep
    <2>5. MemPassed' /\ DroppedOvertaken' BY DroppedStep
    <2>6. SeqUnique' /\ WrittenIsStored' /\ \A n \in Stored' : n <= lastSeq'
      BY StoredStep
    <2>7. SeqCovered'
      <3>1. role' = role BY DEF Next, vars
      <3> QED BY <2>6, <3>1, FreeStep DEF SeqCovered
    <2>8. ActiveListed' /\ SegmentsDistinct'
      BY ActiveStep, DistinctStep
    <2> QED BY <2>1, <2>2, <2>3, <2>4, <2>5, <2>6, <2>7, <2>8
  <1> QED BY <1>1, <1>2, PTL DEF Spec

\* However many senders append at once, no two records of a topic carry the
\* same sequence number.
THEOREM TopicSeqUnique == Spec => []SeqUnique
  BY Inductive, PTL DEF IndInv

\* A caller is told that its record is written exactly when the record is in a
\* segment's file.
THEOREM TopicWrittenIsStored == Spec => []WrittenIsStored
  BY Inductive, PTL DEF IndInv

\* AppendLog skips a log only when a log with a larger number overtook it.
THEOREM TopicDroppedOvertaken == Spec => []DroppedOvertaken
  BY Inductive, PTL DEF IndInv

\* lastSeq covers every stored record, and on the node that hands numbers out
\* every number in flight.
THEOREM TopicSeqCovered == Spec => []SeqCovered
  BY Inductive, PTL DEF IndInv

\* lastSeq never goes back: the unsynchronised load and store in AppendLog do
\* not undo a number that was handed out.
THEOREM TopicLastSeqMonotonic == Spec => LastSeqMonotonic
  <1>1. IndInv /\ [Next]_vars => [lastSeq' >= lastSeq]_vars
    <2> SUFFICES ASSUME IndInv, Next PROVE lastSeq' >= lastSeq
      BY DEF vars
    <2>1. lastSeq \in Nat
      BY TopicAssumption DEF IndInv, TypeOK
    <2>2. ASSUME NEW p \in Procs, StoreLastSeq(p) PROVE lastSeq' >= lastSeq
      BY <2>2, TopicAssumption DEF IndInv, TypeOK, Bumped, StoreLastSeq, Goto
    <2> QED BY <2>1, <2>2 DEF Next, NextOffset, Apply, AppendLog, LoadActive, SkipExisting,
          PassCheck, StoreMemLog, LoadLastSeq, CheckFull, RollActivate, RollRegister,
          LoadTarget, SegmentAppend, SegmentAppendFails, Exhausted, vars
  <1> QED BY <1>1, Inductive, PTL DEF Spec, LastSeqMonotonic
=============================================================================
