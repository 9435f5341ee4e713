---------------------------- MODULE TopicAppend ----------------------------
(***************************************************************************)
(* One Topic of the file store (internal/db/topic.go, topic_public.go):    *)
(* the append-only log of a channel or of a user's queue, while several    *)
(* goroutines use it at once.                                              *)
(*                                                                         *)
(* A SENDER is a goroutine that handles one send packet: it takes a        *)
(* sequence number with NextOffset and then stores its message under that  *)
(* number with AppendLog.  An APPLIER is the goroutine that applies the    *)
(* commands a cluster has agreed on: it calls AppendLog with numbers that  *)
(* another node handed out, in the order in which they were agreed on,     *)
(* which need not be the order of the numbers.  role says which of the two *)
(* the topic sees: that of a single node, or that of a cluster's follower. *)
(*                                                                         *)
(* AppendLog takes no lock.  It is split here at every shared access: the  *)
(* two loads and the store of the atomic values, the load and the store of *)
(* lastSeq, the roll to a new segment in two steps, the load of the active *)
(* segment and the write, which the segment's own mutex makes atomic.      *)
(*                                                                         *)
(* Payloads are left out: a record is its sequence number and takes one    *)
(* unit of its segment.                                                    *)
(***************************************************************************)
EXTENDS Naturals, Sequences

CONSTANTS Senders,     \* goroutines that take a number and append
          Appliers,    \* the goroutine that applies agreed commands
          MaxSeq,      \* bound: the numbers handed out are 1..MaxSeq
          SegmentMax   \* records that fill a segment (segmentMaxBytes)

Procs == Senders \cup Appliers

\* A node applies commands one at a time.
ASSUME TopicAssumption ==
    /\ MaxSeq \in Nat \ {0}
    /\ SegmentMax \in Nat \ {0}
    /\ \A a, b \in Appliers : a = b

Seqs  == 1 .. MaxSeq   \* Message.MessageSeq, the log's offset
Bases == 0 .. MaxSeq   \* base offsets, which name the segments

VARIABLES
    role,        \* "issuer" or "follower": who hands the numbers out
    lastSeq,     \* Topic.lastSeq
    lastMemLog,  \* offset of Topic.lastMemLog, 0 while it is nil
    active,      \* Topic.activeSegment
    segments,    \* Topic.segments
    file,        \* the records in the log file of each segment
    pc,          \* where each goroutine is in NextOffset and AppendLog
    log,         \* offset of the log it appends
    seg,         \* the segment it loaded last
    outcome      \* what became of each number (history)

vars == <<role, lastSeq, lastMemLog, active, segments, file, pc, log, seg, outcome>>

PCs == {"idle", "issued", "check", "mem", "bump", "bumpStore", "full",
        "roll", "register", "target", "write"}

Outcomes == {"free", "pending", "written", "dropped", "failed"}

TypeOK ==
    /\ role \in {"issuer", "follower"}
    /\ lastSeq \in 0 .. MaxSeq
    /\ lastMemLog \in 0 .. MaxSeq
    /\ active \in Bases
    /\ segments \in Seq(Bases)
    /\ file \in [Bases -> Seq(Seqs)]
    /\ pc \in [Procs -> PCs]
    /\ log \in [Procs -> 0 .. MaxSeq]
    /\ seg \in [Procs -> Bases]
    /\ outcome \in [Seqs -> Outcomes]

\* NewTopic on an empty directory: one empty segment with base offset 0.
Init ==
    /\ role \in {"issuer", "follower"}
    /\ lastSeq = 0
    /\ lastMemLog = 0
    /\ active = 0
    /\ segments = <<0>>
    /\ file = [b \in Bases |-> <<>>]
    /\ pc = [p \in Procs |-> "idle"]
    /\ log = [p \in Procs |-> 0]
    /\ seg = [p \in Procs |-> 0]
    /\ outcome = [n \in Seqs |-> "free"]

-----------------------------------------------------------------------------
Goto(p, from, to) == pc[p] = from /\ pc' = [pc EXCEPT ![p] = to]

\* The append of p is over, and its caller is told so.
Finish(p, from, result) ==
    /\ Goto(p, from, "idle")
    /\ outcome' = [outcome EXCEPT ![log[p]] = result]

Full(b) == Len(file[b]) >= SegmentMax

\* Mutant: the counter is read and the number used, but not stored back.
NextOffsetUnstored(p) ==
    /\ role = "issuer" /\ lastSeq < MaxSeq
    /\ Goto(p, "idle", "issued")
    /\ log' = [log EXCEPT ![p] = lastSeq + 1]
    /\ outcome' = [outcome EXCEPT ![lastSeq + 1] = "pending"]
    /\ UNCHANGED <<lastSeq, lastMemLog, active, segments, file, seg>>

NextOffset(p) ==
    /\ role = "issuer" /\ lastSeq < MaxSeq
    /\ Goto(p, "idle", "issued")
    /\ lastSeq' = lastSeq + 1
    /\ log' = [log EXCEPT ![p] = lastSeq + 1]
    /\ outcome' = [outcome EXCEPT ![lastSeq + 1] = "pending"]
    /\ UNCHANGED <<lastMemLog, active, segments, file, seg>>

\* A command agreed on by the cluster reaches the applier.
Apply(p, n) ==
    /\ role = "follower" /\ outcome[n] = "free"
    /\ Goto(p, "idle", "issued")
    /\ log' = [log EXCEPT ![p] = n]
    /\ outcome' = [outcome EXCEPT ![n] = "pending"]
    /\ UNCHANGED <<lastSeq, lastMemLog, active, segments, file, seg>>

LoadActive(p) ==
    /\ Goto(p, "issued", "check")
    /\ seg' = [seg EXCEPT ![p] = active]
    /\ UNCHANGED <<lastSeq, lastMemLog, active, segments, file, log, outcome>>

\* Mutant: the next number counts as stored already.
ExistsOffByOne(p) == lastMemLog # 0 /\ lastMemLog + 1 >= log[p]

Exists(p) == lastMemLog # 0 /\ lastMemLog >= log[p]

\* The log counts as stored already: AppendLog returns without an error.
SkipExisting(p) ==
    /\ Exists(p)
    /\ Finish(p, "check", "dropped")
    /\ UNCHANGED <<lastSeq, lastMemLog, active, segments, file, log, seg>>

PassCheck(p) ==
    /\ ~Exists(p)
    /\ Goto(p, "check", "mem")
    /\ UNCHANGED <<lastSeq, lastMemLog, active, segments, file, log, seg, outcome>>

StoreMemLog(p) ==
    /\ Goto(p, "mem", "bump")
    /\ lastMemLog' = log[p]
    /\ UNCHANGED <<lastSeq, active, segments, file, log, seg, outcome>>

\* Mutant: lastSeq is stored without the comparison.
LoadLastSeqUnguarded(p) ==
    /\ Goto(p, "bump", "bumpStore")
    /\ UNCHANGED <<lastSeq, lastMemLog, active, segments, file, log, seg, outcome>>

LoadLastSeq(p) ==
    /\ Goto(p, "bump", IF lastSeq < log[p] THEN "bumpStore" ELSE "full")
    /\ UNCHANGED <<lastSeq, lastMemLog, active, segments, file, log, seg, outcome>>

StoreLastSeq(p) ==
    /\ Goto(p, "bumpStore", "full")
    /\ lastSeq' = log[p]
    /\ UNCHANGED <<lastMemLog, active, segments, file, log, seg, outcome>>

\* The segment tested is the one loaded on entry.
CheckFull(p) ==
    /\ Goto(p, "full", IF Full(seg[p]) THEN "roll" ELSE "target")
    /\ UNCHANGED <<lastSeq, lastMemLog, active, segments, file, log, seg, outcome>>

\* roll: the new segment becomes active before it is listed in segments.
RollActivate(p) ==
    /\ Goto(p, "roll", "register")
    /\ active' = log[p]
    /\ UNCHANGED <<lastSeq, lastMemLog, segments, file, log, seg, outcome>>

RollRegister(p) ==
    /\ Goto(p, "register", "target")
    /\ segments' = Append(segments, log[p])
    /\ UNCHANGED <<lastSeq, lastMemLog, active, file, log, seg, outcome>>

LoadTarget(p) ==
    /\ Goto(p, "target", "write")
    /\ seg' = [seg EXCEPT ![p] = active]
    /\ UNCHANGED <<lastSeq, lastMemLog, active, segments, file, log, outcome>>

SegmentAppend(p) ==
    /\ Finish(p, "write", "written")
    /\ file' = [file EXCEPT ![seg[p]] = Append(@, log[p])]
    /\ UNCHANGED <<lastSeq, lastMemLog, active, segments, log, seg>>

\* Mutant: the error is swallowed.
SegmentAppendFailsSilently(p) ==
    /\ Finish(p, "write", "written")
    /\ UNCHANGED <<lastSeq, lastMemLog, active, segments, file, log, seg>>

\* The record is larger than LogMaxSize, or the file system refuses it.
SegmentAppendFails(p) ==
    /\ Finish(p, "write", "failed")
    /\ UNCHANGED <<lastSeq, lastMemLog, active, segments, file, log, seg>>

\* Topic.AppendLog
AppendLog(p) ==
    \/ LoadActive(p) \/ SkipExisting(p) \/ PassCheck(p) \/ StoreMemLog(p)
    \/ LoadLastSeq(p) \/ StoreLastSeq(p) \/ CheckFull(p)
    \/ RollActivate(p) \/ RollRegister(p) \/ LoadTarget(p)
    \/ SegmentAppend(p) \/ SegmentAppendFails(p)

\* Every number has been used: the bound stops the model here, not the code.
Exhausted ==
    /\ \A p \in Procs : pc[p] = "idle"
    /\ \A n \in Seqs : outcome[n] # "free"
    /\ UNCHANGED vars

Next ==
    /\ UNCHANGED role
    /\ \/ \E p \in Senders : NextOffset(p)
       \/ \E p \in Appliers, n \in Seqs : Apply(p, n)
       \/ \E p \in Procs : AppendLog(p)
       \/ Exhausted

Spec == Init /\ [][Next]_vars

-----------------------------------------------------------------------------
\* The numbers of the records that are in some segment's file.
Stored == UNION { { file[b][i] : i \in DOMAIN file[b] } : b \in Bases }

\* Numbers whose append went past the test for an existing log.
Passed ==
    { n \in Seqs : \/ outcome[n] \in {"written", "failed"}
                   \/ \E p \in Procs : log[p] = n /\ pc[p] \notin {"idle", "issued", "check"} }

\* A sequence number names one record: no two records, in the same segment or
\* in different ones, carry the same number, however appends interleave.
SeqUnique ==
    \A b, c \in Bases : \A i \in DOMAIN file[b], j \in DOMAIN file[c] :
        file[b][i] = file[c][j] => b = c /\ i = j

\* What the caller was told of a stored record and what the files hold agree:
\* a number is in a file exactly when its append reported the write.
WrittenIsStored == \A n \in Seqs : outcome[n] = "written" <=> n \in Stored

\* A dropped message was overtaken: an append with a larger number went past
\* the existence test before it.  Appends that keep their order lose nothing.
DroppedOvertaken ==
    \A n \in Seqs : outcome[n] = "dropped" => \E m \in Passed : m > n

\* The counter is never behind the log: lastSeq covers every number stored and
\* every number in flight on the node that hands them out, so the next sender
\* never gets a number that is taken.
SeqCovered ==
    /\ \A n \in Stored : n <= lastSeq
    /\ role = "issuer" => \A n \in Seqs : n > lastSeq => outcome[n] = "free"

\* The active segment can be found: it is listed in segments, or the goroutine
\* that rolled to it has yet to list it (the window in which a reader that
\* looks the newest records up does not see their segment).
ActiveListed ==
    \/ \E i \in DOMAIN segments : segments[i] = active
    \/ \E p \in Procs : pc[p] = "register" /\ log[p] = active

\* No segment is listed twice, so a reader walking the list with
\* nextBaseOffset meets each segment once.
SegmentsDistinct ==
    \A i, j \in DOMAIN segments : segments[i] = segments[j] => i = j

\* The counter only moves forward, StoreLastSeq included.
LastSeqMonotonic == [][lastSeq' >= lastSeq]_vars

-----------------------------------------------------------------------------
(* The inductive invariant: what the properties above rest on. *)

\* A number in flight belongs to the one goroutine that appends it.
Ownership ==
    /\ \A p \in Procs : pc[p] # "idle" => log[p] \in Seqs /\ outcome[log[p]] = "pending"
    /\ \A p, q \in Procs : pc[p] # "idle" /\ pc[q] # "idle" /\ log[p] = log[q] => p = q

\* On a follower only the applier appends.
ApplierOnly == role = "follower" => \A p \in Procs : pc[p] # "idle" => p \in Appliers

\* lastMemLog is a log that went past the existence test.
MemPassed == lastMemLog # 0 => lastMemLog \in Passed

\* A goroutine past the bump has its number covered by lastSeq; one about to
\* store lastSeq still has to raise it.
Bumped ==
    \A p \in Procs :
        /\ pc[p] \in {"full", "roll", "register", "target", "write"} => log[p] <= lastSeq
        /\ pc[p] = "bumpStore" => lastSeq < log[p]

\* A listed base offset is 0, in front, or the number of an append that has
\* come past the roll.
Listed ==
    /\ \A i \in DOMAIN segments : segments[i] = 0 => i = 1
    /\ \A i \in DOMAIN segments : segments[i] # 0 =>
          /\ outcome[segments[i]] # "free"
          /\ \A p \in Procs : log[p] = segments[i] => pc[p] \in {"idle", "target", "write"}

\* The properties with the facts that make them hold step by step.
IndInv ==
    /\ TypeOK
    /\ Ownership /\ ApplierOnly /\ MemPassed /\ Bumped /\ Listed
    /\ SeqUnique /\ WrittenIsStored /\ DroppedOvertaken
    /\ SeqCovered /\ ActiveListed /\ SegmentsDistinct
=============================================================================
