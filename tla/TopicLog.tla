------------------------------ MODULE TopicLog ------------------------------
(***************************************************************************)
(* A Topic over its files: segments, sparse index, reads, eviction from    *)
(* the cache of open topics, crash and reopening (internal/db/topic.go,    *)
(* topic_public.go, segment.go, index.go, slot.go).                        *)
(*                                                                         *)
(* NextOffset and AppendLog are one step each here (TopicAppend has their  *)
(* interleaving).  A record is its offset and takes one unit of the file,  *)
(* so a position is the number of records in front of it; Junk is what a   *)
(* crash leaves of a record.  A Segment object keeps its own idea of the   *)
(* file: the position it has written up to, or else the size at opening.   *)
(***************************************************************************)
EXTENDS Integers, Sequences, SequencesExt

CONSTANTS Senders,        \* callers that take a number and append
          MaxSeq,         \* bound: numbers up to MaxSeq are handed out
          SegmentMax,     \* records that fill a segment (segmentMaxBytes)
          IndexInterval,  \* records between index entries (indexIntervalBytes)
          IndexMax,       \* entries that fill an index (maxEntryNum)
          WarmEntries,    \* entries searched first (warmEntries)
          MaxOpens        \* bound: times the topic is opened

ASSUME TopicLogAssumption ==
    /\ MaxSeq \in Nat /\ SegmentMax \in Nat \ {0} /\ IndexInterval \in Nat
    /\ IndexMax \in Nat \ {0} /\ WarmEntries \in Nat /\ MaxOpens \in Nat \ {0}

Junk   == 0
Closed == [position |-> -1, total |-> -1, entries |-> -1]
Bases  == 0 .. MaxSeq

VARIABLES
    state,       \* "up", "down", or "panicked" while opening
    opens,       \* times the topic was opened
    lastSeq,     \* Topic.lastSeq
    lastMemLog,  \* offset of Topic.lastMemLog, 0 for nil
    segments,    \* Topic.segments
    active,      \* base offset of Topic.activeSegment
    writer,      \* the active Segment object
    since,       \* its bytesSinceLastIndexEntry
    cache,       \* Topic.segmentCache: Segment objects by base offset
    shared,      \* the active object is the one in the cache
    file,        \* the log files
    index,       \* the index files: sequences of [off, pos]
    pend,        \* the number each sender has taken and not appended, or 0
    written      \* records written completely to segment 0 (history)

vars == <<state, opens, lastSeq, lastMemLog, segments, active, writer, since,
          cache, shared, file, index, pend, written>>

TypeOK ==
    /\ state \in {"up", "down", "panicked"} /\ opens \in 0 .. MaxOpens
    /\ lastSeq \in 0 .. MaxSeq /\ lastMemLog \in 0 .. MaxSeq
    /\ segments \in Seq(Bases) /\ active \in Bases
    /\ writer.position \in Nat /\ since \in Nat /\ shared \in BOOLEAN
    /\ \A b \in Bases : /\ file[b] \in Seq(0 .. MaxSeq)
                        /\ index[b] \in Seq([off : Bases, pos : Nat])
                        /\ cache[b] = Closed \/ cache[b].total \in Nat
    /\ pend \in [Senders -> 0 .. MaxSeq] /\ written \in Seq(1 .. MaxSeq)

Init ==
    /\ state = "down" /\ opens = 0
    /\ lastSeq = 0 /\ lastMemLog = 0
    /\ segments = <<>> /\ active = 0
    /\ writer = [position |-> 0, total |-> 0, entries |-> 0]
    /\ since = 0 /\ shared = FALSE
    /\ cache = [b \in Bases |-> Closed]
    /\ file = [b \in Bases |-> <<>>]
    /\ index = [b \in Bases |-> <<>>]
    /\ pend = [s \in Senders |-> 0]
    /\ written = <<>>

-----------------------------------------------------------------------------
(* Opening. *)

\* NewSegment and NewIndex: the size of the file, the entries of the index,
\* and no position.
NewSegment(b) == [position |-> 0, total |-> Len(file[b]), entries |-> Len(index[b])]

\* check: the complete records in front of the first damaged one.
Sound(f) ==
    LET bad == { i \in DOMAIN f : f[i] = Junk }
    IN  IF bad = {} THEN f ELSE SubSeq(f, 1, (CHOOSE i \in bad : \A j \in bad : i <= j) - 1)

\* lastMsgStartPosition of check: where the last record, sound or not, starts.
LastStart(f) == IF f = <<>> THEN 0 ELSE Len(Sound(f)) - (IF Sound(f) = f THEN 1 ELSE 0)

\* Mutant: the last complete record goes with the damaged one.
TruncateTooMuch(f) ==
    IF Sound(f) = f THEN f ELSE SubSeq(f, 1, Len(Sound(f)) - 1)

Truncate(f) == Sound(f)

\* Mutant: the number of the record in front of the last one.
LastOffsetOffByOne(f, b) == IF LastStart(f) = 0 THEN b ELSE f[LastStart(f)]

\* The number of the last record; a segment whose last record starts at
\* position 0 counts as empty.
LastOffset(f, b) == IF LastStart(f) = 0 THEN b ELSE f[LastStart(f) + 1]

\* The last record of segment 0 is damaged and is not its only one.
Damaged == Truncate(file[0]) # file[0] /\ LastStart(file[0]) # 0

\* Mutant: the opening fails on the damaged record before it is cut off.
ReopenUncut ==
    /\ state # "up" /\ opens < MaxOpens
    /\ opens' = opens + 1
    /\ file' = IF Damaged THEN file ELSE [file EXCEPT ![0] = Truncate(@)]
    /\ state' = IF Damaged THEN "panicked" ELSE "up"
    /\ lastSeq' = IF Damaged THEN lastSeq ELSE LastOffset(file[0], 0)
    /\ segments' = <<0>> /\ active' = 0 /\ since' = 0
    /\ writer' = [NewSegment(0) EXCEPT !.position = Len(Truncate(file[0]))]
    /\ cache' = [b \in Bases |-> IF b = 0 THEN writer' ELSE Closed]
    /\ shared' = TRUE /\ lastMemLog' = 0
    /\ UNCHANGED <<index, pend, written>>

\* NewTopic and initSegments, at the start of the process or after eviction.
\* The log files are looked for in the topic's directory, while segments keep
\* them in its subdirectory logs: none is found, and the topic starts from
\* segment 0.  The last record is read where the check saw it start: it is
\* gone when it was damaged, and the opening panics.
Reopen ==
    /\ state # "up" /\ opens < MaxOpens
    /\ opens' = opens + 1
    /\ file' = [file EXCEPT ![0] = Truncate(@)]
    /\ IF Damaged
       THEN /\ state' = "panicked"
            /\ UNCHANGED <<lastSeq, segments, active, writer, cache, shared, since>>
       ELSE /\ state' = "up"
            /\ lastSeq' = LastOffset(file[0], 0)
            /\ segments' = <<0>> /\ active' = 0 /\ since' = 0
            /\ writer' = [NewSegment(0) EXCEPT !.position = Len(Truncate(file[0]))]
            /\ cache' = [b \in Bases |-> IF b = 0 THEN writer' ELSE Closed]
            /\ shared' = TRUE
    /\ lastMemLog' = 0
    /\ UNCHANGED <<index, pend, written>>

\* The topic is evicted from the slot's cache, or the server stops.
Close ==
    /\ state = "up" /\ opens < MaxOpens
    /\ state' = "down"
    /\ UNCHANGED <<opens, lastSeq, lastMemLog, segments, active, writer, since, cache, shared, file, index, pend, written>>

-----------------------------------------------------------------------------
(* Appending. *)

NextOffset(s) ==
    /\ state = "up" /\ pend[s] = 0 /\ lastSeq < MaxSeq
    /\ lastSeq' = lastSeq + 1
    /\ pend' = [pend EXCEPT ![s] = lastSeq + 1]
    /\ UNCHANGED <<state, opens, lastMemLog, segments, active, writer, since, cache, shared, file, index, written>>

\* A log no newer than the last one in memory counts as stored.
SkipExisting(s) ==
    /\ state = "up" /\ pend[s] # 0 /\ lastMemLog >= pend[s]
    /\ pend' = [pend EXCEPT ![s] = 0]
    /\ UNCHANGED <<state, opens, lastSeq, lastMemLog, segments, active, writer, since, cache, shared, file, index, written>>

Full == writer.entries >= IndexMax \/ writer.position >= SegmentMax

\* Segment.AppendLog on the object w of segment b: the record goes to the end
\* of the file, and now and then an entry for it to the index, with the
\* position behind it.
WriteTo(b, w, sn, n) ==
    LET indexed == sn > IndexInterval
        entry   == indexed /\ w.entries < IndexMax
    IN  /\ file' = [file EXCEPT ![b] = Append(@, n)]
        /\ index' = IF entry THEN [index EXCEPT ![b] = Append(@, [off |-> n, pos |-> w.position + 1])]
                    ELSE index
        /\ since' = (IF indexed THEN 0 ELSE sn) + 1
        /\ writer' = [position |-> w.position + 1, total |-> w.total,
                      entries |-> IF entry THEN w.entries + 1 ELSE w.entries]

\* Topic.AppendLog, with the roll to a new segment when the active one is full.
\* A record that is too large fails after the roll.
AppendLog(s, tooLarge) ==
    LET n == pend[s]
        b == IF Full THEN n ELSE active
        w == IF Full THEN NewSegment(n) ELSE writer
    IN  /\ state = "up" /\ n # 0 /\ lastMemLog < n
        /\ lastMemLog' = n
        /\ lastSeq' = IF lastSeq < n THEN n ELSE lastSeq
        /\ active' = b
        /\ segments' = IF Full THEN Append(segments, n) ELSE segments
        /\ shared' = (shared /\ ~Full)
        /\ IF tooLarge THEN /\ writer' = w
                            /\ since' = IF Full THEN 0 ELSE since
                            /\ UNCHANGED <<file, index>>
           ELSE WriteTo(b, w, IF Full THEN 0 ELSE since, n)
        /\ cache' = IF shared' THEN [cache EXCEPT ![active] = writer'] ELSE cache
        /\ pend' = [pend EXCEPT ![s] = 0]
        /\ written' = IF tooLarge \/ b # 0 THEN written ELSE Append(written, n)
        /\ UNCHANGED <<state, opens>>

\* The process dies, and its callers with it; a write that was under way leaves
\* a part of its record, in a new segment if the active one was full.
Crash(torn) ==
    /\ state = "up" /\ opens < MaxOpens
    /\ state' = "down"
    /\ \/ torn = 0 /\ UNCHANGED file
       \/ /\ \E s \in Senders : pend[s] = torn /\ lastMemLog < torn
          /\ file' = [file EXCEPT ![IF Full THEN torn ELSE active] = Append(@, Junk)]
    /\ pend' = [s \in Senders |-> 0]
    /\ UNCHANGED <<opens, lastSeq, lastMemLog, segments, active, writer, since, cache, shared, index, written>>

-----------------------------------------------------------------------------
(* Reading. *)

\* indexSlotRangeFor: the search for target between two entries of the index x.
Searcher(x, begin, end, target) ==
    LET search[r \in (begin .. end) \X (begin .. end)] ==
            LET mid == (r[1] + r[2] + 1) \div 2
                off == x[mid + 1].off
            IN  IF r[1] >= r[2] THEN r[1]
                ELSE IF off > target THEN search[<<r[1], mid - 1>>]
                ELSE IF off < target THEN search[<<mid, r[2]>>]
                ELSE mid
    IN  search

Search(b, begin, end, target) == Searcher(index[b], begin, end, target)[<<begin, end>>]

\* Mutant: the older entries are searched up to the one before the first warm one.
LookupMissesWarm(b, n, target) ==
    LET at(i) == index[b][i + 1].off
        warm == IF n - 1 > WarmEntries THEN n - 1 - WarmEntries ELSE 0
    IN  IF n = 0 THEN [off |-> b, pos |-> 0]
        ELSE IF at(warm) < target THEN index[b][Search(b, warm, n - 1, target) + 1]
        ELSE IF at(0) > target THEN [off |-> b, pos |-> 0]
        ELSE index[b][Search(b, 0, IF warm = 0 THEN 0 ELSE warm - 1, target) + 1]

\* Lookup on the index of segment b with n entries: the newest WarmEntries + 1
\* entries are searched first.
Lookup(b, n, target) ==
    LET at(i) == index[b][i + 1].off
        warm == IF n - 1 > WarmEntries THEN n - 1 - WarmEntries ELSE 0
    IN  IF n = 0 THEN [off |-> b, pos |-> 0]
        ELSE IF at(warm) < target THEN index[b][Search(b, warm, n - 1, target) + 1]
        ELSE IF at(0) > target THEN [off |-> b, pos |-> 0]
        ELSE index[b][Search(b, 0, warm, target) + 1]

\* getOrNewSegment: the cached object, else a new one.
Reader(b) == IF cache[b] # Closed THEN cache[b] ELSE NewSegment(b)

\* getFileSize
Size(o) == IF o.position = 0 THEN o.total ELSE o.position

\* Positions that readTargetPosition finds for off from position p on.
Hits(b, p, off) == { q \in p .. Size(Reader(b)) - 1 : file[b][q + 1] = off }

First(S) == CHOOSE x \in S : \A y \in S : x <= y

\* readLogsAtPosition without the limit.
From(b, p) == SubSeq(file[b], p + 1, Size(Reader(b)))

\* Segment.ReadLogs
SegmentRead(b, off) ==
    LET e == Lookup(b, Reader(b).entries, off)
    IN  IF e.off = off THEN From(b, e.pos)
        ELSE IF Hits(b, e.pos, off) = {} THEN <<>> ELSE From(b, First(Hits(b, e.pos, off)))

\* Mutant: always the last segment.
BaseIndexLast(off) == { i \in DOMAIN segments : i = Len(segments) }

\* Topic.baseOffset: the segments that may hold off, the first one counts.
BaseIndex(off) ==
    { i \in DOMAIN segments : off >= segments[i] /\ (i < Len(segments) => off <= segments[i + 1]) }

\* Topic.ReadLogs: off in its segment, then the segments behind it.
ReadLogs(off, limit) ==
    IF BaseIndex(off) = {} THEN <<>>
    ELSE LET i == First(BaseIndex(off))
             rest == [j \in 1 .. Len(segments) - i |-> From(segments[i + j], 0)]
             all == SegmentRead(segments[i], off) \o FlattenSeq(rest)
         IN  SubSeq(all, 1, IF limit < Len(all) THEN limit ELSE Len(all))

\* Mutant: the first of the latest records is left out.
ReadLastLogsShort(limit) ==
    IF lastSeq < limit THEN ReadLogs(0, lastSeq + 1) ELSE ReadLogs(lastSeq - limit + 2, limit)

\* Topic.ReadLastLogs
ReadLastLogs(limit) ==
    IF lastSeq < limit THEN ReadLogs(0, lastSeq + 1) ELSE ReadLogs(lastSeq - limit + 1, limit)

\* Segment.ReadAt through Topic.ReadLogAt: the record found, if any.
ReadLogAt(off) ==
    IF BaseIndex(off) = {} THEN {}
    ELSE LET b == segments[First(BaseIndex(off))]
         IN  { file[b][q + 1] : q \in Hits(b, Lookup(b, Reader(b).entries, off).pos, off) }

\* A read opens the segments it touches and leaves them in the cache.
Read(off) ==
    /\ state = "up" /\ BaseIndex(off) # {}
    /\ cache' = [b \in Bases |-> IF \E j \in DOMAIN segments : j >= First(BaseIndex(off)) /\ segments[j] = b
                                 THEN Reader(b) ELSE cache[b]]
    /\ UNCHANGED <<state, opens, lastSeq, lastMemLog, segments, active, writer, since, shared, file, index, pend, written>>

\* Every number was used and the topic was opened often enough.
Exhausted ==
    /\ state = "up" => lastSeq = MaxSeq /\ pend = [s \in Senders |-> 0]
    /\ opens = MaxOpens
    /\ UNCHANGED vars

Next ==
    \/ Reopen \/ Close \/ (\E torn \in 0 .. MaxSeq : Crash(torn))
    \/ \E s \in Senders : NextOffset(s) \/ SkipExisting(s) \/ \E tooLarge \in BOOLEAN : AppendLog(s, tooLarge)
    \/ \E off \in 0 .. MaxSeq : Read(off)
    \/ Exhausted

Spec == Init /\ [][Next]_vars

-----------------------------------------------------------------------------
Up == state = "up"

Stored == (UNION { { file[b][i] : i \in DOMAIN file[b] } : b \in Bases }) \ {Junk}

\* What a reader depends on: every file with records belongs to a listed
\* segment, none is damaged, numbers ascend within the files and lie between the
\* base offset of their segment and that of the next, lastSeq covers them, and no
\* Segment object in the cache has a stale size.
Listed    == \A b \in Bases : file[b] # <<>> => \E i \in DOMAIN segments : segments[i] = b
Clean     == \A b \in Bases : Sound(file[b]) = file[b]
Ascending == \A b \in Bases : \A i, j \in DOMAIN file[b] : i < j => file[b][i] < file[b][j]
InPlace   == \A k \in DOMAIN segments : \A i \in DOMAIN file[segments[k]] :
                 LET n == file[segments[k]][i]
                 IN  segments[k] <= n /\ (k < Len(segments) => n < segments[k + 1])
Covered   == \A n \in Stored : n <= lastSeq
UpToDate  == \A b \in Bases : Size(Reader(b)) = Len(file[b])
Healthy   == Up /\ Listed /\ Clean /\ Ascending /\ InPlace /\ Covered /\ UpToDate
Indexed(off) == \E b \in Bases : \E i \in DOMAIN index[b] : index[b][i].off = off

\* The index against its file, which no crash or reopening disturbs: an entry
\* names a record and points behind none that follows it, and the entries are in
\* the order of their records.  (A segment that is entered again after the topic
\* was reopened counts its positions from 0: they may be too small, and need not
\* ascend.)
InOrder(f, x) ==
    \A i \in DOMAIN x :
       /\ \E k \in DOMAIN f : f[k] = x[i].off /\ x[i].pos <= k
       /\ \A j \in 1 .. i - 1 : \E k, l \in DOMAIN f : k < l /\ f[k] = x[j].off /\ f[l] = x[i].off

IndexOrdered == \A b \in Bases : InOrder(file[b], index[b])

\* Lookup finds the largest entry that does not exceed the target, whichever
\* part of the index it searches, and the start of the file when there is none,
\* as long as the numbers of the file ascend.
LookupExact ==
    /\ TypeOK /\ IndexOrdered
    /\ Clean /\ Ascending =>
          \A b \in Bases : \A n \in 0 .. Len(index[b]), target \in b .. MaxSeq :
              LET below == { i \in 1 .. n : index[b][i].off <= target }
              IN  Lookup(b, n, target) = IF below = {} THEN [off |-> b, pos |-> 0]
                                         ELSE index[b][CHOOSE i \in below : \A j \in below : j <= i]

\* Reading from a stored number returns the records from it on, in the order of
\* their numbers, across segments, provided that the number has no index entry.
ReadFaithful ==
    Healthy =>
        \A off \in Stored, limit \in 1 .. MaxSeq :
            ~Indexed(off) =>
                LET r == ReadLogs(off, limit)
                    due == { n \in Stored : n >= off }
                IN  /\ \A i \in DOMAIN r : r[i] \in due /\ \A j \in 1 .. i - 1 : r[j] < r[i]
                    /\ \A n \in due : \/ \E i \in DOMAIN r : r[i] = n
                                      \/ (Len(r) = limit /\ r[limit] < n)

\* The latest records come back complete when the number to start from is
\* stored (or the whole log is wanted), and a record is found by its number
\* unless the number is indexed or names a rolled segment, whose first record
\* is looked for in the segment before.
LastFaithful ==
    Healthy =>
        /\ \A limit \in 1 .. MaxSeq :
              LET from == lastSeq - limit + 1
              IN  (lastSeq < limit \/ (from \in Stored /\ ~Indexed(from))) =>
                      \A n \in Stored : n >= from => \E i \in DOMAIN ReadLastLogs(limit) : ReadLastLogs(limit)[i] = n
        /\ \A off \in Stored :
              ~Indexed(off) /\ (\A i \in 2 .. Len(segments) : segments[i] # off) => ReadLogAt(off) = {off}

\* A topic that has not rolled hands out no number that is stored, after any
\* number of crashes and reopenings, unless it holds exactly one record: as
\* long as the records of its file ascend, lastSeq covers them.
ReopenCovers ==
    LET f == file[0]
    IN  (/\ Up /\ Len(f) # 1
         /\ \A b \in Bases \ {0} : file[b] = <<>>
         /\ \A i \in 2 .. Len(f) : f[i - 1] < f[i]) => \A n \in Stored : n <= lastSeq

\* Recovery from a crash is exact: a crash leaves at most a part of one record
\* behind those that were written completely to the segment that is opened, and
\* an opening, also one that panics, leaves these and nothing else.
RecoversExactly ==
    \/ file[0] = written
    \/ state = "down" /\ file[0] = Append(written, Junk)

\* A crash in a write costs a topic one failed opening at most: the opening that
\* panics at the damaged record (topic.go:108) has cut it off, so that the next
\* one succeeds.
OpensAgain == [][state = "panicked" /\ opens' # opens => state' = "up"]_vars
=============================================================================
