SPECIFICATION Spec
CONSTANTS
    Senders = {s1, s2, s3}
    Appliers = {a1}
    MaxSeq = 4
    SegmentMax = 1
INVARIANTS IndInv SeqUnique WrittenIsStored DroppedOvertaken
SYMMETRY Symm
