SPECIFICATION Spec
CONSTANTS
    Senders = {s1, s2}
    MaxSeq = 7
    SegmentMax = 9
    IndexInterval = 1
    IndexMax = 2
    WarmEntries = 0
    MaxOpens = 3
INVARIANTS LookupExact ReadFaithful LastFaithful ReopenCovers RecoversExactly
PROPERTIES OpensAgain
