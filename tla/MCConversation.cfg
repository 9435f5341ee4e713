SPECIFICATION FairSpec
CONSTANTS
    Chans = {1, 2}
    Dotted = {1}
    MaxSeq = 2
    MaxMsgs = 2
    Unreads = {0}
    Objs = {1, 2, 3, 4, 5}
    CacheMax = 1
    SyncOnce = 2
    MaxApi = 1
    MaxFails = 1
    Stops = TRUE
INVARIANTS LastCovers SaveCovers
PROPERTIES SavedEventually QueueDrains
