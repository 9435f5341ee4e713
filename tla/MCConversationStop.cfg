SPECIFICATION FairSpec
CONSTANTS
    Chans = {1}
    Dotted = {1}
    MaxSeq = 1
    MaxMsgs = 2
    Unreads = {0}
    Objs = {1, 2, 3, 4, 5}
    CacheMax = 1
    SyncOnce = 2
    MaxApi = 0
    MaxFails = 0
    Stops = TRUE
PROPERTIES StopReturns
