SPECIFICATION Spec
CONSTANTS
    m1 = m1
    m2 = m2
    Data = {m1, m2}
    NoData = NoData
    Senders = {m1, m2}
    Scans = {x1}
    n1 = n1
    n2 = n2
    Nodes = {n1, n2}
    Self = n1
    IsCluster = TRUE
    MaxCount = 1
    MaxFaults = 2
    Sends <- MCSends
    LocalUsers = {u1}
    RemoteUsers = {u2}
    Forwarded = {m1}
    u1 = u1
    u2 = u2
    Channel = Channel
    Remotes = {r1, r2}
INVARIANTS AckedStored AckedReaches PushedIsQueued
PROPERTIES Settles
