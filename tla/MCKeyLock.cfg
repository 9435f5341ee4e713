SPECIFICATION FairSpec
CONSTANTS
    Procs = {p1, p2, p3}
    Keys = {k1}
    Objs = {o1, o2, o3, o4}
    None = None
INVARIANTS IndInv MutualExclusion
PROPERTIES ImplementsKeyedMutex LockReturns
