SPECIFICATION Spec
CONSTANTS
    Users = {u1}
    Admins = {a1, a2}
    Senders = {s1}
    MaxReqs = 2
    Reached = {"subs", "deny"}
    CreateIfNotExist = FALSE
INVARIANTS CacheCoherent RevocationHolds
CONSTRAINT NoCause
SYMMETRY Symmetry
