SPECIFICATION Spec
CONSTANTS
    Msgs = {m1, m2}
    Clients = {c1}
    Workers = {w1, w2}
    Copies = {1, 2, 3, 4}
    MaxDeliveries = 2
    Timeout = 1
    MaxTime = 1
INVARIANTS RemoveOwn Tracked NotForgotten AckFinal
CONSTRAINT OneRepeated
VIEW View
SYMMETRY Symmetry
CHECK_DEADLOCK FALSE
