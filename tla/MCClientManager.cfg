SPECIFICATION Spec
CONSTANTS
    NumConns = 4
    NumDevices = 3
    MaxHandlers = 2
    Arrays = {1, 2, 3, 4, 5}
INVARIANTS ListExact OneConnPerDevice StatusRight ClosedIsGone ReadComplete
CONSTRAINT NoOverlap
VIEW Referenced
