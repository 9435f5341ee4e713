SPECIFICATION Spec
CONSTANTS
    Callers = {c1}
    MaxSeq = 1
    MaxConns = 2
    AutoReconn = TRUE
PROPERTIES GivesUpReconnects
