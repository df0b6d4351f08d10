SPECIFICATION Spec
CONSTANTS
    Threads = {t1, t2}
    Loop = Loop
    Conns = {c1, c2, c3}
    NoOne = NoOne
    MaxConn = 2
    MaxKeys = 2
    MaxEvents = 3
INVARIANTS TypeOK Exclusive NoLeak LimitKept FailuresExplained
CHECK_DEADLOCK FALSE
SYMMETRY Symmetry
