SPECIFICATION Spec
CONSTANTS
    c1 = c1
    c2 = c2
    c3 = c3
    t1 = t1
    t2 = t2
    Conns = {c1, c2}
    Ids = {1, 2}
    IdOf <- HardcodedId
    Callers = {t1}
    Net = net
    None = none
    MaxCalls = 1
INVARIANTS StopClosesAll
CHECK_DEADLOCK FALSE
