SPECIFICATION Spec
CONSTANTS
    c1 = c1
    c2 = c2
    c3 = c3
    t1 = t1
    t2 = t2
    Conns = {c1, c2}
    Ids = {1, 2}
    IdOf <- OneIdEach
    Callers = {t1, t2}
    Net = net
    None = none
    MaxCalls = 1
SYMMETRY JustCallers
INVARIANTS OwnClient Inverse OpenReachable
PROPERTIES RegistrySpec SessionsSpec
CHECK_DEADLOCK FALSE
