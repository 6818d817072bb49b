SPECIFICATION Spec
CONSTANTS
    Users = {u1}
    Net = net
    None = none
    MaxCalls = 1
    MaxFrames = 1
INVARIANTS HandlersOnce
CHECK_DEADLOCK FALSE
