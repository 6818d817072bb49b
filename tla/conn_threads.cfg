SPECIFICATION FairSpec
CONSTANTS
    Users = {u1}
    Net = net
    None = none
    MaxCalls = 2
    MaxFrames = 1
INVARIANTS TypeOK FramesInOrder NothingAfterTerminal WriterAwake PromisesAlone
PROPERTIES BuffersStable SessionSpec HandshakeEnds ClosingEnds FramesLeave
CHECK_DEADLOCK FALSE
