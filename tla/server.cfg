SPECIFICATION FairSpec
CONSTANTS
    App = app
    MaxThreads = 3
    MaxClients = 2
    ListenOutcomes <- MayListen
    CallbackCalls <- OnlyStop
INVARIANTS TypeOK NoThreadLeft NoDanglingMessage ServesWhileListening
PROPERTIES StopReturns
CHECK_DEADLOCK FALSE
