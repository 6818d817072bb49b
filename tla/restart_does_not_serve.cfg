SPECIFICATION Spec
CONSTANTS
    App = app
    MaxThreads = 2
    MaxClients = 1
    ListenOutcomes <- AlwaysListens
    CallbackCalls <- NoCalls
INVARIANTS ServesUntilStopped
CHECK_DEADLOCK FALSE
