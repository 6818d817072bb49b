SPECIFICATION FairSpec
CONSTANTS
    Runners = {"r1", "r2"}
    Apps = {"a1", "a2"}
    Handlers = {"h1", "h2", "h3", "h4"}
    Programs <- AllPrograms
INVARIANTS TypeOK ReadyQueueOwned
PROPERTIES LoopSpec RunnableRuns RunReturns
CHECK_DEADLOCK FALSE
