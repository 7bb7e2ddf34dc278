CONSTANTS
    db = db  cache = cache  job = job  missing = missing
    Tasks = {db, cache, job}
    Setups <- SixSetups
    ReadyCheck = TRUE
    FailureThreshold = 2
    GracefulShutdown = TRUE
SPECIFICATION FairSpec
INVARIANTS RegisteredWhileServing NoTaskOutlivesRun
PROPERTIES ShutdownCompletes FailureStopsService
