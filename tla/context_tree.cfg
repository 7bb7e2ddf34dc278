CONSTANTS
    None = None
    MaxContexts = 3
    MaxTime = 2
SPECIFICATION FairSpec
INVARIANTS DeadlineNarrows CancelReachesChildren
PROPERTY CancelStopsRuns
