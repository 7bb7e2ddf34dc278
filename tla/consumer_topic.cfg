CONSTANTS
    m1 = m1  m2 = m2  k1 = k1  k2 = k2  w1 = w1  w2 = w2
    Workers = {w1, w2}
    Keys = {k1}
    KeyOf <- OneKey
    Backlog <- StoredTwice
    Verdicts = {"Ack", "Handler", "DeadLetter"}
    Ordered = TRUE
    Idempotent = TRUE
    DurableStore = TRUE
    HasRetryPublisher = TRUE
    HasDeadLetterPublisher = TRUE
    NativeRetry = FALSE
    MaxRetries = 1
    EnableDlq = TRUE
    MaxDeliver = 2
    MaxFaults = 1
SPECIFICATION FairSpec
INVARIANT AcceptedOnce
PROPERTIES KeepsPromise EveryMessageResolved ShutdownCompletes
