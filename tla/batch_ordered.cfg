CONSTANTS
    m1 = m1  m2 = m2  k1 = k1  k2 = k2  w1 = w1  w2 = w2
    Workers = {w1, w2}
    Backlog <- TwoMessages
    KeyOf <- TwoKeys
    Keys = {k1, k2}
    Results = {"Ack", "Timeout"}
    BatchHandler = FALSE
    Unhandled = {m2}
    Ordered = TRUE
    Idempotent = TRUE
    HasRetryPublisher = FALSE
    HasDeadLetterPublisher = FALSE
    NativeRetry = TRUE
    MaxRetries = 1
    EnableDlq = TRUE
    MaxDeliver = 2
    BatchSize = 2
    MaxFaults = 2
SPECIFICATION FairBatchSpec
INVARIANT KeyExclusive
PROPERTY EveryItemResolved
