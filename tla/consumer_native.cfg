CONSTANTS
    m1 = m1  m2 = m2  k1 = k1  k2 = k2  w1 = w1  w2 = w2
    Workers = {w1, w2}
    Keys = {k1}
    KeyOf <- OneKey
    Backlog <- TwoMessages
    Verdicts = {"Ack", "Nack", "NoHandler"}
    Ordered = FALSE
    Idempotent = TRUE
    DurableStore = FALSE
    HasRetryPublisher = FALSE
    HasDeadLetterPublisher = TRUE
    NativeRetry = TRUE
    MaxRetries = 1
    EnableDlq = TRUE
    MaxDeliver = 3
    MaxFaults = 2
SYMMETRY WorkerSymmetry
SPECIFICATION Spec
INVARIANTS NothingLost RetryBudget
