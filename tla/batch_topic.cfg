CONSTANTS
    m1 = m1  m2 = m2  k1 = k1  k2 = k2  w1 = w1  w2 = w2
    Workers = {w1, w2}
    Backlog <- TwoMessages
    KeyOf <- OneKey
    Keys = {k1}
    Results = {"Ack", "Nack", "Timeout"}
    BatchHandler = TRUE
    Unhandled = {}
    Ordered = FALSE
    Idempotent = TRUE
    HasRetryPublisher = TRUE
    HasDeadLetterPublisher = TRUE
    NativeRetry = FALSE
    MaxRetries = 1
    EnableDlq = TRUE
    MaxDeliver = 2
    BatchSize = 2
    MaxFaults = 1
SYMMETRY WorkerSymmetry
SPECIFICATION BatchSpec
PROPERTY BatchKeepsPromise
