CONSTANTS
    m1 = m1  m2 = m2  w1 = w1
    Workers = {w1}
    Backlog <- TwoMessages
    Verdicts = {"Ack", "Nack"}
    Idempotent = TRUE
    HasRetryPublisher = TRUE
    HasDeadLetterPublisher = TRUE
    MaxRetries = 1
    EnableDlq = TRUE
    MaxFaults = 2
SPECIFICATION FairSpec
CHECK_DEADLOCK FALSE
INVARIANT LossNeedsError
PROPERTIES PromiseUnlessAbandoned EveryMessageResolved
