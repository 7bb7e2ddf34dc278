SPECIFICATION Spec
CONSTANTS
    MaxDeliver = 6
    MaxRetries = 2
    EnableDlq = TRUE
    Setups <- MostSetups
    ProducerRetries = 1
    Capacity = 3
    Subscribers = {"s1", "s2"}
    MaxFaults = 2
INVARIANTS
    BatchIsPrefix
    GapsAreTold
    
    EventsKept
PROPERTIES
    EventSettles
CHECK_DEADLOCK FALSE
