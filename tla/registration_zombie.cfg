CONSTANTS
    HeartbeatRegisters = TRUE
    Leased = FALSE
    MaxUpdates = 1
    MaxFaults = 0
SPECIFICATION Spec
INVARIANT UnregisteredForGood
