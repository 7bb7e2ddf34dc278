CONSTANTS
    own = own
    steady = steady
    HeartbeatRegisters = FALSE
    Leased = TRUE
    MaxUpdates = 1
    MaxFaults = 2
    Ids = {own, steady}
    Own = own
    Capacity = 2
    MaxAskFaults = 1
SPECIFICATION DiscoverySpec
INVARIANTS UpdateSticks ServesKnown
   
