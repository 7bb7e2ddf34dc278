CONSTANTS
    g1 = g1
    g2 = g2
    Generators = {g1, g2}
    Machine <- Neighbours
    Machines = 2
    SequenceSize = 2
    EpochMs = 1
    MaxTime = 1
    TimeSize = 4
    None = None
SPECIFICATION Spec
INVARIANTS Unique Increasing
