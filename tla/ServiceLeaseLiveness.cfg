\* One process is fenced by another under fair scheduling.
SPECIFICATION LeaseFairSpec
CONSTANTS
    None = None
    Process = {p1, p2}
    Lease = 1
    MaxGeneration = 2
    MaxLosses = 0
    MaxClock = 2
PROPERTIES
    HolderResigns
CHECK_DEADLOCK FALSE
