\* Two processes that take the lease from each other, with calls that are
\* given up and served late.
SPECIFICATION LeaseSpec
CONSTANTS
    None = None
    Process = {p1, p2}
    Lease = 1
    MaxGeneration = 2
    MaxLosses = 1
    MaxClock = 2
SYMMETRY Symmetry
INVARIANTS
    SuccessorSurvives
    LostMeansLost
CHECK_DEADLOCK FALSE
