\* Two invocations of two attempts.
SPECIFICATION FairSpec
CONSTANTS
    MaxMade = 2
    MaxTime = 4
    MaxAttempts = 2
    Timeout = 1
    BatchSize = 1
INVARIANTS
    OneOutcomePerAttempt
    EventsTellStatus
PROPERTIES
    NoEventSwallowed
    OverdueEnds
    IsJob
CHECK_DEADLOCK FALSE
