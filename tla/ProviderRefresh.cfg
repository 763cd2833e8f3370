\* Two processes, two consents, a refresh token that is rotated once.
SPECIFICATION FairSpec
CONSTANTS
    None = None
    Handler = {h1, h2}
    CallAttempts = 1
    WriteAttempts = 2
    MaxRows = 2
    MaxConsents = 2
    MaxTurns = 1
    MaxVersion = 1
INVARIANTS
    OneRefresher
    RotatedTokenKept
PROPERTIES
    ReconnectStands
    LeaseIsFreed
CHECK_DEADLOCK FALSE
