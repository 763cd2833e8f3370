SPECIFICATION Spec
CONSTANTS
    v1 = v1
    v2 = v2
    Version = {v1, v2}
    NoPolicy = NoPolicy
    MaxReloads = 1
    Request = {q, w}
    Run = {w}
    Gate <- MCGate
    Mint = {m1, m2}
    MaxHolds = 2
    MaxReleases = 2
    Ttl = 1
    Window = 1
    Retention = 0
    MaxTime = 2
INVARIANTS
    OneReleasePerHold
    GatedNeedsDecision
PROPERTIES
    RejectionStands
SYMMETRY Symmetry
CHECK_DEADLOCK FALSE
