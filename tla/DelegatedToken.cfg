\* A chain one edge longer than a revocation follows, one handler, and a store
\* that lags behind.
SPECIFICATION TokenSpec
CONSTANTS
    NoParent = NoParent
    s1 = s1
    s2 = s2
    s3 = s3
    s4 = s4
    e1 = e1
    e2 = e2
    e3 = e3
    r = r
    Session = {s1, s2, s3, s4}
    Edge = {e1, e2, e3}
    Source <- MCSource
    Target <- MCTarget
    Parent <- MCParent
    Record <- MCRecord
    Exempt = {s2, s3, s4}
    Mint = {m1}
    WalkDepth = 2
    MaxEpoch = 3
    MaxTokens = 2
INVARIANTS
    CutOnceTold
PROPERTIES
    RefusalsLast
CHECK_DEADLOCK FALSE
