\* The tree and the delegation graph of task sessions.
SPECIFICATION Spec
CONSTANTS
    None = None
    user = user
    derived = derived
    ResourceScopes <- MCResourceScopes
    RecordParent <- MCRecordParent
    RecordExpires <- MCRecordExpires
    Scope = {}
    Resource = {}
    Session = {s1, s2, s3}
    Edge = {e1, e2, e3}
    Record = {user}
    UserRecord = {user}
    Application = {app}
    Dcr = {}
    Grants <- MCGrants
    Lifecycles = {"task"}
    TTLs = {3}
    Lease = 1
    MAX_DEPTH = 2
    MAX_CHILDREN = 2
    MaxSessionsPerZone = 3
    MaxSessionsPerApp = 3
    SessionRetention = 0
    DelegationRetention = 0
    SweepBatch = 1
    MaxTime = 1
SYMMETRY Symmetry
INVARIANTS
    TypeOK
    NoLiveOrphan
    ChildCountExact
    LastReferentRevokes
    EdgeEndpointsLive
    NoShortCycle
PROPERTIES
    BrokenLineageStaysBroken
    EpochTracksGraph
    EndedStaysEnded
    NoCollateralRevocation
CHECK_DEADLOCK FALSE
