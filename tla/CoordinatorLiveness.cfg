\* What time and the sweepers bring about, for tasks and services and a
\* delegation between them.
SPECIFICATION FairSpec
CONSTANTS
    None = None
    user = user
    derived = derived
    ResourceScopes <- MCResourceScopes
    RecordParent <- MCRecordParent
    RecordExpires <- MCRecordExpires
    Scope = {}
    Resource = {}
    Session = {s1, s2}
    Edge = {e1}
    Record = {user, derived}
    UserRecord = {user, derived}
    Application = {app}
    Dcr = {}
    Grants <- MCGrants
    Lifecycles = {"task", "service"}
    TTLs = {1}
    Lease = 1
    MAX_DEPTH = 2
    MAX_CHILDREN = 2
    MaxSessionsPerZone = 3
    MaxSessionsPerApp = 3
    SessionRetention = 0
    DelegationRetention = 0
    SweepBatch = 1
    MaxTime = 2
PROPERTIES
    ExpiredTaskEnds
    LapsedLeaseParks
CHECK_DEADLOCK FALSE
