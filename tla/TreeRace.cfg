\* Two overlapping transactions of every kind but delegation revocation.
SPECIFICATION Spec
CONSTANTS
    None = None
    s1 = s1
    s2 = s2
    s3 = s3
    s4 = s4
    s5 = s5
    Session = {s1, s2, s3, s4, s5}
    Parent <- MCParent
    UserSession = {s3, s5}
    Txn = {t1, t2}
    Kinds = {"start", "terminate", "suspend", "resume"}
SYMMETRY Symmetry
INVARIANTS
    NoLiveOrphan
    ChildCountExact
    LastReferentRevokes
PROPERTIES
    EndedStaysEnded
CHECK_DEADLOCK FALSE
