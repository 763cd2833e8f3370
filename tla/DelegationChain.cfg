\* Narrowing along chains: two scopes, two resources, chains of three edges.
CONSTANTS
    s1 = s1
    s2 = s2
    r1 = r1
    r2 = r2
    None = None
    Scope = {s1, s2}
    Resource = {r1, r2}
    MAX_DEPTH = 3
    MaxLength = 3
    Application = {app}
    Grants <- MCGrants
    ResourceScopes <- MCResourceScopes
SPECIFICATION Spec
INVARIANTS ChainNarrows MintedDepthBounded
CHECK_DEADLOCK FALSE
