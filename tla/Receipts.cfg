\* Two connections that overlap, two idempotency keys, a quota of two receipts,
\* and a rotation of the HMAC keys with the removal of the old one.
SPECIFICATION Spec
CONSTANTS
    None = None
    Server = {s1, s2}
    Key = {a, b}
    Body = {x, y}
    Rotation <- MCRotation
    Retention = 1
    MaxReceipts = 2
    MaxMade = 3
    MaxTime = 2
SYMMETRY Symmetry
INVARIANTS
    OneResourcePerKey
CHECK_DEADLOCK FALSE
