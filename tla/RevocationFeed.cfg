\* A session and an authority record, one publisher, three stream entries and
\* a fault of any kind; the poller and a reload on request.
SPECIFICATION FairSpec
CONSTANTS
    None = None
    Anchor = {s, r}
    Owned = {s}
    Session = {s}
    Reloader = {poller, request}
    Poller = poller
    Publisher = {p1}
    MaxAttempts = 1
    MaxFailures = 1
    MaxStream = 3
    MaxFaults = 1
PROPERTIES
    NoRevocationLost
    GatewayKeepsRefusing
    GatewayLearns
CHECK_DEADLOCK FALSE
