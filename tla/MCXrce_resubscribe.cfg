\* Subscribe, Unsubscribe, Subscribe on one client, no failures.
CONSTANTS
    Waiters = {}
    Arrivals = {1, 2}
    Schemas = {s1, s2}
    Null = Null
    NoArrival = 0
    Bounds = {4, 8}
    ConfigBound = 4
    MaxRow = 2
    MaxAnnounce = 2
    MaxFail = 0
    MaxDeclare = 2
SPECIFICATION Spec
SYMMETRY Symmetry
INVARIANT SubscribedHasReader
CHECK_DEADLOCK FALSE
