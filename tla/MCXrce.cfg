\* One client, a remote writer, one request that the Agent fails.
CONSTANTS
    Waiters = {}
    Arrivals = {1, 2}
    Schemas = {s1, s2}
    Null = Null
    NoArrival = 0
    Bounds = {4, 8}
    ConfigBound = 4
    MaxRow = 2
    MaxAnnounce = 2
    MaxFail = 1
    MaxDeclare = 2
SPECIFICATION Spec
SYMMETRY Symmetry
INVARIANTS
    DeliveredInOrder
    DeliveredAsReported
    PublisherIsBacked
CHECK_DEADLOCK FALSE
