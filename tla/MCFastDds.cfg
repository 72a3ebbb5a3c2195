SPECIFICATION Spec
CONSTANTS
    Waiters = {}
    Arrivals = {1, 2}
    NoArrival = 0
    Schemas = {s1}
    Null = Null
    s1 = s1
    bad = bad
    Garbled = bad
    NoBound = 0
    Threads = {t1, t2}
    NoThread = NoThread
    Bounds = {4, 8}
    OwnBound = 4
    Announcements <- MCAnnouncements
    MaxSub = 2
    MaxWatch = 1
    MaxFail = 1
INVARIANTS
    ListenerOutlivesReader
    ChannelIsHeld
    SubscribedIsServed
    DeclaredBoundStands
    PendingIsFed
SYMMETRY Symmetry
CHECK_DEADLOCK FALSE
