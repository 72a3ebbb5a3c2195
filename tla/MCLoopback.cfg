\* Three threads over one topic, on a loopback of either mode; nothing
\* compares the schema u.
CONSTANTS
    Threads = {t1, t2, t3}
    Topics = {A}
    Schemas = {s1, u}
    Opaque = {u}
    MaxSub = 2
    MaxPublish = 2
    MaxCall = 6
    MaxDelivery = 2
    Null = Null
    NoTopic = NoTopic
    NoThread = NoThread
    NoOwner = NoOwner
SPECIFICATION LoopbackSpec
INVARIANTS
    DeliveredAsReported
    QuietAfterCancel
    OneShapePerTopic
    GrantsAreServed
PROPERTIES
    DestroyedReleases
    EveryCallReturns
CHECK_DEADLOCK FALSE
