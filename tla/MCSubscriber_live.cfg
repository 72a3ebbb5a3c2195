\* Progress over a provider that dispatches under its instance mutex.
CONSTANTS
    Threads = {t1, t2}
    Topics = {A}
    Options = {o1}
    MaxId = 2
    ProviderKind = "mutex"
    Pumping = TRUE
    PeerThreads = {t1, t2}
    NoTopic = NoTopic
    NoThread = NoThread
    NoOptions = NoOptions
SPECIFICATION FairSpec
INVARIANT WaitersHoldNothing
PROPERTIES
    CallsReturn
