\* Overlapping deliveries, also from inside the provider: handlers cancel themselves and each other.
CONSTANTS
    Threads = {t1, t2, t3}
    Topics = {A}
    Options = {}
    MaxId = 2
    ProviderKind = "overlap"
    Pumping = TRUE
    PeerThreads = {t1, t2, t3}
    NoTopic = NoTopic
    NoThread = NoThread
    NoOptions = NoOptions
SPECIFICATION Spec
SYMMETRY ThreadSymmetry
INVARIANTS
    ProviderAgreement
    LiveIsServed
    IdStates
    FreedNotRunning
    DestroyedMeansSilent
PROPERTY ImplementsCancellation
