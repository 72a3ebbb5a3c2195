\* A byte has two bits, a length word two bytes.  The generator's run and a
\* deployment end, so a behaviour may stop.
CONSTANTS
    Publishers = {P, Q}
    Callers = {t1, t2, t3}
    Topics = {A}
    Schemas = {s1, s2, u}
    Opaque = {u}
    Profiles = {x}
    Bounds = {8}
    NoProfile = NoProfile
    NoTopic = NoTopic
    NoPublisher = NoPublisher
    NoSchema = NoSchema
    ByteBits = 2
    Limit = 5
    MaxBatch = 3
    Tables <- MCTables
    WordBytes = 2
    Chunk = 3
    FixedCapacity = 4
    MaxWindow = 5
    Scratch = FALSE
    MaxJoinedTopicBytes = 4
    PayloadBound = 16
    PoolPayload = 22
    Keys <- MCKeys
    Values <- MCValues
    Rows <- MCRowBytes
    TopicNames <- MCNames
    MaxSets = 3
    Word32 = 1000
    MaxBound = 2000000000
    Names <- MCRegistered
    Asks <- MCAsks
    CommandLines <- MCCommandLines
    Files <- MCFiles
    ProfileNames = {"", "lossless", "fire_and_forget", "latest", "store_latest", "store_history", "nope"}
    DeployTopics = {"t1", "latest"}
    MaxProviders = 2
    MaxCuts = 1
    Invocations <- MCInvocations
SPECIFICATION LibrarySpec
INVARIANTS
    RegistryBacked
    RowsSurviveTheWire
    BatchHoldsWholeRows
    
    MessageArrivesWhole
    RunsAsConfigured
    
    ColumnsLineUp
    
    KeptRowIsTheSample
    
    MetadataIsNearest
CHECK_DEADLOCK FALSE
