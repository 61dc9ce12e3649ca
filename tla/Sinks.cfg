SPECIFICATION FairSinkSpec
CONSTANTS
    c1 = c1
    pod = pod
    m1 = m1
    hook = hook
    shared = shared
    console = console
    proxy = proxy
    mute = mute
    None = None
    Default = Default
    Run = {1}
    Cluster <- MCCluster
    Entity <- MCEntity
    Key <- MCKey
    ClusterOf <- MCClusterOf
    EntityOf <- MCEntityOf
    Similar = {}
    Event = {}
    Inspected <- MCInspected
    Contexts <- MCContexts
    Persisting <- MCPersisting
    DedupDuration = 1
    MaxTime = 3
    HasFilePath = TRUE
    Faults = {"sink", "unacked", "crash"}
    Endless = {"sink", "unacked", "crash"}
    MaxFaults = 0
    Sink <- MCSink
    Order <- MCOrder
    Web <- MCWeb
    OwnGetter <- MCOwnGetter
    Unreliable <- MCUnreliable
    Silent <- MCSilent
INVARIANTS
    SinkTypeOK
    RecordedWasHeardByAll
    SuccessMeansAllToldTo
PROPERTIES
    DependableIsToldAgain
