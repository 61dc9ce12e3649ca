SPECIFICATION Spec
CONSTANTS
    c1 = c1
    c2 = c2
    pod = pod
    job = job
    m1 = m1
    m2 = m2
    m3 = m3
    e1 = e1
    e2 = e2
    None = None
    Run = {1, 2}
    Cluster <- SmallCluster
    Entity <- SmallEntity
    Key <- SmallKey
    ClusterOf <- SmallClusterOf
    EntityOf <- SmallEntityOf
    Similar <- SmallSimilar
    Event <- SmallEvent
    Inspected <- SmallInspected
    Contexts <- SmallContexts
    Persisting <- SmallPersisting
    DedupDuration = 1
    MaxTime = 2
    HasFilePath = TRUE
    Faults = {"sink", "crash"}
    Endless = {"sink", "crash"}
    MaxFaults = 0
INVARIANTS
    RecordedWasDelivered
    SuccessMeansTold
