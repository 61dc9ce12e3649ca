SPECIFICATION FairSpec
CONSTANTS
    c1 = c1
    c2 = c2
    pod = pod
    job = job
    m1 = m1
    m2 = m2
    m3 = m3
    e1 = e1
    e2 = e2
    None = None
    Run = {1}
    Cluster <- PairCluster
    Entity <- PairEntity
    Key <- PairKey
    ClusterOf <- PairClusterOf
    EntityOf <- PairEntityOf
    Similar <- PairSimilar
    Event <- PairEvent
    Inspected <- PairInspected
    Contexts <- PairContexts
    Persisting <- PairPersisting
    DedupDuration = 1
    MaxTime = 3
    HasFilePath = TRUE
    Faults = {"api", "sink", "unacked", "torn", "crash"}
    Endless = {}
    MaxFaults = 2
PROPERTIES
    StandingIsToldAgain
