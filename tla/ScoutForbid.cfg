SPECIFICATION Spec
CONSTANTS
    c1 = c1
    c2 = c2
    pod = pod
    job = job
    m1 = m1
    m2 = m2
    m3 = m3
    e1 = e1
    e2 = e2
    None = None
    Run = {1}
    Cluster <- MCCluster
    Entity <- MCEntity
    Key <- MCKey
    ClusterOf <- MCClusterOf
    EntityOf <- MCEntityOf
    Similar <- MCSimilar
    Event <- MCEvent
    Inspected <- MCInspected
    Contexts <- MCContexts
    Persisting <- MCPersisting
    DedupDuration = 1
    MaxTime = 4
    HasFilePath = TRUE
    Faults = {"config", "client", "api", "sink"}
    Endless = {"config", "client", "api", "sink"}
    MaxFaults = 0
INVARIANTS
    TypeOK
    FlushIsPruned
    MapOrderIsIrrelevant
PROPERTIES
    NoRepeatInGrace
