SPECIFICATION Spec
CONSTANTS
    c1 = c1
    ns1 = ns1
    ns2 = ns2
    ns3 = ns3
    pod = pod
    node = node
    job = job
    p1 = p1
    p2 = p2
    pe = pe
    n1 = n1
    ne = ne
    je = je
    None = None
    Cluster <- MCCluster
    Entity <- MCEntity
    Key <- MCKey
    ClusterOf <- MCClusterOf
    EntityOf <- MCEntityOf
    Similar <- MCSimilar
    Event <- MCEvent
    Inspected <- MCInspected
    KindOf <- MCKindOf
    Namespace <- MCNamespace
    NamespaceOf <- MCNamespaceOf
    Included = {}
    Excluded = {ns3}
    Early = {ne}
    DedupDuration = 1
    MaxTime = 2
    HasFilePath = TRUE
INVARIANTS
    TypeOK
    KeepsPromise
    FailureLeavesNoTrace
CHECK_DEADLOCK FALSE
