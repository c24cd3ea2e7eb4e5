SPECIFICATION FairSpec
CONSTANTS
    Node = {a, b, c, d}
    MaxEdges = 4
    Graph <- SmallGraphs
INVARIANTS
    TypeOK
    ResultRespectsDependencies
    InDegreeCountsWaiting
    TargetsAreClosure
    CycleErrorIsExact
PROPERTIES
    Terminates
    ImplementsBuildOrder
