SPECIFICATION MCSpec
CONSTANTS
    Starter = {p1, p2}
    Worker = {w1, w2}
    Slot = {s1, s2}
    startTokensPerWorker = 1
    startTokensTotal = 2
    maxInstancesPerWorker = 1
    MaxStarts = 2
    WorkerID = {1, 2}
    WorkerReplicas = 2
    Signal = {0, 3}
    LoadBound = 1
    WorkerChainLen = 2
    StartTokens = 2
    MaxInstances = 2
    Leaf = {1, 2, 3}
    Replicas = 2
    Load = {0, 1, 2}
    Bound = 1
    MaxBound = 2
    LatencyRatio = {1, 2}
    MaxChainLen = 2
    ScaleConfig <- MCScaleConfig
    MaxDemand = 3
    MaxScale = 3
    MaxDesired = 3
    MaxStopping = 2
    MaxMishaps = 2
SYMMETRY Symmetry
INVARIANTS
    TokensConserved
    StartLimits
    PickEligible
    PickRoutable
    KeepsBound
    CoversDemand
    WindowExact
    LogicalScaleExact
PROPERTY HomeStable
CHECK_DEADLOCK FALSE
