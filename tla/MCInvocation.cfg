SPECIFICATION MCSpec
CONSTANTS
    Call = {c1, c2}
    Slots = 1
    QueueDepth = 1
    ID = {1}
    Sandbox = {s1}
    IDOf <- MCIDOf
    NoSandbox = NoSandbox
    Request = {r1, r2}
    Drainer = {}
    Limits = {1}
    Depths = {1}
    SyncTargets = {}
    DefaultSandboxConcurrency = 2
    DefaultQueueDepth = 2
    Instance = {i1, i2}
    EventBuffer = 1
SYMMETRY Symmetry
INVARIANTS
    SuccessIsAnswer
    
    HighWaterCovers
    WakeNotLost
    NoLostSignal
    
PROPERTIES KeepsContract
CHECK_DEADLOCK FALSE
