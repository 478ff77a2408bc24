SPECIFICATION LiveSpec
CONSTANTS
    ID = {1}
    Sandbox = {s1, s2}
    IDOf <- MCIDOf
    NoSandbox = NoSandbox
    Request = {r1, r2}
    Drainer = {d1}
    Limits = {1}
    Depths = {2}
    SyncTargets = {{}, {1}}
    DefaultSandboxConcurrency = 1
    DefaultQueueDepth = 2
INVARIANTS
    IInv
    DrainedIsIdle
PROPERTIES
    ExpiredReturns
    QueueProgress
    DrainProgress
CHECK_DEADLOCK FALSE
