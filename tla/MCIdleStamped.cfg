CONSTANTS
    ID = {1}
    Sandbox = {s1}
    IDOf <- MCIDOf
    NoSandbox = NoSandbox
    Request = {r1, r2, r3}
    Drainer = {}
    Limits = {1, 2}
    Depths = {2}
    SyncTargets = {}
    DefaultSandboxConcurrency = 2
    DefaultQueueDepth = 2
SPECIFICATION SignalSpec
INVARIANT IdleStamped
SYMMETRY Symmetry
CHECK_DEADLOCK FALSE
