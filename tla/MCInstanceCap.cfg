SPECIFICATION Spec
CONSTANTS
    Starter = {p1, p2}
    Worker = {w1}
    Slot = {s1, s2}
    startTokensPerWorker = 2
    startTokensTotal = 2
    maxInstancesPerWorker = 1
    MaxStarts = 2
INVARIANT InstanceCap
CHECK_DEADLOCK FALSE
