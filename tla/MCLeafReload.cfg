SPECIFICATION LiveSpec
CONSTANTS
    Replica = {p1, p2}
    Writer = {o1}
    Component = {c1}
    NoLeaf = NoLeaf
    Backend = {"memory", "etcd"}
    MaxRevision = 3
    MaxBreaks = 1
    ChanSize = 1
    Worker = {w1}
INVARIANT NewestOnItsWay
PROPERTY ConfigReachesAll
CHECK_DEADLOCK FALSE
