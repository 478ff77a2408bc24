SPECIFICATION MCLiveSpec
CONSTANTS
    u1 = u1
    f1 = f1
    f2 = f2
    User = {u1}
    Function = {f1, f2}
    owner <- ownerOf
    Caller = {c1, c2}
    Leaf = {l1}
    Backend = {"memory", "etcd"}
    MaxChanges = 3
    MaxBreaks = 1
    WatchSize = 1
    EventsSize = 2
    Capacity = {1}
    Absent = Absent
    MaxVersion = 1
    RoutingChanges = 2
    RoutingBreaks = 1
    MaxRestarts = 0
    MaxIdleBeats = 1
    ChanSize = 1
PROPERTIES
    HistoryInOrder
    
    Converges
CHECK_DEADLOCK FALSE
