SPECIFICATION Spec
CONSTANTS
    Absent = Absent
    Leaf = {l1}
    Function = {f1}
    Capacity = {1}
    MaxVersion = 1
    MaxChanges = 2
    MaxBreaks = 0
    MaxRestarts = 1
    MaxIdleBeats = 1
    ChanSize = 1
INVARIANTS
    NoUpdateLost
CHECK_DEADLOCK FALSE
