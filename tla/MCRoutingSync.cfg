SPECIFICATION MCSpec
CONSTANTS
    Absent = Absent
    Leaf = {l1}
    Function = {f1,f2}
    Capacity = {1}
    MaxVersion = 2
    MaxChanges = 2
    MaxBreaks = 1
    MaxRestarts = 1
    MaxIdleBeats = 1
    ChanSize = 1
SYMMETRY Symmetry
INVARIANTS
    PickerCurrent
    UpdatesKept
PROPERTIES
    NeverGoesBack
CHECK_DEADLOCK FALSE
