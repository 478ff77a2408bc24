SPECIFICATION Spec
CONSTANTS
    Instance = {i1, i2}
    EventBuffer = 1
    MaxTarget = 1
    MaxDeletions = 0
    maxInstances = 0
    scaleDownDelay = FALSE
SYMMETRY Symmetry
INVARIANT ServedIsTracked
PROPERTIES NoFalseEviction StopsWithinTarget
CHECK_DEADLOCK FALSE
