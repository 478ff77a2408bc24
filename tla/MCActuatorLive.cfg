SPECIFICATION LiveSpec
CONSTANTS
    Instance = {i1}
    EventBuffer = 1
    MaxTarget = 1
    MaxDeletions = 1
    maxInstances = 0
    scaleDownDelay = TRUE
PROPERTIES   DeletionEnds
CHECK_DEADLOCK FALSE
