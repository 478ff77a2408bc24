SPECIFICATION MCSpec
CONSTANTS
    Instance = {i1, i2}
    NoInstance = NoInstance
    RuntimeName = {"firecracker", "containerd", "runc", "docker"}
    UsePool = {TRUE, FALSE}
    AsyncTeardown = {TRUE, FALSE}
    UseSnapshots = {TRUE, FALSE}
    PoolSize = 1
    MaxBuilds = 3
    MaxPort = 3
INVARIANT SnapshotWhole
 
 
 
PROPERTY Settles
CHECK_DEADLOCK FALSE
