SPECIFICATION StartupSpec
CONSTANTS
    CRs = {a, b, c, d}
    OwnNamespace = {a, b}
    CRDs = {tasks, pipes, other}
    Required = {tasks, pipes}
    Specs = {on}
    Deploys = {on}
    Pausing = FALSE
    Foreign = FALSE
    Legacy = {}
    Absent = Absent
    NoSpec = NoSpec
    MaxGen = 1
    MaxWrites = 2
    MaxRestarts = 1
    MaxApiErrors = 0
    MaxCrdWrites = 2
INVARIANTS StartupTypeOK RecordTracksCluster OthersGuarded
PROPERTY OthersLifecycle
CHECK_DEADLOCK FALSE
