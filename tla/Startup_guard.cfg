SPECIFICATION StartupSpec
CONSTANTS
    CRs = {a}
    OwnNamespace = {a}
    CRDs = {tasks, other}
    Required = {tasks}
    Specs = {on}
    Deploys = {on}
    Pausing = FALSE
    Foreign = FALSE
    Legacy = {}
    Absent = Absent
    NoSpec = NoSpec
    MaxGen = 1
    MaxWrites = 2
    MaxRestarts = 0
    MaxApiErrors = 0
    MaxCrdWrites = 1
INVARIANT FinalizerGuards
CHECK_DEADLOCK FALSE
