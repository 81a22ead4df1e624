SPECIFICATION StartupFairSpec
CONSTANTS
    CRs = {a}
    OwnNamespace = {a}
    CRDs = {tasks, other}
    Required = {tasks}
    Specs = {on}
    Deploys = {on}
    Pausing = FALSE
    Foreign = FALSE
    Legacy = {}
    Absent = Absent
    NoSpec = NoSpec
    MaxGen = 1
    MaxWrites = 2
    MaxRestarts = 1
    MaxApiErrors = 0
    MaxCrdWrites = 3
PROPERTIES ReconcilerStarts DeletionOutlastsWaiting
CHECK_DEADLOCK FALSE
