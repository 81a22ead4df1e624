SPECIFICATION Spec
CONSTANTS
    CRs = {a}
    Specs = {on, on2}
    Deploys = {on, on2}
    Pausing = TRUE
    Foreign = TRUE
    Legacy = {}
    Absent = Absent
    NoSpec = NoSpec
    MaxGen = 2
    MaxWrites = 4
    MaxRestarts = 1
    MaxApiErrors = 1
INVARIANTS PauseRespected DeployedReflectsSpec CacheMatchesSpec NothingForgotten
PROPERTY DeletionOneWay
CHECK_DEADLOCK FALSE
