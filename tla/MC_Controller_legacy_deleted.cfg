SPECIFICATION FairSpec
CONSTANTS
    CRs = {a}
    Specs = {on}
    Deploys = {on}
    Pausing = FALSE
    Foreign = FALSE
    Legacy = {a}
    Absent = Absent
    NoSpec = NoSpec
    MaxGen = 1
    MaxWrites = 1
    MaxRestarts = 0
    MaxApiErrors = 0
PROPERTY DeletionCompletes
CHECK_DEADLOCK FALSE
