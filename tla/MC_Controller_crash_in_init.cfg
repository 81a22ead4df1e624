SPECIFICATION FairSpec
CONSTANTS
    CRs = {a}
    Specs = {on}
    Deploys = {on}
    Pausing = FALSE
    Foreign = FALSE
    Legacy = {}
    Absent = Absent
    NoSpec = NoSpec
    MaxGen = 1
    MaxWrites = 1
    MaxRestarts = 1
    MaxApiErrors = 0
PROPERTY InitializationGoesOn
CHECK_DEADLOCK FALSE
