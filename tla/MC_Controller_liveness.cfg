SPECIFICATION FairSpec
CONSTANTS
    CRs = {a}
    Specs = {on, off}
    Deploys = {on}
    Pausing = TRUE
    Foreign = FALSE
    Legacy = {}
    Absent = Absent
    NoSpec = NoSpec
    MaxGen = 2
    MaxWrites = 3
    MaxRestarts = 1
    MaxApiErrors = 0
INVARIANT TypeOK
PROPERTIES SpecEditTakesEffect UnpauseTakesEffect DeletionCompletes
CHECK_DEADLOCK FALSE
