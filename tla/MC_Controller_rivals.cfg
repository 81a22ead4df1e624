SPECIFICATION Spec
CONSTANTS
    CRs = {a, b}
    Specs = {on}
    Deploys = {on}
    Pausing = FALSE
    Foreign = FALSE
    Legacy = {}
    Absent = Absent
    NoSpec = NoSpec
    MaxGen = 1
    MaxWrites = 4
    MaxRestarts = 1
    MaxApiErrors = 0
SYMMETRY Symmetric
INVARIANTS FinalizerGuards SingleOwner
CHECK_DEADLOCK FALSE
PROPERTY ImplementsLifecycle
