SPECIFICATION FairSpec
CONSTANTS
    Tasks = {}
    Pipelines = {p}
    ConfigMaps = {}
    RoleBindings = {}
    ClusterRoles = {r}
    ServiceAccounts = {}
    ClusterTasks = {}
    FixedBindings = {}
    PipelineAccounts = {}
    Namespaces = {own}
    OwnNs = own
    NoNs = NoNs
    FixedNs = own
    SystemNs = {}
    Gates = {TRUE}
    TaskNs = {own}
    PipelineNs = {own}
    Absent = Absent
    Lagging = TRUE
    Referencing = TRUE
    MaxWrites = 2
    MaxRestarts = 1
    MaxApiErrors = 1
INVARIANTS CacheSound OnlyOverlookedLeft
PROPERTIES EditsAreReverted CleanupEnds
CHECK_DEADLOCK FALSE
