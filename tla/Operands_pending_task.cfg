SPECIFICATION FairSpec
CONSTANTS
    Tasks = {t}
    Pipelines = {}
    ConfigMaps = {}
    RoleBindings = {}
    ClusterRoles = {r}
    ServiceAccounts = {}
    ClusterTasks = {}
    FixedBindings = {}
    PipelineAccounts = {}
    Namespaces = {own}
    OwnNs = own
    NoNs = NoNs
    FixedNs = own
    SystemNs = {}
    Gates = {TRUE}
    TaskNs = {own}
    PipelineNs = {own}
    Absent = Absent
    Lagging = TRUE
    Referencing = FALSE
    MaxWrites = 2
    MaxRestarts = 0
    MaxApiErrors = 0
PROPERTY CleanupEnds
CHECK_DEADLOCK FALSE
