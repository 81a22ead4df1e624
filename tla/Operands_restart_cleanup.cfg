SPECIFICATION Spec
CONSTANTS
    Tasks = {}
    Pipelines = {}
    ConfigMaps = {m}
    RoleBindings = {}
    ClusterRoles = {}
    ServiceAccounts = {}
    ClusterTasks = {}
    FixedBindings = {}
    PipelineAccounts = {}
    Namespaces = {own}
    OwnNs = own
    NoNs = NoNs
    FixedNs = own
    SystemNs = {}
    Gates = {TRUE}
    TaskNs = {own}
    PipelineNs = {own}
    Absent = Absent
    Lagging = FALSE
    Referencing = FALSE
    MaxWrites = 2
    MaxRestarts = 1
    MaxApiErrors = 0
INVARIANT NothingLeft
CHECK_DEADLOCK FALSE
