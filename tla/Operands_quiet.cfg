SPECIFICATION Spec
CONSTANTS
    Tasks = {}
    Pipelines = {}
    ConfigMaps = {}
    RoleBindings = {b}
    ClusterRoles = {}
    ServiceAccounts = {s}
    ClusterTasks = {c}
    FixedBindings = {b}
    PipelineAccounts = {s}
    Namespaces = {own, kube}
    OwnNs = own
    NoNs = NoNs
    FixedNs = kube
    SystemNs = {kube}
    Gates = {TRUE, FALSE}
    TaskNs = {own}
    PipelineNs = {own, kube}
    Absent = Absent
    Lagging = FALSE
    Referencing = FALSE
    MaxWrites = 3
    MaxRestarts = 0
    MaxApiErrors = 1
INVARIANTS TypeOK NothingLeft
CHECK_DEADLOCK FALSE
