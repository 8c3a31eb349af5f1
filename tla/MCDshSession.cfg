SPECIFICATION FairSpec
CONSTANTS
    A = A
    N = N
    sub = sub
    a1 = a1
    a2 = a2
    n1 = n1
    e1 = e1
    e2 = e2
    Workspaces = {A, N}
    Containers = {a1, a2, n1}
    Configs = {}
    Dirs = {A, N, sub}
    NoWorkspace = NoWorkspace
    NoContainer = NoContainer
    NoConfig = NoConfig
    WorkspaceOf <- MCWorkspaceOf
    ConfigWorkspaces = {A, N}
    ConfigsOf <- MCConfigsOf
    PrimaryConfig <- MCPrimaryConfig
    Under <- MCUnder
    SessionCwd = A
    Execs = {e1}
    CommandSurface = CommandSurface
    ToolSurface = ToolSurface
    Callers = {e1, CommandSurface, ToolSurface}
    InitialWorlds <- MCInitialWorlds
    MaxEvents = 2
INVARIANTS
    TypeOK
    FreshAfterUp
PROPERTIES
    AdoptionNeverDisplaces
    RequestsSettle
CHECK_DEADLOCK FALSE
