SPECIFICATION FairSpec
CONSTANTS
    A = A
    B = B
    a1 = a1
    a2 = a2
    b1 = b1
    named = named
    renamed = renamed
    insideA = insideA
    e1 = e1
    Workspaces = {A, B}
    Containers = {a1, a2, b1}
    Configs = {named, renamed}
    Dirs = {A, B, insideA}
    NoWorkspace = NoWorkspace
    NoContainer = NoContainer
    NoConfig = NoConfig
    NoCache = NoCache
    WorkspaceOf <- MCWorkspaceOf
    ConfigWorkspaces = {A}
    ConfigsOf <- MCConfigsOf
    PrimaryConfig <- MCPrimaryConfig
    Under <- MCUnder
    SessionCwd = A
    Execs = {e1}
    Command = Command
    Restore = Restore
    Callers = {e1, Command, Restore}
    InitialSessions <- MCInitialSessions
    MaxEvents = 2
INVARIANTS
    TypeOK
    SelectionsWellFormed
    AutoSelectKeepsProject
PROPERTIES
    StoreSpec
    AdoptionNeverDisplaces
    AmbiguityNeverGuessed
    RequestsSettle
CHECK_DEADLOCK FALSE
