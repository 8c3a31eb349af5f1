SPECIFICATION Spec
CONSTANTS
    Cwd = Cwd
    R1 = R1
    R2 = R2
    inCwd = inCwd
    inR1 = inR1
    inBoth = inBoth
    E = E
    Token = Token
    W = W
    V = V
    c1 = c1
    c2 = c2
    c3 = c3
    link = link
    Roots = {Cwd, R1, R2}
    SessionRoot = Cwd
    Places = {inCwd, inR1, inBoth}
    NoPlace = NoPlace
    RootsAround <- MCRootsAround
    EnvNames = {E, Token}
    ProtectedNames = {Token}
    DirNames = {}
    DefaultExcluded = {}
    DefaultLimit <- MCDefaultLimit
    Unset = Unset
    Null = Null
    Malformed = Malformed
    Names = {"a", "b"}
    NameLength <- MCNameLength
    Workspaces = {W, V}
    Containers = {c1, c2, c3}
    Configs = {}
    Dirs = {W, V}
    NoWorkspace = NoWorkspace
    NoContainer = NoContainer
    NoConfig = NoConfig
    WorkspaceOf <- MCWorkspaceOf
    ConfigWorkspaces = {W}
    ConfigsOf <- MCConfigsOf
    PrimaryConfig <- MCPrimaryConfig
    Under <- MCUnder
    SessionCwd = W
    Folders = {W, V, link, Blank}
    BlankFolder = Blank
    Realpath <- MCRealpath
    DockerStates = {"running", "exited", "restarting"}
    Nodes = {"r", "x", "y", "z", "q"}
    ChildrenOf <- MCChildren
    LayerPairsTried <- MCLayerPairs
    HostSpellings <- MCHostSpellings
    ContainerSpellings <- MCContainerSpellings
    MountSetsTried <- MCMountSets
    TokenSpellings <- MCTokens
    MaxRecords = 3
    TreesTried <- MCTrees
    RootSetsTried = {{"r"}, {"r", "y"}}
    DepthsTried = {1, 2, 3}
INVARIANTS
    ProjectOnlyNarrows
    HostExecutionFailsClosed
    GuardExact
    ShownPathWorks
    RegistryImplementsRules
    NoContainerLostSilently
    LostOnlyByProbe
