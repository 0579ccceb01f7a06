\* A sideband is left in the same generation.
CONSTANTS
    boss = boss
    helper = helper
    None = None
    Agents = {boss, helper}
    Parent <- MCParent
    FirstKind <- MCKind
    RestartOnFailure = {}
    Slots = {s1}
    Ops = {o1, o2}
    MaxIterations = 2
    MaxCrashes = 2
    MaxPending <- MCPending
    MaxRestarts = 2
    MaxUpdates = 1
SPECIFICATION AgentsSpec
SYMMETRY LifecycleSymmetry
PROPERTY SidebandsAreTerminal
CHECK_DEADLOCK FALSE
