\* A loop before and after a restart.
CONSTANTS
    boss = boss
    helper = helper
    None = None
    Agents = {boss, helper}
    Parent <- MCParent
    FirstKind <- MCKind
    RestartOnFailure = {}
    Slots = {s1}
    Ops = {o1, o2}
    MaxIterations = 2
    MaxCrashes = 2
    MaxPending <- MCPending
    MaxRestarts = 2
    MaxUpdates = 1
SPECIFICATION AgentsSpec
SYMMETRY LifecycleSymmetry
PROPERTY LoopsResume
CHECK_DEADLOCK FALSE
