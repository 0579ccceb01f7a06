\* Each part alone.  The kernel stops when both threads wait for a ticket and none is
\* left (Tickets is a bound), the agents when every id is used up and removed.
\* Two threads, one token, two tickets; the usage enforcer may raise.
\* Boss alone with its loop, two restarts and an update; boss and helper with neither.
CONSTANTS
    a1 = a1
    a2 = a2
    tool = tool
    Nil = Nil
    Pids = {a1, a2}
    Objects = {tool}
    Refused = {}
    Asking <- MCAsking
    Threads = {th1, th2}
    Tickets = {k1, k2}
    Tokens = {c1}
    Costs = {2}
    Daily <- MCDaily
    PerTask <- MCPerTask
    EnforcerFails = TRUE
    boss = boss
    helper = helper
    None = None
    Agents = {boss, helper}
    Parent <- MCParent
    FirstKind <- MCKind
    RestartOnFailure = {}
    Slots = {s1}
    Ops = {o1, o2}
    MaxIterations = 3
    MaxCrashes = 2
    MaxPending <- MCPending
    MaxRestarts = 1
    MaxUpdates = 1
SPECIFICATION MCSpec
SYMMETRY MCSymmetry
INVARIANT KernelTypeOK
INVARIANT ReservedAddsUp
INVARIANT ReservedWithinDaily
INVARIANT ChargedOnce
INVARIANT NoTicketForgotten
INVARIANT AllowIsAuthorized
INVARIANT TypeOK
INVARIANT StoppedIsUnwired
INVARIANT GoneLeavesNothing
INVARIANT CrashBudget
PROPERTY ChildrenDrain
CHECK_DEADLOCK FALSE
