\* Two calls of one turn wait; a human approves both, one after the other.
CONSTANTS
    c1 = c1
    w1 = w1
    w2 = w2
    cl1 = cl1
    cl2 = cl2
    h1 = h1
    h2 = h2
    ask = ask
    ask2 = ask2
    tool = tool
    None = None
    Conts = {c1}
    Workers = {w1, w2}
    Clients = {cl1}
    Direct = {}
    Hosts = {h1}
    HostOf <- OneHost
    Calls = {ask, ask2}
    Gated = {ask, ask2}
    MaxCrashes = 2
    ToolAttempts = 1
    MaxTurns = 2
    MaxAsks = 3
    MaxAnswers = 2
    FaultKinds = {}
    MaxFaults = 0
    Redelivery = FALSE
SPECIFICATION Spec
SYMMETRY WorkerSymmetry
CHECK_DEADLOCK FALSE
INVARIANTS ApprovalKept
