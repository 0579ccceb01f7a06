\* One process: two worker loops, the requests and the Celery tasks share an event
\* loop; a tool called again once, redelivered entries, faults of every kind.  Beside
\* it the agentic loop with two calls a response, and two callers of the pool.
CONSTANTS
    c1 = c1
    w1 = w1
    w2 = w2
    cl1 = cl1
    cl2 = cl2
    h1 = h1
    h2 = h2
    ask = ask
    ask2 = ask2
    tool = tool
    None = None
    Conts = {c1}
    Workers = {w1, w2}
    Clients = {cl1, cl2}
    Direct = {cl2}
    Hosts = {h1}
    HostOf <- OneHost
    Calls = {ask, tool}
    Gated = {ask}
    MaxCrashes = 2
    ToolAttempts = 2
    MaxTurns = 2
    MaxAsks = 3
    MaxAnswers = 2
    FaultKinds = {"raise", "abandon", "taskError", "crash", "flush"}
    MaxFaults = 2
    Redelivery = TRUE
    Tools = {ta}
    MaxToolTurns = 2
    MaxToolRetries = 1
    MaxGuidance = 3
    MaxTries = 2
    HasFallback = TRUE
    MaxCalls = 2
    Keys = {key1, key2}
    Callers = {call1, call2}
    MaxConnections = 1
    MaxSessions = 3
SPECIFICATION MCSpec
SYMMETRY WorkerSymmetry
CHECK_DEADLOCK FALSE
INVARIANTS TypeOK GatedOnlyIfGranted GatedDispatchedOnce RetriesBounded
INVARIANTS CallsAreAnswered EffectsAsAnswered GuidanceEscalates PoolIsSound
PROPERTIES OverIsFinal TurnsForward
