\* Each part alone; every one of them can come to rest.
\* The runtime: one process, two calls that may wait, one answer, redelivered
\* entries, no fault.
CONSTANTS
    c1 = c1
    w1 = w1
    w2 = w2
    cl1 = cl1
    cl2 = cl2
    h1 = h1
    h2 = h2
    ask = ask
    ask2 = ask2
    tool = tool
    None = None
    Conts = {c1}
    Workers = {w1, w2}
    Clients = {cl1}
    Direct = {}
    Hosts = {h1}
    HostOf <- OneHost
    Calls = {ask, ask2, tool}
    Gated = {ask, ask2}
    MaxCrashes = 2
    ToolAttempts = 1
    MaxTurns = 2
    MaxAsks = 3
    MaxAnswers = 1
    FaultKinds = {}
    MaxFaults = 0
    Redelivery = TRUE
    Tools = {ta}
    MaxToolTurns = 2
    MaxToolRetries = 1
    MaxGuidance = 3
    MaxTries = 2
    HasFallback = TRUE
    MaxCalls = 1
    Requests = {r1}
    Askers = {a1, a2}
    Gateways = {g1, g2}
    MaxHostCrashes = 1
    ann = ann
    bob = bob
    Humans = {ann, bob}
    Mood <- MCMood
    Standin <- MCStandin
    Ruled = {bob}
    Questions = {q1}
    Threads = {t1, t2}
    MaxMessages = 3
    Jobs = {j1}
    RemoteWorkers = {rw1, rw2}
    MaxAttempts = 3
    MaxReports = 5
SPECIFICATION MCSpec
INVARIANT NotStranded
INVARIANT EpochsAgree
INVARIANT ApprovalKept
INVARIANT AnswersAreWhole
INVARIANT WokenMeansSettled
INVARIANT ReadersKeepOrder
INVARIANT ClaimsAreBounded
PROPERTY RunSettles
PROPERTY ApprovalTakesEffect
PROPERTY QueueDrains
PROPERTY LoopSettles
PROPERTY ApprovalsAreDecisions
PROPERTY ApprovalSettles
PROPERTY AsksSettle
PROPERTY MessagesAreShown
PROPERTY TasksSettle
CHECK_DEADLOCK FALSE
