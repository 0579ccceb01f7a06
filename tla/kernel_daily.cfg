\* A reservation between the two halves of commit; the enforcer never fails.
CONSTANTS
    a1 = a1
    a2 = a2
    tool = tool
    Nil = Nil
    Pids = {a1, a2}
    Objects = {tool}
    Refused = {}
    Asking <- MCAsking
    Threads = {th1, th2}
    Tickets = {k1, k2}
    Tokens = {}
    Costs = {2}
    Daily <- MCDaily
    PerTask <- MCPerTask
    EnforcerFails = FALSE
SPECIFICATION KernelSpec
PROPERTY GrantedWithinDaily
CHECK_DEADLOCK FALSE
