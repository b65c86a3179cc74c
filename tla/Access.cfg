\* One key and one person, two login states, callbacks racing for them;
\* a rate limit without sign-in, or sign-in without a rate limit.
CONSTANTS
    Callers = {"key", "oidc:ann", "ip"}
    Rps = 1
    Burst = 2
    Capacity = 1
    Idle = 2
    MaxTime = 4
    Subjects = {"ann"}
    StateIds = {s1, s2}
    Callbacks = {c1, c2}
    StateLife = 1
    SessionLife = 2
    MaxGroupMoves = 1
    Keys = {"key"}
    KeyRole <- MCKeyRole
    Address = "ip"
    CallerOf <- MCCallerOf
    Requests = {r1}
    Setups <- MCSetups
SPECIFICATION Spec
INVARIANTS
    
    RoleIsRecent

    
