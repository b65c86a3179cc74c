\* What DELETE leaves behind.
CONSTANTS
    s1 = s1
    s2 = s2
    analyst = analyst
    root = root
    employee = employee
    orgA = orgA
    orgB = orgB
    Nobody = Nobody
    NoOrg = NoOrg
    OrgOf <- MCOrgOf
    PrincipalOrg <- MCPrincipalOrg
    Analysts = {analyst}
    StoreBodies = TRUE
    Ids = {s1}
    Principals = {analyst}
    Workers = {w1}
    Targets = {"confirmed_phish"}
    MaxMishaps = 0
SPECIFICATION Spec
INVARIANTS
    DeletedLeavesNothing
\* Every id may be used up and every row gone: nothing is left to do.
CHECK_DEADLOCK FALSE
