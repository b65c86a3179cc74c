\* Two requests, an analysis and the purge race over one submission.
CONSTANTS
    s1 = s1
    s2 = s2
    analyst = analyst
    root = root
    employee = employee
    orgA = orgA
    orgB = orgB
    Nobody = Nobody
    NoOrg = NoOrg
    OrgOf <- MCOrgOf
    PrincipalOrg <- MCPrincipalOrg
    Analysts = {analyst, employee}
    StoreBodies = TRUE
    Ids = {s1}
    Principals = {analyst, employee}
    Workers = {w1, w2}
    Targets = {"confirmed_phish"}
    MaxMishaps = 1
SPECIFICATION FairSpec
INVARIANTS
    AnswerCanBePolled
    NothingLeftBehind
    DecisionHasReviewer
PROPERTIES
    ImplementsResource
    ProcessingEnds
\* Every id may be used up and every row gone: nothing is left to do.
CHECK_DEADLOCK FALSE
