\* One event of an organisation or of none, two hooks, one database error or restart,
\* two answers by mail.
CONSTANTS
    Orgs = {A}
    NoOrg = NoOrg
    Events = {e1}
    Configs <- MCConfigs
    MaxHooks = 2
    MaxOutTrouble = 1
    MaxReplies = 2
SPECIFICATION OutboundSpec
INVARIANTS
    
    RepliesAreAccounted
PROPERTIES
    DeliveryEnds
\* Nothing happens any more once the bounds are reached.
CHECK_DEADLOCK FALSE
