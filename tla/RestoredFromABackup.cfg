SPECIFICATION Spec
CONSTANTS
    p = p
    q = q
    Processes <- MCProcesses
    MaxOpens = 3
    MaxCrashes = 0
    MaxStamp = 1
INVARIANT RestoredFromABackup
CHECK_DEADLOCK FALSE
