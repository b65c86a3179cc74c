SPECIFICATION Spec
CONSTANTS
    p = p
    q = q
    Processes <- MCProcesses
    MaxOpens = 4
    MaxCrashes = 1
    MaxStamp = 1
SYMMETRY Symmetry
INVARIANTS SchemaIsSound BackupIsASnapshot
PROPERTIES RestoreIsAtomic
CHECK_DEADLOCK FALSE
