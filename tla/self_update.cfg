CONSTANTS
    u1 = u1
    u2 = u2
    NULL = NULL
    Updates <- TwoUpdates
    MaxPushes = 1
    MaxCommits = 1
    Faults = {"backup", "pull", "tags", "version", "build", "launch", "crash"}
SPECIFICATION FairSpec
INVARIANTS TypeOK SwapHasBackup 
PROPERTY UpdateSettles
