\* Two processes, events a little out of order, histories and path sets at their
\* limits, and every kind of verdict, dry or live, with updates that fail.
SPECIFICATION Spec
CONSTANTS
    ProtectedDirs <- TheProtected
    BackupDirs <- TheBackups
    SelfProtectPaths <- TheSelf
    SuspiciousNames = {"a.locked"}
    RansomNoteNames = {"README_RESTORE"}
    Scores <- TheScores
    EgressEnabled = TRUE
    Tgids = {1, 2}
    Fds = {3, 4}
    Events <- VerdictEvents
    Window = 1
    BlockTTL = 2
    Threshold = 4
    Action = "deny"
    Rules <- TwoRules
    DryRuns = {TRUE, FALSE}
    PutMayFail = TRUE
    HighRate = 2
    MaxHistory = 2
    MaxPaths = 2
    Minute = 0
    Lag = 1
    MaxTime = 4
    MaxEvents = 3
INVARIANTS WindowExact ThresholdBlocks OneActionPerTTL RememberedIsMarked
CHECK_DEADLOCK FALSE
