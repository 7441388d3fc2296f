\* A trusted process that writes to backups.
SPECIFICATION Spec
CONSTANTS
    ProtectedDirs <- TheProtected
    BackupDirs <- TheBackups
    SelfProtectPaths <- TheSelf
    SuspiciousNames = {"a.locked"}
    RansomNoteNames = {"README_RESTORE"}
    Scores <- TheScores
    EgressEnabled = TRUE
    Tgids = {1}
    Fds = {3, 4}
    Events <- TrustedEvents
    Window = 2
    BlockTTL = 2
    Threshold = 4
    Action = "deny"
    Rules <- NoRules
    DryRuns = {FALSE}
    PutMayFail = FALSE
    HighRate = 2
    MaxHistory = 10
    MaxPaths = 10
    Minute = 0
    Lag = 0
    MaxTime = 4
    MaxEvents = 4
INVARIANTS BackupNeverSkipped
CHECK_DEADLOCK FALSE
