\* The score an indicator left behind, after the window.
SPECIFICATION Spec
CONSTANTS
    ProtectedDirs <- TheProtected
    BackupDirs <- TheBackups
    SelfProtectPaths <- TheSelf
    SuspiciousNames = {"a.locked"}
    RansomNoteNames = {"README_RESTORE"}
    Scores <- TheScores
    EgressEnabled = TRUE
    Tgids = {1}
    Fds = {3, 4}
    Events <- WindowEvents
    Window = 2
    BlockTTL = 2
    Threshold = 6
    Action = "log"
    Rules <- NoRules
    DryRuns = {FALSE}
    PutMayFail = FALSE
    HighRate = 2
    MaxHistory = 10
    MaxPaths = 10
    Minute = 0
    Lag = 0
    MaxTime = 5
    MaxEvents = 4
INVARIANTS ScoreWithinWindow
CHECK_DEADLOCK FALSE
