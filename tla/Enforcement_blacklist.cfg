\* Lost events, dropped jobs and failing updates against the scanner.
SPECIFICATION FairSpec
CONSTANTS
    Tgids = {1}
    Parent <- TheParents
    Offenders = {}
    Executors = {1}
    Listed = {1}
    Blacklist = TRUE
    Action = "deny"
    BlockTTL = 1
    IdleTTL = 1
    Capacity = 1
    QueueSize = 1
    MayFail = TRUE
INVARIANTS TypeOK
PROPERTIES LineageMarkLasts BlacklistedKilled
CHECK_DEADLOCK FALSE
