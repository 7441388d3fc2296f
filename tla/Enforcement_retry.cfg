\* Failing updates against the latch.
SPECIFICATION FairSpec
CONSTANTS
    Tgids = {1}
    Parent <- TheParents
    Offenders = {1}
    Executors = {}
    Listed = {}
    Blacklist = FALSE
    Action = "deny"
    BlockTTL = 2
    IdleTTL = 3
    Capacity = 1
    QueueSize = 1
    MayFail = TRUE
PROPERTIES OffenderMarked
CHECK_DEADLOCK FALSE
