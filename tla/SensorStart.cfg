SPECIFICATION Spec
CONSTANTS
    Trimmed <- MCTrimmed
    Lowered <- MCLowered
    Dotted <- MCDotted
    Durations <- MCDurations
    CIDRs <- MCCIDRs
    Ops <- MCOps
    Environments <- MCEnvironments
    Missing = Missing
    Shards = 2
    DirStat <- MCDirStat
    CgroupStat <- MCCgroupStat
INVARIANTS NothingLeftOpen  PolicyBeforeHooks DenyIsBacked ProbesAgree PolicyAsDocumented
PROPERTIES StartUpEnds
CHECK_DEADLOCK FALSE
