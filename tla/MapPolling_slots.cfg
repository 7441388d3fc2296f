\* Two shards, one of them overrun: every interleaving of the stores with the lookups.
SPECIFICATION Safety
CONSTANTS
    NumCPU = 2
    Slots = 2
    BatchSize = 3
    EventBound <- TwoCPUBound
    Timestamp <- PairedClock
INVARIANTS TypeOK NoTornRecord PerCPUOrder  ExactAccounting NeverAheadOfCursor
PROPERTIES LossOnlyOnOverrun
