SPECIFICATION Spec
CONSTANTS
    EventSize = 576
    EventV2Size = 640
    KnownFlags <- MCKnownFlags
    MaxInt64 = 100
    Samples <- MCSamples
    Perf = TRUE
    RingSize = 1
    QueueSize = 1
    Workers = {w}
    MaxEvents = 3
    MaxFaults = 1
INVARIANTS  TimesKeepDistance 
PROPERTIES   EveryoneEnds
CHECK_DEADLOCK FALSE
