\* A busy and a quiet shard with batches of one: the channel, and what must happen.
SPECIFICATION Spec
CONSTANTS
    NumCPU = 2
    Slots = 2
    BatchSize = 1
    EventBound <- BusyCPUBound
    Timestamp <- PairedClock
INVARIANTS BoundedWait
PROPERTIES ImplementsChannel EveryEventSettled
