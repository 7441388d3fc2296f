\* An expired mark that is renewed while the kernel deletes it.
SPECIFICATION Spec
CONSTANTS
    Tgids = {1}
    Parent <- TheParents
    Offenders = {1}
    Executors = {}
    Listed = {}
    Blacklist = FALSE
    Action = "deny"
    BlockTTL = 1
    IdleTTL = 1
    Capacity = 1
    QueueSize = 1
    MayFail = FALSE
PROPERTIES KernelMarkLasts
CHECK_DEADLOCK FALSE
