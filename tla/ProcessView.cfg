\* Two threads, two descriptors, pending maps and a ring buffer that can be full.
SPECIFICATION Spec
CONSTANTS
    a = a
    b = b
    Threads = {a, b}
    Fds = {3, 4}
    x = x
    y = y
    Paths = {x, y}
    PendingSize = 1
    RingSize = 2
    MaxCalls = 4
    Scoped = TRUE
SYMMETRY Alike
INVARIANTS PendingMatchesCall WritesAccounted  TrustNotStale
CHECK_DEADLOCK FALSE
