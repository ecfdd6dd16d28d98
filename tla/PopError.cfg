CONSTANTS
    t1 = t1
    t2 = t2
    g1 = g1
    g2 = g2
    None = None
    MaxCalls = 1
    Threads <- MCThreads
    Goroutines <- MCGoroutines

SPECIFICATION Spec
CHECK_DEADLOCK FALSE

INVARIANT PopsOwnError
