CONSTANTS
    t1 = t1
    t2 = t2
    g1 = g1
    g2 = g2
    None = None
    MaxCalls = 2
    Threads <- MCThreads
    Goroutines <- MCGoroutines

SPECIFICATION Spec
SYMMETRY Symmetry
CHECK_DEADLOCK FALSE

INVARIANTS
    TypeOK
    
    HealthyConnection
    NoLeak
