CONSTANTS
    s1 = s1
    s2 = s2
    g1 = g1
    g2 = g2
    Sessions <- MCSessions
    Goroutines <- MCGoroutines
    Closers <- MCClosers
    Nobody = Nobody
    MaxCalls = 1
    MaxCallbacks = 1
SPECIFICATION FairSessionSpec
INVARIANTS CloseComesLast CloseIsFinal NoWaitCycle
PROPERTIES CallsReturn
CHECK_DEADLOCK FALSE
