CONSTANTS
    t1 = t1
    t2 = t2
    c1 = c1
    c2 = c2
    r1 = r1
    r2 = r2
    Threads <- MCThreads
    Contexts <- MCContexts
    Registrations <- MCRegistrations
    LastHandle = 4
SPECIFICATION Spec
SYMMETRY Alike
CHECK_DEADLOCK FALSE
INVARIANTS DeletedExactlyOnce CallbacksAreAlive ContextBorrowedOnce
