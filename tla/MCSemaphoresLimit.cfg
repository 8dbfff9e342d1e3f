CONSTANTS
    t1 = t1
    t2 = t2
    t3 = t3
    Threads = {t1, t2, t3}
    InitialCount = 1
    Limit = 2
    Increments = {1, 2}
    Modulus = 8
    Asserts = TRUE

SPECIFICATION Spec

\* A failed assertion stops the process, and all threads may wait for units.
CHECK_DEADLOCK FALSE

INVARIANTS
    CountWithinLimit
