CONSTANTS
    m = m
    t1 = t1
    t2 = t2
    Threads = {m, t1, t2}
    Main = m

SPECIFICATION Spec
SYMMETRY Symmetry

\* The process may crash, and threads may wait for one another.
CHECK_DEADLOCK FALSE

INVARIANTS
    DestroyedMeansOver
    AwaitedMeansOver
    SuspendedThreadsWait
    NoLostResume
    OnlyContentionCrashes
