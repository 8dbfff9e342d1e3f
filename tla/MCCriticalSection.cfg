\* Three threads: an owner, a sleeper and a barger; nesting two deep.
CONSTANTS
    t1 = t1
    t2 = t2
    t3 = t3
    Threads <- MCThreads
    NoThread = NoThread
    MaxDepth = 2

SPECIFICATION FairSpec

INVARIANTS
    OwnerAlone
    NoLostWakeup

PROPERTIES
    ImplementsReentrantLock
    FreeLockIsTaken
