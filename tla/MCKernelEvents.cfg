CONSTANTS
    t1 = t1
    t2 = t2
    t3 = t3
    auto = auto
    manual = manual
    handle = handle
    Threads = {t1, t2, t3}
    Events = {auto, manual, handle}
    Manual = {manual}
    Handles = {handle}
    Initial = {handle, auto}
    CallsOf <- MCCallsOf
    MaxSets = 2

SPECIFICATION FairSpec

INVARIANTS
    OneWaitPerSet
    ResultsAreTrue
    WaitAnyMissesNothing
    NoLostWakeup

PROPERTIES
    SignalReachesWaiters

