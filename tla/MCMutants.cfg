CONSTANTS
    t1 = t1
    t2 = t2
    t3 = t3
    Threads = {t1, t2, t3}
    Creator = t1
    InitialOwner = TRUE

SPECIFICATION Spec

PROPERTIES
    ImplementsBinarySemaphore
