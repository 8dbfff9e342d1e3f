CONSTANTS
    t1 = t1
    t2 = t2
    h1 = h1
    h2 = h2
    b1 = b1
    b2 = b2
    b3 = b3
    None = None
    Threads = {t1, t2}
    Headers = {h1, h2}
    Blocks = {b1, b2, b3}

SPECIFICATION Spec
SYMMETRY Symmetry

\* Objects of headers are never destroyed: the blocks run out.
CHECK_DEADLOCK FALSE

INVARIANTS
    OneObjectPerHeader
    HeadersOwnTheirObjects
    CallsFitTheirObjects
