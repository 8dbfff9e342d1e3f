CONSTANTS
    t1 = t1
    t2 = t2
    None = None
    Threads = {t1, t2}
    UserCapacity = 5
    PhysicalCapacity = 2
    Sizes = {0, 6}
    Alignments = {0, 1}
    DefaultAlignment = 4
    Asserts = FALSE

SPECIFICATION Spec
SYMMETRY Symmetry

\* A process that has crashed stops.
CHECK_DEADLOCK FALSE

INVARIANTS
    FragmentsTile
    AllocatesWhatFits
    BlocksFit
    ContentsAreKept
