SPECIFICATION Spec
CONSTANTS
    Callers = {t1, t2}
    QuietThreads = {t2}
    Roots = {"save"}
    NewFiles = {"a", "b"}
    Enumerators = {e1}
    Fetches = {1, 2}
    HostFiles <- MCHostFiles
    Files = {h1}
    Searches = {s1}
    Amounts = {2}
    MaxSize = 2
    WordSize = 2
INVARIANTS
    FilesAreWhereTheirRootsLed
    ReadsReturnTheFile
    
CHECK_DEADLOCK FALSE
