\* Components that stop when their work is done.
SPECIFICATION Spec
CHECK_DEADLOCK FALSE
CONSTANTS
    GuestThreads = {t1, t2}
    Blocks = {b1, b2}
    NoBlock = none
    MaxIndex = 2
    TlsData = {1}
    Callers = {t1, t2}
    Listeners = {l1, l2}
    MaxEvents = 2
    Clients = {t1, t2}
    MaxLatency = 2
    MaxCalls = 3
    Texts <- MCTexts
    Limits = {0, 1, 2, 3, 6, 8}
    BufferSize = 5
    TextLengths = {0, 1, 65534, 65535, 65536, 65537, 200000}
    Unit = 3
    TimeSpan = 256
    MsModulus = 32
    Executables <- MCExecutables
    Exports <- MCExports
    Bases <- MCBases
    Patches <- MCPatches
    Calls <- MCCalls
    Results <- MCResults
    Modes <- MCModes
    MaxDepth = 4
    MaxVars = 1
    Databases <- MCDatabases
    Bits = 4
    WordBits = 10
    Mantissa = 5
    Memory <- MCMemory
    RenderParameters <- MCRenderParameters
    SamplerParameters <- MCSamplerParameters
    MaxParameters = 3
INVARIANTS
    IndexHasOneOwner
    EventsArriveOnceInOrder
    FramesFitTheDevice
    LatencyIsBounded
    ConversionsAreTrue
    ImagesAreWhole
    PatchesAreVerified
    ArgumentsArrive
    CallsNest
    RecordsAreFound
    VectorsMatch
    StatesAreIndependent
PROPERTY
    ReconfigurationEnds
