\* The settings of the console; texts, lengths and times in a few values only.
SPECIFICATION ConversionsSpec
CONSTANTS
    Texts = {}
    Limits = {0, 4}
    BufferSize = 2
    TextLengths = {0, 1}
    Unit = 3
    TimeSpan = 16
    MsModulus = 4
INVARIANT
    RegionIsNorthAmerica
CHECK_DEADLOCK FALSE
