\* One full slice, a channel of one message.
SPECIFICATION FairSpec
CONSTANTS
    BlocksPerSlice = 2
    MaxParity = 0
    MaxLiveSlices = 1
    SourceBlocks = 2
    Capacity = 1
    SourceMayFail = FALSE
    MaxCovers = 0
    MaxResends = 0
PROPERTIES
    ShutdownCompletes
CHECK_DEADLOCK FALSE
