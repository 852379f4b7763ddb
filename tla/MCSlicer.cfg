\* Five blocks in three slices of two, up to two recovery shards; a window of
\* two slices, a channel of two messages, one change of width, two resends.
SPECIFICATION FairSpec
CONSTANTS
    BlocksPerSlice = 2
    MaxParity = 2
    MaxLiveSlices = 2
    SourceBlocks = 5
    Capacity = 2
    SourceMayFail = TRUE
    MaxCovers = 1
    MaxResends = 2
INVARIANTS
    TypeOK
    WidthsAgree
    FloorIsSound
    NeededIsLive
    ReadErrorsShow
PROPERTIES
    ImplementsWindow
    StreamIsSent
    SlicerEnds
CHECK_DEADLOCK FALSE
