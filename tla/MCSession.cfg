\* Seven blocks in four slices, the last slice and the last block short;
\* batches of two arrivals; a channel of one block; a sink that may fail.
SPECIFICATION FairSpec
CONSTANTS
    BlockSize = 2
    BlocksPerSlice = 2
    Parity = 1
    MaxLiveSlices = 2
    TotalBytes = 13
    SinkCapacity = 1
    SinkMayFail = TRUE
    MaxBatch = 2
INVARIANTS
    TypeOK
    OkMeansTheFile
    PendingIsBounded
PROPERTIES
    ImplementsDelivery
    FinishedReturns
