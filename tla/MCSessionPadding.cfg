\* One full slice whose last block is short.
SPECIFICATION Spec
CONSTANTS
    BlockSize = 2
    BlocksPerSlice = 2
    Parity = 0
    MaxLiveSlices = 2
    TotalBytes = 3
    SinkCapacity = 1
    SinkMayFail = FALSE
    MaxBatch = 1
INVARIANTS
    FullFinalSliceNeedsNoHelp
