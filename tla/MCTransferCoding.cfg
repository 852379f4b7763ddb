\* One receiver with a slow sink; two slices of two blocks and one recovery
\* shard, the last one short; a loss and a duplicate.
SPECIFICATION Spec
CONSTANTS
    r1 = r1
    Receivers = {r1}
    BlocksPerSlice = 2
    Parity = 1
    MaxLiveSlices = 2
    SliceCount = 2
    LastBlocks = 1
    SlowSinks = {r1}
    MaxInFlight = 2
    MaxReports = 1
    MaxFeedback = 1
    MaxLosses = 1
    MaxCopies = 1
    MaxTimeouts = 0
    MaxCrashes = 0
INVARIANTS
    TypeOK
    OutputIsPrefix
    NaksFollowEmission
