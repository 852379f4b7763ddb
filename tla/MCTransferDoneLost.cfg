\* One lost datagram, when the last slice is full.
SPECIFICATION Spec
CONSTANTS
    r1 = r1
    Receivers = {r1}
    BlocksPerSlice = 1
    Parity = 0
    MaxLiveSlices = 2
    SliceCount = 3
    LastBlocks = 1
    SlowSinks = {}
    MaxInFlight = 1
    MaxReports = 1
    MaxFeedback = 1
    MaxLosses = 1
    MaxCopies = 0
    MaxTimeouts = 0
    MaxCrashes = 0
INVARIANTS
    OkMeansNobodyFails
