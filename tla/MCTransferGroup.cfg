\* Two receivers, slices of one block, a window of two of the three slices; one
\* lost datagram and one timer that fires on a live peer.
SPECIFICATION Spec
CONSTANTS
    r1 = r1
    r2 = r2
    Receivers = {r1, r2}
    BlocksPerSlice = 1
    Parity = 0
    MaxLiveSlices = 2
    SliceCount = 3
    LastBlocks = 1
    SlowSinks = {}
    MaxInFlight = 1
    MaxReports = 1
    MaxFeedback = 1
    MaxLosses = 1
    MaxCopies = 0
    MaxTimeouts = 1
    MaxCrashes = 0
SYMMETRY Symmetry
INVARIANTS
    WindowRetains
    NeverTooFarAhead
    OkMeansEveryoneHasAll
    FailuresAreHonest
PROPERTIES
    ImplementsWindow
    ImplementsPromise
