\* Two receivers that have joined, one of which may die, and one lost datagram of any kind.
SPECIFICATION AllJoined
CONSTANTS
    r1 = r1
    r2 = r2
    Receivers = {r1, r2}
    BlocksPerSlice = 1
    Parity = 0
    MaxLiveSlices = 2
    SliceCount = 2
    LastBlocks = 1
    SlowSinks = {}
    MaxInFlight = 1
    MaxReports = 1
    MaxFeedback = 1
    MaxLosses = 1
    MaxCopies = 0
    MaxTimeouts = 0
    MaxCrashes = 1
PROPERTIES
    EveryoneEnds
    ParticipantsGetAll
