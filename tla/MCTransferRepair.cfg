\* One receiver, a short last slice and two lost datagrams.
SPECIFICATION FairSpec
CONSTANTS
    r1 = r1
    Receivers = {r1}
    BlocksPerSlice = 2
    Parity = 0
    MaxLiveSlices = 2
    SliceCount = 2
    LastBlocks = 1
    SlowSinks = {}
    MaxInFlight = 1
    MaxReports = 1
    MaxFeedback = 1
    MaxLosses = 2
    MaxCopies = 0
    MaxTimeouts = 0
    MaxCrashes = 0
PROPERTIES
    EveryoneEnds
    ParticipantsGetAll
