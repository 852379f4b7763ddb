\* Two receivers and two runs of the sender, which would like both.  The
\* sender's run may end at any point, and besides one thing goes wrong: a
\* datagram lost or duplicated, a timer that fires early, a receiver killed.
SPECIFICATION FairSpec
CONSTANTS
    Receivers = {r1, r2}
    MinReceivers = 2
    MaxTransfers = 2
    MaxFaults = 1
INVARIANTS
    TypeOK
    MembersJoinedThis
    EvictedAreOut
PROPERTIES
    ImplementsMembership
    EveryoneIsGathered
    GhostsAreReaped
    StrandedGiveUp
CHECK_DEADLOCK FALSE
