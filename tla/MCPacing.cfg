\* Two receivers that ask for nothing or for an eighth, of which either may go;
\* rates 1 to 3; credit for two shards at most, a batch of two, a channel of two.
\* The loop returns and stops.
SPECIFICATION Spec
CONSTANTS
    Receivers = {r1, r2}
    MinRate = 1
    InitialRate = 2
    Ceiling = 3
    SlowStartFactor = 4
    RecoveryTicks = 2
    GoodTicksNeeded = 2
    StaleTicks = 1
    Whole = 16
    Levels = {0, 2}
    Threshold = 0
    CleanNeeded = 1
    MaxSegments = 2
    Unit = 1
    Quantum = 1
    MinBurst = 1
    MaxBurst = 2
    Capacity = 2
    MaxIdle = 2
SYMMETRY Symmetry
INVARIANTS
    TypeOK
    RateIsKept
    NothingWaits
    CreditComes
PROPERTIES
    GrowthIsEarned
    OldDemandIsForgotten
    WideOnlyIfClean
CHECK_DEADLOCK FALSE
