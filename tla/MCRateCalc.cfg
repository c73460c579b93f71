CONSTANTS
    NumMonths = 2
    MonthLength = 4
    Window = 2
    BatchSize = 2
    KrakenLimit = 4
    GapChoices <- Outages

SPECIFICATION FairSpec
CHECK_DEADLOCK FALSE

INVARIANT TypeOK
INVARIANT IntervalsAscend
INVARIANT OneOvershoot
INVARIANT PairsAligned
INVARIANT CaughtUp
INVARIANT MissingIsMissing
PROPERTY UpdateEnds
