SPECIFICATION ClockSpec
CONSTANTS
    BaseInterval = 2
    KeepNum = 1
    KeepDen = 2
    TimeCap = 8
    Deltas <- MCDeltas
    MaxLooters = 4
    Period = 2
    UnitsPerMs = 2
    MsPerSecond = 2
    MaxGap = 9
INVARIANTS
    LootNeverExceedsLooters
    GenerationGrowsWithTime
PROPERTIES
    TicksTellTheTime
    TicksKeepTheirDistance
    ShortageMadeUp
