SPECIFICATION Spec
CONSTANTS
    Roads <- Street
    Unit = 20
    Boundary = 8
    DogSpeed = 28
    Dogs = {rex, bim}
    Commands <- MCCommands
    Offices <- MCOffices
    LootTypes <- MCLootTypes
    Worth <- MCWorth
    ScoreRange = 3
    TickLengths <- MCTickLengths
    QuantaPerSecond = 2
    MaxThings = 3
    DogWidth = 6
    OfficeWidth = 5
    BaseInterval = 1
    KeepNum = 1
    KeepDen = 2
    TimeCap = 2
    RandomSpawn = TRUE
SYMMETRY Symmetry
INVARIANTS
    TypeOK
    LootLivesOnce
    ScoreIsWorthDelivered
    WaysAreSwept
PROPERTIES
    KeepsLedger
    DrivesGenerator
