SPECIFICATION FairSpec
CONSTANTS
    Roads <- MCRoads
    Unit = 10
    Boundary = 4
    DogSpeed = 5
    TickLengths <- MCTickLengths
    RandomSpawn = TRUE
INVARIANTS
    TypeOK
    IInv
    NearOwnRoad
PROPERTIES
    MoveEndsAtGoalOrStopped
    StepsMakeTheWalk
    MoveTerminates
    AbandonedDogStops
    TurnsOnlyAtJunctions
