SPECIFICATION Spec
CONSTANTS
    Roads <- MCRoads
    Unit = 10
    Boundary = 4
    DogSpeed = 5
    TickLengths <- MCTickLengths
    RandomSpawn = FALSE
PROPERTIES
    ArrivesInsideRoadArea
