SPECIFICATION Spec
CONSTANTS
    CommandLines <- MCCommandLines
    Configs <- MCConfigs
    Files <- MCFiles
    Locked <- MCLocked
    Root <- MCRoot
    Methods <- MCMethods
    GameQueries <- MCGameQueries
    TickQuery <- Tick
    Requests <- MCRequests
CHECK_DEADLOCK FALSE
INVARIANTS
    ServesOnlyWholeConfigurations
    MapsAnswerTheConfiguration
    EscapesMakeNoDifference
    AnswersFromTheRoot
