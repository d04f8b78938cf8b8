SPECIFICATION Spec
CONSTANTS
    Maps = {map1, town, moor}
    MapsWithStart = {map1, town}
    OtherMaps = {nowhere}
    Commands = {"LEFT", "STOP"}
    Tokens = {t1, t2, t3}
    MaxPlayers = 3
    MaxShifts = 1
SYMMETRY Symmetry
CHECK_DEADLOCK FALSE
INVARIANTS TypeOK TokenFindsItsPlayer SessionsHoldTheirPlayers
PROPERTIES ErrorsChangeNothing TokenActsForItsPlayer
