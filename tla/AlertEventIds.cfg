SPECIFICATION Spec
CONSTANTS
    Sevs = {1, 2}
    Details = {d1}
    UpdateMin = 1
    IdMod = 10000
    MaxEvals = 10001
    MaxQuiet = 0
    MaxAge = 0
CHECK_DEADLOCK FALSE
PROPERTIES EventIdsIncrease
