SPECIFICATION Spec
CONSTANTS
    k1 = k1
    k2 = k2
    k3 = k3
    k4 = k4
    Keys <- FourKeys
    Types <- TypeNames
    TypeOf <- Prolific
    Sevs = {1}
    Details = {d1}
    Nothing = Nothing
    MaxAlerts = 3
    UpdateMin = 1
    ResolveAfter = 1
    MaxTime = 1
    MaxIncidents = 4
    MaxSeq = 1
PROPERTIES EvictionIsFair
SYMMETRY Rivals
