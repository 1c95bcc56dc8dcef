SPECIFICATION FairSpec
CONSTANTS
    k1 = k1
    k2 = k2
    k3 = k3
    k4 = k4
    Keys <- TwoKeys
    Types <- TypeNames
    TypeOf <- ByPairs
    Sevs = {1, 2}
    Details = {d1, d2}
    Nothing = Nothing
    MaxAlerts = 1
    UpdateMin = 1
    ResolveAfter = 2
    MaxTime = 0
    MaxIncidents = 3
    MaxSeq = 2
INVARIANTS StreamMatchesEngine StaleDetailIsRecent
PROPERTIES ImplementsStream QuietIncidentsClose
