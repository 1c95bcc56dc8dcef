SPECIFICATION RecordsSpec
CONSTANTS
    HttpFlows = {f1, f2, f3}
    HttpFlowMax = 2
    HttpMisses = 1
    HttpSends = 2
    HttpTicks = 1
    EapolPairs = {p1, p2}
    EapolMax = 1
    EapolNonces = {n1, n2}
    EapolRcMod = 2
    EapolWindow = 1
    EapolTicks = 2
    EapolNone = None
    Sevs = {1, 2}
    Details = {d1, d2}
    UpdateMin = 2
    IdMod = 10000
    MaxEvals = 6
    MaxQuiet = 4
    MaxAge = 6
    Keys = {k1, k2, k3}
    Sigs = {s1, s2}
    Ways = 2
    Heartbeat = 2
    Skews = {0, 1}
    MaxTime = 3
    None = None
    IncKeys = {a, b}
    IncSevs = {1, 2}
    IncQueueMax = 1
    IncPerKey = 1
    IncMax = 2
    IncTicks = 1
    IncRuns = 2
CHECK_DEADLOCK FALSE
INVARIANTS
    RecordsTypeOK HttpTrueAttribution EapolAttemptBacked EapolOneLinePerOffer
    UpdateRateBounded NothingIsWithheld HeartbeatKeptForward
    IncNothingLost IncKeyIsBounded
PROPERTIES ColdestGoes IncFileKeepsItsWord
