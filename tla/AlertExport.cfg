SPECIFICATION Spec
CONSTANTS
    k1 = k1
    k2 = k2
    k3 = k3
    Keys <- ThreeKeys
    MaxAlerts = 2
    SideMax = 2
    Cooldown = 2
    MaxTime = 3
    MaxSteps = 1
    MaxFiles = 2
    MaxOpens = 4
SYMMETRY AnyOrder
INVARIANTS DuplicatesAreTallied CoolNamesFile ReopensCounted
