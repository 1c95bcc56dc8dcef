SPECIFICATION Spec
CONSTANTS
    Keys = {k1, k2, k3, k4}
    NoKey = NoKey
    Policies = {"OLDEST", "REFUSE_AGING", "RING"}
    Cap = 3
    AgeSecs = 2
    Window = 1
    MaxTime = 2
    MaxWanted = 8
INVARIANTS LossIsTallied
PROPERTIES DisplacedWasDue ExpireIsExact
SYMMETRY KeysAlike
