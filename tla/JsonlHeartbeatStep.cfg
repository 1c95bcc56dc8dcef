SPECIFICATION DedupSpec
CONSTANTS
    Keys = {k1, k2, k3}
    Sigs = {s1, s2}
    Ways = 2
    Heartbeat = 2
    Skews = {0, 2}
    MaxTime = 3
    None = None
INVARIANTS HeartbeatKept
