SPECIFICATION FairSpec
CONSTANTS
    Peers = {p1, p2}
    Conns = {c1, c2, c3}
    MaxClients = 2
    PeerCap = 1
    StallSecs = 1
    IdleSecs = 2
    FileSink = TRUE
INVARIANTS SlotsAreShared EveryClientIsOffered BaselineReachesAll
PROPERTIES StuckConnectionsEnd
