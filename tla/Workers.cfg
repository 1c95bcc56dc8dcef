SPECIFICATION Spec
CONSTANTS
    DnsIps = {a1, a2, a3}
    DnsSlots = 2
    DnsQueueMax = 1
    DnsTtl = 1
    DnsTicks = 2
    DnsNobody = Nobody
    MonIfaces = {m1, m2}
    MonNone = None
    HopCount = 3
    HopBase = 1
    HopPerObs = 1
    HopMin = 1
    HopMaxDwell = 2
    HopFrames = 2
    HopLosses = 1
CHECK_DEADLOCK FALSE
INVARIANTS
    WorkersTypeOK DnsNamesOwn DnsPromisesKept MonHandleHeld
    MonVerdictIsTrue HopCreditIsTrue
PROPERTIES
    DnsWorkerServes MonDeathIsShown HopRevisits
