SPECIFICATION HttpPipelining
CONSTANTS
    HttpFlows = {f1}
    HttpFlowMax = 1
    HttpMisses = 0
    HttpSends = 3
    HttpTicks = 0
CHECK_DEADLOCK FALSE
INVARIANTS HttpNeverGuesses
