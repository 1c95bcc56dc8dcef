SPECIFICATION Spec
CONSTANTS
    QueueMax = 8
    FirstCap = 3
    Sizes = {1, 3, 9}
    MarkSize = 2
    MaxOffered = 6
INVARIANTS NoSilentGap BufferHoldsQueue
PROPERTIES ImplementsFeed
