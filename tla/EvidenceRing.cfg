SPECIFICATION Spec
CONSTANTS
    Sizes <- McSizes
    Frames <- McFrames
    FrameMax = 3
    NoFrame = NoFrame
    MaxId = 6
INVARIANTS LossIsTallied
PROPERTIES ImplementsLog
