CONSTANTS
    ControlLimit = 2
    FrameSize = 3
    MaxFrames = 4
SPECIFICATION FairSpec
INVARIANTS TypeOK FramesAreWhole
PROPERTY WritesDrain
CHECK_DEADLOCK FALSE
