SPECIFICATION FairSpec
CONSTANTS
    MaxFrame = 3
    MaxStarts = 2
    Scenes <- MCScenes
INVARIANTS
    Conservation
    EncoderFrames
    Drained
PROPERTIES
    CapturesEnd
CHECK_DEADLOCK FALSE
