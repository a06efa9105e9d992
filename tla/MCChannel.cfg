SPECIFICATION FairSpec
CONSTANTS
    A = A  B = B  meta = meta  preview = preview  snapshot = snapshot
    t1 = t1  t2 = t2  None = None
    Channels = {A, B}
    Streams = {meta, preview, snapshot}
    Threads = {t1, t2}
    Owner <- MCOwner
    MetaStream = meta
    MaxStreams = 2
    MaxFrames <- MCMaxFrames
    Keep = 1
    MaxRequests = 1
    Scenes <- AllScenes
INVARIANTS AllOrNothing FramesExact
PROPERTY CallsReturn
CHECK_DEADLOCK FALSE
