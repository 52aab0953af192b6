\* Does stop() close whatever start() opened?
CONSTANTS
    Threads = {t1, t2}
    NoThread = NoThread
    Frames <- ShortFrames
    Ssrcs = {1, 2}
    RTP_MTU = 4
    SECOND = 2
    CLOCK_RATE = 3
    TsMod = 8
    Saturating = TRUE
    FpShort = {2}
    SeqMod = 4
    CountMod = 8
    MaxSocks = 2
    MaxFrames = 2
SPECIFICATION Spec
PROPERTY StopCleansUp
