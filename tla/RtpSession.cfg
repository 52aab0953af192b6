\* Two threads, two sockets, three frames: every interleaving of sendFrame,
\* start, stop and the loss of the peer.
CONSTANTS
    Threads = {t1, t2}
    NoThread = NoThread
    Frames <- MixedFrames
    Ssrcs = {1, 2}
    RTP_MTU = 4
    SECOND = 2
    CLOCK_RATE = 3
    TsMod = 8
    Saturating = TRUE
    FpShort = {2}
    SeqMod = 4
    CountMod = 8
    MaxSocks = 2
    MaxFrames = 3
SPECIFICATION Spec
SYMMETRY ThreadSymmetry
INVARIANTS
    TypeOK
    PacketsSound
    FragmentsReassemble
    FramesContiguous
    CountersMatchWire
    OneSsrcPerConnection
    ReportsSpaced
    TimestampsFollowPts
PROPERTY TurnsAdvance
