\* The program on every file of up to four records, over one connection that
\* may fail to open, and a server that may leave at any point.
CONSTANTS
    Main = m
    Threads = {m}
    NoThread = NoThread
    Frames <- SentFrames
    Records <- FileRecords
    Ssrcs = {1, 2}
    RTP_MTU = 4
    SECOND = 2
    CLOCK_RATE = 3
    TsMod = 8
    Saturating = TRUE
    FpShort = {2}
    SeqMod = 4
    CountMod = 8
    MaxSocks = 2
    MaxFrames = 4
    MaxReads = 4
    MAX_QUEUE_SIZE = 2
SPECIFICATION FairNetSpec
INVARIANTS
    MainTypeOK
    WireIsFile
    DeliveredIsOnWire
    NothingQueued
    CleanExit
    ReceivedIsFile
    NothingLost
PROPERTIES
    SessionDiscipline
    MainAdvances
    ProgramEnds
