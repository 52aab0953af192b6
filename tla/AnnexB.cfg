\* Every frame of up to ten bytes: two units, an empty one, a start code at
\* the very end, runs of zeros before a start code.  The scan stops when done.
CONSTANTS
    Byte = {0, 1, 2}
    MaxLen = 10
SPECIFICATION FairSpec
INVARIANTS
    TypeOK
    UnitsCutAtCodes
    NothingLeftOut
PROPERTIES
    ScanReturns
    ScanAdvances
CHECK_DEADLOCK FALSE
