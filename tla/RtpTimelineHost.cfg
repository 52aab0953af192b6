\* The clock of the host build, which wraps: frames of any pts in any order.
CONSTANTS
    SECOND = 25
    CLOCK_RATE = 9
    TsMod = 16
    Saturating = FALSE
    FpShort = {25, 75}
    Pts <- PtsRange
SPECIFICATION ClockSpec
PROPERTY TracksElapsed
