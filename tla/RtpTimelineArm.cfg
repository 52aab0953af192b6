\* The clock of the ARM build, which saturates: frames of any pts in any order.
CONSTANTS
    SECOND = 25
    CLOCK_RATE = 9
    TsMod = 16
    Saturating = TRUE
    FpShort = {25, 75}
    Pts <- PtsRange
SPECIFICATION ClockSpec
INVARIANT CountsFromFirst
PROPERTY NeverBack
