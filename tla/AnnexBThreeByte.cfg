\* Frames whose start codes may have three bytes.
CONSTANTS
    Byte = {0, 1, 2}
    MaxLen = 9
SPECIFICATION Spec
INVARIANT NoCodeInsideUnit
CHECK_DEADLOCK FALSE
