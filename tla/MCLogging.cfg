CONSTANTS
    IntMax = 127
    kSmallBuffer = 104
    kMaxNumericSize = 32
    TextLengths = {0, 1, 6, 38, 68, 70, 130, 300}
    IntValues <- MCIntValues
    DoubleLengths = {1, 19}
    Threads = {t1}
    kTime = 19
    LevelNames = {4, 5}
    FileNames = {7}
    LineNumbers = {42}
    MaxItems = 3
    MaxClock = 3
CHECK_DEADLOCK FALSE
SPECIFICATION Spec
INVARIANTS TypeOK NeverOverruns NumbersReadBack DroppedForWantOfRoom TimeIsItsOwn
