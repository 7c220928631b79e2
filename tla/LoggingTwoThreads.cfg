CONSTANTS
    IntMax = 127
    kSmallBuffer = 104
    kMaxNumericSize = 32
    TextLengths = {6}
    IntValues <- MCIntValues
    DoubleLengths = {19}
    Threads = {t1, t2}
    kTime = 19
    LevelNames = {5}
    FileNames = {7}
    LineNumbers = {42}
    MaxItems = 0
    MaxClock = 2
SPECIFICATION Spec
INVARIANT TimeIsItsOwn
