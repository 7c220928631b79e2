CONSTANTS
    Sixty = 4
    Hours = 2
    flushInterval_ = 1
    Starts <- FirstMinutes
    LastSecond = 13
    MaxLines = 4
CHECK_DEADLOCK FALSE
SPECIFICATION Spec
INVARIANTS TypeOK Inductive FilesInOrder OneFilePerUnit
PROPERTY UnflushedIsRecent
