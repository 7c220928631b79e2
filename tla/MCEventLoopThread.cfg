CONSTANTS
    LoopThread = io
    Owner = main
    Callers = {main}
    Channels = {c1}
    WakeupFd = wfd
    Functors = {f1, f2}
CHECK_DEADLOCK FALSE
SPECIFICATION FairThreadSpec
INVARIANTS ThreadTypeOK HandleIsLive ObjectOutlivesThread
PROPERTIES StartLoopReturns QuitWhileLoopingJoins
