CONSTANTS
    LoopThread = io
    Callers = {t1, t2}
    Channels = {c1}
    WakeupFd = wfd
    Functors = {f1, f2}
SPECIFICATION FairSpec
INVARIANTS TypeOK NoLostWakeup Inductive
PROPERTIES ImplementsTaskQueue QueuedFunctorRuns QuitTakesEffect ChannelsNotStarved
CHECK_DEADLOCK FALSE
