CONSTANTS
    FrontEnds = {t1, t2}
    Main = main
    Waiters = {main}
    Count = 1
    Backend = backend
    NULL = NULL
    Size = 3
    DropAbove = 2
    MaxLines = 3
CHECK_DEADLOCK FALSE
SPECIFICATION FairSpec
INVARIANTS TypeOK LinesInv BuffersSuffice LatchSafe LossIsReported
PROPERTIES ImplementsLogQueue StartReturns FullBufferIsTaken LineReachesDisk DestructorReturns
