CONSTANTS
    NumThreads = 1
    Clients = {c1}
    Failed = {x1}
    Fds = {3}
    MaxSends = 1
CHECK_DEADLOCK FALSE
SPECIFICATION Spec
INVARIANT NoUseAfterFree
