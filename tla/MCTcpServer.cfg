CONSTANTS
    NumThreads = 2
    Clients = {c1, c2}
    Failed = {x1, x2}
    Fds = {3, 4}
    MaxSends = 1
CHECK_DEADLOCK FALSE
SPECIFICATION Spec
SYMMETRY Symmetry
INVARIANTS TypeOK DispatchSafe WatchedIsOwned RoundRobin
PROPERTY EpollConfined
