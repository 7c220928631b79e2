CONSTANTS
    NumThreads = 1
    Clients = {c1, c2}
    Failed = {}
    Fds = {3, 4}
    MaxSends = 2
CHECK_DEADLOCK FALSE
SPECIFICATION FairSpec
PROPERTIES BacklogAccepted Served ClosedIsRemoved
