CONSTANTS
    Ptrs = {p1, p2, p3, p4}
    NULL = NULL
    Fds = {3, 4, 5}
    ListenFd = 3
    MAX_EVENTS = 2
SPECIFICATION FairSpec
INVARIANTS NoFault InterestExact FdsOwned
PROPERTIES ConnectionsEnd
CHECK_DEADLOCK FALSE
