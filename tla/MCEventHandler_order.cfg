SPECIFICATION Spec
CONSTANTS
    h1 = h1
    h2 = h2
    c1 = c1
    c2 = c2
    Handler = {h1}
    Caller = {c1, c2}
    May <- MayOne
    Period <- MCPeriod
    Event = {e1, timeout}
    Timeout = timeout
    NoEvent = noEvent
    Free = free
    Clock = clock
    Forever = 9
    MaxTime = 1
    MaxConnects = 2
    EVENT_QUEUE_DEFAULT_INITIAL_CAPACITY = 1
INVARIANT LocksInOrder
CHECK_DEADLOCK FALSE
