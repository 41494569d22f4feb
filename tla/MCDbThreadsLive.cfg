CONSTANTS
    t1 = t1
    t2 = t2
    t3 = t3
    None = None
    Threads <- MCThreads
    Calls <- MCCalls
    MaxCalls <- Once
    MaxFailures = 1
    BatchSize = 1
    BufferSize = 0
    MaxGroup = 2
    L0Trigger = 1
    L0Slowdown = 1
    L0Stop = 1
    Pieces = 2
SPECIFICATION FairThreadsSpec
PROPERTIES
    CallsEnd
    ShutdownCompletes
CHECK_DEADLOCK FALSE
