CONSTANTS
    t1 = t1
    t2 = t2
    t3 = t3
    None = None
    Threads <- MCThreads
    Calls <- MCCalls
    MaxCalls <- WriteTwice
    MaxFailures = 1
    BatchSize = 2
    BufferSize = 1
    MaxGroup = 2
    L0Trigger = 1
    L0Slowdown = 1
    L0Stop = 2
    Pieces = 2
SPECIFICATION ThreadsSpec
INVARIANTS
    ReadsItsSnapshot
    AckedWritesAreKept
    SleepersAreWoken
PROPERTIES
    StoreGrowsByGroups
CHECK_DEADLOCK FALSE
