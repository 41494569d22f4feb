SPECIFICATION SplitSpec
INVARIANT EntriesNeverHop
CHECK_DEADLOCK FALSE
