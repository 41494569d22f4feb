SPECIFICATION SyncedSpec
INVARIANT SyncedIsRead
CHECK_DEADLOCK FALSE
