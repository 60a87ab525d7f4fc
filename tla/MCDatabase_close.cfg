SPECIFICATION Spec
CONSTANTS
    Threads = {t1, t2}
    Nobody = nobody
    Calls = {"dml", "ddl", "query", "begin", "commit", "rollback", "close"}
    MaxCalls = 4
    Capacity = 1
INVARIANT NothingPartlyApplied
CHECK_DEADLOCK FALSE
