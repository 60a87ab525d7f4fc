SPECIFICATION Spec
CONSTANTS
    Threads = {t1, t2}
    Nobody = nobody
    Calls = {"dml", "query", "begin", "commit", "rollback"}
    MaxCalls = 4
    Capacity = 1
INVARIANT TransactionDatabaseWide
CHECK_DEADLOCK FALSE
