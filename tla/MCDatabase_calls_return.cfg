SPECIFICATION Spec
CONSTANTS
    Threads = {t1, t2}
    Nobody = nobody
    Calls = {"dml", "ddl", "query", "begin", "commit", "rollback", "close"}
    MaxCalls = 3
    Capacity = 1
PROPERTY CallsReturn
CHECK_DEADLOCK FALSE
