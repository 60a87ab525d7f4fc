SPECIFICATION Spec
CONSTANTS
    Tasks = {t1, t2}
    Values = {a}
    Blank = blank
    Capacity = 1
    MaxPages = 3
    MaxCalls = 3
INVARIANTS TypeOK PagesCurrent ReadsServed CacheBounded
PROPERTY CallsFinish
CHECK_DEADLOCK FALSE
