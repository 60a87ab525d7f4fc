SPECIFICATION Spec
CONSTANTS
    Nodes <- MCNodes
    Keys = {k1}
    MaxOps = 3
    MaxNet = 2
    MaxClock = 3
INVARIANTS TypeOK ClockAhead LogExact UpdatesConverge 
CHECK_DEADLOCK FALSE
