SPECIFICATION Spec
CONSTANTS
    Keys = {k1}
    NoData = none
    MaxTxns = 3
    MaxRunning = 2
    MaxWrites = 3
    NoSnapshot = none
VIEW RankedState
INVARIANTS TypeOK NoDirtyReads AtomicVisibility
PROPERTIES StableReads VacuumKeepsVisible
CHECK_DEADLOCK FALSE
