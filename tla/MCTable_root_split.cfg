SPECIFICATION Spec
CONSTANTS
    Keys <- MCKeys
    Values = {1}
    Null = Null
    Wheres <- MCWheres
    Limits = {0, 2}
    SizeOf <- MCSizeOf
    Dimensions <- MCDeep
    MaxAdded = 1
    SplitsSeen = FALSE
VIEW TreeForm
INVARIANT ScanMatchesModel
CHECK_DEADLOCK FALSE
