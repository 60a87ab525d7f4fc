SPECIFICATION Spec
CONSTANTS
    Keys <- MCKeys
    Values = {1}
    Null = Null
    Wheres <- MCWheres
    Limits = {0, 2}
    SizeOf <- MCSizeOf
    Dimensions <- MCDimensions
    MaxAdded = 1
    SplitsSeen = TRUE
VIEW TreeForm
INVARIANTS TypeOK ScanMatchesModel LookupMatchesScan SelectMatchesModel ShapeKept 
CHECK_DEADLOCK FALSE
