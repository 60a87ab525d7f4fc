CONSTANTS
    MaxPages = 2
    Values = {blank, a}
    Blank = blank
    NoPage = NoPage
    Torn = Torn
    Untouched = Untouched
    MaxCache = 1
    CheckpointAt = 2
    Faults = {"truncate_sync"}
    MaxFaults = 1
SPECIFICATION Spec
PROPERTY AckedCommitDurable
