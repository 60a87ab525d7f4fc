CONSTANTS
    MaxPages = 2
    Values = {blank, a}
    Blank = blank
    NoPage = NoPage
    Torn = Torn
    Untouched = Untouched
    MaxCache = 1
    CheckpointAt = 1
    Faults = {"append", "append_sync", "page_write", "data_sync", "truncate"}
    MaxFaults = 1
SPECIFICATION Spec
INVARIANTS PagesReadable CrashSafe RecoveryMendsTornPages
PROPERTIES ImplementsAtomicStore AckedCommitDurable
