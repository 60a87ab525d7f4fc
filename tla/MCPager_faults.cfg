CONSTANTS
    MaxPages = 2
    Values = {blank, a}
    Blank = blank
    NoPage = NoPage
    Torn = Torn
    Untouched = Untouched
    MaxCache = 1
    CheckpointAt = 2
    Faults = {"append", "append_sync", "set_len", "page_write", "data_sync", "truncate", "truncate_sync", "kill"}
    MaxFaults = 1
SPECIFICATION Spec
INVARIANTS TypeOK CacheCoherent CacheBounded CommittedInFile
PROPERTY CommittedChangesOnlyByCommit
