\* Two candidate files and three requests, one of which may correct another; one
\* review is killed.
CONSTANTS
    Batches = {manual, generated}
    Manual = manual
    MaxRequests = 3
    MaxKills = 1
SPECIFICATION RequestSpec
INVARIANTS
    CorpusIsSound
PROPERTIES
    ApprovedHistoryIsKept
CHECK_DEADLOCK FALSE
