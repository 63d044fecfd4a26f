\* Two operations, up to three samples, a limit of two invalid answers in a row,
\* and one killed session; the number of sessions is not bounded.
CONSTANTS
    Ops = {1, 2}
    MaxSamples = 3
    Limit = 2
    MaxRows = 4
    MaxCrashes = 1
SPECIFICATION FairSpec
INVARIANTS
    LedgerIsWellFormed
    OutputsMatchLedger
    PaidAnswersAreKept
PROPERTIES
    SessionEnds
CHECK_DEADLOCK FALSE
