\* Two threads, three cells, evaluations at any moment: cells finish out of order,
\* both threads can be past the stop check when the first call fails, and a cell
\* remains to be skipped.
CONSTANTS
    N = 3
    Concurrency = 2
SPECIFICATION FairEvalSpec
INVARIANTS
    FailuresBoundedByPool
    CellsAreAccounted
    GatePassesCleanRunsOnly
PROPERTIES
    EveryVerdictIsOfOneMoment
    VerdictNeverImproves
    ImplementsLedger
CHECK_DEADLOCK FALSE
