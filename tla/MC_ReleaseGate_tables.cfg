\* A ladder of twelve cells, ten cells of wordings and elicitations, and nine cells
\* of a baseline and a candidate, each in two cases, evaluated and checked at any
\* point.
SPECIFICATION GateSpec
CONSTANTS
    Matrices <- Runs
    Family <- Families
    VerbatimCases <- Literal
    MinCases = 2
    MinFamilies = 2
    MinValidity <- NinetyNine
    Baseline = "A1_DIRECT_CLARIFY"
    MaxFalseActions <- Zero
    MaxUnnecessary <- Zero
    MaxDrop <- Half
    MinResolved <- NinetyNine
    BaselineEligible = TRUE
INVARIANTS CohortsAgree BrokenCohortsAreNotInterpreted TablesAddUp PassingRunsAreSafe
CHECK_DEADLOCK FALSE
