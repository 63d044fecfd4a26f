\* Two scaffolds of one version and an author of its variants.
SPECIFICATION Spec
CONSTANTS
    CaseIds = {"c1", "c2"}
    Seed <- MCSeed
    Edits = {"m1"}
    Scaffolders = {"p1", "p2"}
    Authors = {"a1"}
    Batches <- MCBatches
INVARIANTS
    ReceiptMeansWhole
    RefusalsLeaveNothing
    OutputsAreSound
PROPERTIES
    ScaffoldedStays
CHECK_DEADLOCK FALSE
