\* Three cases, one with two cells, two resamples, and a family of four tests.
SPECIFICATION InferenceSpec
CONSTANTS
    Keys <- ThreeCases
    Samples = 2
    Outside <- Half
    Margin <- Tenth
    Names = {n1, n2, n3, n4}
    PValues <- Dyadic
    Denominator = 64
    Alpha <- FivePercent
INVARIANTS IntervalsAreOfTheCases TestsAreExact
CHECK_DEADLOCK FALSE
