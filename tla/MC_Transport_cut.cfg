\* One cell whose answer an Anthropic model had to cut at its token limit.
SPECIFICATION Spec
CONSTANTS
    Cells = {"c1"}
    MaxCalls = 2
    MaxRetries = 1
    ProviderOf <- MCAnthropic
    Keyed = {"anthropic"}
INVARIANTS
    CutAnswersAreUnhealthy
CHECK_DEADLOCK FALSE
