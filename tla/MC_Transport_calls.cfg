\* Two cells of up to two invocations each, two providers with different retry
\* and cut-off words, two retries: threads interleave within the shared log.
SPECIFICATION FairSpec
CONSTANTS
    Cells = {"c1", "c2"}
    MaxCalls = 2
    MaxRetries = 2
    ProviderOf <- MCProviders
    Keyed = {"openai", "anthropic"}
INVARIANTS
    RetriesAreAccounted
    HealthyRunsTraceWhatTheyPaid
PROPERTIES
    RunIsJudged
    ImplementsInvocations
CHECK_DEADLOCK FALSE
