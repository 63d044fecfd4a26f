\* Two versions, one with a domain directory of its own; two discoveries, and one
\* each of: edit, killed command, freeze under the override.
CONSTANTS
    Ops = {escalate}
    Models = {opus, mock}
    MaxDiscoveries = 2
    MaxKills = 1
    Versions = {v2, v3}
    Versioned = {v3}
    Mock = mock
    MaxEdits = 1
    MaxOverwrites = 1
SPECIFICATION Spec
INVARIANTS
    LoadedBenchmarkIsValid
    LoadsAreReproducible
    AtMostOneActive
PROPERTIES
    ActiveIsReplacedNotLost
CHECK_DEADLOCK FALSE
