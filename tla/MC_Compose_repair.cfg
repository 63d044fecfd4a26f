\* Every repair run and choice of tracks for one command, another one that composes
\* into the same directory, and a base run in any state.
SPECIFICATION MCSpec
CONSTANTS
    Cells = {"b1", "b2", "i1"}
    TrackOf <- MCTrackOf
    Composers = {"p1", "p2"}
    Bases <- MCBases
    Repairs <- MCRepairs
INVARIANTS
    CompositeIsWhole
    NothingFailedIsKept
PROPERTIES
    OutputsHaveOneAuthor
CHECK_DEADLOCK FALSE
