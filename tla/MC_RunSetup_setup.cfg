\* Every configuration of the tables, for one command, and a rival to it.
SPECIFICATION MCSpec
CONSTANTS
    NCases = 3
    Split <- MCSplit
    Executable = {1, 3}
    Procedural = {1, 3}
    Rendered = {1, 3}
    Elicited = {1}
    Requests <- MCRequests
    Behavior <- MCBehavior
    Processes = {"p1", "p2"}
    RunIds = {"r1", "r2"}
    Configs <- MCConfigs
    ModelConfigs <- MCModels
INVARIANTS
    MatrixIsSound
    StatedRolesCoverTheMatrix
    OneRunPerDirectory
CHECK_DEADLOCK FALSE
