-------------------------------- MODULE RunSetup --------------------------------
(* From a run configuration to the first cell: lexstab/run.py                 *)
(* (required_model_roles, build_run_context, write_run_manifest and the head  *)
(* of execute_run), lexstab/config.py and lexstab/providers/registry.py.      *)
(*                                                                            *)
(* Processes set up runs at the same time, under a run id each was given, and *)
(* may be killed; the analysis plan may be frozen meanwhile.  Everything a    *)
(* process reads to build its context is read in one step: nobody edits the   *)
(* configuration files during a command.                                      *)
EXTENDS Matrix

CONSTANTS Processes,      \* commands that start a run
          RunIds,         \* ids they are started under
          Configs,        \* run configurations
          ModelConfigs    \* model configurations: the roles and the policy

ASSUME SetupAssumption == "nobody" \notin Processes

VARIABLES
    at,         \* where each process is
    config,     \* its run configuration
    models,     \* its model configuration
    runId,      \* the id of its run
    ready,      \* ctx.providers: the roles it has built an adapter for
    matrix,     \* the cells of its run
    plan,       \* docs/ANALYSIS_PLAN.md exists
    dirs,       \* runs/: the run directories and the process that made each
    manifests   \* run-manifest.json of each run id, or NoManifest

processVars == <<config, models, runId, ready, matrix>>
vars == <<at, processVars, plan, dirs, manifests>>

NoManifest == [written |-> FALSE, owner |-> "nobody", eligible |-> FALSE, plan |-> FALSE]

Roles == {"execution_primary", "boundary_canonicalizer", "adequacy_assessor",
          "procedure_router", "authoring_generator"}
-------------------------------------------------------------------------------
(* required_model_roles                                                       *)

InRange(s) == {s[i] : i \in DOMAIN s}

\* A key that is absent counts as empty here; expand_matrix takes the default.
Stated(value) == IF value = Absent THEN {} ELSE InRange(value)

EnabledArchs(c) ==
    InRange(c.boundary) \cup InRange(c.post) \cup InRange(c.intent) \cup InRange(c.memory)
        \cup (IF c.formal.enabled
              THEN Stated(c.formal.conditions) \cup Stated(c.formal.persistence) ELSE {})
        \cup (IF c.agent.enabled THEN Stated(c.agent.conditions) ELSE {})

Gated == {"B_EXTERNAL_GATE", "B_EXTERNAL_GATE_GOLD"}
Canonicalizing ==
    {"B_RUNTIME", "C_RUNTIME", "M3_CANONICAL_RESOLVER", "P2_CANONICAL_PROPOSAL",
     "P3_CANONICAL_PROCEDURE_PROPOSAL", "P4_CANONICAL_PROCEDURE_TOOL",
     "LP1_CANONICAL_ONCE", "LP2_CANONICAL_PROCEDURE", "LP3_CANONICAL_PROCEDURE_TOOL",
     "AL_CANONICAL", "AL_RENDERED", "AL_DRIFT"} \cup Gated

\* Mutation: the control that routes procedures at run time is overlooked.
RequiredRolesWithoutRouter(c) ==
    {"execution_primary"}
    \cup (IF EnabledArchs(c) \cap Canonicalizing # {} THEN {"boundary_canonicalizer"} ELSE {})
    \cup (IF EnabledArchs(c) \cap Gated # {} THEN {"adequacy_assessor"} ELSE {})
    \cup (IF c.agent.enabled /\ "AL_DRIFT" \in Stated(c.agent.conditions)
          THEN {"authoring_generator"} ELSE {})

RequiredRoles(c) ==
    {"execution_primary"}
    \cup (IF EnabledArchs(c) \cap Canonicalizing # {} THEN {"boundary_canonicalizer"} ELSE {})
    \cup (IF EnabledArchs(c) \cap Gated # {} THEN {"adequacy_assessor"} ELSE {})
    \cup (IF /\ c.formal.enabled /\ c.formal.ablations = "yes"
             /\ "P3_CANONICAL_PROCEDURE_PROPOSAL" \in Stated(c.formal.conditions)
          THEN {"procedure_router"} ELSE {})
    \cup (IF c.agent.enabled /\ "AL_DRIFT" \in Stated(c.agent.conditions)
          THEN {"authoring_generator"} ELSE {})

\* The roles the flow of a cell may invoke (runner.py; see Cell): besides the executor
\* those of the external gate, the canonicalizer where the intent is not injected, the
\* router of a runtime selection and the author of drifted labels.
GateRoles(cell) ==
    IF cell.arch \in Gated THEN {"boundary_canonicalizer", "adequacy_assessor"} ELSE {}

BoundaryRoles(cell) ==
    IF cell.arch \in Canonicalizing /\ cell.intent # "gold" THEN {"boundary_canonicalizer"} ELSE {}

RouterRoles(cell) == IF cell.selection = "runtime" THEN {"procedure_router"} ELSE {}

DriftRoles(cell) == IF cell.arch = "AL_DRIFT" THEN {"authoring_generator"} ELSE {}

Invokes(cell) ==
    {"execution_primary"} \cup GateRoles(cell) \cup BoundaryRoles(cell)
        \cup RouterRoles(cell) \cup DriftRoles(cell)
-------------------------------------------------------------------------------
(* build_run_context                                                          *)

Enabled(m, r) == r \in DOMAIN m.roles /\ m.roles[r].enabled

\* substitute_env, strict for the enabled roles the run needs: a variable that
\* is not set.
EnvironmentLacks(m, needed) ==
    \E r \in needed : Enabled(m, r) /\ m.roles[r].model = "unset"

\* validate_role_separation: here the data generator; the judge and the critics
\* are compared the same way.
Overlapping(m) ==
    /\ Enabled(m, "execution_primary") /\ Enabled(m, "authoring_generator")
    /\ m.roles["execution_primary"].model # "unset"
    /\ m.roles["execution_primary"].provider = m.roles["authoring_generator"].provider
    /\ m.roles["execution_primary"].model = m.roles["authoring_generator"].model

ContextRefused(c, m) ==
    LET needed == RequiredRoles(c) IN
    \/ EnvironmentLacks(m, needed)
    \/ Overlapping(m) /\ ~m.overlapAllowed
    \/ \E r \in needed : ~Enabled(m, r)
    \/ Refused(c)

\* ctx.mocked
Mocked(p) == \E r \in ready[p] : models[p].roles[r].provider = "mock"
-------------------------------------------------------------------------------
Init ==
    /\ at = [p \in Processes |-> "starting"]
    /\ config \in [Processes -> Configs]
    /\ models \in [Processes -> ModelConfigs]
    /\ runId \in [Processes -> RunIds]
    /\ ready = [p \in Processes |-> {}]
    /\ matrix = [p \in Processes |-> {}]
    /\ plan \in BOOLEAN
    /\ dirs = [id \in RunIds |-> "nobody"]
    /\ manifests = [id \in RunIds |-> NoManifest]

Goto(p, there) == at' = [at EXCEPT ![p] = there]

Refuse(p) ==
    /\ Goto(p, "refused")
    /\ UNCHANGED <<processVars, plan, dirs, manifests>>

BuildContext(p) ==
    /\ at[p] = "starting"
    /\ IF ContextRefused(config[p], models[p]) THEN Refuse(p)
       ELSE /\ ready' = [ready EXCEPT ![p] = RequiredRoles(config[p])]
            /\ matrix' = [matrix EXCEPT ![p] = CellsOf(config[p])]
            /\ Goto(p, "built")
            /\ UNCHANGED <<config, models, runId, plan, dirs, manifests>>

\* Mutation: the seal is looked at after the manifest.
PassSealAnyway(p) ==
    /\ at[p] = "built"
    /\ Goto(p, "unsealed")
    /\ UNCHANGED <<processVars, plan, dirs, manifests>>

\* The held-out split needs a frozen analysis plan.
PassSeal(p) ==
    /\ at[p] = "built"
    /\ IF config[p].split = "test" /\ ~plan THEN Refuse(p)
       ELSE Goto(p, "unsealed") /\ UNCHANGED <<processVars, plan, dirs, manifests>>

\* Mutation: mkdir with exist_ok.
TakeDirectory(p) ==
    /\ at[p] = "unsealed"
    /\ dirs' = [dirs EXCEPT ![runId[p]] = p]
    /\ Goto(p, "owning")
    /\ UNCHANGED <<processVars, plan, manifests>>

\* run_dir.mkdir(exist_ok=False)
MakeDirectory(p) ==
    /\ at[p] = "unsealed"
    /\ IF dirs[runId[p]] # "nobody" THEN Refuse(p)
       ELSE /\ dirs' = [dirs EXCEPT ![runId[p]] = p]
            /\ Goto(p, "owning")
            /\ UNCHANGED <<processVars, plan, manifests>>

WriteManifest(p) ==
    /\ at[p] = "owning"
    /\ manifests' = [manifests EXCEPT ![runId[p]] =
          [written  |-> TRUE, owner |-> p, plan |-> plan,
           eligible |-> models[p].roles["execution_primary"].eligible /\ ~Mocked(p)]]
    /\ Goto(p, "executing")
    /\ UNCHANGED <<processVars, plan, dirs>>

\* A maintainer commits the analysis plan.
FreezePlan ==
    /\ ~plan
    /\ plan' = TRUE
    /\ UNCHANGED <<at, processVars, dirs, manifests>>

Kill(p) ==
    /\ at[p] \notin {"refused", "executing", "killed"}
    /\ Goto(p, "killed")
    /\ UNCHANGED <<processVars, plan, dirs, manifests>>

Setup(p) == BuildContext(p) \/ PassSeal(p) \/ MakeDirectory(p) \/ WriteManifest(p)

Next == FreezePlan \/ \E p \in Processes : Setup(p) \/ Kill(p)

Spec == Init /\ [][Next]_vars
-------------------------------------------------------------------------------
TypeOK ==
    /\ at \in [Processes -> {"starting", "built", "unsealed", "owning", "executing",
                             "refused", "killed"}]
    /\ \A p \in Processes : ready[p] \subseteq {r \in Roles : Enabled(models[p], r)}
    /\ plan \in BOOLEAN
    /\ dirs \in [RunIds -> Processes \cup {"nobody"}]
    /\ \A id \in RunIds : manifests[id].owner \in Processes \cup {"nobody"}
    /\ \A p \in Processes : matrix[p] \subseteq CellsOf(config[p])

Executing(p) == at[p] = "executing"

ListsOnce(s) == \A i, j \in DOMAIN s : s[i] = s[j] => i = j

\* The lists of the configuration name nothing twice.
WellListed(c) ==
    \A s \in {c.boundary, c.post, c.intent, c.memory, c.formal.conditions,
              c.formal.persistence, c.formal.modes, c.agent.conditions, c.agent.modes} :
        ListsOnce(s)

\* "deterministic globally unique IDs" (matrix.py): no two appends of an
\* expansion are the same cell, though tracks, modes and the controls of P3
\* overlap in all but one part; for configurations that name nothing twice.
CellsAreUnique ==
    \A p \in Processes :
        WellListed(config[p]) /\ at[p] # "refused" =>
            \A e, f \in Entries(config[p]) : e.cell = f.cell => e.slot = f.slot

\* The configuration leaves no list and no switch to its default.
FullyStated(c) ==
    /\ c.formal.enabled =>
          /\ c.formal.conditions # Absent /\ c.formal.persistence # Absent
          /\ c.formal.ablations # "absent"
    /\ c.agent.enabled => c.agent.conditions # Absent

\* A run that starts has an adapter for every role its cells may invoke, so that
\* no cell becomes a harness error for want of one: the roles are derived from
\* the lists of the configuration, the cells from the expansion of those lists.
\* For configurations that state every list (see ProvidersCoverTheMatrix).
StatedRolesCoverTheMatrix ==
    \A p \in Processes :
        Executing(p) /\ FullyStated(config[p]) =>
            \A cell \in matrix[p] : Invokes(cell) \subseteq ready[p]

\* An explicit request id that passed the checks is in the matrix of every track
\* that takes requests as they are (boundary and memory), whatever case, limit
\* and label filters stand beside it.
ExplicitRequestsEnter ==
    \A p \in Processes :
        Executing(p) /\ (config[p].boundary # <<>> \/ config[p].memory # <<>>) =>
            \A r \in config[p].requests : \E cell \in matrix[p] : cell.request = r

\* The matrix of a run is what its configuration asks for: no cell is listed twice,
\* and no request that was asked for by name and accepted is missing.
MatrixIsSound == CellsAreUnique /\ ExplicitRequestsEnter

\* No cell of a baseline-eligible run is answered by the mock provider, in any of
\* its roles.
EligibleRunsAreReal ==
    \A p \in Processes :
        Executing(p) /\ manifests[runId[p]].eligible =>
            \A cell \in matrix[p] : \A r \in Invokes(cell) \cap ready[p] :
                models[p].roles[r].provider # "mock"

\* However commands under one run id interleave, a run directory belongs to one
\* of them: its manifest is of the process that made it, only that one executes,
\* and a run of the held-out split has recorded the plan it was frozen under.
OneRunPerDirectory ==
    /\ \A id \in RunIds : manifests[id].written => manifests[id].owner = dirs[id]
    /\ \A p \in Processes : Executing(p) =>
          /\ dirs[runId[p]] = p
          /\ config[p].split = "test" => manifests[runId[p]].plan

\* "immutable after first model invocation" (run.py): a manifest that stands is
\* not replaced, by its own process or another.
ManifestsAreFinal ==
    [][\A id \in RunIds : manifests[id].written => manifests'[id] = manifests[id]]_vars

\* run.py, required_model_roles: "Return exactly the enabled roles the selected
\* matrix can invoke."
ProvidersCoverTheMatrix ==
    \A p \in Processes : Executing(p) =>
        \A cell \in matrix[p] : Invokes(cell) \subseteq ready[p]

\* docs/ANALYSIS_PLAN.md: executing the held-out test split refuses to start
\* when the plan is absent.
HeldOutCasesStaySealed ==
    \A p \in Processes : Executing(p) =>
        \A cell \in matrix[p] : Split[cell.case] = "test" => manifests[runId[p]].plan

\* matrix.py, _validate_explicit_requests: "Refuse to pretend an explicitly
\* requested stimulus entered the matrix."
RequestedStimuliEnter ==
    \A p \in Processes : Executing(p) =>
        \A r \in config[p].requests : \E cell \in matrix[p] : cell.request = r
================================================================================
