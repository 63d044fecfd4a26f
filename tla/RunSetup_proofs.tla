---------------------------- MODULE RunSetup_proofs ----------------------------
(* Proofs about RunSetup for every benchmark, every set of run and model        *)
(* configurations, and any number of commands and run ids.                      *)
EXTENDS RunSetup, TLAPS

Places == {"starting", "built", "unsealed", "owning", "executing", "refused", "killed"}

\* The shape of the variables, as far as TypeOK leaves it open.
Shape ==
    /\ at \in [Processes -> Places]
    /\ config \in [Processes -> Configs]
    /\ models \in [Processes -> ModelConfigs]
    /\ runId \in [Processes -> RunIds]
    /\ ready \in [Processes -> SUBSET Roles]
    /\ matrix \in [Processes -> SUBSET UNION {CellsOf(c) : c \in Configs}]
    /\ plan \in BOOLEAN
    /\ dirs \in [RunIds -> Processes \cup {"nobody"}]
    /\ manifests \in [RunIds -> [written : BOOLEAN, owner : Processes \cup {"nobody"},
                                 eligible : BOOLEAN, plan : BOOLEAN]]

\* A process has no context yet, or the one its configurations ask for.
Contexts ==
    \A p \in Processes :
        \/ ready[p] = {} /\ matrix[p] = {} /\ at[p] \in {"starting", "refused", "killed"}
        \/ /\ ready[p] = RequiredRoles(config[p])
           /\ matrix[p] = CellsOf(config[p])
           /\ ~Refused(config[p])
           /\ \A r \in ready[p] : Enabled(models[p], r)

\* Between mkdir and the end a directory is its process's; a process past the
\* seal has seen the plan or needs none; and a manifest is of the process whose
\* directory it is in, which has not moved since.
Directories ==
    /\ \A p \in Processes : at[p] \in {"owning", "executing"} => dirs[runId[p]] = p
    /\ \A p \in Processes :
          at[p] \in {"unsealed", "owning"} /\ config[p].split = "test" => plan
    /\ \A p \in Processes : at[p] = "executing" => manifests[runId[p]].written
    /\ \A id \in RunIds : manifests[id].written =>
          \E q \in Processes :
             /\ dirs[id] = q /\ runId[q] = id /\ at[q] = "executing"
             /\ manifests[id].owner = q
             /\ config[q].split = "test" => manifests[id].plan
             /\ manifests[id].eligible => ~Mocked(q)

LEMMA ShapeInit == Init => Shape
  BY DEF Init, Shape, Places, NoManifest

LEMMA RolesAreRoles == ASSUME NEW c PROVE RequiredRoles(c) \subseteq Roles
  BY DEF RequiredRoles, Roles

LEMMA ShapeStep ==
  ASSUME Shape, [Next]_vars
  PROVE  Shape'
<1>1. ASSUME NEW p \in Processes, BuildContext(p) PROVE Shape'
  <2>1. RequiredRoles(config[p]) \in SUBSET Roles
    BY RolesAreRoles
  <2>2. CellsOf(config[p]) \in SUBSET UNION {CellsOf(c) : c \in Configs}
    BY DEF Shape
  <2> QED
    BY <1>1, <2>1, <2>2 DEF BuildContext, Refuse, Goto, processVars, Shape, Places
<1>2. ASSUME NEW p \in Processes, PassSeal(p) PROVE Shape'
  BY <1>2 DEF PassSeal, Refuse, Goto, processVars, Shape, Places
<1>3. ASSUME NEW p \in Processes, MakeDirectory(p) PROVE Shape'
  BY <1>3 DEF MakeDirectory, Refuse, Goto, processVars, Shape, Places
<1>4. ASSUME NEW p \in Processes, WriteManifest(p) PROVE Shape'
  <2> DEFINE eligible == models[p].roles["execution_primary"].eligible /\ ~Mocked(p)
  <2>1. eligible \in BOOLEAN
    OBVIOUS
  <2>2. manifests' = [manifests EXCEPT ![runId[p]] =
          [written |-> TRUE, owner |-> p, plan |-> plan, eligible |-> eligible]]
    BY <1>4 DEF WriteManifest
  <2> HIDE DEF eligible
  <2>3. manifests' \in [RunIds -> [written : BOOLEAN, owner : Processes \cup {"nobody"},
                                   eligible : BOOLEAN, plan : BOOLEAN]]
    BY <2>1, <2>2 DEF Shape
  <2> QED
    BY <1>4, <2>3 DEF WriteManifest, Goto, processVars, Shape, Places
<1>5. ASSUME NEW p \in Processes, Kill(p) PROVE Shape'
  BY <1>5 DEF Kill, Goto, processVars, Shape, Places
<1>6. CASE FreezePlan
  BY <1>6 DEF FreezePlan, processVars, Shape
<1>7. CASE UNCHANGED vars
  BY <1>7 DEF vars, processVars, Shape
<1> QED
  BY <1>1, <1>2, <1>3, <1>4, <1>5, <1>6, <1>7 DEF Next, Setup

LEMMA ContextsStep ==
  ASSUME Shape, Contexts, [Next]_vars
  PROVE  Contexts'
<1>1. ASSUME NEW p \in Processes, BuildContext(p) PROVE Contexts'
  <2>1. CASE ContextRefused(config[p], models[p])
    BY <1>1, <2>1 DEF BuildContext, Refuse, Goto, processVars, Shape, Contexts, Enabled
  <2>2. CASE ~ContextRefused(config[p], models[p])
    <3>1. ~Refused(config[p]) /\ \A r \in RequiredRoles(config[p]) : Enabled(models[p], r)
      BY <2>2 DEF ContextRefused
    <3>2. /\ ready' = [ready EXCEPT ![p] = RequiredRoles(config[p])]
          /\ matrix' = [matrix EXCEPT ![p] = CellsOf(config[p])]
          /\ at' = [at EXCEPT ![p] = "built"]
          /\ UNCHANGED <<config, models>>
      BY <1>1, <2>2 DEF BuildContext, Goto
    <3> QED
      BY <3>1, <3>2 DEF Shape, Contexts
  <2> QED
    BY <2>1, <2>2
<1>2. ASSUME NEW p \in Processes, NEW there \in Places \ {"starting"},
             at[p] \notin {"starting", "refused", "killed"} \/ there \in {"refused", "killed"},
             Goto(p, there), UNCHANGED processVars
      PROVE  Contexts'
  BY <1>2 DEF Goto, processVars, Shape, Contexts
<1>3. ASSUME NEW p \in Processes,
             PassSeal(p) \/ MakeDirectory(p) \/ WriteManifest(p) \/ Kill(p)
      PROVE  Contexts'
  BY <1>2, <1>3 DEF PassSeal, MakeDirectory, WriteManifest, Kill, Refuse, Places, processVars
<1>4. CASE FreezePlan \/ UNCHANGED vars
  BY <1>4 DEF FreezePlan, vars, processVars, Contexts
<1> QED
  BY <1>1, <1>3, <1>4 DEF Next, Setup

LEMMA DirectoriesStep ==
  ASSUME Shape, Contexts, Directories, [Next]_vars
  PROVE  Directories'
<1> USE SetupAssumption
<1>1. ASSUME NEW p \in Processes, BuildContext(p) PROVE Directories'
  <2>1. at[p] = "starting"
    BY <1>1 DEF BuildContext
  <2>2. /\ at' = [at EXCEPT ![p] = "built"] \/ at' = [at EXCEPT ![p] = "refused"]
        /\ UNCHANGED <<config, models, runId, plan, dirs, manifests>>
        /\ \A q \in Processes : q # p => ready'[q] = ready[q]
    BY <1>1 DEF BuildContext, Refuse, Goto, processVars, Shape
  <2>3. \A q \in Processes : q # p => Mocked(q)' = Mocked(q)
    BY <2>2 DEF Mocked
  <2>4. \A q \in Processes : q # p => at'[q] = at[q]
    BY <2>2 DEF Shape
  <2>5. at'[p] \in {"built", "refused"}
    BY <2>2 DEF Shape
  <2> QED
    BY <2>1, <2>2, <2>3, <2>4, <2>5 DEF Directories, Shape
<1>2. ASSUME NEW p \in Processes, PassSeal(p) PROVE Directories'
  BY <1>2 DEF PassSeal, Refuse, Goto, processVars, Shape, Directories, Mocked
<1>3. ASSUME NEW p \in Processes, MakeDirectory(p) PROVE Directories'
  <2>1. CASE dirs[runId[p]] # "nobody"
    BY <1>3, <2>1 DEF MakeDirectory, Refuse, Goto, processVars, Shape, Directories, Mocked
  <2>2. CASE dirs[runId[p]] = "nobody"
    <3>1. /\ at[p] = "unsealed" /\ at' = [at EXCEPT ![p] = "owning"]
          /\ dirs' = [dirs EXCEPT ![runId[p]] = p]
          /\ UNCHANGED <<processVars, plan, manifests>>
      BY <1>3, <2>2 DEF MakeDirectory, Goto
    <3>2. ~manifests[runId[p]].written
      BY <2>2 DEF Directories, Shape
    <3>3. \A q \in Processes : Mocked(q)' = Mocked(q)
      BY <3>1 DEF Mocked, processVars
    <3>4. \A q \in Processes : at[q] \in {"owning", "executing"} => runId[q] # runId[p]
      BY <2>2 DEF Directories
    <3> QED
      BY <3>1, <3>2, <3>3, <3>4 DEF processVars, Shape, Directories
  <2> QED
    BY <2>1, <2>2
<1>4. ASSUME NEW p \in Processes, WriteManifest(p) PROVE Directories'
  <2> DEFINE id == runId[p]
  <2>1. /\ at[p] = "owning" /\ at' = [at EXCEPT ![p] = "executing"]
        /\ UNCHANGED <<processVars, plan, dirs>>
        /\ \A other \in RunIds : other # id => manifests'[other] = manifests[other]
    BY <1>4 DEF WriteManifest, Goto, Shape
  <2>2. /\ manifests'[id].written /\ manifests'[id].owner = p
        /\ manifests'[id].plan = plan
        /\ manifests'[id].eligible => ~Mocked(p)
    BY <1>4 DEF WriteManifest, Shape
  <2>3. id \in RunIds /\ dirs[id] = p
    BY <2>1 DEF Shape, Directories
  <2>4. \A q \in Processes : Mocked(q)' = Mocked(q)
    BY <2>1 DEF Mocked, processVars
  <2>5. \A other \in RunIds : other # id /\ manifests[other].written => dirs[other] # p
    BY DEF Directories
  <2>6. at'[p] = "executing" /\ \A q \in Processes : q # p => at'[q] = at[q]
    BY <2>1 DEF Shape
  <2>7. config[p].split = "test" => plan
    BY <2>1 DEF Directories
  <2>8. UNCHANGED <<runId, config, dirs, plan>>
    BY <2>1 DEF processVars
  <2>9. \A q \in Processes : runId[q] \in RunIds
    BY DEF Shape
  <2>10. ASSUME NEW other \in RunIds, manifests'[other].written
         PROVE  \E q \in Processes :
                   /\ dirs'[other] = q /\ runId'[q] = other /\ at'[q] = "executing"
                   /\ manifests'[other].owner = q
                   /\ config'[q].split = "test" => manifests'[other].plan
                   /\ manifests'[other].eligible => ~Mocked(q)'
    <3>1. CASE other = id
      BY <2>2, <2>3, <2>4, <2>6, <2>7, <2>8, <3>1
    <3>2. CASE other # id
      <4>1. manifests'[other] = manifests[other] /\ manifests[other].written
        BY <2>1, <2>10, <3>2
      <4>2. dirs[other] # p
        BY <2>5, <3>2, <4>1
      <4> QED
        BY <2>4, <2>6, <2>8, <4>1, <4>2 DEF Directories
    <3> QED
      BY <3>1, <3>2
  <2>11. \A q \in Processes : at'[q] = "executing" => manifests'[runId'[q]].written
    <3> SUFFICES ASSUME NEW q \in Processes, at'[q] = "executing"
                 PROVE  manifests'[runId[q]].written
      BY <2>8
    <3>1. CASE q = p
      BY <2>2, <3>1
    <3>2. CASE q # p
      <4>1. manifests[runId[q]].written
        BY <2>6, <3>2 DEF Directories
      <4> QED
        BY <2>1, <2>2, <2>9, <4>1
    <3> QED
      BY <3>1, <3>2
  <2> QED
    BY <2>1, <2>6, <2>8, <2>10, <2>11 DEF Directories
<1>5. ASSUME NEW p \in Processes, Kill(p) PROVE Directories'
  BY <1>5 DEF Kill, Goto, processVars, Shape, Directories, Mocked
<1>6. CASE FreezePlan
  BY <1>6 DEF FreezePlan, processVars, Shape, Directories, Mocked
<1>7. CASE UNCHANGED vars
  BY <1>7 DEF vars, processVars, Directories, Mocked
<1> QED
  BY <1>1, <1>2, <1>3, <1>4, <1>5, <1>6, <1>7 DEF Next, Setup
--------------------------------------------------------------------------------
IInv == Shape /\ Contexts /\ Directories

\* The shape, the contexts and the directories are as stated in every state.
THEOREM Invariance == Spec => []IInv
<1>1. Init => IInv
  BY ShapeInit DEF Init, IInv, Contexts, Directories, NoManifest
<1>2. IInv /\ [Next]_vars => IInv'
  BY ShapeStep, ContextsStep, DirectoriesStep DEF IInv
<1> QED
  BY <1>1, <1>2, PTL DEF Spec

\* The types of the variables; no adapter is built for a role that is not
\* enabled (run.py, build_run_context).
THEOREM TypeCorrect == Spec => []TypeOK
<1>1. IInv => TypeOK
  <2> SUFFICES ASSUME IInv PROVE TypeOK
    OBVIOUS
  <2>1. \A id \in RunIds : manifests[id].owner \in Processes \cup {"nobody"}
    BY DEF IInv, Shape
  <2>2. \A p \in Processes : ready[p] \subseteq {r \in Roles : Enabled(models[p], r)}
    BY DEF IInv, Shape, Contexts
  <2>3. \A p \in Processes : matrix[p] \subseteq CellsOf(config[p])
    BY DEF IInv, Contexts
  <2> QED
    BY <2>1, <2>2, <2>3 DEF IInv, Shape, TypeOK, Places
<1> QED
  BY <1>1, Invariance, PTL

\* Whatever commands share a run id and however they interleave, one of them
\* owns the directory, its manifest and the execution (run.py, execute_run).
THEOREM OneOwner == Spec => []OneRunPerDirectory
<1>1. IInv => OneRunPerDirectory
  BY DEF IInv, Shape, Directories, OneRunPerDirectory, Executing
<1> QED
  BY <1>1, Invariance, PTL

\* A manifest that stands is never replaced (run.py, write_run_manifest).
THEOREM ManifestsStay == Spec => ManifestsAreFinal
<1>1. IInv /\ [Next]_vars =>
        \A id \in RunIds : manifests[id].written => manifests'[id] = manifests[id]
  <2> SUFFICES ASSUME IInv, [Next]_vars, NEW id \in RunIds, manifests[id].written
               PROVE  manifests'[id] = manifests[id]
    OBVIOUS
  <2>1. ASSUME NEW p \in Processes, WriteManifest(p)
        PROVE  manifests'[id] = manifests[id]
    <3>1. at[p] = "owning" /\ dirs[runId[p]] = p
      BY <2>1 DEF WriteManifest, IInv, Directories
    <3>2. runId[p] # id
      BY <3>1 DEF IInv, Directories
    <3> QED
      BY <2>1, <3>2 DEF WriteManifest, IInv, Shape
  <2> QED
    BY <2>1 DEF Next, Setup, vars, BuildContext, PassSeal, MakeDirectory, Kill, FreezePlan,
                Refuse
<1> QED
  BY <1>1, Invariance, PTL DEF Spec, ManifestsAreFinal

\* A baseline-eligible run has no cell that a mock answers (run.py,
\* write_run_manifest).
THEOREM EligibleRunsAreNotMocked == Spec => []EligibleRunsAreReal
<1>1. IInv => EligibleRunsAreReal
  BY DEF IInv, Shape, Directories, EligibleRunsAreReal, Executing, Mocked
<1> QED
  BY <1>1, Invariance, PTL
--------------------------------------------------------------------------------
(* The roles a run prepares and the cells its configuration expands to.         *)

\* No track of another kind lists AL_DRIFT, and the switch for the controls has
\* one of its values; expand_matrix does not check the lists.
WellPlaced(c) ==
    /\ "AL_DRIFT" \notin InRange(c.boundary) \cup InRange(c.post) \cup InRange(c.intent)
                            \cup InRange(c.memory)
    /\ c.formal.ablations \in {"yes", "no", "absent"}

\* What the preparation goes by: the architecture of a cell is listed, and the
\* roles that only one condition of one track has are found there.
Anticipated(c, cell) ==
    /\ cell.arch \in Canonicalizing => cell.arch \in EnabledArchs(c)
    /\ cell.arch = "AL_DRIFT" => c.agent.enabled /\ "AL_DRIFT" \in Stated(c.agent.conditions)
    /\ cell.selection = "runtime" =>
          /\ c.formal.enabled /\ c.formal.ablations = "yes"
          /\ "P3_CANONICAL_PROCEDURE_PROPOSAL" \in Stated(c.formal.conditions)

LEMMA AnticipatedCellsAreServed ==
  ASSUME NEW c, NEW cell, Anticipated(c, cell)
  PROVE  Invokes(cell) \subseteq RequiredRoles(c)
<1>1. cell.arch \in Gated => cell.arch \in Canonicalizing
  BY DEF Canonicalizing
<1> QED
  BY <1>1 DEF Anticipated, Invokes, GateRoles, BoundaryRoles, RouterRoles, DriftRoles, RequiredRoles

\* A cell of an architecture, whose procedure is not selected at run time.
CellOf(arch, cell) == cell.arch = arch /\ cell.selection \in {"gold", "none"}

\* What replacing another part of a cell leaves.
SamePlace(r, q) ==
    /\ {"arch", "selection"} \subseteq DOMAIN r
    /\ {"arch", "selection"} \subseteq DOMAIN q
    /\ q.arch = r.arch /\ q.selection = r.selection

LEMMA ExceptKeepsPlace ==
  ASSUME NEW r, NEW v, {"arch", "selection"} \subseteq DOMAIN r
  PROVE  /\ SamePlace(r, [r EXCEPT !.rendering = v])
         /\ SamePlace(r, [r EXCEPT !.procedure = v])
         /\ SamePlace(r, [r EXCEPT !.interface = v])
         /\ SamePlace(r, [r EXCEPT !.intent = v])
         /\ SamePlace(r, [r EXCEPT !.packaging = v])
<1>1. SamePlace(r, [r EXCEPT !.rendering = v])
  BY DEF SamePlace
<1>2. SamePlace(r, [r EXCEPT !.procedure = v])
  BY DEF SamePlace
<1>3. SamePlace(r, [r EXCEPT !.interface = v])
  BY DEF SamePlace
<1>4. SamePlace(r, [r EXCEPT !.intent = v])
  BY DEF SamePlace
<1>5. SamePlace(r, [r EXCEPT !.packaging = v])
  BY DEF SamePlace
<1> QED
  BY <1>1, <1>2, <1>3, <1>4, <1>5

LEMMA ExceptSelects ==
  ASSUME NEW r, NEW v, {"arch", "selection"} \subseteq DOMAIN r
  PROVE  LET q == [r EXCEPT !.selection = v] IN
         /\ {"arch", "selection"} \subseteq DOMAIN q
         /\ q.arch = r.arch /\ q.selection = v
OBVIOUS

LEMMA CellParts ==
  ASSUME NEW track, NEW arch, NEW id, NEW request
  PROVE  LET r == Cell(track, arch, id, request) IN
         /\ {"arch", "selection"} \subseteq DOMAIN r
         /\ r.arch = arch /\ r.selection = "none"
BY DEF Cell

\* Two replacements.
LEMMA PlainCells ==
  ASSUME NEW arch, NEW p, NEW mode
  PROVE  /\ CellOf(arch, BoundaryCell(arch, p))
         /\ CellOf(arch, PostCell(arch, p))
         /\ CellOf(arch, ElicitationCell(arch, p))
         /\ CellOf(arch, AgentCell(arch, p, mode))
         /\ CellOf(arch, Cell("memory_ablation", arch, p[1], p[2]))
<1>1. ASSUME NEW track, NEW id, NEW request, NEW v, NEW w
      PROVE  LET r == Cell(track, arch, id, request) IN
             /\ CellOf(arch, [[r EXCEPT !.rendering = v] EXCEPT !.intent = w])
             /\ CellOf(arch, [[r EXCEPT !.intent = w] EXCEPT !.rendering = v])
             /\ CellOf(arch, [r EXCEPT !.intent = w])
             /\ CellOf(arch, r)
  <2> DEFINE r == Cell(track, arch, id, request)
             q == [r EXCEPT !.rendering = v]
             o == [r EXCEPT !.intent = w]
  <2>1. {"arch", "selection"} \subseteq DOMAIN r /\ CellOf(arch, r)
    BY CellParts DEF CellOf
  <2> HIDE DEF r
  <2>2. SamePlace(r, q) /\ SamePlace(r, o)
    BY <2>1, ExceptKeepsPlace
  <2> HIDE DEF q, o
  <2>3. SamePlace(q, [q EXCEPT !.intent = w])
    BY <2>2, ExceptKeepsPlace DEF SamePlace
  <2>4. SamePlace(o, [o EXCEPT !.rendering = v])
    BY <2>2, ExceptKeepsPlace DEF SamePlace
  <2>5. CellOf(arch, [q EXCEPT !.intent = w]) /\ CellOf(arch, [o EXCEPT !.rendering = v])
        /\ CellOf(arch, o)
    BY <2>1, <2>2, <2>3, <2>4, Zenon DEF SamePlace, CellOf
  <2> QED
    BY <2>1, <2>5 DEF q, o, r
<1>2. CellOf(arch, BoundaryCell(arch, p))
  BY <1>1, Zenon DEF BoundaryCell
<1>3. CellOf(arch, PostCell(arch, p))
  BY <1>1, Zenon DEF PostCell
<1>4. CellOf(arch, ElicitationCell(arch, p))
  BY <1>1, Zenon DEF ElicitationCell
<1>5. CellOf(arch, AgentCell(arch, p, mode))
  BY <1>1, Zenon DEF AgentCell
<1>6. CellOf(arch, Cell("memory_ablation", arch, p[1], p[2]))
  BY <1>1
<1> QED
  BY <1>2, <1>3, <1>4, <1>5, <1>6

\* Five replacements, the procedure's selection among them.
LEMMA FormalCells ==
  ASSUME NEW condition, NEW p, NEW mode
  PROVE  /\ CellOf(condition, Mode(condition, p, mode))
         /\ {"arch", "selection"} \subseteq DOMAIN Mode(condition, p, mode)
         /\ CellOf(condition, PersistenceCell(condition, p, mode))
<1> DEFINE r0 == Cell("progressive_formalization", condition, p[1], p[2])
           procedure == IF condition \notin WithProcedure THEN "none"
                        ELSE IF mode = "runtime" THEN "of the resolved operation" ELSE "frozen"
           interface == IF condition = "P4_CANONICAL_PROCEDURE_TOOL" THEN "typed" ELSE "generic"
           intent == IF condition \in {"P0_RAW_PROPOSAL", "P1_CLARIFY_PROPOSAL"} THEN "none"
                     ELSE mode
           selection == IF condition \in WithProcedure THEN "gold" ELSE "none"
           packaging == IF condition \in WithProcedure THEN "inline" ELSE "none"
           told(value) == IF condition \in WithProcedureLP THEN value ELSE "none"
           typed == IF condition = "LP3_CANONICAL_PROCEDURE_TOOL" THEN "typed" ELSE "generic"
<1>1. {"arch", "selection"} \subseteq DOMAIN r0 /\ r0.arch = condition
  BY CellParts
<1>2. selection \in {"gold", "none"} /\ told("gold") \in {"gold", "none"}
  OBVIOUS
<1>3. ASSUME NEW r, {"arch", "selection"} \subseteq DOMAIN r, r.arch = condition,
             NEW a, NEW b, NEW d, NEW e \in {"gold", "none"}, NEW f
      PROVE  /\ CellOf(condition, [r EXCEPT !.procedure = a, !.interface = b, !.intent = d,
                                            !.selection = e, !.packaging = f])
             /\ {"arch", "selection"} \subseteq
                   DOMAIN [r EXCEPT !.procedure = a, !.interface = b, !.intent = d,
                                    !.selection = e, !.packaging = f]
             /\ CellOf(condition, [r EXCEPT !.intent = d, !.procedure = a, !.selection = e,
                                            !.packaging = f, !.interface = b])
  <2> DEFINE r1 == [r EXCEPT !.procedure = a]
             r2 == [r1 EXCEPT !.interface = b]
             r3 == [r2 EXCEPT !.intent = d]
             r4 == [r3 EXCEPT !.selection = e]
             r5 == [r4 EXCEPT !.packaging = f]
             q1 == [r EXCEPT !.intent = d]
             q2 == [q1 EXCEPT !.procedure = a]
             q3 == [q2 EXCEPT !.selection = e]
             q4 == [q3 EXCEPT !.packaging = f]
             q5 == [q4 EXCEPT !.interface = b]
  <2>1. SamePlace(r, r1) /\ SamePlace(r, q1)
    BY <1>3, ExceptKeepsPlace
  <2> HIDE DEF r1, q1
  <2>2. SamePlace(r1, r2) /\ SamePlace(q1, q2)
    BY <2>1, ExceptKeepsPlace DEF SamePlace
  <2> HIDE DEF r2, q2
  <2>3. SamePlace(r2, r3)
    BY <2>2, ExceptKeepsPlace DEF SamePlace
  <2> HIDE DEF r3
  <2>4. /\ {"arch", "selection"} \subseteq DOMAIN r4 /\ r4.arch = r3.arch /\ r4.selection = e
    BY <2>3, ExceptSelects DEF SamePlace
  <2>5. /\ {"arch", "selection"} \subseteq DOMAIN q3 /\ q3.arch = q2.arch /\ q3.selection = e
    BY <2>2, ExceptSelects DEF SamePlace
  <2> HIDE DEF r4, q3
  <2>6. SamePlace(r4, r5) /\ SamePlace(q3, q4)
    BY <2>4, <2>5, ExceptKeepsPlace
  <2> HIDE DEF r5, q4
  <2>7. SamePlace(q4, q5)
    BY <2>6, ExceptKeepsPlace DEF SamePlace
  <2> HIDE DEF q5
  <2>8. CellOf(condition, r5) /\ {"arch", "selection"} \subseteq DOMAIN r5
    BY <1>3, <2>1, <2>2, <2>3, <2>4, <2>6 DEF SamePlace, CellOf
  <2>9. CellOf(condition, q5)
    BY <1>3, <2>1, <2>2, <2>5, <2>6, <2>7 DEF SamePlace, CellOf
  <2> QED
    BY <2>8, <2>9, Zenon DEF r1, r2, r3, r4, r5, q1, q2, q3, q4, q5
<1>4. Mode(condition, p, mode) =
        [r0 EXCEPT !.procedure = procedure, !.interface = interface, !.intent = intent,
                   !.selection = selection, !.packaging = packaging]
  BY Zenon DEF Mode
<1>5. PersistenceCell(condition, p, mode) =
        [r0 EXCEPT !.intent = mode, !.procedure = told("frozen"), !.selection = told("gold"),
                   !.packaging = told("inline"), !.interface = typed]
  BY Zenon DEF PersistenceCell
<1> DEFINE frozen == told("frozen")
           gold == told("gold")
           inline == told("inline")
<1> HIDE DEF r0, procedure, interface, intent, selection, packaging, typed
<1>6. gold \in {"gold", "none"}
  BY <1>2
<1>7. /\ CellOf(condition, Mode(condition, p, mode))
      /\ {"arch", "selection"} \subseteq DOMAIN Mode(condition, p, mode)
  <2> DEFINE made == [r0 EXCEPT !.procedure = procedure, !.interface = interface,
                               !.intent = intent, !.selection = selection,
                               !.packaging = packaging]
  <2>1. selection \in {"gold", "none"}
    BY <1>2
  <2>2. CellOf(condition, made) /\ {"arch", "selection"} \subseteq DOMAIN made
    BY <1>1, <1>3, <2>1
  <2>3. Mode(condition, p, mode) = made
    BY <1>4
  <2> HIDE DEF made
  <2> QED
    BY <2>2, <2>3
<1>8. CellOf(condition, PersistenceCell(condition, p, mode))
  <2>1. PersistenceCell(condition, p, mode) =
          [r0 EXCEPT !.intent = mode, !.procedure = frozen, !.selection = gold,
                     !.packaging = inline, !.interface = typed]
    BY <1>5
  <2> HIDE DEF frozen, gold, inline
  <2> DEFINE made == [r0 EXCEPT !.intent = mode, !.procedure = frozen, !.selection = gold,
                               !.packaging = inline, !.interface = typed]
  <2>2. CellOf(condition, made)
    BY <1>1, <1>6, <1>3
  <2> HIDE DEF made
  <2> QED
    BY <2>1, <2>2 DEF made
<1> QED
  BY <1>7, <1>8

LEMMA ControlCells ==
  ASSUME NEW p, NEW k \in 1..3
  PROVE  Controls(p)[k].arch \in
            {"P3_CANONICAL_PROCEDURE_PROPOSAL", "P2F_CANONICAL_FACTS_PROPOSAL"}
<1> DEFINE r == Mode("P3_CANONICAL_PROCEDURE_PROPOSAL", p, "gold")
           a == [r EXCEPT !.packaging = "packaged"]
           b == [r EXCEPT !.selection = "runtime"]
           d == [r EXCEPT !.arch = "P2F_CANONICAL_FACTS_PROPOSAL", !.procedure = "none",
                          !.packaging = "facts_only"]
<1>1. Controls(p) = <<a, b, d>>
  BY DEF Controls
<1>2. {"arch", "selection"} \subseteq DOMAIN r /\ r.arch = "P3_CANONICAL_PROCEDURE_PROPOSAL"
  BY FormalCells DEF CellOf
<1> HIDE DEF r
<1>3. a.arch = r.arch
  BY <1>2, ExceptKeepsPlace DEF SamePlace
<1>4. b.arch = r.arch
  BY <1>2, ExceptSelects
<1>5. d.arch = "P2F_CANONICAL_FACTS_PROPOSAL"
  <2> DEFINE d1 == [r EXCEPT !.arch = "P2F_CANONICAL_FACTS_PROPOSAL"]
             d2 == [d1 EXCEPT !.procedure = "none"]
  <2>1. {"arch", "selection"} \subseteq DOMAIN d1 /\ d1.arch = "P2F_CANONICAL_FACTS_PROPOSAL"
    BY <1>2
  <2> HIDE DEF d1
  <2>2. SamePlace(d1, d2)
    BY <2>1, ExceptKeepsPlace
  <2> HIDE DEF d2
  <2>3. SamePlace(d2, [d2 EXCEPT !.packaging = "facts_only"])
    BY <2>2, ExceptKeepsPlace DEF SamePlace
  <2> QED
    BY <2>1, <2>2, <2>3, Zenon DEF SamePlace, d1, d2
<1> HIDE DEF a, b, d
<1> QED
  BY <1>1, <1>2, <1>3, <1>4, <1>5

\* The tracks that list their architectures and run them as they are.
LEMMA ListedTracks ==
  ASSUME NEW c, WellPlaced(c),
         NEW e \in Boundary(c) \cup PostCanonical(c) \cup IntentElicitation(c) \cup Memory(c)
  PROVE  Anticipated(c, e.cell)
<1>1. \E list \in {c.boundary, c.post, c.intent, c.memory} :
         \E i \in DOMAIN list : CellOf(list[i], e.cell)
  <2>1. CASE e \in Boundary(c)
    <3>1. PICK i \in DOMAIN c.boundary, p \in Pairs(c) :
             e = Entry(<<"boundary", i, p>>, BoundaryCell(c.boundary[i], p))
      BY <2>1 DEF Boundary
    <3>2. CellOf(c.boundary[i], e.cell)
      BY <3>1, PlainCells DEF Entry
    <3> QED
      BY <3>2
  <2>2. CASE e \in PostCanonical(c)
    <3>1. PICK s \in (DOMAIN c.post) \X (SelectCases(c) \cap Executable) :
             e = Entry(<<"post", s[1], s[2]>>, PostCell(c.post[s[1]], s[2]))
      BY <2>2 DEF PostCanonical
    <3>2. CellOf(c.post[s[1]], e.cell)
      BY <3>1, PlainCells DEF Entry
    <3> QED
      BY <3>1, <3>2
  <2>3. CASE e \in IntentElicitation(c)
    BY <2>3, PlainCells DEF IntentElicitation, Entry
  <2>4. CASE e \in Memory(c)
    BY <2>4, PlainCells DEF Memory, Entry
  <2> QED
    BY <2>1, <2>2, <2>3, <2>4
<1>2. /\ e.cell.selection \in {"gold", "none"}
      /\ e.cell.arch \in InRange(c.boundary) \cup InRange(c.post) \cup InRange(c.intent)
                            \cup InRange(c.memory)
  BY <1>1 DEF CellOf, InRange
<1> QED
  BY <1>2 DEF WellPlaced, Anticipated, EnabledArchs

LEMMA LadderTrack ==
  ASSUME NEW c, WellPlaced(c), FullyStated(c), c.formal.enabled, NEW e \in Ladder(c)
  PROVE  Anticipated(c, e.cell)
<1> DEFINE conditions == c.formal.conditions
           reached == {s \in (DOMAIN conditions) \X Pairs(c) :
                         /\ conditions[s[1]] \in ConditionsP
                         /\ conditions[s[1]] \in WithProcedure => s[2][1] \in Procedural}
           modes(i) == IF Ablations(c)
                          /\ conditions[i] \notin {"P0_RAW_PROPOSAL", "P1_CLARIFY_PROPOSAL"}
                       THEN {"runtime", "gold"} ELSE {"runtime"}
           controlled == {t \in reached :
                            /\ conditions[t[1]] = "P3_CANONICAL_PROCEDURE_PROPOSAL"
                            /\ Ablations(c)}
<1>1. Given(conditions, DefaultP) = conditions /\ Stated(conditions) = InRange(conditions)
  BY DEF FullyStated, Given, Stated
<1>2. \A s \in reached : s[1] \in DOMAIN conditions /\ conditions[s[1]] \in ConditionsP
  OBVIOUS
<1>3. \A s \in controlled : /\ s[1] \in DOMAIN conditions /\ Ablations(c)
                            /\ conditions[s[1]] = "P3_CANONICAL_PROCEDURE_PROPOSAL"
  OBVIOUS
<1> DEFINE rungs(s) == {Entry(<<"ladder", s, mode>>, Mode(conditions[s[1]], s[2], mode))
                          : mode \in modes(s[1])}
           extras(s) == {Entry(<<"control", s, k>>, Controls(s[2])[k]) : k \in 1..3}
<1>4. Ladder(c) = (UNION {rungs(s) : s \in reached}) \cup (UNION {extras(s) : s \in controlled})
  BY <1>1 DEF Ladder
<1> HIDE DEF reached, modes, controlled
<1>5. CASE \E s \in reached : \E mode \in modes(s[1]) :
              e = Entry(<<"ladder", s, mode>>, Mode(conditions[s[1]], s[2], mode))
  <2>1. PICK s \in reached : \E mode \in modes(s[1]) :
           e = Entry(<<"ladder", s, mode>>, Mode(conditions[s[1]], s[2], mode))
    BY <1>5
  <2>2. CellOf(conditions[s[1]], e.cell)
    BY <2>1, FormalCells DEF Entry
  <2>3. conditions[s[1]] \in Stated(c.formal.conditions)
    BY <1>1, <1>2 DEF InRange
  <2>4. conditions[s[1]] # "AL_DRIFT"
    BY <1>2 DEF ConditionsP
  <2> QED
    BY <2>2, <2>3, <2>4 DEF CellOf, Anticipated, EnabledArchs
<1>6. CASE \E s \in controlled : \E k \in 1..3 :
              e = Entry(<<"control", s, k>>, Controls(s[2])[k])
  <2>1. PICK s \in controlled, k \in 1..3 : e = Entry(<<"control", s, k>>, Controls(s[2])[k])
    BY <1>6
  <2>2. e.cell.arch \in {"P3_CANONICAL_PROCEDURE_PROPOSAL", "P2F_CANONICAL_FACTS_PROPOSAL"}
    BY <2>1, ControlCells DEF Entry
  <2>3. "P3_CANONICAL_PROCEDURE_PROPOSAL" \in Stated(c.formal.conditions)
    BY <1>1, <1>3 DEF InRange
  <2>4. c.formal.ablations = "yes"
    BY <1>3 DEF Ablations, FullyStated, WellPlaced
  <2>5. "P2F_CANONICAL_FACTS_PROPOSAL" \notin Canonicalizing
    BY DEF Canonicalizing, Gated
  <2> QED
    BY <2>2, <2>3, <2>4, <2>5 DEF Anticipated, EnabledArchs
<1>7. ASSUME NEW s \in reached, e \in rungs(s) PROVE Anticipated(c, e.cell)
  BY <1>5, <1>7
<1>8. ASSUME NEW s \in controlled, e \in extras(s) PROVE Anticipated(c, e.cell)
  BY <1>6, <1>8
<1> HIDE DEF rungs, extras
<1> QED
  BY <1>4, <1>7, <1>8

LEMMA PersistenceTrack ==
  ASSUME NEW c, FullyStated(c), c.formal.enabled, NEW e \in Persistence(c)
  PROVE  Anticipated(c, e.cell)
<1> DEFINE conditions == c.formal.persistence
<1>1. Given(conditions, DefaultLP) = conditions /\ Stated(conditions) = InRange(conditions)
  BY DEF FullyStated, Given, Stated
<1>2. PICK s \in PersistenceSlots(c) : CellOf(conditions[s[1]], e.cell)
  BY <1>1, FormalCells DEF Persistence, Entry
<1>3. s[1] \in DOMAIN conditions /\ conditions[s[1]] \in ConditionsLP
  BY <1>1 DEF PersistenceSlots
<1>4. conditions[s[1]] \in Stated(c.formal.persistence)
  BY <1>1, <1>3 DEF InRange
<1>5. conditions[s[1]] # "AL_DRIFT"
  BY <1>3 DEF ConditionsLP, GoldStart, WithProcedureLP
<1> QED
  BY <1>2, <1>4, <1>5 DEF CellOf, Anticipated, EnabledArchs

LEMMA AgentTrack ==
  ASSUME NEW c, FullyStated(c), c.agent.enabled, NEW e \in AgentLoop(c)
  PROVE  Anticipated(c, e.cell)
<1> DEFINE conditions == c.agent.conditions
<1>1. Given(conditions, DefaultAL) = conditions /\ Stated(conditions) = InRange(conditions)
  BY DEF FullyStated, Given, Stated
<1>2. PICK i \in DOMAIN conditions : CellOf(conditions[i], e.cell)
  <2> DEFINE listed == IF c.agent.cases = {} THEN SelectCases(c) ELSE c.agent.cases \cap Cases
             pairs == ToExecute(UNION {{<<id, r>> : r \in FilterRequests(c, id)} : id \in listed})
             modes(i) == IF conditions[i] = "AL_RAW" THEN <<"none">> ELSE c.agent.modes
             known(i) == {j \in DOMAIN modes(i) : modes(i)[j] \in {"gold", "runtime", "none"}}
             made(s) == {Entry(<<"agent", s, k>>, AgentCell(conditions[s[1]], s[2], modes(s[1])[k]))
                           : k \in known(s[1])}
  <2>0. AgentLoop(c) = UNION {made(s) : s \in (DOMAIN conditions) \X pairs}
    BY <1>1 DEF AgentLoop
  <2> HIDE DEF pairs, known, modes
  <2>a. \A s \in (DOMAIN conditions) \X pairs : s[1] \in DOMAIN conditions
    OBVIOUS
  <2>b. PICK s \in (DOMAIN conditions) \X pairs : e \in made(s)
    BY <2>0
  <2>1. PICK i \in DOMAIN conditions :
           \E slot, p, mode : e = Entry(slot, AgentCell(conditions[i], p, mode))
    BY <2>a, <2>b
  <2>2. CellOf(conditions[i], e.cell)
    BY <2>1, PlainCells DEF Entry
  <2> QED
    BY <2>2
<1>3. e.cell.arch \in Stated(c.agent.conditions)
  BY <1>1, <1>2 DEF CellOf, InRange
<1> QED
  BY <1>2, <1>3 DEF CellOf, Anticipated, EnabledArchs

\* For every configuration that states its lists, a run that starts has an
\* adapter for every role a cell of its matrix may invoke (run.py,
\* required_model_roles, and matrix.py, expand_matrix).
THEOREM RolesCoverTheMatrix ==
  ASSUME \A c \in Configs : WellPlaced(c)
  PROVE  Spec => []StatedRolesCoverTheMatrix
<1>1. IInv => StatedRolesCoverTheMatrix
  <2> SUFFICES ASSUME IInv, NEW p \in Processes, at[p] = "executing",
                      FullyStated(config[p]), NEW cell \in matrix[p]
               PROVE  Invokes(cell) \subseteq ready[p]
    BY DEF StatedRolesCoverTheMatrix, Executing
  <2> DEFINE c == config[p]
  <2>1. c \in Configs /\ ready[p] = RequiredRoles(c) /\ cell \in CellsOf(c)
    BY DEF IInv, Shape, Contexts
  <2>2. PICK e \in Entries(c) : cell = e.cell
    BY <2>1 DEF CellsOf
  <2>3. WellPlaced(c) /\ FullyStated(c)
    BY <2>1
  <2> HIDE DEF c
  <2>4. Anticipated(c, cell)
    BY <2>2, <2>3, ListedTracks, LadderTrack, PersistenceTrack, AgentTrack DEF Entries
  <2> QED
    BY <2>1, <2>4, AnticipatedCellsAreServed
<1> QED
  BY <1>1, Invariance, PTL
--------------------------------------------------------------------------------
(* The cells of an expansion.                                                   *)

\* The architectures of the two tracks that take requests as they are, as lists.
Listing(c) == \E Names : c.boundary \in Seq(Names) /\ c.memory \in Seq(Names)

Parts == {"track", "arch", "case", "request", "rendering", "procedure", "interface", "intent",
          "selection", "packaging"}

\* What tells a cell from the others of a configuration.
Full(cell, track, arch, id, request, intent, selection, packaging) ==
    /\ DOMAIN cell = Parts
    /\ cell.track = track /\ cell.arch = arch /\ cell.case = id /\ cell.request = request
    /\ cell.intent = intent /\ cell.selection = selection /\ cell.packaging = packaging

\* Replacing one part of a cell leaves the others.
LEMMA PartsStay ==
  ASSUME NEW r, NEW t, NEW a, NEW id, NEW q, NEW i, NEW s, NEW k, NEW v,
         Full(r, t, a, id, q, i, s, k)
  PROVE  /\ Full([r EXCEPT !.rendering = v], t, a, id, q, i, s, k)
         /\ Full([r EXCEPT !.procedure = v], t, a, id, q, i, s, k)
         /\ Full([r EXCEPT !.interface = v], t, a, id, q, i, s, k)
         /\ Full([r EXCEPT !.intent = v], t, a, id, q, v, s, k)
         /\ Full([r EXCEPT !.selection = v], t, a, id, q, i, v, k)
         /\ Full([r EXCEPT !.packaging = v], t, a, id, q, i, s, v)
         /\ Full([r EXCEPT !.arch = v], t, v, id, q, i, s, k)
<1>1. Full([r EXCEPT !.rendering = v], t, a, id, q, i, s, k)
  BY DEF Full, Parts
<1>2. Full([r EXCEPT !.procedure = v], t, a, id, q, i, s, k)
  BY DEF Full, Parts
<1>3. Full([r EXCEPT !.interface = v], t, a, id, q, i, s, k)
  BY DEF Full, Parts
<1>4. Full([r EXCEPT !.intent = v], t, a, id, q, v, s, k)
  BY DEF Full, Parts
<1>5. Full([r EXCEPT !.selection = v], t, a, id, q, i, v, k)
  BY DEF Full, Parts
<1>6. Full([r EXCEPT !.packaging = v], t, a, id, q, i, s, v)
  BY DEF Full, Parts
<1>7. Full([r EXCEPT !.arch = v], t, v, id, q, i, s, k)
  BY DEF Full, Parts
<1> QED BY <1>1, <1>2, <1>3, <1>4, <1>5, <1>6, <1>7

LEMMA CellIsFull ==
  ASSUME NEW track, NEW arch, NEW id, NEW request
  PROVE  Full(Cell(track, arch, id, request), track, arch, id, request, "none", "none", "none")
BY DEF Full, Cell, Parts

\* The cells of the tracks.
LEMMA ListedCells ==
  ASSUME NEW arch, NEW p, NEW id, NEW mode
  PROVE  /\ \E i : Full(BoundaryCell(arch, p), "boundary", arch, p[1], p[2], i, "none", "none")
         /\ \E i : Full(PostCell(arch, id), "post_canonical", arch, id, NoRequest, i, "none", "none")
         /\ \E i, q : Full(ElicitationCell(arch, id), "intent_elicitation", arch, id, q, i, "none", "none")
         /\ Full(AgentCell(arch, p, mode), "agent_loop", arch, p[1], p[2], mode, "none", "none")
<1>1. ASSUME NEW t, NEW x, NEW q, NEW v, NEW w
      PROVE  /\ Full([[Cell(t, arch, x, q) EXCEPT !.rendering = v] EXCEPT !.intent = w], t, arch, x, q, w, "none", "none")
             /\ Full([[Cell(t, arch, x, q) EXCEPT !.intent = w] EXCEPT !.rendering = v], t, arch, x, q, w, "none", "none")
             /\ Full([Cell(t, arch, x, q) EXCEPT !.intent = w], t, arch, x, q, w, "none", "none")
  <2> DEFINE r == Cell(t, arch, x, q)
             r1 == [r EXCEPT !.rendering = v]
             r2 == [r EXCEPT !.intent = w]
  <2>1. Full(r, t, arch, x, q, "none", "none", "none")
    BY CellIsFull
  <2> HIDE DEF r
  <2>2. Full(r1, t, arch, x, q, "none", "none", "none") /\ Full(r2, t, arch, x, q, w, "none", "none")
    BY <2>1, PartsStay
  <2> HIDE DEF r1, r2
  <2>3. Full([r1 EXCEPT !.intent = w], t, arch, x, q, w, "none", "none")
        /\ Full([r2 EXCEPT !.rendering = v], t, arch, x, q, w, "none", "none")
    BY <2>2, PartsStay
  <2> QED BY <2>2, <2>3 DEF r, r1, r2
<1>2. \E i : Full(BoundaryCell(arch, p), "boundary", arch, p[1], p[2], i, "none", "none")
  BY <1>1, Zenon DEF BoundaryCell
<1>3. \E i : Full(PostCell(arch, id), "post_canonical", arch, id, NoRequest, i, "none", "none")
  BY <1>1, Zenon DEF PostCell
<1>4. \E i, q : Full(ElicitationCell(arch, id), "intent_elicitation", arch, id, q, i, "none", "none")
  BY <1>1, Zenon DEF ElicitationCell
<1>5. Full(AgentCell(arch, p, mode), "agent_loop", arch, p[1], p[2], mode, "none", "none")
  BY <1>1, Zenon DEF AgentCell
<1> QED BY <1>2, <1>3, <1>4, <1>5

LEMMA LadderCells ==
  ASSUME NEW condition, NEW p, NEW mode
  PROVE  /\ Full(Mode(condition, p, mode), "progressive_formalization", condition, p[1], p[2],
                 IF condition \in {"P0_RAW_PROPOSAL", "P1_CLARIFY_PROPOSAL"} THEN "none" ELSE mode,
                 IF condition \in WithProcedure THEN "gold" ELSE "none",
                 IF condition \in WithProcedure THEN "inline" ELSE "none")
         /\ \E s, k : Full(PersistenceCell(condition, p, mode), "progressive_formalization", condition,
                           p[1], p[2], mode, s, k)
<1> DEFINE track == "progressive_formalization"
           r0 == Cell(track, condition, p[1], p[2])
           procedure == IF condition \notin WithProcedure THEN "none"
                        ELSE IF mode = "runtime" THEN "of the resolved operation" ELSE "frozen"
           interface == IF condition = "P4_CANONICAL_PROCEDURE_TOOL" THEN "typed" ELSE "generic"
           intent == IF condition \in {"P0_RAW_PROPOSAL", "P1_CLARIFY_PROPOSAL"} THEN "none" ELSE mode
           selection == IF condition \in WithProcedure THEN "gold" ELSE "none"
           packaging == IF condition \in WithProcedure THEN "inline" ELSE "none"
           told(value) == IF condition \in WithProcedureLP THEN value ELSE "none"
           typed == IF condition = "LP3_CANONICAL_PROCEDURE_TOOL" THEN "typed" ELSE "generic"
           a1 == [r0 EXCEPT !.procedure = procedure]
           a2 == [a1 EXCEPT !.interface = interface]
           a3 == [a2 EXCEPT !.intent = intent]
           a4 == [a3 EXCEPT !.selection = selection]
           a5 == [a4 EXCEPT !.packaging = packaging]
           b1 == [r0 EXCEPT !.intent = mode]
           b2 == [b1 EXCEPT !.procedure = told("frozen")]
           b3 == [b2 EXCEPT !.selection = told("gold")]
           b4 == [b3 EXCEPT !.packaging = told("inline")]
           b5 == [b4 EXCEPT !.interface = typed]
<1>1. Mode(condition, p, mode) = a5 /\ PersistenceCell(condition, p, mode) = b5
  BY Zenon DEF Mode, PersistenceCell
<1>2. Full(r0, track, condition, p[1], p[2], "none", "none", "none")
  BY CellIsFull
<1> HIDE DEF r0, procedure, interface, intent, selection, packaging, told, typed
<1>3. Full(a1, track, condition, p[1], p[2], "none", "none", "none")
  BY <1>2, PartsStay
<1> HIDE DEF a1
<1>4. Full(a2, track, condition, p[1], p[2], "none", "none", "none")
  BY <1>3, PartsStay
<1> HIDE DEF a2
<1>5. Full(a3, track, condition, p[1], p[2], intent, "none", "none")
  BY <1>4, PartsStay
<1> HIDE DEF a3
<1>6. Full(a4, track, condition, p[1], p[2], intent, selection, "none")
  BY <1>5, PartsStay
<1> HIDE DEF a4
<1>7. Full(a5, track, condition, p[1], p[2], intent, selection, packaging)
  BY <1>6, PartsStay
<1>8. Full(b1, track, condition, p[1], p[2], mode, "none", "none")
  BY <1>2, PartsStay
<1> HIDE DEF b1
<1>9. Full(b2, track, condition, p[1], p[2], mode, "none", "none")
  BY <1>8, PartsStay
<1> HIDE DEF b2
<1>10. Full(b3, track, condition, p[1], p[2], mode, told("gold"), "none")
  BY <1>9, PartsStay
<1> HIDE DEF b3
<1>11. Full(b4, track, condition, p[1], p[2], mode, told("gold"), told("inline"))
  BY <1>10, PartsStay
<1> HIDE DEF b4
<1>12. Full(b5, track, condition, p[1], p[2], mode, told("gold"), told("inline"))
  BY <1>11, PartsStay
<1> HIDE DEF a5, b5
<1> QED BY <1>1, <1>7, <1>12 DEF intent, selection, packaging

\* The three controls of P3.
LEMMA ControlsAreFull ==
  ASSUME NEW p
  PROVE  /\ Full(Controls(p)[1], "progressive_formalization", "P3_CANONICAL_PROCEDURE_PROPOSAL",
                 p[1], p[2], "gold", "gold", "packaged")
         /\ Full(Controls(p)[2], "progressive_formalization", "P3_CANONICAL_PROCEDURE_PROPOSAL",
                 p[1], p[2], "gold", "runtime", "inline")
         /\ Full(Controls(p)[3], "progressive_formalization", "P2F_CANONICAL_FACTS_PROPOSAL",
                 p[1], p[2], "gold", "gold", "facts_only")
<1> DEFINE track == "progressive_formalization"
           arch == "P3_CANONICAL_PROCEDURE_PROPOSAL"
           r == Mode(arch, p, "gold")
           c1 == [r EXCEPT !.packaging = "packaged"]
           c2 == [r EXCEPT !.selection = "runtime"]
           d1 == [r EXCEPT !.arch = "P2F_CANONICAL_FACTS_PROPOSAL"]
           d2 == [d1 EXCEPT !.procedure = "none"]
           d3 == [d2 EXCEPT !.packaging = "facts_only"]
<1>1. Controls(p)[1] = c1 /\ Controls(p)[2] = c2 /\ Controls(p)[3] = d3
  <2>1. Controls(p) = <<c1, c2, d3>>
    BY Zenon DEF Controls
  <2> HIDE DEF c1, c2, d3
  <2> QED BY <2>1
<1>2. Full(r, track, arch, p[1], p[2], "gold", "gold", "inline")
  BY LadderCells DEF WithProcedure
<1> HIDE DEF r
<1>3. Full(c1, track, arch, p[1], p[2], "gold", "gold", "packaged")
  BY <1>2, PartsStay
<1>4. Full(c2, track, arch, p[1], p[2], "gold", "runtime", "inline")
  BY <1>2, PartsStay
<1>5. Full(d1, track, "P2F_CANONICAL_FACTS_PROPOSAL", p[1], p[2], "gold", "gold", "inline")
  BY <1>2, PartsStay
<1> HIDE DEF d1
<1>6. Full(d2, track, "P2F_CANONICAL_FACTS_PROPOSAL", p[1], p[2], "gold", "gold", "inline")
  BY <1>5, PartsStay
<1> HIDE DEF d2
<1>7. Full(d3, track, "P2F_CANONICAL_FACTS_PROPOSAL", p[1], p[2], "gold", "gold", "facts_only")
  BY <1>6, PartsStay
<1> HIDE DEF c1, c2, d3
<1> QED BY <1>1, <1>3, <1>4, <1>7

\* What a case and a request are paired as.
LEMMA PairsArePairs == ASSUME NEW c, NEW p \in Pairs(c) PROVE p = <<p[1], p[2]>>
BY DEF Pairs

\* Cells that the comparisons of a run do not tell apart: of one condition, on one
\* request of one case (aggregate.py, comparison_selector and _paired_values).
Alike(a, b) ==
  /\ a.arch = b.arch /\ a.intent = b.intent
  /\ a.selection = b.selection /\ a.packaging = b.packaging
  /\ a.case = b.case /\ a.request = b.request

\* No two cells of a track are alike.

LEMMA BoundaryOnce ==
  ASSUME NEW c, WellListed(c), NEW e \in Boundary(c)
  PROVE  /\ e.cell.track = "boundary"
         /\ \A f \in Boundary(c) : Alike(e.cell, f.cell) => e.slot = f.slot
<1> USE DEF Alike
<1>1. ASSUME NEW x \in Boundary(c)
      PROVE  \E i \in DOMAIN c.boundary, p \in Pairs(c) :
                /\ x.slot = <<"boundary", i, p>> /\ p = <<x.cell.case, x.cell.request>>
                /\ x.cell.arch = c.boundary[i] /\ x.cell.track = "boundary"
  <2>1. PICK i \in DOMAIN c.boundary, p \in Pairs(c) :
           x = Entry(<<"boundary", i, p>>, BoundaryCell(c.boundary[i], p))
    BY DEF Boundary
  <2> DEFINE cell == BoundaryCell(c.boundary[i], p)
  <2>2. cell.track = "boundary" /\ cell.arch = c.boundary[i] /\ cell.case = p[1] /\ cell.request = p[2]
    BY ListedCells DEF Full
  <2> HIDE DEF cell
  <2>3. x.slot = <<"boundary", i, p>> /\ x.cell = cell
    BY <2>1 DEF Entry, cell
  <2>4. p = <<p[1], p[2]>>
    BY PairsArePairs
  <2> QED BY <2>2, <2>3, <2>4
<1>2. \A i, j \in DOMAIN c.boundary : c.boundary[i] = c.boundary[j] => i = j
  BY DEF WellListed, ListsOnce
<1>3. ASSUME NEW f \in Boundary(c), Alike(e.cell, f.cell) PROVE e.slot = f.slot
  <2>1. PICK i \in DOMAIN c.boundary, p \in Pairs(c) :
           /\ e.slot = <<"boundary", i, p>> /\ p = <<e.cell.case, e.cell.request>>
           /\ e.cell.arch = c.boundary[i]
    BY <1>1
  <2>2. PICK j \in DOMAIN c.boundary, q \in Pairs(c) :
           /\ f.slot = <<"boundary", j, q>> /\ q = <<f.cell.case, f.cell.request>>
           /\ f.cell.arch = c.boundary[j]
    BY <1>1
  <2> QED BY <1>2, <1>3, <2>1, <2>2
<1> QED BY <1>1, <1>3

LEMMA MemoryOnce ==
  ASSUME NEW c, WellListed(c), NEW e \in Memory(c)
  PROVE  /\ e.cell.track = "memory_ablation"
         /\ \A f \in Memory(c) : Alike(e.cell, f.cell) => e.slot = f.slot
<1> USE DEF Alike
<1>1. ASSUME NEW x \in Memory(c)
      PROVE  \E i \in DOMAIN c.memory, p \in Pairs(c) :
                /\ x.slot = <<"memory", i, p>> /\ p = <<x.cell.case, x.cell.request>>
                /\ x.cell.arch = c.memory[i] /\ x.cell.track = "memory_ablation"
  <2> DEFINE made(i, p) == Cell("memory_ablation", c.memory[i], p[1], p[2])
             entry(i, p) == Entry(<<"memory", i, p>>, made(i, p))
  <2>0. Memory(c) = {entry(i, p) : i \in DOMAIN c.memory, p \in Pairs(c)}
    BY DEF Memory
  <2> HIDE DEF entry
  <2>1. PICK i \in DOMAIN c.memory, p \in Pairs(c) : x = entry(i, p)
    BY <2>0
  <2> DEFINE cell == Cell("memory_ablation", c.memory[i], p[1], p[2])
  <2>2. cell.track = "memory_ablation" /\ cell.arch = c.memory[i] /\ cell.case = p[1] /\ cell.request = p[2]
    BY CellIsFull DEF Full
  <2> HIDE DEF cell
  <2>3. x.slot = <<"memory", i, p>> /\ x.cell = cell
    BY <2>1 DEF Entry, cell, entry
  <2>4. p = <<p[1], p[2]>>
    BY PairsArePairs
  <2> QED BY <2>2, <2>3, <2>4
<1>2. \A i, j \in DOMAIN c.memory : c.memory[i] = c.memory[j] => i = j
  BY DEF WellListed, ListsOnce
<1>3. ASSUME NEW f \in Memory(c), Alike(e.cell, f.cell) PROVE e.slot = f.slot
  <2>1. PICK i \in DOMAIN c.memory, p \in Pairs(c) :
           /\ e.slot = <<"memory", i, p>> /\ p = <<e.cell.case, e.cell.request>>
           /\ e.cell.arch = c.memory[i]
    BY <1>1
  <2>2. PICK j \in DOMAIN c.memory, q \in Pairs(c) :
           /\ f.slot = <<"memory", j, q>> /\ q = <<f.cell.case, f.cell.request>>
           /\ f.cell.arch = c.memory[j]
    BY <1>1
  <2> QED BY <1>2, <1>3, <2>1, <2>2
<1> QED BY <1>1, <1>3

LEMMA PostOnce ==
  ASSUME NEW c, WellListed(c), NEW e \in PostCanonical(c)
  PROVE  /\ e.cell.track = "post_canonical"
         /\ \A f \in PostCanonical(c) : Alike(e.cell, f.cell) => e.slot = f.slot
<1> USE DEF Alike
<1>1. ASSUME NEW x \in PostCanonical(c)
      PROVE  \E i \in DOMAIN c.post, id \in SelectCases(c) :
                /\ x.slot = <<"post", i, id>> /\ id = x.cell.case
                /\ x.cell.arch = c.post[i] /\ x.cell.track = "post_canonical"
  <2>1. PICK i \in DOMAIN c.post, id \in SelectCases(c) :
           x = Entry(<<"post", i, id>>, PostCell(c.post[i], id))
    BY DEF PostCanonical
  <2> DEFINE cell == PostCell(c.post[i], id)
  <2>2. cell.track = "post_canonical" /\ cell.arch = c.post[i] /\ cell.case = id
    BY ListedCells DEF Full
  <2> HIDE DEF cell
  <2>3. x.slot = <<"post", i, id>> /\ x.cell = cell
    BY <2>1 DEF Entry, cell
  <2> QED BY <2>2, <2>3
<1>2. \A i, j \in DOMAIN c.post : c.post[i] = c.post[j] => i = j
  BY DEF WellListed, ListsOnce
<1>3. ASSUME NEW f \in PostCanonical(c), Alike(e.cell, f.cell) PROVE e.slot = f.slot
  <2>1. PICK i \in DOMAIN c.post, id \in SelectCases(c) :
           e.slot = <<"post", i, id>> /\ id = e.cell.case /\ e.cell.arch = c.post[i]
    BY <1>1
  <2>2. PICK j \in DOMAIN c.post, other \in SelectCases(c) :
           f.slot = <<"post", j, other>> /\ other = f.cell.case /\ f.cell.arch = c.post[j]
    BY <1>1
  <2> QED BY <1>2, <1>3, <2>1, <2>2
<1> QED BY <1>1, <1>3

LEMMA ElicitationOnce ==
  ASSUME NEW c, WellListed(c), NEW e \in IntentElicitation(c)
  PROVE  /\ e.cell.track = "intent_elicitation"
         /\ \A f \in IntentElicitation(c) : Alike(e.cell, f.cell) => e.slot = f.slot
<1> USE DEF Alike
<1>1. ASSUME NEW x \in IntentElicitation(c)
      PROVE  \E i \in DOMAIN c.intent, id \in SelectCases(c) :
                /\ x.slot = <<"intent", i, id>> /\ id = x.cell.case
                /\ x.cell.arch = c.intent[i] /\ x.cell.track = "intent_elicitation"
  <2>1. PICK i \in DOMAIN c.intent, id \in SelectCases(c) :
           x = Entry(<<"intent", i, id>>, ElicitationCell(c.intent[i], id))
    BY DEF IntentElicitation
  <2> DEFINE cell == ElicitationCell(c.intent[i], id)
  <2>2. cell.track = "intent_elicitation" /\ cell.arch = c.intent[i] /\ cell.case = id
    BY ListedCells DEF Full
  <2> HIDE DEF cell
  <2>3. x.slot = <<"intent", i, id>> /\ x.cell = cell
    BY <2>1 DEF Entry, cell
  <2> QED BY <2>2, <2>3
<1>2. \A i, j \in DOMAIN c.intent : c.intent[i] = c.intent[j] => i = j
  BY DEF WellListed, ListsOnce
<1>3. ASSUME NEW f \in IntentElicitation(c), Alike(e.cell, f.cell) PROVE e.slot = f.slot
  <2>1. PICK i \in DOMAIN c.intent, id \in SelectCases(c) :
           e.slot = <<"intent", i, id>> /\ id = e.cell.case /\ e.cell.arch = c.intent[i]
    BY <1>1
  <2>2. PICK j \in DOMAIN c.intent, other \in SelectCases(c) :
           f.slot = <<"intent", j, other>> /\ other = f.cell.case /\ f.cell.arch = c.intent[j]
    BY <1>1
  <2> QED BY <1>2, <1>3, <2>1, <2>2
<1> QED BY <1>1, <1>3

LEMMA PersistenceOnce ==
  ASSUME NEW c, WellListed(c), NEW e \in Persistence(c)
  PROVE  /\ e.cell.track = "progressive_formalization" /\ e.cell.arch \in ConditionsLP
         /\ \A f \in Persistence(c) : Alike(e.cell, f.cell) => e.slot = f.slot
<1> USE DEF Alike
<1> DEFINE conditions == Given(c.formal.persistence, DefaultLP)
           track == "progressive_formalization"
<1>1. ASSUME NEW x \in Persistence(c)
      PROVE  \E i \in DOMAIN conditions, p \in Pairs(c) : \E k \in DOMAIN Modes(c, conditions[i]) :
                /\ x.slot = <<"persistence", <<i, p>>, k>> /\ p = <<x.cell.case, x.cell.request>>
                /\ x.cell.arch = conditions[i] /\ conditions[i] \in ConditionsLP
                /\ x.cell.intent = Modes(c, conditions[i])[k] /\ x.cell.track = track
  <2>1. PICK s \in PersistenceSlots(c) : \E k \in DOMAIN Modes(c, conditions[s[1]]) :
           x = Entry(<<"persistence", s, k>>,
                     PersistenceCell(conditions[s[1]], s[2], Modes(c, conditions[s[1]])[k]))
    BY DEF Persistence
  <2>2. PICK i \in DOMAIN conditions, p \in Pairs(c) : s = <<i, p>> /\ conditions[i] \in ConditionsLP
    BY DEF PersistenceSlots, ToExecute
  <2> HIDE DEF conditions
  <2>3. s[1] = i /\ s[2] = p
    BY <2>2
  <2>4. PICK k \in DOMAIN Modes(c, conditions[i]) :
           x = Entry(<<"persistence", s, k>>,
                     PersistenceCell(conditions[i], p, Modes(c, conditions[i])[k]))
    BY <2>1, <2>3
  <2> DEFINE mode == Modes(c, conditions[i])[k]
             cell == PersistenceCell(conditions[i], p, mode)
  <2> HIDE DEF mode
  <2>5. /\ cell.track = track /\ cell.arch = conditions[i] /\ cell.case = p[1]
        /\ cell.request = p[2] /\ cell.intent = mode
    BY LadderCells DEF Full
  <2> HIDE DEF cell
  <2>6. x.slot = <<"persistence", s, k>> /\ x.cell = cell
    BY <2>4 DEF Entry, cell, mode
  <2>7. p = <<p[1], p[2]>>
    BY PairsArePairs
  <2> QED BY <2>2, <2>5, <2>6, <2>7 DEF mode
<1>2. \A i, j \in DOMAIN conditions : conditions[i] = conditions[j] => i = j
  <2>1. ListsOnce(c.formal.persistence)
    BY DEF WellListed
  <2>2. ListsOnce(DefaultLP)
    BY DEF ListsOnce, DefaultLP
  <2> QED BY <2>1, <2>2 DEF Given, ListsOnce
<1>3. ASSUME NEW condition, NEW k \in DOMAIN Modes(c, condition), NEW l \in DOMAIN Modes(c, condition),
             Modes(c, condition)[k] = Modes(c, condition)[l]
      PROVE  k = l
  <2>1. ListsOnce(c.formal.modes)
    BY DEF WellListed
  <2>2. ListsOnce(<<"gold", "runtime">>) /\ ListsOnce(<<"runtime">>) /\ ListsOnce(<<"gold">>)
    BY DEF ListsOnce
  <2>3. ListsOnce(Modes(c, condition))
    BY <2>1, <2>2 DEF Modes, Given
  <2> QED BY <1>3, <2>3 DEF ListsOnce
<1> HIDE DEF conditions
<1>4. ASSUME NEW f \in Persistence(c), Alike(e.cell, f.cell) PROVE e.slot = f.slot
  <2>1. PICK i \in DOMAIN conditions, p \in Pairs(c) : \E k \in DOMAIN Modes(c, conditions[i]) :
           /\ e.slot = <<"persistence", <<i, p>>, k>> /\ p = <<e.cell.case, e.cell.request>>
           /\ e.cell.arch = conditions[i] /\ e.cell.intent = Modes(c, conditions[i])[k]
    BY <1>1
  <2>2. PICK k \in DOMAIN Modes(c, conditions[i]) :
           e.slot = <<"persistence", <<i, p>>, k>> /\ e.cell.intent = Modes(c, conditions[i])[k]
    BY <2>1
  <2>3. PICK j \in DOMAIN conditions, q \in Pairs(c) : \E l \in DOMAIN Modes(c, conditions[j]) :
           /\ f.slot = <<"persistence", <<j, q>>, l>> /\ q = <<f.cell.case, f.cell.request>>
           /\ f.cell.arch = conditions[j] /\ f.cell.intent = Modes(c, conditions[j])[l]
    BY <1>1
  <2>4. PICK l \in DOMAIN Modes(c, conditions[j]) :
           f.slot = <<"persistence", <<j, q>>, l>> /\ f.cell.intent = Modes(c, conditions[j])[l]
    BY <2>3
  <2>5. i = j /\ p = q
    BY <1>2, <1>4, <2>1, <2>3
  <2>6. k = l
    BY <1>3, <1>4, <2>2, <2>4, <2>5
  <2> QED BY <2>2, <2>4, <2>5, <2>6
<1> QED BY <1>1, <1>4

LEMMA AgentsOnce ==
  ASSUME NEW c, WellListed(c), NEW e \in AgentLoop(c)
  PROVE  /\ e.cell.track = "agent_loop"
         /\ \A f \in AgentLoop(c) : Alike(e.cell, f.cell) => e.slot = f.slot
<1> USE DEF Alike
<1> DEFINE conditions == Given(c.agent.conditions, DefaultAL)
           listed == IF c.agent.cases = {} THEN SelectCases(c) ELSE c.agent.cases \cap Cases
           all == UNION {{<<id, r>> : r \in FilterRequests(c, id)} : id \in listed}
           modes(i) == IF conditions[i] = "AL_RAW" THEN <<"none">> ELSE c.agent.modes
<1>1. ASSUME NEW p \in all PROVE p = <<p[1], p[2]>>
  <2> HIDE DEF listed
  <2> QED OBVIOUS
<1>2. ASSUME NEW x \in AgentLoop(c)
      PROVE  \E i \in DOMAIN conditions, p \in all : \E k \in DOMAIN modes(i) :
                /\ x.slot = <<"agent", <<i, p>>, k>> /\ p = <<x.cell.case, x.cell.request>>
                /\ x.cell.arch = conditions[i] /\ x.cell.track = "agent_loop"
                /\ x.cell.intent = modes(i)[k]
  <2> DEFINE known(i) == {j \in DOMAIN modes(i) : modes(i)[j] \in {"gold", "runtime", "none"}}
             made(s) == {Entry(<<"agent", s, k>>, AgentCell(conditions[s[1]], s[2], modes(s[1])[k]))
                           : k \in known(s[1])}
  <2>0. AgentLoop(c) = UNION {made(s) : s \in (DOMAIN conditions) \X ToExecute(all)}
    BY DEF AgentLoop
  <2>a. \A i : known(i) \subseteq DOMAIN modes(i)
    <3> HIDE DEF modes
    <3> QED OBVIOUS
  <2> HIDE DEF conditions, all, modes, known
  <2>b. PICK s \in (DOMAIN conditions) \X ToExecute(all) : x \in made(s)
    <3> HIDE DEF made
    <3> QED BY <2>0
  <2>1. \E k \in DOMAIN modes(s[1]) :
           x = Entry(<<"agent", s, k>>, AgentCell(conditions[s[1]], s[2], modes(s[1])[k]))
    BY <2>a, <2>b
  <2>2. PICK i \in DOMAIN conditions, p \in all : s = <<i, p>>
    BY DEF ToExecute
  <2> HIDE DEF conditions, all, modes
  <2>3. s[1] = i /\ s[2] = p
    BY <2>2
  <2>4. PICK k \in DOMAIN modes(i) :
           x = Entry(<<"agent", s, k>>, AgentCell(conditions[i], p, modes(i)[k]))
    BY <2>1, <2>3
  <2> DEFINE mode == modes(i)[k]
             cell == AgentCell(conditions[i], p, mode)
  <2> HIDE DEF mode
  <2>5. /\ cell.track = "agent_loop" /\ cell.arch = conditions[i] /\ cell.case = p[1]
        /\ cell.request = p[2] /\ cell.intent = mode
    BY ListedCells DEF Full
  <2> HIDE DEF cell
  <2>6. x.slot = <<"agent", s, k>> /\ x.cell = cell
    BY <2>4 DEF Entry, cell, mode
  <2>7. p = <<p[1], p[2]>>
    BY <1>1
  <2> QED BY <2>2, <2>5, <2>6, <2>7 DEF mode
<1>3. \A i, j \in DOMAIN conditions : conditions[i] = conditions[j] => i = j
  <2>1. ListsOnce(c.agent.conditions)
    BY DEF WellListed
  <2>2. ListsOnce(DefaultAL)
    BY DEF ListsOnce, DefaultAL
  <2> QED BY <2>1, <2>2 DEF Given, ListsOnce
<1>4. ASSUME NEW i, NEW k \in DOMAIN modes(i), NEW l \in DOMAIN modes(i), modes(i)[k] = modes(i)[l]
      PROVE  k = l
  <2>1. ListsOnce(c.agent.modes)
    BY DEF WellListed
  <2>2. ListsOnce(<<"none">>)
    BY DEF ListsOnce
  <2>3. ListsOnce(modes(i))
    BY <2>1, <2>2
  <2> QED BY <1>4, <2>3 DEF ListsOnce
<1> HIDE DEF conditions, modes, all
<1>5. ASSUME NEW f \in AgentLoop(c), Alike(e.cell, f.cell) PROVE e.slot = f.slot
  <2>1. PICK i \in DOMAIN conditions, p \in all : \E k \in DOMAIN modes(i) :
           /\ e.slot = <<"agent", <<i, p>>, k>> /\ p = <<e.cell.case, e.cell.request>>
           /\ e.cell.arch = conditions[i] /\ e.cell.intent = modes(i)[k]
    BY <1>2
  <2>2. PICK k \in DOMAIN modes(i) :
           e.slot = <<"agent", <<i, p>>, k>> /\ e.cell.intent = modes(i)[k]
    BY <2>1
  <2>3. PICK j \in DOMAIN conditions, q \in all : \E l \in DOMAIN modes(j) :
           /\ f.slot = <<"agent", <<j, q>>, l>> /\ q = <<f.cell.case, f.cell.request>>
           /\ f.cell.arch = conditions[j] /\ f.cell.intent = modes(j)[l]
    BY <1>2
  <2>4. PICK l \in DOMAIN modes(j) :
           f.slot = <<"agent", <<j, q>>, l>> /\ f.cell.intent = modes(j)[l]
    BY <2>3
  <2>5. i = j /\ p = q
    BY <1>3, <1>5, <2>1, <2>3
  <2>6. k = l
    BY <1>4, <1>5, <2>2, <2>4, <2>5
  <2> QED BY <2>2, <2>4, <2>5, <2>6
<1> QED BY <1>2, <1>5

\* The P ladder and its controls: a control differs from the condition it controls for in
\* how the procedure is packaged or selected, or has an architecture of its own.

LEMMA LadderOnce ==
  ASSUME NEW c, WellListed(c), NEW e \in Ladder(c)
  PROVE  /\ e.cell.track = "progressive_formalization"
         /\ e.cell.arch \in ConditionsP \cup {"P2F_CANONICAL_FACTS_PROPOSAL"}
         /\ \A f \in Ladder(c) : Alike(e.cell, f.cell) => e.slot = f.slot
<1> USE DEF Alike
<1> DEFINE conditions == Given(c.formal.conditions, DefaultP)
           reached == {s \in (DOMAIN conditions) \X Pairs(c) :
                         /\ conditions[s[1]] \in ConditionsP
                         /\ conditions[s[1]] \in WithProcedure => s[2][1] \in Procedural}
           early == {"P0_RAW_PROPOSAL", "P1_CLARIFY_PROPOSAL"}
           modes(i) == IF Ablations(c) /\ conditions[i] \notin early
                       THEN {"runtime", "gold"} ELSE {"runtime"}
           track == "progressive_formalization"
           P3 == "P3_CANONICAL_PROCEDURE_PROPOSAL"
           P2F == "P2F_CANONICAL_FACTS_PROPOSAL"
           OfLadder(x) == \E i \in DOMAIN conditions, p \in Pairs(c) : \E mode \in modes(i) :
              /\ x.slot = <<"ladder", <<i, p>>, mode>> /\ p = <<x.cell.case, x.cell.request>>
              /\ x.cell.arch = conditions[i] /\ conditions[i] \in ConditionsP
              /\ x.cell.intent = IF conditions[i] \in early THEN "none" ELSE mode
              /\ x.cell.arch = P3 => x.cell.selection = "gold" /\ x.cell.packaging = "inline"
           OfControl(x) == \E i \in DOMAIN conditions, p \in Pairs(c) : \E k \in 1..3 :
              /\ x.slot = <<"control", <<i, p>>, k>> /\ p = <<x.cell.case, x.cell.request>>
              /\ conditions[i] = P3
              /\ k = 1 => x.cell.arch = P3 /\ x.cell.selection = "gold" /\ x.cell.packaging = "packaged"
              /\ k = 2 => x.cell.arch = P3 /\ x.cell.selection = "runtime" /\ x.cell.packaging = "inline"
              /\ k = 3 => x.cell.arch = P2F
<1>1. ASSUME NEW x \in Ladder(c) PROVE x.cell.track = track /\ (OfLadder(x) \/ OfControl(x))
  <2> DEFINE controlled == {t \in reached : conditions[t[1]] = P3 /\ Ablations(c)}
             rungs(s) == {Entry(<<"ladder", s, mode>>, Mode(conditions[s[1]], s[2], mode))
                            : mode \in modes(s[1])}
             extras(s) == {Entry(<<"control", s, k>>, Controls(s[2])[k]) : k \in 1..3}
  <2>0. Ladder(c) = (UNION {rungs(s) : s \in reached}) \cup (UNION {extras(s) : s \in controlled})
    BY DEF Ladder
  <2>2. \A s \in reached : \E i \in DOMAIN conditions, p \in Pairs(c) :
           s = <<i, p>> /\ conditions[i] \in ConditionsP
    OBVIOUS
  <2>a. \A s \in controlled : s \in reached /\ conditions[s[1]] = P3
    <3> HIDE DEF conditions, reached
    <3> QED OBVIOUS
  <2> HIDE DEF conditions, reached, modes, controlled
  <2>1. \/ \E s \in reached : \E mode \in modes(s[1]) :
              x = Entry(<<"ladder", s, mode>>, Mode(conditions[s[1]], s[2], mode))
        \/ \E s \in reached : /\ conditions[s[1]] = P3
                              /\ \E k \in 1..3 : x = Entry(<<"control", s, k>>, Controls(s[2])[k])
    <3>1. (\E s \in reached : x \in rungs(s)) \/ (\E s \in controlled : x \in extras(s))
      <4> HIDE DEF rungs, extras
      <4> QED BY <2>0
    <3>2. CASE \E s \in reached : x \in rungs(s)
      BY <3>2
    <3>3. CASE \E s \in controlled : x \in extras(s)
      <4>1. PICK s \in controlled : x \in extras(s)
        BY <3>3
      <4>2. \E k \in 1..3 : x = Entry(<<"control", s, k>>, Controls(s[2])[k])
        BY <4>1
      <4> QED BY <2>a, <4>2
    <3> QED BY <3>1, <3>2, <3>3
  <2>3. CASE \E s \in reached : \E mode \in modes(s[1]) :
              x = Entry(<<"ladder", s, mode>>, Mode(conditions[s[1]], s[2], mode))
    <3>1. PICK s \in reached : \E mode \in modes(s[1]) :
              x = Entry(<<"ladder", s, mode>>, Mode(conditions[s[1]], s[2], mode))
      BY <2>3
    <3>2. PICK i \in DOMAIN conditions, p \in Pairs(c) : s = <<i, p>> /\ conditions[i] \in ConditionsP
      BY <2>2
    <3>3. s[1] = i /\ s[2] = p
      BY <3>2
    <3>4. PICK mode \in modes(i) : x = Entry(<<"ladder", s, mode>>, Mode(conditions[i], p, mode))
      BY <3>1, <3>3
    <3> DEFINE cell == Mode(conditions[i], p, mode)
    <3>5. /\ cell.track = track /\ cell.arch = conditions[i] /\ cell.case = p[1] /\ cell.request = p[2]
          /\ cell.intent = IF conditions[i] \in early THEN "none" ELSE mode
          /\ cell.selection = IF conditions[i] \in WithProcedure THEN "gold" ELSE "none"
          /\ cell.packaging = IF conditions[i] \in WithProcedure THEN "inline" ELSE "none"
      BY LadderCells DEF Full
    <3> HIDE DEF cell
    <3>6. x.slot = <<"ladder", s, mode>> /\ x.cell = cell
      BY <3>4 DEF Entry, cell
    <3>7. p = <<p[1], p[2]>>
      BY PairsArePairs
    <3>8. P3 \in WithProcedure
      BY DEF WithProcedure
    <3>9. OfLadder(x)
      BY <3>2, <3>5, <3>6, <3>7, <3>8
    <3> QED BY <3>5, <3>6, <3>9
  <2>4. CASE \E s \in reached : /\ conditions[s[1]] = P3
                              /\ \E k \in 1..3 : x = Entry(<<"control", s, k>>, Controls(s[2])[k])
    <3>1. PICK s \in reached : /\ conditions[s[1]] = P3
                              /\ \E k \in 1..3 : x = Entry(<<"control", s, k>>, Controls(s[2])[k])
      BY <2>4
    <3>2. PICK i \in DOMAIN conditions, p \in Pairs(c) : s = <<i, p>>
      BY <2>2
    <3>3. s[1] = i /\ s[2] = p
      BY <3>2
    <3>4. PICK k \in 1..3 : x = Entry(<<"control", s, k>>, Controls(p)[k])
      BY <3>1, <3>3
    <3> DEFINE cell == Controls(p)[k]
    <3>5. /\ cell.track = track /\ cell.case = p[1] /\ cell.request = p[2]
          /\ k = 1 => cell.arch = P3 /\ cell.selection = "gold" /\ cell.packaging = "packaged"
          /\ k = 2 => cell.arch = P3 /\ cell.selection = "runtime" /\ cell.packaging = "inline"
          /\ k = 3 => cell.arch = P2F
      <4>1. k = 1 \/ k = 2 \/ k = 3
        OBVIOUS
      <4> QED BY <4>1, ControlsAreFull DEF Full
    <3> HIDE DEF cell
    <3>6. x.slot = <<"control", s, k>> /\ x.cell = cell
      BY <3>4 DEF Entry, cell
    <3>7. p = <<p[1], p[2]>>
      BY PairsArePairs
    <3>8. OfControl(x)
      BY <3>1, <3>2, <3>3, <3>5, <3>6, <3>7
    <3> QED BY <3>5, <3>6, <3>8
  <2> QED BY <2>1, <2>3, <2>4
<1>2. \A i, j \in DOMAIN conditions : conditions[i] = conditions[j] => i = j
  <2>1. ListsOnce(c.formal.conditions)
    BY DEF WellListed
  <2>2. ListsOnce(DefaultP)
    BY DEF ListsOnce, DefaultP
  <2> QED BY <2>1, <2>2 DEF Given, ListsOnce
<1>3. P3 \in ConditionsP /\ P2F \notin ConditionsP
  BY DEF ConditionsP
<1>4. \A i : \A m, n \in modes(i) : m = n \/ conditions[i] \notin early
  OBVIOUS
<1> HIDE DEF conditions, modes
<1>5. ASSUME NEW x, NEW y, OfLadder(x), OfLadder(y), Alike(x.cell, y.cell) PROVE x.slot = y.slot
  <2>1. PICK i \in DOMAIN conditions, p \in Pairs(c) : \E mode \in modes(i) :
           /\ x.slot = <<"ladder", <<i, p>>, mode>> /\ p = <<x.cell.case, x.cell.request>>
           /\ x.cell.arch = conditions[i]
           /\ x.cell.intent = IF conditions[i] \in early THEN "none" ELSE mode
    BY <1>5
  <2>2. PICK m \in modes(i) : /\ x.slot = <<"ladder", <<i, p>>, m>>
                              /\ x.cell.intent = IF conditions[i] \in early THEN "none" ELSE m
    BY <2>1
  <2>3. PICK j \in DOMAIN conditions, q \in Pairs(c) : \E mode \in modes(j) :
           /\ y.slot = <<"ladder", <<j, q>>, mode>> /\ q = <<y.cell.case, y.cell.request>>
           /\ y.cell.arch = conditions[j]
           /\ y.cell.intent = IF conditions[j] \in early THEN "none" ELSE mode
    BY <1>5
  <2>4. PICK n \in modes(j) : /\ y.slot = <<"ladder", <<j, q>>, n>>
                              /\ y.cell.intent = IF conditions[j] \in early THEN "none" ELSE n
    BY <2>3
  <2>5. i = j /\ p = q
    BY <1>2, <1>5, <2>1, <2>3
  <2>6. m = n
    BY <1>4, <1>5, <2>2, <2>4, <2>5
  <2> QED BY <2>2, <2>4, <2>5, <2>6
<1>6. ASSUME NEW x, NEW y, OfControl(x), OfControl(y), Alike(x.cell, y.cell) PROVE x.slot = y.slot
  <2>1. PICK i \in DOMAIN conditions, p \in Pairs(c) : \E k \in 1..3 :
              /\ x.slot = <<"control", <<i, p>>, k>> /\ p = <<x.cell.case, x.cell.request>>
              /\ conditions[i] = P3
              /\ k = 1 => x.cell.arch = P3 /\ x.cell.selection = "gold" /\ x.cell.packaging = "packaged"
              /\ k = 2 => x.cell.arch = P3 /\ x.cell.selection = "runtime" /\ x.cell.packaging = "inline"
              /\ k = 3 => x.cell.arch = P2F
    BY <1>6
  <2>2. PICK k \in 1..3 :
              /\ x.slot = <<"control", <<i, p>>, k>>
              /\ k = 1 => x.cell.arch = P3 /\ x.cell.selection = "gold" /\ x.cell.packaging = "packaged"
              /\ k = 2 => x.cell.arch = P3 /\ x.cell.selection = "runtime" /\ x.cell.packaging = "inline"
              /\ k = 3 => x.cell.arch = P2F
    BY <2>1
  <2>3. PICK j \in DOMAIN conditions, q \in Pairs(c) : \E l \in 1..3 :
              /\ y.slot = <<"control", <<j, q>>, l>> /\ q = <<y.cell.case, y.cell.request>>
              /\ conditions[j] = P3
              /\ l = 1 => y.cell.arch = P3 /\ y.cell.selection = "gold" /\ y.cell.packaging = "packaged"
              /\ l = 2 => y.cell.arch = P3 /\ y.cell.selection = "runtime" /\ y.cell.packaging = "inline"
              /\ l = 3 => y.cell.arch = P2F
    BY <1>6
  <2>4. PICK l \in 1..3 :
              /\ y.slot = <<"control", <<j, q>>, l>>
              /\ l = 1 => y.cell.arch = P3 /\ y.cell.selection = "gold" /\ y.cell.packaging = "packaged"
              /\ l = 2 => y.cell.arch = P3 /\ y.cell.selection = "runtime" /\ y.cell.packaging = "inline"
              /\ l = 3 => y.cell.arch = P2F
    BY <2>3
  <2>5. i = j /\ p = q
    BY <1>2, <1>6, <2>1, <2>3
  <2>6. k = l
    <3>1. (k = 1 \/ k = 2 \/ k = 3) /\ (l = 1 \/ l = 2 \/ l = 3)
      OBVIOUS
    <3> QED BY <1>6, <2>2, <2>4, <3>1
  <2> QED BY <2>2, <2>4, <2>5, <2>6
<1>7. ASSUME NEW x, NEW y, OfLadder(x), OfControl(y) PROVE ~Alike(x.cell, y.cell)
  <2>1. x.cell.arch \in ConditionsP
        /\ (x.cell.arch = P3 => x.cell.selection = "gold" /\ x.cell.packaging = "inline")
    BY <1>7
  <2>2. \/ y.cell.arch = P3 /\ (y.cell.packaging = "packaged" \/ y.cell.selection = "runtime")
        \/ y.cell.arch = P2F
    <3>1. \A k \in 1..3 : k = 1 \/ k = 2 \/ k = 3
      OBVIOUS
    <3> QED BY <1>7, <3>1
  <2> QED BY <1>3, <2>1, <2>2
<1>8. \A x : OfLadder(x) => x.cell.arch \in ConditionsP
  OBVIOUS
<1>9. \A x : OfControl(x) => x.cell.arch \in {P3, P2F}
  <2>1. \A k \in 1..3 : k = 1 \/ k = 2 \/ k = 3
    OBVIOUS
  <2> QED BY <2>1
<1> HIDE DEF OfLadder, OfControl
<1> QED BY <1>1, <1>3, <1>5, <1>6, <1>7, <1>8, <1>9

\* Alike cells of one track are one append.
LEMMA AlikeOnce ==
  ASSUME NEW c, WellListed(c), NEW e \in Entries(c), NEW f \in Entries(c),
         Alike(e.cell, f.cell), e.cell.track = f.cell.track
  PROVE  e.slot = f.slot
<1> DEFINE P == ConditionsP \cup {"P2F_CANONICAL_FACTS_PROPOSAL"}
<1>1. ASSUME NEW x \in Entries(c)
      PROVE  \/ x \in Boundary(c) /\ x.cell.track = "boundary"
             \/ x \in PostCanonical(c) /\ x.cell.track = "post_canonical"
             \/ x \in IntentElicitation(c) /\ x.cell.track = "intent_elicitation"
             \/ x \in Memory(c) /\ x.cell.track = "memory_ablation"
             \/ x \in Ladder(c) /\ x.cell.track = "progressive_formalization" /\ x.cell.arch \in P
             \/ /\ x \in Persistence(c) /\ x.cell.track = "progressive_formalization"
                /\ x.cell.arch \in ConditionsLP
             \/ x \in AgentLoop(c) /\ x.cell.track = "agent_loop"
  BY <1>1, BoundaryOnce, PostOnce, ElicitationOnce, MemoryOnce, LadderOnce, PersistenceOnce, AgentsOnce
     DEF Entries
<1>2. P \cap ConditionsLP = {}
  BY DEF ConditionsP, ConditionsLP, GoldStart, WithProcedureLP
<1> HIDE DEF P
<1>3. \/ e \in Boundary(c) /\ f \in Boundary(c)
      \/ e \in PostCanonical(c) /\ f \in PostCanonical(c)
      \/ e \in IntentElicitation(c) /\ f \in IntentElicitation(c)
      \/ e \in Memory(c) /\ f \in Memory(c)
      \/ e \in Ladder(c) /\ f \in Ladder(c)
      \/ e \in Persistence(c) /\ f \in Persistence(c)
      \/ e \in AgentLoop(c) /\ f \in AgentLoop(c)
  <2>1. e.cell.track = f.cell.track /\ e.cell.arch = f.cell.arch
    BY DEF Alike
  <2> QED BY <1>1, <1>2, <2>1
<1> QED BY <1>3, BoundaryOnce, PostOnce, ElicitationOnce, MemoryOnce, LadderOnce, PersistenceOnce,
           AgentsOnce

\* No two appends of an expansion are the same cell.
LEMMA ExpansionHasNoRepeats ==
  ASSUME NEW c, WellListed(c), NEW e \in Entries(c), NEW f \in Entries(c), e.cell = f.cell
  PROVE  e.slot = f.slot
BY AlikeOnce DEF Alike

\* What evaluations take for granted of the plan they are of (Metrics.tla, IsPlan): when
\* no condition is listed by two tracks, no two appends outside elicitation are of
\* one condition on one request of one case (matrix.py, expand_matrix).
THEOREM ComparedCellsAreApart ==
  ASSUME NEW c, WellListed(c), NEW e \in Entries(c), NEW f \in Entries(c),
         \A x, y \in Entries(c) : x.cell.arch = y.cell.arch =>
            \/ "intent_elicitation" \in {x.cell.track, y.cell.track}
            \/ x.cell.track = y.cell.track,
         "intent_elicitation" \notin {e.cell.track, f.cell.track}, Alike(e.cell, f.cell)
  PROVE  e.slot = f.slot
BY AlikeOnce DEF Alike

\* An accepted request that was asked for by name is in both tracks that take
\* requests as they are, if the configuration lists an architecture for them.
LEMMA AcceptedRequestsEnter ==
  ASSUME NEW c, ~Refused(c), Listing(c), c.boundary # <<>> \/ c.memory # <<>>, NEW r \in c.requests
  PROVE  \E cell \in CellsOf(c) : cell.request = r
<1>1. PICK id \in SelectCases(c) : r \in FilterRequests(c, id)
  BY DEF Refused, RequestsRefused, Selected
<1> DEFINE p == <<id, r>>
<1>2. p \in Pairs(c)
  BY <1>1 DEF Pairs
<1>3. p[2] = r
  OBVIOUS
<1> HIDE DEF p
<1>4. CASE c.boundary # <<>>
  <2> DEFINE cell == BoundaryCell(c.boundary[1], p)
             e == Entry(<<"boundary", 1, p>>, cell)
  <2>1. 1 \in DOMAIN c.boundary
    BY <1>4 DEF Listing
  <2>2. e \in Entries(c)
    <3>1. e \in Boundary(c)
      BY <1>2, <2>1 DEF Boundary
    <3> HIDE DEF e
    <3> QED BY <3>1 DEF Entries
  <2>3. cell.request = r
    <3>1. PICK i : Full(cell, "boundary", c.boundary[1], p[1], p[2], i, "none", "none")
      BY ListedCells
    <3> HIDE DEF cell
    <3> QED BY <1>3, <3>1 DEF Full
  <2> HIDE DEF cell
  <2>4. e.cell = cell
    BY DEF Entry
  <2> HIDE DEF e
  <2> QED BY <2>2, <2>3, <2>4 DEF CellsOf
<1>5. CASE c.memory # <<>>
  <2> DEFINE made(i, q) == Cell("memory_ablation", c.memory[i], q[1], q[2])
             entry(i, q) == Entry(<<"memory", i, q>>, made(i, q))
             cell == made(1, p)
             e == entry(1, p)
  <2>1. 1 \in DOMAIN c.memory
    BY <1>5 DEF Listing
  <2>2. e \in Entries(c)
    <3>1. Memory(c) = {entry(i, q) : i \in DOMAIN c.memory, q \in Pairs(c)}
      BY DEF Memory
    <3> HIDE DEF entry
    <3>2. e \in Memory(c)
      BY <1>2, <2>1, <3>1
    <3> HIDE DEF e
    <3> QED BY <3>2 DEF Entries
  <2>3. cell.request = r
    BY <1>3, CellIsFull DEF Full
  <2> HIDE DEF made
  <2>4. e.cell = cell
    BY DEF Entry
  <2> HIDE DEF e, cell
  <2> QED BY <2>2, <2>3, <2>4 DEF CellsOf
<1> QED BY <1>4, <1>5

\* For every benchmark and every configuration, the matrix of a run is what the
\* configuration asks for: its cells have ids of their own, and no accepted
\* request is left out (matrix.py, expand_matrix and _validate_explicit_requests).
THEOREM MatricesAreSound ==
  ASSUME \A c \in Configs : Listing(c)
  PROVE  Spec => []MatrixIsSound
<1>1. IInv => MatrixIsSound
  <2>1. CellsAreUnique
    <3> SUFFICES ASSUME NEW p \in Processes, WellListed(config[p]),
                        NEW e \in Entries(config[p]), NEW f \in Entries(config[p]), e.cell = f.cell
                 PROVE  e.slot = f.slot
      BY DEF CellsAreUnique
    <3> QED BY ExpansionHasNoRepeats
  <2>2. ASSUME IInv PROVE ExplicitRequestsEnter
    <3> SUFFICES ASSUME NEW p \in Processes, at[p] = "executing",
                        config[p].boundary # <<>> \/ config[p].memory # <<>>,
                        NEW r \in config[p].requests
                 PROVE  \E cell \in matrix[p] : cell.request = r
      BY Zenon DEF ExplicitRequestsEnter, Executing
    <3>1. config[p] \in Configs /\ matrix[p] = CellsOf(config[p]) /\ ~Refused(config[p])
      BY <2>2 DEF IInv, Shape, Contexts
    <3> QED BY <3>1, AcceptedRequestsEnter
  <2> QED BY <2>1, <2>2 DEF MatrixIsSound
<1> QED
  BY <1>1, Invariance, PTL
================================================================================
