--------------------------------- MODULE Matrix ---------------------------------
(* The selection of benchmark inputs and the expansion of the enabled tracks  *)
(* into the cells of a run: lexstab/matrix.py.                                *)
(*                                                                            *)
(* A cell is a record of the parts its id is the hash of.  expand_matrix      *)
(* appends cells one by one; here each append is an entry, a cell with the    *)
(* slot (the loop indices) it is appended at, so that two appends of one cell *)
(* remain two.  A track that is not enabled lists nothing; a key that the     *)
(* configuration does not have is Absent.                                     *)
EXTENDS Naturals, Sequences, FiniteSets

CONSTANTS NCases,       \* the cases of the benchmark are 1..NCases, in its order
          Split,        \* the split each case is in
          Executable,   \* the cases whose gold decision is ACT
          Procedural,   \* those whose operation has a procedure
          Rendered,     \* those whose operation has a rendering of every category
          Elicited,     \* those an elicitation case is linked to
          Requests,     \* the requests of each case
          Behavior      \* the expected behaviour each request is labelled with

Cases == 1..NCases
NoRequest == [case |-> 0, n |-> 0]
Absent == <<"absent">>

ASSUME MatrixAssumption ==
    /\ NCases \in Nat
    /\ Requests \in [Cases -> SUBSET [case : Cases, n : Nat]]
    /\ \A id \in Cases : \A r \in Requests[id] : r.case = id

ConditionsP == {"P0_RAW_PROPOSAL", "P1_CLARIFY_PROPOSAL", "P2_CANONICAL_PROPOSAL",
                "P3_CANONICAL_PROCEDURE_PROPOSAL", "P4_CANONICAL_PROCEDURE_TOOL"}
GoldStart == {"LP0G_GOLD_START_LANGUAGE", "LP0B_GOLD_START_LANGUAGE_BALANCED",
              "LP0BV_GOLD_START_LANGUAGE_BALANCED_VERBATIM"}
WithProcedureLP == {"LP2_CANONICAL_PROCEDURE", "LP3_CANONICAL_PROCEDURE_TOOL"}
ConditionsLP ==
    {"LP0_LANGUAGE_THROUGHOUT", "LP1_CANONICAL_ONCE"} \cup GoldStart \cup WithProcedureLP
WithProcedure == {"P3_CANONICAL_PROCEDURE_PROPOSAL", "P4_CANONICAL_PROCEDURE_TOOL"}
RenderedArchs == {"C_RUNTIME", "C_GOLD", "D_DEFINITION_ONLY", "E_ORGANIZATION_TERM",
                  "F_MODEL_DISCOVERED"}

\* tracks.get(key, default): what stands in the configuration, or the default.
Given(value, default) == IF value = Absent THEN default ELSE value

DefaultP == <<"P0_RAW_PROPOSAL", "P1_CLARIFY_PROPOSAL", "P2_CANONICAL_PROPOSAL",
              "P3_CANONICAL_PROCEDURE_PROPOSAL", "P4_CANONICAL_PROCEDURE_TOOL">>
DefaultLP == <<"LP0_LANGUAGE_THROUGHOUT", "LP0G_GOLD_START_LANGUAGE",
               "LP0B_GOLD_START_LANGUAGE_BALANCED", "LP1_CANONICAL_ONCE",
               "LP0BV_GOLD_START_LANGUAGE_BALANCED_VERBATIM",
               "LP2_CANONICAL_PROCEDURE", "LP3_CANONICAL_PROCEDURE_TOOL">>
DefaultAL == <<"AL_RAW", "AL_CANONICAL", "AL_RENDERED", "AL_DRIFT">>
-------------------------------------------------------------------------------
(* select_cases and _validate_explicit_requests                               *)

SplitCases(c) == {id \in Cases : Split[id] = c.split}

CasesRefused(c) == ~ (c.cases \subseteq SplitCases(c))

SelectCases(c) ==
    LET chosen == IF c.cases = {} THEN SplitCases(c) ELSE c.cases
    IN  IF c.limit = 0 THEN chosen
        ELSE {id \in chosen : Cardinality({j \in chosen : j <= id}) <= c.limit}

\* _filter_requests; the filter on expected_behavior stands for the four label
\* filters.
FilterRequests(c, id) ==
    {r \in Requests[id] : /\ c.requests = {} \/ r \in c.requests
                          /\ c.behaviors = {} \/ Behavior[r] \in c.behaviors}

Selected(c) == UNION {FilterRequests(c, id) : id \in SelectCases(c)}

\* Unknown, of another case, or taken out by a label filter.
RequestsRefused(c) == ~ (c.requests \subseteq Selected(c))
-------------------------------------------------------------------------------
(* The tracks of expand_matrix.                                               *)

Cell(track, arch, id, request) ==
    [track |-> track, arch |-> arch, case |-> id, request |-> request,
     rendering |-> "none", procedure |-> "none", interface |-> "none",
     intent |-> "none", selection |-> "none", packaging |-> "none"]

Entry(slot, cell) == [slot |-> slot, cell |-> cell]

Pairs(c) == UNION {{<<id, r>> : r \in FilterRequests(c, id)} : id \in SelectCases(c)}
ToExecute(pairs) == {p \in pairs : Behavior[p[2]] = "EXECUTE"}

BoundaryCell(arch, p) ==
    [Cell("boundary", arch, p[1], p[2]) EXCEPT
       !.rendering = IF arch \in RenderedArchs THEN "at run time" ELSE "none",
       !.intent = IF arch \in {"B_RUNTIME", "C_RUNTIME"} THEN "runtime" ELSE "none"]

Boundary(c) ==
    {Entry(<<"boundary", i, p>>, BoundaryCell(c.boundary[i], p))
       : i \in DOMAIN c.boundary, p \in Pairs(c)}

\* Gold injection: an executable case, no request, and a rendering if needed.
PostCell(arch, id) ==
    [Cell("post_canonical", arch, id, NoRequest) EXCEPT
       !.rendering = IF arch \in RenderedArchs THEN "frozen" ELSE "none",
       !.intent = "gold"]

PostCanonical(c) ==
    {Entry(<<"post", s[1], s[2]>>, PostCell(c.post[s[1]], s[2]))
       : s \in {t \in (DOMAIN c.post) \X (SelectCases(c) \cap Executable) :
                  c.post[t[1]] \in RenderedArchs => t[2] \in Rendered}}

ElicitationCell(arch, id) ==
    [Cell("intent_elicitation", arch, id, [case |-> id, n |-> 0]) EXCEPT
       !.intent = IF arch = "B_EXTERNAL_GATE_GOLD" THEN "gold" ELSE "runtime"]

IntentElicitation(c) ==
    {Entry(<<"intent", i, id>>, ElicitationCell(c.intent[i], id))
       : i \in DOMAIN c.intent, id \in SelectCases(c) \cap Elicited}

Memory(c) ==
    {Entry(<<"memory", i, p>>, Cell("memory_ablation", c.memory[i], p[1], p[2]))
       : i \in DOMAIN c.memory, p \in Pairs(c)}

Ablations(c) == c.formal.ablations # "no"

\* One condition of the P ladder for one request: run-time and gold intents, and
\* for P3 the controls on facts, packaging and selection.
Mode(condition, p, mode) ==
    [Cell("progressive_formalization", condition, p[1], p[2]) EXCEPT
       !.procedure = IF condition \notin WithProcedure THEN "none"
                     ELSE IF mode = "runtime" THEN "of the resolved operation" ELSE "frozen",
       !.interface = IF condition = "P4_CANONICAL_PROCEDURE_TOOL" THEN "typed" ELSE "generic",
       !.intent = IF condition \in {"P0_RAW_PROPOSAL", "P1_CLARIFY_PROPOSAL"} THEN "none"
                  ELSE mode,
       !.selection = IF condition \in WithProcedure THEN "gold" ELSE "none",
       !.packaging = IF condition \in WithProcedure THEN "inline" ELSE "none"]

\* Mutation: the control is not told from the cell it controls for.
ControlsAlike(p) ==
    LET inline == Mode("P3_CANONICAL_PROCEDURE_PROPOSAL", p, "gold")
    IN  <<inline,
          [inline EXCEPT !.selection = "runtime"],
          [inline EXCEPT !.arch = "P2F_CANONICAL_FACTS_PROPOSAL", !.procedure = "none",
                         !.packaging = "facts_only"]>>

Controls(p) ==
    LET inline == Mode("P3_CANONICAL_PROCEDURE_PROPOSAL", p, "gold")
    IN  <<[inline EXCEPT !.packaging = "packaged"],
          [inline EXCEPT !.selection = "runtime"],
          [inline EXCEPT !.arch = "P2F_CANONICAL_FACTS_PROPOSAL", !.procedure = "none",
                         !.packaging = "facts_only"]>>

Ladder(c) ==
    LET conditions == Given(c.formal.conditions, DefaultP)
        reached == {s \in (DOMAIN conditions) \X Pairs(c) :
                      /\ conditions[s[1]] \in ConditionsP
                      /\ conditions[s[1]] \in WithProcedure => s[2][1] \in Procedural}
        modes(i) == IF Ablations(c) /\ conditions[i] \notin {"P0_RAW_PROPOSAL", "P1_CLARIFY_PROPOSAL"}
                    THEN {"runtime", "gold"} ELSE {"runtime"}
    IN  (UNION {{Entry(<<"ladder", s, mode>>, Mode(conditions[s[1]], s[2], mode))
                   : mode \in modes(s[1])} : s \in reached})
        \cup (UNION {{Entry(<<"control", s, k>>, Controls(s[2])[k]) : k \in 1..3}
                       : s \in {t \in reached :
                                  /\ conditions[t[1]] = "P3_CANONICAL_PROCEDURE_PROPOSAL"
                                  /\ Ablations(c)}})

\* The intents a condition of the persistence ablation runs with.  The key
\* persistence_intent_modes is modelled for LP1, the condition with two of them.
Modes(c, condition) ==
    IF condition = "LP0_LANGUAGE_THROUGHOUT" THEN <<"runtime">>
    ELSE IF condition = "LP1_CANONICAL_ONCE" THEN Given(c.formal.modes, <<"gold", "runtime">>)
    ELSE <<"gold">>

PersistenceSlots(c) ==
    LET conditions == Given(c.formal.persistence, DefaultLP)
    IN  {s \in (DOMAIN conditions) \X ToExecute(Pairs(c)) :
           /\ conditions[s[1]] \in ConditionsLP
           /\ conditions[s[1]] \in WithProcedureLP => s[2][1] \in Procedural}

PersistenceCell(condition, p, mode) ==
    LET told(value) == IF condition \in WithProcedureLP THEN value ELSE "none"
    IN  [Cell("progressive_formalization", condition, p[1], p[2]) EXCEPT
           !.intent = mode,
           !.procedure = told("frozen"), !.selection = told("gold"), !.packaging = told("inline"),
           !.interface = IF condition = "LP3_CANONICAL_PROCEDURE_TOOL" THEN "typed" ELSE "generic"]

Persistence(c) ==
    LET conditions == Given(c.formal.persistence, DefaultLP)
    IN  UNION {{Entry(<<"persistence", s, k>>,
                      PersistenceCell(conditions[s[1]], s[2], Modes(c, conditions[s[1]])[k]))
                  : k \in DOMAIN Modes(c, conditions[s[1]])} : s \in PersistenceSlots(c)}

\* An intent mode that is none of the three raises, once a request reaches it.
ModesRefused(c) ==
    /\ c.formal.enabled /\ c.formal.language
    /\ \E s \in PersistenceSlots(c) :
          LET modes == Modes(c, Given(c.formal.persistence, DefaultLP)[s[1]])
          IN  modes = <<>> \/ \E k \in DOMAIN modes : modes[k] \notin {"gold", "runtime", "none"}

AgentCell(condition, p, mode) ==
    [Cell("agent_loop", condition, p[1], p[2]) EXCEPT
       !.intent = mode,
       !.rendering = IF condition # "AL_RENDERED" THEN "none"
                     ELSE IF mode = "runtime" THEN "at run time"
                     ELSE IF p[1] \in Rendered THEN "frozen" ELSE "none"]

\* The cases may be listed by the track itself.
AgentLoop(c) ==
    LET conditions == Given(c.agent.conditions, DefaultAL)
        listed == IF c.agent.cases = {} THEN SelectCases(c) ELSE c.agent.cases \cap Cases
        pairs == ToExecute(UNION {{<<id, r>> : r \in FilterRequests(c, id)} : id \in listed})
        modes(i) == IF conditions[i] = "AL_RAW" THEN <<"none">> ELSE c.agent.modes
    IN  UNION {{Entry(<<"agent", s, k>>, AgentCell(conditions[s[1]], s[2], modes(s[1])[k]))
                  : k \in {j \in DOMAIN modes(s[1]) : modes(s[1])[j] \in {"gold", "runtime", "none"}}}
                 : s \in (DOMAIN conditions) \X pairs}

\* All appends of expand_matrix; the repetitions are kept apart by a part of the
\* id of their own.
Entries(c) ==
    Boundary(c) \cup PostCanonical(c) \cup IntentElicitation(c) \cup Memory(c)
        \cup (IF c.formal.enabled THEN Ladder(c) ELSE {})
        \cup (IF c.formal.enabled /\ c.formal.language THEN Persistence(c) ELSE {})
        \cup (IF c.agent.enabled THEN AgentLoop(c) ELSE {})

CellsOf(c) == {e.cell : e \in Entries(c)}

\* MatrixSelectionError
Refused(c) == CasesRefused(c) \/ RequestsRefused(c) \/ ModesRefused(c)
================================================================================
