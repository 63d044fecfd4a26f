---------------------------------- MODULE Cell ----------------------------------
(* The execution of one matrix cell: lexstab/runner.py, run_cell and the       *)
(* functions it dispatches to, with canonical.py, enforce_grounding, and the   *)
(* kinds of cell that matrix.py, expand_matrix, makes by default.              *)
(*                                                                             *)
(* A cell runs through a list of stages (todo); most of them are one call of a *)
(* model, whose answer may be anything.  The models see texts; here a text is  *)
(* the set of the values that can be read in it, and prompts are left out.     *)
(* Only the elicitation cells loop: their stages are added turn by turn.       *)
EXTENDS Simulator

CONSTANTS
    Cases,      \* by case id: initial state, canonical intent, gold label
    Requests,   \* by case id: the requests, with their labels and their texts
    Calls,      \* by case id: the calls an executor may make
    Intents,    \* by case id: the intents a canonicalizer may propose
    Described,  \* the tools whose operation has a rendering and a procedure
    Script,     \* scripted_user_answers: the values told, by the keys answered
    KeyParts,   \* strings that are part of a key of Script without being one
    MaxTurns    \* maximum_clarification_turns

ASSUME MaxTurnsAssumption == MaxTurns \in Nat

\* A canonical intent has these fields, whatever they say.
ASSUME IntentsAssumption ==
    \A id \in DOMAIN Cases : \A intent \in Intents[id] :
        DOMAIN intent = {"tool", "entityType", "entity", "args"}

\* The effects of a contract can be applied once its checks have passed.
ASSUME EffectsAssumption ==
    \A id \in DOMAIN Cases : \A call \in Calls[id] :
        call.tool \in DOMAIN Operations =>
            LET op == Operations[call.tool]
                entity == call.args[op.idArgument][2]
                record == Cases[id].initial[entity]
            IN  ValidArguments(op, call.args) /\ entity \in DOMAIN Cases[id].initial =>
                    \/ Objection(op, Scope(op, record, call.args)) # "none"
                    \/ ~AfterEffects(op, record, call.args).raised

VARIABLES
    cell,       \* the matrix cell: its kind, its case and its request
    todo,       \* the stages it has yet to go through
    turn,       \* clarification turn, 0 outside elicitation
    shared,     \* values in the shared context: the frozen one and the answers
    resolution, \* the intent that crossed the canonical boundary, or NoIntent
    sim,        \* the state of the cell's own simulator
    events,     \* its events
    calls,      \* invocations made, each with its ledger record
    readable,   \* whether the record of the last one holds an answer to the prompt
    result,     \* decision, call, validity and resolution of the CellResult
    status      \* "running", "done" or "failed" (ProviderInvocationFailure)

vars == <<cell, todo, turn, shared, resolution, sim, events, calls,
          readable, result, status>>

NoIntent == [tool |-> "none"]
NoCall == [tool |-> "none", args |-> <<>>]
NoRequest == [role |-> "none", behavior |-> "none", said |-> {}, shared |-> {},
              visible |-> {}, contrast |-> NoCall]
-------------------------------------------------------------------------------
(* The kinds of cell and their stages *)

Kind(track, arch, intent, selection) ==
    [track |-> track, arch |-> arch, intent |-> intent, selection |-> selection]

Direct == {"A0_DIRECT", "A1_DIRECT_CLARIFY"}
Gates == {"B_EXTERNAL_GATE", "B_EXTERNAL_GATE_GOLD"}
PostCanonical == {"B_GOLD", "C_GOLD", "D_DEFINITION_ONLY", "E_ORGANIZATION_TERM",
                  "F_MODEL_DISCOVERED"}
Memory == {"M0_NO_MEMORY", "M1_STATIC_GLOSSARY", "M2_RETRIEVED_MEMORY",
           "M3_CANONICAL_RESOLVER", "M4_PERSONALIZED_MEMORY"}
Prose == {"LP0_LANGUAGE_THROUGHOUT", "LP0G_GOLD_START_LANGUAGE"}
Balanced == {"LP0B_GOLD_START_LANGUAGE_BALANCED",
             "LP0BV_GOLD_START_LANGUAGE_BALANCED_VERBATIM"}
AgentLoop == {"AL_CANONICAL", "AL_RENDERED", "AL_DRIFT"}

Kinds ==
    {Kind("boundary", a, "none", "none") : a \in Direct}
    \cup {Kind("boundary", a, "runtime", "none") : a \in {"B_RUNTIME", "C_RUNTIME"}}
    \cup {Kind("post_canonical", a, "gold", "none") : a \in PostCanonical}
    \cup {Kind("intent_elicitation", a, "runtime", "none")
            : a \in Direct \cup {"B_EXTERNAL_GATE"}}
    \cup {Kind("intent_elicitation", "B_EXTERNAL_GATE_GOLD", "gold", "none")}
    \cup {Kind("memory_ablation", a, "none", "none") : a \in Memory}
    \cup {Kind("formalization", a, "none", "none")
            : a \in {"P0_RAW_PROPOSAL", "P1_CLARIFY_PROPOSAL"}}
    \cup {Kind("formalization", "P2_CANONICAL_PROPOSAL", i, "none") : i \in {"runtime", "gold"}}
    \cup {Kind("formalization", a, i, "gold")
            : a \in {"P3_CANONICAL_PROCEDURE_PROPOSAL", "P4_CANONICAL_PROCEDURE_TOOL"},
              i \in {"runtime", "gold"}}
    \cup {Kind("formalization", "P3_CANONICAL_PROCEDURE_PROPOSAL", "gold", "runtime"),
          Kind("formalization", "P2F_CANONICAL_FACTS_PROPOSAL", "gold", "gold")}
    \cup {Kind("persistence", "LP0_LANGUAGE_THROUGHOUT", "runtime", "none"),
          Kind("persistence", "LP0G_GOLD_START_LANGUAGE", "gold", "none")}
    \cup {Kind("persistence", a, "gold", "none") : a \in Balanced}
    \cup {Kind("persistence", "LP1_CANONICAL_ONCE", i, "none") : i \in {"runtime", "gold"}}
    \cup {Kind("persistence", a, "gold", "gold")
            : a \in {"LP2_CANONICAL_PROCEDURE", "LP3_CANONICAL_PROCEDURE_TOOL"}}
    \cup {Kind("agent_loop", "AL_RAW", "none", "none")}
    \cup {Kind("agent_loop", a, i, "none") : a \in AgentLoop, i \in {"runtime", "gold"}}

\* Gold injection needs an executable case and no request; language persistence
\* and agent loops take the requests to be executed; an elicitation case starts
\* from a request that has to be clarified.
IsCell(k, id, request) ==
    CASE k.track = "post_canonical" -> Cases[id].gold = "ACT" /\ request = NoRequest
      [] k.track \in {"persistence", "agent_loop"} -> request.behavior = "EXECUTE"
      [] k.track = "intent_elicitation" -> request.role = "CLARIFICATION"
      [] OTHER -> request # NoRequest

\* Mutation: the canonicalizer is called although the gold intent is injected.
BoundaryAlwaysCalled(k) == <<"canonicalizer">>

Boundary(k) == IF k.intent = "gold" THEN <<"gold">> ELSE <<"canonicalizer">>
Thrice(stages) == stages \o stages \o stages

Canonical(k) ==
    IF k.arch \in {"B_RUNTIME", "B_GOLD", "M3_CANONICAL_RESOLVER"}
    THEN Boundary(k) \o <<"tools">>
    ELSE Boundary(k) \o <<"rendering", "tools">>

Formalization(k) ==
    LET procedure == IF k.selection = "runtime" THEN <<"router">> ELSE <<"registry">>
    IN  CASE k.arch \in {"P0_RAW_PROPOSAL", "P1_CLARIFY_PROPOSAL"} -> <<"proposal">>
          [] k.arch = "P2_CANONICAL_PROPOSAL" -> Boundary(k) \o <<"proposal">>
          [] k.arch = "P4_CANONICAL_PROCEDURE_TOOL" -> Boundary(k) \o procedure \o <<"typed">>
          [] OTHER -> Boundary(k) \o procedure \o <<"proposal">>

Persistence(k) ==
    CASE k.arch \in Prose -> Thrice(<<"stage", "handoff">>) \o <<"proposal">>
      [] k.arch \in Balanced -> Thrice(<<"balanced">>) \o <<"proposal">>
      [] k.arch = "LP3_CANONICAL_PROCEDURE_TOOL" ->
           Boundary(k) \o Thrice(<<"stage">>) \o <<"strict">>
      [] OTHER -> Boundary(k) \o Thrice(<<"stage">>) \o <<"proposal">>

Loop(k) ==
    CASE k.arch = "AL_RAW" -> Thrice(<<"stage">>) \o <<"tools">>
      [] k.arch = "AL_DRIFT" -> Boundary(k) \o Thrice(<<"stage", "drift">>) \o <<"tools">>
      [] k.arch = "AL_RENDERED" ->
           Boundary(k) \o <<"rendering">> \o Thrice(<<"stage">>) \o <<"tools">>
      [] OTHER -> Boundary(k) \o Thrice(<<"stage">>) \o <<"tools">>

\* A turn of the elicitation loop; the gold gate knows the first assessment.
TurnPlan(k, t) ==
    CASE k.arch \in Direct -> <<"turn_executor">>
      [] k.arch = "B_EXTERNAL_GATE_GOLD" /\ t = 0 -> <<"clarifier">>
      [] OTHER -> <<"assessor">>

\* run_cell and the routing of the execution graph
Plan(k) ==
    CASE k.track = "intent_elicitation" -> TurnPlan(k, 0)
      [] k.track = "agent_loop" -> Loop(k)
      [] k.track = "persistence" -> Persistence(k)
      [] k.track = "formalization" -> Formalization(k)
      [] OTHER -> IF k.arch \in (Direct \cup Memory) \ {"M3_CANONICAL_RESOLVER"}
                  THEN <<"tools">> ELSE Canonical(k)
-------------------------------------------------------------------------------
Case == Cases[cell.case]
InElicitation == cell.kind.track = "intent_elicitation"

Init ==
    /\ cell \in UNION {{c \in [kind : Kinds, case : {id}, request : Requests[id] \cup {NoRequest}] :
                          IsCell(c.kind, id, c.request)} : id \in DOMAIN Cases}
    /\ todo = Plan(cell.kind)
    /\ turn = 0
    /\ shared = cell.request.shared
    /\ resolution = NoIntent
    /\ sim = Case.initial
    /\ events = <<>>
    /\ calls = 0
    /\ readable = TRUE
    /\ result = [decision |-> "none", call |-> NoCall, valid |-> TRUE,
                 error |-> "none", resolved |-> FALSE]
    /\ status = "running"

At(stage) == status = "running" /\ todo # <<>> /\ Head(todo) = stage

\* _invoke: the call is recorded whatever it answers.
Invoked(answered) == calls' = calls + 1 /\ readable' = answered

Proceed == todo' = Tail(todo) /\ UNCHANGED status

Return(outcome) ==
    /\ result' = outcome
    /\ todo' = <<>>
    /\ status' = "done"

\* Return with the state the simulator was created with.
ReturnUnacted(outcome) == Return(outcome) /\ UNCHANGED <<sim, events>>

Clarifies == [result EXCEPT !.decision = "CLARIFY", !.valid = TRUE]
Invalid(error) == [result EXCEPT !.valid = FALSE, !.error = error]

ModelStages == {"canonicalizer", "tools", "strict", "typed", "proposal", "router",
                "stage", "handoff", "balanced", "drift", "turn_executor", "assessor",
                "clarifier", "turn_canonicalizer", "gate_executor"}

\* A terminal provider failure, at any invocation, ends the cell; what it had
\* recorded stays and it has no final state.
ProviderFails ==
    /\ status = "running"
    /\ todo # <<>> /\ Head(todo) \in ModelStages
    /\ Invoked(FALSE)
    /\ result' = Invalid("provider_error")
    /\ status' = "failed"
    /\ UNCHANGED <<cell, todo, turn, shared, resolution, sim, events>>
-------------------------------------------------------------------------------
(* The canonical boundary *)

\* How a value is spelled in a text.
Token(v) == IF v[1] \in {"digits", "integer", "number"} THEN <<"number", v[2]>> ELSE v

\* _derive_state_argument: the confirmed amount of a duplicate charge.
Derived(intent, name) ==
    IF /\ intent.tool = "refund_duplicate_charge" /\ name = "amount_usd"
       /\ intent.entity \in DOMAIN Case.initial
       /\ Case.initial[intent.entity].duplicate_charge_confirmed = Truth(TRUE)
    THEN Case.initial[intent.entity].duplicate_charge_amount_usd
    ELSE Unresolved

\* Mutation: a record of the simulator counts as an anchor.
AnchoredInKnownState(intent, said, context) == intent.entity \in DOMAIN Case.initial

\* The entity is in the request, in the shared context or in the visible state.
Anchored(intent, said, context) ==
    Text(intent.entity) \in said \cup context \cup cell.request.visible

\* The arguments that have to be grounded: an id argument follows the entity.
Groundable(intent) ==
    IF intent.tool \notin DOMAIN Operations THEN {}
    ELSE LET op == Operations[intent.tool]
         IN  {n \in DOMAIN op.arguments : op.arguments[n].required} \ {op.idArgument}

ValidMapping(intent) ==
    /\ intent.tool \in DOMAIN Operations
    /\ Operations[intent.tool].entityType = intent.entityType

Grounded(intent, name, said, context) ==
    \/ name \in DOMAIN intent.args /\ Token(intent.args[name]) \in said \cup context
    \/ /\ Anchored(intent, said, context)
       /\ Derived(intent, name) # Unresolved
       /\ name \in DOMAIN intent.args => Same(intent.args[name], Derived(intent, name))

\* enforce_grounding: what the user must still provide
Missing(intent, said, context) ==
    (IF ValidMapping(intent) THEN {} ELSE {"valid_operation_mapping"})
    \cup (IF Anchored(intent, said, context) THEN {} ELSE {"entity_reference"})
    \cup {n \in Groundable(intent) : ~Grounded(intent, n, said, context)}

WithDerived(intent) ==
    [intent EXCEPT !.args =
        [n \in DOMAIN intent.args \cup Groundable(intent) |->
            IF n \in DOMAIN intent.args THEN intent.args[n] ELSE Derived(intent, n)]]

\* The gold label stands in for the canonicalizer: it is not called.
GoldBoundary ==
    /\ At("gold")
    /\ \/ /\ Case.gold = "CLARIFY"
          /\ ReturnUnacted(Clarifies)
          /\ UNCHANGED resolution
       \/ /\ Case.gold # "CLARIFY"
          /\ resolution' = Case.intent
          /\ Proceed
          /\ UNCHANGED <<sim, events, result>>
    /\ UNCHANGED <<cell, turn, shared, calls, readable>>

\* _runtime_canonicalize answered something that is not a resolution.
ResolutionUnreadable ==
    /\ At("canonicalizer")
    /\ Invoked(FALSE)
    /\ ReturnUnacted(Invalid("invalid_canonical_resolution"))
    /\ UNCHANGED <<cell, turn, shared, resolution>>

\* It asks itself, or it maps to an intent that is not grounded.
ResolutionClarifies ==
    /\ At("canonicalizer")
    /\ Invoked(TRUE)
    /\ ReturnUnacted(Clarifies)
    /\ UNCHANGED <<cell, turn, shared, resolution>>

ResolutionMaps ==
    /\ At("canonicalizer")
    /\ Invoked(TRUE)
    /\ \E intent \in Intents[cell.case] :
         /\ Missing(intent, cell.request.said, shared) = {}
         /\ resolution' = WithDerived(intent)
    /\ Proceed
    /\ UNCHANGED <<cell, turn, shared, sim, events, result>>

\* The rendering of the resolved operation; the matrix has chosen it when the
\* intent is gold.
Render ==
    /\ At("rendering")
    /\ IF resolution.tool \in Described
       THEN Proceed /\ UNCHANGED <<sim, events, result>>
       ELSE ReturnUnacted(Invalid("runtime_rendering_not_found"))
    /\ UNCHANGED <<cell, turn, shared, resolution, calls, readable>>

NoProcedure(error) == [result EXCEPT !.decision = "CLARIFY", !.error = error]

\* _select_procedure by the registry, and the fact source of P2F
SelectFromRegistry ==
    /\ At("registry")
    /\ IF resolution.tool \in Described
       THEN Proceed /\ UNCHANGED <<sim, events, result>>
       ELSE ReturnUnacted(NoProcedure("no_procedure"))
    /\ UNCHANGED <<cell, turn, shared, resolution, calls, readable>>

\* _select_procedure by the router: any procedure of the registry will do.
SelectByRouter ==
    /\ At("router")
    /\ Invoked(TRUE)
    /\ \/ Described # {} /\ Proceed /\ UNCHANGED <<sim, events, result>>
       \/ ReturnUnacted(NoProcedure("no_procedure"))
    /\ UNCHANGED <<cell, turn, shared, resolution>>
-------------------------------------------------------------------------------
(* Intermediate stages *)

\* Triage, policy and planner: any answer goes on, one without JSON as {}.
AnalysisStage ==
    /\ At("stage") \/ At("handoff")
    /\ Invoked(TRUE)
    /\ Proceed
    /\ UNCHANGED <<cell, turn, shared, resolution, sim, events, result>>

\* A balanced handoff and a drifted label are checked: a bad one ends the cell.
CheckedStage ==
    /\ At("balanced") \/ At("drift")
    /\ Invoked(TRUE)
    /\ \/ Proceed /\ UNCHANGED <<sim, events, result>>
       \/ ReturnUnacted(Invalid("invalid_stage_output"))
    /\ UNCHANGED <<cell, turn, shared, resolution>>
-------------------------------------------------------------------------------
(* The action boundary *)

\* What an executor may answer: tool calls, a JSON decision that is strictly
\* what the typed boundary asks for or not, or something unreadable.  A question
\* is the set of the things it asks for.
Answer(form, made, asks, strict) ==
    [form |-> form, made |-> made, asks |-> asks, strict |-> strict]

Questions == SUBSET UNION DOMAIN Script

JsonAnswers ==
    {Answer("ACT", <<c>>, {}, TRUE) : c \in Calls[cell.case]}
    \cup {Answer("CLARIFY", <<>>, q, strict) : q \in Questions, strict \in BOOLEAN}
    \cup {Answer("REFUSE", <<>>, {}, strict) : strict \in BOOLEAN}
    \cup {Answer("unreadable", <<>>, {}, FALSE)}

ExecutorAnswers ==
    JsonAnswers
    \cup {Answer("calls", <<c>>, {}, TRUE) : c \in Calls[cell.case]}
    \cup {Answer("calls", <<c, d>>, {}, TRUE) : c, d \in Calls[cell.case]}

Unparsed == [decision |-> "none", call |-> NoCall, asks |-> {}, valid |-> FALSE]

\* The typed boundary wants exactly one call, or exactly the fields it knows.
Loose(a) == IF a.form = "calls" THEN Len(a.made) # 1 ELSE ~a.strict

\* _parse_decision; of several calls the loose boundary takes the first.
Parse(a, strict) ==
    IF a.form = "unreadable" \/ (strict /\ Loose(a)) THEN Unparsed
    ELSE [decision |-> IF a.form = "calls" THEN "ACT" ELSE a.form,
          call |-> IF a.made = <<>> THEN NoCall ELSE Head(a.made),
          asks |-> a.asks, valid |-> TRUE]

\* The simulator is given the call and the cell ends.
Act(call, outcome) ==
    LET answer == CallTool(sim, call.tool, call.args)
    IN  /\ sim' = answer.state
        /\ events' = events \o answer.events
        /\ Return([outcome EXCEPT !.error =
                     IF answer.accepted THEN outcome.error ELSE answer.category])

\* The outcome of a parsed answer; _apply_tool_call.
Decide(p) ==
    LET outcome == [result EXCEPT !.decision = p.decision, !.call = p.call, !.valid = p.valid]
    IN  IF p.decision = "ACT" THEN Act(p.call, outcome) ELSE ReturnUnacted(outcome)

Execute ==
    /\ At("tools") \/ At("strict")
    /\ \E a \in ExecutorAnswers :
         Invoked(a.form # "unreadable") /\ Decide(Parse(a, At("strict")))
    /\ UNCHANGED <<cell, turn, shared, resolution>>

\* jsonschema.validate of a call of P4: a bool is no number, 2.0 is an integer.
MatchesSchema(v, spec) ==
    /\ v[1] # "boolean"
    /\ IF spec.type = "integer" THEN v[1] \in {"integer", "number"} ELSE HasType(v, spec.type)
    /\ spec.allowed # {} => v \in spec.allowed
    /\ spec.bounds # {} => NumberOf(v) \in spec.bounds

TypedArguments(op, args) ==
    /\ DOMAIN args \subseteq DOMAIN op.arguments
    /\ \A n \in DOMAIN op.arguments :
         IF n \in DOMAIN args THEN MatchesSchema(args[n], op.arguments[n])
         ELSE ~op.arguments[n].required

\* P4: a call that is not of the typed interface is not recorded and not made.
DecideTyped(p) ==
    LET outcome == [result EXCEPT !.decision = p.decision, !.valid = p.valid]
    IN  CASE p.decision # "ACT" -> ReturnUnacted(outcome)
          [] p.decision = "ACT" /\ p.call.tool \notin DOMAIN Operations ->
               ReturnUnacted([outcome EXCEPT !.error = "typed_tool_selection_error"])
          [] p.decision = "ACT" /\ p.call.tool \in DOMAIN Operations ->
               IF TypedArguments(Operations[p.call.tool], p.call.args)
               THEN Act(p.call, [outcome EXCEPT !.call = p.call])
               ELSE ReturnUnacted([outcome EXCEPT !.error = "typed_tool_validation_error"])

ExecuteTyped ==
    /\ At("typed")
    /\ \E a \in ExecutorAnswers :
         Invoked(a.form # "unreadable") /\ DecideTyped(Parse(a, TRUE))
    /\ UNCHANGED <<cell, turn, shared, resolution>>

\* _apply_proposal: an operation that is not registered is compared by the
\* evaluator, but the simulator does not see it.
DecideProposal(a) ==
    LET p == Parse(a, FALSE)
        outcome == [result EXCEPT !.decision = p.decision, !.call = p.call]
    IN  CASE p.decision = "none" -> ReturnUnacted(Invalid("proposal_parse_error"))
          [] p.decision = "ACT" /\ p.call.tool \in DOMAIN Operations -> Act(p.call, outcome)
          [] p.decision = "ACT" /\ p.call.tool \notin DOMAIN Operations ->
               ReturnUnacted([outcome EXCEPT !.error = "unknown_operation_mapping"])
          [] p.decision \in {"CLARIFY", "REFUSE"} -> ReturnUnacted(outcome)

Propose ==
    /\ At("proposal")
    /\ \E a \in JsonAnswers : Invoked(a.form # "unreadable") /\ DecideProposal(a)
    /\ UNCHANGED <<cell, turn, shared, resolution>>
-------------------------------------------------------------------------------
(* The elicitation loop: run_elicitation *)

\* A key is the set of its parts, a single one or those that "_and_" combines.
\* ANSWER_KEYWORDS: the order in which a question is searched for its keys
KeyOrder == <<{"entity_reference"}, {"destination_tier"}, {"destination_team"}>>
AskedFor(q) == SelectSeq(KeyOrder, LAMBDA k : k \subseteq q)

\* What a key of the script holds as a part of it: the whole, or one of the parts.
Recognized == DOMAIN Script \cup {{k} : k \in UNION DOMAIN Script \cup KeyParts}

Unanswered == {}

\* _match_answer for the targets of the clarifier or the keys of the question:
\* the answer to all the single keys asked for, when a combined key has it, else the
\* answer to the first key that has one, a combined key named as such among them.
MatchAnswer(keys) ==
    LET kept == SelectSeq(keys, LAMBDA k : k \in Recognized)
        asked == UNION ToSet(kept)
        answered == SelectSeq(kept, LAMBDA k : k \in DOMAIN Script)
    IN  IF /\ \A k \in ToSet(kept) : Cardinality(k) = 1
           /\ Cardinality(asked) > 1 /\ asked \in DOMAIN Script
        THEN Script[asked]
        ELSE IF answered # <<>> THEN Script[Head(answered)]
        ELSE Unanswered

\* The user's answer goes to the context and the next turn begins.
NextTurn(answer, outcome, next) ==
    /\ shared' = shared \cup answer
    /\ turn' = next
    /\ todo' = TurnPlan(cell.kind, next)
    /\ result' = [outcome EXCEPT !.decision = "CLARIFY"]
    /\ UNCHANGED <<status, sim, events>>

\* The end of a turn that did not act or refuse: the turn limit comes before the
\* answer; the cell ends unresolved, with the decision of the turn before, when
\* it is reached or when the script has no answer.
AskUser(keys, outcome) ==
    IF turn >= MaxTurns \/ MatchAnswer(keys) = Unanswered
    THEN ReturnUnacted(outcome) /\ UNCHANGED <<turn, shared>>
    ELSE NextTurn(MatchAnswer(keys), outcome, turn + 1)

\* An answer that cannot be read asks for nothing, and no answer matches it.
AskNothing(outcome) == ReturnUnacted(outcome) /\ UNCHANGED <<turn, shared>>

\* The end of a turn whose executor answered
EndTurn(p) ==
    CASE p.decision = "ACT" ->
           /\ Act(p.call, [result EXCEPT !.decision = "ACT", !.call = p.call,
                                         !.valid = p.valid, !.resolved = TRUE])
           /\ UNCHANGED <<turn, shared>>
      [] p.decision = "REFUSE" ->
           /\ ReturnUnacted([result EXCEPT !.decision = "REFUSE", !.valid = p.valid])
           /\ UNCHANGED <<turn, shared>>
      [] OTHER -> AskUser(AskedFor(p.asks), result)

\* A0 and A1 without the gate, and the executor behind the gate
TurnExecutor ==
    /\ At("turn_executor") \/ At("gate_executor")
    /\ \E a \in ExecutorAnswers :
         Invoked(a.form # "unreadable") /\ EndTurn(Parse(a, FALSE))
    /\ UNCHANGED <<cell, resolution>>

\* The assessment says to execute, or anything else.
Assess ==
    /\ At("assessor")
    /\ Invoked(TRUE)
    /\ todo' \in {<<"turn_canonicalizer">>, <<"clarifier">>}
    /\ UNCHANGED <<cell, turn, shared, resolution, sim, events, result, status>>

\* The targets the clarifier may name: keys of the script, parts of a key, others.
TargetLists == {t \in SeqOf(Recognized \cup {{"something else"}}, 2) : IsInjective(t)}

\* The targets count when there are any, else what the question asks for.
Clarify ==
    /\ At("clarifier")
    /\ \/ Invoked(FALSE) /\ AskNothing(result)
       \/ /\ Invoked(TRUE)
          /\ \E targets \in TargetLists, q \in Questions :
               AskUser(IF targets = <<>> THEN AskedFor(q) ELSE targets, result)
    /\ UNCHANGED <<cell, resolution>>

\* The grounding policy's own question names what is missing, and in "provide or
\* identify" the keywords of the entity reference.
GroundingAsks(missing) == AskedFor(missing \cup {"entity_reference"})

\* The canonicalizer behind the gate reads the request and all answers so far.
TurnCanonicalizer ==
    /\ At("turn_canonicalizer")
    /\ \/ /\ Invoked(FALSE)
          /\ AskNothing(Invalid("invalid_canonical_resolution"))
          /\ UNCHANGED resolution
       \/ /\ Invoked(TRUE)
          /\ \E q \in Questions : AskUser(AskedFor(q), result)
          /\ UNCHANGED resolution
       \/ /\ Invoked(TRUE)
          /\ \E intent \in Intents[cell.case] :
               LET missing == Missing(intent, cell.request.said, shared) IN
               IF missing = {}
               THEN /\ resolution' = WithDerived(intent)
                    /\ todo' = <<"gate_executor">>
                    /\ UNCHANGED <<turn, shared, sim, events, result, status>>
               ELSE AskUser(GroundingAsks(missing), result) /\ UNCHANGED resolution
    /\ UNCHANGED cell

Next ==
    \/ ProviderFails
    \/ GoldBoundary \/ ResolutionUnreadable \/ ResolutionClarifies \/ ResolutionMaps
    \/ Render \/ SelectFromRegistry \/ SelectByRouter
    \/ AnalysisStage \/ CheckedStage
    \/ Execute \/ ExecuteTyped \/ Propose
    \/ TurnExecutor \/ Assess \/ Clarify \/ TurnCanonicalizer

Spec == Init /\ [][Next]_vars
===============================================================================
