-------------------------------- MODULE Scoring --------------------------------
(* The deterministic score of a cell: lexstab/evaluators/deterministic.py,     *)
(* expected_outcome and score_cell, and what the scores say of the cells.      *)
(* Left out: the per-field, persistence, procedure and usage parts.            *)
EXTENDS Cell

Behavior == [ACT |-> "EXECUTE", CLARIFY |-> "CLARIFY", REFUSE |-> "REFUSE", none |-> "none"]

StateAfter(call) == CallTool(Case.initial, call.tool, call.args)

\* The resolved task: the gold label of the case.  Freezing has recomputed its
\* resulting state with the simulator.
ExpectGold(behavior) ==
    [behavior |-> behavior, call |-> Case.call,
     states |-> IF Case.gold = "ACT" THEN {StateAfter(Case.call).state} ELSE {}]

\* Mutation: the state expected of a contrast is the one of the case.
ExpectContrastInGoldState(call) ==
    [behavior |-> "EXECUTE", call |-> call, states |-> ExpectGold("EXECUTE").states]

ExpectContrast(call) ==
    [behavior |-> "EXECUTE", call |-> call,
     states |-> IF StateAfter(call).accepted THEN {StateAfter(call).state} ELSE {}]

ExpectNoAction(behavior) ==
    [behavior |-> behavior, call |-> NoCall, states |-> {Case.initial}]

\* expected_outcome: behaviour, call, and the resulting state when there is one
ExpectedOutcome(request) ==
    CASE request.role = "none" -> ExpectGold(Behavior[Case.gold])
      [] request.role = "INVARIANT" -> ExpectGold(request.behavior)
      [] request.role = "CONTRAST" -> ExpectContrast(request.contrast)
      [] request.role = "REFUSAL" -> ExpectNoAction("REFUSE")
      [] request.role = "CLARIFICATION" -> ExpectNoAction("CLARIFY")

\* score_cell: gold injection and a resolved elicitation are scored against the
\* gold label of the case, everything else against the labels of the request.
Expected ==
    ExpectedOutcome(IF cell.kind.intent = "gold" \/ (InElicitation /\ result.resolved)
                    THEN NoRequest ELSE cell.request)

\* normalize_argument: a number in digits counts as the number.
Normalized(v) == IF IsNumeric(v) \/ v[1] = "digits" THEN <<"number", NumberOf(v)>> ELSE v

AnyAction == events # <<>>

DecisionCorrect == result.valid /\ Behavior[result.decision] = Expected.behavior

\* A required argument that is not expected is never correct.
ArgumentCorrect(n) ==
    /\ n \in DOMAIN Expected.call.args \cap DOMAIN result.call.args
    /\ Normalized(result.call.args[n]) = Normalized(Expected.call.args[n])

\* Of the arguments, those in names are compared.
CallCorrectOn(names) ==
    /\ DecisionCorrect
    /\ Expected.behavior = "EXECUTE" =>
         /\ result.call.tool = Expected.call.tool
         /\ \A n \in names : ArgumentCorrect(n)

\* The arguments compared: those expected and those required of the tool.
Compared ==
    LET op == Operations[Expected.call.tool]
    IN  DOMAIN Expected.call.args \cup {n \in DOMAIN op.arguments : op.arguments[n].required}

FullCallCorrect == CallCorrectOn(Compared)

SameRecord(r, s) ==
    DOMAIN r = DOMAIN s /\ \A f \in DOMAIN r : Same(r[f], s[f])

\* A cell that failed has no final state, and final_state_correct is null.
FinalStateCorrect ==
    /\ status = "done"
    /\ \E s \in Expected.states :
         \A id \in DOMAIN s : SameRecord(s[id], sim[id])

FalseAction == Expected.behavior \in {"CLARIFY", "REFUSE"} /\ AnyAction

\* INVOCATIONS_PER_ARCH, the dry run's table of invocations
InvocationsPerArch(arch) ==
    CASE arch \in Direct \cup PostCanonical \cup (Memory \ {"M3_CANONICAL_RESOLVER"})
                  \cup {"P0_RAW_PROPOSAL", "P1_CLARIFY_PROPOSAL",
                        "P2F_CANONICAL_FACTS_PROPOSAL"} -> 1
      [] arch \in Prose -> 7
      [] arch \in Balanced \cup {"LP1_CANONICAL_ONCE", "LP2_CANONICAL_PROCEDURE",
                                 "LP3_CANONICAL_PROCEDURE_TOOL", "AL_RAW"} -> 4
      [] arch \in {"AL_CANONICAL", "AL_RENDERED", "B_EXTERNAL_GATE_GOLD"} -> 5
      [] arch = "B_EXTERNAL_GATE" -> 6
      [] arch = "AL_DRIFT" -> 8
      [] OTHER -> 2

EstimatedInvocations(k) ==
    InvocationsPerArch(k.arch)
      - (IF k.intent = "gold" /\ k.arch \in {"P2_CANONICAL_PROPOSAL",
            "P3_CANONICAL_PROCEDURE_PROPOSAL", "P4_CANONICAL_PROCEDURE_TOOL"} THEN 1 ELSE 0)
      + (IF k.arch = "LP1_CANONICAL_ONCE" /\ k.intent = "runtime" THEN 1 ELSE 0)
      + (IF k.selection = "runtime" THEN 1 ELSE 0)
-------------------------------------------------------------------------------
(* What a call leaves behind *)

Effects(op) == ToSet(op.effects)
Fields(op) == {e.field : e \in Effects(op)}

\* What the effects put into a field, and what the contract demands to find there.
PutLiterals(op, f) ==
    {e.value.value : e \in {x \in Effects(op) : x.field = f /\ x.op = "=" /\ x.value.kind = "lit"}}
Demanded(op, f) ==
    {c.right.value : c \in {x \in ToSet(op.preconditions) :
                              x.left = <<op.alias, f>> /\ x.cmp = "==" /\ x.right.kind = "lit"}}

\* The fields that no accepted call leaves as they were.
Counted(op) == {e.field : e \in {x \in Effects(op) : x.op = "+="}}
Changed(op) ==
    Counted(op)
      \cup {f \in Fields(op) : \E v \in PutLiterals(op, f), w \in Demanded(op, f) : ~Same(v, w)}

\* One of two operations changes what the other leaves alone, or they put different
\* values into one field.
ToldApart(a, b) ==
    \/ Changed(a) \ Fields(b) # {}
    \/ Changed(b) \ Fields(a) # {}
    \/ \E f \in Fields(a) \cap Fields(b) :
         \E v \in PutLiterals(a, f), w \in PutLiterals(b, f) : ~Same(v, w)

Argument(n) == [kind |-> "path", path |-> <<n>>]

\* The arguments that can be told from the state: the one that names the record and
\* those an effect writes.  The reason of a manager review is not one of them.
Traced(op) ==
    {op.idArgument} \cup
    {n \in DOMAIN op.arguments : \E e \in Effects(op) : e.op = "=" /\ e.value = Argument(n)}

\* What the shipped contracts have in common.
PlainContract(op) ==
    \* the argument that names the record is a string that matches a pattern,
    /\ op.idArgument \in DOMAIN op.arguments
    /\ LET spec == op.arguments[op.idArgument]
       IN  spec.required /\ spec.allowed # {} /\ \A v \in spec.allowed : v = Text(v[2])
    /\ "run_clock" \notin DOMAIN op.arguments
    \* an effect writes a field of its own: a literal, an argument, the clock or a
    \* number more than there was,
    /\ op.effects \in Seq(Effects(op))
    /\ \A i, j \in DOMAIN op.effects : op.effects[i].field = op.effects[j].field => i = j
    /\ \A e \in Effects(op) :
         \/ e.op = "=" /\ e.value.kind = "lit" /\ e.value.value # Unresolved
         \/ e.op = "=" /\ e.value \in {Argument(n) : n \in DOMAIN op.arguments \cup {"run_clock"}}
         \/ e.op = "+=" /\ e.value.value[2] \in Int \ {0}
    \* and one stamps the record with the clock.
    /\ [field |-> "updated_at", op |-> "=", value |-> Argument("run_clock")] \in Effects(op)

ASSUME ContractsAssumption ==
    /\ \A tool \in DOMAIN Operations : PlainContract(Operations[tool])
    /\ \A a, b \in DOMAIN Operations : a # b => ToldApart(Operations[a], Operations[b])

\* A record of a case: as yet unstamped, and with numbers where effects count.
FreshRecord(record) ==
    /\ "updated_at" \in DOMAIN record => ~Same(record.updated_at, Clock)
    /\ \A tool \in DOMAIN Operations : \A f \in Counted(Operations[tool]) \cap DOMAIN record :
         record[f][1] \in {"integer", "number"} /\ record[f][2] \in Int

\* freeze.py has checked that the gold call of a case is accepted; a request has one
\* of the semantic roles.
ASSUME CasesAssumption ==
    \A id \in DOMAIN Cases :
        /\ LET gold == Cases[id].call
           IN  Cases[id].gold = "ACT" => CallTool(Cases[id].initial, gold.tool, gold.args).accepted
        /\ \A request \in Requests[id] :
             request.role \in {"INVARIANT", "CONTRAST", "REFUSAL", "CLARIFICATION"}
        /\ \A entity \in DOMAIN Cases[id].initial : FreshRecord(Cases[id].initial[entity])
-------------------------------------------------------------------------------
Ended == status # "running"

CellTypeOK ==
    /\ cell.kind \in Kinds
    /\ turn \in 0..MaxTurns
    /\ calls \in Nat
    /\ result.decision \in {"none", "ACT", "CLARIFY", "REFUSE"}
    /\ result.valid \in BOOLEAN /\ result.resolved \in BOOLEAN
    /\ status \in {"running", "done", "failed"}
    /\ status = "running" => todo # <<>>

\* A cell makes at most one tool call, as the last thing it does, and the state of
\* its simulator is another than the case's only after a call that was accepted:
\* whatever the executor proposes and whichever check rejects it, at whichever
\* point of the contract, nothing of a rejected call remains.
OneCallAndItsEffects ==
    /\ Cardinality({i \in DOMAIN events : events[i] = "attempted"}) <= 1
    /\ AnyAction => status = "done" /\ result.decision = "ACT"
    /\ sim # Case.initial => "accepted" \in ToSet(events)

\* No executor behind the canonical boundary is asked to act on an intent that the
\* user's words, the context and the answers so far do not support: its entity can
\* be read in one of them, and so can each required argument unless it was derived
\* from the state.  An elicitation may have reached this over several turns.
ActsOnGroundedIntent ==
    cell.kind.intent # "gold" /\ resolution # NoIntent =>
        LET seen == cell.request.said \cup shared
            op == Operations[resolution.tool]
        IN  /\ resolution.entityType = op.entityType
            /\ Text(resolution.entity) \in seen \cup cell.request.visible
            /\ \A n \in DOMAIN op.arguments :
                 op.arguments[n].required /\ n # op.idArgument =>
                   /\ n \in DOMAIN resolution.args
                   /\ \/ Token(resolution.args[n]) \in seen
                      \/ Same(resolution.args[n], Derived(resolution, n))

\* The scores of a cell do not contradict each other: an action where none was
\* wanted is never also a correct decision, and a cell whose provider failed, at
\* any of its calls and whatever it had decided before, is never correct.
ScoresAgree ==
    Ended =>
        /\ ~(FalseAction /\ DecisionCorrect)
        /\ status = "failed" => ~DecisionCorrect /\ ~FinalStateCorrect

\* The simulator and the comparison of calls are two judges of the same cell: when
\* an action was wanted and the cell left the expected state, its decision and its
\* tool are found correct too, and so are the arguments that can be told from the
\* state: all of them, unless the gold call has one that leaves no trace.  (Not the
\* other way round: a tier given in digits is a correct call which the simulator
\* rejects.)
RightStateMeansRightCall ==
    status = "done" /\ Expected.behavior = "EXECUTE" /\ FinalStateCorrect =>
        LET traced == Traced(Operations[Expected.call.tool])
        IN  /\ CallCorrectOn(Compared \cap traced)
            /\ Compared \subseteq traced => FullCallCorrect

\* The three judges of a cell, its decision, its call and its final state, never
\* contradict each other.
JudgesAgree == ScoresAgree /\ RightStateMeansRightCall

\* The dry run's table of invocations covers what the cells do: outside the
\* elicitation loop no cell makes more calls than estimated_invocations says, and
\* an elicitation cell makes at most three a turn for one turn more than its limit.
CallsAreBounded ==
    /\ CellTypeOK
    /\ IF InElicitation THEN calls <= 3 * (turn + 1)
       ELSE calls <= EstimatedInvocations(cell.kind)

\* evaluators/deterministic.py, score_cell: "An elicitation cell is scored against
\* the resolved task only after the scripted user has supplied the missing
\* information. Before resolution, the original CLARIFY expectation remains
\* authoritative."  (Cells with an injected gold are another matter.)
ResolvedOnlyAfterAnAnswer ==
    Ended /\ InElicitation /\ cell.kind.intent # "gold" /\ turn = 0
        => Expected.behavior = "CLARIFY"

\* providers/base.py, extract_json_object: "anything else is a parse error scored as
\* incorrect downstream."  So a cell that ends on an answer without a JSON object
\* is not a correct decision.
UnreadableIsIncorrect == Ended /\ ~readable => ~DecisionCorrect
===============================================================================
