--------------------------------- MODULE Scores ---------------------------------
(* The fields of a score record that the metrics read: score_cell in           *)
(* lexstab/evaluators/deterministic.py, over what the executor wrote of a cell.*)
(*                                                                             *)
(* Scoring.tla scores one cell with its simulator; here a result says only how *)
(* it stands to what was expected of it: which kinds of content the final call *)
(* or proposal gets wrong, whether a tool was attempted, and which state was   *)
(* left.  Every case has a gold call with arguments.  A request's role stands  *)
(* for its labels; the INVARIANT ones are the primary H1 stratum.              *)
EXTENDS Integers, Sequences, FiniteSets, FiniteSetsExt

CONSTANT VerbatimCases   \* the cases whose gold call has a VERBATIM argument

Null == -1   \* a field that is None; a defined one is 0 or 1
Bit(b) == IF b THEN 1 ELSE 0

\* What a stage or the final call can get wrong.  A verbatim argument that is not
\* exact is also a wrong argument.
Kinds == {"entity", "operation", "argument", "verbatim"}

\* What the executor writes of a cell.  A call that was read is one the schema admits,
\* and the cell ends with it; only a dialogue is resolved, by acting, and only a
\* dialogue keeps a decision or its validity from a turn before.
IsResult(c, r) ==
    /\ r.decision \in {"ACT", "CLARIFY", "REFUSE", "none"}
    /\ {r.valid, r.attempted, r.resolved} \subseteq BOOLEAN
    /\ r.state \in {"goal", "initial", "other", "none"}
    /\ r.stages \in Seq(SUBSET Kinds)
    /\ r.wrong \subseteq Kinds /\ ("verbatim" \in r.wrong => "argument" \in r.wrong)
    /\ r.attempted => r.decision = "ACT"
    /\ r.decision = "ACT" => r.valid
    /\ r.resolved <=> c.track = "intent_elicitation" /\ r.attempted
    /\ c.track # "intent_elicitation" => (r.valid <=> r.decision # "none")
-------------------------------------------------------------------------------
\* Gold injection, and an elicitation that was resolved, are scored against the gold
\* of the case.
ScoredByGold(c, r) ==
    c.intent = "gold" \/ (c.track = "intent_elicitation" /\ r.resolved)

\* expected_outcome(...)["behavior"]
Expected(c, r) ==
    CASE c.role = "CLARIFICATION" /\ ~ScoredByGold(c, r) -> "CLARIFY"
      [] c.role = "REFUSAL" /\ ~ScoredByGold(c, r) -> "REFUSE"
      [] OTHER -> "EXECUTE"

Behavior(r) ==
    [ACT |-> "EXECUTE", CLARIFY |-> "CLARIFY", REFUSE |-> "REFUSE", none |-> "none"][r.decision]

DecisionCorrect(c, r) == r.valid /\ Behavior(r) = Expected(c, r)

FullCallCorrect(c, r) ==
    /\ DecisionCorrect(c, r)
    /\ Expected(c, r) = "EXECUTE" => r.wrong \cap {"operation", "argument"} = {}

\* Null when the cell left no final state
FinalStateCorrect(c, r) ==
    IF r.state = "none" THEN Null
    ELSE Bit(r.state = (IF Expected(c, r) = "EXECUTE" THEN "goal" ELSE "initial"))

ClarificationOutcome(c, r) ==
    CASE Expected(c, r) = "CLARIFY" ->
           IF Behavior(r) = "CLARIFY" /\ ~r.attempted THEN "TP" ELSE "FN"
      [] Expected(c, r) = "EXECUTE" -> IF Behavior(r) = "CLARIFY" THEN "FP" ELSE "TN"
      [] OTHER -> "none"

FalseAction(c, r) == Bit(Expected(c, r) # "EXECUTE" /\ r.attempted)

RefusalCorrect(c, r) ==
    IF Expected(c, r) = "REFUSE" THEN Bit(r.decision = "REFUSE" /\ ~r.attempted) ELSE Null

\* By the role of the request, whatever the intent mode.
ContrastCorrect(c, r) ==
    IF c.role = "CONTRAST"
    THEN Bit(FullCallCorrect(c, r) /\ FinalStateCorrect(c, r) # 0)
    ELSE Null

\* Of the arguments of the tool call or, without one, of the proposal: a proposal to
\* clarify may carry them.
VerbatimCorrect(c, r) ==
    IF Expected(c, r) = "EXECUTE" /\ c.case \in VerbatimCases
    THEN Bit("verbatim" \notin r.wrong) ELSE Null
-------------------------------------------------------------------------------
\* _first_divergences: the position of the first stage output that is wrong in that
\* kind, then final_decision, then final_action; 0 when there is none.
Divergence(c, r, kind) ==
    LET stages == {i \in DOMAIN r.stages : kind \in r.stages[i]}
        carried == {"operation", "argument"}
                     \cup (IF c.case \in VerbatimCases THEN {"verbatim"} ELSE {})
    IN  CASE stages # {} -> Min(stages)
          [] stages = {} /\ Expected(c, r) = "EXECUTE" /\ r.decision # "ACT" ->
               IF kind \in carried THEN Len(r.stages) + 1 ELSE 0
          [] stages = {} /\ Expected(c, r) = "EXECUTE" /\ r.decision = "ACT" ->
               IF kind \in carried \cap r.wrong THEN Len(r.stages) + 2 ELSE 0
          [] OTHER -> 0

FirstDivergence(c, r) ==
    LET present == {Divergence(c, r, kind) : kind \in Kinds} \ {0}
    IN  IF present = {} THEN 0 ELSE Min(present)
-------------------------------------------------------------------------------
\* score_cell: the cell, and what its result is worth
ScoreCell(c, r) ==
    [cell |-> c, result |-> r,
     expected |-> Expected(c, r),
     valid |-> Bit(r.valid),
     decision |-> Bit(DecisionCorrect(c, r)),
     full |-> Bit(FullCallCorrect(c, r)),
     state |-> FinalStateCorrect(c, r),
     verbatim |-> VerbatimCorrect(c, r),
     outcome |-> ClarificationOutcome(c, r),
     falseAction |-> FalseAction(c, r),
     refusal |-> RefusalCorrect(c, r),
     contrast |-> ContrastCorrect(c, r),
     diverged |-> [kind \in Kinds |-> Divergence(c, r, kind)],
     first |-> FirstDivergence(c, r)]
===============================================================================
