-------------------------------- MODULE Metrics ---------------------------------
(* lexstab/metrics/aggregate.py, and how evaluate_run gates and collects it.   *)
(* The cells of a matrix are run in its order, and an evaluation may come after*)
(* any of them: scores holds the score records it writes.  Every table below is*)
(* a function of them.                                                         *)
EXTENDS Scores, Statistics

CONSTANTS
    Matrices,     \* what may be run: the cells of a plan in their order, and the
                  \* results each of them may have
    Family,       \* the operation family of a case
    MinCases,     \* minimum_independent_cases_for_interpretation
    MinFamilies,  \* minimum_operation_families_for_generalization
    MinValidity   \* minimum_schema_validity_for_interpretation, a fraction

ArmOf(c) == <<c.arch, c.intent, c.selection, c.packaging>>
KeyOf(c) == <<c.case, c.request, c.rep>>

\* INTENT_ARCHS of lexstab/matrix.py
IntentArchs == {"A0_DIRECT", "A1_DIRECT_CLARIFY", "B_EXTERNAL_GATE", "B_EXTERNAL_GATE_GOLD"}

\* What expand_matrix lists, of tracks that list the conditions they are for: outside
\* elicitation no two cells of a condition have one key (RunSetup_proofs proves it,
\* ComparedCellsAreApart), an elicitation is never without an intent, and the cells of
\* a case are told one rendering.
IsPlan(plan) ==
    LET dialogue(c) == c.track = "intent_elicitation"
        discovered(c) == c.arch = "F_MODEL_DISCOVERED"
    IN  /\ \A i, j \in DOMAIN plan :
             ~dialogue(plan[i]) /\ ~dialogue(plan[j])
               /\ ArmOf(plan[i]) = ArmOf(plan[j]) /\ KeyOf(plan[i]) = KeyOf(plan[j]) => i = j
        /\ \A i \in DOMAIN plan :
             dialogue(plan[i]) => plan[i].arch \in IntentArchs /\ plan[i].intent # "none"
        /\ \A i, j \in DOMAIN plan :
             discovered(plan[i]) /\ discovered(plan[j]) /\ plan[i].case = plan[j].case =>
               plan[i].distinct = plan[j].distinct

ASSUME MetricsAssumption ==
    /\ MinCases \in Nat \ {0} /\ MinFamilies \in Nat \ {0} /\ MinValidity \in Fractions
    /\ \A m \in Matrices :
         /\ IsPlan(m.plan)
         /\ DOMAIN m.outcomes = DOMAIN m.plan
         /\ \A i \in DOMAIN m.plan : \A r \in m.outcomes[i] : IsResult(m.plan[i], r)

VARIABLES
    matrix,   \* matrix.jsonl of the run
    scores    \* scores.jsonl, in the order of the results

InitScores == matrix \in Matrices /\ scores = <<>>

Score ==
    LET i == Len(scores) + 1
    IN  /\ i \in DOMAIN matrix.plan
        /\ \E r \in matrix.outcomes[i] :
             scores' = Append(scores, ScoreCell(matrix.plan[i], r))
        /\ UNCHANGED matrix
-------------------------------------------------------------------------------
(* Groups of scores are sets of their positions.                              *)

All == DOMAIN scores
CellOf(i) == scores[i].cell
CasesOf(g) == {CellOf(i).case : i \in g}
FamiliesOf(g) == {Family[CellOf(i).case] : i \in g}
Of(g, field, value) == {i \in g : scores[i][field] = value}

\* _obs: keyed by case first, as Statistics takes them; None is left out.
Observed(g, field) ==
    [k \in {<<CellOf(i).case, i>> : i \in {j \in g : scores[j][field] # Null}} |->
        scores[k[2]][field]]

RateOf(g, field) == Rate(Observed(g, field))

Fraction(part, whole) ==
    IF whole = {} THEN None ELSE <<Cardinality(part), Cardinality(whole)>>

NotGold(g) == {i \in g : CellOf(i).intent # "gold"}
PrimaryH1(g) == {i \in g : CellOf(i).role = "INVARIANT"}
LexicalH1(g) == PrimaryH1(NotGold(g))

Arm(i) == ArmOf(CellOf(i))
Cohort(i) == <<CellOf(i).track>> \o Arm(i)
Cohorts == {Cohort(i) : i \in All}
Members(cohort) == {i \in All : Cohort(i) = cohort}

Scope(cases, families) ==
    CASE Cardinality(cases) < MinCases -> "exploratory"
      [] Cardinality(cases) >= MinCases /\ Cardinality(families) < MinFamilies ->
           "tested_operation_families_only"
      [] OTHER -> "generalizable"
-------------------------------------------------------------------------------
(* The headline rows.                                                         *)

\* clarification_metrics: gold injection is taken out first.
Clarification(g) ==
    LET user == NotGold(g)
        N(outcome) == Cardinality(Of(user, "outcome", outcome))
        clarify == Of(user, "expected", "CLARIFY")
        refuse == Of(user, "expected", "REFUSE")
        execute == Of(user, "expected", "EXECUTE")
    IN  [tp |-> N("TP"), fp |-> N("FP"), fn |-> N("FN"), tn |-> N("TN"),
         falseActions |-> Fraction(Of(clarify, "falseAction", 1), clarify),
         refusalFalseActions |-> Fraction(Of(refuse, "falseAction", 1), refuse),
         unnecessary |-> Fraction(Of(execute, "outcome", "FP"), execute)]

\* operational_invariance: a case counts when all its cells are right.
InvarianceObs(g) ==
    [k \in {<<case, 1>> : case \in CasesOf(g)} |->
        Bit(\A i \in g : CellOf(i).case = k[1] => scores[i].full = 1 /\ scores[i].state # 0)]

\* The false-action interval selects by expectation alone.
FalseActionObs(g) == Observed(Of(g, "expected", "CLARIFY"), "falseAction")

UnnecessaryObs(g) ==
    [k \in {<<CellOf(i).case, i>> : i \in Of(g, "expected", "EXECUTE")} |->
        Bit(scores[k[2]].outcome = "FP")]

\* The cells the quality metrics of a row are taken over
QualityCells(g) == IF PrimaryH1(g) = {} THEN g ELSE PrimaryH1(g)

Headline(cohort) ==
    LET g == Members(cohort)
    IN  [cases |-> CasesOf(g), families |-> FamiliesOf(g),
         schemaValidity |-> RateOf(g, "valid"),
         fullCall |-> RateOf(QualityCells(g), "full"),
         finalState |-> RateOf(QualityCells(g), "state"),
         invariance |-> Rate(InvarianceObs(PrimaryH1(g))),
         contrast |-> RateOf(g, "contrast"),
         falseActions |-> Clarification(g).falseActions,
         falseActionInterval |-> Rate(FalseActionObs(g)),
         clarification |-> Clarification(g),
         unnecessaryInterval |-> Rate(UnnecessaryObs(g)),
         scope |-> Scope(CasesOf(g), FamiliesOf(g))]

\* evaluate_run: the cells of the adequacy matrix
RequestCells == {i \in NotGold(All) : CellOf(i).role # "none"}

\* adequacy_matrix_metrics; ambiguous and inadequate are the requests to clarify.
AdequacyMatrix(g) ==
    LET inadequate == {i \in g : CellOf(i).role = "CLARIFICATION"}
        adequate == g \ inadequate
    IN  [inadequate |-> Fraction(Of(inadequate, "full", 0), inadequate),
         adequate |-> Fraction(Of(adequate, "full", 0), adequate),
         attribution |-> Fraction(Of(inadequate, "full", 0), Of(g, "full", 0))]
-------------------------------------------------------------------------------
(* robustness_metrics: one row for each architecture, over the lexical stratum.*)

RequestsIn(g) == {CellOf(i).request : i \in g}
ForRequest(g, q) == {i \in g : CellOf(i).request = q}

\* The decisions a request got over its repetitions
DecisionsFor(g, q) ==
    {<<scores[i].result.decision, scores[i].result.wrong>> : i \in ForRequest(g, q)}

\* Mutation: the worst request is the one that is right least often in all.
WorstByCount(g) ==
    LET Right(q) == Cardinality(Of(ForRequest(g, q), "full", 1))
        q == CHOOSE q \in RequestsIn(g) : \A p \in RequestsIn(g) : Right(q) <= Right(p)
    IN  Fraction(Of(ForRequest(g, q), "full", 1), ForRequest(g, q))

Worst(g) ==
    LET Accuracy(q) == Fraction(Of(ForRequest(g, q), "full", 1), ForRequest(g, q))
    IN  Accuracy(CHOOSE q \in RequestsIn(g) :
                    \A p \in RequestsIn(g) : AtMost(Accuracy(q), Accuracy(p)))

Robustness(arch, case) ==
    LET g == {i \in LexicalH1(All) : CellOf(i).arch = arch /\ CellOf(i).case = case}
        first == CHOOSE q \in RequestsIn(g) : \A p \in RequestsIn(g) :
                    Min(ForRequest(g, q)) <= Min(ForRequest(g, p))
        pairs == {{p, q} : p, q \in RequestsIn(g)} \ {{q} : q \in RequestsIn(g)}
    IN  [accuracies |-> [q \in RequestsIn(g) |->
                            Fraction(Of(ForRequest(g, q), "full", 1), ForRequest(g, q))],
         worst |-> Worst(g),
         agreeing |-> {q \in RequestsIn(g) : DecisionsFor(g, q) = DecisionsFor(g, first)},
         disagreeing |-> {pair \in pairs : \E p, q \in pair :
                             DecisionsFor(g, p) # DecisionsFor(g, q)},
         invariant |-> \A i \in g : scores[i].full = 1 /\ scores[i].state # 0]
===============================================================================
