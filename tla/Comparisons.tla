------------------------------- MODULE Comparisons ------------------------------
(* The paired comparisons, transitions, ablations and contrasts of             *)
(* lexstab/metrics/aggregate.py, and the gate that says which may be read as   *)
(* causal.                                                                     *)
EXTENDS Metrics

\* comparison_selector, for the intent modes the comparisons give
Modeless == {"A0_DIRECT", "A1_DIRECT_CLARIFY", "P0_RAW_PROPOSAL", "P1_CLARIFY_PROPOSAL",
             "M0_NO_MEMORY", "M1_STATIC_GLOSSARY", "M2_RETRIEVED_MEMORY",
             "M3_CANONICAL_RESOLVER", "M4_PERSONALIZED_MEMORY", "AL_RAW"}
WithGoldProcedure == {"P3_CANONICAL_PROCEDURE_PROPOSAL", "P4_CANONICAL_PROCEDURE_TOOL",
                      "LP2_CANONICAL_PROCEDURE", "LP3_CANONICAL_PROCEDURE_TOOL"}

Selector(arch, intent) ==
    LET mode == IF arch \in Modeless THEN "none" ELSE intent
    IN  CASE arch = "P2F_CANONICAL_FACTS_PROPOSAL" -> <<arch, mode, "gold", "facts_only">>
          [] arch \in WithGoldProcedure -> <<arch, mode, "gold", "inline">>
          [] OTHER -> <<arch, mode, "none", "none">>

Key(i) == KeyOf(CellOf(i))

\* _eligible: a cell without a request is of no stratum and always is.
EligibleScore(i, selector, restricted) ==
    /\ Arm(i) = selector
    /\ restricted => CellOf(i).role \in {"INVARIANT", "none"}

SideOf(g, selector, restricted) == {i \in g : EligibleScore(i, selector, restricted)}

\* The values of two sides, keyed; of two scores with one key the later stays.
PairedValues(a, b, field) ==
    LET Latest(side, k) == Max({i \in side : Key(i) = k})
        both == {Key(i) : i \in a} \cap {Key(i) : i \in b}
        defined == {k \in both : /\ scores[Latest(a, k)][field] # Null
                                 /\ scores[Latest(b, k)][field] # Null}
    IN  [k \in defined |-> <<scores[Latest(a, k)][field], scores[Latest(b, k)][field]>>]

Compared(values, cohorts) ==
    [pairs |-> values, cases |-> CasesIn(values),
     families |-> {Family[case] : case \in CasesIn(values)}, cohorts |-> cohorts]

\* paired_comparison, over the scores g
Comparison(g, archA, archB, field, restricted, intent) ==
    LET a == Selector(archA, intent)
        b == Selector(archB, intent)
    IN  Compared(PairedValues(SideOf(g, a, restricted), SideOf(g, b, restricted), field),
                 <<a, b>>)

\* primary_comparisons: A, B, the field and the intent mode; those without a pair are
\* left out.
PrimaryComparisons ==
    {<<"A0_DIRECT", "A1_DIRECT_CLARIFY", "full", "none">>,
     <<"A1_DIRECT_CLARIFY", "B_RUNTIME", "full", "runtime">>,
     <<"A1_DIRECT_CLARIFY", "C_RUNTIME", "full", "runtime">>,
     <<"B_GOLD", "C_GOLD", "full", "gold">>,
     <<"B_GOLD", "C_GOLD", "state", "gold">>,
     <<"C_GOLD", "F_MODEL_DISCOVERED", "full", "gold">>,
     <<"B_GOLD", "F_MODEL_DISCOVERED", "full", "gold">>,
     <<"P0_RAW_PROPOSAL", "P1_CLARIFY_PROPOSAL", "state", "none">>,
     <<"P1_CLARIFY_PROPOSAL", "P2_CANONICAL_PROPOSAL", "state", "runtime">>,
     <<"P2_CANONICAL_PROPOSAL", "P3_CANONICAL_PROCEDURE_PROPOSAL", "state", "runtime">>,
     <<"P3_CANONICAL_PROCEDURE_PROPOSAL", "P4_CANONICAL_PROCEDURE_TOOL", "state", "runtime">>,
     <<"LP0B_GOLD_START_LANGUAGE_BALANCED", "LP1_CANONICAL_ONCE", "state", "gold">>,
     <<"LP0B_GOLD_START_LANGUAGE_BALANCED", "LP0BV_GOLD_START_LANGUAGE_BALANCED_VERBATIM",
       "verbatim", "gold">>,
     <<"LP0BV_GOLD_START_LANGUAGE_BALANCED_VERBATIM", "LP1_CANONICAL_ONCE", "verbatim", "gold">>,
     <<"LP0G_GOLD_START_LANGUAGE", "LP1_CANONICAL_ONCE", "state", "gold">>,
     <<"LP0_LANGUAGE_THROUGHOUT", "LP1_CANONICAL_ONCE", "state", "runtime">>,
     <<"LP1_CANONICAL_ONCE", "LP2_CANONICAL_PROCEDURE", "state", "gold">>,
     <<"LP2_CANONICAL_PROCEDURE", "LP3_CANONICAL_PROCEDURE_TOOL", "state", "gold">>,
     <<"M1_STATIC_GLOSSARY", "M2_RETRIEVED_MEMORY", "full", "none">>,
     <<"AL_DRIFT", "AL_CANONICAL", "state", "gold">>}

Primary ==
    {c \in {Comparison(All, p[1], p[2], p[3], TRUE, p[4]) : p \in PrimaryComparisons} :
        DOMAIN c.pairs # {}}
-------------------------------------------------------------------------------
(* formalization_transitions: each rung of the ladder against the one below,   *)
(* and from P2 on against P1.                                                  *)

Ladder == <<"P0_RAW_PROPOSAL", "P1_CLARIFY_PROPOSAL", "P2_CANONICAL_PROPOSAL",
            "P3_CANONICAL_PROCEDURE_PROPOSAL", "P4_CANONICAL_PROCEDURE_TOOL">>

\* The cohorts of the safety and cost of a transition have a table of their own.
\* Mutation: the table has no packaging.
ExpectedCohortUnpackaged(arch) ==
    CASE arch \in {"P0_RAW_PROPOSAL", "P1_CLARIFY_PROPOSAL"} -> <<"none", "none", "none">>
      [] arch = "P2_CANONICAL_PROPOSAL" -> <<"runtime", "none", "none">>
      [] OTHER -> <<"runtime", "gold", "none">>

ExpectedCohort(arch) ==
    CASE arch \in {"P0_RAW_PROPOSAL", "P1_CLARIFY_PROPOSAL"} -> <<"none", "none", "none">>
      [] arch = "P2_CANONICAL_PROPOSAL" -> <<"runtime", "none", "none">>
      [] OTHER -> <<"runtime", "gold", "inline">>

RuntimeCohort(arch) == {i \in All : Arm(i) = <<arch>> \o ExpectedCohort(arch)}

Quality(archA, archB) == Comparison(All, archA, archB, "state", TRUE, "runtime")

Transition(n) ==
    [quality |-> Quality(Ladder[n], Ladder[n + 1]),
     before |-> Clarification(RuntimeCohort(Ladder[n])).falseActions,
     after |-> Clarification(RuntimeCohort(Ladder[n + 1])).falseActions]

Transitions == {Transition(n) : n \in 1..4}
AgainstBaseline == {Quality("P1_CLARIFY_PROPOSAL", Ladder[n]) : n \in 3..5}
-------------------------------------------------------------------------------
(* component_ablations                                                         *)

\* An ablation made by hand pairs the primary H1 cells of two groups, in no table.
Ablation(a, b, cohorts) ==
    Compared(PairedValues(PrimaryH1(a), PrimaryH1(b), "state"), cohorts)

P2In(intent) ==
    {i \in All : CellOf(i).arch = "P2_CANONICAL_PROPOSAL" /\ CellOf(i).intent = intent}

P3Packaged ==
    {i \in All : /\ CellOf(i).arch = "P3_CANONICAL_PROCEDURE_PROPOSAL"
                 /\ CellOf(i).packaging = "packaged"}

Ablations ==
    LET p2 == "P2_CANONICAL_PROPOSAL"
        facts == "P2F_CANONICAL_FACTS_PROPOSAL"
        p3 == "P3_CANONICAL_PROCEDURE_PROPOSAL"
        inline == Selector(p3, "gold")
        packaged == [inline EXCEPT ![4] = "packaged"]
        pairs == {<<"P1_CLARIFY_PROPOSAL", p2>>, <<p2, facts>>, <<facts, p3>>,
                  <<p3, "P4_CANONICAL_PROCEDURE_TOOL">>}
        packaging == Ablation(SideOf(All, inline, FALSE), P3Packaged, <<inline, packaged>>)
    IN  {Comparison(All, p[1], p[2], "state", TRUE, "gold") : p \in pairs}
          \cup {Ablation(P2In("runtime"), P2In("gold"),
                         <<Selector(p2, "runtime"), Selector(p2, "gold")>>)}
          \cup (IF DOMAIN packaging.pairs = {} THEN {} ELSE {packaging})
-------------------------------------------------------------------------------
(* rendering_contrast_metrics                                                  *)

Discovered == {i \in All : CellOf(i).arch = "F_MODEL_DISCOVERED"}
Distinct == {i \in Discovered : CellOf(i).distinct}

AllRenderings == Comparison(All, "C_GOLD", "F_MODEL_DISCOVERED", "full", FALSE, "gold")

DistinctPool == {i \in All : CellOf(i).case \in CasesOf(Distinct)}

DistinctRenderings ==
    Comparison(DistinctPool, "C_GOLD", "F_MODEL_DISCOVERED", "full", FALSE, "gold")
-------------------------------------------------------------------------------
(* measurement_warnings and apply_interpretation_gate                          *)

\* The cohorts whose schema validity is below the minimum; the track is dropped when
\* the gate looks a cohort up.
Warned ==
    {cohort \in Cohorts : Less(RateOf(Members(cohort), "valid"), MinValidity)}

WarnedArms == {SubSeq(cohort, 2, 5) : cohort \in Warned}

\* Mutation: failed cohorts are reported and not withheld.
GateDespiteFailure(c) ==
    [failed |-> {c.cohorts[1], c.cohorts[2]} \cap WarnedArms,
     allowed |-> DOMAIN c.pairs # {} /\ Cardinality(c.cases) >= MinCases,
     scope |-> Scope(c.cases, c.families)]

Gate(c) ==
    LET failed == {c.cohorts[1], c.cohorts[2]} \cap WarnedArms
    IN  [failed |-> failed,
         allowed |-> /\ DOMAIN c.pairs # {}
                     /\ failed = {}
                     /\ Cardinality(c.cases) >= MinCases,
         scope |-> Scope(c.cases, c.families)]

\* evaluate_run: everything that passes through the gate
Gated ==
    Primary \cup {t.quality : t \in Transitions} \cup AgainstBaseline \cup Ablations
      \cup {AllRenderings, DistinctRenderings}
-------------------------------------------------------------------------------
(* persistence_metrics, and what it says of exact values                       *)

Persistent == {"LP0_LANGUAGE_THROUGHOUT", "LP0G_GOLD_START_LANGUAGE",
               "LP0B_GOLD_START_LANGUAGE_BALANCED",
               "LP0BV_GOLD_START_LANGUAGE_BALANCED_VERBATIM", "LP1_CANONICAL_ONCE",
               "LP2_CANONICAL_PROCEDURE", "LP3_CANONICAL_PROCEDURE_TOOL"}

\* A row is of a condition and its arm, whatever tracks its cells are in.
Persistence(arm) ==
    LET g == {i \in All : Arm(i) = arm /\ CellOf(i).arch \in Persistent}
        observed == {i \in g : scores[i].verbatim # Null}
        diverged == {i \in observed : scores[i].diverged["verbatim"] # 0}
        exact == Of(observed, "verbatim", 1)
    IN  [cells |-> g, observed |-> observed,
         recovered |-> diverged \cap exact,
         unrecovered |-> diverged \ exact,
         pristine |-> exact \ diverged,
         preservation |-> Fraction(exact, observed),
         finalState |-> RateOf(g, "state"),
         scope |-> Scope(CasesOf(g), FamiliesOf(g))]
-------------------------------------------------------------------------------
(* elicitation_metrics and the rates over what only some cells have            *)

Dialogues == {i \in All : CellOf(i).track = "intent_elicitation"}

Elicitation(arch) ==
    LET g == {i \in Dialogues : CellOf(i).arch = arch}
        resolved == {i \in g : scores[i].result.resolved}
        acted == Of(g, "falseAction", 1)
    IN  [cells |-> g, resolved |-> resolved,
         falseActions |-> Fraction(acted, g),
         waiting |-> (g \ resolved) \ acted,
         accuracy |-> Fraction({i \in resolved : scores[i].full = 1 /\ scores[i].state # 0},
                               resolved)]
-------------------------------------------------------------------------------
\* A defined field is 0 or 1, and the final state of a cell is unscored exactly
\* when the cell left none.
ScoresTypeOK ==
    \A i \in All :
        /\ \A f \in {"valid", "decision", "full", "falseAction"} : scores[i][f] \in {0, 1}
        /\ \A f \in {"state", "verbatim", "refusal", "contrast"} : scores[i][f] \in {Null, 0, 1}
        /\ scores[i].state = Null <=> scores[i].result.state = "none"
        /\ scores[i].first \in 0..(Len(scores[i].result.stages) + 2)

\* The false-action rate of a row is computed twice, once without the gold cells and
\* once from what was expected of each cell; the release gate bounds the second and
\* skips the row by the first.  They are of the same cells, and every false action
\* is one of the misses.
SafetyIsOfUserRequests ==
    \A cohort \in Cohorts :
        LET row == Headline(cohort)
        IN  /\ row.falseActions = row.falseActionInterval
            /\ row.falseActions # None =>
                 /\ row.falseActions[2] = row.clarification.tp + row.clarification.fn
                 /\ row.falseActions[1] <= row.clarification.fn

\* The quality of a rung of the ladder is selected by comparison_selector, its safety
\* by a table of its own: they are of the same cells.
LadderCohortsAgree ==
    \A n \in DOMAIN Ladder :
        RuntimeCohort(Ladder[n]) = SideOf(All, Selector(Ladder[n], "runtime"), FALSE)

\* The sides of a comparison are dictionaries: no two cells of a side share a key, so
\* that none takes the place of another.
NoScoreIsOverwritten ==
    \A c \in Gated : \A n \in {1, 2} :
        LET side == SideOf(All, c.cohorts[n], TRUE)
        IN  \A i, j \in side : Key(i) = Key(j) => i = j

\* Of runs so small that one broken response takes any cohort below the minimum:
OneIsTooMany == \A m \in Matrices : \A n \in DOMAIN m.plan : Less(<<n - 1, n>>, MinValidity)

\* A comparison that may be read as causal rests on cohorts whose every response
\* followed the contract, in whatever tracks they ran.
BrokenCohortsAreNotInterpreted ==
    \A c \in Gated : Gate(c).allowed =>
        \A i \in All : Arm(i) \in {c.cohorts[1], c.cohorts[2]} => scores[i].valid = 1

\* The clarification table and the adequacy matrix are of the same requests: every
\* miss is a failure that is attributed to inadequate wording.  Outside dialogues no
\* other is: a dialogue may ask, be answered, and fail.
MissesAreAttributed ==
    LET Failures(g) == LET row == AdequacyMatrix(g).inadequate
                       IN  IF row = None THEN 0 ELSE row[1]
        single == RequestCells \ Dialogues
    IN  /\ Clarification(All).fn <= Failures(RequestCells)
        /\ Clarification(single).fn = Failures(single)

\* The accuracy of the worst wording is one of the accuracies and bounds them; the
\* requests agree in pairs exactly when they agree with the first; and an invariant
\* case has no request that is ever wrong.
RobustnessCoheres ==
    \A i \in LexicalH1(All) :
        LET row == Robustness(CellOf(i).arch, CellOf(i).case)
            requests == DOMAIN row.accuracies
        IN  /\ \A q \in requests : AtMost(row.worst, row.accuracies[q])
            /\ \E q \in requests : row.worst = row.accuracies[q]
            /\ row.agreeing = requests <=> row.disagreeing = {}
            /\ row.invariant => row.worst[1] = row.worst[2]

\* Every cell whose exact value could be observed is counted once: it is pristine, it
\* recovered, or it stayed wrong.
RecoveriesPartition ==
    \A k \in All :
        LET p == Persistence(Arm(k))
        IN  /\ p.observed = p.recovered \cup p.unrecovered \cup p.pristine
            /\ Cardinality(p.observed) = Cardinality(p.recovered) + Cardinality(p.unrecovered)
                                           + Cardinality(p.pristine)

\* Two parts of the evaluator compare the call with the expected one: what the
\* diagnosis finds no divergence in, the score calls right.
UndivergedCallsAreRight ==
    \A i \in All :
        scores[i].expected = "EXECUTE" /\ scores[i].first = 0 => scores[i].full = 1

\* docs/RESULTS_GUIDE.md: identical renderings are no lexical contrast.  No pair of the
\* lexically distinct comparison is of a cell whose wording was the canonical one, and
\* it keeps every pair that is not.
IdenticalWordingIsNoContrast ==
    LET pairs == DOMAIN DistinctRenderings.pairs
    IN  /\ \A i \in Discovered : Key(i) \in pairs => CellOf(i).distinct
        /\ \A i \in Distinct :
             Key(i) \in DOMAIN AllRenderings.pairs => Key(i) \in pairs

\* An elicitation that acts was resolved, and is no false action: the rates of
\* resolution, of false action and of waiting without either add up to one.
ElicitationsAddUp ==
    \A i \in Dialogues :
        LET row == Elicitation(CellOf(i).arch)
        IN  Cardinality(row.cells) =
              Cardinality(row.resolved) + row.falseActions[1] + Cardinality(row.waiting)

\* The tables are of the cells they are named for: rows computed apart, in the headline
\* and in its safety, in the ladder and in its cohorts, agree on their cells; and a
\* comparison loses none of them and takes in none it must leave out.
CohortsAgree ==
    /\ SafetyIsOfUserRequests
    /\ LadderCohortsAgree
    /\ NoScoreIsOverwritten
    /\ IdenticalWordingIsNoContrast

\* What two tables say of the same cells adds up.
TablesAddUp ==
    /\ ScoresTypeOK
    /\ MissesAreAttributed
    /\ RobustnessCoheres
    /\ RecoveriesPartition
    /\ UndivergedCallsAreRight
    /\ ElicitationsAddUp
-------------------------------------------------------------------------------
(* What the documents say, and the code does not do.                          *)

\* docs/ANALYSIS_PLAN.md: transport failures stay in the denominators.
FailuresStayInDenominators ==
    \A cohort \in Cohorts :
        LET rate == Headline(cohort).finalState
        IN  rate # None => rate[2] = Cardinality(QualityCells(Members(cohort)))

\* docs/DECISIONS.md, D-032: the labels of the source request are only audit metadata
\* of a gold cell, which is scored as it is without them.
GoldCellsIgnoreSourceLabels ==
    \A i \in All :
        CellOf(i).intent = "gold" =>
            scores[i].contrast =
                ScoreCell([CellOf(i) EXCEPT !.role = "none"], scores[i].result).contrast

\* docs/RESULTS_GUIDE.md: what recovered had diverged at a stage before the end.
RecoveriesFollowADivergence ==
    \A k \in All : \A i \in Persistence(Arm(k)).recovered :
        scores[i].diverged["verbatim"] <= Len(scores[i].result.stages)

\* aggregate.py, apply_interpretation_gate: a comparison with a failed cohort is
\* descriptive only.
WithheldIsNotGeneralizable ==
    \A c \in Gated : Gate(c).scope = "generalizable" => Gate(c).allowed
===============================================================================
