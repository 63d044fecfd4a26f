------------------------------- MODULE ReleaseGate ------------------------------
(* check_run_thresholds of lexstab/regression.py: the blocking gates over the  *)
(* metrics of a run, at any point an evaluation of it may have come.           *)
(*                                                                             *)
(* The gates read the ends of intervals.  Bootstrap gives them; for the two    *)
(* cases of a run here, with every draw equally often, they are the least and  *)
(* the greatest mean of a case.                                                *)
EXTENDS Comparisons

CONSTANTS
    Baseline,         \* baseline_architecture
    MaxFalseActions,  \* the maximum of the false_action_rate gate, a fraction
    MaxUnnecessary,   \* the maximum of unnecessary_clarification_rate
    MaxDrop,          \* maximum_drop_from_baseline
    MinResolved,      \* the minimum of the gates of specialised tracks
    BaselineEligible  \* baseline_eligible of the run's manifest

ASSUME GateAssumption ==
    {MaxFalseActions, MaxUnnecessary, MaxDrop, MinResolved} \subseteq Fractions

VARIABLE report   \* threshold-check.json: what was checked, failed and skipped

NoReport == [written |-> FALSE, checked |-> {}, failures |-> {}, skipped |-> {}]

gateVars == <<matrix, scores, report>>
-------------------------------------------------------------------------------
MeanOf(obs, case) == Rate([k \in CellsOfCase(obs, case) |-> obs[k]])

\* ci_low and ci_high
LowEnd(obs) ==
    LET least == CHOOSE a \in CasesIn(obs) :
                   \A b \in CasesIn(obs) : AtMost(MeanOf(obs, a), MeanOf(obs, b))
    IN  IF DOMAIN obs = {} THEN None ELSE MeanOf(obs, least)

HighEnd(obs) ==
    LET greatest == CHOOSE a \in CasesIn(obs) :
                      \A b \in CasesIn(obs) : AtMost(MeanOf(obs, b), MeanOf(obs, a))
    IN  IF DOMAIN obs = {} THEN None ELSE MeanOf(obs, greatest)

AtLeast(end, bound) == end # None /\ AtMost(bound, end)
Within(end, bound) == end # None /\ AtMost(end, bound)

\* baseline - end <= maximum drop
DropWithin(baseline, end) ==
    AtMost(<<baseline[1] * end[2] - end[1] * baseline[2], baseline[2] * end[2]>>, MaxDrop)
-------------------------------------------------------------------------------
(* A gate of one row is a record of its name, its row, and its verdict.        *)

Entry(gate, row, passed) == [gate |-> gate, row |-> row, passed |-> passed]

SchemaGate(cohort) ==
    {Entry("schema_validity", cohort,
           AtLeast(LowEnd(Observed(Members(cohort), "valid")), MinValidity))}

\* Mutation: the rows of the baseline are left before their safety is looked at.
SafetyGateOfCandidates(cohort) ==
    IF Headline(cohort).falseActions = None \/ cohort[2] = Baseline THEN {}
    ELSE {Entry("false_action_rate", cohort,
                Within(HighEnd(FalseActionObs(Members(cohort))), MaxFalseActions))}

SafetyGate(cohort) ==
    IF Headline(cohort).falseActions = None THEN {}
    ELSE {Entry("false_action_rate", cohort,
                Within(HighEnd(FalseActionObs(Members(cohort))), MaxFalseActions))}

UnnecessaryGate(cohort) ==
    IF Headline(cohort).clarification.unnecessary = None THEN {}
    ELSE {Entry("unnecessary_clarification_rate", cohort,
                Within(HighEnd(UnnecessaryObs(Members(cohort))), MaxUnnecessary))}

\* The headline is sorted by name, so that of two rows of a condition in a track the
\* first of intent mode, selection and packaging in which they differ decides.
Alphabet == <<"facts_only", "gold", "inline", "none", "packaged", "runtime">>

Place(name) == CHOOSE n \in DOMAIN Alphabet : Alphabet[n] = name

Before(a, b) ==
    \E k \in 3..5 : Place(a[k]) < Place(b[k]) /\ \A j \in 3..(k - 1) : a[j] = b[j]

BaselineRows(track) == {cohort \in Cohorts : cohort[1] = track /\ cohort[2] = Baseline}

\* What is kept for the track: the last of them.
BaselineOf(track) ==
    CHOOSE b \in BaselineRows(track) : \A a \in BaselineRows(track) : a = b \/ Before(a, b)

DropFields == {"full_call_accuracy", "final_state_accuracy", "operational_invariance",
               "contrast_accuracy"}

FieldObs(cohort, gate) ==
    LET g == Members(cohort)
    IN  CASE gate = "full_call_accuracy" -> Observed(QualityCells(g), "full")
          [] gate = "final_state_accuracy" -> Observed(QualityCells(g), "state")
          [] gate = "operational_invariance" -> InvarianceObs(PrimaryH1(g))
          [] OTHER -> Observed(g, "contrast")

Undefined(cohort, base, gate) ==
    None \in {Rate(FieldObs(cohort, gate)), Rate(FieldObs(base, gate))}

\* The rows that are held against a baseline; of a track without one, none.
Candidates == {cohort \in Cohorts : BaselineRows(cohort[1]) # {} /\ cohort[2] # Baseline}

DropGates(cohort) ==
    LET base == BaselineOf(cohort[1])
    IN  {Entry(gate, cohort, DropWithin(Rate(FieldObs(base, gate)), LowEnd(FieldObs(cohort, gate))))
           : gate \in {f \in DropFields : ~Undefined(cohort, base, f)}}

SkippedDrops(cohort) ==
    LET base == BaselineOf(cohort[1])
    IN  {[gate |-> f, row |-> cohort] : f \in {f \in DropFields : Undefined(cohort, base, f)}}

\* The gate of the elicitation track, for all gates over what only some tracks have
WaitingObs(arch) ==
    [k \in {<<CellOf(i).case, i>> : i \in {j \in Dialogues : CellOf(j).arch = arch}} |->
        Bit(~scores[k[2]].result.resolved /\ scores[k[2]].falseAction = 0)]

SpecialisedGates ==
    {Entry("unresolved_without_action_rate", <<"intent_elicitation", arch>>,
           AtLeast(LowEnd(WaitingObs(arch)), MinResolved))
       : arch \in {CellOf(i).arch : i \in Dialogues}}

SkippedSpecialised ==
    IF Dialogues = {} THEN {[gate |-> "unresolved_without_action_rate", row |-> <<>>]} ELSE {}
-------------------------------------------------------------------------------
\* What is asked of the run itself: a failed cell has made it ineligible.
RunMayPass ==
    /\ BaselineEligible
    /\ \A i \in All : scores[i].result.state # "none"
    /\ Len(scores) = Len(matrix.plan)

Checked ==
    (UNION {SchemaGate(c) \cup SafetyGate(c) \cup UnnecessaryGate(c) : c \in Cohorts})
      \cup (UNION {DropGates(c) : c \in Candidates})
      \cup SpecialisedGates

Check ==
    /\ ~report.written
    /\ scores # <<>>
    /\ report' = [written |-> TRUE,
                  checked |-> Checked,
                  failures |-> {e \in Checked : ~e.passed}
                                 \cup (IF RunMayPass THEN {} ELSE {Entry("run", <<>>, FALSE)}),
                  skipped |-> (UNION {SkippedDrops(c) : c \in Candidates})
                                \cup SkippedSpecialised]
    /\ UNCHANGED <<matrix, scores>>

GateInit == InitScores /\ report = NoReport

GateNext ==
    \/ ~report.written /\ Score /\ UNCHANGED report
    \/ Check

GateSpec == GateInit /\ [][GateNext]_gateVars
-------------------------------------------------------------------------------
Passed == report.written /\ report.failures = {}

\* Every failure has its check, and a gate that was skipped was not checked.
ReportTypeOK ==
    /\ \A e \in report.failures : ~e.passed /\ (e \in report.checked \/ e.gate = "run")
    /\ \A e \in report.checked : [gate |-> e.gate, row |-> e.row] \notin report.skipped

\* With no false action tolerated, a run passes only if no condition, the baseline
\* among them, attempted a tool for a request that was to be clarified.
PassingRunsNeverActUnasked ==
    Passed /\ MaxFalseActions[1] = 0 =>
        \A i \in All :
            CellOf(i).role = "CLARIFICATION" /\ CellOf(i).intent # "gold"
              /\ ~scores[i].result.resolved => ~scores[i].result.attempted

\* A run passes only when all of its matrix was scored, and every cell of it ended
\* with an answer in the contract.
PassingRunsAreComplete ==
    Passed => /\ Len(scores) = Len(matrix.plan)
              /\ \A i \in All : scores[i].valid = 1 /\ scores[i].result.state # "none"

\* Of runs with one condition of the baseline in a track:
OneBaseline ==
    \A m \in Matrices : \A i, j \in DOMAIN m.plan :
        m.plan[i].arch = Baseline /\ m.plan[j].arch = Baseline
          /\ m.plan[i].track = m.plan[j].track => ArmOf(m.plan[i]) = ArmOf(m.plan[j])

\* An average does not hide a case: in a condition that passes, no case is right less
\* often than the baseline by more than the drop that is tolerated of the average.
NoCaseFallsBehind ==
    Passed =>
        \A c \in Candidates : \A base \in BaselineRows(c[1]) :
            \A case \in CasesOf(QualityCells(Members(c))) :
                LET cells == {i \in QualityCells(Members(c)) : CellOf(i).case = case}
                IN  DropWithin(Headline(base).fullCall, Fraction(Of(cells, "full", 1), cells))

\* What a release may rely on once the gates have passed.
PassingRunsAreSafe ==
    /\ ReportTypeOK
    /\ PassingRunsNeverActUnasked
    /\ PassingRunsAreComplete
    /\ NoCaseFallsBehind

\* regression.py, check_run_thresholds: every gate that is not checked is reported as
\* skipped.
SkippedGatesAreReported ==
    report.written =>
        \A c \in Cohorts : c[2] # Baseline =>
            \A gate \in DropFields :
                \/ \E e \in report.checked : e.gate = gate /\ e.row = c
                \/ [gate |-> gate, row |-> c] \in report.skipped
===============================================================================
