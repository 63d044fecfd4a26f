----------------------------- MODULE MC_ReleaseGate -----------------------------
(* Matrices for TLC: a ladder, wordings, and two conditions under the gates; and *)
(* those that show what the documents say and the code does not do.             *)
EXTENDS ReleaseGate

Families == [c1 |-> "f1", c2 |-> "f2"]
NinetyNine == <<99, 100>>
Zero == <<0, 1>>
Half == <<1, 2>>
Literal == {"c1"}

Cell(arch, intent, case, request, role) ==
    [track |-> "progressive_formalization", arch |-> arch, intent |-> intent,
     selection |-> "none", packaging |-> "none", case |-> case, request |-> request,
     rep |-> 0, role |-> role, distinct |-> FALSE]

Result(decision, valid, wrong, state) ==
    [decision |-> decision, valid |-> valid, wrong |-> wrong, attempted |-> decision = "ACT",
     state |-> state, stages |-> <<>>, resolved |-> FALSE]

Everything == {"operation", "argument", "verbatim"}
Failed == Result("none", FALSE, Everything, "none")
Invalid == Result("none", FALSE, Everything, "initial")
Asked == Result("CLARIFY", TRUE, Everything, "initial")
AskedExactly == Result("CLARIFY", TRUE, {}, "initial")
Right == Result("ACT", TRUE, {}, "goal")
Wrong == Result("ACT", TRUE, {"operation"}, "other")
Inexact == Result("ACT", TRUE, {"argument", "verbatim"}, "other")

\* The ladder: a request of each of two cases, one to clarify, and the controls.
P1 == "P1_CLARIFY_PROPOSAL"
P2 == "P2_CANONICAL_PROPOSAL"
P3(packaging) ==
    [Cell("P3_CANONICAL_PROCEDURE_PROPOSAL", "gold", "c1", "q1", "INVARIANT") EXCEPT
       !.selection = "gold", !.packaging = packaging]

LadderPlan ==
    <<Cell(P1, "none", "c1", "q1", "INVARIANT"),
      Cell(P2, "runtime", "c1", "q1", "INVARIANT"),
      Cell(P2, "gold", "c1", "q1", "INVARIANT"),
      Cell(P1, "none", "c1", "q2", "CLARIFICATION"),
      Cell(P2, "gold", "c1", "q2", "CLARIFICATION"),
      P3("inline"), P3("packaged"), [P3("inline") EXCEPT !.intent = "runtime"],
      [Cell(P1, "none", "c1", "q1", "INVARIANT") EXCEPT !.rep = 1],
      [Cell(P2, "runtime", "c1", "q1", "INVARIANT") EXCEPT !.rep = 1],
      Cell(P1, "none", "c2", "q3", "INVARIANT"),
      Cell(P2, "runtime", "c2", "q3", "INVARIANT")>>

LadderOutcomes ==
    <<{Right, Failed}, {Right, Wrong, Invalid}, {Right, Wrong}, {Asked, Wrong, Failed},
      {Asked, Right}, {Right, Failed}, {Right}, {Right, Wrong}, {Right}, {Right},
      {Right, Asked}, {Right, Failed}>>

\* Contrasts: the gold ablation of a request that asks for another operation.
ContrastPlan ==
    <<Cell(P2, "runtime", "c1", "q1", "CONTRAST"), Cell(P2, "gold", "c1", "q1", "CONTRAST"),
      Cell(P2, "runtime", "c2", "q2", "INVARIANT"), Cell(P2, "gold", "c2", "q2", "INVARIANT")>>

EveryOutcome == {Right, Wrong, Inexact, Asked, Failed, Invalid}
ContrastOutcomes == <<EveryOutcome, EveryOutcome, EveryOutcome, EveryOutcome>>
-------------------------------------------------------------------------------
\* Wordings: two requests of a case, one repeated, that two conditions see.
Staged(result, first, second) == [result EXCEPT !.stages = <<first, second>>]
Prose(case, request, rep) ==
    [Cell("LP0_LANGUAGE_THROUGHOUT", "runtime", case, request, "INVARIANT") EXCEPT !.rep = rep]
Rendered(arch, case, distinct) ==
    [Cell(arch, "gold", case, "none", "none") EXCEPT
       !.track = "post_canonical", !.distinct = distinct]
Dialogue(arch, case, request) ==
    [Cell(arch, "runtime", case, request, "CLARIFICATION") EXCEPT !.track = "intent_elicitation"]

WordingPlan ==
    <<Prose("c1", "q2", 0), Prose("c1", "q2", 1), Prose("c1", "q1", 0), Prose("c2", "q3", 0),
      Rendered("C_GOLD", "c1", FALSE), Rendered("F_MODEL_DISCOVERED", "c1", TRUE),
      Rendered("C_GOLD", "c2", FALSE), Rendered("F_MODEL_DISCOVERED", "c2", FALSE),
      Dialogue("A1_DIRECT_CLARIFY", "c1", "q4"), Dialogue("A1_DIRECT_CLARIFY", "c2", "q5")>>

Lost == {"argument", "verbatim"}
ProseOutcomes ==
    {Staged(Right, {}, {}), Staged(Right, Lost, {}), Staged(Right, {}, {"entity"}),
     Staged(Inexact, {}, Lost), Staged(Inexact, {}, {}), Staged(Asked, {}, {})}
Resolved(result) == [result EXCEPT !.resolved = TRUE]
Unanswered == Result("none", TRUE, Everything, "initial")
AskedUnreadably == Result("CLARIFY", FALSE, Everything, "initial")
DialogueOutcomes == {Resolved(Right), Resolved(Wrong), Asked, AskedUnreadably, Unanswered, Failed}
WordingOutcomes ==
    <<ProseOutcomes, ProseOutcomes, {Staged(Right, {}, {}), Staged(Inexact, {}, {})},
      {Staged(Right, {}, {}), Staged(Wrong, {}, {})},
      {Right}, {Right, Wrong}, {Right}, {Right}, DialogueOutcomes,
      {Resolved(Right), Resolved(Wrong), Asked}>>

\* Prose that ends in a question, with the exact value in its proposal.
AskingOutcomes ==
    [i \in DOMAIN WordingPlan |->
        CASE i <= 3 -> {Staged(AskedExactly, {}, {}), Staged(Right, {}, {})}
          [] i \in 4..8 -> {Right}
          [] OTHER -> {Resolved(Right)}]
-------------------------------------------------------------------------------
A1 == "A1_DIRECT_CLARIFY"
BothConditions(case, request, role) ==
    <<[Cell(A1, "none", case, request, role) EXCEPT !.track = "boundary"],
      [Cell("B_RUNTIME", "runtime", case, request, role) EXCEPT !.track = "boundary"]>>

\* A baseline and a candidate over four requests, and a dialogue of each.
BoundaryPlan ==
    BothConditions("c1", "q1", "INVARIANT") \o BothConditions("c2", "q2", "INVARIANT")
      \o BothConditions("c1", "q3", "CLARIFICATION") \o BothConditions("c2", "q4", "CONTRAST")
      \o <<Dialogue(A1, "c1", "q3")>>

Answers == {Right, Wrong, Asked, Invalid}
BoundaryOutcomes ==
    <<{Right, Wrong}, Answers, {Right}, Answers, {Asked, Right}, {Asked, Wrong, Failed},
      {Right}, {Right, Wrong}, {Asked, Resolved(Right), Resolved(Wrong), Unanswered}>>

\* A run without a baseline in its track
PostPlan ==
    <<Rendered("B_GOLD", "c1", FALSE), Rendered("C_GOLD", "c1", FALSE),
      Rendered("C_GOLD", "c2", FALSE)>>
PostOutcomes == <<Answers, Answers, Answers>>
-------------------------------------------------------------------------------
Matrix(plan, outcomes) == [plan |-> plan, outcomes |-> outcomes]

Runs ==
    {Matrix(LadderPlan, LadderOutcomes), Matrix(WordingPlan, WordingOutcomes),
     Matrix(BoundaryPlan, BoundaryOutcomes)}

\* The theorems about comparisons and gates are of runs such as these.
ASSUME OneIsTooMany /\ OneBaseline

\* For the properties the code does not have
Ladders == {Matrix(LadderPlan, LadderOutcomes)}
Contrasts == {Matrix(ContrastPlan, ContrastOutcomes)}
Askings == {Matrix(WordingPlan, AskingOutcomes)}
Posts == {Matrix(PostPlan, PostOutcomes)}
===============================================================================
