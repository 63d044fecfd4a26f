------------------------------ MODULE Scoring_proofs ------------------------------
(* Proofs about the cells and their scores: the calls of a cell are bounded by *)
(* the dry run's estimate, it acts at most once and last, it acts only on an   *)
(* intent that is grounded, and its scores do not contradict each other.       *)
EXTENDS Scoring, SequenceTheorems, FiniteSetTheorems, WellFoundedInduction, TLAPS
-------------------------------------------------------------------------------
(* The plans of the cells outside the elicitation loop *)

Terminal == {"tools", "strict", "typed", "proposal"}
Asking == {"canonicalizer", "router", "stage", "handoff", "balanced", "drift"} \cup Terminal
BatchStages == Asking \cup {"gold", "rendering", "registry"}

\* One for a stage that asks no model.
Free(plan, i) == IF i \in DOMAIN plan /\ plan[i] \notin ModelStages THEN 1 ELSE 0
Cost(plan) == Len(plan) - Free(plan, 1) - Free(plan, 2)

\* The first stages of a plan, of which n ask a model.
Fine(plan, gold, n) ==
    /\ plan \in Seq(BatchStages)
    /\ \A i \in DOMAIN plan : plan[i] \in ModelStages \/ i \in 1..2
    /\ \A i \in DOMAIN plan : plan[i] = "gold" => gold
    /\ Cost(plan) = n

\* A stage that asks is one of a model, and not the injection of the gold intent.
LEMMA AskingStages == Asking \subseteq ModelStages \cap BatchStages /\ "gold" \notin Asking
BY DEF Asking, Terminal, ModelStages, BatchStages

\* Stages that all ask cost as many calls as there are.
LEMMA AskingFine == ASSUME NEW s \in Seq(Asking), NEW gold PROVE Fine(s, gold, Len(s))
<1>1. s \in Seq(BatchStages) /\ Len(s) \in Nat /\ DOMAIN s = 1..Len(s)
  BY AskingStages, LenProperties
<1>2. \A i \in DOMAIN s : s[i] \in Asking
  BY ElementOfSeq, LenProperties
<1>3. \A i \in DOMAIN s : s[i] \in ModelStages /\ s[i] # "gold"
  BY <1>2, AskingStages
<1>4. Free(s, 1) = 0 /\ Free(s, 2) = 0
  BY <1>3 DEF Free
<1>5. Cost(s) = Len(s)
  BY <1>1, <1>4 DEF Cost
<1> QED BY <1>1, <1>3, <1>5 DEF Fine

\* A plan goes on with stages that ask, at one call each.
LEMMA Extended ==
  ASSUME NEW plan, NEW gold, NEW n, Fine(plan, gold, n), NEW s \in Seq(Asking)
  PROVE  Fine(plan \o s, gold, n + Len(s))
<1>1. plan \in Seq(BatchStages) /\ s \in Seq(BatchStages)
  BY AskingStages DEF Fine
<1>2. /\ plan \o s \in Seq(BatchStages)
      /\ Len(plan \o s) = Len(plan) + Len(s)
      /\ \A i \in 1..Len(plan) + Len(s) :
            (plan \o s)[i] = IF i <= Len(plan) THEN plan[i] ELSE s[i - Len(plan)]
  BY <1>1, ConcatProperties
<1>3. /\ Len(plan) \in Nat /\ Len(s) \in Nat /\ DOMAIN plan = 1..Len(plan)
      /\ DOMAIN (plan \o s) = 1..Len(plan) + Len(s)
  BY <1>1, <1>2, LenProperties
<1>4. \A i \in 1..Len(s) : s[i] \in Asking
  BY ElementOfSeq
<1> DEFINE both == plan \o s
<1>5. \A i \in DOMAIN both : IF i <= Len(plan) THEN i \in DOMAIN plan /\ both[i] = plan[i]
                                               ELSE both[i] \in Asking
  BY <1>2, <1>3, <1>4
<1>6. DOMAIN plan \subseteq DOMAIN both
  BY <1>3
<1> HIDE DEF both
<1>7. Free(both, 1) = Free(plan, 1) /\ Free(both, 2) = Free(plan, 2)
  BY <1>3, <1>5, <1>6, AskingStages DEF Free
<1>8. Cost(both) = n + Len(s)
  <2>1. \A i : Free(plan, i) \in {0, 1}
    BY DEF Free
  <2>2. \A a, b \in Nat : \A c, d \in {0, 1} : (a + b) - c - d = (a - c - d) + b
    OBVIOUS
  <2>3. n = Len(plan) - Free(plan, 1) - Free(plan, 2)
    BY DEF Fine, Cost
  <2>4. Cost(both) = Len(plan) + Len(s) - Free(plan, 1) - Free(plan, 2)
    <3>1. Len(both) = Len(plan) + Len(s)
      BY <1>2 DEF both
    <3> QED BY <3>1, <1>3, <1>7, <2>1 DEF Cost
  <2> QED BY <1>3, <2>1, <2>2, <2>3, <2>4
<1>9. \A i \in DOMAIN both : both[i] \in ModelStages \/ i \in 1..2
  BY <1>5, AskingStages DEF Fine
<1>10. \A i \in DOMAIN both : both[i] = "gold" => gold
  BY <1>5, AskingStages DEF Fine
<1> QED BY <1>2, <1>8, <1>9, <1>10 DEF Fine, both

\* The three rounds of a loop.
LEMMA ThreeTimes ==
  ASSUME NEW s \in Seq(Asking)
  PROVE  Thrice(s) \in Seq(Asking) /\ Len(Thrice(s)) = 3 * Len(s)
<1>1. s \o s \in Seq(Asking) /\ Len(s \o s) = Len(s) + Len(s)
  BY ConcatProperties
<1>2. (s \o s) \o s \in Seq(Asking) /\ Len((s \o s) \o s) = Len(s \o s) + Len(s)
  BY <1>1, ConcatProperties
<1>3. Len(s) \in Nat
  BY LenProperties
<1> QED BY <1>1, <1>2, <1>3 DEF Thrice

\* A plan of a batch ends at an action boundary.
PlanFits(plan, gold, n) ==
    /\ Fine(plan, gold, n)
    /\ Len(plan) >= 1 /\ plan[Len(plan)] \in Terminal

\* A plan is complete with the stage of an action boundary.
LEMMA PlanEnds ==
  ASSUME NEW plan, NEW gold, NEW n, Fine(plan, gold, n), NEW t \in Terminal
  PROVE  PlanFits(plan \o <<t>>, gold, n + 1)
<1>1. <<t>> \in Seq(Asking) /\ Len(<<t>>) = 1 /\ <<t>>[1] = t
  BY DEF Asking
<1>2. Fine(plan \o <<t>>, gold, n + 1)
  BY <1>1, Extended
<1>3. plan \in Seq(BatchStages) /\ <<t>> \in Seq(BatchStages)
  BY <1>1, AskingStages DEF Fine
<1>4. /\ Len(plan \o <<t>>) = Len(plan) + 1
      /\ (plan \o <<t>>)[Len(plan) + 1] = t
  <2>1. /\ Len(plan \o <<t>>) = Len(plan) + Len(<<t>>)
        /\ \A i \in 1..Len(plan) + Len(<<t>>) :
              (plan \o <<t>>)[i] = IF i <= Len(plan) THEN plan[i] ELSE <<t>>[i - Len(plan)]
    BY <1>3, ConcatProperties
  <2>2. Len(plan) \in Nat
    BY <1>3, LenProperties
  <2>3. Len(plan) + 1 \in 1..Len(plan) + 1 /\ ~(Len(plan) + 1 <= Len(plan)) /\ Len(plan) + 1 - Len(plan) = 1
    BY <2>2
  <2> QED BY <1>1, <2>1, <2>3
<1>5. Len(plan) \in Nat
  BY <1>3, LenProperties
<1> QED BY <1>2, <1>4, <1>5 DEF PlanFits

\* Two stages, one after the other.
LEMMA Pair == ASSUME NEW a, NEW b PROVE <<a>> \o <<b>> = <<a, b>>
<1>1. <<a>> \in Seq({a, b}) /\ <<b>> \in Seq({a, b}) /\ <<a, b>> \in Seq({a, b})
  OBVIOUS
<1>2. /\ <<a>> \o <<b>> \in Seq({a, b})
      /\ Len(<<a>> \o <<b>>) = Len(<<a>>) + Len(<<b>>)
      /\ \A i \in 1..Len(<<a>>) + Len(<<b>>) :
            (<<a>> \o <<b>>)[i] = IF i <= Len(<<a>>) THEN <<a>>[i] ELSE <<b>>[i - Len(<<a>>)]
  BY <1>1, ConcatProperties
<1>3. Len(<<a>>) = 1 /\ Len(<<b>>) = 1 /\ Len(<<a, b>>) = 2
  OBVIOUS
<1>4. /\ Len(<<a>> \o <<b>>) = 2
      /\ (<<a>> \o <<b>>)[1] = a /\ (<<a>> \o <<b>>)[2] = b
  BY <1>2, <1>3
<1>5. \A i \in 1..2 : (<<a>> \o <<b>>)[i] = <<a, b>>[i]
  BY <1>4
<1> QED BY <1>1, <1>2, <1>3, <1>4, <1>5, SeqEqual

\* A plan starts with one or two stages that may be free.
LEMMA Starts ==
  ASSUME NEW gold \in BOOLEAN
  PROVE  /\ gold => Fine(<<"gold">>, gold, 0)
         /\ Fine(<<"canonicalizer">>, gold, 1)
         /\ \A r \in {"rendering", "registry"} :
               /\ gold => Fine(<<"gold">> \o <<r>>, gold, 0)
               /\ Fine(<<"canonicalizer">> \o <<r>>, gold, 1)
<1>1. ASSUME NEW b \in {"gold", "canonicalizer"}, (b = "gold") => gold
      PROVE  Fine(<<b>>, gold, IF b = "gold" THEN 0 ELSE 1)
  <2>1. <<b>> \in Seq(BatchStages) /\ Len(<<b>>) = 1 /\ DOMAIN <<b>> = {1} /\ <<b>>[1] = b
    BY DEF BatchStages, Asking
  <2>2. b \in ModelStages <=> b # "gold"
    BY DEF ModelStages
  <2>3. Cost(<<b>>) = IF b = "gold" THEN 0 ELSE 1
    BY <2>1, <2>2 DEF Cost, Free
  <2> QED BY <1>1, <2>1, <2>2, <2>3 DEF Fine
<1>2. ASSUME NEW b \in {"gold", "canonicalizer"}, (b = "gold") => gold,
             NEW r \in {"rendering", "registry"}
      PROVE  Fine(<<b>> \o <<r>>, gold, IF b = "gold" THEN 0 ELSE 1)
  <2>1. <<b>> \o <<r>> = <<b, r>>
    BY Pair
  <2>2. /\ <<b, r>> \in Seq(BatchStages) /\ Len(<<b, r>>) = 2 /\ DOMAIN <<b, r>> = {1, 2}
        /\ <<b, r>>[1] = b /\ <<b, r>>[2] = r
    BY DEF BatchStages, Asking
  <2>3. (b \in ModelStages <=> b # "gold") /\ r \notin ModelStages /\ r # "gold"
    BY DEF ModelStages
  <2>4. Cost(<<b, r>>) = IF b = "gold" THEN 0 ELSE 1
    BY <2>2, <2>3 DEF Cost, Free
  <2>5. \A i \in {1, 2} : i \in 1..2
    OBVIOUS
  <2>6. Fine(<<b, r>>, gold, IF b = "gold" THEN 0 ELSE 1)
    BY <1>2, <2>2, <2>3, <2>4, <2>5 DEF Fine
  <2> QED BY <2>1, <2>6
<1> QED BY <1>1, <1>2

\* What the plan of a kind of cell fits into.
PlanOfKind(k) ==
    /\ EstimatedInvocations(k) \in Nat
    /\ \E n \in Nat : n <= EstimatedInvocations(k) /\ PlanFits(Plan(k), k.intent = "gold", n)

\* The boundary asks unless its intent is injected.
LEMMA BoundaryFine ==
  ASSUME NEW k \in Kinds
  PROVE  LET n == IF k.intent = "gold" THEN 0 ELSE 1
         IN  /\ Fine(Boundary(k), k.intent = "gold", n)
             /\ \A r \in {"rendering", "registry"} : Fine(Boundary(k) \o <<r>>, k.intent = "gold", n)
BY Starts DEF Boundary

\* The table of the dry run, by the sets of architectures.
LEMMA Table ==
  /\ \A a \in Direct \cup PostCanonical \cup (Memory \ {"M3_CANONICAL_RESOLVER"})
            \cup {"P0_RAW_PROPOSAL", "P1_CLARIFY_PROPOSAL", "P2F_CANONICAL_FACTS_PROPOSAL"} :
        InvocationsPerArch(a) = 1
  /\ \A a \in {"M3_CANONICAL_RESOLVER", "B_RUNTIME", "C_RUNTIME", "P2_CANONICAL_PROPOSAL",
               "P3_CANONICAL_PROCEDURE_PROPOSAL", "P4_CANONICAL_PROCEDURE_TOOL"} :
        InvocationsPerArch(a) = 2
  /\ \A a \in Prose : InvocationsPerArch(a) = 7
  /\ \A a \in Balanced \cup {"LP1_CANONICAL_ONCE", "LP2_CANONICAL_PROCEDURE",
                             "LP3_CANONICAL_PROCEDURE_TOOL", "AL_RAW"} : InvocationsPerArch(a) = 4
  /\ \A a \in {"AL_CANONICAL", "AL_RENDERED"} : InvocationsPerArch(a) = 5
  /\ InvocationsPerArch("AL_DRIFT") = 8
<1> USE DEF InvocationsPerArch, Direct, PostCanonical, Memory, Prose, Balanced
<1>1. \A a \in Direct \cup PostCanonical \cup (Memory \ {"M3_CANONICAL_RESOLVER"})
            \cup {"P0_RAW_PROPOSAL", "P1_CLARIFY_PROPOSAL", "P2F_CANONICAL_FACTS_PROPOSAL"} :
        InvocationsPerArch(a) = 1
  OBVIOUS
<1>2. \A a \in {"M3_CANONICAL_RESOLVER", "B_RUNTIME", "C_RUNTIME", "P2_CANONICAL_PROPOSAL",
               "P3_CANONICAL_PROCEDURE_PROPOSAL", "P4_CANONICAL_PROCEDURE_TOOL"} :
        InvocationsPerArch(a) = 2
  OBVIOUS
<1>3. \A a \in Prose : InvocationsPerArch(a) = 7
  OBVIOUS
<1>4. \A a \in Balanced \cup {"LP1_CANONICAL_ONCE", "LP2_CANONICAL_PROCEDURE",
                             "LP3_CANONICAL_PROCEDURE_TOOL", "AL_RAW"} : InvocationsPerArch(a) = 4
  OBVIOUS
<1>5. \A a \in {"AL_CANONICAL", "AL_RENDERED"} : InvocationsPerArch(a) = 5
  OBVIOUS
<1>6. InvocationsPerArch("AL_DRIFT") = 8
  OBVIOUS
<1> QED BY <1>1, <1>2, <1>3, <1>4, <1>5, <1>6

\* Stages that ask, written out.
LEMMA Askers ==
  /\ \A s \in Asking : <<s>> \in Seq(Asking) /\ Len(<<s>>) = 1
  /\ \A s, t \in Asking : <<s, t>> \in Seq(Asking) /\ Len(<<s, t>>) = 2
OBVIOUS

\* Three stages, and three times two.
LEMMA Thirds ==
  /\ \A s \in Asking : Thrice(<<s>>) \in Seq(Asking) /\ Len(Thrice(<<s>>)) = 3
  /\ \A s, t \in Asking : Thrice(<<s, t>>) \in Seq(Asking) /\ Len(Thrice(<<s, t>>)) = 6
<1>1. ASSUME NEW s \in Seq(Asking), NEW n \in Nat, Len(s) = n
      PROVE  Thrice(s) \in Seq(Asking) /\ Len(Thrice(s)) = 3 * n
  BY <1>1, ThreeTimes
<1>2. ASSUME NEW s \in Asking
      PROVE  Thrice(<<s>>) \in Seq(Asking) /\ Len(Thrice(<<s>>)) = 3
  <2>1. <<s>> \in Seq(Asking) /\ Len(<<s>>) = 1 /\ 1 \in Nat /\ 3 * 1 = 3
    BY Askers
  <2> QED BY <1>1, <2>1
<1>3. ASSUME NEW s \in Asking, NEW t \in Asking
      PROVE  Thrice(<<s, t>>) \in Seq(Asking) /\ Len(Thrice(<<s, t>>)) = 6
  <2>1. <<s, t>> \in Seq(Asking) /\ Len(<<s, t>>) = 2 /\ 2 \in Nat /\ 3 * 2 = 6
    BY Askers
  <2> QED BY <1>1, <2>1
<1> QED BY <1>2, <1>3

\* The plans of a boundary, with n = 0 when its intent is injected: straight to the
\* action, over a rendering or a procedure, or over stages that ask.
LEMMA PlansOverBoundary ==
  ASSUME NEW k \in Kinds, NEW t \in Terminal
  PROVE  LET n == IF k.intent = "gold" THEN 0 ELSE 1
             gold == k.intent = "gold"
         IN  /\ PlanFits(Boundary(k) \o <<t>>, gold, n + 1)
             /\ \A r \in {"rendering", "registry"} :
                   PlanFits(Boundary(k) \o <<r>> \o <<t>>, gold, n + 1)
             /\ \A s \in Seq(Asking) : PlanFits(Boundary(k) \o s \o <<t>>, gold, n + Len(s) + 1)
             /\ \A s \in Seq(Asking) :
                   PlanFits(Boundary(k) \o <<"rendering">> \o s \o <<t>>, gold, n + Len(s) + 1)
<1> DEFINE n == IF k.intent = "gold" THEN 0 ELSE 1
           gold == k.intent = "gold"
<1>1. /\ Fine(Boundary(k), gold, n)
      /\ \A r \in {"rendering", "registry"} : Fine(Boundary(k) \o <<r>>, gold, n)
  BY BoundaryFine
<1> HIDE DEF gold, n
<1>2. \A s \in Seq(Asking) :
         /\ Fine(Boundary(k) \o s, gold, n + Len(s))
         /\ Fine((Boundary(k) \o <<"rendering">>) \o s, gold, n + Len(s))
  BY <1>1, Extended
<1>3. PlanFits(Boundary(k) \o <<t>>, gold, n + 1)
  BY <1>1, PlanEnds
<1>4. \A r \in {"rendering", "registry"} :
         PlanFits((Boundary(k) \o <<r>>) \o <<t>>, gold, n + 1)
  BY <1>1, PlanEnds
<1>5. \A s \in Seq(Asking) :
         /\ PlanFits((Boundary(k) \o s) \o <<t>>, gold, n + Len(s) + 1)
         /\ PlanFits(((Boundary(k) \o <<"rendering">>) \o s) \o <<t>>, gold, n + Len(s) + 1)
  BY <1>2, PlanEnds
<1> QED BY <1>3, <1>4, <1>5 DEF n, gold

\* The stages of the action boundaries, and those that ask, belong where they are used.
LEMMA Members ==
  /\ "tools" \in Terminal /\ "strict" \in Terminal /\ "typed" \in Terminal /\ "proposal" \in Terminal
  /\ Terminal \subseteq Asking
  /\ "stage" \in Asking /\ "handoff" \in Asking /\ "balanced" \in Asking /\ "drift" \in Asking
  /\ "router" \in Asking
BY DEF Terminal, Asking

\* A plan that asks at every stage.
LEMMA PlansThatAsk ==
  ASSUME NEW t \in Terminal, NEW gold
  PROVE  /\ PlanFits(<<t>>, gold, 1)
         /\ \A s \in Seq(Asking) : PlanFits(s \o <<t>>, gold, Len(s) + 1)
<1>1. ASSUME NEW s \in Seq(Asking) PROVE PlanFits(s \o <<t>>, gold, Len(s) + 1)
  BY AskingFine, PlanEnds
<1>2. <<t>> \in Seq(Asking) /\ Len(<<t>>) = 1 /\ <<t>>[1] = t
  BY Members
<1>3. Fine(<<t>>, gold, 1)
  BY <1>2, AskingFine
<1> QED BY <1>1, <1>2, <1>3 DEF PlanFits

\* Cells of one boundary, and of a memory.
LEMMA BoundaryPlans ==
  ASSUME NEW k \in Kinds, k.track \in {"boundary", "memory_ablation", "post_canonical"}
  PROVE  PlanOfKind(k)
<1>1. /\ k.selection = "none"
      /\ k.arch \in Direct \cup Memory \cup {"B_RUNTIME", "C_RUNTIME"} \cup PostCanonical
      /\ (k.intent = "gold") = (k.arch \in PostCanonical)
  BY DEF Kinds, Kind, Direct, Memory, PostCanonical
<1>2. CASE k.arch \in (Direct \cup Memory) \ {"M3_CANONICAL_RESOLVER"}
  <2>1. Plan(k) = <<"tools">>
    BY <1>2 DEF Plan
  <2>2. EstimatedInvocations(k) = 1
    <3>1. InvocationsPerArch(k.arch) = 1
      BY <1>2, Table
    <3> QED BY <1>1, <1>2, <3>1 DEF EstimatedInvocations, Direct, Memory
  <2> QED BY <2>1, <2>2, Members, PlansThatAsk DEF PlanOfKind
<1>3. CASE k.arch \in {"M3_CANONICAL_RESOLVER", "B_RUNTIME", "C_RUNTIME"} \cup PostCanonical
  <2> DEFINE n == IF k.intent = "gold" THEN 0 ELSE 1
  <2>1. Plan(k) = Canonical(k)
    BY <1>3 DEF Plan, Direct, Memory, PostCanonical
  <2>2. EstimatedInvocations(k) = n + 1
    <3>1. InvocationsPerArch(k.arch) = IF k.arch \in PostCanonical THEN 1 ELSE 2
      BY <1>3, Table DEF PostCanonical
    <3> QED BY <1>1, <1>3, <3>1 DEF EstimatedInvocations, PostCanonical
  <2>3. PlanFits(Canonical(k), k.intent = "gold", n + 1)
    <3>1. /\ PlanFits(Boundary(k) \o <<"tools">>, k.intent = "gold", n + 1)
          /\ PlanFits(Boundary(k) \o <<"rendering">> \o <<"tools">>, k.intent = "gold", n + 1)
      BY PlansOverBoundary, Members
    <3>2. <<"rendering">> \o <<"tools">> = <<"rendering", "tools">>
      BY Pair
    <3>3. /\ Boundary(k) \in Seq(BatchStages) /\ <<"rendering">> \in Seq(BatchStages)
          /\ <<"tools">> \in Seq(BatchStages)
      BY BoundaryFine, Members, AskingStages DEF Fine, BatchStages
    <3>4. Boundary(k) \o <<"rendering">> \o <<"tools">> = Boundary(k) \o <<"rendering", "tools">>
      BY <3>2, <3>3, ConcatAssociative
    <3> QED BY <3>1, <3>4 DEF Canonical
  <2> QED BY <2>1, <2>2, <2>3 DEF PlanOfKind
<1> QED BY <1>1, <1>2, <1>3

\* Proposals, with a formal procedure or without.
LEMMA FormalizationPlans ==
  ASSUME NEW k \in Kinds, k.track = "formalization"
  PROVE  PlanOfKind(k)
<1> DEFINE n == IF k.intent = "gold" THEN 0 ELSE 1
           gold == k.intent = "gold"
<1>1. \/ /\ k.arch \in {"P0_RAW_PROPOSAL", "P1_CLARIFY_PROPOSAL"}
         /\ k.intent = "none" /\ k.selection = "none"
      \/ /\ k.arch \in {"P2_CANONICAL_PROPOSAL", "P3_CANONICAL_PROCEDURE_PROPOSAL",
                         "P4_CANONICAL_PROCEDURE_TOOL"}
         /\ k.selection \in {"none", "gold"}
      \/ /\ k.arch = "P3_CANONICAL_PROCEDURE_PROPOSAL" /\ k.intent = "gold"
         /\ k.selection = "runtime"
      \/ /\ k.arch = "P2F_CANONICAL_FACTS_PROPOSAL" /\ k.intent = "gold"
         /\ k.selection = "gold"
  BY DEF Kinds, Kind
<1>2. Plan(k) = Formalization(k)
  BY <1>1 DEF Plan, Direct, Memory
<1>3. /\ PlanFits(<<"proposal">>, gold, 1)
      /\ PlanFits(Boundary(k) \o <<"proposal">>, gold, n + 1)
      /\ PlanFits(Boundary(k) \o <<"registry">> \o <<"proposal">>, gold, n + 1)
      /\ PlanFits(Boundary(k) \o <<"registry">> \o <<"typed">>, gold, n + 1)
      /\ PlanFits(Boundary(k) \o <<"router">> \o <<"proposal">>, gold, n + 1 + 1)
  BY PlansThatAsk, PlansOverBoundary, Members, Askers
<1> HIDE DEF gold
<1>4. CASE k.arch \in {"P0_RAW_PROPOSAL", "P1_CLARIFY_PROPOSAL"}
  <2>1. Formalization(k) = <<"proposal">>
    BY <1>4 DEF Formalization
  <2>2. EstimatedInvocations(k) = 1
    <3>1. InvocationsPerArch(k.arch) = 1
      BY <1>4, Table
    <3> QED BY <1>1, <1>4, <3>1 DEF EstimatedInvocations
  <2> QED BY <1>2, <1>3, <2>1, <2>2 DEF PlanOfKind, gold
<1>5. CASE /\ k.arch \in {"P2_CANONICAL_PROPOSAL", "P3_CANONICAL_PROCEDURE_PROPOSAL",
                          "P4_CANONICAL_PROCEDURE_TOOL"}
           /\ k.selection \in {"none", "gold"}
  <2>1. PlanFits(Formalization(k), gold, n + 1)
    BY <1>3, <1>5 DEF Formalization
  <2>2. EstimatedInvocations(k) = n + 1
    <3>1. InvocationsPerArch(k.arch) = 2
      BY <1>5, Table
    <3> QED BY <1>5, <3>1 DEF EstimatedInvocations
  <2> QED BY <1>2, <2>1, <2>2 DEF PlanOfKind, gold
<1>6. CASE /\ k.arch = "P3_CANONICAL_PROCEDURE_PROPOSAL" /\ k.intent = "gold"
           /\ k.selection = "runtime"
  <2>1. PlanFits(Formalization(k), gold, n + 1 + 1)
    BY <1>3, <1>6 DEF Formalization
  <2>2. EstimatedInvocations(k) = 2 /\ n = 0
    <3>1. InvocationsPerArch(k.arch) = 2
      BY <1>6, Table
    <3> QED BY <1>6, <3>1 DEF EstimatedInvocations
  <2> QED BY <1>2, <2>1, <2>2 DEF PlanOfKind, gold
<1>7. CASE /\ k.arch = "P2F_CANONICAL_FACTS_PROPOSAL" /\ k.intent = "gold"
           /\ k.selection = "gold"
  <2>1. PlanFits(Formalization(k), gold, n + 1)
    BY <1>3, <1>7 DEF Formalization
  <2>2. EstimatedInvocations(k) = 1 /\ n = 0
    <3>1. InvocationsPerArch(k.arch) = 1
      BY <1>7, Table
    <3> QED BY <1>7, <3>1 DEF EstimatedInvocations
  <2> QED BY <1>2, <2>1, <2>2 DEF PlanOfKind, gold
<1> QED BY <1>1, <1>4, <1>5, <1>6, <1>7

\* Language that persists over stages.
LEMMA PersistencePlans ==
  ASSUME NEW k \in Kinds, k.track = "persistence"
  PROVE  PlanOfKind(k)
<1> DEFINE n == IF k.intent = "gold" THEN 0 ELSE 1
           gold == k.intent = "gold"
<1>1. \/ k.arch \in Prose \cup Balanced /\ k.selection = "none"
      \/ k.arch = "LP1_CANONICAL_ONCE" /\ k.intent \in {"runtime", "gold"} /\ k.selection = "none"
      \/ /\ k.arch \in {"LP2_CANONICAL_PROCEDURE", "LP3_CANONICAL_PROCEDURE_TOOL"}
         /\ k.intent = "gold" /\ k.selection = "gold"
  BY DEF Kinds, Kind, Prose
<1>2. Plan(k) = Persistence(k)
  BY <1>1 DEF Plan, Direct, Memory, Prose, Balanced
<1>3. /\ PlanFits(Thrice(<<"stage", "handoff">>) \o <<"proposal">>, gold, 6 + 1)
      /\ PlanFits(Thrice(<<"balanced">>) \o <<"proposal">>, gold, 3 + 1)
  BY PlansThatAsk, Members, Thirds
<1>4. /\ PlanFits(Boundary(k) \o Thrice(<<"stage">>) \o <<"proposal">>, gold, n + 3 + 1)
      /\ PlanFits(Boundary(k) \o Thrice(<<"stage">>) \o <<"strict">>, gold, n + 3 + 1)
  BY PlansOverBoundary, Members, Thirds
<1> HIDE DEF gold
<1>5. CASE k.arch \in Prose
  <2>1. PlanFits(Persistence(k), gold, 6 + 1)
    BY <1>3, <1>5 DEF Persistence, Prose, Balanced
  <2>2. EstimatedInvocations(k) = 7
    <3>1. InvocationsPerArch(k.arch) = 7
      BY <1>5, Table
    <3> QED BY <1>1, <1>5, <3>1 DEF EstimatedInvocations, Prose
  <2> QED BY <1>2, <2>1, <2>2 DEF PlanOfKind, gold
<1>6. CASE k.arch \in Balanced
  <2>1. PlanFits(Persistence(k), gold, 3 + 1)
    BY <1>3, <1>6 DEF Persistence, Prose, Balanced
  <2>2. EstimatedInvocations(k) = 4
    <3>1. InvocationsPerArch(k.arch) = 4
      BY <1>6, Table
    <3> QED BY <1>1, <1>6, <3>1 DEF EstimatedInvocations, Balanced
  <2> QED BY <1>2, <2>1, <2>2 DEF PlanOfKind, gold
<1>7. CASE k.arch \in {"LP1_CANONICAL_ONCE", "LP2_CANONICAL_PROCEDURE", "LP3_CANONICAL_PROCEDURE_TOOL"}
  <2>1. PlanFits(Persistence(k), gold, n + 3 + 1)
    BY <1>4, <1>7 DEF Persistence, Prose, Balanced
  <2>2. EstimatedInvocations(k) = n + 3 + 1
    <3>1. InvocationsPerArch(k.arch) = 4
      BY <1>7, Table
    <3>2. k.arch # "LP1_CANONICAL_ONCE" => k.intent = "gold" /\ k.selection = "gold"
      BY <1>1, <1>7 DEF Prose, Balanced
    <3>3. k.arch = "LP1_CANONICAL_ONCE" => k.intent \in {"runtime", "gold"} /\ k.selection = "none"
      BY <1>1, <1>7 DEF Prose, Balanced
    <3> QED BY <1>7, <3>1, <3>2, <3>3 DEF EstimatedInvocations
  <2> QED BY <1>2, <2>1, <2>2 DEF PlanOfKind, gold
<1> QED BY <1>1, <1>5, <1>6, <1>7

\* The stages of an agent loop.
LEMMA LoopPlans ==
  ASSUME NEW k \in Kinds, k.track = "agent_loop"
  PROVE  PlanOfKind(k)
<1> DEFINE n == IF k.intent = "gold" THEN 0 ELSE 1
           gold == k.intent = "gold"
<1>1. /\ k.arch = "AL_RAW" \/ k.arch \in AgentLoop
      /\ k.selection = "none"
  BY DEF Kinds, Kind
<1>2. Plan(k) = Loop(k)
  BY <1>1 DEF Plan, Direct, Memory, AgentLoop
<1>3. PlanFits(Thrice(<<"stage">>) \o <<"tools">>, gold, 3 + 1)
  BY PlansThatAsk, Members, Thirds
<1>4. /\ PlanFits(Boundary(k) \o Thrice(<<"stage">>) \o <<"tools">>, gold, n + 3 + 1)
      /\ PlanFits(Boundary(k) \o Thrice(<<"stage", "drift">>) \o <<"tools">>, gold, n + 6 + 1)
      /\ PlanFits(Boundary(k) \o <<"rendering">> \o Thrice(<<"stage">>) \o <<"tools">>, gold, n + 3 + 1)
  BY PlansOverBoundary, Members, Thirds
<1> HIDE DEF gold
<1>5. CASE k.arch = "AL_RAW"
  <2>1. PlanFits(Loop(k), gold, 3 + 1)
    BY <1>3, <1>5 DEF Loop
  <2>2. EstimatedInvocations(k) = 4
    <3>1. InvocationsPerArch(k.arch) = 4
      BY <1>5, Table
    <3> QED BY <1>1, <1>5, <3>1 DEF EstimatedInvocations
  <2> QED BY <1>2, <2>1, <2>2 DEF PlanOfKind, gold
<1>6. CASE k.arch = "AL_DRIFT"
  <2>1. PlanFits(Loop(k), gold, n + 6 + 1)
    BY <1>4, <1>6 DEF Loop
  <2>2. EstimatedInvocations(k) = 8
    <3>1. InvocationsPerArch(k.arch) = 8
      BY <1>6, Table
    <3> QED BY <1>1, <1>6, <3>1 DEF EstimatedInvocations
  <2> QED BY <1>2, <2>1, <2>2 DEF PlanOfKind, gold
<1>7. CASE k.arch \in {"AL_CANONICAL", "AL_RENDERED"}
  <2>1. PlanFits(Loop(k), gold, n + 3 + 1)
    BY <1>4, <1>7 DEF Loop
  <2>2. EstimatedInvocations(k) = 5
    <3>1. InvocationsPerArch(k.arch) = 5
      BY <1>7, Table
    <3> QED BY <1>1, <1>7, <3>1 DEF EstimatedInvocations
  <2> QED BY <1>2, <2>1, <2>2 DEF PlanOfKind, gold
<1> QED BY <1>1, <1>5, <1>6, <1>7 DEF AgentLoop

\* Every cell outside the elicitation loop has a plan its estimate covers.
LEMMA EveryPlanFits ==
  ASSUME NEW k \in Kinds, k.track # "intent_elicitation"
  PROVE  PlanOfKind(k)
<1>1. k.track \in {"boundary", "memory_ablation", "post_canonical", "formalization",
                   "persistence", "agent_loop"}
  BY DEF Kinds, Kind
<1> QED BY <1>1, BoundaryPlans, FormalizationPlans, PersistencePlans, LoopPlans
-------------------------------------------------------------------------------
(* The effects of a call *)

\* What holds at first and goes on to hold holds of every number up to n.
LEMMA StepByStep ==
  ASSUME NEW n \in Nat, NEW S, 0 \in S, \A i \in 1..n : i - 1 \in S => i \in S
  PROVE  \A i \in 0..n : i \in S
<1> SUFFICES ASSUME NEW x \in 0..n, x \notin S PROVE FALSE
  OBVIOUS
<1> DEFINE Below(i) == 0..i
           T == {Below(i) : i \in {j \in 0..n : j \notin S}}
<1>1. \A i \in Nat : Below(i) \in FiniteSubsetsOf(Nat)
  BY FS_Interval DEF FiniteSubsetsOf
<1>2. T \subseteq FiniteSubsetsOf(Nat) /\ T # {}
  BY <1>1
<1>3. PICK U \in T : \A V \in T : ~(<<V, U>> \in StrictSubsetOrdering(Nat))
  BY <1>2, FS_StrictSubsetOrderingWellFounded, WFMin
<1>4. PICK m \in 0..n : m \notin S /\ U = Below(m)
  OBVIOUS
<1>5. m \in 1..n /\ m - 1 \notin S /\ m - 1 \in 0..n
  BY <1>4
<1>6. Below(m - 1) \subseteq Below(m) /\ Below(m - 1) # Below(m)
  <2>1. m \in Below(m) /\ m \notin Below(m - 1)
    BY <1>5
  <2> QED BY <1>5, <2>1
<1>7. Below(m - 1) \in T /\ <<Below(m - 1), Below(m)>> \in StrictSubsetOrdering(Nat)
  BY <1>1, <1>5, <1>6 DEF StrictSubsetOrdering
<1> QED BY <1>3, <1>4, <1>7

\* after has what the effects up to each have done.
Chain(op, record, args, n, after) ==
    after = [i \in 0..n |-> IF i = 0 THEN [record |-> record, raised |-> FALSE]
                            ELSE ApplyEffect(op, args, after[i - 1], op.effects[i])]

\* The effects of a call are made one after the other.
LEMMA EffectsInOrder ==
  ASSUME NEW op, NEW record, NEW args, Len(op.effects) \in Nat
  PROVE  \E after :
            /\ Chain(op, record, args, Len(op.effects), after)
            /\ AfterEffects(op, record, args) = after[Len(op.effects)]
<1> DEFINE N == Len(op.effects)
           start == [record |-> record, raised |-> FALSE]
           good == {n \in 0..N : \E after : Chain(op, record, args, n, after)}
<1>1. 0 \in good
  <2>1. Chain(op, record, args, 0, [i \in 0..0 |-> start])
    BY DEF Chain
  <2> QED BY <2>1
<1>2. ASSUME NEW n \in 1..N, n - 1 \in good PROVE n \in good
  <2>1. PICK before : Chain(op, record, args, n - 1, before)
    BY <1>2
  <2> DEFINE last == ApplyEffect(op, args, before[n - 1], op.effects[n])
             after == [i \in 0..n |-> IF i = n THEN last ELSE before[i]]
  <2>2. \A i \in 0..n - 1 : /\ after[i] = before[i]
                            /\ before[i] = IF i = 0 THEN start
                                           ELSE ApplyEffect(op, args, before[i - 1], op.effects[i])
    <3> HIDE DEF last
    <3>1. \A i \in 0..n - 1 : after[i] = before[i]
      OBVIOUS
    <3>2. \A i \in 0..n - 1 : before[i] = IF i = 0 THEN start
                                           ELSE ApplyEffect(op, args, before[i - 1], op.effects[i])
      <4> DEFINE F == [i \in 0..n - 1 |-> IF i = 0 THEN start ELSE ApplyEffect(op, args, before[i - 1], op.effects[i])]
      <4>1. before = F
        BY <2>1 DEF Chain
      <4>2. \A i \in 0..n - 1 : F[i] = IF i = 0 THEN start ELSE ApplyEffect(op, args, before[i - 1], op.effects[i])
        OBVIOUS
      <4> HIDE DEF F, start
      <4> QED BY <4>1, <4>2
    <3> QED BY <3>1, <3>2
  <2>3. after[n] = last
    OBVIOUS
  <2>4. \A i \in 0..n : after[i] = IF i = 0 THEN start ELSE ApplyEffect(op, args, after[i - 1], op.effects[i])
    <3> SUFFICES ASSUME NEW i \in 0..n
                 PROVE  after[i] = IF i = 0 THEN start ELSE ApplyEffect(op, args, after[i - 1], op.effects[i])
      OBVIOUS
    <3>1. CASE i = n
      <4>1. i # 0 /\ n - 1 \in 0..n - 1 /\ i - 1 = n - 1
        BY <3>1
      <4>2. after[i - 1] = before[n - 1]
        BY <2>2, <4>1
      <4> HIDE DEF after
      <4> QED BY <2>3, <3>1, <4>1, <4>2
    <3>2. CASE i # n
      <4>1. i \in 0..n - 1 /\ (i # 0 => i - 1 \in 0..n - 1)
        BY <3>2
      <4> HIDE DEF after, start
      <4> QED BY <2>2, <4>1
    <3> QED BY <3>1, <3>2
  <2>5. DOMAIN after = 0..n /\ after = [i \in 0..n |-> after[i]]
    OBVIOUS
  <2> HIDE DEF after, start
  <2>6. Chain(op, record, args, n, after)
    <3> DEFINE F == [i \in 0..n |-> IF i = 0 THEN start ELSE ApplyEffect(op, args, after[i - 1], op.effects[i])]
    <3>1. \A i \in 0..n : F[i] = after[i]
      BY <2>4
    <3>2. F = [i \in 0..n |-> F[i]]
      OBVIOUS
    <3>3. F = after
      <4> HIDE DEF F
      <4> QED BY <2>5, <3>1, <3>2
    <3> QED BY <3>3 DEF Chain, start
  <2> QED BY <2>6
<1> HIDE DEF good
<1>3. N \in good
  <2>1. \A i \in 0..N : i \in good
    BY <1>1, <1>2, StepByStep
  <2> QED BY <2>1
<1>4. PICK after : after = CHOOSE g : Chain(op, record, args, N, g)
  OBVIOUS
<1>5. Chain(op, record, args, N, after)
  BY <1>3, <1>4 DEF good
<1>6. AfterEffects(op, record, args) = (CHOOSE g : Chain(op, record, args, N, g))[N]
  BY DEF AfterEffects, Chain
<1> QED BY <1>4, <1>5, <1>6

\* What can be found under the name of an argument, and in a field of the record.
Given(args, n) ==
    IF n = "run_clock" THEN Clock ELSE IF n \in DOMAIN args THEN args[n] ELSE Unresolved
Found(record, f) == IF f \in DOMAIN record THEN record[f] ELSE Unresolved

\* The scope of a call resolves both.
LEMMA ScopeOfCall ==
  ASSUME NEW op, NEW record, NEW args
  PROVE  /\ \A n : Operand(Scope(op, record, args), Argument(n)) = Given(args, n)
         /\ \A f : Operand(Scope(op, record, args), [kind |-> "path", path |-> <<op.alias, f>>])
                     = Found(record, f)
<1> DEFINE Names == {<<n>> : n \in DOMAIN args}
           Shown == {<<op.alias, f>> : f \in DOMAIN record}
           paths == Names \cup Shown \cup {<<"run_clock">>}
           scope == Scope(op, record, args)
<1>1. /\ DOMAIN scope = paths
      /\ \A p \in paths : scope[p] =
           CASE p = <<"run_clock">> -> Clock
             [] Len(p) = 1 /\ p # <<"run_clock">> -> args[p[1]]
             [] Len(p) = 2 -> record[p[2]]
  BY DEF Scope
<1> HIDE DEF scope
<1>2. ASSUME NEW n PROVE Operand(scope, Argument(n)) = Given(args, n)
  <2>1. Operand(scope, Argument(n)) = IF <<n>> \in paths THEN scope[<<n>>] ELSE Unresolved
    BY <1>1 DEF Operand, Argument
  <2>2. Len(<<n>>) = 1 /\ <<n>>[1] = n
    OBVIOUS
  <2>3. <<n>> \in paths <=> n \in DOMAIN args \/ n = "run_clock"
    <3>1. <<n>> \notin Shown
      OBVIOUS
    <3>2. <<n>> \in Names <=> n \in DOMAIN args
      OBVIOUS
    <3>3. <<n>> = <<"run_clock">> <=> n = "run_clock"
      OBVIOUS
    <3> QED BY <3>1, <3>2, <3>3
  <2>4. <<n>> = <<"run_clock">> <=> n = "run_clock"
    OBVIOUS
  <2> HIDE DEF paths
  <2> QED BY <1>1, <2>1, <2>2, <2>3, <2>4 DEF Given
<1>3. ASSUME NEW f
      PROVE  Operand(scope, [kind |-> "path", path |-> <<op.alias, f>>]) = Found(record, f)
  <2>1. Operand(scope, [kind |-> "path", path |-> <<op.alias, f>>])
          = IF <<op.alias, f>> \in paths THEN scope[<<op.alias, f>>] ELSE Unresolved
    BY <1>1 DEF Operand
  <2>2. Len(<<op.alias, f>>) = 2 /\ <<op.alias, f>>[2] = f /\ <<op.alias, f>> # <<"run_clock">>
    OBVIOUS
  <2>3. <<op.alias, f>> \in paths <=> f \in DOMAIN record
    <3>1. <<op.alias, f>> \notin Names
      OBVIOUS
    <3>2. <<op.alias, f>> \in Shown <=> f \in DOMAIN record
      OBVIOUS
    <3> QED BY <2>2, <3>1, <3>2
  <2> HIDE DEF paths
  <2> QED BY <1>1, <2>1, <2>2, <2>3 DEF Found
<1> QED BY <1>2, <1>3 DEF scope

\* What an effect leaves in its field
Left(record, args, e) ==
    IF e.op = "=" THEN IF e.value.kind = "lit" THEN e.value.value ELSE Given(args, e.value.path[1])
    ELSE IF Found(record, e.field) # Unresolved /\ IsNumeric(Found(record, e.field))
    THEN <<Found(record, e.field)[1], NumberOf(Found(record, e.field)) + e.value.value[2]>>
    ELSE Unresolved

\* What the effects so far have left, when one has raised or none has.
Stopped(r) == [record |-> r, raised |-> TRUE]
Going(r) == [record |-> r, raised |-> FALSE]

\* What each has done so far can be read off it.
LEMMA GoingOn ==
  \A r : Stopped(r).record = r /\ Stopped(r).raised /\ Going(r).record = r /\ ~Going(r).raised
BY DEF Stopped, Going

\* A record with v in the field f
Written(r, f, v) == [g \in DOMAIN r \cup {f} |-> IF g = f THEN v ELSE r[g]]

\* An effect of a plain contract raises or writes that into its field, and nothing else.
LEMMA EffectMade ==
  ASSUME NEW op, PlainContract(op), NEW e \in Effects(op), NEW r, NEW args
  PROVE  LET v == Left(r, args, e)
         IN  /\ ApplyEffect(op, args, Stopped(r), e) = Stopped(r)
             /\ v = Unresolved => ApplyEffect(op, args, Going(r), e) = Stopped(r)
             /\ v # Unresolved => ApplyEffect(op, args, Going(r), e) =
                  Going(Written(r, e.field, v))
<1> DEFINE scope == Scope(op, r, args)
           now == Operand(scope, [kind |-> "path", path |-> <<op.alias, e.field>>])
           v == IF e.op = "=" THEN Operand(scope, e.value)
                ELSE IF now # Unresolved /\ IsNumeric(now)
                THEN <<now[1], NumberOf(now) + e.value.value[2]>>
                ELSE Unresolved
           next == Written(r, e.field, v)
<1>1. now = Found(r, e.field)
  BY ScopeOfCall
<1>2. e.op = "=" => Operand(scope, e.value) = IF e.value.kind = "lit" THEN e.value.value ELSE Given(args, e.value.path[1])
  <2>1. \/ e.op = "=" /\ e.value.kind = "lit"
        \/ e.op = "=" /\ \E n : e.value = Argument(n)
        \/ e.op = "+="
    BY DEF PlainContract
  <2>2. CASE e.op = "=" /\ e.value.kind = "lit"
    BY <2>2 DEF Operand
  <2>3. CASE e.op = "=" /\ \E n : e.value = Argument(n)
    <3>1. PICK n : e.value = Argument(n)
      BY <2>3
    <3>2. Operand(scope, e.value) = Given(args, n)
      BY <3>1, ScopeOfCall
    <3>3. Argument(n).kind = "path" /\ Argument(n).path[1] = n
      BY DEF Argument
    <3> QED BY <3>1, <3>2, <3>3
  <2>4. "+=" # "="
    OBVIOUS
  <2> QED BY <2>1, <2>2, <2>3, <2>4
<1> HIDE DEF now, scope
<1>3. v = Left(r, args, e)
  BY <1>1, <1>2 DEF Left
<1>4. Stopped(r).record = r /\ Stopped(r).raised /\ Going(r).record = r /\ ~Going(r).raised
  BY GoingOn
<1>5. ApplyEffect(op, args, Stopped(r), e) = Stopped(r)
  BY <1>4 DEF ApplyEffect, Stopped
<1>6. /\ v = Unresolved => ApplyEffect(op, args, Going(r), e) = Stopped(r)
      /\ v # Unresolved => ApplyEffect(op, args, Going(r), e) = Going(next)
  <2>1. ApplyEffect(op, args, Going(r), e) =
          IF Going(r).raised \/ v = Unresolved THEN Stopped(Going(r).record)
          ELSE Going(Written(Going(r).record, e.field, v))
    <3>1. Going(r).record = r
      BY <1>4
    <3> HIDE <1>4
    <3> QED BY <3>1 DEF ApplyEffect, scope, now, Stopped, Going, Written
  <2> HIDE DEF v
  <2> QED BY <1>4, <2>1
<1> HIDE DEF v
<1> QED BY <1>3, <1>5, <1>6

\* What the first i effects leave of a record, when none of them has raised.
WrittenBy(op, record, args, i, r) ==
    /\ DOMAIN r = DOMAIN record \cup {op.effects[j].field : j \in 1..i}
    /\ \A f \in DOMAIN record : (\A j \in 1..i : op.effects[j].field # f) => r[f] = record[f]
    /\ \A j \in 1..i : LET v == Left(record, args, op.effects[j])
                       IN  v # Unresolved /\ r[op.effects[j].field] = v

\* One more effect.
LEMMA OneMoreWritten ==
  ASSUME NEW op, PlainContract(op), NEW record, NEW args, NEW i \in DOMAIN op.effects, NEW r,
         WrittenBy(op, record, args, i - 1, r), NEW v, v = Left(r, args, op.effects[i]),
         v # Unresolved
  PROVE  WrittenBy(op, record, args, i, Written(r, op.effects[i].field, v))
<1> DEFINE name(j) == op.effects[j].field
           N == Len(op.effects)
           s == Written(r, name(i), v)
<1>1. N \in Nat /\ DOMAIN op.effects = 1..N /\ i \in 1..N
  BY LenProperties DEF PlainContract
<1>2. \A j \in 1..i - 1 : name(j) # name(i)
  BY <1>1 DEF PlainContract
<1>3. 1..i = (1..i - 1) \cup {i}
  BY <1>1
<1>4. Found(r, name(i)) = Found(record, name(i))
  <2>1. name(i) \in DOMAIN r <=> name(i) \in DOMAIN record
    BY <1>2 DEF WrittenBy
  <2>2. name(i) \in DOMAIN record => r[name(i)] = record[name(i)]
    BY <1>2 DEF WrittenBy
  <2> QED BY <2>1, <2>2 DEF Found
<1>5. v = Left(record, args, op.effects[i])
  BY <1>4 DEF Left
<1>6. DOMAIN s = DOMAIN r \cup {name(i)} /\ s[name(i)] = v
      /\ \A f \in DOMAIN r : f # name(i) => s[f] = r[f]
  BY DEF Written
<1>7. DOMAIN s = DOMAIN record \cup {name(j) : j \in 1..i}
  BY <1>3, <1>6 DEF WrittenBy
<1>8. ASSUME NEW f \in DOMAIN record, \A j \in 1..i : name(j) # f PROVE s[f] = record[f]
  <2>1. f \in DOMAIN r /\ r[f] = record[f]
    BY <1>3, <1>8 DEF WrittenBy
  <2>2. f # name(i)
    BY <1>3, <1>8
  <2> QED BY <1>6, <2>1, <2>2
<1>9. ASSUME NEW j \in 1..i
      PROVE  Left(record, args, op.effects[j]) # Unresolved
             /\ s[name(j)] = Left(record, args, op.effects[j])
  <2>1. CASE j = i
    BY <1>5, <1>6, <2>1
  <2>2. CASE j \in 1..i - 1
    <3>1. /\ Left(record, args, op.effects[j]) # Unresolved /\ name(j) \in DOMAIN r
          /\ r[name(j)] = Left(record, args, op.effects[j])
      BY <2>2 DEF WrittenBy
    <3> QED BY <1>2, <1>6, <2>2, <3>1
  <2> QED BY <1>3, <2>1, <2>2
<1> QED BY <1>7, <1>8, <1>9 DEF WrittenBy

\* A call whose effects have not raised has written each of its fields, and only those.
LEMMA EffectsWrite ==
  ASSUME NEW op, PlainContract(op), NEW record, NEW args, ~AfterEffects(op, record, args).raised
  PROVE  LET after == AfterEffects(op, record, args).record
         IN  /\ DOMAIN after = DOMAIN record \cup Fields(op)
             /\ \A f \in DOMAIN record \ Fields(op) : after[f] = record[f]
             /\ \A e \in Effects(op) : /\ Left(record, args, e) # Unresolved
                                       /\ after[e.field] = Left(record, args, e)
<1> DEFINE N == Len(op.effects)
           start == Going(record)
<1>1. N \in Nat /\ DOMAIN op.effects = 1..N /\ \A i \in 1..N : op.effects[i] \in Effects(op)
  BY LenProperties, ElementOfSeq DEF PlainContract
<1>2. PICK after : Chain(op, record, args, N, after) /\ AfterEffects(op, record, args) = after[N]
  BY <1>1, EffectsInOrder
<1>3. after[0] = start /\ \A i \in 1..N : after[i] = ApplyEffect(op, args, after[i - 1], op.effects[i])
  <2> DEFINE F == [i \in 0..N |-> IF i = 0 THEN start ELSE ApplyEffect(op, args, after[i - 1], op.effects[i])]
  <2>1. after = F
    BY <1>2 DEF Chain, Going
  <2>2. \A i \in 0..N : F[i] = IF i = 0 THEN start ELSE ApplyEffect(op, args, after[i - 1], op.effects[i])
    OBVIOUS
  <2> HIDE DEF F, start
  <2> QED BY <1>1, <2>1, <2>2
<1> DEFINE Raised(i) == \E r : after[i] = Stopped(r)
           Wrote(i) == \E r : after[i] = Going(r) /\ WrittenBy(op, record, args, i, r)
           good == {i \in 0..N : Raised(i) \/ Wrote(i)}
<1>4. 0 \in good
  <2>1. WrittenBy(op, record, args, 0, record)
    BY DEF WrittenBy
  <2>2. Wrote(0)
    BY <1>3, <2>1
  <2> HIDE DEF Wrote, Raised
  <2> QED BY <1>1, <2>2
<1>5. ASSUME NEW i \in 1..N, i - 1 \in good PROVE i \in good
  <2> DEFINE e == op.effects[i]
  <2>1. Raised(i - 1) \/ Wrote(i - 1)
    BY <1>5
  <2>2. after[i] = ApplyEffect(op, args, after[i - 1], e) /\ e \in Effects(op) /\ i \in DOMAIN op.effects
    BY <1>1, <1>3
  <2>3. CASE Raised(i - 1)
    <3>1. PICK r : after[i - 1] = Stopped(r)
      BY <2>3
    <3>2. ApplyEffect(op, args, Stopped(r), e) = Stopped(r)
      BY <2>2, EffectMade
    <3>3. Raised(i)
      BY <2>2, <3>1, <3>2
    <3> HIDE DEF Wrote, Raised
    <3> QED BY <3>3
  <2>4. CASE Wrote(i - 1)
    <3>1. PICK r : after[i - 1] = Going(r) /\ WrittenBy(op, record, args, i - 1, r)
      BY <2>4
    <3> DEFINE v == Left(r, args, e)
               s == Written(r, e.field, v)
    <3>2. /\ v = Unresolved => after[i] = Stopped(r)
          /\ v # Unresolved => after[i] = Going(s)
      <4>1. /\ v = Unresolved => ApplyEffect(op, args, Going(r), e) = Stopped(r)
            /\ v # Unresolved => ApplyEffect(op, args, Going(r), e) = Going(s)
        BY <2>2, EffectMade
      <4> QED BY <2>2, <3>1, <4>1
    <3>3. v # Unresolved => WrittenBy(op, record, args, i, s)
      BY <2>2, <3>1, OneMoreWritten
    <3> HIDE DEF v, s
    <3>4. Raised(i) \/ Wrote(i)
      BY <3>2, <3>3
    <3> HIDE DEF Wrote, Raised
    <3> QED BY <3>4
  <2> QED BY <2>1, <2>3, <2>4
<1>6. Raised(N) \/ Wrote(N)
  <2>1. \A i \in 0..N : i \in good
    <3> HIDE DEF good
    <3> QED BY <1>1, <1>4, <1>5, StepByStep
  <2> HIDE DEF Wrote, Raised
  <2> QED BY <1>1, <2>1
<1>7. PICK r : AfterEffects(op, record, args).record = r /\ WrittenBy(op, record, args, N, r)
  <2>1. CASE Raised(N)
    BY <1>2, <2>1, GoingOn
  <2>2. CASE Wrote(N)
    BY <1>2, <2>2, GoingOn
  <2> QED BY <1>6, <2>1, <2>2
<1>8. Fields(op) = {op.effects[j].field : j \in 1..N} /\ Effects(op) = {op.effects[j] : j \in 1..N}
  BY <1>1 DEF Fields, Effects, ToSet
<1> QED BY <1>7, <1>8 DEF WrittenBy

-------------------------------------------------------------------------------
(* The calls that are accepted *)

\* Being the same is an equivalence, and what is the same counts as the same argument.
LEMMA SameIsEquivalence ==
  /\ \A v, w : Same(v, w) => Same(w, v) /\ Normalized(v) = Normalized(w)
  /\ \A v, w, x : Same(v, w) /\ Same(w, x) => Same(v, x)
BY DEF Same, Normalized

Entity(call) == call.args[Operations[call.tool].idArgument][2]
AcceptedIn(state, call) == CallTool(state, call.tool, call.args).accepted
Leaves(state, call) == CallTool(state, call.tool, call.args).state

\* An accepted call has passed every check, and its effects have been made.
LEMMA WhatAcceptedMeans ==
  ASSUME NEW state, NEW call, AcceptedIn(state, call)
  PROVE  LET op == Operations[call.tool]
             record == state[Entity(call)]
             done == AfterEffects(op, record, call.args)
         IN  /\ call.tool \in DOMAIN Operations /\ ValidArguments(op, call.args)
             /\ Entity(call) \in DOMAIN state
             /\ Objection(op, Scope(op, record, call.args)) = "none" /\ ~done.raised
             /\ Leaves(state, call) = [state EXCEPT ![Entity(call)] = done.record]
<1> DEFINE op == Operations[call.tool]
           record == state[Entity(call)]
           done == AfterEffects(op, record, call.args)
           after == [state EXCEPT ![Entity(call)] = done.record]
           answer == CallTool(state, call.tool, call.args)
           objection == Objection(op, Scope(op, record, call.args))
<1>1. \A s, c : ~Rejected(s, c).accepted
  BY DEF Rejected
<1>2. \A s : Accepted(s).state = s
  BY DEF Accepted
<1>3. answer.accepted
  BY DEF AcceptedIn
<1>4. /\ call.tool \in DOMAIN Operations /\ ValidArguments(op, call.args)
      /\ Entity(call) \in DOMAIN state
      /\ answer = Conclude(state, after, objection, done.raised)
  BY <1>1, <1>3 DEF CallTool, Entity
<1> HIDE DEF after, objection, done, answer
<1>5. objection = "none" /\ ~done.raised /\ answer = Accepted(after)
  BY <1>1, <1>3, <1>4 DEF Conclude
<1> QED BY <1>2, <1>4, <1>5 DEF after, objection, done, answer, Leaves

\* What its contract demands of a field, an accepted call has found there.
LEMMA DemandsMet ==
  ASSUME NEW op, NEW record, NEW args, Objection(op, Scope(op, record, args)) = "none",
         NEW f, NEW w \in Demanded(op, f)
  PROVE  f \in DOMAIN record /\ Same(record[f], w)
<1> DEFINE scope == Scope(op, record, args)
<1>1. PICK i \in DOMAIN op.preconditions :
           LET c == op.preconditions[i]
           IN c.left = <<op.alias, f>> /\ c.cmp = "==" /\ c.right.kind = "lit" /\ c.right.value = w
  BY DEF Demanded, ToSet
<1> DEFINE c == op.preconditions[i]
<1>2. EvalCondition(c, scope) = "holds"
  <2> DEFINE forbidding == {j \in DOMAIN op.invalidWhen :
                              EvalCondition(op.invalidWhen[j], scope) # "fails"}
             missed == {j \in DOMAIN op.preconditions :
                          EvalCondition(op.preconditions[j], scope) # "holds"}
             Category(x) == IF EvalCondition(x, scope) = "error" THEN "expression_error"
                            ELSE "precondition_failed"
  <2>1. \A x : Category(x) # "none"
    OBVIOUS
  <2>2. Objection(op, scope) = IF forbidding # {} THEN Category(op.invalidWhen[Min(forbidding)])
                               ELSE IF missed # {} THEN Category(op.preconditions[Min(missed)])
                               ELSE "none"
    BY DEF Objection
  <2> HIDE DEF Category, forbidding
  <2>3. missed = {}
    <3> HIDE DEF missed
    <3> QED BY <2>1, <2>2
  <2> QED BY <2>3
<1>3. Operand(scope, [kind |-> "path", path |-> c.left]) = Found(record, f)
  BY <1>1, ScopeOfCall
<1>4. Operand(scope, c.right) = w
  BY <1>1 DEF Operand
<1> HIDE DEF scope, c
<1>5. c.cmp = "=="
  BY <1>1 DEF c
<1>6. Found(record, f) # Unresolved /\ Same(Found(record, f), w)
  BY <1>2, <1>3, <1>4, <1>5 DEF EvalCondition
<1> QED BY <1>6 DEF Found

\* A literal that an effect puts into a field is there in the end.
LEMMA LiteralsLeft ==
  ASSUME NEW op, PlainContract(op), NEW record, NEW args, ~AfterEffects(op, record, args).raised,
         NEW f, NEW v \in PutLiterals(op, f)
  PROVE  f \in Fields(op) /\ AfterEffects(op, record, args).record[f] = v
<1>1. PICK e \in Effects(op) : e.field = f /\ e.op = "=" /\ e.value.kind = "lit" /\ e.value.value = v
  BY DEF PutLiterals
<1>2. Left(record, args, e) = v
  BY <1>1 DEF Left
<1>3. AfterEffects(op, record, args).record[e.field] = Left(record, args, e)
  BY <1>1, EffectsWrite
<1> QED BY <1>1, <1>2, <1>3 DEF Fields

\* A counter that an effect adds to is another number in the end.
LEMMA CountersMove ==
  ASSUME NEW v, v[1] \in {"integer", "number"}, v[2] \in Int, NEW k \in Int, k # 0
  PROVE  ~Same(<<v[1], NumberOf(v) + k>>, v)
<1> DEFINE w == <<v[1], NumberOf(v) + k>>
<1>1. v[1] # "boolean" /\ IsNumeric(v) /\ NumberOf(v) = v[2]
  BY DEF IsNumeric, NumberOf
<1>2. w[1] = v[1] /\ w[2] = v[2] + k
  BY <1>1
<1>3. IsNumeric(w) /\ NumberOf(w) = v[2] + k
  BY <1>1, <1>2 DEF IsNumeric, NumberOf
<1>4. v[2] + k # v[2]
  OBVIOUS
<1> HIDE DEF w
<1>5. ~Same(w, v)
  BY <1>1, <1>3, <1>4 DEF Same
<1> QED BY <1>5 DEF w

\* An accepted call leaves each field its contract changes as another value.
LEMMA ChangesShow ==
  ASSUME NEW tool \in DOMAIN Operations, NEW record, FreshRecord(record), NEW args,
         LET op == Operations[tool]
         IN  /\ Objection(op, Scope(op, record, args)) = "none"
             /\ ~AfterEffects(op, record, args).raised,
         NEW f \in Changed(Operations[tool])
  PROVE  /\ f \in DOMAIN record
         /\ ~Same(AfterEffects(Operations[tool], record, args).record[f], record[f])
<1> DEFINE op == Operations[tool]
           after == AfterEffects(op, record, args).record
<1>1. PlainContract(op)
  BY ContractsAssumption
<1>2. CASE f \in Counted(op)
  <2>1. PICK e \in Effects(op) : e.field = f /\ e.op = "+="
    BY <1>2 DEF Counted
  <2>2. e.value.value[2] \in Int /\ e.value.value[2] # 0 /\ e.op # "="
    BY <1>1, <2>1 DEF PlainContract
  <2>3. Left(record, args, e) # Unresolved /\ after[f] = Left(record, args, e)
    BY <1>1, <2>1, EffectsWrite
  <2> HIDE DEF after
  <2>4. /\ Found(record, f) # Unresolved
        /\ after[f] = <<Found(record, f)[1], NumberOf(Found(record, f)) + e.value.value[2]>>
    BY <2>1, <2>2, <2>3 DEF Left
  <2>5. f \in DOMAIN record /\ Found(record, f) = record[f]
    BY <2>4 DEF Found
  <2>6. record[f][1] \in {"integer", "number"} /\ record[f][2] \in Int
    BY <1>2, <2>5 DEF FreshRecord
  <2> QED BY <2>2, <2>4, <2>5, <2>6, CountersMove DEF after
<1>3. CASE \E v \in PutLiterals(op, f), w \in Demanded(op, f) : ~Same(v, w)
  <2>1. PICK v \in PutLiterals(op, f), w \in Demanded(op, f) : ~Same(v, w)
    BY <1>3
  <2>2. f \in DOMAIN record /\ Same(record[f], w)
    BY DemandsMet
  <2>3. after[f] = v
    BY <1>1, LiteralsLeft
  <2> HIDE DEF after
  <2>4. ~Same(after[f], record[f])
    BY <2>1, <2>2, <2>3, SameIsEquivalence
  <2> QED BY <2>2, <2>4 DEF after
<1> QED BY <1>2, <1>3 DEF Changed

\* The record an accepted call leaves is stamped.
LEMMA Stamped ==
  ASSUME NEW op, PlainContract(op), NEW record, NEW args, ~AfterEffects(op, record, args).raised
  PROVE  LET after == AfterEffects(op, record, args).record
         IN  "updated_at" \in DOMAIN after /\ after.updated_at = Clock
<1> DEFINE e == [field |-> "updated_at", op |-> "=", value |-> Argument("run_clock")]
<1>1. e \in Effects(op)
  BY DEF PlainContract
<1>2. e.field = "updated_at" /\ e.op = "=" /\ e.value = Argument("run_clock")
  OBVIOUS
<1>3. Argument("run_clock").kind = "path" /\ Argument("run_clock").path[1] = "run_clock"
  BY DEF Argument
<1> HIDE DEF e
<1>4. Left(record, args, e) = Clock
  BY <1>2, <1>3 DEF Left, Given
<1>5. /\ e.field \in DOMAIN AfterEffects(op, record, args).record
      /\ AfterEffects(op, record, args).record[e.field] = Left(record, args, e)
  BY <1>1, EffectsWrite DEF Fields
<1> QED BY <1>2, <1>4, <1>5

Alike(s, t) == \A id \in DOMAIN s : SameRecord(s[id], t[id])
Fresh(state) == \A id \in DOMAIN state : FreshRecord(state[id])

\* What an accepted call leaves, and that it shows on the record the call is about and
\* on no other.
LEMMA AcceptedCallShows ==
  ASSUME NEW state, Fresh(state), NEW call, AcceptedIn(state, call)
  PROVE  LET after == Leaves(state, call)
             id == Entity(call)
             op == Operations[call.tool]
         IN  /\ call.tool \in DOMAIN Operations /\ id \in DOMAIN state /\ DOMAIN after = DOMAIN state
             /\ after[id] = AfterEffects(op, state[id], call.args).record
             /\ \A other \in DOMAIN state : other # id => after[other] = state[other]
             /\ ~SameRecord(after[id], state[id])
<1> DEFINE after == Leaves(state, call)
           id == Entity(call)
           op == Operations[call.tool]
           done == AfterEffects(op, state[id], call.args)
<1>1. /\ call.tool \in DOMAIN Operations /\ id \in DOMAIN state /\ ~done.raised
      /\ after = [state EXCEPT ![id] = done.record]
  BY WhatAcceptedMeans
<1>2. PlainContract(op)
  BY <1>1, ContractsAssumption
<1>3. "updated_at" \in DOMAIN done.record /\ done.record.updated_at = Clock
  BY <1>1, <1>2, Stamped
<1>4. "updated_at" \in DOMAIN state[id] => ~Same(state[id].updated_at, Clock)
  BY <1>1 DEF Fresh, FreshRecord
<1> HIDE DEF after, id, done, op
<1>5. ~SameRecord(done.record, state[id])
  BY <1>3, <1>4, SameIsEquivalence DEF SameRecord
<1>6. DOMAIN after = DOMAIN state /\ after[id] = done.record
      /\ \A other \in DOMAIN state : other # id => after[other] = state[other]
  BY <1>1
<1> QED BY <1>1, <1>5, <1>6 DEF after, id, done, op

\* Two accepted calls that leave the same state are about the same record.
LEMMA SameEntity ==
  ASSUME NEW state, Fresh(state), NEW a, AcceptedIn(state, a), NEW b, AcceptedIn(state, b),
         Alike(Leaves(state, a), Leaves(state, b))
  PROVE  Entity(a) = Entity(b)
<1> SUFFICES ASSUME Entity(a) # Entity(b) PROVE FALSE
  OBVIOUS
<1>1. /\ Entity(a) \in DOMAIN state /\ DOMAIN Leaves(state, a) = DOMAIN state
      /\ ~SameRecord(Leaves(state, a)[Entity(a)], state[Entity(a)])
  BY AcceptedCallShows
<1>2. Leaves(state, b)[Entity(a)] = state[Entity(a)]
  BY <1>1, AcceptedCallShows
<1> QED BY <1>1, <1>2 DEF Alike

\* They are calls of the same tool: no contract leaves what another leaves.
LEMMA SameTool ==
  ASSUME NEW a \in DOMAIN Operations, NEW b \in DOMAIN Operations, NEW record, FreshRecord(record),
         NEW x, NEW y,
         LET op == Operations[a]
         IN  /\ Objection(op, Scope(op, record, x)) = "none"
             /\ ~AfterEffects(op, record, x).raised,
         LET op == Operations[b]
         IN  /\ Objection(op, Scope(op, record, y)) = "none"
             /\ ~AfterEffects(op, record, y).raised,
         SameRecord(AfterEffects(Operations[a], record, x).record,
                    AfterEffects(Operations[b], record, y).record)
  PROVE  a = b
<1> DEFINE left == AfterEffects(Operations[a], record, x).record
           right == AfterEffects(Operations[b], record, y).record
<1> SUFFICES ASSUME a # b PROVE FALSE
  OBVIOUS
<1>1. PlainContract(Operations[a]) /\ PlainContract(Operations[b])
      /\ ToldApart(Operations[a], Operations[b])
  BY ContractsAssumption
<1>2. /\ DOMAIN left = DOMAIN record \cup Fields(Operations[a])
      /\ \A f \in DOMAIN record \ Fields(Operations[a]) : left[f] = record[f]
      /\ DOMAIN right = DOMAIN record \cup Fields(Operations[b])
      /\ \A f \in DOMAIN record \ Fields(Operations[b]) : right[f] = record[f]
  BY <1>1, EffectsWrite
<1>3. \A f \in DOMAIN left : Same(left[f], right[f]) /\ Same(right[f], left[f])
  BY SameIsEquivalence DEF SameRecord
<1>4. ASSUME NEW f \in Changed(Operations[a]) \ Fields(Operations[b]) PROVE FALSE
  <2>1. f \in DOMAIN record /\ ~Same(left[f], record[f])
    BY ChangesShow
  <2> HIDE DEF left, right
  <2> QED BY <1>2, <1>3, <2>1
<1>5. ASSUME NEW f \in Changed(Operations[b]) \ Fields(Operations[a]) PROVE FALSE
  <2>1. f \in DOMAIN record /\ ~Same(right[f], record[f])
    BY ChangesShow
  <2> HIDE DEF left, right
  <2> QED BY <1>2, <1>3, <2>1
<1>6. ASSUME NEW f, NEW v \in PutLiterals(Operations[a], f), NEW w \in PutLiterals(Operations[b], f),
             ~Same(v, w)
      PROVE FALSE
  <2>1. f \in Fields(Operations[a]) /\ left[f] = v
    BY <1>1, LiteralsLeft
  <2>2. right[f] = w
    BY <1>1, LiteralsLeft
  <2> HIDE DEF left, right
  <2> QED BY <1>2, <1>3, <1>6, <2>1, <2>2
<1> QED BY <1>1, <1>4, <1>5, <1>6 DEF ToldApart

\* They have the same arguments, as far as the effects write them.
LEMMA SameTraces ==
  ASSUME NEW op, PlainContract(op), NEW record, NEW x, NEW y,
         ValidArguments(op, x), ValidArguments(op, y),
         ~AfterEffects(op, record, x).raised, ~AfterEffects(op, record, y).raised,
         SameRecord(AfterEffects(op, record, x).record, AfterEffects(op, record, y).record),
         x[op.idArgument][2] = y[op.idArgument][2],
         NEW n \in Traced(op)
  PROVE  /\ n \in DOMAIN x /\ n \in DOMAIN y
         /\ Normalized(x[n]) = Normalized(y[n])
<1> DEFINE left == AfterEffects(op, record, x).record
           right == AfterEffects(op, record, y).record
<1>1. CASE n = op.idArgument
  <2> DEFINE spec == op.arguments[n]
  <2>1. /\ n \in DOMAIN op.arguments /\ spec.required /\ spec.allowed # {}
        /\ \A v \in spec.allowed : v = Text(v[2])
    BY <1>1 DEF PlainContract
  <2>2. n \in DOMAIN x /\ n \in DOMAIN y /\ x[n] \in spec.allowed /\ y[n] \in spec.allowed
    BY <2>1 DEF ValidArguments, Fits
  <2>3. x[n] = Text(x[n][2]) /\ y[n] = Text(y[n][2])
    BY <2>1, <2>2
  <2> QED BY <1>1, <2>2, <2>3
<1>2. CASE n # op.idArgument
  <2>1. PICK e \in Effects(op) : n \in DOMAIN op.arguments /\ e.op = "=" /\ e.value = Argument(n)
    BY <1>2 DEF Traced
  <2>2. n # "run_clock"
    BY <2>1 DEF PlainContract
  <2>3. Argument(n).kind = "path" /\ Argument(n).path[1] = n
    BY DEF Argument
  <2>4. Left(record, x, e) = Given(x, n) /\ Left(record, y, e) = Given(y, n)
    BY <2>1, <2>3 DEF Left
  <2>5. /\ e.field \in DOMAIN left /\ left[e.field] = Left(record, x, e)
        /\ right[e.field] = Left(record, y, e)
        /\ Left(record, x, e) # Unresolved /\ Left(record, y, e) # Unresolved
    BY <2>1, EffectsWrite DEF Fields
  <2> HIDE DEF left, right
  <2>6. n \in DOMAIN x /\ n \in DOMAIN y /\ left[e.field] = x[n] /\ right[e.field] = y[n]
    BY <2>2, <2>4, <2>5 DEF Given
  <2>7. Same(x[n], y[n])
    <3>1. Same(left[e.field], right[e.field])
      BY <2>5 DEF left, right, SameRecord
    <3> QED BY <2>6, <3>1
  <2> QED BY <2>6, <2>7, SameIsEquivalence
<1> QED BY <1>1, <1>2

\* Two accepted calls that leave the same state are the same call, as far as a call can be
\* told from the state it leaves.
LEMMA SameCall ==
  ASSUME NEW state, Fresh(state), NEW a, AcceptedIn(state, a), NEW b, AcceptedIn(state, b),
         Alike(Leaves(state, a), Leaves(state, b))
  PROVE  /\ a.tool = b.tool
         /\ \A n \in Traced(Operations[a.tool]) :
               n \in DOMAIN b.args /\ Normalized(b.args[n]) = Normalized(a.args[n])
<1> DEFINE id == Entity(a)
           record == state[id]
           opA == Operations[a.tool]
           opB == Operations[b.tool]
           left == AfterEffects(opA, record, a.args)
           right == AfterEffects(opB, record, b.args)
<1>1. Entity(b) = id
  BY SameEntity
<1>2. /\ a.tool \in DOMAIN Operations /\ ValidArguments(opA, a.args) /\ id \in DOMAIN state
      /\ Objection(opA, Scope(opA, record, a.args)) = "none" /\ ~left.raised
  BY WhatAcceptedMeans
<1>3. /\ b.tool \in DOMAIN Operations /\ ValidArguments(opB, b.args)
      /\ Objection(opB, Scope(opB, record, b.args)) = "none" /\ ~right.raised
  BY <1>1, WhatAcceptedMeans
<1>4. SameRecord(left.record, right.record)
  <2>1. Leaves(state, a)[id] = left.record /\ DOMAIN Leaves(state, a) = DOMAIN state
    BY AcceptedCallShows
  <2>2. Leaves(state, b)[id] = right.record
    BY <1>1, AcceptedCallShows
  <2> QED BY <1>2, <2>1, <2>2 DEF Alike
<1>5. FreshRecord(record)
  BY <1>2 DEF Fresh
<1>6. a.tool = b.tool
  <2> HIDE DEF record
  <2> QED BY <1>2, <1>3, <1>4, <1>5, SameTool
<1>7. PlainContract(opA)
  BY <1>2, ContractsAssumption
<1>8. a.args[opA.idArgument][2] = b.args[opA.idArgument][2]
  BY <1>1, <1>6 DEF Entity
<1>9. ASSUME NEW n \in Traced(opA)
      PROVE  n \in DOMAIN b.args /\ Normalized(b.args[n]) = Normalized(a.args[n])
  <2>1. opB = opA
    BY <1>6
  <2> HIDE DEF opA, record
  <2> QED BY <1>2, <1>3, <1>4, <1>7, <1>8, <1>9, <2>1, SameTraces
<1> QED BY <1>6, <1>9
-------------------------------------------------------------------------------
(* What a cell does *)

RejectedEvents == <<"attempted", "rejected">>
AcceptedEvents == <<"attempted", "accepted", "state_transition">>

\* What a cell has to say, at any time.
Typed(r) ==
    /\ r = [decision |-> r.decision, call |-> r.call, valid |-> r.valid,
            error |-> r.error, resolved |-> r.resolved]
    /\ r.decision \in {"none", "ACT", "CLARIFY", "REFUSE"}
    /\ r.valid \in BOOLEAN /\ r.resolved \in BOOLEAN

\* The simulator is untouched until the call a cell ends with, which is the one it
\* reports and which has a valid answer behind it.
CellInv ==
    /\ cell.kind \in Kinds /\ cell.case \in DOMAIN Cases
    /\ cell.request \in Requests[cell.case] \cup {NoRequest}
    /\ Typed(result)
    /\ status \in {"running", "done", "failed"}
    /\ status = "failed" => ~result.valid
    /\ status = "running" => result.valid
    /\ \/ events = <<>> /\ sim = Case.initial
       \/ /\ status = "done" /\ result.decision = "ACT"
          /\ \/ events = RejectedEvents /\ sim = Case.initial
             \/ /\ events = AcceptedEvents /\ result.valid
                /\ AcceptedIn(Case.initial, result.call)
                /\ sim = Leaves(Case.initial, result.call)

\* A call leaves a state of its own only if it is accepted: whichever check objects, the
\* effects are not made, and once none objects they can be.
LEMMA RejectedChangesNothing ==
  ASSUME NEW id \in DOMAIN Cases, NEW call \in Calls[id]
  PROVE  LET answer == CallTool(Cases[id].initial, call.tool, call.args)
         IN  \/ answer.events = RejectedEvents /\ answer.state = Cases[id].initial
             \/ answer.events = AcceptedEvents /\ answer.accepted
<1> DEFINE state == Cases[id].initial
           op == Operations[call.tool]
           entity == call.args[op.idArgument][2]
           answer == CallTool(state, call.tool, call.args)
<1>1. \A s, c : Rejected(s, c).events = RejectedEvents /\ Rejected(s, c).state = s
  BY DEF Rejected, RejectedEvents
<1>2. \A s : Accepted(s).events = AcceptedEvents /\ Accepted(s).accepted
  BY DEF Accepted, AcceptedEvents
<1>3. CASE call.tool \notin DOMAIN Operations \/ ~ValidArguments(op, call.args)
           \/ entity \notin DOMAIN state
  BY <1>1, <1>3 DEF CallTool
<1>4. CASE /\ call.tool \in DOMAIN Operations /\ ValidArguments(op, call.args)
           /\ entity \in DOMAIN state
  <2> DEFINE done == AfterEffects(op, state[entity], call.args)
             objection == Objection(op, Scope(op, state[entity], call.args))
             after == [state EXCEPT ![entity] = done.record]
  <2>1. answer = Conclude(state, after, objection, done.raised)
    BY <1>4 DEF CallTool
  <2>2. objection # "none" \/ ~done.raised
    BY <1>4, EffectsAssumption
  <2> HIDE DEF done, objection, after, answer, state
  <2>3. \/ \E c : answer = Rejected(state, c)
        \/ answer = Accepted(after)
    BY <2>1, <2>2 DEF Conclude
  <2> QED BY <1>1, <1>2, <2>3 DEF answer, state
<1> QED BY <1>3, <1>4

\* What an executor has answered, once parsed.
LEMMA ParsedAnswers ==
  ASSUME NEW a \in ExecutorAnswers, NEW strict \in BOOLEAN
  PROVE  LET p == Parse(a, strict)
         IN  /\ p.decision \in {"none", "ACT", "CLARIFY", "REFUSE"} /\ p.valid \in BOOLEAN
             /\ p.decision = "ACT" => p.call \in Calls[cell.case] /\ p.valid
<1>1. \/ a.form \in {"CLARIFY", "REFUSE", "unreadable"}
      \/ /\ a.form \in {"ACT", "calls"} /\ a.made # <<>>
         /\ Head(a.made) \in Calls[cell.case]
  <2>1. CASE a \in JsonAnswers
    BY <2>1 DEF JsonAnswers, Answer
  <2>2. CASE a \notin JsonAnswers
    <3> DEFINE One == {[form |-> "calls", made |-> <<c>>, asks |-> {}, strict |-> TRUE]
                         : c \in Calls[cell.case]}
               Two == {[form |-> "calls", made |-> <<c, d>>, asks |-> {}, strict |-> TRUE]
                         : c, d \in Calls[cell.case]}
    <3>1. a \in One \/ a \in Two
      <4> HIDE DEF One, Two
      <4>1. ExecutorAnswers = JsonAnswers \cup One \cup Two
        BY DEF ExecutorAnswers, Answer, One, Two
      <4> QED BY <2>2, <4>1
    <3>2. \E c, d \in Calls[cell.case] : a.form = "calls" /\ (a.made = <<c>> \/ a.made = <<c, d>>)
      <4>1. CASE a \in One
        BY <4>1
      <4>2. CASE a \in Two
        BY <4>2
      <4> QED BY <3>1, <4>1, <4>2
    <3> QED BY <3>2
  <2> QED BY <2>1, <2>2
<1> QED BY <1>1 DEF Parse, Unparsed

\* A step that ends the cell with its only call.
ActsOnce ==
    /\ status = "running" /\ cell' = cell
    /\ \E call \in Calls[cell.case] : \E r :
          Typed(r) /\ r.decision = "ACT" /\ r.call = call /\ r.valid /\ Act(call, r)

\* Any other step.
StaysUnacted ==
    /\ status = "running" /\ cell' = cell
    /\ UNCHANGED <<sim, events>>
    /\ Typed(result') /\ status' \in {"running", "done", "failed"}
    /\ status' = "failed" => ~result'.valid
    /\ status' = "running" => result'.valid

Decisions == {"none", "ACT", "CLARIFY", "REFUSE"}
Truths == BOOLEAN

\* A result put together from its fields.
LEMMA ResultsAreTyped ==
  ASSUME NEW d \in Decisions, NEW c, NEW v \in BOOLEAN, NEW e, NEW q \in BOOLEAN
  PROVE  LET r == [decision |-> d, call |-> c, valid |-> v, error |-> e, resolved |-> q]
         IN  Typed(r) /\ r.decision = d /\ r.call = c /\ r.valid = v
BY DEF Typed, Decisions

\* Whatever a step puts into the result of a cell, it stays one.  Its decision is another.
LEMMA Decided ==
  ASSUME NEW r, Typed(r), NEW d \in Decisions
  PROVE  LET q == [r EXCEPT !.decision = d]
         IN  Typed(q) /\ q.decision = d /\ q.call = r.call /\ q.valid = r.valid
<1>1. r.decision \in Decisions /\ r.valid \in BOOLEAN /\ r.resolved \in BOOLEAN
  BY DEF Typed, Decisions
<1>2. [r EXCEPT !.decision = d] = [decision |-> d, call |-> r.call, valid |-> r.valid, error |-> r.error, resolved |-> r.resolved]
  BY DEF Typed
<1> QED BY <1>1, <1>2, ResultsAreTyped DEF Truths

\* Its error is another.
LEMMA Erred ==
  ASSUME NEW r, Typed(r), NEW e
  PROVE  LET q == [r EXCEPT !.error = e]
         IN  Typed(q) /\ q.decision = r.decision /\ q.call = r.call /\ q.valid = r.valid
<1>1. r.decision \in Decisions /\ r.valid \in BOOLEAN /\ r.resolved \in BOOLEAN
  BY DEF Typed, Decisions
<1>2. [r EXCEPT !.error = e] = [decision |-> r.decision, call |-> r.call, valid |-> r.valid, error |-> e, resolved |-> r.resolved]
  BY DEF Typed
<1> QED BY <1>1, <1>2, ResultsAreTyped DEF Truths

\* Its call is another.
LEMMA Called ==
  ASSUME NEW r, Typed(r), NEW c
  PROVE  LET q == [r EXCEPT !.call = c]
         IN  Typed(q) /\ q.decision = r.decision /\ q.call = c /\ q.valid = r.valid
<1>1. r.decision \in Decisions /\ r.valid \in BOOLEAN /\ r.resolved \in BOOLEAN
  BY DEF Typed, Decisions
<1>2. [r EXCEPT !.call = c] = [decision |-> r.decision, call |-> c, valid |-> r.valid, error |-> r.error, resolved |-> r.resolved]
  BY DEF Typed
<1> QED BY <1>1, <1>2, ResultsAreTyped DEF Truths

\* Its validity is another.
LEMMA Validated ==
  ASSUME NEW r, Typed(r), NEW v \in Truths
  PROVE  LET q == [r EXCEPT !.valid = v]
         IN  Typed(q) /\ q.decision = r.decision /\ q.call = r.call /\ q.valid = v
<1>1. r.decision \in Decisions /\ r.valid \in BOOLEAN /\ r.resolved \in BOOLEAN
  BY DEF Typed, Decisions
<1>2. [r EXCEPT !.valid = v] = [decision |-> r.decision, call |-> r.call, valid |-> v, error |-> r.error, resolved |-> r.resolved]
  BY DEF Typed
<1> QED BY <1>1, <1>2, ResultsAreTyped DEF Truths

\* It is resolved, or not.
LEMMA ResolvedOrNot ==
  ASSUME NEW r, Typed(r), NEW v \in Truths
  PROVE  LET q == [r EXCEPT !.resolved = v]
         IN  Typed(q) /\ q.decision = r.decision /\ q.call = r.call /\ q.valid = r.valid
<1>1. r.decision \in Decisions /\ r.valid \in BOOLEAN /\ r.resolved \in BOOLEAN
  BY DEF Typed, Decisions
<1>2. [r EXCEPT !.resolved = v] = [decision |-> r.decision, call |-> r.call, valid |-> r.valid, error |-> r.error, resolved |-> v]
  BY DEF Typed
<1> QED BY <1>1, <1>2, ResultsAreTyped DEF Truths

\* It is resolved.
LEMMA Resolved ==
  ASSUME NEW r, Typed(r)
  PROVE  LET q == [r EXCEPT !.resolved = TRUE]
         IN  Typed(q) /\ q.decision = r.decision /\ q.call = r.call /\ q.valid = r.valid
<1> DEFINE yes == TRUE
<1>1. yes \in Truths
  BY DEF Truths
<1> HIDE DEF yes
<1> DEFINE q == [r EXCEPT !.resolved = yes]
<1>2. Typed(q) /\ q.decision = r.decision /\ q.call = r.call /\ q.valid = r.valid
  BY <1>1, ResolvedOrNot
<1> QED BY <1>2, Zenon DEF yes

\* Two fields at once, as the code sets them.
Judged(r, d, v) == [r EXCEPT !.decision = d, !.valid = v]
Reported(r, d, c) == [r EXCEPT !.decision = d, !.call = c]

\* A decision and a validity.
LEMMA DecidedValid ==
  ASSUME NEW r, Typed(r), NEW d \in Decisions, NEW v \in Truths
  PROVE  LET q == Judged(r, d, v)
         IN  Typed(q) /\ q.decision = d /\ q.valid = v
<1> DEFINE r1 == [r EXCEPT !.decision = d]
           r2 == [r1 EXCEPT !.valid = v]
<1>1. Judged(r, d, v) = r2
  BY Zenon DEF Judged
<1>2. Typed(r1) /\ r1.decision = d
  BY Decided
<1>3. Typed(r2) /\ r2.decision = r1.decision /\ r2.valid = v
  BY <1>2, Validated
<1> HIDE DEF r1, r2
<1> QED BY <1>1, <1>2, <1>3

\* A decision and an error.
LEMMA DecidedErred ==
  ASSUME NEW r, Typed(r), NEW d \in Decisions, NEW e
  PROVE  Typed([r EXCEPT !.decision = d, !.error = e])
<1> DEFINE r1 == [r EXCEPT !.decision = d]
           r2 == [r1 EXCEPT !.error = e]
<1>1. [r EXCEPT !.decision = d, !.error = e] = r2
  BY Zenon
<1>2. Typed(r1)
  BY Decided
<1>3. Typed(r2)
  BY <1>2, Erred
<1> HIDE DEF r1, r2
<1> QED BY <1>1, <1>2, <1>3

\* A decision and a call.
LEMMA DecidedCalled ==
  ASSUME NEW r, Typed(r), NEW d \in Decisions, NEW c
  PROVE  LET q == Reported(r, d, c)
         IN  Typed(q) /\ q.decision = d /\ q.call = c /\ q.valid = r.valid
<1> DEFINE r1 == [r EXCEPT !.decision = d]
           r2 == [r1 EXCEPT !.call = c]
<1>1. Reported(r, d, c) = r2
  BY Zenon DEF Reported
<1>2. Typed(r1) /\ r1.decision = d /\ r1.valid = r.valid
  BY Decided
<1>3. Typed(r2) /\ r2.decision = r1.decision /\ r2.call = c /\ r2.valid = r1.valid
  BY <1>2, Called
<1> HIDE DEF r1, r2
<1> QED BY <1>1, <1>2, <1>3

\* A validity and an error.
LEMMA InvalidFor ==
  ASSUME NEW r, Typed(r), NEW v \in Truths, NEW e
  PROVE  Typed([r EXCEPT !.valid = v, !.error = e]) /\ [r EXCEPT !.valid = v, !.error = e].valid = v
<1> DEFINE r1 == [r EXCEPT !.valid = v]
           r2 == [r1 EXCEPT !.error = e]
<1>1. [r EXCEPT !.valid = v, !.error = e] = r2
  BY Zenon
<1>2. Typed(r1) /\ r1.valid = v
  BY Validated
<1>3. Typed(r2) /\ r2.valid = r1.valid
  BY <1>2, Erred
<1> HIDE DEF r1, r2
<1> QED BY <1>1, <1>2, <1>3

Answered(r, d, c, v) == [r EXCEPT !.decision = d, !.call = c, !.valid = v]

\* All that an executor answers.
LEMMA DecidedCall ==
  ASSUME NEW r, Typed(r), NEW d \in Decisions, NEW c, NEW v \in Truths
  PROVE  LET q == Answered(r, d, c, v)
         IN  Typed(q) /\ q.decision = d /\ q.call = c /\ q.valid = v
<1> DEFINE r1 == [r EXCEPT !.decision = d]
           r2 == [r1 EXCEPT !.call = c]
           r3 == [r2 EXCEPT !.valid = v]
<1>1. Answered(r, d, c, v) = r3
  BY Zenon DEF Answered
<1>2. Typed(r1) /\ r1.decision = d
  BY Decided
<1>3. Typed(r2) /\ r2.decision = r1.decision /\ r2.call = c
  BY <1>2, Called
<1>4. Typed(r3) /\ r3.decision = r2.decision /\ r3.call = r2.call /\ r3.valid = v
  BY <1>3, Validated
<1> HIDE DEF r1, r2, r3
<1> QED BY <1>1, <1>2, <1>3, <1>4

Settled(r, d, c, v) == [r EXCEPT !.decision = d, !.call = c, !.valid = v, !.resolved = TRUE]

\* All that the end of an elicitation sets.
LEMMA ResolvedCall ==
  ASSUME NEW r, Typed(r), NEW d \in Decisions, NEW c, NEW v \in Truths
  PROVE  LET s == Settled(r, d, c, v)
         IN  Typed(s) /\ s.decision = d /\ s.call = c /\ s.valid = v
<1> DEFINE r1 == [r EXCEPT !.decision = d]
           r2 == [r1 EXCEPT !.call = c]
           r3 == [r2 EXCEPT !.valid = v]
           r4 == [r3 EXCEPT !.resolved = TRUE]
<1>1. Settled(r, d, c, v) = r4
  BY Zenon DEF Settled
<1>2. Typed(r1) /\ r1.decision = d
  BY Decided
<1>3. Typed(r2) /\ r2.decision = r1.decision /\ r2.call = c
  BY <1>2, Called
<1>4. Typed(r3) /\ r3.decision = r2.decision /\ r3.call = r2.call /\ r3.valid = v
  BY <1>3, Validated
<1>5. Typed(r4) /\ r4.decision = r3.decision /\ r4.call = r3.call /\ r4.valid = r3.valid
  BY <1>4, Resolved
<1> HIDE DEF r1, r2, r3, r4
<1> QED BY <1>1, <1>2, <1>3, <1>4, <1>5

\* Both kinds of step keep it.
LEMMA OutcomesKeep == ASSUME CellInv, ActsOnce \/ StaysUnacted PROVE CellInv'
<1>1. CASE StaysUnacted
  <2>1. events = <<>> /\ sim = Case.initial
    BY <1>1 DEF CellInv, StaysUnacted
  <2>2. Case' = Case
    BY <1>1 DEF Case, StaysUnacted
  <2> QED BY <1>1, <2>1, <2>2 DEF CellInv, StaysUnacted
<1>2. CASE ActsOnce
  <2>1. PICK call \in Calls[cell.case] :
            \E r : Typed(r) /\ r.decision = "ACT" /\ r.call = call /\ r.valid /\ Act(call, r)
    BY <1>2 DEF ActsOnce
  <2>2. PICK r : Typed(r) /\ r.decision = "ACT" /\ r.call = call /\ r.valid /\ Act(call, r)
    BY <2>1
  <2> DEFINE answer == CallTool(Cases[cell.case].initial, call.tool, call.args)
  <2>3. events = <<>> /\ sim = Cases[cell.case].initial /\ cell.case \in DOMAIN Cases
    BY <1>2 DEF CellInv, ActsOnce, Case
  <2>4. \/ answer.events = RejectedEvents /\ answer.state = Cases[cell.case].initial
        \/ answer.events = AcceptedEvents /\ answer.accepted
    BY <2>3, RejectedChangesNothing
  <2>5. /\ sim' = answer.state /\ events' = <<>> \o answer.events /\ status' = "done"
        /\ \E e : result' = [r EXCEPT !.error = e]
    BY <2>2, <2>3 DEF Act, Return
  <2>6. <<>> \o RejectedEvents = RejectedEvents /\ <<>> \o AcceptedEvents = AcceptedEvents
    <3> DEFINE names == {"attempted", "rejected", "accepted", "state_transition"}
    <3>1. RejectedEvents \in Seq(names) /\ AcceptedEvents \in Seq(names)
      BY DEF RejectedEvents, AcceptedEvents
    <3> HIDE DEF names
    <3> QED BY <3>1, ConcatEmptySeq
  <2>7. /\ Typed(result') /\ result'.decision = "ACT" /\ result'.call = call /\ result'.valid
    BY <2>2, <2>5, Erred
  <2>8. Case'.initial = Cases[cell.case].initial
    BY <1>2 DEF ActsOnce, Case
  <2>9. /\ answer.accepted => AcceptedIn(Case'.initial, result'.call)
        /\ answer.state = Leaves(Case'.initial, result'.call)
    BY <2>7, <2>8 DEF AcceptedIn, Leaves
  <2> HIDE DEF answer
  <2>10. cell' = cell /\ cell.kind \in Kinds /\ cell.request \in Requests[cell.case] \cup {NoRequest}
    BY <1>2 DEF ActsOnce, CellInv
  <2> QED BY <2>3, <2>4, <2>5, <2>6, <2>7, <2>8, <2>9, <2>10 DEF CellInv
<1> QED BY <1>1, <1>2

\* The steps before the action boundary, and those of a provider that fails.
LEMMA BoundaryOutcomes ==
  ASSUME CellInv,
         \/ ProviderFails \/ GoldBoundary \/ ResolutionUnreadable \/ ResolutionClarifies
         \/ ResolutionMaps \/ Render \/ SelectFromRegistry \/ SelectByRouter
         \/ AnalysisStage \/ CheckedStage
  PROVE  StaysUnacted
<1>1. status = "running" /\ cell' = cell /\ UNCHANGED <<sim, events>>
  BY DEF ProviderFails, GoldBoundary, ResolutionUnreadable, ResolutionClarifies, ResolutionMaps,
     Render, SelectFromRegistry, SelectByRouter, AnalysisStage, CheckedStage, At, ReturnUnacted,
     Return, Proceed
<1>2. \/ result' = result /\ status' \in {"running", "done"}
      \/ result' = Invalid("provider_error") /\ status' = "failed"
      \/ /\ result' \in {Clarifies, Invalid("invalid_canonical_resolution"), NoProcedure("no_procedure"),
                         Invalid("runtime_rendering_not_found"), Invalid("invalid_stage_output")}
         /\ status' = "done"
  BY DEF ProviderFails, GoldBoundary, ResolutionUnreadable, ResolutionClarifies, ResolutionMaps,
     Render, SelectFromRegistry, SelectByRouter, AnalysisStage, CheckedStage, At, ReturnUnacted,
     Return, Proceed
<1>3. Typed(result) /\ result.valid /\ "CLARIFY" \in Decisions
  BY <1>1 DEF CellInv, Decisions
<1>4. \A e : Typed(Invalid(e)) /\ ~Invalid(e).valid /\ Typed(Clarifies) /\ Typed(NoProcedure(e))
  <2>1. TRUE \in Truths /\ FALSE \in Truths
    BY DEF Truths
  <2> QED BY <1>3, <2>1, InvalidFor, DecidedValid, DecidedErred DEF Invalid, Judged, Clarifies, NoProcedure
<1> QED BY <1>1, <1>2, <1>3, <1>4 DEF StaysUnacted

\* A question to the user, or the end of the cell without a call.
LEMMA AskingKeeps ==
  ASSUME NEW keys, NEW r, Typed(r), status = "running",
         (AskUser(keys, r) /\ r.valid) \/ AskNothing(r) \/ ReturnUnacted(r)
  PROVE  /\ UNCHANGED <<sim, events>> /\ Typed(result') /\ status' \in {"running", "done"}
         /\ status' = "running" => result'.valid
<1>1. "CLARIFY" \in Decisions
  BY DEF Decisions
<1> DEFINE q == [r EXCEPT !.decision = "CLARIFY"]
<1>2. Typed(q) /\ q.valid = r.valid
  BY <1>1, Decided
<1>3. \/ result' = r /\ status' = "done"
      \/ result' = q /\ r.valid
  BY DEF AskUser, AskNothing, ReturnUnacted, Return, NextTurn
<1> HIDE DEF q
<1>4. UNCHANGED <<sim, events>> /\ status' \in {"running", "done"}
  BY DEF AskUser, AskNothing, ReturnUnacted, Return, NextTurn
<1> QED BY <1>2, <1>3, <1>4

\* The three boundaries at which an executor may act
LEMMA ExecuteOutcomes == ASSUME CellInv, Execute PROVE ActsOnce \/ StaysUnacted
<1>1. At("strict") \in BOOLEAN /\ status = "running" /\ cell' = cell /\ Typed(result)
  BY DEF Execute, At, CellInv
<1>2. PICK a \in ExecutorAnswers : Decide(Parse(a, At("strict")))
  BY DEF Execute
<1> DEFINE p == Parse(a, At("strict"))
           outcome == Answered(result, p.decision, p.call, p.valid)
<1>3. /\ p.decision \in {"none", "ACT", "CLARIFY", "REFUSE"} /\ p.valid \in BOOLEAN
      /\ p.decision = "ACT" => p.call \in Calls[cell.case] /\ p.valid
  BY <1>1, ParsedAnswers
<1>4. Decide(p)
  BY <1>2
<1> HIDE DEF p
<1>5. Typed(outcome) /\ outcome.decision = p.decision /\ outcome.call = p.call /\ outcome.valid = p.valid
  <2>1. p.decision \in Decisions
    BY <1>3 DEF Decisions
  <2>2. Typed(result) /\ p.valid \in Truths
    BY <1>1, <1>3 DEF Truths
  <2> QED BY <2>1, <2>2, DecidedCall
<1>6. IF p.decision = "ACT" THEN Act(p.call, outcome) ELSE ReturnUnacted(outcome)
  BY <1>4 DEF Decide, Answered
<1> HIDE DEF outcome
<1>7. CASE p.decision = "ACT"
  BY <1>1, <1>3, <1>5, <1>6, <1>7 DEF ActsOnce
<1>8. CASE p.decision # "ACT"
  BY <1>1, <1>5, <1>6, <1>8, AskingKeeps DEF StaysUnacted
<1> QED BY <1>7, <1>8

\* The typed boundary of P4.
LEMMA ExecuteTypedOutcomes == ASSUME CellInv, ExecuteTyped PROVE ActsOnce \/ StaysUnacted
<1>1. TRUE \in BOOLEAN /\ status = "running" /\ cell' = cell /\ Typed(result)
  BY DEF ExecuteTyped, At, CellInv
<1>2. PICK a \in ExecutorAnswers : DecideTyped(Parse(a, TRUE))
  BY DEF ExecuteTyped
<1> DEFINE p == Parse(a, TRUE)
           outcome == Judged(result, p.decision, p.valid)
           called == [outcome EXCEPT !.call = p.call]
           wrong(e) == [outcome EXCEPT !.error = e]
<1>3. /\ p.decision \in {"none", "ACT", "CLARIFY", "REFUSE"} /\ p.valid \in BOOLEAN
      /\ p.decision = "ACT" => p.call \in Calls[cell.case] /\ p.valid
  BY <1>1, ParsedAnswers
<1>4. DecideTyped(p)
  BY <1>2
<1> HIDE DEF p
<1>5. Typed(outcome) /\ outcome.decision = p.decision /\ outcome.valid = p.valid
  <2>1. p.decision \in Decisions
    BY <1>3 DEF Decisions
  <2>2. Typed(result) /\ p.valid \in Truths
    BY <1>1, <1>3 DEF Truths
  <2> QED BY <2>1, <2>2, DecidedValid
<1>6. \/ p.decision = "ACT" /\ Act(p.call, called)
      \/ ReturnUnacted(outcome)
      \/ ReturnUnacted(wrong("typed_tool_selection_error"))
      \/ ReturnUnacted(wrong("typed_tool_validation_error"))
  BY <1>4 DEF DecideTyped, Judged
<1> HIDE DEF outcome
<1>7. /\ Typed(called) /\ called.decision = p.decision /\ called.call = p.call
      /\ p.valid => called.valid
  BY <1>5, Called
<1>8. \A e : Typed(wrong(e))
  BY <1>5, Erred
<1> HIDE DEF called, wrong
<1>9. CASE p.decision = "ACT" /\ Act(p.call, called)
  BY <1>1, <1>3, <1>7, <1>9 DEF ActsOnce
<1>10. CASE \E r : Typed(r) /\ ReturnUnacted(r)
  BY <1>1, <1>10, AskingKeeps DEF StaysUnacted
<1> QED BY <1>5, <1>6, <1>8, <1>9, <1>10

\* An answer in JSON is one of an executor.
LEMMA JsonAnswersCount == JsonAnswers \subseteq ExecutorAnswers
<1> DEFINE One == {[form |-> "calls", made |-> <<c>>, asks |-> {}, strict |-> TRUE]
                         : c \in Calls[cell.case]}
               Two == {[form |-> "calls", made |-> <<c, d>>, asks |-> {}, strict |-> TRUE]
                         : c, d \in Calls[cell.case]}
<1> HIDE DEF One, Two
<1>1. ExecutorAnswers = JsonAnswers \cup One \cup Two
  BY DEF ExecutorAnswers, Answer, One, Two
<1> QED BY <1>1

\* A proposal.
LEMMA ProposeOutcomes == ASSUME CellInv, Propose PROVE ActsOnce \/ StaysUnacted
<1>1. FALSE \in BOOLEAN /\ status = "running" /\ cell' = cell /\ Typed(result) /\ result.valid
  BY DEF Propose, At, CellInv
<1>2. PICK a \in JsonAnswers : DecideProposal(a)
  BY DEF Propose
<1> DEFINE p == Parse(a, FALSE)
           outcome == Reported(result, p.decision, p.call)
           wrong(e) == [outcome EXCEPT !.error = e]
           failed == Invalid("proposal_parse_error")
<1>3. /\ p.decision \in {"none", "ACT", "CLARIFY", "REFUSE"}
      /\ p.decision = "ACT" => p.call \in Calls[cell.case]
  <2>1. a \in ExecutorAnswers
    BY JsonAnswersCount
  <2> QED BY <1>1, <2>1, ParsedAnswers
<1>4. \/ p.decision = "ACT" /\ Act(p.call, outcome)
      \/ ReturnUnacted(outcome)
      \/ ReturnUnacted(wrong("unknown_operation_mapping"))
      \/ ReturnUnacted(failed)
  BY <1>2, <1>3 DEF DecideProposal, Reported
<1> HIDE DEF p
<1>5. Typed(outcome) /\ outcome.decision = p.decision /\ outcome.call = p.call /\ outcome.valid = result.valid
  <2>1. p.decision \in Decisions
    BY <1>3 DEF Decisions
  <2>2. Typed(result)
    BY <1>1, <1>3
  <2> QED BY <2>1, <2>2, DecidedCalled
<1>6. Typed(failed)
  <2>1. FALSE \in Truths
    BY DEF Truths
  <2> QED BY <1>1, <2>1, InvalidFor, Zenon DEF Invalid
<1> HIDE DEF outcome, failed
<1>7. \A e : Typed(wrong(e))
  BY <1>5, Erred
<1> HIDE DEF wrong
<1>8. CASE p.decision = "ACT" /\ Act(p.call, outcome)
  BY <1>1, <1>3, <1>5, <1>8 DEF ActsOnce
<1>9. CASE \E r : Typed(r) /\ ReturnUnacted(r)
  BY <1>1, <1>9, AskingKeeps DEF StaysUnacted
<1> QED BY <1>4, <1>5, <1>6, <1>7, <1>8, <1>9

\* The stages of a turn.
LEMMA TurnOutcomes ==
  ASSUME CellInv, TurnExecutor \/ Assess \/ Clarify \/ TurnCanonicalizer
  PROVE  ActsOnce \/ StaysUnacted
<1>1. TRUE \in BOOLEAN /\ FALSE \in BOOLEAN /\ "ACT" \in Decisions /\ "REFUSE" \in Decisions
  BY DEF Decisions
<1>2. status = "running" /\ cell' = cell /\ Typed(result) /\ result.valid
  BY DEF TurnExecutor, Assess, Clarify, TurnCanonicalizer, At, CellInv
<1>3. CASE TurnExecutor
  <2>1. PICK a \in ExecutorAnswers : EndTurn(Parse(a, FALSE))
    BY <1>3 DEF TurnExecutor
  <2> DEFINE p == Parse(a, FALSE)
             acted == Settled(result, "ACT", p.call, p.valid)
             refused == Judged(result, "REFUSE", p.valid)
  <2>2. p.valid \in BOOLEAN /\ (p.decision = "ACT" => p.call \in Calls[cell.case] /\ p.valid)
    BY <1>1, ParsedAnswers
  <2>3. \/ p.decision = "ACT" /\ Act(p.call, acted)
        \/ ReturnUnacted(refused)
        \/ AskUser(AskedFor(p.asks), result)
    BY <2>1 DEF EndTurn, Settled, Judged
  <2> HIDE DEF p
  <2>4. Typed(acted) /\ acted.decision = "ACT" /\ acted.call = p.call /\ acted.valid = p.valid
    <3>1. "ACT" \in Decisions /\ p.valid \in Truths /\ Typed(result)
      BY <1>1, <1>2, <2>2 DEF Truths
    <3> QED BY <3>1, ResolvedCall
  <2>5. Typed(refused)
    <3>1. "REFUSE" \in Decisions /\ p.valid \in Truths /\ Typed(result)
      BY <1>1, <1>2, <2>2 DEF Truths
    <3> QED BY <3>1, DecidedValid
  <2> HIDE DEF acted, refused
  <2>6. CASE p.decision = "ACT" /\ Act(p.call, acted)
    BY <1>2, <2>2, <2>4, <2>6 DEF ActsOnce
  <2>7. CASE ReturnUnacted(refused)
    BY <1>2, <2>5, <2>7, AskingKeeps DEF StaysUnacted
  <2>8. CASE AskUser(AskedFor(p.asks), result)
    BY <1>2, <2>8, AskingKeeps DEF StaysUnacted
  <2> QED BY <2>3, <2>6, <2>7, <2>8
<1>4. CASE Assess
  BY <1>2, <1>4 DEF Assess, StaysUnacted
<1>5. CASE Clarify
  <2>1. AskNothing(result) \/ \E keys : AskUser(keys, result)
    BY <1>5 DEF Clarify
  <2> QED BY <1>2, <2>1, AskingKeeps DEF StaysUnacted
<1>6. CASE TurnCanonicalizer
  <2>1. \/ AskNothing(Invalid("invalid_canonical_resolution"))
        \/ \E keys : AskUser(keys, result)
        \/ UNCHANGED <<sim, events, result, status>>
    BY <1>6 DEF TurnCanonicalizer
  <2>2. Typed(Invalid("invalid_canonical_resolution"))
    <3>1. FALSE \in Truths /\ Typed(result)
      BY <1>1, <1>2 DEF Truths
    <3> QED BY <3>1, InvalidFor, Zenon DEF Invalid
  <2> QED BY <1>2, <2>1, <2>2, AskingKeeps DEF StaysUnacted
<1> QED BY <1>3, <1>4, <1>5, <1>6

\* Every step keeps it.
LEMMA CellStep == ASSUME CellInv, [Next]_vars PROVE CellInv'
<1>1. CASE Next
  BY <1>1, BoundaryOutcomes, ExecuteOutcomes, ExecuteTypedOutcomes, ProposeOutcomes, TurnOutcomes,
     OutcomesKeep DEF Next
<1>2. CASE UNCHANGED vars
  BY <1>2 DEF CellInv, vars, Case, Typed
<1> QED BY <1>1, <1>2

\* It holds at first.
LEMMA CellInit == Init => CellInv
<1> SUFFICES ASSUME Init PROVE CellInv
  OBVIOUS
<1>1. PICK id \in DOMAIN Cases : cell \in [kind : Kinds, case : {id}, request : Requests[id] \cup {NoRequest}]
  BY DEF Init
<1>2. /\ cell.kind \in Kinds /\ cell.case \in DOMAIN Cases
      /\ cell.request \in Requests[cell.case] \cup {NoRequest}
  BY <1>1
<1>3. Typed(result) /\ result.valid
  BY DEF Init, Typed
<1> QED BY <1>2, <1>3 DEF Init, CellInv

\* A cell makes its tool call, if any, in the step it ends with: until then its
\* simulator is the one of the case, and a call that is rejected leaves it so.
THEOREM CellsActLast == Spec => []CellInv
<1>1. CellInv /\ [Next]_vars => CellInv'
  BY CellStep
<1> QED BY CellInit, <1>1, PTL DEF Spec
-------------------------------------------------------------------------------
(* What a cell spends *)

TurnStages == {"turn_executor", "assessor", "clarifier", "turn_canonicalizer", "gate_executor"}

\* The calls a turn has yet to make, at most
Weight(s) == CASE s = "assessor" -> 3 [] s = "turn_canonicalizer" -> 2 [] OTHER -> 1

\* What is left of a plan after its first stage.
LEMMA StageSpent ==
  ASSUME NEW plan, NEW gold, NEW n, PlanFits(plan, gold, n)
  PROVE  /\ plan # <<>> /\ Head(plan) \in BatchStages
         /\ Head(plan) = "gold" => gold
         /\ Head(plan) \notin Terminal =>
              PlanFits(Tail(plan), gold, IF Head(plan) \in ModelStages THEN n - 1 ELSE n)
         /\ n \in Int /\ (Head(plan) \in ModelStages => n >= 1)
<1>1. /\ plan \in Seq(BatchStages) /\ Len(plan) \in Nat /\ Len(plan) >= 1
      /\ DOMAIN plan = 1..Len(plan) /\ plan[Len(plan)] \in Terminal
      /\ \A i \in DOMAIN plan : plan[i] \in ModelStages \/ i \in 1..2
      /\ \A i \in DOMAIN plan : plan[i] = "gold" => gold
      /\ n = Len(plan) - Free(plan, 1) - Free(plan, 2)
  BY LenProperties DEF PlanFits, Fine, Cost
<1>2. plan # <<>> /\ Head(plan) = plan[1]
  <2>1. Len(<<>>) = 0
    OBVIOUS
  <2> QED BY <1>1, <2>1
<1>3. Head(plan) \in BatchStages
  BY <1>1, <1>2, HeadTailProperties
<1>4. \A i : Free(plan, i) \in {0, 1}
  BY DEF Free
<1>5. Head(plan) \in ModelStages => Free(plan, 1) = 0
  BY <1>2 DEF Free
<1>6. Free(plan, 2) = 1 => Len(plan) >= 2
  <2>1. Free(plan, 2) = 1 => 2 \in DOMAIN plan
    BY DEF Free
  <2> QED BY <1>1, <2>1
<1>7. n \in Int /\ (Head(plan) \in ModelStages => n >= 1)
  <2>1. \A a \in Nat : \A c, d \in {0, 1} :
           a >= 1 /\ (d = 1 => a >= 2) => (a - c - d) \in Int /\ (c = 0 => a - c - d >= 1)
    OBVIOUS
  <2> QED BY <1>1, <1>4, <1>5, <1>6, <2>1
<1>8. ASSUME Head(plan) \notin Terminal
      PROVE  PlanFits(Tail(plan), gold, IF Head(plan) \in ModelStages THEN n - 1 ELSE n)
  <2> DEFINE rest == Tail(plan)
  <2>1. /\ rest \in Seq(BatchStages) /\ Len(rest) = Len(plan) - 1
        /\ \A i \in 1..Len(rest) : rest[i] = plan[i + 1]
    BY <1>1, <1>2, HeadTailProperties
  <2>2. Len(plan) # 1
    BY <1>1, <1>2, <1>8
  <2>3. DOMAIN rest = 1..Len(rest)
    BY <2>1, LenProperties
  <2> HIDE DEF rest
  <2>4. \A i \in DOMAIN rest : i + 1 \in DOMAIN plan /\ rest[i] = plan[i + 1] /\ i \in Nat
    BY <1>1, <2>1, <2>3
  <2>5. rest[Len(rest)] \in Terminal /\ Len(rest) >= 1
    <3>1. Len(rest) \in 1..Len(rest) /\ Len(rest) + 1 = Len(plan)
      BY <1>1, <2>1, <2>2
    <3> QED BY <1>1, <2>1, <3>1
  <2>6. \A i \in DOMAIN rest : rest[i] \in ModelStages \/ i = 1
    <3>1. \A i \in DOMAIN rest : i >= 1 /\ i \in Nat
      BY <2>1, <2>3
    <3>2. \A i \in DOMAIN rest : rest[i] \in ModelStages \/ i + 1 \in 1..2
      BY <1>1, <2>4
    <3>3. \A i \in Nat : i >= 1 /\ i + 1 \in 1..2 => i = 1
      OBVIOUS
    <3> QED BY <3>1, <3>2, <3>3
  <2>7. \A i \in DOMAIN rest : rest[i] = "gold" => gold
    BY <1>1, <2>4
  <2>8. Free(rest, 2) = 0
    BY <2>6 DEF Free
  <2>9. Free(rest, 1) = Free(plan, 2)
    <3>1. 1 \in DOMAIN rest /\ 2 \in DOMAIN plan /\ rest[1] = plan[2]
      BY <1>1, <2>1, <2>3, <2>2
    <3> QED BY <3>1 DEF Free
  <2>10. Free(plan, 1) = IF Head(plan) \in ModelStages THEN 0 ELSE 1
    <3>1. 1 \in DOMAIN plan
      BY <1>1
    <3> QED BY <3>1, <1>2 DEF Free
  <2>11. Cost(rest) = IF Head(plan) \in ModelStages THEN n - 1 ELSE n
    <3>1. \A a \in Nat : \A d \in {0, 1} : /\ (a - 1) - d - 0 = (a - 0 - d) - 1
                                           /\ (a - 1) - d - 0 = a - 1 - d
      OBVIOUS
    <3>2. Cost(rest) = (Len(plan) - 1) - Free(plan, 2) - 0
      BY <2>1, <2>8, <2>9 DEF Cost
    <3> QED BY <1>1, <1>4, <2>10, <3>1, <3>2
  <2>12. Fine(rest, gold, IF Head(plan) \in ModelStages THEN n - 1 ELSE n)
    BY <2>1, <2>6, <2>7, <2>11 DEF Fine
  <2> QED BY <2>5, <2>12 DEF PlanFits, rest
<1>9. Head(plan) = "gold" => gold
  <2>1. 1 \in DOMAIN plan
    BY <1>1
  <2> QED BY <1>1, <1>2, <2>1
<1> QED BY <1>2, <1>3, <1>7, <1>8, <1>9

\* The calls still to be made fit the estimate, or the turns.
Budget ==
    /\ calls \in Nat /\ turn \in 0..MaxTurns
    /\ InElicitation =>
         /\ calls <= 3 * (turn + 1)
         /\ status = "running" =>
              \E s \in TurnStages : todo = <<s>> /\ calls + Weight(s) <= 3 * (turn + 1)
    /\ ~InElicitation =>
         /\ calls <= EstimatedInvocations(cell.kind)
         /\ status = "running" =>
              \E n \in Nat : /\ calls + n <= EstimatedInvocations(cell.kind)
                             /\ PlanFits(todo, cell.kind.intent = "gold", n)

\* Each turn starts with one stage.
LEMMA TurnStarts == \A k, t : \E s \in TurnStages : TurnPlan(k, t) = <<s>>
BY DEF TurnPlan, TurnStages

\* A turn makes three calls at most.
LEMMA Weights == \A s : Weight(s) \in 1..3
BY DEF Weight

\* A cell starts with a plan that fits.
LEMMA BudgetInit == ASSUME Init, CellInv PROVE Budget
<1>1. /\ calls = 0 /\ turn = 0 /\ todo = Plan(cell.kind) /\ status = "running"
      /\ cell.kind \in Kinds
  BY DEF Init, CellInv
<1>2. calls \in Nat /\ turn \in 0..MaxTurns
  BY <1>1, MaxTurnsAssumption
<1>3. CASE InElicitation
  <2>1. PICK s \in TurnStages : todo = <<s>>
    <3>1. todo = TurnPlan(cell.kind, 0)
      BY <1>1, <1>3 DEF Plan, InElicitation
    <3> QED BY <3>1, TurnStarts
  <2>2. calls + Weight(s) <= 3 * (turn + 1) /\ calls <= 3 * (turn + 1)
    BY <1>1, Weights
  <2> QED BY <1>2, <1>3, <2>1, <2>2 DEF Budget
<1>4. CASE ~InElicitation
  <2>1. PlanOfKind(cell.kind)
    BY <1>1, <1>4, EveryPlanFits DEF InElicitation
  <2>2. PICK n \in Nat : /\ n <= EstimatedInvocations(cell.kind)
                         /\ PlanFits(todo, cell.kind.intent = "gold", n)
    BY <1>1, <2>1 DEF PlanOfKind
  <2>3. EstimatedInvocations(cell.kind) \in Nat
    BY <2>1 DEF PlanOfKind
  <2>4. calls <= EstimatedInvocations(cell.kind) /\ calls + n <= EstimatedInvocations(cell.kind)
    BY <1>1, <2>2, <2>3
  <2> QED BY <1>2, <1>4, <2>2, <2>4 DEF Budget
<1> QED BY <1>3, <1>4

\* A stage before the end of a batch plan, or the step that ends it.
BatchStep ==
    /\ status = "running" /\ UNCHANGED <<cell, turn>>
    /\ IF Head(todo) \in ModelStages THEN calls' = calls + 1 ELSE UNCHANGED calls
    /\ \/ status' # "running"
       \/ status' = "running" /\ Head(todo) \notin Terminal /\ todo' = Tail(todo)

\* A stage of a turn: it ends the cell, or it goes on to a lighter one, or to the next turn.
TurnStep ==
    /\ status = "running" /\ UNCHANGED cell /\ calls' = calls + 1
    /\ \/ status' # "running" /\ UNCHANGED turn
       \/ /\ \E s \in TurnStages : todo' = <<s>> /\ Weight(s) < Weight(Head(todo))
          /\ UNCHANGED turn
       \/ turn < MaxTurns /\ turn' = turn + 1 /\ todo' = TurnPlan(cell.kind, turn + 1)

\* The stages of batches and of turns are apart.
LEMMA Stages ==
  /\ BatchStages \cap TurnStages = {} /\ TurnStages \subseteq ModelStages
  /\ Terminal \subseteq BatchStages \cap ModelStages
BY DEF BatchStages, Asking, Terminal, TurnStages, ModelStages

\* The steps of the cells outside the elicitation loop, and of its boundary.
LEMMA BatchSteps ==
  ASSUME \/ GoldBoundary \/ ResolutionUnreadable \/ ResolutionClarifies \/ ResolutionMaps
         \/ Render \/ SelectFromRegistry \/ SelectByRouter \/ AnalysisStage \/ CheckedStage
         \/ Execute \/ ExecuteTyped \/ Propose
  PROVE  BatchStep /\ Head(todo) \in BatchStages
<1>1. CASE GoldBoundary \/ Render \/ SelectFromRegistry
  BY <1>1 DEF GoldBoundary, Render, SelectFromRegistry, At, Proceed, ReturnUnacted, Return, BatchStep,
     BatchStages, ModelStages, Terminal
<1>2. CASE ResolutionUnreadable \/ ResolutionClarifies \/ ResolutionMaps \/ SelectByRouter
           \/ AnalysisStage \/ CheckedStage
  BY <1>2 DEF ResolutionUnreadable, ResolutionClarifies, ResolutionMaps, SelectByRouter, AnalysisStage,
     CheckedStage, At, Invoked, Proceed, ReturnUnacted, Return, BatchStep, BatchStages, Asking,
     ModelStages, Terminal
<1>3. CASE Execute \/ ExecuteTyped \/ Propose
  <2>1. \A p : Decide(p) \/ DecideTyped(p) => status' = "done"
    BY DEF Decide, DecideTyped, Act, ReturnUnacted, Return
  <2>2. \A a \in JsonAnswers : DecideProposal(a) => status' = "done"
    <3> SUFFICES ASSUME NEW a \in JsonAnswers, DecideProposal(a) PROVE status' = "done"
      OBVIOUS
    <3>1. FALSE \in BOOLEAN /\ a \in ExecutorAnswers
      BY JsonAnswersCount
    <3>2. Parse(a, FALSE).decision \in {"none", "ACT", "CLARIFY", "REFUSE"}
      BY <3>1, ParsedAnswers
    <3> QED BY <3>2 DEF DecideProposal, Act, ReturnUnacted, Return
  <2>3. /\ status = "running" /\ UNCHANGED <<cell, turn>> /\ calls' = calls + 1
        /\ status' = "done" /\ Head(todo) \in Terminal
    BY <1>3, <2>1, <2>2 DEF Execute, ExecuteTyped, Propose, At, Invoked, Terminal
  <2> QED BY <2>3, Stages DEF BatchStep
<1> QED BY <1>1, <1>2, <1>3

\* The steps of a turn.
LEMMA TurnSteps ==
  ASSUME turn \in Nat, TurnExecutor \/ Assess \/ Clarify \/ TurnCanonicalizer
  PROVE  TurnStep /\ Head(todo) \in TurnStages
<1>1. status = "running" /\ UNCHANGED cell /\ calls' = calls + 1 /\ Head(todo) \in TurnStages
  BY DEF TurnExecutor, Assess, Clarify, TurnCanonicalizer, At, Invoked, TurnStages
<1> DEFINE Ends == status' # "running" /\ UNCHANGED turn
           Goes == turn < MaxTurns /\ turn' = turn + 1 /\ todo' = TurnPlan(cell.kind, turn + 1)
           Lighter == /\ \E s \in TurnStages : todo' = <<s>> /\ Weight(s) < Weight(Head(todo))
                      /\ UNCHANGED turn
<1>2. \A keys, r : AskUser(keys, r) => Ends \/ Goes
  BY MaxTurnsAssumption DEF AskUser, ReturnUnacted, Return, NextTurn
<1>3. \A r : AskNothing(r) => Ends
  BY DEF AskNothing, ReturnUnacted, Return
<1>4. CASE TurnExecutor
  <2>1. \A call, r : Act(call, r) => status' # "running"
    BY DEF Act, Return
  <2>2. \A r : ReturnUnacted(r) => status' # "running"
    BY DEF ReturnUnacted, Return
  <2>3. PICK p : EndTurn(p)
    BY <1>4 DEF TurnExecutor
  <2>4. Ends \/ \E keys, r : AskUser(keys, r)
    BY <2>1, <2>2, <2>3 DEF EndTurn
  <2> QED BY <1>1, <1>2, <2>4 DEF TurnStep
<1>5. CASE Assess
  <2>1. Head(todo) = "assessor" /\ UNCHANGED turn
        /\ (todo' = <<"turn_canonicalizer">> \/ todo' = <<"clarifier">>)
    BY <1>5 DEF Assess, At
  <2>2. Lighter
    BY <2>1 DEF Weight, TurnStages
  <2> QED BY <1>1, <2>2 DEF TurnStep
<1>6. CASE Clarify
  BY <1>1, <1>2, <1>3, <1>6 DEF Clarify, TurnStep
<1>7. CASE TurnCanonicalizer
  <2>1. \/ \E r : AskNothing(r)
        \/ \E keys, r : AskUser(keys, r)
        \/ todo' = <<"gate_executor">> /\ UNCHANGED turn /\ Head(todo) = "turn_canonicalizer"
    BY <1>7 DEF TurnCanonicalizer, At
  <2>2. todo' = <<"gate_executor">> /\ UNCHANGED turn /\ Head(todo) = "turn_canonicalizer" => Lighter
    BY DEF Weight, TurnStages
  <2> QED BY <1>1, <1>2, <1>3, <2>1, <2>2 DEF TurnStep
<1> QED BY <1>4, <1>5, <1>6, <1>7

\* A provider that fails ends a batch or a turn.
LEMMA FailedSteps ==
  ASSUME ProviderFails
  PROVE  BatchStep /\ calls' = calls + 1 /\ status' # "running" /\ UNCHANGED turn
BY DEF ProviderFails, Invoked, BatchStep

\* Every step keeps to the budget.
LEMMA BudgetStep == ASSUME Budget, CellInv, [Next]_vars PROVE Budget'
<1>1. CASE UNCHANGED vars
  BY <1>1 DEF Budget, vars, InElicitation
<1> SUFFICES ASSUME Next PROVE Budget'
  BY <1>1
<1>2. calls \in Nat /\ turn \in Nat /\ turn \in 0..MaxTurns /\ MaxTurns \in Nat
  BY MaxTurnsAssumption DEF Budget
<1>3. \/ TurnStep /\ Head(todo) \in TurnStages
      \/ BatchStep /\ Head(todo) \in BatchStages
      \/ BatchStep /\ calls' = calls + 1 /\ status' # "running" /\ Head(todo) \in ModelStages
  <2>1. ProviderFails => Head(todo) \in ModelStages
    BY DEF ProviderFails
  <2> QED BY <1>2, <2>1, BatchSteps, TurnSteps, FailedSteps DEF Next
<1>4. status = "running" /\ cell' = cell /\ (InElicitation' <=> InElicitation)
  BY <1>3 DEF TurnStep, BatchStep, InElicitation
<1>5. CASE InElicitation
  <2>1. PICK s \in TurnStages : todo = <<s>> /\ calls + Weight(s) <= 3 * (turn + 1)
    BY <1>4, <1>5 DEF Budget
  <2>2. Head(todo) = s /\ Weight(s) \in 1..3 /\ s \in ModelStages /\ s \notin BatchStages
    BY <2>1, Weights, Stages
  <2>3. calls' = calls + 1
    BY <1>3, <2>2 DEF TurnStep
  <2>4. CASE status' # "running" /\ UNCHANGED turn
    BY <1>2, <1>4, <1>5, <2>1, <2>2, <2>3, <2>4 DEF Budget
  <2>5. CASE UNCHANGED turn /\ \E n \in TurnStages : todo' = <<n>> /\ Weight(n) < Weight(s)
    <3>1. PICK n \in TurnStages : todo' = <<n>> /\ Weight(n) < Weight(s)
      BY <2>5
    <3>2. Weight(n) \in 1..3
      BY Weights
    <3>3. calls' + Weight(n) <= 3 * (turn' + 1) /\ calls' <= 3 * (turn' + 1) /\ calls' \in Nat
      BY <1>2, <2>1, <2>2, <2>3, <2>5, <3>1, <3>2
    <3> QED BY <1>2, <1>4, <1>5, <2>5, <3>1, <3>3 DEF Budget
  <2>6. CASE turn < MaxTurns /\ turn' = turn + 1 /\ todo' = TurnPlan(cell.kind, turn + 1)
    <3>1. PICK n \in TurnStages : TurnPlan(cell.kind, turn + 1) = <<n>>
      BY TurnStarts
    <3>2. Weight(n) \in 1..3 /\ todo' = <<n>>
      BY <2>6, <3>1, Weights
    <3>3. /\ calls' + Weight(n) <= 3 * (turn' + 1) /\ calls' <= 3 * (turn' + 1) /\ calls' \in Nat
          /\ turn' \in 0..MaxTurns
      BY <1>2, <2>1, <2>2, <2>3, <2>6, <3>2
    <3> QED BY <1>4, <1>5, <3>2, <3>3 DEF Budget
  <2> QED BY <1>3, <2>2, <2>4, <2>5, <2>6 DEF TurnStep, BatchStep
<1>6. CASE ~InElicitation
  <2> DEFINE gold == cell.kind.intent = "gold"
             most == EstimatedInvocations(cell.kind)
  <2>1. PICK n \in Nat : calls + n <= most /\ PlanFits(todo, gold, n)
    BY <1>4, <1>6 DEF Budget
  <2>2. most \in Nat
    BY <1>6, EveryPlanFits DEF CellInv, PlanOfKind, InElicitation
  <2>3. /\ Head(todo) \in BatchStages
        /\ Head(todo) \notin Terminal =>
             PlanFits(Tail(todo), gold, IF Head(todo) \in ModelStages THEN n - 1 ELSE n)
        /\ Head(todo) \in ModelStages => n >= 1
    BY <2>1, StageSpent
  <2> HIDE DEF gold, most
  <2>4. BatchStep
    BY <1>3, <2>3, Stages
  <2> DEFINE m == IF Head(todo) \in ModelStages THEN n - 1 ELSE n
  <2>5. m \in Nat /\ calls' \in Nat /\ calls' + m <= most /\ calls' <= most
    BY <1>2, <2>1, <2>2, <2>3, <2>4 DEF BatchStep
  <2>6. status' = "running" => PlanFits(todo', gold, m)
    BY <2>3, <2>4 DEF BatchStep
  <2> HIDE DEF m
  <2>7. cell' = cell /\ turn' = turn
    BY <2>4 DEF BatchStep
  <2> QED BY <1>2, <1>4, <1>6, <2>5, <2>6, <2>7 DEF Budget, gold, most
<1> QED BY <1>5, <1>6
-------------------------------------------------------------------------------
(* What the runs check *)

\* The cost bound of the dry run holds of every cell: what a cell has spent and what
\* its remaining stages may still ask stay within estimated_invocations, and each
\* turn of an elicitation within three calls.
THEOREM CallsBounded == Spec => []CallsAreBounded
<1>1. Init => CellInv /\ Budget
  BY CellInit, BudgetInit
<1>2. CellInv /\ Budget /\ [Next]_vars => (CellInv /\ Budget)'
  BY CellStep, BudgetStep
<1>3. CellInv /\ Budget => CallsAreBounded
  <2> SUFFICES ASSUME CellInv, Budget PROVE CallsAreBounded
    OBVIOUS
  <2>1. ASSUME status = "running" PROVE todo # <<>>
    <3>1. CASE InElicitation
      <4>1. PICK s : todo = <<s>>
        BY <2>1, <3>1 DEF Budget
      <4> QED BY <4>1
    <3>2. CASE ~InElicitation
      BY <2>1, <3>2, StageSpent DEF Budget
    <3> QED BY <3>1, <3>2
  <2>2. CellTypeOK
    BY <2>1 DEF CellTypeOK, CellInv, Budget, Typed
  <2> QED BY <2>2 DEF CallsAreBounded, Budget
<1> QED BY <1>1, <1>2, <1>3, PTL DEF Spec

\* The events of a cell are those of at most one call, the state of its simulator is
\* another than the case's only when that call was accepted.
THEOREM ActsAtMostOnce == Spec => []OneCallAndItsEffects
<1>1. CellInv => OneCallAndItsEffects
  <2> SUFFICES ASSUME CellInv PROVE OneCallAndItsEffects
    OBVIOUS
  <2> DEFINE attempts == {i \in DOMAIN events : events[i] = "attempted"}
  <2>1. attempts \in {{}, {1}}
    <3>1. CASE events = <<>>
      BY <3>1
    <3>2. CASE events = RejectedEvents
      BY <3>2 DEF RejectedEvents
    <3>3. CASE events = AcceptedEvents
      BY <3>3 DEF AcceptedEvents
    <3> QED BY <3>1, <3>2, <3>3 DEF CellInv
  <2>2. Cardinality(attempts) <= 1
    <3>1. Cardinality({}) = 0 /\ Cardinality({1}) = 1
      BY FS_EmptySet, FS_Singleton
    <3> HIDE DEF attempts
    <3> QED BY <2>1, <3>1
  <2>3. AnyAction => status = "done" /\ result.decision = "ACT"
    BY DEF CellInv, AnyAction
  <2>4. sim # Case.initial => "accepted" \in ToSet(events)
    <3>1. sim # Case.initial => events = AcceptedEvents
      BY DEF CellInv
    <3>2. 2 \in DOMAIN AcceptedEvents /\ AcceptedEvents[2] = "accepted"
      BY DEF AcceptedEvents
    <3> QED BY <3>1, <3>2 DEF ToSet
  <2> QED BY <2>2, <2>3, <2>4 DEF OneCallAndItsEffects
<1> QED BY <1>1, CellsActLast, PTL

\* The scores never contradict each other: an action that was not wanted is no correct
\* decision, and neither is anything of a cell whose provider failed.
THEOREM ScoresNeverDisagree == Spec => []ScoresAgree
<1>1. CellInv => ScoresAgree
  <2> SUFFICES ASSUME CellInv, Ended
               PROVE  /\ ~(FalseAction /\ DecisionCorrect)
                      /\ status = "failed" => ~DecisionCorrect /\ ~FinalStateCorrect
    BY DEF ScoresAgree
  <2>1. ASSUME FalseAction, DecisionCorrect PROVE FALSE
    <3>1. result.decision = "ACT"
      BY <2>1 DEF CellInv, FalseAction, AnyAction
    <3>2. Behavior["ACT"] = "EXECUTE"
      BY DEF Behavior
    <3> QED BY <2>1, <3>1, <3>2 DEF FalseAction, DecisionCorrect
  <2>2. status = "failed" => ~DecisionCorrect /\ ~FinalStateCorrect
    BY DEF CellInv, DecisionCorrect, FinalStateCorrect
  <2> QED BY <2>1, <2>2
<1> QED BY <1>1, CellsActLast, PTL

\* Where a state is expected of an action, it is the one that the expected call leaves,
\* and that call is accepted: the gold call of the case, or the contrast of the request.
LEMMA ExpectedCall ==
  ASSUME CellInv, Expected.behavior = "EXECUTE", Expected.states # {}
  PROVE  /\ AcceptedIn(Case.initial, Expected.call)
         /\ Expected.states = {Leaves(Case.initial, Expected.call)}
<1> DEFINE Founded(e) == /\ AcceptedIn(Case.initial, e.call)
                         /\ e.states = {Leaves(Case.initial, e.call)}
<1>1. cell.case \in DOMAIN Cases /\ Case = Cases[cell.case]
  BY DEF CellInv, Case
<1>2. ASSUME NEW behavior, ExpectGold(behavior).states # {}
      PROVE  Founded(ExpectGold(behavior))
  <2>1. Case.gold = "ACT"
    BY <1>2 DEF ExpectGold
  <2>2. AcceptedIn(Case.initial, Case.call)
    BY <1>1, <2>1, CasesAssumption DEF AcceptedIn
  <2> QED BY <2>1, <2>2 DEF ExpectGold, StateAfter, Leaves
<1>3. ASSUME NEW call, ExpectContrast(call).states # {}
      PROVE  Founded(ExpectContrast(call))
  BY <1>3 DEF ExpectContrast, StateAfter, AcceptedIn, Leaves
<1>4. \A behavior : ExpectNoAction(behavior).behavior = behavior
  BY DEF ExpectNoAction
<1>5. ASSUME NEW request, request.role \in {"none", "INVARIANT", "CONTRAST", "REFUSAL", "CLARIFICATION"},
             ExpectedOutcome(request).behavior = "EXECUTE", ExpectedOutcome(request).states # {}
      PROVE  Founded(ExpectedOutcome(request))
  <2>1. CASE request.role = "none"
    BY <1>2, <1>5, <2>1 DEF ExpectedOutcome
  <2>2. CASE request.role = "INVARIANT"
    BY <1>2, <1>5, <2>2 DEF ExpectedOutcome
  <2>3. CASE request.role = "CONTRAST"
    BY <1>3, <1>5, <2>3 DEF ExpectedOutcome
  <2>4. CASE request.role \in {"REFUSAL", "CLARIFICATION"}
    BY <1>4, <1>5, <2>4 DEF ExpectedOutcome
  <2> QED BY <1>5, <2>1, <2>2, <2>3, <2>4
<1>6. NoRequest.role = "none"
  BY DEF NoRequest
<1>7. cell.request.role \in {"none", "INVARIANT", "CONTRAST", "REFUSAL", "CLARIFICATION"}
  BY <1>1, <1>6, CasesAssumption DEF CellInv
<1>8. Expected \in {ExpectedOutcome(NoRequest), ExpectedOutcome(cell.request)}
  BY DEF Expected
<1>9. Founded(Expected)
  <2> HIDE DEF Founded
  <2> QED BY <1>5, <1>6, <1>7, <1>8
<1> QED BY <1>9

\* The simulator and the comparison of calls agree: a cell that was to act and left the
\* expected state has made the expected call.  A state that is not the one of the case
\* can only come from an accepted call, the expected one is left by one, and no two
\* different calls leave alike states.
LEMMA StatesTellCalls == CellInv => RightStateMeansRightCall
<1> SUFFICES ASSUME CellInv, status = "done", Expected.behavior = "EXECUTE", FinalStateCorrect
             PROVE  LET traced == Traced(Operations[Expected.call.tool])
                    IN  /\ CallCorrectOn(Compared \cap traced)
                        /\ Compared \subseteq traced => FullCallCorrect
  BY DEF RightStateMeansRightCall
<1> DEFINE a == Expected.call
           b == result.call
           given == DOMAIN a.args
           traced == Traced(Operations[a.tool])
<1>1. PICK s \in Expected.states : Alike(s, sim)
  BY DEF FinalStateCorrect, Alike
<1>2. AcceptedIn(Case.initial, a) /\ s = Leaves(Case.initial, a)
  BY <1>1, ExpectedCall
<1>3. Fresh(Case.initial)
  BY CasesAssumption DEF CellInv, Case, Fresh
<1>4. sim # Case.initial
  <2> SUFFICES ASSUME sim = Case.initial PROVE FALSE
    OBVIOUS
  <2>1. /\ Entity(a) \in DOMAIN Leaves(Case.initial, a)
        /\ ~SameRecord(Leaves(Case.initial, a)[Entity(a)], Case.initial[Entity(a)])
    BY <1>2, <1>3, AcceptedCallShows
  <2> QED BY <1>1, <1>2, <2>1 DEF Alike
<1>5. /\ result.decision = "ACT" /\ result.valid
      /\ AcceptedIn(Case.initial, b) /\ sim = Leaves(Case.initial, b)
  BY <1>4 DEF CellInv
<1>6. DecisionCorrect
  <2>1. Behavior["ACT"] = "EXECUTE"
    BY DEF Behavior
  <2> QED BY <1>5, <2>1 DEF DecisionCorrect
<1>7. /\ a.tool = b.tool
      /\ \A n \in traced : n \in DOMAIN b.args /\ Normalized(b.args[n]) = Normalized(a.args[n])
  BY <1>1, <1>2, <1>3, <1>5, SameCall
<1>8. Compared = given
  <2>1. ValidArguments(Operations[a.tool], a.args)
    BY <1>2, WhatAcceptedMeans
  <2> QED BY <2>1 DEF Compared, ValidArguments
<1>9. \A n \in Compared \cap traced : ArgumentCorrect(n)
  BY <1>7, <1>8 DEF ArgumentCorrect
<1> HIDE DEF a, b, traced
<1>10. CallCorrectOn(Compared \cap traced)
  BY <1>6, <1>7, <1>9 DEF CallCorrectOn, a, b
<1>11. Compared \subseteq traced => Compared \cap traced = Compared
  OBVIOUS
<1> QED BY <1>10, <1>11 DEF FullCallCorrect, a, traced

\* The decision, the call and the final state of a cell are three judges of it, and they
\* never contradict each other, for any operations whose contracts leave states of their
\* own: whatever the strategy, the answers of the providers and the calls they propose.
THEOREM JudgesNeverDisagree == Spec => []JudgesAgree
<1>1. CellInv => RightStateMeansRightCall
  BY StatesTellCalls
<1> QED BY <1>1, ScoresNeverDisagree, CellsActLast, PTL DEF JudgesAgree
-------------------------------------------------------------------------------
(* What a cell may act on *)

\* What the user said, the context and the answers support.
Supported(intent, seen, visible) ==
    LET op == Operations[intent.tool]
    IN  /\ intent.entityType = op.entityType
        /\ Text(intent.entity) \in seen \cup visible
        /\ \A n \in DOMAIN op.arguments :
             op.arguments[n].required /\ n # op.idArgument =>
               /\ n \in DOMAIN intent.args
               /\ \/ Token(intent.args[n]) \in seen
                  \/ Same(intent.args[n], Derived(intent, n))

\* Every value is the same as itself.
LEMMA SameAsItself == \A v : Same(v, v)
BY DEF Same

\* Nothing is missing only of an intent that is supported, once what the state implies
\* has been filled in.
LEMMA GroundedIsSupported ==
  ASSUME cell.case \in DOMAIN Cases, NEW intent \in Intents[cell.case], NEW said, NEW context,
         Missing(intent, said, context) = {}
  PROVE  Supported(WithDerived(intent), said \cup context, cell.request.visible)
<1> DEFINE whole == WithDerived(intent)
           op == Operations[intent.tool]
           filled == [n \in DOMAIN intent.args \cup Groundable(intent) |->
                        IF n \in DOMAIN intent.args THEN intent.args[n] ELSE Derived(intent, n)]
<1>1. DOMAIN intent = {"tool", "entityType", "entity", "args"}
  BY IntentsAssumption
<1>2. /\ whole.tool = intent.tool /\ whole.entityType = intent.entityType
      /\ whole.entity = intent.entity /\ whole.args = filled
  BY <1>1 DEF WithDerived
<1>3. /\ ValidMapping(intent) /\ Anchored(intent, said, context)
      /\ \A n \in Groundable(intent) : Grounded(intent, n, said, context)
  BY DEF Missing
<1>4. \A n : Derived(whole, n) = Derived(intent, n)
  BY <1>2 DEF Derived
<1>5. /\ whole.entityType = op.entityType
      /\ Text(whole.entity) \in (said \cup context) \cup cell.request.visible
  BY <1>2, <1>3 DEF ValidMapping, Anchored
<1>6. ASSUME NEW n \in DOMAIN op.arguments, op.arguments[n].required, n # op.idArgument
      PROVE  /\ n \in DOMAIN whole.args
             /\ \/ Token(whole.args[n]) \in said \cup context
                \/ Same(whole.args[n], Derived(whole, n))
  <2>1. n \in Groundable(intent)
    BY <1>3, <1>6 DEF Groundable, ValidMapping
  <2>2. Grounded(intent, n, said, context)
    BY <1>3, <2>1
  <2>3. /\ n \in DOMAIN filled
        /\ filled[n] = IF n \in DOMAIN intent.args THEN intent.args[n] ELSE Derived(intent, n)
    BY <2>1
  <2> HIDE DEF filled, whole
  <2>4. CASE n \in DOMAIN intent.args
    BY <1>2, <1>4, <2>2, <2>3, <2>4 DEF Grounded
  <2>5. CASE n \notin DOMAIN intent.args
    BY <1>2, <1>4, <2>3, <2>5, SameAsItself
  <2> QED BY <1>2, <2>3, <2>4, <2>5
<1> HIDE DEF whole
<1>7. Operations[whole.tool] = op
  BY <1>2
<1> QED BY <1>5, <1>6, <1>7 DEF Supported, whole

Support ==
    cell.kind.intent # "gold" /\ resolution # NoIntent =>
        Supported(resolution, cell.request.said \cup shared, cell.request.visible)

\* What is supported stays so as answers are added.
LEMMA SupportGrows ==
  ASSUME cell' = cell, NEW intent, NEW seen, NEW more, NEW visible, seen \subseteq more,
         Supported(intent, seen, visible)
  PROVE  Supported(intent, more, visible)'
<1>1. \A n : Derived(intent, n)' = Derived(intent, n)
  BY DEF Derived, Case
<1> QED BY <1>1 DEF Supported

\* An intent crosses the boundary grounded, or it is gold; the context only grows.
LEMMA ResolutionSteps ==
  ASSUME Budget, Next
  PROVE  /\ cell' = cell
         /\ \/ resolution' = resolution /\ shared \subseteq shared'
            \/ \E intent \in Intents[cell.case] :
                  /\ Missing(intent, cell.request.said, shared) = {}
                  /\ resolution' = WithDerived(intent) /\ shared' = shared
            \/ cell.kind.intent = "gold"
<1> DEFINE Keeps == resolution' = resolution /\ shared \subseteq shared'
           Maps == \E intent \in Intents[cell.case] :
                     /\ Missing(intent, cell.request.said, shared) = {}
                     /\ resolution' = WithDerived(intent) /\ shared' = shared
<1>1. CASE GoldBoundary
  <2>1. status = "running" /\ Head(todo) = "gold" /\ cell' = cell
    BY <1>1 DEF GoldBoundary, At
  <2>2. CASE InElicitation
    <3>1. PICK s \in TurnStages : todo = <<s>>
      BY <2>1, <2>2 DEF Budget
    <3>2. s = "gold"
      BY <2>1, <3>1
    <3> QED BY <3>2 DEF TurnStages
  <2>3. CASE ~InElicitation
    <3>1. PICK n \in Nat : PlanFits(todo, cell.kind.intent = "gold", n)
      BY <2>1, <2>3 DEF Budget
    <3> QED BY <2>1, <3>1, StageSpent
  <2> QED BY <2>2, <2>3
<1>2. \A keys, r : AskUser(keys, r) => shared \subseteq shared'
  BY DEF AskUser, NextTurn
<1>3. \A r : AskNothing(r) => shared \subseteq shared'
  BY DEF AskNothing
<1>4. CASE \/ ProviderFails \/ ResolutionUnreadable \/ ResolutionClarifies \/ Render
           \/ SelectFromRegistry \/ SelectByRouter \/ AnalysisStage \/ CheckedStage
           \/ Execute \/ ExecuteTyped \/ Propose \/ Assess
  <2>1. UNCHANGED <<cell, shared, resolution>>
    BY <1>4 DEF ProviderFails, ResolutionUnreadable, ResolutionClarifies, Render, SelectFromRegistry,
       SelectByRouter, AnalysisStage, CheckedStage, Execute, ExecuteTyped, Propose, Assess
  <2> QED BY <2>1
<1>5. CASE ResolutionMaps
  <2>1. cell' = cell /\ Maps
    BY <1>5 DEF ResolutionMaps
  <2> QED BY <2>1
<1>6. CASE TurnExecutor
  <2>1. PICK p : EndTurn(p)
    BY <1>6 DEF TurnExecutor
  <2>2. shared \subseteq shared'
    BY <1>2, <2>1 DEF EndTurn
  <2> QED BY <1>6, <2>2 DEF TurnExecutor
<1>7. CASE Clarify
  BY <1>2, <1>3, <1>7 DEF Clarify
<1>8. CASE TurnCanonicalizer
  <2>1. Keeps \/ Maps
    BY <1>2, <1>3, <1>8 DEF TurnCanonicalizer
  <2> QED BY <1>8, <2>1 DEF TurnCanonicalizer
<1> QED BY <1>1, <1>4, <1>5, <1>6, <1>7, <1>8 DEF Next

\* Every step keeps the resolved intent supported.
LEMMA SupportStep ==
  ASSUME CellInv, Budget, Support, [Next]_vars PROVE Support'
<1>1. CASE UNCHANGED vars
  BY <1>1 DEF Support, vars, Supported, Derived, Case
<1>2. CASE Next
  <2> SUFFICES ASSUME cell.kind.intent # "gold", resolution' # NoIntent
               PROVE  Supported(resolution, cell.request.said \cup shared, cell.request.visible)'
    BY <1>2, ResolutionSteps DEF Support
  <2>1. cell' = cell /\ cell.case \in DOMAIN Cases
    BY <1>2, ResolutionSteps DEF CellInv
  <2>2. PICK intent, more, seen, visible :
           /\ intent = resolution' /\ more = cell.request.said \cup shared'
           /\ seen = cell.request.said \cup shared /\ visible = cell.request.visible
    OBVIOUS
  <2>3. Supported(intent, seen, visible) /\ seen \subseteq more
    <3>1. CASE resolution' = resolution /\ shared \subseteq shared'
      BY <2>2, <3>1 DEF Support
    <3>2. CASE \E i \in Intents[cell.case] :
                  /\ Missing(i, cell.request.said, shared) = {}
                  /\ resolution' = WithDerived(i) /\ shared' = shared
      BY <2>1, <2>2, <3>2, GroundedIsSupported
    <3> QED BY <1>2, <3>1, <3>2, ResolutionSteps
  <2>4. Supported(intent, more, visible)'
    BY <2>1, <2>3, SupportGrows
  <2> QED BY <2>1, <2>2, <2>4 DEF Supported, Derived, Case
<1> QED BY <1>1, <1>2

\* No executor is asked to act on an intent that the user's words, the context and the
\* answers so far do not support, however many turns it took to reach it.
THEOREM OnlyGroundedIntents == Spec => []ActsOnGroundedIntent
<1>1. Init => CellInv /\ Budget /\ Support
  BY CellInit, BudgetInit DEF Init, Support
<1>2. CellInv /\ Budget /\ Support /\ [Next]_vars => (CellInv /\ Budget /\ Support)'
  BY CellStep, BudgetStep, SupportStep
<1>3. Support => ActsOnGroundedIntent
  BY DEF Support, ActsOnGroundedIntent, Supported
<1> QED BY <1>1, <1>2, <1>3, PTL DEF Spec
===============================================================================
