------------------------------- MODULE Inference -------------------------------
(* What the statistics promise of the comparisons an evaluation makes: paired  *)
(* cells are gathered one by one, at any point the comparison is bootstrapped  *)
(* with whatever the generator draws, and its p-value joins the exploratory    *)
(* family.                                                                     *)
EXTENDS Statistics

CONSTANTS
    Keys,     \* the cells that may be paired, <<case, number>>
    Samples,  \* resamples of a bootstrap
    Outside,  \* (1 - confidence) / 2
    Margin,   \* the equivalence margin
    Names,    \* the comparisons of the exploratory family
    PValues,  \* what their p-values are taken from, in 1..Denominator
    Denominator,
    Alpha     \* the level of the family

ASSUME InferenceAssumption ==
    /\ Samples \in Nat \ {0}
    /\ Outside[1] \in Nat /\ Outside[2] \in Nat /\ 0 < Outside[1] /\ 2 * Outside[1] < Outside[2]
    /\ Margin \in Fractions
    /\ Denominator \in Nat /\ PValues \subseteq 1..Denominator
    /\ Alpha \in Fractions
    /\ \A k \in Keys : k = <<k[1], k[2]>>

VARIABLES
    pairs,     \* the paired values of a comparison, A and B for each cell
    interval,  \* its last bootstrap; without cases, none is defined
    pvalues,   \* the p-values of the family
    fdr        \* benjamini_hochberg of them

inferenceVars == <<pairs, interval, pvalues, fdr>>

InitInference ==
    /\ pairs = <<>>
    /\ interval = Interval(<<>>, <<>>, Outside)
    /\ pvalues = <<>>
    /\ fdr = <<>>

Pair(k, a, b) ==
    /\ k \notin DOMAIN pairs
    /\ pairs' = [l \in DOMAIN pairs \cup {k} |-> IF l = k THEN <<a, b>> ELSE pairs[l]]
    /\ interval' = Interval(<<>>, <<>>, Outside)
    /\ UNCHANGED <<pvalues, fdr>>

\* The draws are any: nothing is promised of the generator.  With its seed, a second
\* evaluation draws the same.
Bootstrap ==
    LET cases == CasesIn(pairs)
    IN  /\ interval.cases = 0
        /\ \E draws \in [1..Samples -> [1..Cardinality(cases) -> cases]] :
              interval' = Interval(Delta(pairs), draws, Outside)
        /\ UNCHANGED <<pairs, pvalues, fdr>>

Test(n, p) ==
    /\ n \notin DOMAIN pvalues
    /\ pairs = <<>>
    /\ pvalues' = [m \in DOMAIN pvalues \cup {n} |-> IF m = n THEN p ELSE pvalues[m]]
    /\ fdr' = BenjaminiHochberg(pvalues', Denominator, Alpha)
    /\ UNCHANGED <<pairs, interval>>

NextInference ==
    \/ \E k \in Keys, a, b \in {0, 1} : pvalues = <<>> /\ Pair(k, a, b)
    \/ Bootstrap
    \/ \E n \in Names, p \in PValues : Test(n, p)

InferenceSpec == InitInference /\ [][NextInference]_inferenceVars
-------------------------------------------------------------------------------
InferenceTypeOK ==
    /\ DOMAIN pairs \subseteq Keys
    /\ \A k \in DOMAIN pairs : pairs[k] \in {0, 1} \X {0, 1}
    /\ interval.cases \in {0, Cardinality(CasesIn(pairs))}
    /\ DOMAIN fdr = DOMAIN pvalues

\* Whatever is drawn, the interval is ordered and stays between the worst and the
\* best case: no choice of resamples reports an effect no case shows.
IntervalsStayAmongTheCases ==
    interval.cases > 0 =>
        LET delta == Delta(pairs)
            Mean(c) == <<SumFunctionOnSet(delta, CellsOfCase(pairs, c)),
                         Cardinality(CellsOfCase(pairs, c))>>
        IN  /\ AtMost(interval.low, interval.high)
            /\ \E c \in CasesIn(pairs) : AtMost(Mean(c), interval.low)
            /\ \E c \in CasesIn(pairs) : AtMost(interval.high, Mean(c))

\* The verdict and the sign test, computed apart, never point opposite ways: an
\* improvement beyond the margin has a case that favours B, and a loss one that
\* favours A.
VerdictsHaveTheirCases ==
    interval.cases > 0 =>
        /\ Verdict(interval, Margin) = "exceeds_practical_margin" => SignTest(pairs).better # {}
        /\ Verdict(interval, Margin) = "practically_worse" => SignTest(pairs).worse # {}

\* docs/DECISIONS.md, D-045: variants and repetitions are no evidence of their own.
\* A sign test over the cells and as many repetitions of them is the same test.
RepeatsAreNoEvidence ==
    LET repeated == [k \in DOMAIN pairs \cup {<<l[1], l[2], "again">> : l \in DOMAIN pairs} |->
                        pairs[<<k[1], k[2]>>]]
    IN  SignTest(repeated).p = SignTest(pairs).p

\* The p-value counts, among the 2^n ways the discordant pairs could have fallen,
\* those at least as uneven as what was seen.
TailsAreExact ==
    LET d == Discordance(pairs)
        n == d.aOnly + d.bOnly
        Least(s) == Min({Cardinality(s), n - Cardinality(s)})
        uneven == {s \in SUBSET (1..n) : Least(s) <= Min({d.aOnly, d.bOnly})}
    IN  n > 0 => d.p = <<Cardinality(uneven), 2^n>>

\* The two halves of the correction agree: a hypothesis is rejected exactly when its
\* adjusted value is at most alpha, a smaller p is never adjusted to more than a
\* larger one, and equal ones share their fate whatever their order.
FdrIsOneRule ==
    \A m, n \in DOMAIN fdr :
        /\ fdr[n].significant <=> AtMost(fdr[n].adjusted, Alpha)
        /\ pvalues[m] <= pvalues[n] =>
             /\ AtMost(fdr[m].adjusted, fdr[n].adjusted)
             /\ fdr[n].significant => fdr[m].significant

\* An interval, and the verdict read from it, rest on the cases that were paired.
IntervalsAreOfTheCases ==
    /\ InferenceTypeOK
    /\ IntervalsStayAmongTheCases
    /\ VerdictsHaveTheirCases

\* The exact tests count what they say they count.
TestsAreExact ==
    /\ TailsAreExact
    /\ RepeatsAreNoEvidence
    /\ FdrIsOneRule
===============================================================================
