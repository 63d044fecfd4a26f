------------------------------ MODULE Statistics -------------------------------
(* lexstab/metrics/statistics.py: intervals over resampled cases, exact tests, *)
(* the false discovery rate and the equivalence decision.                      *)
(*                                                                             *)
(* An observation is keyed by its cell; the first field of a key is the case,  *)
(* the unit of resampling.  Rates are exact fractions <<sum, count>>.  What the*)
(* random generator draws is an argument: a sequence of resamples, each a      *)
(* sequence of as many cases as there are.                                     *)
EXTENDS Integers, Sequences, FiniteSets, FiniteSetsExt, Functions,
        Combinatorics

None == <<>>   \* a rate or p-value that is not defined

CasesIn(obs) == {k[1] : k \in DOMAIN obs}
CellsOfCase(obs, c) == {k \in DOMAIN obs : k[1] = c}

\* _rate: the mean over cells, when there is a cell
Rate(obs) ==
    IF DOMAIN obs = {} THEN None ELSE <<SumFunction(obs), Cardinality(DOMAIN obs)>>

Fractions == Nat \X (Nat \ {0})
Less(p, q) == p[1] * q[2] < q[1] * p[2]
AtMost(p, q) == ~Less(q, p)

\* What the bootstrap takes of paired values: B - A for each cell.
Delta(pairs) == [k \in DOMAIN pairs |-> pairs[k][2] - pairs[k][1]]
-------------------------------------------------------------------------------
\* The mean over the cells of the drawn cases: a case brings all its cells, as
\* often as it was drawn.
Resample(obs, draw) ==
    LET drawn == [i \in DOMAIN draw |-> CellsOfCase(obs, draw[i])]
    IN  <<SumFunction([i \in DOMAIN draw |-> SumFunctionOnSet(obs, drawn[i])]),
          SumFunction([i \in DOMAIN draw |-> Cardinality(drawn[i])])>>

\* Mutation: the statistics are not sorted.
BoundsUnsorted(stats, tail) ==
    LET n == Len(stats)
    IN  [low  |-> stats[((tail[1] * n) \div tail[2]) + 1],
         high |-> stats[Min({((tail[2] - tail[1]) * n) \div tail[2], n - 1}) + 1]]

\* What stands at position k when stats are sorted: fewer than k are less than it, and
\* at least k are no more.
Sorted(stats, k) ==
    CHOOSE x \in Range(stats) :
        /\ Cardinality({i \in DOMAIN stats : Less(stats[i], x)}) < k
        /\ Cardinality({i \in DOMAIN stats : AtMost(stats[i], x)}) >= k

\* stats.sort(), and the two order statistics; tail is (1 - confidence) / 2.
Bounds(stats, tail) ==
    LET n == Len(stats)
    IN  [low  |-> Sorted(stats, ((tail[1] * n) \div tail[2]) + 1),
         high |-> Sorted(stats, Min({((tail[2] - tail[1]) * n) \div tail[2], n - 1}) + 1)]

\* cluster_bootstrap_rate, and cluster_bootstrap_delta over Delta(pairs)
Interval(obs, draws, tail) ==
    LET n == Cardinality(CasesIn(obs))
        bounds == CASE n = 0 -> [low |-> None, high |-> None]
                    [] n = 1 -> [low |-> Rate(obs), high |-> Rate(obs)]
                    [] OTHER -> Bounds([i \in DOMAIN draws |-> Resample(obs, draws[i])], tail)
    IN  [estimate |-> Rate(obs), low |-> bounds.low, high |-> bounds.high,
         cases |-> n, observations |-> Cardinality(DOMAIN obs)]

\* practical_equivalence, with the margin a fraction
Verdict(delta, margin) ==
    LET negative == <<-margin[1], margin[2]>>
    IN  CASE delta.estimate = None -> "insufficient_data"
          [] delta.estimate # None /\ AtMost(negative, delta.low) /\ AtMost(delta.high, margin)
               -> "practically_equivalent"
          [] delta.estimate # None /\ Less(margin, delta.low) -> "exceeds_practical_margin"
          [] delta.estimate # None /\ Less(delta.high, negative) -> "practically_worse"
          [] OTHER -> "inconclusive"
-------------------------------------------------------------------------------
\* mcnemar_exact: the p-value as a fraction of 2^(b + c)
McNemar(b, c) ==
    LET n == b + c
        tail == SumFunction([i \in 0..Min({b, c}) |-> choose(n, i)])
    IN  IF n = 0 THEN None ELSE <<Min({2 * tail, 2^n}), 2^n>>

\* paired_discordance: a descriptive count of cells
Discordance(pairs) ==
    LET Only(a, b) == Cardinality({k \in DOMAIN pairs : pairs[k] = <<a, b>>})
    IN  [aOnly |-> Only(1, 0), bOnly |-> Only(0, 1), p |-> McNemar(Only(1, 0), Only(0, 1))]

\* case_level_sign_test: a case has the direction of the sum of its deltas.  (The
\* code compares a mean of floats with 1e-12; no other mean is as small.)
SignTest(pairs) ==
    LET Sum(c) == SumFunctionOnSet([k \in DOMAIN pairs |-> pairs[k][2] - pairs[k][1]],
                                   CellsOfCase(pairs, c))
        Of(P(_)) == {c \in CasesIn(pairs) : P(Sum(c))}
        better == Of(LAMBDA d : d > 0)
        worse == Of(LAMBDA d : d < 0)
    IN  [better |-> better, worse |-> worse, tied |-> Of(LAMBDA d : d = 0),
         p |-> McNemar(Cardinality(worse), Cardinality(better))]
-------------------------------------------------------------------------------
\* benjamini_hochberg over p, a function from names to fractions of D, at the
\* level alpha, a fraction.  The ranks follow p, names of equal p in any order.
Ranked(p) ==
    CHOOSE names \in Bijection(1..Cardinality(DOMAIN p), DOMAIN p) :
        \A r, s \in DOMAIN names : r < s => p[names[r]] <= p[names[s]]

\* Mutation: the scan ends at the first hypothesis above its line.
LastSignificantStepDown(p, names, D, alpha) ==
    LET m == Len(names)
        Meets(r) == p[names[r]] * m * alpha[2] <= D * r * alpha[1]
    IN  Max({0} \cup {r \in 1..m : \A s \in 1..r : Meets(s)})

LastSignificant(p, names, D, alpha) ==
    LET m == Len(names)
        Meets(r) == p[names[r]] * m * alpha[2] <= D * r * alpha[1]
    IN  Max({0} \cup {r \in 1..m : Meets(r)})

\* min(1, p * m / rank), and the cumulative minimum from the last rank down
Adjusted(p, names, D, r) ==
    LET Raw(s) == <<p[names[s]] * Len(names), D * s>>
        least == CHOOSE s \in r..Len(names) :
                   \A t \in r..Len(names) : AtMost(Raw(s), Raw(t))
    IN  IF Less(<<1, 1>>, Raw(least)) THEN <<1, 1>> ELSE Raw(least)

BenjaminiHochberg(p, D, alpha) ==
    LET names == Ranked(p)
        last == LastSignificant(p, names, D, alpha)
        RankOf(n) == CHOOSE r \in DOMAIN names : names[r] = n
    IN  [n \in DOMAIN p |->
            [adjusted |-> Adjusted(p, names, D, RankOf(n)),
             significant |-> RankOf(n) <= last]]
===============================================================================
