---------------------------- MODULE Freeze_proofs ----------------------------
(* Proofs about RenderingReview and Freeze for any operations, models,        *)
(* versions, discoveries, edits and kills: the approved corpus never has two  *)
(* active renderings of an operation, what loads of a version is what was     *)
(* first frozen, and it is a validated benchmark.                             *)
EXTENDS Freeze, SequenceTheorems, FiniteSetTheorems, WellFoundedInduction, TLAPS

-------------------------------------------------------------------------------
(* Rows of files *)

\* Induction over the naturals, for a set: what is not in it has a least element.
LEMMA Induction ==
  ASSUME NEW S \in SUBSET Nat, 0 \in S, \A n \in S : n + 1 \in S
  PROVE  \A n \in Nat : n \in S
<1> SUFFICES ASSUME NEW n0 \in Nat, n0 \notin S
             PROVE  FALSE
  OBVIOUS
<1> DEFINE Below(n) == 0..n
           T == {Below(n) : n \in Nat \ S}
<1>1. \A n \in Nat : Below(n) \in FiniteSubsetsOf(Nat)
  BY FS_Interval DEF FiniteSubsetsOf
<1>2. T \subseteq FiniteSubsetsOf(Nat) /\ T # {}
  BY <1>1
<1>3. PICK U \in T : \A V \in T : ~(<<V, U>> \in StrictSubsetOrdering(Nat))
  BY <1>2, FS_StrictSubsetOrderingWellFounded, WFMin
<1>4. PICK n \in Nat \ S : U = Below(n)
  OBVIOUS
<1>5. n - 1 \in Nat \ S
  OBVIOUS
<1>6. Below(n - 1) \subseteq Below(n) /\ Below(n - 1) # Below(n)
  <2>1. n \in Below(n) /\ n \notin Below(n - 1)
    BY <1>5
  <2> QED BY <1>5, <2>1
<1>7. <<Below(n - 1), Below(n)>> \in StrictSubsetOrdering(Nat)
  BY <1>1, <1>5, <1>6 DEF StrictSubsetOrdering, FiniteSubsetsOf
<1> QED BY <1>3, <1>4, <1>5, <1>7

\* What Among has kept after n rows, given what it had kept before.
KeptAt(rows, S, n, before) ==
    IF n = 0 THEN <<>> ELSE IF rows[n] \in S THEN Append(before[n - 1], rows[n]) ELSE before[n - 1]

\* The recursive function of Among exists, by induction over the rows.
LEMMA AmongIsDefined ==
  ASSUME NEW T, NEW rows \in Seq(T), NEW S
  PROVE  \E kept : /\ kept = [n \in 0..Len(rows) |-> KeptAt(rows, S, n, kept)]
                   /\ Among(rows, S) = kept[Len(rows)]
<1> DEFINE Upto(n) == {k \in [0..n -> Seq(T)] : k = [i \in 0..n |-> KeptAt(rows, S, i, k)]}
           Done == {n \in Nat : n <= Len(rows) => Upto(n) # {}}
<1>0. Len(rows) \in Nat /\ \A n \in 1..Len(rows) : rows[n] \in T
  OBVIOUS
<1> HIDE DEF Upto
<1>1. 0 \in Done
  <2>1. [i \in 0..0 |-> <<>>] \in Upto(0)
    BY DEF KeptAt, Upto
  <2> QED BY <2>1
<1>2. ASSUME NEW n \in Done PROVE n + 1 \in Done
  <2>0. n \in Nat /\ n + 1 \in Nat /\ (n <= Len(rows) => Upto(n) # {})
    OBVIOUS
  <2> SUFFICES ASSUME n + 1 <= Len(rows) PROVE Upto(n + 1) # {}
    BY <2>0
  <2> PICK k \in Upto(n) : TRUE
    BY <1>0, <2>0
  <2>1. k \in [0..n -> Seq(T)] /\ k = [i \in 0..n |-> KeptAt(rows, S, i, k)]
    BY DEF Upto
  <2> DEFINE next == [i \in 0..(n + 1) |-> IF i <= n THEN k[i] ELSE KeptAt(rows, S, n + 1, k)]
  <2>2. KeptAt(rows, S, n + 1, k) \in Seq(T)
    BY <1>0, <2>1 DEF KeptAt
  <2>3. next \in [0..(n + 1) -> Seq(T)]
    BY <2>1, <2>2
  <2>4. ASSUME NEW i \in 0..(n + 1) PROVE next[i] = KeptAt(rows, S, i, next)
    <3>1. CASE i <= n
      <4>0. i \in 0..n
        BY <2>0, <3>1
      <4>1. k[i] = KeptAt(rows, S, i, k)
        <5>1. \A f : f = [m \in 0..n |-> KeptAt(rows, S, m, k)] => f[i] = KeptAt(rows, S, i, k)
          BY <4>0
        <5> QED BY <2>1, <5>1
      <4>2. i = 0 \/ (i - 1 \in 0..n /\ next[i - 1] = k[i - 1])
        BY <3>1
      <4> QED BY <3>1, <4>1, <4>2 DEF KeptAt
    <3>2. CASE i = n + 1
      <4>1. next[n] = k[n]
        OBVIOUS
      <4> QED BY <3>2, <4>1 DEF KeptAt
    <3> QED BY <3>1, <3>2
  <2>5. next = [i \in 0..(n + 1) |-> KeptAt(rows, S, i, next)]
    BY <2>4
  <2> QED BY <2>3, <2>5 DEF Upto
<1>3. Len(rows) \in Done
  BY <1>0, <1>1, <1>2, Induction
<1>4. \E kept : kept = [n \in 0..Len(rows) |-> KeptAt(rows, S, n, kept)]
  BY <1>0, <1>3 DEF Upto
<1> DEFINE Kept == CHOOSE kept : kept = [n \in 0..Len(rows) |-> KeptAt(rows, S, n, kept)]
<1>5. Kept = [n \in 0..Len(rows) |-> KeptAt(rows, S, n, Kept)]
  BY <1>4
<1>6. Among(rows, S) = Kept[Len(rows)]
  BY DEF Among, KeptAt
<1> QED BY <1>5, <1>6

\* The rows Among selects stand at the places at[1], at[2], ... of the file.
Selection(rows, S, n, kept, at) ==
    /\ at \in [1..Len(kept) -> 1..n]
    /\ \A i \in 1..Len(kept) : kept[i] = rows[at[i]] /\ rows[at[i]] \in S
    /\ \A i, j \in 1..Len(kept) : at[i] = at[j] => i = j
    /\ \A k \in 1..n : rows[k] \in S => \E i \in 1..Len(kept) : at[i] = k

\* Among selects each row of the set once, and nothing else.
LEMMA AmongSelects ==
  ASSUME NEW T, NEW rows \in Seq(T), NEW S
  PROVE  /\ Among(rows, S) \in Seq(T)
         /\ \E at : Selection(rows, S, Len(rows), Among(rows, S), at)
<1>0. Len(rows) \in Nat /\ \A n \in 1..Len(rows) : rows[n] \in T
  OBVIOUS
<1>1. PICK kept : /\ kept = [n \in 0..Len(rows) |-> KeptAt(rows, S, n, kept)]
                  /\ Among(rows, S) = kept[Len(rows)]
  BY AmongIsDefined
<1> DEFINE Good(n) == kept[n] \in Seq(T) /\ \E at : Selection(rows, S, n, kept[n], at)
           Done == {n \in Nat : n <= Len(rows) => Good(n)}
<1> HIDE DEF Good
<1>2. 0 \in Done
  <2>1. kept[0] = <<>>
    BY <1>0, <1>1 DEF KeptAt
  <2>2. Selection(rows, S, 0, <<>>, <<>>)
    <3>1. Len(<<>>) = 0 /\ 1..0 = {} /\ <<>> \in [{} -> {}]
      OBVIOUS
    <3> QED BY <3>1 DEF Selection
  <2>3. <<>> \in Seq(T)
    OBVIOUS
  <2>4. Good(0)
    BY <2>1, <2>2, <2>3 DEF Good
  <2> QED BY <2>4
<1>3. ASSUME NEW n \in Done PROVE n + 1 \in Done
  <2>0. n \in Nat /\ n + 1 \in Nat /\ (n <= Len(rows) => Good(n))
    OBVIOUS
  <2> SUFFICES ASSUME n + 1 <= Len(rows) PROVE Good(n + 1)
    BY <2>0
  <2> DEFINE k == kept[n]
  <2>1. k \in Seq(T) /\ Len(k) \in Nat /\ \E at : Selection(rows, S, n, k, at)
    BY <1>0, <2>0 DEF Good
  <2>2. PICK at : Selection(rows, S, n, k, at)
    BY <2>1
  <2>3. kept[n + 1] = IF rows[n + 1] \in S THEN Append(k, rows[n + 1]) ELSE k
    <3>1. n + 1 \in 0..Len(rows) /\ n + 1 # 0 /\ (n + 1) - 1 = n
      BY <1>0, <2>0
    <3>2. kept[n + 1] = KeptAt(rows, S, n + 1, kept)
      BY <1>1, <3>1
    <3> QED BY <3>1, <3>2 DEF KeptAt
  <2>4. rows[n + 1] \in T
    BY <1>0, <2>0
  <2> HIDE DEF k
  <2>5. CASE rows[n + 1] \in S
    <3> DEFINE next == Append(k, rows[n + 1])
               places == [i \in 1..(Len(k) + 1) |-> IF i = Len(k) + 1 THEN n + 1 ELSE at[i]]
    <3>1. /\ next \in Seq(T) /\ Len(next) = Len(k) + 1
          /\ \A i \in 1..Len(k) : next[i] = k[i]
          /\ next[Len(k) + 1] = rows[n + 1]
      BY <2>1, <2>4, AppendProperties
    <3>2. /\ at \in [1..Len(k) -> 1..n]
          /\ \A i \in 1..Len(k) : k[i] = rows[at[i]] /\ rows[at[i]] \in S
          /\ \A i, j \in 1..Len(k) : at[i] = at[j] => i = j
          /\ \A m \in 1..n : rows[m] \in S => \E i \in 1..Len(k) : at[i] = m
      BY <2>2 DEF Selection
    <3>3. \A i \in 1..(Len(k) + 1) : i = Len(k) + 1 \/ i \in 1..Len(k)
      BY <2>1
    <3>4. \A i \in 1..Len(k) : places[i] = at[i] /\ at[i] \in 1..n /\ at[i] # n + 1
      BY <2>0, <2>1, <3>2
    <3>5. places[Len(k) + 1] = n + 1
      BY <2>1
    <3> HIDE DEF places, next
    <3>6. places \in [1..(Len(k) + 1) -> 1..(n + 1)]
      BY <2>0, <2>1, <3>2 DEF places
    <3>7. \A i \in 1..(Len(k) + 1) : next[i] = rows[places[i]] /\ rows[places[i]] \in S
      BY <2>5, <3>1, <3>2, <3>3, <3>4, <3>5
    <3>8. \A i, j \in 1..(Len(k) + 1) : places[i] = places[j] => i = j
      BY <3>2, <3>3, <3>4, <3>5
    <3>9. \A m \in 1..(n + 1) : rows[m] \in S => \E i \in 1..(Len(k) + 1) : places[i] = m
      <4>1. \A m \in 1..(n + 1) : m = n + 1 \/ m \in 1..n
        BY <2>0
      <4>2. Len(k) + 1 \in 1..(Len(k) + 1) /\ 1..Len(k) \subseteq 1..(Len(k) + 1)
        BY <2>1
      <4> QED BY <3>2, <3>4, <3>5, <4>1, <4>2
    <3>10. Selection(rows, S, n + 1, next, places)
      BY <3>1, <3>6, <3>7, <3>8, <3>9 DEF Selection
    <3>11. kept[n + 1] = next
      BY <2>3, <2>5 DEF next
    <3> QED BY <3>1, <3>10, <3>11 DEF Good
  <2>6. CASE rows[n + 1] \notin S
    <3>1. kept[n + 1] = k
      BY <2>3, <2>6
    <3>2. \A m \in 1..(n + 1) : m = n + 1 \/ m \in 1..n
      BY <2>0
    <3>3. 1..n \subseteq 1..(n + 1)
      BY <2>0
    <3>4. Selection(rows, S, n + 1, k, at)
      BY <2>2, <2>6, <3>2, <3>3 DEF Selection
    <3> QED BY <2>1, <3>1, <3>4 DEF Good
  <2> QED BY <2>5, <2>6
<1>4. Len(rows) \in Done
  BY <1>0, <1>2, <1>3, Induction
<1> QED BY <1>0, <1>1, <1>4 DEF Good

-------------------------------------------------------------------------------
LEMMA FunctionsAreSequences ==
  ASSUME NEW T, NEW n \in Nat, NEW f \in [1..n -> T]
  PROVE  f \in Seq(T) /\ Len(f) = n
OBVIOUS

\* SetToSeq lists a finite set without repeating an element.
LEMMA SetToSeqIsInjective ==
  ASSUME NEW S, IsFiniteSet(S)
  PROVE  /\ SetToSeq(S) \in [1..Cardinality(S) -> S] /\ Cardinality(S) \in Nat
         /\ IsInjective(SetToSeq(S))
<1>1. Cardinality(S) \in Nat /\ ExistsBijection(1..Cardinality(S), S)
  BY FS_CardinalityType
<1>2. PICK f \in [1..Cardinality(S) -> S] : IsInjective(f)
  BY <1>1 DEF ExistsBijection, Bijection, Injection, IsInjective
<1> QED BY <1>1, <1>2 DEF SetToSeq

\* A candidate file has one row of an operation at most, all of its own model.
CandidatesFit(rows, m) ==
    /\ rows \in Seq(Rendering)
    /\ \A k \in DOMAIN rows : rows[k].model = m
    /\ \A j, k \in DOMAIN rows : rows[j].op = rows[k].op => j = k

\* An approved corpus has one row of an id and one active row of an operation at most.
CorpusFits(rows) ==
    /\ rows \in Seq(Rendering)
    /\ \A j, k \in DOMAIN rows : IdOf(rows[j]) = IdOf(rows[k]) => j = k
    /\ \A j, k \in DOMAIN rows :
          rows[j].op = rows[k].op /\ rows[j].status = "APPROVED" /\ rows[k].status = "APPROVED"
             => j = k

KeepsActive(before, after) ==
    \A o \in Ops : ActiveOf(before, o) # {} => ActiveOf(after, o) # {}

\* The files, and what a review is going to write, fit at any time.
ReviewInv ==
    /\ candidates \in [Models -> Seq(Rendering)]
    /\ \A m \in Models : CandidatesFit(candidates[m], m)
    /\ CorpusFits(approved)
    /\ rejected \in Seq(Rendering)
    /\ review.at \in {"idle", "approved", "rejected", "input"}
    /\ review.at = "idle" => review = NoReview
    /\ review.at # "idle" =>
          /\ review = [at |-> review.at, model |-> review.model, approved |-> review.approved,
                       rejected |-> review.rejected, deferred |-> review.deferred,
                       wanted |-> review.wanted]
          /\ review.model \in Models
          /\ CandidatesFit(review.deferred, review.model)
          /\ CorpusFits(review.approved)
          /\ review.rejected \in Seq(Rendering)
    /\ review.at = "approved" => KeepsActive(approved, review.approved)
    /\ discoveries \in 0..MaxDiscoveries /\ kills \in 0..MaxKills /\ truncated \in BOOLEAN

\* What a write that is cut short leaves.
LEMMA PrefixesFit ==
  ASSUME NEW rows \in Seq(Rendering), NEW n \in 0..Len(rows)
  PROVE  /\ SubSeq(rows, 1, n) \in Seq(Rendering)
         /\ CorpusFits(rows) => CorpusFits(SubSeq(rows, 1, n))
         /\ \A m : CandidatesFit(rows, m) => CandidatesFit(SubSeq(rows, 1, n), m)
<1> DEFINE cut == SubSeq(rows, 1, n)
<1>1. Len(rows) \in Nat /\ \A i \in 1..n : rows[i] \in Rendering
  BY ElementOfSeq, LenProperties
<1>2. /\ cut \in Seq(Rendering) /\ Len(cut) = n
      /\ \A i \in 1..n : cut[i] = rows[i]
  <2>1. 1 \in Int /\ n \in Int /\ (IF 1 <= n THEN n - 1 + 1 ELSE 0) = n
    BY <1>1
  <2>2. /\ cut \in Seq(Rendering)
        /\ Len(cut) = IF 1 <= n THEN n - 1 + 1 ELSE 0
        /\ \A i \in 1..(n - 1 + 1) : cut[i] = rows[1 + i - 1]
    BY <1>1, <2>1, SubSeqProperties
  <2>3. \A i \in 1..n : i \in 1..(n - 1 + 1) /\ 1 + i - 1 = i
    BY <2>1
  <2> QED BY <2>1, <2>2, <2>3
<1>3. DOMAIN cut = 1..n /\ DOMAIN rows = 1..Len(rows) /\ 1..n \subseteq 1..Len(rows)
  BY <1>1, <1>2, LenProperties
<1> HIDE DEF cut
<1>4. CorpusFits(rows) => CorpusFits(cut)
  BY <1>2, <1>3 DEF CorpusFits
<1>5. \A m : CandidatesFit(rows, m) => CandidatesFit(cut, m)
  BY <1>2, <1>3 DEF CandidatesFit
<1> QED BY <1>2, <1>4, <1>5 DEF cut

\* The rows a discovery writes: new ones, and those of the operations it was not asked.
LEMMA DiscoveryFits ==
  ASSUME RenderingAssumption, NEW m \in Models, CandidatesFit(candidates[m], m),
         NEW ops \in SUBSET Ops, NEW n \in 1..MaxDiscoveries
  PROVE  CandidatesFit(SetToSeq({[op |-> o, model |-> m, discovery |-> n,
                                  status |-> "CANDIDATE"] : o \in ops}
                                \cup {row \in ToSet(candidates[m]) : row.op \notin ops}), m)
<1> DEFINE new == {[op |-> o, model |-> m, discovery |-> n, status |-> "CANDIDATE"] : o \in ops}
           old == {row \in ToSet(candidates[m]) : row.op \notin ops}
           rows == SetToSeq(new \cup old)
<1>1. \A r \in old : \E k \in DOMAIN candidates[m] : r = candidates[m][k]
  BY DEF ToSet
<1>2. \A r \in old : r \in Rendering /\ r.model = m /\ r.op \notin ops
  BY <1>1, ElementOfSeq, LenProperties DEF CandidatesFit
<1>3. \A r, s \in old : r.op = s.op => r = s
  BY <1>1 DEF CandidatesFit
<1>4. \A r \in new : r \in Rendering /\ r.model = m /\ r.op \in ops
  BY DEF Rendering
<1>5. \A r, s \in new : r.op = s.op => r = s
  OBVIOUS
<1> HIDE DEF new, old
<1>6. \A r, s \in new \cup old : r.op = s.op => r = s
  BY <1>2, <1>3, <1>4, <1>5
<1>7. \A r \in new \cup old : r \in Rendering /\ r.model = m /\ r.op \in Ops
  BY <1>2, <1>4 DEF Rendering
<1>8. IsFiniteSet(new \cup old)
  <2> DEFINE f == [r \in new \cup old |-> r.op]
  <2>1. f \in Injection(new \cup old, Ops)
    BY <1>6, <1>7 DEF Injection, IsInjective
  <2> QED BY <2>1, FS_Injection DEF RenderingAssumption
<1>9. /\ rows \in [1..Cardinality(new \cup old) -> new \cup old]
      /\ Cardinality(new \cup old) \in Nat
      /\ \A j, k \in DOMAIN rows : rows[j] = rows[k] => j = k
  BY <1>8, SetToSeqIsInjective DEF IsInjective
<1>10. rows \in Seq(Rendering)
  <2>1. rows \in [1..Cardinality(new \cup old) -> Rendering]
    BY <1>7, <1>9
  <2> HIDE DEF rows
  <2> QED BY <1>9, <2>1, FunctionsAreSequences
<1> HIDE DEF rows
<1>11. CandidatesFit(rows, m)
  BY <1>6, <1>7, <1>9, <1>10 DEF CandidatesFit
<1> QED BY <1>11 DEF rows, new, old

\* The rows of a decision fit, have its status and are new to the approved corpus.
LEMMA DecidedFits ==
  ASSUME NEW m \in Models, CandidatesFit(candidates[m], m), NEW decision,
         NEW d \in {"APPROVE", "REJECT", "DEFER"}
  PROVE  /\ CandidatesFit(Decided(m, decision, d), m)
         /\ \A k \in DOMAIN Decided(m, decision, d) :
               /\ Decided(m, decision, d)[k].status = StatusFor(d)
               /\ IdOf(Decided(m, decision, d)[k]) \notin IdsIn(approved)
<1> DEFINE rows == candidates[m]
           S == {r \in ToSet(rows) : IdOf(r) \notin IdsIn(approved) /\ decision[r.op] = d}
           fresh == Among(rows, S)
           marked == [k \in DOMAIN fresh |-> [fresh[k] EXCEPT !.status = StatusFor(d)]]
<1>1. rows \in Seq(Rendering)
  BY DEF CandidatesFit
<1>2. fresh \in Seq(Rendering) /\ \E at : Selection(rows, S, Len(rows), fresh, at)
  BY <1>1, AmongSelects
<1>3. PICK at : Selection(rows, S, Len(rows), fresh, at)
  BY <1>2
<1>4. DOMAIN fresh = 1..Len(fresh) /\ DOMAIN rows = 1..Len(rows) /\ Len(fresh) \in Nat
  BY <1>1, <1>2, LenProperties
<1>5. /\ \A k \in DOMAIN fresh : /\ at[k] \in DOMAIN rows
                                 /\ fresh[k] = rows[at[k]] /\ fresh[k] \in S
      /\ \A j, k \in DOMAIN fresh : at[j] = at[k] => j = k
  BY <1>3, <1>4 DEF Selection
<1>6. \A r \in S : IdOf(r) \notin IdsIn(approved)
  OBVIOUS
<1>7. \A k \in DOMAIN fresh : fresh[k] \in Rendering
  BY <1>2, <1>4, ElementOfSeq
<1> HIDE DEF S, fresh
<1>8. StatusFor(d) \in {"APPROVED", "REJECTED", "NEEDS_REVIEW"}
  BY DEF StatusFor
<1>9. \A k \in DOMAIN fresh :
         /\ marked[k] \in Rendering /\ marked[k].status = StatusFor(d)
         /\ marked[k].op = rows[at[k]].op /\ marked[k].model = m
         /\ IdOf(marked[k]) \notin IdsIn(approved)
  <2> TAKE k \in DOMAIN fresh
  <2>1. marked[k] = [fresh[k] EXCEPT !.status = StatusFor(d)]
    OBVIOUS
  <2>2. /\ marked[k] \in Rendering /\ marked[k].status = StatusFor(d)
        /\ marked[k].op = fresh[k].op /\ marked[k].model = fresh[k].model
    BY <1>7, <1>8, <2>1 DEF Rendering
  <2>3. fresh[k].model = m
    BY <1>5 DEF CandidatesFit
  <2> QED BY <1>5, <1>6, <2>2, <2>3 DEF IdOf
<1>10. DOMAIN marked = 1..Len(fresh)
  BY <1>4
<1> HIDE DEF marked
<1>11. marked \in Seq(Rendering)
  <2>1. marked \in [1..Len(fresh) -> Rendering]
    <3>1. marked = [k \in 1..Len(fresh) |-> marked[k]]
      BY <1>4 DEF marked
    <3> QED BY <1>4, <1>9, <3>1
  <2> QED BY <1>4, <2>1, FunctionsAreSequences
<1>12. \A j, k \in DOMAIN marked : marked[j].op = marked[k].op => j = k
  BY <1>4, <1>5, <1>9, <1>10 DEF CandidatesFit
<1>13. CandidatesFit(marked, m)
  BY <1>4, <1>9, <1>10, <1>11, <1>12 DEF CandidatesFit
<1>14. Decided(m, decision, d) = marked
  BY DEF Decided, marked, fresh, S
<1> QED BY <1>4, <1>9, <1>10, <1>13, <1>14

\* What a review approves supersedes, and never more than it replaces.
LEMMA SupersedeFits ==
  ASSUME CorpusFits(approved), NEW m \in Models, NEW new, CandidatesFit(new, m),
         \A k \in DOMAIN new : new[k].status = "APPROVED" /\ IdOf(new[k]) \notin IdsIn(approved)
  PROVE  CorpusFits(Supersede(new)) /\ KeepsActive(approved, Supersede(new))
<1> DEFINE Hit(k) == \E j \in DOMAIN new : new[j].op = approved[k].op
           marked == [k \in DOMAIN approved |->
                        IF Hit(k) THEN [approved[k] EXCEPT !.status = "SUPERSEDED"] ELSE approved[k]]
           n == Len(approved)
           rows == marked \o new
<1>1. /\ approved \in Seq(Rendering) /\ new \in Seq(Rendering)
      /\ n \in Nat /\ Len(new) \in Nat /\ DOMAIN approved = 1..n /\ DOMAIN new = 1..Len(new)
  BY LenProperties DEF CorpusFits, CandidatesFit
<1>2. /\ \A k \in 1..n : approved[k] \in Rendering
      /\ \A k \in 1..Len(new) : new[k] \in Rendering
  BY <1>1, ElementOfSeq
<1>3. \A k \in 1..n :
         /\ marked[k] \in Rendering
         /\ marked[k].op = approved[k].op /\ marked[k].model = approved[k].model
         /\ marked[k].status = IF Hit(k) THEN "SUPERSEDED" ELSE approved[k].status
  <2> TAKE k \in 1..n
  <2>1. marked[k] = IF Hit(k) THEN [approved[k] EXCEPT !.status = "SUPERSEDED"] ELSE approved[k]
    BY <1>1
  <2> HIDE DEF Hit, marked
  <2> QED BY <1>2, <2>1 DEF Rendering
<1>4. marked \in Seq(Rendering) /\ Len(marked) = n
  <2>1. marked \in [1..n -> Rendering]
    <3>1. marked = [k \in 1..n |-> marked[k]]
      BY <1>1
    <3> HIDE DEF marked
    <3> QED BY <1>3, <3>1
  <2> HIDE DEF marked
  <2> QED BY <1>1, <2>1, FunctionsAreSequences
<1> HIDE DEF marked
<1>5. /\ rows \in Seq(Rendering) /\ Len(rows) = n + Len(new)
      /\ \A i \in 1..(n + Len(new)) : rows[i] = IF i <= n THEN marked[i] ELSE new[i - n]
  <2>1. /\ marked \o new \in Seq(Rendering) /\ Len(marked \o new) = Len(marked) + Len(new)
        /\ \A i \in 1..(Len(marked) + Len(new)) :
              (marked \o new)[i] = IF i <= Len(marked) THEN marked[i] ELSE new[i - Len(marked)]
    BY <1>1, <1>4, ConcatProperties
  <2> QED BY <1>4, <2>1
<1>6. DOMAIN rows = 1..(n + Len(new))
  BY <1>5, LenProperties
<1> HIDE DEF rows
<1>7. \A i \in DOMAIN rows :
         \/ i \in 1..n /\ rows[i] = marked[i]
         \/ i - n \in 1..Len(new) /\ rows[i] = new[i - n] /\ i \notin 1..n
  BY <1>1, <1>5, <1>6
<1>8. \A i \in 1..n : rows[i] = marked[i] /\ i \in DOMAIN rows
  BY <1>1, <1>5, <1>6
<1>9. \A j \in 1..Len(new) : n + j \in DOMAIN rows /\ rows[n + j] = new[j]
  <2> TAKE j \in 1..Len(new)
  <2>1. n + j \in 1..(n + Len(new)) /\ ~(n + j <= n) /\ (n + j) - n = j
    BY <1>1
  <2> QED BY <1>5, <1>6, <2>1
<1>10. \A i, k \in DOMAIN rows : IdOf(rows[i]) = IdOf(rows[k]) => i = k
  <2>1. \A k \in 1..n : IdOf(marked[k]) = IdOf(approved[k]) /\ IdOf(approved[k]) \in IdsIn(approved)
    BY <1>1, <1>3 DEF IdOf, IdsIn
  <2> TAKE i, k \in DOMAIN rows
  <2> SUFFICES ASSUME IdOf(rows[i]) = IdOf(rows[k]) PROVE i = k
    OBVIOUS
  <2>2. CASE i \in 1..n /\ k \in 1..n
    BY <1>1, <1>8, <2>1, <2>2 DEF CorpusFits
  <2>3. CASE i - n \in 1..Len(new) /\ rows[i] = new[i - n] /\ k - n \in 1..Len(new) /\ rows[k] = new[k - n]
    <3>1. new[i - n].op = new[k - n].op
      BY <2>3 DEF IdOf
    <3>2. i - n = k - n
      BY <1>1, <2>3, <3>1 DEF CandidatesFit
    <3> QED BY <1>1, <1>6, <3>2
  <2> QED BY <1>1, <1>7, <2>1, <2>2, <2>3
<1>11. \A i, k \in DOMAIN rows :
          rows[i].op = rows[k].op /\ rows[i].status = "APPROVED" /\ rows[k].status = "APPROVED"
             => i = k
  <2> TAKE i, k \in DOMAIN rows
  <2> SUFFICES ASSUME rows[i].op = rows[k].op,
                      rows[i].status = "APPROVED", rows[k].status = "APPROVED"
               PROVE  i = k
    OBVIOUS
  <2>1. \A a \in 1..n : marked[a].status = "APPROVED" =>
           approved[a].status = "APPROVED" /\ \A b \in 1..Len(new) : new[b].op # marked[a].op
    BY <1>1, <1>3
  <2>2. CASE i \in 1..n /\ k \in 1..n
    BY <1>1, <1>3, <1>8, <2>1, <2>2 DEF CorpusFits
  <2>3. CASE i - n \in 1..Len(new) /\ rows[i] = new[i - n] /\ k - n \in 1..Len(new) /\ rows[k] = new[k - n]
    <3>1. i - n = k - n
      BY <1>1, <2>3 DEF CandidatesFit
    <3> QED BY <1>1, <1>6, <3>1
  <2> QED BY <1>7, <2>1, <2>2, <2>3
<1>12. KeepsActive(approved, rows)
  <2> SUFFICES ASSUME NEW o \in Ops, NEW k \in ActiveOf(approved, o)
               PROVE  ActiveOf(rows, o) # {}
    BY DEF KeepsActive
  <2>1. k \in 1..n /\ approved[k].op = o /\ approved[k].status = "APPROVED"
    BY <1>1 DEF ActiveOf
  <2>2. CASE Hit(k)
    <3>1. PICK j \in DOMAIN new : new[j].op = o
      BY <2>1, <2>2
    <3>2. n + j \in ActiveOf(rows, o)
      BY <1>1, <1>9, <3>1 DEF ActiveOf
    <3> QED BY <3>2
  <2>3. CASE ~Hit(k)
    <3>1. k \in ActiveOf(rows, o)
      BY <1>3, <1>8, <2>1, <2>3 DEF ActiveOf
    <3> QED BY <3>1
  <2> QED BY <2>2, <2>3
<1>13. CorpusFits(rows)
  BY <1>5, <1>10, <1>11 DEF CorpusFits
<1>14. Supersede(new) = rows
  BY DEF Supersede, rows, marked
<1> QED BY <1>12, <1>13, <1>14
-------------------------------------------------------------------------------
(* Reviews *)

LEMMA ReviewInit == RenderingAssumption /\ InitReview => ReviewInv
<1> SUFFICES ASSUME RenderingAssumption, InitReview PROVE ReviewInv
  OBVIOUS
<1>1. <<>> \in Seq(Rendering) /\ DOMAIN <<>> = {}
  OBVIOUS
<1>2. CorpusFits(<<>>) /\ \A m \in Models : CandidatesFit(<<>>, m)
  BY <1>1 DEF CorpusFits, CandidatesFit
<1>3. 0 \in 0..MaxDiscoveries /\ 0 \in 0..MaxKills
  BY DEF RenderingAssumption
<1>4. candidates \in [Models -> Seq(Rendering)]
  BY <1>1 DEF InitReview
<1>5. NoReview.at = "idle"
  BY DEF NoReview
<1> QED BY <1>1, <1>2, <1>3, <1>4, <1>5 DEF InitReview, ReviewInv

\* Nothing the invariant is about changes but, at most, the number of kills.
LEMMA ReviewStays ==
  ASSUME ReviewInv, UNCHANGED <<corpora, review, discoveries, truncated>>, kills' \in 0..MaxKills
  PROVE  ReviewInv'
<1>1. UNCHANGED <<candidates, approved, rejected, review, discoveries, truncated>>
  BY DEF corpora
<1> QED BY <1>1 DEF ReviewInv

LEMMA DiscoverKeeps ==
  ASSUME RenderingAssumption, ReviewInv, NEW m \in Models, NEW ops \in SUBSET Ops, Discover(ops, m)
  PROVE  ReviewInv'
<1> DEFINE rows == SetToSeq({[op |-> o, model |-> m, discovery |-> discoveries + 1,
                              status |-> "CANDIDATE"] : o \in ops}
                            \cup {row \in ToSet(candidates[m]) : row.op \notin ops})
<1>1. discoveries + 1 \in 1..MaxDiscoveries
  BY DEF Discover, ReviewInv, RenderingAssumption
<1>2. CandidatesFit(rows, m)
  BY <1>1, DiscoveryFits DEF ReviewInv
<1>3. candidates' = [candidates EXCEPT ![m] = rows]
  BY DEF Discover
<1> HIDE DEF rows
<1>4. /\ candidates' \in [Models -> Seq(Rendering)]
      /\ \A q \in Models : CandidatesFit(candidates'[q], q)
  BY <1>2, <1>3 DEF ReviewInv, CandidatesFit
<1>5. /\ discoveries' \in 0..MaxDiscoveries
      /\ UNCHANGED <<approved, rejected, review, kills, truncated>>
      /\ review = NoReview
  BY <1>1 DEF Discover, RenderingAssumption
<1> QED BY <1>4, <1>5 DEF ReviewInv, NoReview

LEMMA StartReviewKeeps ==
  ASSUME ReviewInv, NEW m \in Models, StartReview(m)
  PROVE  ReviewInv'
<1>1. UNCHANGED <<candidates, approved, rejected, discoveries, kills, truncated>>
  BY DEF StartReview, corpora
<1>2. CandidatesFit(candidates[m], m) /\ CorpusFits(approved) /\ rejected \in Seq(Rendering)
  BY DEF ReviewInv
<1>3. PICK decision :
         review' = [at       |-> "approved",
                    model    |-> m,
                    approved |-> Supersede(Decided(m, decision, "APPROVE")),
                    rejected |-> rejected \o Decided(m, decision, "REJECT"),
                    deferred |-> Decided(m, decision, "DEFER"),
                    wanted   |-> {row.op : row \in {r \in ToSet(candidates[m]) :
                                                       decision[r.op] = "DEFER"}}]
  BY DEF StartReview
<1> DEFINE A == Decided(m, decision, "APPROVE")
           R == Decided(m, decision, "REJECT")
           D == Decided(m, decision, "DEFER")
<1>4. CandidatesFit(A, m) /\ CandidatesFit(R, m) /\ CandidatesFit(D, m)
  BY <1>2, DecidedFits
<1>5. \A k \in DOMAIN A : A[k].status = "APPROVED" /\ IdOf(A[k]) \notin IdsIn(approved)
  BY <1>2, DecidedFits DEF StatusFor
<1> HIDE DEF A, R, D
<1>6. CorpusFits(Supersede(A)) /\ KeepsActive(approved, Supersede(A))
  BY <1>2, <1>4, <1>5, SupersedeFits
<1>7. rejected \o R \in Seq(Rendering)
  BY <1>2, <1>4, ConcatProperties DEF CandidatesFit
<1>8. /\ review'.at = "approved" /\ review'.model = m /\ review'.approved = Supersede(A)
      /\ review'.rejected = rejected \o R /\ review'.deferred = D
      /\ review' = [at |-> review'.at, model |-> review'.model, approved |-> review'.approved,
                    rejected |-> review'.rejected, deferred |-> review'.deferred,
                    wanted |-> review'.wanted]
  BY <1>3 DEF A, R, D
<1> QED BY <1>1, <1>4, <1>6, <1>7, <1>8 DEF ReviewInv

LEMMA WriteKeeps ==
  ASSUME ReviewInv, WriteApproved \/ WriteRejected \/ WriteInput
  PROVE  ReviewInv'
<1>1. CASE WriteApproved \/ WriteRejected
  <2>1. /\ review.at \in {"approved", "rejected"}
        /\ review' = [review EXCEPT !.at = IF review.at = "approved" THEN "rejected" ELSE "input"]
        /\ UNCHANGED <<candidates, discoveries, kills, truncated>>
        /\ approved' = (IF review.at = "approved" THEN review.approved ELSE approved)
        /\ rejected' = (IF review.at = "rejected" THEN review.rejected ELSE rejected)
    BY <1>1 DEF WriteApproved, WriteRejected
  <2>2. /\ review'.at \in {"rejected", "input"} /\ review'.model = review.model
        /\ review'.approved = review.approved /\ review'.rejected = review.rejected
        /\ review'.deferred = review.deferred
        /\ review' = [at |-> review'.at, model |-> review'.model, approved |-> review'.approved,
                      rejected |-> review'.rejected, deferred |-> review'.deferred,
                      wanted |-> review'.wanted]
    BY <2>1 DEF ReviewInv
  <2>3. CorpusFits(approved') /\ rejected' \in Seq(Rendering)
    BY <2>1 DEF ReviewInv
  <2> QED BY <2>1, <2>2, <2>3 DEF ReviewInv
<1>2. CASE WriteInput
  <2>1. /\ review.at = "input" /\ review' = NoReview
        /\ candidates' = [candidates EXCEPT ![review.model] = review.deferred]
        /\ UNCHANGED <<approved, rejected, discoveries, kills, truncated>>
    BY <1>2 DEF WriteInput
  <2>2. /\ candidates' \in [Models -> Seq(Rendering)]
        /\ \A q \in Models : CandidatesFit(candidates'[q], q)
    BY <2>1 DEF ReviewInv, CandidatesFit
  <2> QED BY <2>1, <2>2 DEF ReviewInv, NoReview
<1> QED BY <1>1, <1>2

LEMMA KillReviewKeeps ==
  ASSUME RenderingAssumption, ReviewInv, KillReview
  PROVE  ReviewInv'
<1>1. /\ review # NoReview /\ review.at # "idle"
      /\ kills' \in 0..MaxKills /\ review' = NoReview /\ discoveries' = discoveries
      /\ truncated' \in BOOLEAN
  <2>1. /\ review # NoReview /\ kills < MaxKills /\ kills' = kills + 1
        /\ review' = NoReview /\ discoveries' = discoveries
        /\ truncated' = TRUE \/ truncated' = truncated
    BY DEF KillReview
  <2>2. kills' \in 0..MaxKills
    BY <2>1 DEF ReviewInv, RenderingAssumption
  <2> QED BY <2>1, <2>2 DEF ReviewInv
<1>2. /\ review.model \in Models /\ CandidatesFit(review.deferred, review.model)
      /\ CorpusFits(review.approved) /\ review.rejected \in Seq(Rendering)
      /\ review.approved \in Seq(Rendering) /\ review.deferred \in Seq(Rendering)
  BY <1>1 DEF ReviewInv, CorpusFits, CandidatesFit
<1>3. /\ candidates' \in [Models -> Seq(Rendering)]
      /\ \A q \in Models : CandidatesFit(candidates'[q], q)
  <2>1. CASE UNCHANGED candidates
    BY <2>1 DEF ReviewInv
  <2>2. CASE \E k \in 0..Len(review.deferred) :
                candidates' = [candidates EXCEPT ![review.model] = SubSeq(review.deferred, 1, k)]
    <3>1. PICK k \in 0..Len(review.deferred) :
              candidates' = [candidates EXCEPT ![review.model] = SubSeq(review.deferred, 1, k)]
      BY <2>2
    <3>2. CandidatesFit(SubSeq(review.deferred, 1, k), review.model)
      BY <1>2, PrefixesFit
    <3> QED BY <1>2, <3>1, <3>2 DEF ReviewInv, CandidatesFit
  <2> QED BY <2>1, <2>2 DEF KillReview, corpora
<1>4. CorpusFits(approved')
  <2>1. CASE UNCHANGED approved
    BY <2>1 DEF ReviewInv
  <2>2. CASE \E k \in 0..Len(review.approved) : approved' = SubSeq(review.approved, 1, k)
    BY <1>2, <2>2, PrefixesFit
  <2> QED BY <2>1, <2>2 DEF KillReview, corpora
<1>5. rejected' \in Seq(Rendering)
  <2>1. CASE UNCHANGED rejected
    BY <2>1 DEF ReviewInv
  <2>2. CASE \E k \in 0..Len(review.rejected) : rejected' = SubSeq(review.rejected, 1, k)
    BY <1>2, <2>2, PrefixesFit
  <2> QED BY <2>1, <2>2 DEF KillReview, corpora
<1> QED BY <1>1, <1>3, <1>4, <1>5 DEF ReviewInv, NoReview

LEMMA ReviewStep ==
  ASSUME RenderingAssumption, ReviewInv, [NextReview]_reviewVars
  PROVE  ReviewInv'
<1>1. CASE \E m \in Models : StartReview(m) \/ \E ops \in (SUBSET Ops) \ {{}} : Discover(ops, m)
  BY <1>1, StartReviewKeeps, DiscoverKeeps
<1>2. CASE UNCHANGED reviewVars
  <2>1. UNCHANGED <<corpora, review, discoveries, truncated>> /\ kills' = kills
    BY <1>2 DEF reviewVars
  <2>2. kills' \in 0..MaxKills
    BY <2>1 DEF ReviewInv
  <2> QED BY <2>1, <2>2, ReviewStays
<1> QED BY <1>1, <1>2, WriteKeeps, KillReviewKeeps DEF NextReview

LEMMA FitsMeansAtMostOne == ASSUME ReviewInv PROVE AtMostOneActive
<1>1. CorpusFits(approved)
  BY DEF ReviewInv
<1>2. ASSUME NEW o \in Ops PROVE Cardinality(ActiveOf(approved, o)) <= 1
  <2>1. CASE ActiveOf(approved, o) = {}
    BY <2>1, FS_EmptySet
  <2>2. CASE ActiveOf(approved, o) # {}
    <3>1. PICK k : k \in ActiveOf(approved, o)
      BY <2>2
    <3>2. ActiveOf(approved, o) = {k}
      BY <1>1, <3>1 DEF CorpusFits, ActiveOf
    <3> QED BY <3>2, FS_Singleton
  <2> QED BY <2>1, <2>2
<1> QED BY <1>1, <1>2 DEF AtMostOneActive, CorpusFits
-------------------------------------------------------------------------------
(* Freezes and loads *)

\* A version's first manifest stays, unless it is damaged or replaced by the override.
ManifestInv ==
    /\ manifest = [v \in Versions |-> manifest[v]]
    /\ original = [v \in Versions |-> original[v]]
    /\ \A v \in Versions :
          /\ original[v].exists => manifest[v].exists
          /\ manifest[v].exists /\ manifest[v].whole /\ ~manifest[v].overwrite =>
                original[v].exists /\ original[v] = manifest[v]

\* A freeze without the override is one of a version that has no manifest.
FreezeInv ==
    /\ freeze.at \in {"idle", "write", "manifest"}
    /\ freeze.at = "idle" => freeze = NoFreeze
    /\ freeze.at # "idle" =>
          /\ freeze = [at |-> freeze.at, version |-> freeze.version,
                       overwrite |-> freeze.overwrite, todo |-> freeze.todo,
                       rows |-> freeze.rows, disturbed |-> freeze.disturbed]
          /\ freeze.version \in Versions /\ freeze.overwrite \in BOOLEAN
          /\ ~freeze.overwrite => ~manifest[freeze.version].exists

\* A load holds a manifest that is the first one, or one of the override, and what
\* it has verified or read is what that manifest lists.
LoadInv ==
    /\ load.at \in {"idle", "verify", "read", "loaded"}
    /\ load.at \in {"verify", "read"} =>
          load = [at |-> load.at, version |-> load.version, manifest |-> load.manifest,
                  disturbed |-> load.disturbed]
    /\ load.at # "idle" =>
          /\ load.version \in Versions
          /\ \A v \in Versions : v = load.version /\ ~load.manifest.overwrite =>
                original[v].exists /\ original[v] = load.manifest
    /\ load.at = "read" => \A v \in Versions : v = load.version /\ ~load.disturbed =>
                                Contents(v) = load.manifest.contents
    /\ load.at = "loaded" /\ ~load.disturbed => load.contents = load.manifest.contents

IInv == ManifestInv /\ FreezeInv /\ LoadInv

\* Nothing the invariant is about changes while sources are edited or reviewed.
LEMMA OthersKeep ==
  ASSUME IInv, UNCHANGED <<domain, frozen, manifest, freeze, load, original>>
  PROVE  IInv'
BY DEF IInv, ManifestInv, FreezeInv, LoadInv, Contents

LEMMA ManifestKeeps ==
  ASSUME ManifestInv, UNCHANGED <<manifest, original>>
  PROVE  ManifestInv'
BY DEF ManifestInv

LEMMA FreezeKeeps ==
  ASSUME FreezeInv, UNCHANGED <<manifest, freeze>>
  PROVE  FreezeInv'
BY DEF FreezeInv

LEMMA LoadKeeps ==
  ASSUME LoadInv, UNCHANGED <<domain, frozen, load, original>>
  PROVE  LoadInv'
BY DEF LoadInv, Contents

\* A write that overtakes a load is known to it.
LEMMA DisturbedLoadKeeps ==
  ASSUME LoadInv, load' = Disturbed(load),
         \A v \in Versions : original[v].exists => original'[v] = original[v]
  PROVE  LoadInv'
<1>1. CASE load.at \in {"idle", "loaded"}
  <2>1. load' = load
    BY <1>1 DEF Disturbed
  <2> QED BY <1>1, <2>1 DEF LoadInv
<1>2. CASE load.at \in {"verify", "read"}
  <2>1. load' = [load EXCEPT !.disturbed = TRUE]
    BY <1>2 DEF Disturbed
  <2>2. /\ load'.at = load.at /\ load'.version = load.version
        /\ load'.manifest = load.manifest /\ load'.disturbed = TRUE
        /\ load' = [at |-> load.at, version |-> load.version, manifest |-> load.manifest,
                    disturbed |-> TRUE]
    BY <1>2, <2>1 DEF LoadInv
  <2> QED BY <1>2, <2>2 DEF LoadInv
<1> QED BY <1>1, <1>2 DEF LoadInv

LEMMA DisturbedFreezeKeeps ==
  ASSUME FreezeInv, freeze' = Disturbed(freeze), manifest' = manifest
  PROVE  FreezeInv'
<1>1. CASE freeze.at = "idle"
  <2>1. freeze' = freeze
    BY <1>1 DEF Disturbed
  <2> QED BY <2>1 DEF FreezeInv
<1>2. CASE freeze.at \in {"write", "manifest"}
  <2>1. freeze' = [freeze EXCEPT !.disturbed = TRUE]
    BY <1>2 DEF Disturbed
  <2> QED BY <1>2, <2>1 DEF FreezeInv
<1> QED BY <1>1, <1>2 DEF FreezeInv
-------------------------------------------------------------------------------
LEMMA EditDomainKeeps ==
  ASSUME IInv, NEW d, EditDomain(d)
  PROVE  IInv'
BY ManifestKeeps, DisturbedFreezeKeeps, DisturbedLoadKeeps DEF IInv, EditDomain

LEMMA StartFreezeKeeps ==
  ASSUME IInv, NEW v \in Versions, NEW overwrite \in BOOLEAN, StartFreeze(v, overwrite)
  PROVE  IInv'
<1>1. /\ UNCHANGED <<domain, frozen, manifest, load, original>>
      /\ manifest[v].exists => overwrite
      /\ \E rows : freeze' = [at |-> "write", version |-> v, overwrite |-> overwrite,
                              todo |-> Kinds, rows |-> rows, disturbed |-> FALSE]
  BY DEF StartFreeze, sources
<1>2. FreezeInv'
  BY <1>1 DEF FreezeInv
<1> QED BY <1>1, <1>2, ManifestKeeps, LoadKeeps DEF IInv

LEMMA EndFreezeKeeps ==
  ASSUME IInv, WriteFrozenRefused \/ ValidatePrompts
  PROVE  IInv'
<1>1. /\ UNCHANGED <<domain, frozen, manifest, load, original>>
      /\ freeze.at = "write"
      /\ freeze' = NoFreeze \/ freeze' = [freeze EXCEPT !.at = "manifest"]
  BY DEF WriteFrozenRefused, ValidatePrompts, sources
<1>2. FreezeInv'
  BY <1>1 DEF IInv, FreezeInv, NoFreeze
<1> QED BY <1>1, <1>2, ManifestKeeps, LoadKeeps DEF IInv

LEMMA WriteFrozenKeeps ==
  ASSUME IInv, WriteFrozen
  PROVE  IInv'
<1>1. /\ freeze.at = "write" /\ freeze' = [freeze EXCEPT !.todo = Tail(@)]
      /\ load' = Disturbed(load) /\ UNCHANGED <<manifest, original>>
  BY DEF WriteFrozen
<1>2. FreezeInv'
  BY <1>1 DEF IInv, FreezeInv
<1> QED BY <1>1, <1>2, ManifestKeeps, DisturbedLoadKeeps DEF IInv

LEMMA WriteManifestKeeps ==
  ASSUME IInv, WriteManifest
  PROVE  IInv'
<1>1. /\ freeze.at = "manifest" /\ freeze' = NoFreeze /\ load' = Disturbed(load)
  BY DEF WriteManifest
<1>2. PICK v \in Versions : v = freeze.version
  BY <1>1 DEF IInv, FreezeInv
<1> DEFINE m == [exists |-> TRUE, whole |-> TRUE, contents |-> Contents(v),
                 overwrite |-> freeze.overwrite, disturbed |-> freeze.disturbed]
<1>3. /\ manifest' = [manifest EXCEPT ![v] = m]
      /\ original' = IF original[v].exists \/ freeze.overwrite THEN original
                     ELSE [original EXCEPT ![v] = m]
  BY <1>2 DEF WriteManifest
<1>4. m.exists /\ m.whole /\ m.overwrite = freeze.overwrite /\ freeze.overwrite \in BOOLEAN
  BY <1>1 DEF IInv, FreezeInv
<1> HIDE DEF m
<1>5. ~freeze.overwrite => ~original[v].exists
  BY <1>1, <1>2 DEF IInv, FreezeInv, ManifestInv
<1>6. \A w \in Versions : manifest'[w] = IF w = v THEN m ELSE manifest[w]
  BY <1>3 DEF IInv, ManifestInv
<1>7. \A w \in Versions : original'[w] = IF w = v /\ ~freeze.overwrite THEN m ELSE original[w]
  BY <1>3, <1>4, <1>5 DEF IInv, ManifestInv
<1>8. /\ manifest' = [w \in Versions |-> manifest'[w]]
      /\ original' = [w \in Versions |-> original'[w]]
  BY <1>3 DEF IInv, ManifestInv
<1>9. ManifestInv'
  BY <1>4, <1>6, <1>7, <1>8 DEF IInv, ManifestInv
<1>10. LoadInv'
  BY <1>1, <1>5, <1>7, DisturbedLoadKeeps DEF IInv
<1>11. FreezeInv'
  BY <1>1 DEF FreezeInv, NoFreeze
<1> QED BY <1>9, <1>10, <1>11 DEF IInv

LEMMA KillFreezeKeeps ==
  ASSUME IInv, KillFreeze
  PROVE  IInv'
<1>1. freeze' = NoFreeze /\ UNCHANGED <<domain, original>>
  BY DEF KillFreeze, sources
<1>2. FreezeInv'
  BY <1>1 DEF FreezeInv, NoFreeze
<1>3. CASE UNCHANGED <<frozen, manifest, load>>
  BY <1>1, <1>2, <1>3, ManifestKeeps, LoadKeeps DEF IInv
<1>4. CASE load' = Disturbed(load) /\ manifest' = manifest
  BY <1>1, <1>2, <1>4, ManifestKeeps, DisturbedLoadKeeps DEF IInv
<1>5. CASE /\ freeze.at = "manifest" /\ load' = Disturbed(load)
           /\ manifest' = [manifest EXCEPT ![freeze.version] = [exists |-> TRUE, whole |-> FALSE]]
  <2>1. PICK v \in Versions : v = freeze.version
    BY <1>5 DEF IInv, FreezeInv
  <2>2. \A w \in Versions :
           manifest'[w] = IF w = v THEN [exists |-> TRUE, whole |-> FALSE] ELSE manifest[w]
    BY <1>5, <2>1 DEF IInv, ManifestInv
  <2>3. manifest' = [w \in Versions |-> manifest'[w]]
    BY <1>5 DEF IInv, ManifestInv
  <2>4. ManifestInv'
    BY <1>1, <2>2, <2>3 DEF IInv, ManifestInv
  <2> QED BY <1>1, <1>2, <1>5, <2>4, DisturbedLoadKeeps DEF IInv
<1> QED BY <1>3, <1>4, <1>5 DEF KillFreeze

LEMMA StartLoadKeeps ==
  ASSUME IInv, NEW v \in Versions, StartLoad(v)
  PROVE  IInv'
<1>1. /\ UNCHANGED <<domain, frozen, manifest, freeze, original>>
      /\ manifest[v].exists /\ manifest[v].whole
      /\ load' = [at |-> "verify", version |-> v, manifest |-> manifest[v], disturbed |-> FALSE]
  BY DEF StartLoad, sources
<1>2. LoadInv'
  BY <1>1 DEF IInv, LoadInv, ManifestInv
<1> QED BY <1>1, <1>2, ManifestKeeps, FreezeKeeps DEF IInv

LEMMA VerifyKeeps ==
  ASSUME IInv, Verify
  PROVE  IInv'
<1>1. /\ UNCHANGED <<domain, frozen, manifest, freeze, original>>
      /\ load.at = "verify"
      /\ \/ load' = NoLoad
         \/ /\ load' = [load EXCEPT !.at = "read"]
            /\ Contents(load.version) = load.manifest.contents
  BY DEF Verify, sources
<1>2. LoadInv'
  <2>1. CASE load' = NoLoad
    BY <2>1 DEF LoadInv, NoLoad
  <2>2. CASE /\ load' = [load EXCEPT !.at = "read"]
             /\ Contents(load.version) = load.manifest.contents
    <3>1. \A v : Contents(v)' = Contents(v)
      BY <1>1 DEF Contents
    <3>2. /\ load'.at = "read" /\ load'.version = load.version
          /\ load'.manifest = load.manifest
          /\ load' = [at |-> "read", version |-> load.version, manifest |-> load.manifest,
                      disturbed |-> load.disturbed]
      BY <1>1, <2>2 DEF IInv, LoadInv
    <3> QED BY <1>1, <2>2, <3>1, <3>2 DEF IInv, LoadInv
  <2> QED BY <1>1, <2>1, <2>2
<1> QED BY <1>1, <1>2, ManifestKeeps, FreezeKeeps DEF IInv

LEMMA ReadKeeps ==
  ASSUME IInv, Read
  PROVE  IInv'
<1>1. /\ UNCHANGED <<domain, frozen, manifest, freeze, original>>
      /\ load.at = "read"
      /\ \/ load' = NoLoad
         \/ load' = [at |-> "loaded", version |-> load.version, manifest |-> load.manifest,
                     contents |-> Contents(load.version), disturbed |-> load.disturbed]
  BY DEF Read, sources
<1>2. LoadInv'
  BY <1>1 DEF IInv, LoadInv, NoLoad
<1> QED BY <1>1, <1>2, ManifestKeeps, FreezeKeeps DEF IInv

LEMMA EndOfCommandKeeps ==
  ASSUME IInv, EndOfCommand
  PROVE  IInv'
<1>1. UNCHANGED <<domain, frozen, manifest, freeze, original>> /\ load' = NoLoad
  BY DEF EndOfCommand, sources
<1>2. LoadInv'
  BY <1>1 DEF LoadInv, NoLoad
<1> QED BY <1>1, <1>2, ManifestKeeps, FreezeKeeps DEF IInv
-------------------------------------------------------------------------------
LEMMA InitKeeps ==
  ASSUME Init
  PROVE  IInv
BY DEF Init, IInv, ManifestInv, FreezeInv, LoadInv, NoManifest, NoFreeze, NoLoad

LEMMA StepKeeps ==
  ASSUME IInv, [Next]_vars
  PROVE  IInv'
<1>1. CASE \/ UNCHANGED vars \/ UNCHANGED freezeVars
           \/ EditRequests \/ EditPrompts
  BY <1>1, OthersKeep DEF vars, freezeVars, sources, EditRequests, EditPrompts
<1>2. CASE \E v \in Versions : StartLoad(v) \/ \E overwrite \in BOOLEAN : StartFreeze(v, overwrite)
  BY <1>2, StartLoadKeeps, StartFreezeKeeps
<1> QED BY <1>1, <1>2, EditDomainKeeps, EndFreezeKeeps, WriteFrozenKeeps, WriteManifestKeeps,
           KillFreezeKeeps, VerifyKeeps, ReadKeeps, EndOfCommandKeeps DEF Next

\* The strengthening is an invariant of every behaviour.
THEOREM InvariantHolds == Spec => []IInv
<1>1. Init => IInv
  BY InitKeeps
<1>2. IInv /\ [Next]_vars => IInv'
  BY StepKeeps
<1> QED BY <1>1, <1>2, PTL DEF Spec

\* What is loaded from a manifest that does not record an overwrite is what was first
\* frozen, whatever was edited, reviewed, overwritten or killed since, unless a write
\* overtook the load (freeze_benchmark, FrozenBenchmark).
THEOREM LoadsReproduce == Spec => []LoadsAreReproducible
<1>1. IInv => LoadsAreReproducible
  BY DEF IInv, LoadInv, LoadsAreReproducible
<1> QED BY <1>1, InvariantHolds, PTL
-------------------------------------------------------------------------------
FilesInv == frozen = [v \in Versions |-> frozen[v]]

\* A version has its files written by a freeze of that version alone.
LEMMA FilesAreOfTheFreeze ==
  ASSUME IInv, FilesInv, [Next]_vars
  PROVE  /\ FilesInv'
         /\ \A v \in Versions :
               frozen'[v] # frozen[v] => freeze.at # "idle" /\ freeze.version = v
         /\ WriteFrozen \/ KillFreeze \/ frozen' = frozen
<1>1. CASE WriteFrozen \/ KillFreeze
  <2>1. /\ freeze.at \in {"write", "manifest"} /\ freeze.version \in Versions
    BY <1>1 DEF IInv, FreezeInv, WriteFrozen, KillFreeze, NoFreeze
  <2>2. \/ frozen' = frozen
        \/ \E kind, file : frozen' = [frozen EXCEPT ![freeze.version][kind] = file]
    BY <1>1 DEF WriteFrozen, KillFreeze
  <2> QED BY <1>1, <2>1, <2>2 DEF FilesInv
<1>2. CASE ~(WriteFrozen \/ KillFreeze)
  <2>1. frozen' = frozen
    BY <1>2 DEF Next, vars, freezeVars, EditDomain, EditRequests, EditPrompts, StartLoad,
       StartFreeze, WriteFrozenRefused, ValidatePrompts, WriteManifest, Verify, Read, EndOfCommand
  <2> QED BY <2>1 DEF FilesInv
<1> QED BY <1>1, <1>2

LEMMA ManifestsAreOfTheFreeze ==
  ASSUME IInv, [Next]_vars
  PROVE  \A v \in Versions :
            manifest'[v] # manifest[v] => freeze.at # "idle" /\ freeze.version = v
<1>1. CASE WriteManifest \/ KillFreeze
  <2>1. /\ freeze.at \in {"write", "manifest"} /\ freeze.version \in Versions
    BY <1>1 DEF IInv, FreezeInv, WriteManifest, KillFreeze, NoFreeze
  <2>2. \/ manifest' = manifest
        \/ \E m : manifest' = [manifest EXCEPT ![freeze.version] = m]
    BY <1>1 DEF WriteManifest, KillFreeze
  <2> QED BY <2>1, <2>2 DEF IInv, ManifestInv
<1>2. CASE ~(WriteManifest \/ KillFreeze)
  <2>1. manifest' = manifest
    BY <1>2 DEF Next, vars, freezeVars, EditDomain, EditRequests, EditPrompts, StartLoad,
       StartFreeze, WriteFrozenRefused, ValidatePrompts, WriteFrozen, Verify, Read, EndOfCommand
  <2> QED BY <2>1
<1> QED BY <1>1, <1>2

\* Once a version has a manifest, neither it nor the frozen files of the version change
\* again, except by a freeze of that version under the override.
THEOREM VersionsStay == Spec => VersionsAreImmutable
<1> DEFINE Immutable ==
              \A v \in Versions :
                 manifest[v].exists /\ <<manifest[v], frozen[v]>>' # <<manifest[v], frozen[v]>> =>
                    freeze.at # "idle" /\ freeze.version = v /\ freeze.overwrite
<1>1. Init => FilesInv
  BY DEF Init, FilesInv
<1>2. IInv /\ FilesInv /\ [Next]_vars => FilesInv'
  BY FilesAreOfTheFreeze
<1>3. IInv /\ FilesInv /\ [Next]_vars => [Immutable]_<<manifest, frozen>>
  <2> SUFFICES ASSUME IInv, FilesInv, [Next]_vars, NEW v \in Versions,
                      manifest[v].exists, manifest'[v] # manifest[v] \/ frozen'[v] # frozen[v]
               PROVE  freeze.at # "idle" /\ freeze.version = v /\ freeze.overwrite
    OBVIOUS
  <2>1. freeze.at # "idle" /\ freeze.version = v
    BY FilesAreOfTheFreeze, ManifestsAreOfTheFreeze
  <2> QED BY <2>1 DEF IInv, FreezeInv
<1> QED BY <1>1, <1>2, <1>3, InvariantHolds, PTL DEF Spec, VersionsAreImmutable
-------------------------------------------------------------------------------
(* Benchmarks are validated *)

Edition == [edition : 0..MaxEdits, valid : BOOLEAN]

SourcesInv ==
    /\ domain \in [Versioned \cup {Live} -> Edition]
    /\ requests \in Edition /\ promptsValid \in BOOLEAN
    /\ edits \in 0..MaxEdits /\ overwrites \in 0..MaxOverwrites

\* The rows a freeze takes: requests that were valid, and active renderings.
AllActive(rows) == rows \in Seq(Rendering) /\ \A k \in DOMAIN rows : rows[k].status = "APPROVED"

\* A frozen file, once it exists, and be it cut short, has rows of a freeze.
FrozenInv ==
    /\ frozen = [v \in Versions |-> [kind \in {"requests", "renderings"} |-> frozen[v][kind]]]
    /\ \A v \in Versions :
          /\ frozen[v]["requests"].exists => frozen[v]["requests"].rows.valid
          /\ frozen[v]["renderings"].exists => AllActive(frozen[v]["renderings"].rows)

\* So has a freeze under way; the files it is past exist, and the domain it has
\* validated is the one there is, unless somebody edits it.
TakenInv ==
    freeze.at # "idle" =>
        /\ freeze.rows.requests.valid /\ AllActive(freeze.rows.renderings)
        /\ freeze.todo \in {<<"requests", "renderings">>, <<"renderings">>, <<>>}
        /\ freeze.todo # <<"requests", "renderings">> => frozen[freeze.version]["requests"].exists
        /\ freeze.todo = <<>> => frozen[freeze.version]["renderings"].exists
        /\ freeze.at = "manifest" => freeze.todo = <<>>
        /\ ~freeze.disturbed => domain[DomainOf(freeze.version)].valid

Listed(m) ==
    /\ AllActive(m.contents.renderings.rows) /\ m.contents.requests.rows.valid
    /\ ~m.disturbed => m.contents.domain.valid

\* What the manifests list, what a load has verified, and what it has read.
ListedInv ==
    /\ \A v \in Versions : manifest[v].exists /\ manifest[v].whole => Listed(manifest[v])
    /\ load.at # "idle" => Listed(load.manifest)
    /\ load.at = "read" => /\ frozen[load.version]["requests"].exists
                           /\ frozen[load.version]["renderings"].exists
    /\ load.at = "loaded" =>
          /\ load.contents.requests.rows.valid
          /\ AllActive(load.contents.renderings.rows)
          /\ ValidRenderings(load.contents.renderings.rows)

BenchmarkInv == SourcesInv /\ FrozenInv /\ TakenInv /\ ListedInv

LEMMA BenchmarkInit == FreezeAssumption /\ Init => BenchmarkInv
<1> SUFFICES ASSUME FreezeAssumption, Init PROVE BenchmarkInv
  OBVIOUS
<1>1. 0 \in 0..MaxEdits /\ 0 \in 0..MaxOverwrites
  BY DEF FreezeAssumption
<1>2. SourcesInv
  BY <1>1 DEF SourcesInv, Init, Edition
<1>3. ToSet(Kinds) = {"requests", "renderings"}
  BY DEF ToSet, Kinds
<1>4. FrozenInv
  BY <1>3 DEF FrozenInv, Init, NoFile
<1>5. TakenInv
  BY DEF TakenInv, Init, NoFreeze
<1>6. ListedInv
  BY DEF ListedInv, Init, NoManifest, NoLoad
<1> QED BY <1>2, <1>4, <1>5, <1>6 DEF BenchmarkInv

LEMMA ActiveIsActive ==
  ASSUME NEW rows \in Seq(Rendering)
  PROVE  AllActive(Active(rows))
<1> DEFINE S == {r \in ToSet(rows) : r.status \in {"APPROVED", "FROZEN"}}
<1>1. Among(rows, S) \in Seq(Rendering) /\ \E at : Selection(rows, S, Len(rows), Among(rows, S), at)
  BY AmongSelects
<1>2. \A k \in DOMAIN Among(rows, S) : Among(rows, S)[k] \in S
  BY <1>1, LenProperties DEF Selection
<1>3. \A k \in DOMAIN Among(rows, S) : Among(rows, S)[k] \in Rendering
  BY <1>1, LenProperties, ElementOfSeq
<1>4. \A k \in DOMAIN Among(rows, S) : Among(rows, S)[k].status = "APPROVED"
  BY <1>2, <1>3 DEF Rendering
<1> QED BY <1>1, <1>4 DEF AllActive, Active

\* A freeze or a load that a write overtakes keeps what it has taken.
LEMMA DisturbedKeepsTaken ==
  ASSUME IInv, TakenInv, freeze' = Disturbed(freeze), frozen' = frozen
  PROVE  TakenInv'
<1>1. CASE freeze.at = "idle"
  <2>1. freeze' = freeze
    BY <1>1 DEF Disturbed
  <2> QED BY <1>1, <2>1 DEF TakenInv
<1>2. CASE freeze.at \in {"write", "manifest"}
  <2>1. freeze' = [freeze EXCEPT !.disturbed = TRUE]
    BY <1>2 DEF Disturbed
  <2>2. /\ freeze'.at = freeze.at /\ freeze'.version = freeze.version
        /\ freeze'.todo = freeze.todo /\ freeze'.rows = freeze.rows /\ freeze'.disturbed
    BY <1>2, <2>1 DEF IInv, FreezeInv
  <2> QED BY <1>2, <2>2 DEF TakenInv
<1> QED BY <1>1, <1>2 DEF IInv, FreezeInv

LEMMA DisturbedLoadKeepsListed ==
  ASSUME IInv, ListedInv, load' = Disturbed(load),
         \A v \in Versions : manifest'[v].exists /\ manifest'[v].whole => Listed(manifest'[v]),
         \A v \in Versions : \A kind \in {"requests", "renderings"} :
            frozen[v][kind].exists => frozen'[v][kind].exists
  PROVE  ListedInv'
<1>1. CASE load.at \in {"idle", "loaded"}
  <2>1. load' = load
    BY <1>1 DEF Disturbed
  <2> QED BY <1>1, <2>1 DEF ListedInv, Listed
<1>2. CASE load.at \in {"verify", "read"}
  <2>1. load' = [load EXCEPT !.disturbed = TRUE]
    BY <1>2 DEF Disturbed
  <2>2. /\ load'.at = load.at /\ load'.version = load.version
        /\ load'.manifest = load.manifest /\ load.version \in Versions
    BY <1>2, <2>1 DEF IInv, LoadInv
  <2> QED BY <1>2, <2>2 DEF ListedInv, Listed
<1> QED BY <1>1, <1>2 DEF IInv, LoadInv

LEMMA DisturbedKeepsListed ==
  ASSUME IInv, ListedInv, load' = Disturbed(load), manifest' = manifest,
         \A v \in Versions : \A kind \in {"requests", "renderings"} :
            frozen[v][kind].exists => frozen'[v][kind].exists
  PROVE  ListedInv'
<1>1. \A v \in Versions : manifest'[v].exists /\ manifest'[v].whole => Listed(manifest'[v])
  BY DEF ListedInv
<1> QED BY <1>1, DisturbedLoadKeepsListed

LEMMA EditsKeepBenchmarks ==
  ASSUME FreezeAssumption, IInv, BenchmarkInv,
         (\E d \in DOMAIN domain : EditDomain(d)) \/ EditRequests \/ EditPrompts
  PROVE  BenchmarkInv'
<1>1. edits' \in 0..MaxEdits
  BY DEF EditDomain, EditRequests, EditPrompts, BenchmarkInv, SourcesInv, FreezeAssumption
<1>2. UNCHANGED <<frozen, manifest, overwrites>>
  BY DEF EditDomain, EditRequests, EditPrompts
<1>3. FrozenInv'
  BY <1>2 DEF BenchmarkInv, FrozenInv
<1>4. CASE \E d \in DOMAIN domain : EditDomain(d)
  <2>1. PICK d \in DOMAIN domain, b \in BOOLEAN :
           /\ domain' = [domain EXCEPT ![d] = [edition |-> edits', valid |-> b]]
           /\ freeze' = Disturbed(freeze) /\ load' = Disturbed(load)
           /\ UNCHANGED <<requests, promptsValid>>
    BY <1>4 DEF EditDomain
  <2>2. domain' \in [Versioned \cup {Live} -> Edition]
    BY <1>1, <2>1 DEF BenchmarkInv, SourcesInv, Edition
  <2>3. SourcesInv'
    BY <1>1, <1>2, <2>1, <2>2 DEF BenchmarkInv, SourcesInv
  <2> QED BY <1>2, <1>3, <2>1, <2>3, DisturbedKeepsTaken, DisturbedKeepsListed DEF BenchmarkInv
<1>5. CASE EditRequests \/ EditPrompts
  <2>1. /\ UNCHANGED <<domain, freeze, load>>
        /\ requests' = requests \/ \E b \in BOOLEAN : requests' = [edition |-> edits', valid |-> b]
        /\ promptsValid' = promptsValid \/ promptsValid' = ~promptsValid
    BY <1>5 DEF EditRequests, EditPrompts
  <2>2. requests' \in Edition
    BY <1>1, <2>1 DEF BenchmarkInv, SourcesInv, Edition
  <2>3. promptsValid' \in BOOLEAN
    BY <2>1 DEF BenchmarkInv, SourcesInv
  <2>4. SourcesInv'
    BY <1>1, <1>2, <2>1, <2>2, <2>3 DEF BenchmarkInv, SourcesInv
  <2>5. TakenInv' /\ ListedInv'
    BY <1>2, <2>1 DEF BenchmarkInv, TakenInv, ListedInv
  <2> QED BY <1>3, <2>4, <2>5 DEF BenchmarkInv
<1> QED BY <1>4, <1>5

LEMMA StartFreezeTakesActive ==
  ASSUME FreezeAssumption, ReviewInv, BenchmarkInv,
         NEW v \in Versions, NEW overwrite \in BOOLEAN, StartFreeze(v, overwrite)
  PROVE  BenchmarkInv'
<1>1. /\ UNCHANGED <<domain, requests, promptsValid, frozen, manifest, load, edits>>
      /\ requests.valid /\ domain[DomainOf(v)].valid
      /\ overwrite => overwrites < MaxOverwrites
      /\ overwrites' = IF overwrite THEN overwrites + 1 ELSE overwrites
      /\ freeze' = [at |-> "write", version |-> v, overwrite |-> overwrite,
                    todo |-> <<"requests", "renderings">>,
                    rows |-> [requests |-> requests, renderings |-> Active(approved)],
                    disturbed |-> FALSE]
  BY DEF StartFreeze, sources, Kinds
<1>2. AllActive(Active(approved))
  BY ActiveIsActive DEF ReviewInv, CorpusFits
<1>3. overwrites' \in 0..MaxOverwrites
  BY <1>1 DEF BenchmarkInv, SourcesInv, FreezeAssumption
<1>4. SourcesInv' /\ FrozenInv' /\ ListedInv'
  BY <1>1, <1>3 DEF BenchmarkInv, SourcesInv, FrozenInv, ListedInv
<1>5. TakenInv'
  <2>1. /\ freeze'.rows.requests = requests /\ freeze'.rows.renderings = Active(approved)
        /\ freeze'.todo = <<"requests", "renderings">> /\ freeze'.at = "write"
        /\ freeze'.version = v
    BY <1>1
  <2>2. <<"requests", "renderings">> # <<>>
    OBVIOUS
  <2> QED BY <1>1, <1>2, <2>1, <2>2 DEF TakenInv
<1> QED BY <1>4, <1>5 DEF BenchmarkInv

LEMMA EndFreezeKeepsBenchmarks ==
  ASSUME BenchmarkInv, WriteFrozenRefused \/ ValidatePrompts
  PROVE  BenchmarkInv'
<1>1. /\ UNCHANGED <<domain, requests, promptsValid, frozen, manifest, load, edits, overwrites>>
  BY DEF WriteFrozenRefused, ValidatePrompts, sources, bounds
<1>2. SourcesInv' /\ FrozenInv' /\ ListedInv'
  BY <1>1 DEF BenchmarkInv, SourcesInv, FrozenInv, ListedInv
<1>3. TakenInv'
  <2>1. CASE freeze' = NoFreeze
    BY <2>1 DEF TakenInv, NoFreeze
  <2>2. CASE /\ freeze.at = "write" /\ freeze.todo = <<>>
             /\ freeze' = [freeze EXCEPT !.at = "manifest"]
    <3>1. /\ freeze'.version = freeze.version /\ freeze'.todo = freeze.todo
          /\ freeze'.rows = freeze.rows /\ freeze'.disturbed = freeze.disturbed
      BY <2>2
    <3> QED BY <1>1, <2>2, <3>1 DEF BenchmarkInv, TakenInv
  <2> QED BY <2>1, <2>2 DEF WriteFrozenRefused, ValidatePrompts
<1> QED BY <1>2, <1>3 DEF BenchmarkInv

\* A frozen file is written, whole or not, with the rows the freeze has taken.
Fits(kind, file) ==
    /\ file.exists
    /\ kind = "requests" => file.rows.valid
    /\ kind = "renderings" => AllActive(file.rows)

Puts(v, kind, file) == frozen' = [frozen EXCEPT ![v][kind] = file]

LEMMA FileIsOfTheFreeze ==
  ASSUME FrozenInv, NEW v \in Versions, NEW kind \in {"requests", "renderings"}, NEW file,
         Fits(kind, file), Puts(v, kind, file)
  PROVE  /\ FrozenInv'
         /\ \A w \in Versions, k \in {"requests", "renderings"} :
               frozen'[w][k] = IF w = v /\ k = kind THEN file ELSE frozen[w][k]
<1> USE DEF Fits, Puts
<1>1. \A w \in Versions, k \in {"requests", "renderings"} :
         frozen'[w][k] = IF w = v /\ k = kind THEN file ELSE frozen[w][k]
  BY DEF FrozenInv
<1>2. frozen' = [w \in Versions |-> [k \in {"requests", "renderings"} |-> frozen'[w][k]]]
  BY DEF FrozenInv
<1>3. \A w \in Versions :
         /\ frozen'[w]["requests"].exists => frozen'[w]["requests"].rows.valid
         /\ frozen'[w]["renderings"].exists => AllActive(frozen'[w]["renderings"].rows)
  BY <1>1 DEF FrozenInv
<1> QED BY <1>1, <1>2, <1>3 DEF FrozenInv

\* The next file of a freeze, and its rows.
LEMMA NextFile ==
  ASSUME TakenInv, freeze.at # "idle", freeze.todo # <<>>
  PROVE  /\ Head(freeze.todo) \in {"requests", "renderings"}
         /\ Head(freeze.todo) = "requests" => freeze.rows["requests"].valid
         /\ Head(freeze.todo) = "renderings" => AllActive(freeze.rows["renderings"])
         /\ Tail(freeze.todo) \in {<<"renderings">>, <<>>}
         /\ Tail(freeze.todo) = <<"renderings">> => Head(freeze.todo) = "requests"
         /\ (Tail(freeze.todo) = <<>> => Head(freeze.todo) = "renderings")
<1>1. CASE freeze.todo = <<"requests", "renderings">>
  <2>1. Head(freeze.todo) = "requests" /\ Tail(freeze.todo) = <<"renderings">>
    BY <1>1
  <2> QED BY <2>1 DEF TakenInv
<1>2. CASE freeze.todo = <<"renderings">>
  <2>1. Head(freeze.todo) = "renderings" /\ Tail(freeze.todo) = <<>>
    BY <1>2
  <2> QED BY <2>1 DEF TakenInv
<1> QED BY <1>1, <1>2 DEF TakenInv

LEMMA WriteFrozenKeepsBenchmarks ==
  ASSUME IInv, BenchmarkInv, WriteFrozen
  PROVE  BenchmarkInv'
<1>1. /\ freeze.at = "write" /\ freeze.todo # <<>>
      /\ freeze' = [freeze EXCEPT !.todo = Tail(@)] /\ load' = Disturbed(load)
      /\ UNCHANGED <<domain, requests, promptsValid, manifest, edits, overwrites>>
  BY DEF WriteFrozen, sources, bounds
<1>2. PICK v \in Versions : v = freeze.version
  BY <1>1 DEF IInv, FreezeInv
<1>3. PICK kind \in {"requests", "renderings"} : kind = Head(freeze.todo)
  BY <1>1, NextFile DEF BenchmarkInv
<1>4. PICK file : file = [exists |-> TRUE, whole |-> TRUE, rows |-> freeze.rows[kind],
                          readOnly |-> TRUE]
  OBVIOUS
<1>5. Puts(v, kind, file)
  BY <1>2, <1>3, <1>4 DEF WriteFrozen, Puts
<1>6. Fits(kind, file) /\ file.exists
  BY <1>1, <1>3, <1>4, NextFile DEF BenchmarkInv, Fits
<1>7. /\ FrozenInv'
      /\ \A w \in Versions, k \in {"requests", "renderings"} :
            frozen'[w][k] = IF w = v /\ k = kind THEN file ELSE frozen[w][k]
  BY <1>5, <1>6, FileIsOfTheFreeze DEF BenchmarkInv
<1>8. ListedInv'
  BY <1>1, <1>6, <1>7, DisturbedKeepsListed DEF BenchmarkInv
<1>9. TakenInv'
  <2>1. /\ freeze'.at = "write" /\ freeze'.version = v /\ freeze'.rows = freeze.rows
        /\ freeze'.todo = Tail(freeze.todo) /\ freeze'.disturbed = freeze.disturbed
    BY <1>1, <1>2 DEF IInv, FreezeInv
  <2>2. /\ Tail(freeze.todo) \in {<<"renderings">>, <<>>}
        /\ Tail(freeze.todo) = <<"renderings">> => kind = "requests"
        /\ (Tail(freeze.todo) = <<>> => kind = "renderings")
    BY <1>1, <1>3, NextFile DEF BenchmarkInv
  <2>3. /\ frozen[v]["requests"].exists => frozen'[v]["requests"].exists
        /\ frozen'[v][kind].exists
    BY <1>6, <1>7
  <2>4. kind = "renderings" => frozen[v]["requests"].exists
    <3>1. freeze.todo = <<"requests", "renderings">> => Head(freeze.todo) = "requests"
      BY <1>1
    <3> QED BY <1>1, <1>2, <1>3, <3>1 DEF BenchmarkInv, TakenInv
  <2>5. frozen'[v]["requests"].exists
    BY <1>3, <2>3, <2>4
  <2>6. /\ freeze.rows.requests.valid /\ AllActive(freeze.rows.renderings)
        /\ ~freeze.disturbed => domain[DomainOf(freeze.version)].valid
    BY <1>1 DEF BenchmarkInv, TakenInv
  <2> QED BY <1>1, <1>2, <2>1, <2>2, <2>3, <2>5, <2>6 DEF TakenInv
<1>10. SourcesInv'
  BY <1>1 DEF BenchmarkInv, SourcesInv
<1> QED BY <1>7, <1>8, <1>9, <1>10 DEF BenchmarkInv

LEMMA WriteManifestKeepsBenchmarks ==
  ASSUME IInv, BenchmarkInv, WriteManifest
  PROVE  BenchmarkInv'
<1>1. /\ freeze.at = "manifest" /\ freeze' = NoFreeze /\ load' = Disturbed(load)
      /\ UNCHANGED <<domain, requests, promptsValid, frozen, edits, overwrites>>
  BY DEF WriteManifest, sources, bounds
<1>2. PICK v \in Versions : v = freeze.version
  BY <1>1 DEF IInv, FreezeInv
<1>3. PICK m : m = [exists |-> TRUE, whole |-> TRUE, contents |-> Contents(v),
                    overwrite |-> freeze.overwrite, disturbed |-> freeze.disturbed]
  OBVIOUS
<1>4. manifest' = [manifest EXCEPT ![v] = m]
  BY <1>2, <1>3 DEF WriteManifest
<1>5. Listed(m)
  <2>1. /\ frozen[v]["requests"].exists /\ frozen[v]["renderings"].exists
        /\ ~freeze.disturbed => domain[DomainOf(v)].valid
    <3>1. freeze.todo = <<>> /\ <<>> # <<"requests", "renderings">>
      BY <1>1 DEF BenchmarkInv, TakenInv
    <3> QED BY <1>1, <1>2, <3>1 DEF BenchmarkInv, TakenInv
  <2>2. /\ frozen[v]["requests"].rows.valid /\ AllActive(frozen[v]["renderings"].rows)
    BY <2>1 DEF BenchmarkInv, FrozenInv
  <2>3. /\ m.contents.renderings.rows = frozen[v]["renderings"].rows
        /\ m.contents.requests.rows = frozen[v]["requests"].rows
        /\ m.contents.domain = domain[DomainOf(v)] /\ m.disturbed = freeze.disturbed
    BY <1>3 DEF Contents
  <2> QED BY <2>1, <2>2, <2>3 DEF Listed
<1>6. \A w \in Versions : manifest'[w].exists /\ manifest'[w].whole => Listed(manifest'[w])
  <2>1. \A w \in Versions : manifest'[w] = IF w = v THEN m ELSE manifest[w]
    BY <1>4 DEF IInv, ManifestInv
  <2> QED BY <1>5, <2>1 DEF BenchmarkInv, ListedInv
<1>7. ListedInv'
  BY <1>1, <1>6, DisturbedLoadKeepsListed DEF BenchmarkInv
<1>8. SourcesInv' /\ FrozenInv' /\ TakenInv'
  BY <1>1 DEF BenchmarkInv, SourcesInv, FrozenInv, TakenInv, NoFreeze
<1> QED BY <1>7, <1>8 DEF BenchmarkInv

LEMMA KillFreezeKeepsBenchmarks ==
  ASSUME IInv, BenchmarkInv, KillFreeze
  PROVE  BenchmarkInv'
<1>1. /\ freeze # NoFreeze /\ freeze' = NoFreeze
      /\ UNCHANGED <<domain, requests, promptsValid, edits, overwrites>>
  BY DEF KillFreeze, sources, bounds
<1>2. PICK v \in Versions : v = freeze.version
  BY <1>1 DEF IInv, FreezeInv
<1>3. SourcesInv' /\ TakenInv'
  BY <1>1 DEF BenchmarkInv, SourcesInv, TakenInv, NoFreeze
<1>4. CASE UNCHANGED <<frozen, manifest, load>>
  BY <1>3, <1>4 DEF BenchmarkInv, FrozenInv, ListedInv
<1>5. CASE /\ freeze.at = "write" /\ freeze.todo # <<>>
           /\ frozen' = [frozen EXCEPT ![freeze.version][Head(freeze.todo)] =
                            [exists |-> TRUE, whole |-> FALSE, rows |-> freeze.rows[Head(freeze.todo)],
                             readOnly |-> FALSE]]
           /\ load' = Disturbed(load) /\ UNCHANGED manifest
  <2>1. PICK kind \in {"requests", "renderings"} : kind = Head(freeze.todo)
    BY <1>5, NextFile DEF BenchmarkInv
  <2>2. PICK file : file = [exists |-> TRUE, whole |-> FALSE, rows |-> freeze.rows[kind],
                            readOnly |-> FALSE]
    OBVIOUS
  <2>3. Puts(v, kind, file)
    BY <1>2, <1>5, <2>1, <2>2 DEF Puts
  <2>4. Fits(kind, file) /\ file.exists
    BY <1>5, <2>1, <2>2, NextFile DEF BenchmarkInv, Fits
  <2>5. /\ FrozenInv'
        /\ \A w \in Versions, k \in {"requests", "renderings"} :
              frozen'[w][k] = IF w = v /\ k = kind THEN file ELSE frozen[w][k]
    BY <2>3, <2>4, FileIsOfTheFreeze DEF BenchmarkInv
  <2>6. ListedInv'
    BY <1>5, <2>4, <2>5, DisturbedKeepsListed DEF BenchmarkInv
  <2> QED BY <1>3, <2>5, <2>6 DEF BenchmarkInv
<1>6. CASE /\ manifest' = [manifest EXCEPT ![freeze.version] = [exists |-> TRUE, whole |-> FALSE]]
           /\ load' = Disturbed(load) /\ UNCHANGED frozen
  <2>1. \A w \in Versions : manifest'[w].exists /\ manifest'[w].whole => Listed(manifest'[w])
    <3>1. \A w \in Versions :
             manifest'[w] = IF w = v THEN [exists |-> TRUE, whole |-> FALSE] ELSE manifest[w]
      BY <1>2, <1>6 DEF IInv, ManifestInv
    <3> QED BY <3>1 DEF BenchmarkInv, ListedInv
  <2>2. ListedInv'
    BY <1>6, <2>1, DisturbedLoadKeepsListed DEF BenchmarkInv
  <2> QED BY <1>3, <1>6, <2>2 DEF BenchmarkInv, FrozenInv
<1> QED BY <1>4, <1>5, <1>6 DEF KillFreeze

LEMMA LoadsKeepBenchmarks ==
  ASSUME IInv, BenchmarkInv,
         (\E v \in Versions : StartLoad(v)) \/ Verify \/ Read \/ EndOfCommand
  PROVE  BenchmarkInv'
<1>1. UNCHANGED <<domain, requests, promptsValid, frozen, manifest, freeze, edits, overwrites>>
  BY DEF StartLoad, Verify, Read, EndOfCommand, sources, bounds
<1>2. SourcesInv' /\ FrozenInv' /\ TakenInv'
  BY <1>1 DEF BenchmarkInv, SourcesInv, FrozenInv, TakenInv
<1>3. \A v \in Versions : manifest'[v].exists /\ manifest'[v].whole => Listed(manifest'[v])
  BY <1>1 DEF BenchmarkInv, ListedInv
<1>4. CASE load' = NoLoad
  <2>1. ListedInv'
    BY <1>3, <1>4 DEF ListedInv, Listed, NoLoad
  <2> QED BY <1>2, <2>1 DEF BenchmarkInv
<1>5. CASE \E v \in Versions : StartLoad(v)
  <2>1. PICK v \in Versions :
           /\ manifest[v].exists /\ manifest[v].whole
           /\ load' = [at |-> "verify", version |-> v, manifest |-> manifest[v],
                       disturbed |-> FALSE]
    BY <1>5 DEF StartLoad
  <2>2. load'.at = "verify" /\ load'.manifest = manifest[v] /\ Listed(manifest[v])
    BY <2>1 DEF BenchmarkInv, ListedInv
  <2>3. ListedInv'
    BY <1>3, <2>2 DEF ListedInv, Listed
  <2> QED BY <1>2, <2>3 DEF BenchmarkInv
<1>6. CASE Verify /\ load' # NoLoad
  <2>1. /\ load.at = "verify" /\ load' = [load EXCEPT !.at = "read"]
        /\ \A kind \in ToSet(Kinds) : frozen[load.version][kind].exists
    BY <1>6 DEF Verify
  <2>2. ToSet(Kinds) = {"requests", "renderings"}
    BY DEF ToSet, Kinds
  <2>3. /\ load'.at = "read" /\ load'.version = load.version /\ load'.manifest = load.manifest
        /\ Listed(load.manifest)
    BY <2>1 DEF IInv, LoadInv, BenchmarkInv, ListedInv
  <2>4. ListedInv'
    BY <1>1, <1>3, <2>1, <2>2, <2>3 DEF ListedInv, Listed
  <2> QED BY <1>2, <2>4 DEF BenchmarkInv
<1>7. CASE Read /\ load' # NoLoad
  <2>1. PICK contents : contents = Contents(load.version)
    OBVIOUS
  <2>2. /\ load.at = "read" /\ ValidRenderings(contents.renderings.rows)
        /\ load' = [at |-> "loaded", version |-> load.version, manifest |-> load.manifest,
                    contents |-> contents, disturbed |-> load.disturbed]
    BY <1>7, <2>1 DEF Read
  <2>3. /\ contents.requests.rows = frozen[load.version]["requests"].rows
        /\ contents.renderings.rows = frozen[load.version]["renderings"].rows
    BY <2>1 DEF Contents
  <2>4. contents.requests.rows.valid /\ AllActive(contents.renderings.rows)
    BY <2>2, <2>3 DEF IInv, LoadInv, BenchmarkInv, ListedInv, FrozenInv
  <2>5. /\ load'.at = "loaded" /\ load'.manifest = load.manifest /\ load'.contents = contents
        /\ Listed(load.manifest)
    BY <2>2 DEF BenchmarkInv, ListedInv
  <2>6. ListedInv'
    BY <1>3, <2>2, <2>4, <2>5 DEF ListedInv, Listed, ValidRenderings
  <2> QED BY <1>2, <2>6 DEF BenchmarkInv
<1> QED BY <1>4, <1>5, <1>6, <1>7 DEF EndOfCommand

LEMMA BenchmarkStays ==
  ASSUME BenchmarkInv, UNCHANGED freezeVars
  PROVE  BenchmarkInv'
<1>1. UNCHANGED <<domain, requests, promptsValid, frozen, manifest, freeze, load, edits, overwrites>>
  BY DEF freezeVars, sources, bounds
<1> QED BY <1>1 DEF BenchmarkInv, SourcesInv, FrozenInv, TakenInv, ListedInv

LEMMA BenchmarkStep ==
  ASSUME FreezeAssumption, IInv, ReviewInv, BenchmarkInv, [Next]_vars
  PROVE  BenchmarkInv'
<1>1. CASE UNCHANGED vars \/ UNCHANGED freezeVars
  BY <1>1, BenchmarkStays DEF vars
<1>2. CASE \E v \in Versions : StartLoad(v) \/ \E overwrite \in BOOLEAN : StartFreeze(v, overwrite)
  BY <1>2, LoadsKeepBenchmarks, StartFreezeTakesActive
<1> QED BY <1>1, <1>2, EditsKeepBenchmarks, EndFreezeKeepsBenchmarks, WriteFrozenKeepsBenchmarks,
           WriteManifestKeepsBenchmarks, KillFreezeKeepsBenchmarks, LoadsKeepBenchmarks DEF Next

\* A review runs between a freeze and a load; of the others, only a kill touches its state.
LEMMA FilesFit ==
  ASSUME RenderingAssumption, ReviewInv, [Next]_vars
  PROVE  ReviewInv'
<1>1. CASE NextReview \/ UNCHANGED vars
  BY <1>1, ReviewStep DEF vars
<1>2. CASE KillFreeze
  <2>1. /\ UNCHANGED <<corpora, review, discoveries, truncated>>
        /\ kills < MaxKills /\ kills' = kills + 1
    BY <1>2 DEF KillFreeze
  <2>2. kills' \in 0..MaxKills
    BY <2>1 DEF ReviewInv, RenderingAssumption
  <2> QED BY <2>1, <2>2, ReviewStays
<1>3. CASE ~(NextReview \/ KillFreeze \/ UNCHANGED vars)
  <2>1. UNCHANGED reviewVars
    BY <1>3 DEF Next, EditDomain, EditRequests, EditPrompts, StartLoad, StartFreeze,
       WriteFrozenRefused, ValidatePrompts, WriteFrozen, WriteManifest, Verify, Read, EndOfCommand
  <2> QED BY <2>1, ReviewStep
<1> QED BY <1>1, <1>2, <1>3

\* The files of the renderings fit at any time, whatever is discovered, reviewed, killed
\* and reviewed again.
THEOREM FilesAlwaysFit == Spec => []ReviewInv
<1>1. Init => ReviewInv
  BY ReviewInit, RenderingAssumption DEF Init
<1>2. ReviewInv /\ [Next]_vars => ReviewInv'
  BY FilesFit, RenderingAssumption
<1> QED BY <1>1, <1>2, PTL DEF Spec

\* An operation never has two active discovered renderings, and no two approved rows
\* have the same id (review_rendering_candidates supersedes by operation and passes over
\* an id the corpus holds).
THEOREM OneActive == Spec => []AtMostOneActive
<1>1. ReviewInv => AtMostOneActive
  BY FitsMeansAtMostOne
<1> QED BY <1>1, FilesAlwaysFit, PTL

\* The approved corpus is rewritten by a review alone, or cut short by a kill.
LEMMA CorpusIsRewritten ==
  ASSUME [Next]_vars, approved' # approved, ~truncated'
  PROVE  review.at = "approved" /\ approved' = review.approved
<1>1. NextReview
  BY DEF Next, vars, reviewVars, corpora, EditDomain, EditRequests, EditPrompts, StartLoad,
     StartFreeze, WriteFrozenRefused, ValidatePrompts, WriteFrozen, WriteManifest, KillFreeze,
     Verify, Read, EndOfCommand
<1>2. WriteApproved
  BY <1>1 DEF NextReview, StartReview, Discover, WriteRejected, WriteInput, KillReview, corpora
<1> QED BY <1>2 DEF WriteApproved

\* An operation that has an active rendering keeps one: what a review writes has one for
\* every operation the corpus had one for (review_rendering_candidates).
THEOREM ActiveIsKept == Spec => ActiveIsReplacedNotLost
<1> DEFINE Kept == ~truncated' => \A o \in Ops :
                      ActiveOf(approved, o) # {} => ActiveOf(approved', o) # {}
<1>1. ReviewInv /\ [Next]_vars => [Kept]_approved
  BY CorpusIsRewritten DEF ReviewInv, KeepsActive
<1> QED BY <1>1, FilesAlwaysFit, PTL DEF Spec, ActiveIsReplacedNotLost
-------------------------------------------------------------------------------
\* What is frozen and loaded has been validated, at any time.
THEOREM BenchmarksAreValidated == Spec => []BenchmarkInv
<1>1. Init => BenchmarkInv
  BY BenchmarkInit, FreezeAssumption
<1>2. IInv /\ ReviewInv /\ BenchmarkInv /\ [Next]_vars => BenchmarkInv'
  BY BenchmarkStep, FreezeAssumption
<1> QED BY <1>1, <1>2, InvariantHolds, FilesAlwaysFit, PTL DEF Spec

LEMMA InvariantsType ==
  ASSUME IInv, ReviewInv, BenchmarkInv
  PROVE  TypeOK
<1>1. ReviewTypeOK
  BY DEF ReviewInv, ReviewTypeOK, CorpusFits
<1>2. \A d \in DOMAIN domain : domain[d] \in [edition : 0..MaxEdits, valid : BOOLEAN]
  BY DEF BenchmarkInv, SourcesInv, Edition
<1>3. requests \in [edition : 0..MaxEdits, valid : BOOLEAN] /\ promptsValid \in BOOLEAN
  BY DEF BenchmarkInv, SourcesInv, Edition
<1>4. /\ freeze.at \in {"idle", "write", "manifest"}
      /\ load.at \in {"idle", "verify", "read", "loaded"}
      /\ edits \in 0..MaxEdits /\ overwrites \in 0..MaxOverwrites
  BY DEF IInv, FreezeInv, LoadInv, BenchmarkInv, SourcesInv
<1>5. \A v \in Versions : manifest[v].exists /\ manifest[v].whole =>
         manifest[v].contents.renderings.rows \in Seq(Rendering)
  BY DEF BenchmarkInv, ListedInv, Listed, AllActive
<1> QED BY <1>1, <1>2, <1>3, <1>4, <1>5 DEF TypeOK

\* A benchmark that loads is a validated one, whatever was edited, killed or frozen over:
\* a freeze takes valid requests and active renderings alone, a manifest lists what a freeze
\* took, a load reads what its manifest lists or validates it again, and a domain that was
\* edited in between is known to be (freeze_benchmark, FrozenBenchmark).
THEOREM LoadedIsValid == Spec => []LoadedBenchmarkIsValid
<1>1. IInv /\ ReviewInv /\ BenchmarkInv => LoadedBenchmarkIsValid
  <2> SUFFICES ASSUME IInv, ReviewInv, BenchmarkInv PROVE LoadedBenchmarkIsValid
    OBVIOUS
  <2>1. TypeOK
    BY InvariantsType
  <2>2. ASSUME load.at = "loaded", NEW o \in Ops
        PROVE  LET found == ActiveOf(load.contents.renderings.rows, o)
               IN  Cardinality(found) = 1
                   /\ \A k \in found : load.contents.renderings.rows[k].model # Mock
    <3> DEFINE rows == load.contents.renderings.rows
    <3>1. AllActive(rows) /\ ValidRenderings(rows)
      BY <2>2 DEF BenchmarkInv, ListedInv
    <3>2. ActiveOf(rows, o) = {k \in DOMAIN rows : rows[k].op = o}
      BY <3>1 DEF ActiveOf, AllActive
    <3> QED BY <3>1, <3>2 DEF ValidRenderings
  <2>3. load.at = "loaded" => load.contents.requests.rows.valid
    BY DEF BenchmarkInv, ListedInv
  <2>4. ASSUME load.at = "loaded", ~load.disturbed, ~load.manifest.disturbed
        PROVE  load.contents.domain.valid
    BY <2>4 DEF IInv, LoadInv, BenchmarkInv, ListedInv, Listed
  <2> QED BY <2>1, <2>2, <2>3, <2>4 DEF LoadedBenchmarkIsValid
<1> QED BY <1>1, InvariantHolds, FilesAlwaysFit, BenchmarksAreValidated, PTL
===============================================================================
