--------------------------- MODULE Authoring_proofs ---------------------------
(* Proofs about what is authored before a benchmark is frozen: renderings are *)
(* discovered without losing a paid answer, for any operations, samples,      *)
(* sessions and kills, and requests are reviewed without losing one, for any  *)
(* candidate files, requests, decisions and kills.                            *)
EXTENDS Discovery, RequestReview, FiniteSetTheorems, SequenceTheorems,
        WellFoundedInduction, TLAPS

-------------------------------------------------------------------------------
(* Rendering discovery *)

Row == [index : Indices, status : Answers]

\* Every sample of 0, ..., n - 1 has its answer, and some of them are valid.
Done(o, n) ==
    /\ \A i \in 0..(n - 1) : Completed(o, i)
    /\ ValidUnder(o, n) # {}

\* The rows of a sample are failed calls, but for the last one.
AnsweredLast(o, i) ==
    \E m \in RowsOf(o, i) : \A k \in RowsOf(o, i) :
        k <= m /\ (k # m => ledger[o][k].status = "PROVIDER_ERROR")

SampleInv(o, i) ==
    RowsOf(o, i) # {} =>
        /\ AnsweredLast(o, i)
        /\ \A j \in 0..(i - 1) : Completed(o, j)
        /\ i >= Limit => \E j \in (i - Limit)..(i - 1) : StatusOf(o, j) = "VALID"

LedgerInv == \A o \in Ops, i \in Indices : SampleInv(o, i)

\* What the session counts is what the checkpoint says of the samples behind it.
StreakIsOfLedger ==
    /\ streak <= index
    /\ \A o \in Ops : o = current =>
          \A j \in 0..(index - 1) :
             /\ Completed(o, j)
             /\ j >= index - streak => StatusOf(o, j) = "INVALID"
             /\ j = index - 1 - streak => StatusOf(o, j) = "VALID"

Sampling == at \in {"sample"} \cup Answers

\* The operation is done as far as the session asked.
DoneInSession(o) == \A n \in 0..MaxSamples : n = session.samples => Done(o, n)

SessionInv ==
    /\ Sampling \/ at \in {"interrupt", "endOfOp", "summarise"} => todo # {}
    /\ Sampling => index < session.samples /\ streak < Limit
    /\ at \in Answers => \A o \in Ops, i \in Indices :
                            o = current /\ i = index => ~Completed(o, i)
    /\ Sampling \/ at = "endOfOp" => StreakIsOfLedger
    /\ at = "endOfOp" => \/ index = session.samples
                         \/ index < session.samples /\ streak = Limit
    /\ at = "summarise" => \A o \in Ops : o = current => o \in failed \/ DoneInSession(o)
    /\ at = "finish" => todo = {}
    /\ at # "idle" => session.samples > 0
    /\ at # "idle" => \A o \in session.ops \ (todo \cup failed) : DoneInSession(o)

OutputInv(o) ==
    output[o] # NoCandidate =>
        \E n \in 0..MaxSamples : output[o] = Candidate(o, n) /\ Done(o, n)

SummaryInv ==
    summary.status = "COMPLETE" =>
        \A o \in summary.ops, n \in 0..MaxSamples : n = summary.samples => Done(o, n)

IInv ==
    /\ TypeOK /\ LedgerInv /\ SessionInv
    /\ \A o \in Ops : OutputInv(o)
    /\ SummaryInv
    /\ FailuresHaveACause
    /\ PaidAnswersAreKept
-------------------------------------------------------------------------------
\* A non-empty set of naturals has a least element, which Min chooses.
LEMMA MinIsElement ==
  ASSUME NEW S \in SUBSET Nat, S # {}
  PROVE  Min(S) \in S /\ \A y \in S : Min(S) <= y
<1> DEFINE Below(n) == 0..n
           T == {Below(n) : n \in S}
<1>1. \A n \in Nat : Below(n) \in FiniteSubsetsOf(Nat)
  BY FS_Interval DEF FiniteSubsetsOf
<1>2. T \subseteq FiniteSubsetsOf(Nat) /\ T # {}
  BY <1>1
<1>3. PICK U \in T : \A V \in T : ~(<<V, U>> \in StrictSubsetOrdering(Nat))
  BY <1>2, FS_StrictSubsetOrderingWellFounded, WFMin
<1>4. PICK n \in S : U = Below(n)
  OBVIOUS
<1>5. ASSUME NEW m \in S, m < n PROVE FALSE
  <2>1. Below(m) \subseteq Below(n) /\ Below(m) # Below(n)
    <3>1. n \in Below(n) /\ n \notin Below(m)
      BY <1>5
    <3> QED BY <1>5, <3>1
  <2>2. <<Below(m), Below(n)>> \in StrictSubsetOrdering(Nat)
    BY <1>1, <2>1 DEF StrictSubsetOrdering, FiniteSubsetsOf
  <2> QED BY <1>3, <1>4, <2>2
<1>6. \A y \in S : n =< y
  BY <1>5
<1> QED BY <1>6 DEF Min

\* Max chooses the largest element of a set that has one.
LEMMA MaxIsIt ==
  ASSUME NEW S \in SUBSET Nat, NEW m \in S, \A x \in S : x <= m
  PROVE  Max(S) = m
<1> DEFINE Top(x) == x \in S /\ \A y \in S : x >= y
<1>1. Top(m)
  OBVIOUS
<1>2. \A x : Top(x) => x = m
  OBVIOUS
<1>3. (CHOOSE x \in S : \A y \in S : x >= y) = m
  BY <1>1, <1>2
<1> QED BY <1>3 DEF Max

LEMMA ConstantsAreNat ==
  /\ MaxSamples \in Nat \ {0} /\ Limit \in Nat \ {0} /\ MaxRows \in Nat \ {0}
  /\ MaxCrashes \in Nat \ {0} /\ Ops \subseteq Nat /\ IsFiniteSet(Ops)
BY DiscoveryAssumption DEF DiscoveryAssumption

\* The operation a session works on is one of its own.
LEMMA CurrentIsOfTodo ==
  ASSUME TypeOK, todo # {}
  PROVE  current \in todo /\ current \in Ops /\ current \in session.ops
<1>1. todo \in SUBSET Nat /\ session.ops \subseteq Ops /\ todo \subseteq session.ops
  BY ConstantsAreNat DEF TypeOK
<1> QED BY <1>1, MinIsElement DEF current

\* Without a new row the checkpoint says what it said.
LEMMA SameLedger ==
  ASSUME ledger' = ledger
  PROVE  /\ \A o, i : RowsOf(o, i)' = RowsOf(o, i)
         /\ \A o, i : StatusOf(o, i)' = StatusOf(o, i)
         /\ \A o, i : Completed(o, i)' = Completed(o, i)
         /\ \A o, n : ValidUnder(o, n)' = ValidUnder(o, n)
         /\ \A o, n : Done(o, n)' = Done(o, n)
         /\ \A o, n : HasFailed(o, n)' = HasFailed(o, n)
         /\ \A o, n : Candidate(o, n)' = Candidate(o, n)
         /\ LedgerInv' = LedgerInv
BY DEF RowsOf, StatusOf, Completed, RecordedUnder, ValidUnder, Done, Candidate, LedgerInv,
       SampleInv, AnsweredLast, HasFailed, EndsInvalid

LEMMA RowsAreTyped ==
  ASSUME TypeOK, NEW o \in Ops
  PROVE  /\ ledger[o] \in Seq(Row) /\ Len(ledger[o]) \in Nat
         /\ \A k \in 1..Len(ledger[o]) : ledger[o][k] \in Row
<1>1. ledger \in [Ops -> Seq(Row)]
  BY DEF TypeOK, Row
<1>2. ledger[o] \in Seq(Row)
  BY <1>1
<1> QED BY <1>2, LenProperties, ElementOfSeq

\* The last row of a sample stands for it.
LEMMA LastRowStands ==
  ASSUME TypeOK, NEW o \in Ops, NEW i, RowsOf(o, i) # {}, AnsweredLast(o, i)
  PROVE  /\ Max(RowsOf(o, i)) \in RowsOf(o, i)
         /\ StatusOf(o, i) \in Answers
         /\ ~Completed(o, i) => \A k \in RowsOf(o, i) : ledger[o][k].status = "PROVIDER_ERROR"
<1>1. PICK m \in RowsOf(o, i) : \A k \in RowsOf(o, i) :
         k <= m /\ (k # m => ledger[o][k].status = "PROVIDER_ERROR")
  BY DEF AnsweredLast
<1>2. RowsOf(o, i) \in SUBSET Nat
  BY DEF RowsOf, TypeOK
<1>3. Max(RowsOf(o, i)) = m
  BY <1>1, <1>2, MaxIsIt
<1>4. ledger[o][m] \in Row /\ ledger[o][m].status \in Answers
  BY RowsAreTyped DEF RowsOf, Row
<1> QED BY <1>1, <1>3, <1>4 DEF StatusOf, Completed

-------------------------------------------------------------------------------
\* The new row stands for its sample, and says nothing of the others.
LEMMA RecordAdds ==
  ASSUME TypeOK, LedgerInv,
         NEW c \in Ops, NEW i0 \in Indices, NEW s \in Answers, ~Completed(c, i0),
         ledger' = [ledger EXCEPT ![c] = Append(@, [index |-> i0, status |-> s])]
  PROVE  /\ RowsOf(c, i0)' = RowsOf(c, i0) \cup {Len(ledger[c]) + 1}
         /\ \A k \in RowsOf(c, i0) : ledger'[c][k].status = "PROVIDER_ERROR"
         /\ StatusOf(c, i0)' = s
         /\ Completed(c, i0)' <=> (s # "PROVIDER_ERROR")
         /\ AnsweredLast(c, i0)'
         /\ \A o \in Ops, i \in Indices : <<o, i>> # <<c, i0>> =>
               /\ RowsOf(o, i)' = RowsOf(o, i)
               /\ \A k \in RowsOf(o, i) : ledger'[o][k] = ledger[o][k]
               /\ RowsOf(o, i) # {} => StatusOf(o, i)' = StatusOf(o, i)
               /\ Completed(o, i)' <=> Completed(o, i)
<1> DEFINE row == [index |-> i0, status |-> s]
           n == Len(ledger[c])
<1>1. /\ row \in Row /\ ledger[c] \in Seq(Row) /\ n \in Nat
      /\ \A k \in 1..n : ledger[c][k] \in Row
  BY RowsAreTyped DEF Row
<1>2. /\ ledger'[c] = Append(ledger[c], row)
      /\ \A o \in Ops : o # c => ledger'[o] = ledger[o]
  BY DEF TypeOK
<1>3. /\ Len(ledger'[c]) = n + 1
      /\ \A k \in 1..n : ledger'[c][k] = ledger[c][k]
      /\ ledger'[c][n + 1] = row
  BY <1>1, <1>2, AppendProperties
<1>4. /\ RowsOf(c, i0)' = RowsOf(c, i0) \cup {n + 1}
      /\ \A i \in Indices : i # i0 => RowsOf(c, i)' = RowsOf(c, i)
  BY <1>1, <1>3 DEF RowsOf
<1>5. \A k \in RowsOf(c, i0) : k \in 1..n /\ ledger'[c][k].status = "PROVIDER_ERROR"
  <2>1. CASE RowsOf(c, i0) = {}
    BY <2>1
  <2>2. CASE RowsOf(c, i0) # {}
    <3>1. AnsweredLast(c, i0)
      BY <2>2 DEF LedgerInv, SampleInv
    <3>2. \A k \in RowsOf(c, i0) : ledger[c][k].status = "PROVIDER_ERROR"
      BY <2>2, <3>1, LastRowStands
    <3> QED BY <1>3, <3>2 DEF RowsOf
  <2> QED BY <2>1, <2>2
<1>6. Max(RowsOf(c, i0)') = n + 1
  <2>1. RowsOf(c, i0)' \in SUBSET Nat /\ n + 1 \in RowsOf(c, i0)'
    BY <1>1, <1>4, <1>5
  <2>2. \A k \in RowsOf(c, i0)' : k <= n + 1
    BY <1>1, <1>4, <1>5
  <2> QED BY <2>1, <2>2, MaxIsIt
<1>7. StatusOf(c, i0)' = s /\ (Completed(c, i0)' <=> (s # "PROVIDER_ERROR"))
  <2>1. StatusOf(c, i0)' = ledger'[c][Max(RowsOf(c, i0)')].status
    BY DEF StatusOf
  <2>2. StatusOf(c, i0)' = s
    BY <1>3, <1>6, <2>1
  <2>3. Completed(c, i0)' <=> (RowsOf(c, i0)' # {} /\ StatusOf(c, i0)' # "PROVIDER_ERROR")
    BY DEF Completed
  <2> QED BY <1>4, <2>2, <2>3
<1>8. AnsweredLast(c, i0)'
  BY <1>1, <1>4, <1>5 DEF AnsweredLast
<1>9. ASSUME NEW o \in Ops, NEW i \in Indices, <<o, i>> # <<c, i0>>
      PROVE  /\ RowsOf(o, i)' = RowsOf(o, i)
             /\ \A k \in RowsOf(o, i) : ledger'[o][k] = ledger[o][k]
             /\ RowsOf(o, i) # {} => StatusOf(o, i)' = StatusOf(o, i)
             /\ Completed(o, i)' <=> Completed(o, i)
  <2>1. RowsOf(o, i)' = RowsOf(o, i)
    BY <1>2, <1>4, <1>9 DEF RowsOf
  <2>2. \A k \in RowsOf(o, i) : ledger'[o][k] = ledger[o][k]
    BY <1>2, <1>3 DEF RowsOf
  <2>3. RowsOf(o, i) # {} => Max(RowsOf(o, i)) \in RowsOf(o, i)
    BY LastRowStands DEF LedgerInv, SampleInv
  <2>4. RowsOf(o, i) # {} => StatusOf(o, i)' = StatusOf(o, i)
    BY <2>1, <2>2, <2>3 DEF StatusOf
  <2> QED BY <2>1, <2>2, <2>4 DEF Completed
<1> QED BY <1>4, <1>5, <1>7, <1>8, <1>9

\* What is done stays done, and the samples it was judged by stay what they were.
LEMMA DoneIsKept ==
  ASSUME TypeOK, LedgerInv,
         NEW c \in Ops, NEW i0 \in Indices, NEW s \in Answers, ~Completed(c, i0),
         ledger' = [ledger EXCEPT ![c] = Append(@, [index |-> i0, status |-> s])],
         NEW o \in Ops, NEW n \in 0..MaxSamples, Done(o, n)
  PROVE  Done(o, n)' /\ ValidUnder(o, n)' = ValidUnder(o, n)
<1>1. \A i \in 0..(n - 1) : i \in Indices /\ <<o, i>> # <<c, i0>>
  BY ConstantsAreNat DEF Done, Indices
<1>2. \A i \in 0..(n - 1) : /\ RowsOf(o, i)' = RowsOf(o, i)
                            /\ RowsOf(o, i) # {} => StatusOf(o, i)' = StatusOf(o, i)
                            /\ Completed(o, i)' <=> Completed(o, i)
  BY <1>1, RecordAdds
<1>3. RecordedUnder(o, n)' = RecordedUnder(o, n)
  BY <1>2 DEF RecordedUnder
<1>4. ValidUnder(o, n)' = ValidUnder(o, n)
  <2>1. \A i \in RecordedUnder(o, n) : StatusOf(o, i)' = StatusOf(o, i)
    BY <1>2 DEF RecordedUnder
  <2> QED BY <1>3, <2>1 DEF ValidUnder
<1> QED BY <1>2, <1>4 DEF Done

\* An answer that has its row is not replaced.
LEMMA AnswersAreKept ==
  ASSUME TypeOK, LedgerInv,
         NEW c \in Ops, NEW i0 \in Indices, NEW s \in Answers, ~Completed(c, i0),
         ledger' = [ledger EXCEPT ![c] = Append(@, [index |-> i0, status |-> s])],
         NEW o \in Ops, NEW i \in Indices, Completed(o, i)
  PROVE  Completed(o, i)' /\ StatusOf(o, i)' = StatusOf(o, i)
<1>1. <<o, i>> # <<c, i0>> /\ RowsOf(o, i) # {}
  BY DEF Completed
<1> QED BY <1>1, RecordAdds

\* The reason an operation was given up for stays in the checkpoint.
LEMMA CauseIsKept ==
  ASSUME TypeOK, LedgerInv,
         NEW c \in Ops, NEW i0 \in Indices, NEW s \in Answers, ~Completed(c, i0),
         ledger' = [ledger EXCEPT ![c] = Append(@, [index |-> i0, status |-> s])],
         NEW o \in Ops, NEW n \in 0..MaxSamples, HasFailed(o, n)
  PROVE  HasFailed(o, n)'
<1>1. ASSUME NEW m \in 0..n, NEW k, EndsInvalid(o, m, k)
      PROVE  EndsInvalid(o, m, k)'
  <2>1. \A i \in 0..(m - 1) : i \in Indices
    BY ConstantsAreNat DEF Indices
  <2>2. \A i \in 0..(m - 1) : Completed(o, i)' /\ StatusOf(o, i)' = StatusOf(o, i)
    BY <1>1, <2>1, AnswersAreKept DEF EndsInvalid
  <2> QED BY <1>1, <2>2 DEF EndsInvalid
<1>2. n \in 0..n /\ \A m \in Limit..n : m \in 0..n
  BY ConstantsAreNat
<1>3. CASE EndsInvalid(o, n, n)
  BY <1>1, <1>2, <1>3 DEF HasFailed
<1>4. CASE \E m \in Limit..n : EndsInvalid(o, m, Limit)
  BY <1>1, <1>2, <1>4 DEF HasFailed
<1> QED BY <1>3, <1>4 DEF HasFailed

\* What is known while a session is at a sample.
LEMMA AtSample ==
  ASSUME TypeOK, SessionInv, Sampling
  PROVE  /\ current \in todo /\ current \in Ops /\ current \in session.ops
         /\ index \in Nat /\ index \in Indices /\ index < session.samples
         /\ streak \in Nat /\ streak < Limit /\ StreakIsOfLedger
         /\ session.samples \in 0..MaxSamples
<1>1. /\ todo # {} /\ StreakIsOfLedger /\ index < session.samples /\ streak < Limit
  BY DEF SessionInv
<1>2. index \in Nat /\ streak \in Nat /\ session.samples \in 0..MaxSamples
  BY ConstantsAreNat DEF TypeOK
<1>3. index \in Indices
  BY <1>1, <1>2, ConstantsAreNat DEF Indices
<1> QED BY <1>1, <1>2, <1>3, CurrentIsOfTodo

LEMMA RecordKeepsLedger ==
  ASSUME TypeOK, LedgerInv, SessionInv, at \in Answers, Recorded
  PROVE  LedgerInv'
<1>0. PICK c \in Ops, i0 \in Indices : c = current /\ i0 = index /\ ~Completed(c, i0)
  BY AtSample DEF SessionInv, Sampling
<1>1. /\ index \in Nat /\ streak \in Nat /\ streak < Limit /\ StreakIsOfLedger
  BY AtSample DEF Sampling
<1>2. ledger' = [ledger EXCEPT ![c] = Append(@, [index |-> i0, status |-> at])]
  BY <1>0 DEF Recorded
<1> SUFFICES ASSUME NEW o \in Ops, NEW i \in Indices, RowsOf(o, i)' # {}
             PROVE  /\ AnsweredLast(o, i)'
                    /\ \A j \in 0..(i - 1) : Completed(o, j)'
                    /\ i >= Limit => \E j \in (i - Limit)..(i - 1) : StatusOf(o, j)' = "VALID"
  BY DEF LedgerInv, SampleInv
<1>3. /\ Limit \in Nat \ {0} /\ i \in Nat
      /\ \A j \in 0..(i - 1) : j \in Indices
      /\ i >= Limit => \A j \in (i - Limit)..(i - 1) : j \in 0..(i - 1)
  BY ConstantsAreNat DEF Indices
<1>4. CASE <<o, i>> = <<c, i0>>
  <2>0. o = c /\ i = i0
    BY <1>4
  <2>1. AnsweredLast(o, i)'
    <3>1. AnsweredLast(c, i0)'
      BY <1>0, <1>2, RecordAdds
    <3> QED BY <2>0, <3>1
  <2>2. \A j \in 0..(i - 1) : Completed(o, j)
    BY <1>0, <1>1, <1>4 DEF StreakIsOfLedger
  <2>3. ASSUME i >= Limit
        PROVE  \E j \in (i - Limit)..(i - 1) : StatusOf(o, j) = "VALID"
    <3>1. i - 1 - streak \in (i - Limit)..(i - 1) /\ streak < i
      BY <1>0, <1>1, <1>3, <2>3
    <3>2. StatusOf(o, i - 1 - streak) = "VALID"
      BY <1>0, <1>1, <1>4, <3>1 DEF StreakIsOfLedger
    <3> QED BY <3>1, <3>2
  <2> QED BY <1>0, <1>1, <1>2, <1>3, <2>1, <2>2, <2>3, AnswersAreKept
<1>5. CASE <<o, i>> # <<c, i0>>
  <2>1. /\ RowsOf(o, i)' = RowsOf(o, i)
        /\ \A k \in RowsOf(o, i) : ledger'[o][k] = ledger[o][k]
    BY <1>0, <1>1, <1>2, <1>5, RecordAdds
  <2>2. SampleInv(o, i) /\ RowsOf(o, i) # {}
    BY <2>1 DEF LedgerInv
  <2>3. AnsweredLast(o, i)'
    BY <2>1, <2>2 DEF SampleInv, AnsweredLast
  <2> QED BY <1>0, <1>1, <1>2, <1>3, <2>2, <2>3, AnswersAreKept DEF SampleInv
<1> QED BY <1>4, <1>5

\* How many samples have their answer.
Answered == {key \in Ops \X Indices : Completed(key[1], key[2])}

LEMMA RecordKeepsPaid ==
  ASSUME TypeOK, LedgerInv, SessionInv, PaidAnswersAreKept, at \in Answers, Recorded,
         paid' = paid, crashes' = crashes, at' \notin {"VALID", "INVALID"}
  PROVE  PaidAnswersAreKept'
<1> DEFINE inHand == IF at \in {"VALID", "INVALID"} THEN 1 ELSE 0
<1>1. PICK c \in Ops, i0 \in Indices : c = current /\ i0 = index /\ ~Completed(c, i0)
  BY AtSample DEF SessionInv, Sampling
<1>2. ledger' = [ledger EXCEPT ![c] = Append(@, [index |-> i0, status |-> at])]
  BY <1>1 DEF Recorded
<1>3. IsFiniteSet(Ops \X Indices)
  <2>1. 0 \in Int /\ MaxSamples - 1 \in Int
    BY ConstantsAreNat
  <2>2. IsFiniteSet(0..(MaxSamples - 1))
    BY <2>1, FS_Interval
  <2> QED BY <2>2, ConstantsAreNat, FS_Product DEF Indices
<1>4. IsFiniteSet(Answered) /\ Cardinality(Answered) \in Nat
  BY <1>3, FS_Subset, FS_CardinalityType DEF Answered
<1>5. \A o \in Ops, i \in Indices :
         Completed(o, i)' <=> \/ Completed(o, i)
                              \/ <<o, i>> = <<c, i0>> /\ at # "PROVIDER_ERROR"
  <2>1. Completed(c, i0)' <=> (at # "PROVIDER_ERROR")
    BY <1>1, <1>2, RecordAdds
  <2>2. \A o \in Ops, i \in Indices :
           <<o, i>> # <<c, i0>> => (Completed(o, i)' <=> Completed(o, i))
    BY <1>1, <1>2, RecordAdds
  <2>3. ASSUME NEW o \in Ops, NEW i \in Indices, <<o, i>> = <<c, i0>>
        PROVE  Completed(o, i)' <=> (at # "PROVIDER_ERROR")
    BY <2>1, <2>3
  <2>4. ASSUME NEW o \in Ops, NEW i \in Indices, <<o, i>> = <<c, i0>>
        PROVE  ~Completed(o, i)
    BY <1>1, <2>4
  <2> QED BY <2>2, <2>3, <2>4
<1>6. Cardinality(Answered)' = Cardinality(Answered) + inHand
  <2>1. CASE at = "PROVIDER_ERROR"
    <3>1. Answered' = Answered
      BY <1>5, <2>1 DEF Answered
    <3> QED BY <1>4, <2>1, <3>1
  <2>2. CASE at # "PROVIDER_ERROR"
    <3>1. Answered' = Answered \cup {<<c, i0>>} /\ <<c, i0>> \notin Answered
      BY <1>1, <1>5, <2>2 DEF Answered
    <3>2. Cardinality(Answered \cup {<<c, i0>>}) = Cardinality(Answered) + 1
      BY <1>4, <3>1, FS_AddElement
    <3> QED BY <1>1, <2>2, <3>1, <3>2 DEF Answers
  <2> QED BY <2>1, <2>2
<1>7. paid <= Cardinality(Answered) + inHand + crashes
  BY DEF PaidAnswersAreKept, Answered
<1>8. paid <= Cardinality(Answered)' + 0 + crashes
  <2>1. paid \in Nat /\ crashes \in Nat /\ inHand \in {0, 1}
    BY ConstantsAreNat DEF TypeOK
  <2> QED BY <1>4, <1>6, <1>7, <2>1
<1>9. PaidAnswersAreKept' <=> (paid' <= Cardinality(Answered)' + 0 + crashes')
  BY DEF PaidAnswersAreKept, Answered
<1> QED BY <1>8, <1>9
-------------------------------------------------------------------------------
\* After an answer or a reused row the session's counts are the checkpoint's again.
LEMMA AdvanceCounts ==
  ASSUME TypeOK, SessionInv, Sampling, NEW s \in {"VALID", "INVALID"}, Advance(s),
         todo' = todo, session' = session,
         NEW c, c = current, NEW i0, i0 = index,
         \A j \in 0..(i0 - 1) : StatusOf(c, j)' = StatusOf(c, j),
         \A j \in 0..i0 : Completed(c, j)',
         StatusOf(c, i0)' = s
  PROVE  /\ StreakIsOfLedger'
         /\ index' \in 0..MaxSamples /\ streak' \in 0..Limit
         /\ \/ at' = "sample" /\ index' < session.samples /\ streak' < Limit
            \/ /\ at' = "endOfOp"
               /\ index' = session.samples \/ (index' < session.samples /\ streak' = Limit)
<1>1. /\ i0 \in Nat /\ i0 < session.samples /\ streak \in Nat /\ streak < Limit
      /\ session.samples \in 0..MaxSamples
      /\ streak <= i0
      /\ \A j \in 0..(i0 - 1) : /\ j >= i0 - streak => StatusOf(c, j) = "INVALID"
                                /\ j = i0 - 1 - streak => StatusOf(c, j) = "VALID"
  BY AtSample DEF StreakIsOfLedger
<1>2. Limit \in Nat \ {0} /\ MaxSamples \in Nat
  BY ConstantsAreNat
<1>3. /\ index' = i0 + 1
      /\ streak' = IF s = "INVALID" THEN streak + 1 ELSE 0
      /\ at' = IF streak' >= Limit \/ index' = session.samples THEN "endOfOp" ELSE "sample"
  BY DEF Advance
<1>4. streak' \in 0..Limit /\ index' \in 0..MaxSamples /\ streak' <= index'
  BY <1>1, <1>2, <1>3
<1>5. ASSUME NEW j \in 0..(index' - 1)
      PROVE  /\ Completed(c, j)'
             /\ j >= index' - streak' => StatusOf(c, j)' = "INVALID"
             /\ j = index' - 1 - streak' => StatusOf(c, j)' = "VALID"
  <2>1. j \in 0..i0
    BY <1>1, <1>3
  <2>2. CASE j = i0
    BY <1>1, <1>3, <2>2
  <2>3. CASE j # i0
    <3>1. j \in 0..(i0 - 1)
      BY <1>1, <2>1, <2>3
    <3>2. StatusOf(c, j)' = StatusOf(c, j)
      BY <3>1
    <3>3. j >= index' - streak' => s = "INVALID" /\ j >= i0 - streak
      BY <1>1, <1>3, <3>1
    <3>4. j = index' - 1 - streak' => s = "INVALID" /\ j = i0 - 1 - streak
      BY <1>1, <1>3, <3>1
    <3> QED BY <1>1, <2>1, <3>1, <3>2, <3>3, <3>4
  <2> QED BY <2>2, <2>3
<1>8. current' = c
  BY DEF current
<1>9. StreakIsOfLedger'
  BY <1>4, <1>5, <1>8 DEF StreakIsOfLedger
<1> QED BY <1>1, <1>2, <1>3, <1>4, <1>9

\* As long as no file changes, what it says of the others stays true.
LEMMA FilesStand ==
  ASSUME IInv, ledger' = ledger
  PROVE  /\ LedgerInv'
         /\ output' = output => \A o \in Ops : OutputInv(o)'
         /\ summary' = summary => SummaryInv'
         /\ session' = session => \A o : DoneInSession(o)' = DoneInSession(o)
<1>1. /\ LedgerInv' /\ \A o, n : Done(o, n)' = Done(o, n)
      /\ \A o, n : Candidate(o, n)' = Candidate(o, n)
  BY SameLedger DEF IInv
<1>2. output' = output => \A o \in Ops : OutputInv(o)'
  BY <1>1 DEF IInv, OutputInv
<1>3. summary' = summary => SummaryInv'
  BY <1>1 DEF IInv, SummaryInv
<1> QED BY <1>1, <1>2, <1>3 DEF DoneInSession

LEMMA CausesStand ==
  ASSUME IInv, ledger' = ledger,
         failed' = {} \/ (failed' = failed /\ session' = session),
         summary' = summary \/ summary'.status # "INCOMPLETE"
  PROVE  FailuresHaveACause'
<1>1. \A o, n : HasFailed(o, n)' = HasFailed(o, n)
  BY SameLedger
<1> QED BY <1>1 DEF IInv, FailuresHaveACause

LEMMA PaidStands ==
  ASSUME IInv, ledger' = ledger, crashes' \in {crashes, crashes + 1},
         \/ paid' = paid /\ (at \in {"VALID", "INVALID"} =>
                                at' \in {"VALID", "INVALID"} \/ crashes' = crashes + 1)
         \/ /\ paid' = paid + 1 /\ crashes' = crashes
            /\ at \notin {"VALID", "INVALID"} /\ at' \in {"VALID", "INVALID"}
  PROVE  PaidAnswersAreKept'
<1>1. \A o, i : Completed(o, i)' = Completed(o, i)
  BY SameLedger
<1>2. Answered' = Answered
  BY <1>1 DEF Answered
<1>3. IsFiniteSet(Answered)
  <2>1. 0 \in Int /\ MaxSamples - 1 \in Int
    BY ConstantsAreNat
  <2>2. IsFiniteSet(0..(MaxSamples - 1))
    BY <2>1, FS_Interval
  <2>3. IsFiniteSet(Ops \X Indices)
    BY <2>2, ConstantsAreNat, FS_Product DEF Indices
  <2> QED BY <2>3, FS_Subset DEF Answered
<1> DEFINE n == Cardinality(Answered)
           hand == IF at \in {"VALID", "INVALID"} THEN 1 ELSE 0
<1>4. n \in Nat /\ n' = n /\ paid \in Nat /\ crashes \in Nat
  BY <1>2, <1>3, FS_CardinalityType, ConstantsAreNat DEF IInv, TypeOK
<1>5. paid <= n + hand + crashes
  BY DEF IInv, PaidAnswersAreKept, Answered
<1>6. PaidAnswersAreKept' <=> (paid' <= n' + hand' + crashes')
  BY DEF PaidAnswersAreKept, Answered
<1> HIDE DEF n
<1>7. paid' <= n' + hand' + crashes'
  BY <1>4, <1>5
<1> QED BY <1>6, <1>7
-------------------------------------------------------------------------------
LEMMA StartKeeps ==
  ASSUME IInv, StartSession
  PROVE  IInv'
<1>1. PICK ops \in (SUBSET Ops) \ {{}}, n \in 1..MaxSamples :
         session' = [ops |-> ops, samples |-> n] /\ todo' = ops
  BY DEF StartSession
<1>2. /\ failed' = {} /\ index' = 0 /\ streak' = 0 /\ at' = "sample" /\ at = "idle"
      /\ ledger' = ledger /\ output' = output /\ summary' = summary /\ damaged' = damaged
      /\ paid' = paid /\ crashes' = crashes
  BY DEF StartSession, files
<1>3. TypeOK'
  <2>1. n \in 0..MaxSamples /\ 0 \in 0..MaxSamples /\ 0 \in 0..Limit
    BY ConstantsAreNat
  <2>2. session' \in [ops : SUBSET Ops, samples : 0..MaxSamples]
    BY <1>1, <2>1
  <2>3. todo' \subseteq session.ops' /\ failed' \subseteq session.ops'
    BY <1>1, <1>2
  <2>4. index' \in 0..MaxSamples /\ streak' \in 0..Limit
    BY <1>2, <2>1
  <2> QED BY <1>2, <2>2, <2>3, <2>4 DEF IInv, TypeOK
<1>4. StreakIsOfLedger'
  BY <1>2 DEF StreakIsOfLedger
<1>5. SessionInv'
  BY <1>1, <1>2, <1>4, ConstantsAreNat DEF SessionInv, Sampling, Answers
<1>6. PaidAnswersAreKept' /\ FailuresHaveACause'
  BY <1>2, PaidStands, CausesStand
<1> QED BY <1>2, <1>3, <1>5, <1>6, FilesStand DEF IInv

LEMMA ReuseKeeps ==
  ASSUME IInv, Reuse
  PROVE  IInv'
<1>1. /\ at = "sample" /\ ledger' = ledger /\ output' = output /\ summary' = summary
      /\ damaged' = damaged /\ session' = session /\ todo' = todo /\ failed' = failed
      /\ paid' = paid /\ crashes' = crashes
      /\ Completed(current, index) /\ Advance(StatusOf(current, index))
  BY DEF Reuse, files
<1>2. TypeOK /\ SessionInv /\ LedgerInv /\ Sampling
  BY <1>1 DEF IInv, Sampling
<1>3. PICK c \in Ops, i0 \in Indices : c = current /\ i0 = index
  BY <1>2, AtSample
<1>4. RowsOf(c, i0) # {} /\ StatusOf(c, i0) # "PROVIDER_ERROR"
  BY <1>1, <1>3 DEF Completed
<1>5. StatusOf(c, i0) \in {"VALID", "INVALID"}
  BY <1>2, <1>4, LastRowStands DEF LedgerInv, SampleInv, Answers
<1>6. \A o, i : StatusOf(o, i)' = StatusOf(o, i) /\ Completed(o, i)' = Completed(o, i)
  BY <1>1, SameLedger
<1>7. \A j \in 0..i0 : Completed(c, j)
  <2>1. \A j \in 0..(i0 - 1) : Completed(c, j)
    BY <1>2, <1>3, AtSample DEF StreakIsOfLedger
  <2>2. i0 \in Nat /\ Completed(c, i0)
    BY <1>1, <1>3, ConstantsAreNat DEF Indices
  <2> QED BY <2>1, <2>2
<1>8. Advance(StatusOf(c, i0)) /\ StatusOf(c, i0)' = StatusOf(c, i0)
  BY <1>1, <1>3, <1>6
<1>9. /\ StreakIsOfLedger'
      /\ index' \in 0..MaxSamples /\ streak' \in 0..Limit
      /\ \/ at' = "sample" /\ index' < session.samples /\ streak' < Limit
         \/ /\ at' = "endOfOp"
            /\ index' = session.samples \/ (index' < session.samples /\ streak' = Limit)
  <2> DEFINE s == StatusOf(c, i0)
  <2>1. PICK v \in {"VALID", "INVALID"} : v = s
    BY <1>5
  <2>2. Advance(v) /\ StatusOf(c, i0)' = v
    BY <1>8, <2>1 DEF Advance
  <2> QED BY <1>1, <1>2, <1>3, <1>6, <1>7, <2>2, AdvanceCounts
<1>10. TypeOK'
  BY <1>1, <1>2, <1>9 DEF TypeOK
<1>11. SessionInv'
  <2>1. /\ todo # {} /\ session.samples > 0
        /\ \A o \in session.ops \ (todo \cup failed) : DoneInSession(o)
    BY <1>1, <1>2 DEF SessionInv
  <2> QED BY <1>1, <1>9, <2>1, FilesStand DEF SessionInv, Sampling, Answers
<1>12. PaidAnswersAreKept' /\ FailuresHaveACause'
  BY <1>1, PaidStands, CausesStand
<1> QED BY <1>1, <1>10, <1>11, <1>12, FilesStand DEF IInv

LEMMA InvokeKeeps ==
  ASSUME IInv, Invoke
  PROVE  IInv'
<1>1. /\ at = "sample" /\ ledger' = ledger /\ output' = output /\ summary' = summary
      /\ damaged' = damaged /\ session' = session /\ todo' = todo /\ failed' = failed
      /\ index' = index /\ streak' = streak /\ crashes' = crashes
      /\ ~Completed(current, index) /\ at' \in Answers
      /\ paid' = IF at' = "PROVIDER_ERROR" THEN paid ELSE paid + 1
  BY DEF Invoke, files
<1>2. TypeOK /\ SessionInv /\ Sampling
  BY <1>1 DEF IInv, Sampling
<1>3. TypeOK'
  <2>1. paid' \in Nat
    BY <1>1, <1>2 DEF TypeOK
  <2> QED BY <1>1, <1>2, <2>1 DEF TypeOK
<1>4. \A o, i : StatusOf(o, i)' = StatusOf(o, i) /\ Completed(o, i)' = Completed(o, i)
  BY <1>1, SameLedger
<1>5. current' = current
  BY <1>1 DEF current
<1>6. StreakIsOfLedger'
  BY <1>1, <1>2, <1>4, <1>5 DEF StreakIsOfLedger, SessionInv
<1>7. SessionInv'
  <2>1. \A o \in Ops, i \in Indices : o = current' /\ i = index' => ~Completed(o, i)'
    BY <1>1, <1>4, <1>5
  <2>2. /\ todo # {} /\ session.samples > 0 /\ index < session.samples /\ streak < Limit
        /\ \A o \in session.ops \ (todo \cup failed) : DoneInSession(o)
    BY <1>1, <1>2 DEF SessionInv
  <2> QED BY <1>1, <1>6, <2>1, <2>2, FilesStand DEF SessionInv, Sampling, Answers
<1>8. PaidAnswersAreKept' /\ FailuresHaveACause'
  BY <1>1, PaidStands, CausesStand DEF Answers
<1> QED BY <1>1, <1>3, <1>7, <1>8, FilesStand DEF IInv

LEMMA RecordKeeps ==
  ASSUME IInv, Record
  PROVE  IInv'
<1>1. /\ at \in Answers /\ Recorded /\ output' = output /\ summary' = summary
      /\ damaged' = damaged /\ session' = session /\ todo' = todo /\ failed' = failed
      /\ paid' = paid /\ crashes' = crashes
  BY DEF Record
<1>2. TypeOK /\ SessionInv /\ LedgerInv /\ Sampling
  BY <1>1 DEF IInv, Sampling
<1>3. PICK c \in Ops, i0 \in Indices, s \in Answers :
         c = current /\ i0 = index /\ s = at /\ ~Completed(c, i0)
  BY <1>1, <1>2, AtSample DEF SessionInv
<1>4. ledger' = [ledger EXCEPT ![c] = Append(@, [index |-> i0, status |-> s])]
  BY <1>1, <1>3 DEF Recorded
<1>5. LedgerInv'
  BY <1>1, <1>2, RecordKeepsLedger
<1>6. \A o \in Ops, n \in 0..MaxSamples : Done(o, n) =>
         Done(o, n)' /\ Candidate(o, n)' = Candidate(o, n)
  BY <1>2, <1>3, <1>4, DoneIsKept DEF Candidate
<1>7. \A o \in Ops : OutputInv(o)'
  BY <1>1, <1>6 DEF IInv, OutputInv
<1>8. ledger' \in [Ops -> Seq(Row)]
  <2>1. ledger \in [Ops -> Seq(Row)] /\ [index |-> i0, status |-> s] \in Row
    BY <1>2 DEF TypeOK, Row
  <2>2. Append(ledger[c], [index |-> i0, status |-> s]) \in Seq(Row)
    BY <2>1, AppendProperties
  <2> QED BY <1>4, <2>1, <2>2
<1>9. SummaryInv'
  <2>1. summary.ops \subseteq Ops
    BY <1>2 DEF TypeOK
  <2> QED BY <1>1, <1>6, <2>1 DEF IInv, SummaryInv
<1>10. /\ todo # {} /\ session.samples > 0
       /\ \A o \in session.ops \ (todo \cup failed) : DoneInSession(o)'
  <2>1. /\ todo # {} /\ session.samples > 0
        /\ \A o \in session.ops \ (todo \cup failed) : o \in Ops /\ DoneInSession(o)
    BY <1>1, <1>2 DEF SessionInv, TypeOK, Sampling, Answers
  <2> QED BY <1>1, <1>6, <2>1 DEF DoneInSession
<1>11. FailuresHaveACause'
  <2>1. \A o \in Ops, n \in 0..MaxSamples : HasFailed(o, n) => HasFailed(o, n)'
    BY <1>2, <1>3, <1>4, CauseIsKept
  <2>2. /\ failed \subseteq Ops /\ session.samples \in 0..MaxSamples
        /\ summary.ops \subseteq Ops /\ summary.samples \in 0..MaxSamples
    BY <1>2 DEF TypeOK
  <2> QED BY <1>1, <2>1, <2>2 DEF IInv, FailuresHaveACause
<1>12. CASE at = "PROVIDER_ERROR"
  <2>1. at' = "interrupt" /\ index' = index /\ streak' = streak
    BY <1>12 DEF Record, Answers
  <2>2. TypeOK'
    BY <1>1, <1>2, <1>8, <2>1 DEF TypeOK, Row
  <2>3. SessionInv'
    BY <1>1, <1>10, <2>1 DEF SessionInv, Sampling, Answers
  <2>4. PaidAnswersAreKept'
    BY <1>1, <1>2, <2>1, RecordKeepsPaid DEF IInv
  <2> QED BY <1>5, <1>7, <1>9, <1>11, <2>2, <2>3, <2>4 DEF IInv
<1>13. CASE at # "PROVIDER_ERROR"
  <2>1. Advance(at)
    BY <1>13 DEF Record
  <2>2. /\ StatusOf(c, i0)' = s /\ Completed(c, i0)'
        /\ \A j \in 0..(i0 - 1) : Completed(c, j) /\ j \in Indices
    <3>1. \A j \in 0..(i0 - 1) : j \in Indices
      BY ConstantsAreNat DEF Indices
    <3> QED BY <1>2, <1>3, <1>4, <1>13, <3>1, RecordAdds, AtSample DEF StreakIsOfLedger
  <2>3. \A j \in 0..(i0 - 1) : Completed(c, j)' /\ StatusOf(c, j)' = StatusOf(c, j)
    BY <1>2, <1>3, <1>4, <2>2, AnswersAreKept
  <2>4. \A j \in 0..i0 : Completed(c, j)'
    BY <2>2, <2>3, ConstantsAreNat DEF Indices
  <2>5. s \in {"VALID", "INVALID"} /\ Advance(s)
    BY <1>3, <1>13, <2>1 DEF Answers, Advance
  <2>6. /\ StreakIsOfLedger'
        /\ index' \in 0..MaxSamples /\ streak' \in 0..Limit
        /\ \/ at' = "sample" /\ index' < session.samples /\ streak' < Limit
           \/ /\ at' = "endOfOp"
              /\ index' = session.samples \/ (index' < session.samples /\ streak' = Limit)
    BY <1>1, <1>2, <1>3, <2>1, <2>2, <2>3, <2>4, <2>5, AdvanceCounts
  <2>7. TypeOK'
    BY <1>1, <1>2, <1>8, <2>6 DEF TypeOK, Row
  <2>8. SessionInv'
    BY <1>1, <1>10, <2>6 DEF SessionInv, Sampling, Answers
  <2>9. PaidAnswersAreKept'
    BY <1>1, <1>2, <2>6, RecordKeepsPaid DEF IInv
  <2> QED BY <1>5, <1>7, <1>9, <1>11, <2>7, <2>8, <2>9 DEF IInv
<1> QED BY <1>12, <1>13
-------------------------------------------------------------------------------
\* An operation that stopped at the limit has no rows behind it: a candidate is only
\* made of samples that all have their answer.
LEMMA SufficesIsDone ==
  ASSUME TypeOK, LedgerInv, SessionInv, at = "endOfOp",
         NEW c \in Ops, c = current, NEW n \in 0..MaxSamples, n = session.samples,
         Suffices(c, n)
  PROVE  Done(c, n) /\ Candidate(c, n) \in [samples : 0..MaxSamples, valid : 0..MaxSamples]
<1>1. n \in Nat /\ MaxSamples \in Nat /\ Limit \in Nat \ {0} /\ index \in Nat
  BY ConstantsAreNat DEF TypeOK
<1>2. IsFiniteSet(0..(n - 1)) /\ Cardinality(0..(n - 1)) = n
  <2>1. 0 \in Int /\ n - 1 \in Int
    BY <1>1
  <2>2. /\ IsFiniteSet(0..(n - 1))
        /\ Cardinality(0..(n - 1)) = IF 0 > n - 1 THEN 0 ELSE (n - 1) - 0 + 1
    BY <2>1, FS_Interval
  <2> QED BY <1>1, <2>2
<1>3. RecordedUnder(c, n) = 0..(n - 1)
  <2>1. RecordedUnder(c, n) \in SUBSET (0..(n - 1))
    BY DEF RecordedUnder
  <2> QED BY <1>2, <2>1, FS_Subset DEF Suffices
<1>4. \A i \in 0..(n - 1) : RowsOf(c, i) # {} /\ i \in Indices
  BY <1>1, <1>3 DEF RecordedUnder, Indices
<1>5. /\ StreakIsOfLedger
      /\ index = n \/ (index < n /\ streak = Limit)
  BY DEF SessionInv
<1>6. index = n => Done(c, n)
  BY <1>5 DEF Done, Suffices, StreakIsOfLedger
<1>7. ASSUME index < n, streak = Limit PROVE FALSE
  <2>1. index \in 0..(n - 1) /\ index >= Limit
    BY <1>1, <1>5, <1>7 DEF StreakIsOfLedger
  <2>2. PICK i \in Indices : i = index /\ RowsOf(c, i) # {}
    BY <1>4, <2>1
  <2>3. PICK j \in (i - Limit)..(i - 1) : StatusOf(c, j) = "VALID"
    BY <2>1, <2>2 DEF LedgerInv, SampleInv
  <2>4. j \in 0..(index - 1) /\ j >= index - streak
    BY <1>1, <1>7, <2>1, <2>2, <2>3
  <2>5. StatusOf(c, j) = "INVALID"
    BY <1>5, <2>4 DEF StreakIsOfLedger
  <2> QED BY <2>3, <2>5
<1>8. Candidate(c, n) \in [samples : 0..MaxSamples, valid : 0..MaxSamples]
  <2>1. ValidUnder(c, n) \in SUBSET (0..(n - 1))
    BY <1>3 DEF ValidUnder
  <2>2. Cardinality(ValidUnder(c, n)) \in 0..n
    BY <1>1, <1>2, <2>1, FS_Subset, FS_CardinalityType
  <2>3. Cardinality(ValidUnder(c, n)) \in 0..MaxSamples
    BY <1>1, <2>2
  <2> QED BY <2>3 DEF Candidate
<1>9. Done(c, n)
  BY <1>5, <1>6, <1>7
<1> QED BY <1>8, <1>9

\* An operation that ends without a candidate has samples behind the limit that were
\* not asked for, or no valid answer.
LEMMA FailedForACause ==
  ASSUME TypeOK, LedgerInv, SessionInv, at = "endOfOp",
         NEW c \in Ops, c = current, NEW n \in 0..MaxSamples, n = session.samples,
         ~Suffices(c, n)
  PROVE  HasFailed(c, n)
<1>1. n \in Nat /\ Limit \in Nat \ {0} /\ index \in Nat /\ streak \in Nat
  BY ConstantsAreNat DEF TypeOK
<1>2. /\ StreakIsOfLedger
      /\ index = n \/ (index < n /\ streak = Limit)
  BY DEF SessionInv
<1>3. CASE index = n
  <2>1. \A i \in 0..(n - 1) : Completed(c, i)
    BY <1>2, <1>3 DEF StreakIsOfLedger
  <2>2. RecordedUnder(c, n) = 0..(n - 1)
    BY <2>1 DEF RecordedUnder, Completed
  <2>3. Cardinality(0..(n - 1)) = n
    <3>1. 0 \in Int /\ n - 1 \in Int
      BY <1>1
    <3>2. Cardinality(0..(n - 1)) = IF 0 > n - 1 THEN 0 ELSE (n - 1) - 0 + 1
      BY <3>1, FS_Interval
    <3> QED BY <1>1, <3>2
  <2>4. \A i \in 0..(n - 1) : StatusOf(c, i) # "VALID"
    BY <2>2, <2>3 DEF Suffices, ValidUnder
  <2>5. \A i \in 0..(n - 1) : StatusOf(c, i) \in Answers
    <3>1. \A i \in 0..(n - 1) : i \in Indices /\ RowsOf(c, i) # {}
      BY <2>1, ConstantsAreNat DEF Indices, Completed
    <3>2. \A i \in 0..(n - 1) : AnsweredLast(c, i)
      BY <3>1 DEF LedgerInv, SampleInv
    <3> QED BY <3>1, <3>2, LastRowStands
  <2>6. \A i \in 0..(n - 1) : StatusOf(c, i) = "INVALID"
    BY <2>1, <2>4, <2>5 DEF Completed, Answers
  <2> QED
    BY <2>1, <2>6 DEF HasFailed, EndsInvalid
<1>4. CASE index < n /\ streak = Limit
  <2>1. index \in Limit..n
    BY <1>1, <1>2, <1>4 DEF StreakIsOfLedger
  <2>2. EndsInvalid(c, index, Limit)
    BY <1>2, <1>4 DEF EndsInvalid, StreakIsOfLedger
  <2> QED BY <2>1, <2>2 DEF HasFailed
<1> QED BY <1>2, <1>3, <1>4

LEMMA EndOfOpKeeps ==
  ASSUME IInv, EndOfOp
  PROVE  IInv'
<1>1. /\ at = "endOfOp" /\ at' = "summarise" /\ ledger' = ledger /\ summary' = summary
      /\ damaged' = damaged /\ session' = session /\ todo' = todo /\ index' = index
      /\ streak' = streak /\ paid' = paid /\ crashes' = crashes
  BY DEF EndOfOp
<1>2. TypeOK /\ SessionInv /\ LedgerInv /\ todo # {} /\ current' = current
  BY <1>1 DEF IInv, SessionInv, current
<1>3. PICK c \in session.ops, n \in 0..MaxSamples :
         c = current /\ n = session.samples /\ c \in Ops
  BY <1>2, CurrentIsOfTodo DEF TypeOK
<1>4. \A o : DoneInSession(o)' = DoneInSession(o)
  BY <1>1, FilesStand
<1>5. \A o \in session.ops \ (todo \cup failed) : DoneInSession(o)
  BY <1>1, <1>2 DEF SessionInv
<1>6. PaidAnswersAreKept'
  BY <1>1, PaidStands
<1>7. CASE ~Suffices(current, session.samples)
  <2>1. failed' = failed \cup {c} /\ output' = output
    BY <1>3, <1>7 DEF EndOfOp
  <2>2. TypeOK'
    BY <1>1, <1>2, <1>3, <2>1 DEF TypeOK
  <2>3. SessionInv'
    BY <1>1, <1>2, <1>3, <1>4, <1>5, <2>1 DEF SessionInv, Sampling, Answers
  <2>4. FailuresHaveACause'
    <3>1. HasFailed(c, n)
      BY <1>1, <1>2, <1>3, <1>7, FailedForACause
    <3>2. \A o, k : HasFailed(o, k)' = HasFailed(o, k)
      BY <1>1, SameLedger
    <3> QED BY <1>1, <1>3, <2>1, <3>1, <3>2 DEF IInv, FailuresHaveACause
  <2> QED BY <1>1, <1>6, <2>1, <2>2, <2>3, <2>4, FilesStand DEF IInv
<1>8. CASE Suffices(current, session.samples)
  <2>1. failed' = failed /\ output' = [output EXCEPT ![c] = Candidate(c, n)]
    BY <1>3, <1>8 DEF EndOfOp
  <2>2. Done(c, n) /\ Candidate(c, n) \in [samples : 0..MaxSamples, valid : 0..MaxSamples]
    BY <1>1, <1>2, <1>3, <1>8, SufficesIsDone
  <2>3. TypeOK'
    BY <1>1, <1>2, <1>3, <2>1, <2>2 DEF TypeOK
  <2>4. DoneInSession(c)
    BY <1>3, <2>2 DEF DoneInSession
  <2>5. SessionInv'
    BY <1>1, <1>2, <1>3, <1>4, <1>5, <2>1, <2>4 DEF SessionInv, Sampling, Answers
  <2>6. \A o, m : Done(o, m)' = Done(o, m) /\ Candidate(o, m)' = Candidate(o, m)
    BY <1>1, SameLedger
  <2>7. ASSUME NEW o \in Ops PROVE OutputInv(o)'
    <3>1. CASE o = c
      <4>1. output'[o] = Candidate(o, n)
        BY <1>2, <2>1, <3>1 DEF TypeOK
      <4>2. Done(o, n)
        BY <2>2, <3>1
      <4> QED BY <2>6, <4>1, <4>2 DEF OutputInv
    <3>2. CASE o # c
      <4>1. output'[o] = output[o]
        BY <1>2, <2>1, <3>2 DEF TypeOK
      <4> QED BY <2>6, <4>1 DEF OutputInv, IInv
    <3> QED BY <3>1, <3>2
  <2>8. FailuresHaveACause'
    BY <1>1, <2>1, CausesStand
  <2> QED BY <1>1, <1>6, <2>3, <2>5, <2>7, <2>8, FilesStand DEF IInv
<1> QED BY <1>7, <1>8

LEMMA SummariseKeeps ==
  ASSUME IInv, Summarise
  PROVE  IInv'
<1>1. /\ at = "summarise" /\ ledger' = ledger /\ output' = output /\ damaged' = damaged
      /\ session' = session /\ failed' = failed /\ paid' = paid /\ crashes' = crashes
      /\ summary' = Summarised("RUNNING")
      /\ todo' = todo \ {current} /\ index' = 0 /\ streak' = 0
      /\ at' = IF todo' = {} THEN "finish" ELSE "sample"
  BY DEF Summarise
<1>2. TypeOK /\ SessionInv /\ todo # {}
  BY <1>1 DEF IInv, SessionInv
<1>3. 0 \in 0..MaxSamples /\ 0 \in 0..Limit /\ 0 < Limit
  BY ConstantsAreNat
<1>4. summary' \in [status : {"none", "INTERRUPTED", "RUNNING", "INCOMPLETE", "COMPLETE"},
                    ops : SUBSET Ops, samples : 0..MaxSamples]
  BY <1>1, <1>2 DEF Summarised, TypeOK
<1>5. TypeOK'
  BY <1>1, <1>2, <1>3, <1>4 DEF TypeOK
<1>6. \A o \in session.ops \ (todo' \cup failed) : DoneInSession(o)'
  <2>1. \A o : DoneInSession(o)' = DoneInSession(o)
    BY <1>1, FilesStand
  <2>2. \A o \in Ops : o = current => o \in failed \/ DoneInSession(o)
    BY <1>1, <1>2 DEF SessionInv
  <2>3. \A o \in session.ops \ (todo \cup failed) : DoneInSession(o)
    BY <1>1, <1>2 DEF SessionInv
  <2>4. session.ops \subseteq Ops
    BY <1>2 DEF TypeOK
  <2> QED BY <1>1, <2>1, <2>2, <2>3, <2>4
<1>7. session.samples > 0 /\ (at' = "sample" => todo' # {} /\ index' < session.samples)
  BY <1>1, <1>2 DEF SessionInv
<1>8. StreakIsOfLedger'
  BY <1>1 DEF StreakIsOfLedger
<1>9. SessionInv'
  BY <1>1, <1>3, <1>6, <1>7, <1>8 DEF SessionInv, Sampling, Answers
<1>10. SummaryInv' /\ PaidAnswersAreKept' /\ FailuresHaveACause'
  BY <1>1, PaidStands, CausesStand DEF SummaryInv, Summarised
<1> QED BY <1>1, <1>5, <1>9, <1>10, FilesStand DEF IInv

\* A session that ends leaves nothing behind but its files.
LEMMA EndedSession ==
  ASSUME TypeOK, ProcessEnds
  PROVE  /\ at' = "idle"
         /\ session' \in [ops : SUBSET Ops, samples : 0..MaxSamples]
         /\ todo' \subseteq session.ops' /\ failed' \subseteq session.ops'
         /\ index' \in 0..MaxSamples /\ streak' \in 0..Limit
         /\ failed' = {} /\ SessionInv'
<1>1. /\ session' = [ops |-> {}, samples |-> 0] /\ todo' = {} /\ failed' = {}
      /\ index' = 0 /\ streak' = 0 /\ at' = "idle"
  BY DEF ProcessEnds, NoSession
<1>2. 0 \in 0..MaxSamples /\ 0 \in 0..Limit
  BY ConstantsAreNat
<1>3. SessionInv'
  BY <1>1 DEF SessionInv, Sampling, Answers
<1> QED BY <1>1, <1>2, <1>3

LEMMA EndInterruptedKeeps ==
  ASSUME IInv, EndInterrupted
  PROVE  IInv'
<1>1. /\ at = "interrupt" /\ ProcessEnds /\ ledger' = ledger /\ output' = output
      /\ damaged' = damaged /\ paid' = paid /\ crashes' = crashes
      /\ summary' = Summarised("INTERRUPTED")
  BY DEF EndInterrupted
<1>2. TypeOK
  BY DEF IInv
<1>3. summary' \in [status : {"none", "INTERRUPTED", "RUNNING", "INCOMPLETE", "COMPLETE"},
                    ops : SUBSET Ops, samples : 0..MaxSamples]
  BY <1>1, <1>2 DEF Summarised, TypeOK
<1>4. TypeOK'
  BY <1>1, <1>2, <1>3, EndedSession DEF TypeOK
<1>5. SummaryInv'
  BY <1>1 DEF SummaryInv, Summarised
<1>6. PaidAnswersAreKept'
  BY <1>1, PaidStands
<1>7. FailuresHaveACause'
  BY <1>1, <1>2, EndedSession, CausesStand DEF Summarised
<1> QED BY <1>1, <1>2, <1>4, <1>5, <1>6, <1>7, EndedSession, FilesStand DEF IInv

LEMMA FinishKeeps ==
  ASSUME IInv, Finish
  PROVE  IInv'
<1>1. /\ at = "finish" /\ ProcessEnds /\ ledger' = ledger /\ output' = output
      /\ damaged' = damaged /\ paid' = paid /\ crashes' = crashes
      /\ summary' = Summarised(IF failed = {} THEN "COMPLETE" ELSE "INCOMPLETE")
  BY DEF Finish
<1>2. TypeOK /\ SessionInv /\ todo = {}
  BY <1>1 DEF IInv, SessionInv
<1>3. summary' \in [status : {"none", "INTERRUPTED", "RUNNING", "INCOMPLETE", "COMPLETE"},
                    ops : SUBSET Ops, samples : 0..MaxSamples]
  BY <1>1, <1>2 DEF Summarised, TypeOK
<1>4. TypeOK'
  BY <1>1, <1>2, <1>3, EndedSession DEF TypeOK
<1>5. SummaryInv'
  <2>1. summary'.status = "COMPLETE" => failed = {}
    BY <1>1 DEF Summarised
  <2>2. \A o \in session.ops \ failed : DoneInSession(o)
    BY <1>1, <1>2 DEF SessionInv
  <2>3. summary'.ops = session.ops /\ summary'.samples = session.samples
    BY <1>1 DEF Summarised
  <2>4. \A o, n : Done(o, n)' = Done(o, n)
    BY <1>1, SameLedger
  <2> QED BY <2>1, <2>2, <2>3, <2>4 DEF SummaryInv, DoneInSession
<1>6. PaidAnswersAreKept'
  BY <1>1, PaidStands
<1>7. FailuresHaveACause'
  <2>1. failed' = {} /\ failed \subseteq session.ops
    BY <1>1, <1>2, EndedSession DEF TypeOK
  <2>2. /\ summary'.status = "INCOMPLETE" => failed # {}
        /\ summary'.ops = session.ops /\ summary'.samples = session.samples
    BY <1>1 DEF Summarised
  <2>3. \A o \in failed : HasFailed(o, session.samples)
    BY DEF IInv, FailuresHaveACause
  <2>4. \A o, n : HasFailed(o, n)' = HasFailed(o, n)
    BY <1>1, SameLedger
  <2> QED BY <2>1, <2>2, <2>3, <2>4 DEF FailuresHaveACause
<1> QED BY <1>1, <1>2, <1>4, <1>5, <1>6, <1>7, EndedSession, FilesStand DEF IInv

LEMMA KillKeeps ==
  ASSUME IInv, Kill
  PROVE  IInv'
<1>1. /\ at # "idle" /\ crashes < MaxCrashes /\ crashes' = crashes + 1 /\ ProcessEnds
      /\ ledger' = ledger /\ summary' = summary /\ paid' = paid
  BY DEF Kill
<1>2. TypeOK /\ SessionInv /\ LedgerInv
  BY DEF IInv
<1>3. crashes' \in 0..MaxCrashes
  BY <1>1, <1>2, ConstantsAreNat DEF TypeOK
<1>4. PaidAnswersAreKept' /\ FailuresHaveACause'
  BY <1>1, <1>2, PaidStands, EndedSession, CausesStand
<1>5. \A o, m : Done(o, m)' = Done(o, m) /\ Candidate(o, m)' = Candidate(o, m)
  BY <1>1, SameLedger
<1> DEFINE Counts == [samples : 0..MaxSamples, valid : 0..MaxSamples]
<1>6. NoCandidate \in Counts
  BY ConstantsAreNat DEF NoCandidate
<1>7. CASE output' = output
  <2>1. damaged' \in SUBSET {"checkpoint", "output"}
    BY <1>2 DEF Kill, TypeOK
  <2>2. TypeOK'
    BY <1>1, <1>2, <1>3, <1>7, <2>1, EndedSession DEF TypeOK
  <2> QED BY <1>1, <1>2, <1>4, <1>7, <2>2, EndedSession, FilesStand DEF IInv
<1>8. ASSUME \/ at = "endOfOp" /\ Suffices(current, session.samples)
             \/ at = "finish",
             damaged' \in {{}, {"output"}},
             NEW k \in Ops \cup {0}, output' = OutputCutAt(k)
      PROVE  IInv'
  <2>1. PICK n \in 0..MaxSamples : n = session.samples
    BY <1>2 DEF TypeOK
  <2>2. \A o \in Ops : \/ output'[o] \in {output[o], NoCandidate}
                       \/ output'[o] = Candidate(o, n) /\ Done(o, n) /\ Candidate(o, n) \in Counts
    <3>1. CASE at = "finish"
      <4>1. \A o \in Ops : output'[o] = IF o <= k THEN output[o] ELSE NoCandidate
        BY <1>8, <3>1 DEF OutputCutAt
      <4> QED BY <4>1
    <3>2. CASE at = "endOfOp" /\ Suffices(current, session.samples)
      <4>1. todo # {}
        BY <1>2, <3>2 DEF SessionInv
      <4>2. PICK c \in Ops : c = current
        BY <1>2, <4>1, CurrentIsOfTodo
      <4>3. Done(c, n) /\ Candidate(c, n) \in Counts
        BY <1>2, <2>1, <3>2, <4>2, SufficesIsDone
      <4> DEFINE rewritten == [output EXCEPT ![c] = Candidate(c, n)]
      <4>4. \A o \in Ops : rewritten[o] = IF o = c THEN Candidate(c, n) ELSE output[o]
        BY <1>2 DEF TypeOK
      <4>5. output' = [o \in Ops |-> IF o <= k THEN rewritten[o] ELSE NoCandidate]
        BY <1>8, <2>1, <3>2, <4>2 DEF OutputCutAt
      <4> HIDE DEF rewritten
      <4>6. \A o \in Ops : output'[o] = IF o <= k THEN rewritten[o] ELSE NoCandidate
        BY <4>5
      <4> QED BY <4>3, <4>4, <4>6
    <3> QED BY <1>8, <3>1, <3>2
  <2>3. output' \in [Ops -> Counts]
    <3>1. \A o \in Ops : output'[o] \in Counts
      BY <1>2, <1>6, <2>2 DEF TypeOK
    <3>2. output' = [o \in Ops |-> output'[o]]
      BY <1>8 DEF OutputCutAt
    <3> QED BY <3>1, <3>2
  <2>4. \A o \in Ops : OutputInv(o)'
    BY <1>5, <2>2 DEF OutputInv, IInv
  <2>5. TypeOK'
    BY <1>1, <1>2, <1>3, <1>8, <2>3, EndedSession DEF TypeOK
  <2> QED BY <1>1, <1>2, <1>4, <2>4, <2>5, EndedSession, FilesStand DEF IInv
<1> QED BY <1>7, <1>8 DEF Kill
-------------------------------------------------------------------------------
LEMMA InitKeeps ==
  ASSUME Init
  PROVE  IInv
<1>1. /\ \A o \in Ops : ledger[o] = <<>> /\ output[o] = NoCandidate
      /\ ledger = [o \in Ops |-> <<>>] /\ output = [o \in Ops |-> NoCandidate]
      /\ summary = [status |-> "none", ops |-> {}, samples |-> 0] /\ damaged = {}
      /\ session = [ops |-> {}, samples |-> 0] /\ todo = {} /\ failed = {}
      /\ index = 0 /\ streak = 0 /\ at = "idle" /\ paid = 0 /\ crashes = 0
  BY DEF Init, NoSession
<1>2. \A o \in Ops, i \in Indices : RowsOf(o, i) = {}
  <2>1. \A o \in Ops : Len(ledger[o]) = 0
    BY <1>1
  <2> QED BY <2>1 DEF RowsOf
<1>3. 0 \in 0..MaxSamples /\ 0 \in 0..Limit /\ 0 \in 0..MaxCrashes
  BY ConstantsAreNat
<1>4. TypeOK
  <2>1. ledger \in [Ops -> Seq([index : Indices, status : Answers])]
    BY <1>1
  <2>2. output \in [Ops -> [samples : 0..MaxSamples, valid : 0..MaxSamples]]
    BY <1>1, <1>3 DEF NoCandidate
  <2> QED BY <1>1, <1>3, <2>1, <2>2 DEF TypeOK
<1>5. LedgerInv
  BY <1>2 DEF LedgerInv, SampleInv
<1>6. SessionInv
  BY <1>1 DEF SessionInv, Sampling, Answers
<1>7. (\A o \in Ops : OutputInv(o)) /\ SummaryInv /\ FailuresHaveACause
  BY <1>1 DEF OutputInv, SummaryInv, FailuresHaveACause
<1>8. PaidAnswersAreKept
  <2>1. Answered = {}
    BY <1>2 DEF Answered, Completed
  <2>2. Cardinality(Answered) = 0
    BY <2>1, FS_EmptySet
  <2> QED BY <1>1, <2>2 DEF PaidAnswersAreKept, Answered
<1> QED BY <1>4, <1>5, <1>6, <1>7, <1>8 DEF IInv

LEMMA StepKeeps ==
  ASSUME IInv, [Next]_vars
  PROVE  IInv'
<1>1. CASE UNCHANGED vars
  <2>1. /\ ledger' = ledger /\ output' = output /\ summary' = summary /\ damaged' = damaged
        /\ session' = session /\ todo' = todo /\ failed' = failed /\ index' = index
        /\ streak' = streak /\ at' = at /\ paid' = paid /\ crashes' = crashes
    BY <1>1 DEF vars, files, memory
  <2>2. TypeOK' /\ PaidAnswersAreKept' /\ FailuresHaveACause'
    BY <2>1, PaidStands, CausesStand DEF IInv, TypeOK
  <2>3. /\ current' = current
        /\ \A o, i : StatusOf(o, i)' = StatusOf(o, i) /\ Completed(o, i)' = Completed(o, i)
    BY <2>1, SameLedger DEF current
  <2>4. StreakIsOfLedger' = StreakIsOfLedger /\ Sampling' = Sampling
    BY <2>1, <2>3 DEF StreakIsOfLedger, Sampling
  <2>5. \A o : DoneInSession(o)' = DoneInSession(o)
    BY <2>1, FilesStand
  <2>6. SessionInv'
    BY <2>1, <2>3, <2>4, <2>5 DEF IInv, SessionInv
  <2> QED BY <2>1, <2>2, <2>6, FilesStand DEF IInv
<1>2. CASE Next
  BY <1>2, StartKeeps, ReuseKeeps, InvokeKeeps, RecordKeeps, EndInterruptedKeeps, EndOfOpKeeps,
     SummariseKeeps, FinishKeeps, KillKeeps DEF Next, SessionStep
<1> QED BY <1>1, <1>2

\* The strengthening is an invariant of every behaviour.
THEOREM InvariantHolds == Spec => []IInv
<1>1. Init => IInv
  BY InitKeeps
<1>2. IInv /\ [Next]_vars => IInv'
  BY StepKeeps
<1> QED BY <1>1, <1>2, PTL DEF Spec

\* Over any number of sessions of any size, and through any number of kills, the
\* samples of an operation are a prefix; none is answered twice; and no session
\* asked on behind Limit INVALID answers in a row (discover_renderings).
THEOREM LedgerStaysWellFormed == Spec => []LedgerIsWellFormed
<1>1. ASSUME IInv PROVE LedgerIsWellFormed
  <2>1. TypeOK /\ LedgerInv
    BY <1>1 DEF IInv
  <2> SUFFICES ASSUME NEW o \in Ops, NEW i \in RecordedUnder(o, MaxSamples)
               PROVE  /\ \A j \in 0..(i - 1) : Completed(o, j)
                      /\ Cardinality({k \in RowsOf(o, i) :
                                         ledger[o][k].status # "PROVIDER_ERROR"}) <= 1
                      /\ i >= Limit => \E j \in (i - Limit)..(i - 1) : StatusOf(o, j) = "VALID"
    BY <2>1 DEF LedgerIsWellFormed
  <2>2. i \in Indices /\ RowsOf(o, i) # {}
    BY DEF RecordedUnder, Indices
  <2>3. SampleInv(o, i)
    BY <2>1, <2>2 DEF LedgerInv
  <2> DEFINE answers == {k \in RowsOf(o, i) : ledger[o][k].status # "PROVIDER_ERROR"}
  <2>4. PICK m \in RowsOf(o, i) : \A k \in RowsOf(o, i) :
           k <= m /\ (k # m => ledger[o][k].status = "PROVIDER_ERROR")
    BY <2>2, <2>3 DEF SampleInv, AnsweredLast
  <2>5. answers \in SUBSET {m}
    BY <2>4
  <2>6. Cardinality(answers) <= 1
    <3>1. IsFiniteSet({m}) /\ Cardinality({m}) = 1
      BY FS_Singleton
    <3> QED BY <2>5, <3>1, FS_Subset
  <2> QED BY <2>2, <2>3, <2>6 DEF SampleInv
<1> QED BY <1>1, InvariantHolds, PTL

\* A candidate's counts, the operations given up and the verdict of the last summary
\* are what the checkpoint says, also after later sessions that failed, resumed or
\* were killed (discover_renderings).
THEOREM OutputsStayTrue == Spec => []OutputsMatchLedger
<1>1. ASSUME IInv PROVE OutputsMatchLedger
  <2>1. ASSUME NEW o \in Ops, output[o] # NoCandidate
        PROVE  /\ Suffices(o, output[o].samples)
               /\ output[o] = Candidate(o, output[o].samples)
    <3>1. PICK n \in 0..MaxSamples : output[o] = Candidate(o, n) /\ Done(o, n)
      BY <1>1, <2>1 DEF IInv, OutputInv
    <3>2. output[o].samples = n /\ n \in Nat
      BY <3>1, ConstantsAreNat DEF Candidate
    <3>3. RecordedUnder(o, n) = 0..(n - 1)
      BY <3>1 DEF RecordedUnder, Done, Completed
    <3>4. Cardinality(0..(n - 1)) = n
      <4>1. 0 \in Int /\ n - 1 \in Int
        BY <3>2
      <4>2. Cardinality(0..(n - 1)) = IF 0 > n - 1 THEN 0 ELSE (n - 1) - 0 + 1
        BY <4>1, FS_Interval
      <4> QED BY <3>2, <4>2
    <3> QED BY <3>1, <3>2, <3>3, <3>4 DEF Suffices, Done
  <2>2. CompleteMeansComplete
    <3>1. summary.samples \in 0..MaxSamples
      BY <1>1 DEF IInv, TypeOK
    <3> QED BY <1>1, <3>1 DEF IInv, SummaryInv, CompleteMeansComplete, Done
  <2> QED BY <1>1, <2>1, <2>2 DEF OutputsMatchLedger, CandidatesMatchLedger, IInv
<1> QED BY <1>1, InvariantHolds, PTL

\* An answer that was paid for is in the checkpoint, in hand, or was lost to a kill,
\* at most one to each (DATASET_AUTHORING.md: not "paying for them again").
THEOREM PaidAnswersStay == Spec => []PaidAnswersAreKept
<1>1. IInv => PaidAnswersAreKept
  BY DEF IInv
<1> QED BY <1>1, InvariantHolds, PTL

-------------------------------------------------------------------------------
(* Request authoring and review *)

\* Rows as the commands write them: an id is no larger than the number of its row.
Filed(rows, last) ==
    /\ rows \in Seq(RequestRow)
    /\ \A k \in DOMAIN rows : rows[k].id <= rows[k].row /\ rows[k].row <= last

Reviews == [at : {"approved", "rejected", "input"}, batch : Batches,
            approved : Seq(RequestRow), rejected : Seq(RequestRow), deferred : Seq(RequestRow)]

\* The files hold rows that were written, and so does what a review is going to write.
Files ==
    /\ candidates \in [Batches -> Seq(RequestRow)]
    /\ \A b \in Batches : Filed(candidates[b], lastRow)
    /\ Filed(approved, lastRow) /\ Filed(rejected, lastRow)
    /\ written \subseteq 1..lastRow /\ lastRow \in 0..MaxRequests
    /\ kills \in 0..MaxKills /\ truncated \in BOOLEAN
    /\ review # NoReview =>
          /\ review \in Reviews
          /\ Filed(review.approved, lastRow) /\ Filed(review.rejected, lastRow)
          /\ Filed(review.deferred, lastRow)

Single(rows) == \A j, k \in DOMAIN rows : rows[j].row = rows[k].row => j = k

\* A candidate is in one file, once.
Apart(queues) ==
    /\ \A b \in Batches : Single(queues[b])
    /\ \A b, c \in Batches : b # c => RowsIn(queues[b]) \cap RowsIn(queues[c]) = {}

Queued(queues) == UNION {RowsIn(queues[b]) : b \in Batches}

Replaced(rows) ==
    \A k \in DOMAIN rows : rows[k].status = "SUPERSEDED" =>
        \E j \in DOMAIN rows : rows[k].id \in rows[j].supersedes

One(r, S) == IF r \in S THEN 1 ELSE 0

\* The rows of S were added, once each.
Adds(new, old, S) == \A r \in Ids : Copies(new, r) = Copies(old, r) + One(r, S)

\* The old rows stand where they stood, and a superseded one stays one.
Continues(new, old) ==
    /\ Len(old) <= Len(new)
    /\ \A k \in DOMAIN old : /\ new[k].row = old[k].row
                             /\ old[k].status = "SUPERSEDED" => new[k].status = "SUPERSEDED"

\* A review that decided to approve the rows A and to reject the rows R: what it is
\* going to write, and what it has written already.
Deciding(A, R) ==
    /\ RowsIn(candidates[review.batch]) = A \cup R \cup RowsIn(review.deferred)
    /\ A \cap R = {} /\ RowsIn(review.deferred) \cap (A \cup R) = {}
    /\ Single(review.deferred)
    /\ review.at = "approved" =>
          /\ Adds(review.approved, approved, A) /\ Continues(review.approved, approved)
          /\ Replaced(review.approved)
    /\ review.at # "approved" => A \subseteq RowsIn(approved)
    /\ review.at # "input" => Adds(review.rejected, rejected, R)
    /\ review.at = "input" => R \subseteq RowsIn(rejected)

Moved(A, R) ==
    (IF review.at = "approved" THEN {} ELSE A) \cup (IF review.at = "input" THEN R ELSE {})

\* The copies of a row, and the bounds on them: each killed review leaves one more, and
\* so does the review under way, of the rows S.
Standing(a, j, queues, r) == Copies(a, r) + Copies(j, r) + One(r, Queued(queues))

Counted(a, j, queues, S) ==
    \A r \in written : Standing(a, j, queues, r) \in 1..(1 + kills + One(r, S))

Sound ==
    /\ Apart(candidates) /\ Replaced(approved)
    /\ review = NoReview => Counted(approved, rejected, candidates, {})
    /\ review # NoReview =>
          \E A, R \in SUBSET Ids :
             Deciding(A, R) /\ Counted(approved, rejected, candidates, Moved(A, R))

RequestInv == Files /\ (~truncated => Sound)

-------------------------------------------------------------------------------
(* Rows that a list comprehension keeps, and copies of rows *)

\* Induction over the naturals, for a set: what is not in it has a least element.
LEMMA Induction ==
  ASSUME NEW S \in SUBSET Nat, 0 \in S, \A n \in S : n + 1 \in S
  PROVE  \A n \in Nat : n \in S
<1> SUFFICES ASSUME NEW n0 \in Nat, n0 \notin S
             PROVE  FALSE
  OBVIOUS
<1> DEFINE Below(n) == 0..n
           T == {Below(n) : n \in Nat \ S}
<1>1. \A n \in Nat : Below(n) \in FiniteSubsetsOf(Nat)
  BY FS_Interval DEF FiniteSubsetsOf
<1>2. T \subseteq FiniteSubsetsOf(Nat) /\ T # {}
  BY <1>1
<1>3. PICK U \in T : \A V \in T : ~(<<V, U>> \in StrictSubsetOrdering(Nat))
  BY <1>2, FS_StrictSubsetOrderingWellFounded, WFMin
<1>4. PICK n \in Nat \ S : U = Below(n)
  OBVIOUS
<1>5. n - 1 \in Nat \ S
  OBVIOUS
<1>6. Below(n - 1) \subseteq Below(n) /\ Below(n - 1) # Below(n)
  <2>1. n \in Below(n) /\ n \notin Below(n - 1)
    BY <1>5
  <2> QED BY <1>5, <2>1
<1>7. <<Below(n - 1), Below(n)>> \in StrictSubsetOrdering(Nat)
  BY <1>1, <1>5, <1>6 DEF StrictSubsetOrdering, FiniteSubsetsOf
<1> QED BY <1>3, <1>4, <1>5, <1>7

\* What Among has kept after n rows, given what it had kept before.
KeptAt(rows, S, n, before) ==
    IF n = 0 THEN <<>> ELSE IF rows[n] \in S THEN Append(before[n - 1], rows[n]) ELSE before[n - 1]

\* The recursive function of Among exists, by induction over the rows.
LEMMA AmongIsDefined ==
  ASSUME NEW T, NEW rows \in Seq(T), NEW S
  PROVE  \E kept : /\ kept = [n \in 0..Len(rows) |-> KeptAt(rows, S, n, kept)]
                   /\ Among(rows, S) = kept[Len(rows)]
<1> DEFINE Upto(n) == {k \in [0..n -> Seq(T)] : k = [i \in 0..n |-> KeptAt(rows, S, i, k)]}
           Reached == {n \in Nat : n <= Len(rows) => Upto(n) # {}}
<1>0. Len(rows) \in Nat /\ \A n \in 1..Len(rows) : rows[n] \in T
  OBVIOUS
<1> HIDE DEF Upto
<1>1. 0 \in Reached
  <2>1. [i \in 0..0 |-> <<>>] \in Upto(0)
    BY DEF KeptAt, Upto
  <2> QED BY <2>1
<1>2. ASSUME NEW n \in Reached PROVE n + 1 \in Reached
  <2>0. n \in Nat /\ n + 1 \in Nat /\ (n <= Len(rows) => Upto(n) # {})
    OBVIOUS
  <2> SUFFICES ASSUME n + 1 <= Len(rows) PROVE Upto(n + 1) # {}
    BY <2>0
  <2> PICK k \in Upto(n) : TRUE
    BY <1>0, <2>0
  <2>1. k \in [0..n -> Seq(T)] /\ k = [i \in 0..n |-> KeptAt(rows, S, i, k)]
    BY DEF Upto
  <2> DEFINE next == [i \in 0..(n + 1) |-> IF i <= n THEN k[i] ELSE KeptAt(rows, S, n + 1, k)]
  <2>2. KeptAt(rows, S, n + 1, k) \in Seq(T)
    BY <1>0, <2>1 DEF KeptAt
  <2>3. next \in [0..(n + 1) -> Seq(T)]
    BY <2>1, <2>2
  <2>4. ASSUME NEW i \in 0..(n + 1) PROVE next[i] = KeptAt(rows, S, i, next)
    <3>1. CASE i <= n
      <4>0. i \in 0..n
        BY <2>0, <3>1
      <4>1. k[i] = KeptAt(rows, S, i, k)
        <5>1. \A f : f = [m \in 0..n |-> KeptAt(rows, S, m, k)] => f[i] = KeptAt(rows, S, i, k)
          BY <4>0
        <5> QED BY <2>1, <5>1
      <4>2. i = 0 \/ (i - 1 \in 0..n /\ next[i - 1] = k[i - 1])
        BY <3>1
      <4> QED BY <3>1, <4>1, <4>2 DEF KeptAt
    <3>2. CASE i = n + 1
      <4>1. next[n] = k[n]
        OBVIOUS
      <4> QED BY <3>2, <4>1 DEF KeptAt
    <3> QED BY <3>1, <3>2
  <2>5. next = [i \in 0..(n + 1) |-> KeptAt(rows, S, i, next)]
    BY <2>4
  <2> QED BY <2>3, <2>5 DEF Upto
<1>3. Len(rows) \in Reached
  BY <1>0, <1>1, <1>2, Induction
<1>4. \E kept : kept = [n \in 0..Len(rows) |-> KeptAt(rows, S, n, kept)]
  BY <1>0, <1>3 DEF Upto
<1> DEFINE Kept == CHOOSE kept : kept = [n \in 0..Len(rows) |-> KeptAt(rows, S, n, kept)]
<1>5. Kept = [n \in 0..Len(rows) |-> KeptAt(rows, S, n, Kept)]
  BY <1>4
<1>6. Among(rows, S) = Kept[Len(rows)]
  BY DEF Among, KeptAt
<1> QED BY <1>5, <1>6

\* The rows Among selects stand at the places place[1], place[2], ... of the file.
Selection(rows, S, n, kept, place) ==
    /\ place \in [1..Len(kept) -> 1..n]
    /\ \A i \in 1..Len(kept) : kept[i] = rows[place[i]] /\ rows[place[i]] \in S
    /\ \A i, j \in 1..Len(kept) : place[i] = place[j] => i = j
    /\ \A k \in 1..n : rows[k] \in S => \E i \in 1..Len(kept) : place[i] = k

\* Among selects each row of the set once, and nothing else.
LEMMA AmongSelects ==
  ASSUME NEW T, NEW rows \in Seq(T), NEW S
  PROVE  /\ Among(rows, S) \in Seq(T)
         /\ \E place : Selection(rows, S, Len(rows), Among(rows, S), place)
<1>0. Len(rows) \in Nat /\ \A n \in 1..Len(rows) : rows[n] \in T
  OBVIOUS
<1>1. PICK kept : /\ kept = [n \in 0..Len(rows) |-> KeptAt(rows, S, n, kept)]
                  /\ Among(rows, S) = kept[Len(rows)]
  BY AmongIsDefined
<1> DEFINE Good(n) == kept[n] \in Seq(T) /\ \E place : Selection(rows, S, n, kept[n], place)
           Reached == {n \in Nat : n <= Len(rows) => Good(n)}
<1> HIDE DEF Good
<1>2. 0 \in Reached
  <2>1. kept[0] = <<>>
    BY <1>0, <1>1 DEF KeptAt
  <2>2. Selection(rows, S, 0, <<>>, <<>>)
    <3>1. Len(<<>>) = 0 /\ 1..0 = {} /\ <<>> \in [{} -> {}]
      OBVIOUS
    <3> QED BY <3>1 DEF Selection
  <2>3. <<>> \in Seq(T)
    OBVIOUS
  <2>4. Good(0)
    BY <2>1, <2>2, <2>3 DEF Good
  <2> QED BY <2>4
<1>3. ASSUME NEW n \in Reached PROVE n + 1 \in Reached
  <2>0. n \in Nat /\ n + 1 \in Nat /\ (n <= Len(rows) => Good(n))
    OBVIOUS
  <2> SUFFICES ASSUME n + 1 <= Len(rows) PROVE Good(n + 1)
    BY <2>0
  <2> DEFINE k == kept[n]
  <2>1. k \in Seq(T) /\ Len(k) \in Nat /\ \E place : Selection(rows, S, n, k, place)
    BY <1>0, <2>0 DEF Good
  <2>2. PICK place : Selection(rows, S, n, k, place)
    BY <2>1
  <2>3. kept[n + 1] = IF rows[n + 1] \in S THEN Append(k, rows[n + 1]) ELSE k
    <3>1. n + 1 \in 0..Len(rows) /\ n + 1 # 0 /\ (n + 1) - 1 = n
      BY <1>0, <2>0
    <3>2. kept[n + 1] = KeptAt(rows, S, n + 1, kept)
      BY <1>1, <3>1
    <3> QED BY <3>1, <3>2 DEF KeptAt
  <2>4. rows[n + 1] \in T
    BY <1>0, <2>0
  <2> HIDE DEF k
  <2>5. CASE rows[n + 1] \in S
    <3> DEFINE next == Append(k, rows[n + 1])
               places == [i \in 1..(Len(k) + 1) |-> IF i = Len(k) + 1 THEN n + 1 ELSE place[i]]
    <3>1. /\ next \in Seq(T) /\ Len(next) = Len(k) + 1
          /\ \A i \in 1..Len(k) : next[i] = k[i]
          /\ next[Len(k) + 1] = rows[n + 1]
      BY <2>1, <2>4, AppendProperties
    <3>2. /\ place \in [1..Len(k) -> 1..n]
          /\ \A i \in 1..Len(k) : k[i] = rows[place[i]] /\ rows[place[i]] \in S
          /\ \A i, j \in 1..Len(k) : place[i] = place[j] => i = j
          /\ \A m \in 1..n : rows[m] \in S => \E i \in 1..Len(k) : place[i] = m
      BY <2>2 DEF Selection
    <3>3. \A i \in 1..(Len(k) + 1) : i = Len(k) + 1 \/ i \in 1..Len(k)
      BY <2>1
    <3>4. \A i \in 1..Len(k) : places[i] = place[i] /\ place[i] \in 1..n /\ place[i] # n + 1
      BY <2>0, <2>1, <3>2
    <3>5. places[Len(k) + 1] = n + 1
      BY <2>1
    <3> HIDE DEF places, next
    <3>6. places \in [1..(Len(k) + 1) -> 1..(n + 1)]
      BY <2>0, <2>1, <3>2 DEF places
    <3>7. \A i \in 1..(Len(k) + 1) : next[i] = rows[places[i]] /\ rows[places[i]] \in S
      BY <2>5, <3>1, <3>2, <3>3, <3>4, <3>5
    <3>8. \A i, j \in 1..(Len(k) + 1) : places[i] = places[j] => i = j
      BY <3>2, <3>3, <3>4, <3>5
    <3>9. \A m \in 1..(n + 1) : rows[m] \in S => \E i \in 1..(Len(k) + 1) : places[i] = m
      <4>1. \A m \in 1..(n + 1) : m = n + 1 \/ m \in 1..n
        BY <2>0
      <4>2. Len(k) + 1 \in 1..(Len(k) + 1) /\ 1..Len(k) \subseteq 1..(Len(k) + 1)
        BY <2>1
      <4> QED BY <3>2, <3>4, <3>5, <4>1, <4>2
    <3>10. Selection(rows, S, n + 1, next, places)
      BY <3>1, <3>6, <3>7, <3>8, <3>9 DEF Selection
    <3>11. kept[n + 1] = next
      BY <2>3, <2>5 DEF next
    <3> QED BY <3>1, <3>10, <3>11 DEF Good
  <2>6. CASE rows[n + 1] \notin S
    <3>1. kept[n + 1] = k
      BY <2>3, <2>6
    <3>2. \A m \in 1..(n + 1) : m = n + 1 \/ m \in 1..n
      BY <2>0
    <3>3. 1..n \subseteq 1..(n + 1)
      BY <2>0
    <3>4. Selection(rows, S, n + 1, k, place)
      BY <2>2, <2>6, <3>2, <3>3 DEF Selection
    <3> QED BY <2>1, <3>1, <3>4 DEF Good
  <2> QED BY <2>5, <2>6
<1>4. Len(rows) \in Reached
  BY <1>0, <1>2, <1>3, Induction
<1> QED BY <1>0, <1>1, <1>4 DEF Good

\* Counting the copies of a row.
LEMMA CopiesCount ==
  ASSUME NEW T, NEW rows \in Seq(T), NEW r
  PROVE  /\ Copies(rows, r) \in Nat
         /\ Copies(rows, r) > 0 <=> r \in RowsIn(rows)
         /\ Single(rows) => Copies(rows, r) = One(r, RowsIn(rows))
<1> DEFINE K == {k \in DOMAIN rows : rows[k].row = r}
<1>1. DOMAIN rows = 1..Len(rows) /\ Len(rows) \in Nat
  OBVIOUS
<1>2. IsFiniteSet(1..Len(rows)) /\ K \subseteq 1..Len(rows)
  BY <1>1, FS_Interval
<1>3. IsFiniteSet(K) /\ Cardinality(K) \in Nat
  BY <1>2, FS_Subset, FS_CardinalityType
<1>4. Copies(rows, r) = Cardinality(K)
  BY DEF Copies
<1>5. K = {} <=> r \notin RowsIn(rows)
  BY DEF RowsIn
<1>6. Cardinality(K) = 0 <=> K = {}
  BY <1>3, FS_EmptySet
<1>7. ASSUME Single(rows), K # {} PROVE Cardinality(K) = 1
  <2>1. PICK k \in K : TRUE
    BY <1>7
  <2>2. K = {k}
    BY <1>7, <2>1 DEF Single
  <2> HIDE DEF K
  <2> QED BY <2>2, FS_Singleton
<1> HIDE DEF K
<1> QED BY <1>3, <1>4, <1>5, <1>6, <1>7 DEF One

\* A row is counted on both sides of a concatenation.
LEMMA CopiesConcat ==
  ASSUME NEW T, NEW s \in Seq(T), NEW t \in Seq(T), NEW r
  PROVE  /\ Copies(s \o t, r) = Copies(s, r) + Copies(t, r)
         /\ RowsIn(s \o t) = RowsIn(s) \cup RowsIn(t)
<1> DEFINE n == Len(s)
           u == s \o t
           A == {k \in 1..Len(s) : s[k].row = r}
           B == {k \in 1..Len(t) : t[k].row = r}
           C == {k \in 1..Len(u) : u[k].row = r}
           D == {k \in 1..Len(u) : k > n /\ u[k].row = r}
<1>1. /\ n \in Nat /\ Len(t) \in Nat /\ Len(u) = n + Len(t) /\ u \in Seq(T)
      /\ \A i \in 1..(n + Len(t)) : u[i] = IF i <= n THEN s[i] ELSE t[i - n]
  BY ConcatProperties
<1>2. DOMAIN s = 1..n /\ DOMAIN t = 1..Len(t) /\ DOMAIN u = 1..Len(u)
  BY <1>1
<1> HIDE DEF u, n
<1>3. /\ Copies(s, r) = Cardinality(A) /\ Copies(t, r) = Cardinality(B) /\ Copies(u, r) = Cardinality(C)
  BY <1>2 DEF Copies, n
<1>4. A = {k \in 1..n : s[k].row = r}
  BY DEF n
<1>5. C = A \cup D /\ A \cap D = {}
  BY <1>1, <1>4
<1>6. IsFiniteSet(A) /\ IsFiniteSet(B) /\ IsFiniteSet(D)
  <2>1. IsFiniteSet(1..n) /\ IsFiniteSet(1..Len(t)) /\ IsFiniteSet(1..Len(u))
    BY <1>1, FS_Interval
  <2> QED BY <2>1, <1>4, FS_Subset
<1>7. Cardinality(D) = Cardinality(B)
  <2> DEFINE f == [k \in B |-> k + n]
  <2>1. f \in [B -> D]
    BY <1>1
  <2>2. \A j, k \in B : f[j] = f[k] => j = k
    BY <1>1
  <2>3. \A d \in D : \E k \in B : f[k] = d
    <3> SUFFICES ASSUME NEW d \in D PROVE \E k \in B : f[k] = d
      OBVIOUS
    <3>1. d - n \in B /\ (d - n) + n = d
      BY <1>1
    <3> QED BY <3>1
  <2>4. f \in Bijection(B, D)
    <3> HIDE DEF f, B, D
    <3> QED BY <2>1, <2>2, <2>3 DEF Bijection, Injection, Surjection, IsInjective
  <2>5. ExistsBijection(B, D)
    BY <2>4 DEF ExistsBijection
  <2> HIDE DEF B, D
  <2> QED BY <1>6, <2>5, FS_Bijection
<1>8. Cardinality(C) = Cardinality(A) + Cardinality(D)
  <2>1. Cardinality(A) \in Nat /\ Cardinality(D) \in Nat
    BY <1>6, FS_CardinalityType
  <2> HIDE DEF A, C, D
  <2>2. Cardinality(A \cup D) = Cardinality(A) + Cardinality(D) - Cardinality(A \cap D)
    BY <1>6, FS_Union
  <2>3. Cardinality(A \cap D) = 0
    BY <1>5, FS_EmptySet
  <2>4. Cardinality(C) = Cardinality(A \cup D)
    BY <1>5
  <2> QED BY <2>1, <2>2, <2>3, <2>4
<1>9. RowsIn(u) = RowsIn(s) \cup RowsIn(t)
  <2>1. ASSUME NEW k \in 1..Len(u) PROVE u[k].row \in RowsIn(s) \cup RowsIn(t)
    <3>1. k <= n => k \in 1..n /\ u[k] = s[k]
      BY <1>1
    <3>2. ~(k <= n) => k - n \in 1..Len(t) /\ u[k] = t[k - n]
      BY <1>1
    <3> QED BY <1>2, <3>1, <3>2 DEF RowsIn
  <2>2. ASSUME NEW k \in 1..n PROVE s[k].row \in RowsIn(u)
    <3>1. k \in 1..Len(u) /\ u[k] = s[k]
      BY <1>1
    <3> QED BY <1>2, <3>1 DEF RowsIn
  <2>3. ASSUME NEW k \in 1..Len(t) PROVE t[k].row \in RowsIn(u)
    <3>1. k + n \in 1..Len(u) /\ u[k + n] = t[k]
      BY <1>1
    <3> QED BY <1>2, <3>1 DEF RowsIn
  <2> QED BY <1>2, <2>1, <2>2, <2>3 DEF RowsIn
<1> HIDE DEF A, B, C, D
<1> QED BY <1>3, <1>7, <1>8, <1>9 DEF u

\* Rows that differ in their status only are counted alike.
LEMMA CopiesOfAlike ==
  ASSUME NEW T, NEW s \in Seq(T), NEW t \in Seq(T), Len(s) = Len(t),
         \A k \in 1..Len(s) : s[k].row = t[k].row, NEW r
  PROVE  Copies(s, r) = Copies(t, r) /\ RowsIn(s) = RowsIn(t)
<1>1. DOMAIN s = 1..Len(s) /\ DOMAIN t = 1..Len(s)
  OBVIOUS
<1>2. {k \in DOMAIN s : s[k].row = r} = {k \in DOMAIN t : t[k].row = r}
  BY <1>1
<1> QED BY <1>1, <1>2 DEF Copies, RowsIn

-------------------------------------------------------------------------------
(* What authoring and reviews write *)

\* The next id is no larger than the number of the next row.
LEMMA NextIdFits ==
  ASSUME NEW last \in 0..MaxRequests, last < MaxRequests,
         NEW taken, \A i \in taken : i <= last
  PROVE  NextId(taken) \in Ids /\ NextId(taken) <= last + 1
<1> DEFINE S == 1..(MaxRequests + 1) \ taken
<1>0. MaxRequests \in Nat /\ last \in Nat
  BY ReviewAssumption
<1>1. last + 1 \in S /\ S \subseteq Nat
  BY <1>0
<1>2. Min(S) \in S /\ \A y \in S : Min(S) <= y
  <2> HIDE DEF S
  <2> QED BY <1>1, MinIsElement
<1>4. NextId(taken) = Min(S)
  BY DEF NextId
<1> HIDE DEF S
<1>5. Min(S) <= last + 1
  BY <1>1, <1>2
<1>6. Min(S) \in 1..(MaxRequests + 1)
  BY <1>2 DEF S
<1> QED BY <1>0, <1>4, <1>5, <1>6 DEF Ids

Status == {"CANDIDATE", "NEEDS_REVIEW", "APPROVED", "SUPERSEDED", "REJECTED"}

\* A row with another status is the same request.
Restated(row, status) == [row EXCEPT !.status = status]

LEMMA RestatedRow ==
  ASSUME NEW row \in RequestRow, NEW status \in Status
  PROVE  /\ Restated(row, status) \in RequestRow
         /\ Restated(row, status).row = row.row /\ Restated(row, status).id = row.id
         /\ Restated(row, status).supersedes = row.supersedes
         /\ Restated(row, status).status = status
BY DEF Restated, RequestRow, Status

\* A row of a file.
LEMMA FiledRows ==
  ASSUME NEW last, NEW rows, Filed(rows, last), NEW k \in DOMAIN rows
  PROVE  /\ rows[k] \in RequestRow /\ rows[k].row \in Ids /\ rows[k].id \in Ids
         /\ rows[k].id <= rows[k].row /\ rows[k].row <= last
<1>1. rows[k] \in RequestRow
  BY DEF Filed
<1> QED BY <1>1 DEF Filed, RequestRow

\* The rows are those of the queue with the decision d.
Picked(rows, queue, decision, d) ==
    \A r : r \in RowsIn(rows) <=>
              \E k \in DOMAIN queue : r = queue[k].row /\ decision[queue[k].id] = d

\* What a review decides on of a candidate file.
LEMMA DecidedRows ==
  ASSUME NEW b, NEW last, Filed(candidates[b], last), NEW decision, NEW d \in Decisions
  PROVE  LET rows == Decided(b, decision, d)
             queue == candidates[b]
         IN  /\ Filed(rows, last) /\ (Single(queue) => Single(rows))
             /\ \A k \in DOMAIN rows : rows[k].status = StatusFor(d)
             /\ Picked(rows, queue, decision, d)
<1> DEFINE queue == candidates[b]
           S == {r \in ToSet(queue) : decision[r.id] = d}
           some == Among(queue, S)
           rows == [k \in DOMAIN some |-> Restated(some[k], StatusFor(d))]
<1>1. Decided(b, decision, d) = rows
  BY DEF Decided, Restated
<1>2. queue \in Seq(RequestRow)
  BY DEF Filed
<1>3. \A x : x \in S <=> \E k \in DOMAIN queue : x = queue[k] /\ decision[queue[k].id] = d
  BY DEF ToSet
<1>4. StatusFor(d) \in Status
  BY DEF StatusFor, Status, Decisions
<1>5. \A k \in DOMAIN queue : /\ queue[k] \in RequestRow
                               /\ queue[k].id <= queue[k].row /\ queue[k].row <= last
  BY FiledRows
<1>6. Single(queue) => \A j, k \in DOMAIN queue : queue[j].row = queue[k].row => j = k
  BY DEF Single
<1> HIDE DEF S, queue
<1>7. some \in Seq(RequestRow) /\ \E place : Selection(queue, S, Len(queue), some, place)
  BY <1>2, AmongSelects
<1>8. PICK place : Selection(queue, S, Len(queue), some, place)
  BY <1>7
<1>9. DOMAIN queue = 1..Len(queue) /\ DOMAIN some = 1..Len(some)
  BY <1>2, <1>7
<1> HIDE DEF some
<1>10. /\ \A i \in DOMAIN some : place[i] \in DOMAIN queue /\ some[i] = queue[place[i]] /\ queue[place[i]] \in S
       /\ \A i, j \in DOMAIN some : place[i] = place[j] => i = j
       /\ \A k \in DOMAIN queue : queue[k] \in S => \E i \in DOMAIN some : place[i] = k
  BY <1>8, <1>9 DEF Selection
<1>11. /\ rows \in Seq(RequestRow) /\ DOMAIN rows = DOMAIN some
       /\ \A i \in DOMAIN some : /\ rows[i].row = queue[place[i]].row /\ rows[i].id = queue[place[i]].id
                                  /\ rows[i].status = StatusFor(d)
  <2>1. \A i \in DOMAIN some : /\ Restated(some[i], StatusFor(d)) \in RequestRow
                                /\ Restated(some[i], StatusFor(d)).row = queue[place[i]].row
                                /\ Restated(some[i], StatusFor(d)).id = queue[place[i]].id
                                /\ Restated(some[i], StatusFor(d)).status = StatusFor(d)
    BY <1>4, <1>5, <1>10, RestatedRow
  <2>2. Len(some) \in Nat
    BY <1>7
  <2> QED BY <1>9, <2>1, <2>2
<1> HIDE DEF rows
<1>12. Filed(rows, last)
  BY <1>5, <1>10, <1>11 DEF Filed
<1>13. Single(queue) => Single(rows)
  BY <1>6, <1>10, <1>11 DEF Single
<1>14. Picked(rows, queue, decision, d)
  <2>1. \A i \in DOMAIN some : decision[queue[place[i]].id] = d
    <3>1. ASSUME NEW i \in DOMAIN some PROVE decision[queue[place[i]].id] = d
      <4>1. PICK k \in DOMAIN queue : queue[place[i]] = queue[k] /\ decision[queue[k].id] = d
        BY <1>3, <1>10
      <4> QED BY <4>1
    <3> QED BY <3>1
  <2>2. ASSUME NEW k \in DOMAIN queue, decision[queue[k].id] = d
        PROVE  \E i \in DOMAIN some : place[i] = k
    BY <1>3, <1>10, <2>2
  <2> QED BY <1>10, <1>11, <2>1, <2>2 DEF RowsIn, Picked
<1> QED BY <1>1, <1>11, <1>12, <1>13, <1>14 DEF queue

\* What the corpus is after a review that approves the rows new.
LEMMA CorpusAfter ==
  ASSUME NEW last, Filed(approved, last), NEW new, Filed(new, last),
         \A k \in DOMAIN new : new[k].status = "APPROVED"
  PROVE  LET rows == ApprovedAfter(new)
         IN  /\ Filed(rows, last) /\ Continues(rows, approved)
             /\ Replaced(approved) => Replaced(rows)
             /\ Single(new) => Adds(rows, approved, RowsIn(new))
             /\ RowsIn(rows) = RowsIn(approved) \cup RowsIn(new)
<1> DEFINE dropped(k) == approved[k].id \in Superseding(new)
           old == [k \in DOMAIN approved |->
                     IF dropped(k) THEN Restated(approved[k], "SUPERSEDED") ELSE approved[k]]
           rows == old \o new
<1>1. ApprovedAfter(new) = rows
  BY DEF ApprovedAfter, Restated
<1>2. /\ approved \in Seq(RequestRow) /\ DOMAIN approved = 1..Len(approved) /\ Len(approved) \in Nat
      /\ new \in Seq(RequestRow) /\ DOMAIN new = 1..Len(new) /\ Len(new) \in Nat
  BY DEF Filed
<1>3. \A k \in DOMAIN approved :
         /\ approved[k] \in RequestRow /\ Restated(approved[k], "SUPERSEDED") \in RequestRow
         /\ Restated(approved[k], "SUPERSEDED").row = approved[k].row
         /\ Restated(approved[k], "SUPERSEDED").id = approved[k].id
         /\ Restated(approved[k], "SUPERSEDED").supersedes = approved[k].supersedes
         /\ Restated(approved[k], "SUPERSEDED").status = "SUPERSEDED"
  <2>1. "SUPERSEDED" \in Status
    BY DEF Status
  <2> QED BY <2>1, FiledRows, RestatedRow
<1> HIDE DEF dropped
<1>4. /\ old \in Seq(RequestRow) /\ Len(old) = Len(approved) /\ DOMAIN old = DOMAIN approved
      /\ \A k \in DOMAIN approved :
            /\ old[k].row = approved[k].row /\ old[k].id = approved[k].id
            /\ old[k].supersedes = approved[k].supersedes
            /\ old[k].status = IF dropped(k) THEN "SUPERSEDED" ELSE approved[k].status
  <2>1. \A k \in DOMAIN approved : old[k] \in RequestRow
    BY <1>3
  <2>2. DOMAIN old = 1..Len(approved)
    BY <1>2
  <2>3. \A k \in DOMAIN approved :
            /\ old[k].row = approved[k].row /\ old[k].id = approved[k].id
            /\ old[k].supersedes = approved[k].supersedes
            /\ old[k].status = IF dropped(k) THEN "SUPERSEDED" ELSE approved[k].status
    BY <1>3
  <2> QED BY <1>2, <2>1, <2>2, <2>3
<1> HIDE DEF old
<1>5. /\ rows \in Seq(RequestRow) /\ Len(rows) = Len(approved) + Len(new)
      /\ \A k \in 1..Len(rows) :
            rows[k] = IF k <= Len(approved) THEN old[k] ELSE new[k - Len(approved)]
  <2>1. /\ rows \in Seq(RequestRow) /\ Len(rows) = Len(old) + Len(new)
        /\ \A k \in 1..(Len(old) + Len(new)) :
              rows[k] = IF k <= Len(old) THEN old[k] ELSE new[k - Len(old)]
    <3>1. old \in Seq(RequestRow) /\ new \in Seq(RequestRow)
      BY <1>2, <1>4
    <3> QED BY <3>1, ConcatProperties, Zenon
  <2> HIDE DEF rows
  <2> QED BY <1>4, <2>1
<1>6. DOMAIN rows = 1..Len(rows)
  BY <1>5
<1>7. \A k \in DOMAIN rows :
         \/ k \in DOMAIN approved /\ rows[k] = old[k]
         \/ k - Len(approved) \in DOMAIN new /\ rows[k] = new[k - Len(approved)]
  BY <1>2, <1>5, <1>6
<1>8. \A k \in DOMAIN approved : k \in DOMAIN rows /\ rows[k] = old[k]
  BY <1>2, <1>5, <1>6
<1>9. \A k \in DOMAIN new : k + Len(approved) \in DOMAIN rows /\ rows[k + Len(approved)] = new[k]
  BY <1>2, <1>5, <1>6
<1> HIDE DEF rows
<1>10. Filed(rows, last)
  <2>1. ASSUME NEW k \in DOMAIN rows PROVE rows[k].id <= rows[k].row /\ rows[k].row <= last
    <3>1. CASE k \in DOMAIN approved /\ rows[k] = old[k]
      BY <1>4, <3>1, FiledRows
    <3>2. CASE k - Len(approved) \in DOMAIN new /\ rows[k] = new[k - Len(approved)]
      BY <3>2, FiledRows
    <3> QED BY <1>7, <3>1, <3>2
  <2> QED BY <1>5, <2>1 DEF Filed
<1>11. Continues(rows, approved)
  <2>1. Len(approved) <= Len(rows)
    BY <1>2, <1>5
  <2>2. \A k \in DOMAIN approved :
           /\ rows[k].row = approved[k].row
           /\ approved[k].status = "SUPERSEDED" => rows[k].status = "SUPERSEDED"
    BY <1>4, <1>8
  <2> QED BY <2>1, <2>2 DEF Continues
<1>12. ASSUME Replaced(approved) PROVE Replaced(rows)
  <2> SUFFICES ASSUME NEW k \in DOMAIN rows, rows[k].status = "SUPERSEDED"
               PROVE  \E j \in DOMAIN rows : rows[k].id \in rows[j].supersedes
    BY DEF Replaced
  <2>1. k \in DOMAIN approved /\ rows[k] = old[k]
    <3>1. \A j \in DOMAIN new : new[j].status # "SUPERSEDED"
      OBVIOUS
    <3> QED BY <1>7, <3>1
  <2>2. rows[k].id = approved[k].id /\ (dropped(k) \/ approved[k].status = "SUPERSEDED")
    BY <1>4, <2>1
  <2>3. CASE dropped(k)
    <3>1. PICK j \in DOMAIN new : approved[k].id \in new[j].supersedes
      BY <2>3 DEF dropped, Superseding
    <3> QED BY <1>9, <2>2, <3>1
  <2>4. CASE approved[k].status = "SUPERSEDED"
    <3>1. PICK j \in DOMAIN approved : approved[k].id \in approved[j].supersedes
      BY <1>12, <2>1, <2>4 DEF Replaced
    <3> QED BY <1>4, <1>8, <2>2, <3>1
  <2> QED BY <2>2, <2>3, <2>4
<1>13. \A r : /\ Copies(rows, r) = Copies(approved, r) + Copies(new, r)
              /\ RowsIn(rows) = RowsIn(approved) \cup RowsIn(new)
  <2>1. ASSUME NEW r
        PROVE  /\ Copies(rows, r) = Copies(old, r) + Copies(new, r)
               /\ RowsIn(rows) = RowsIn(old) \cup RowsIn(new)
    BY <1>2, <1>4, CopiesConcat DEF rows
  <2>2. ASSUME NEW r PROVE Copies(old, r) = Copies(approved, r) /\ RowsIn(old) = RowsIn(approved)
    BY <1>2, <1>4, CopiesOfAlike
  <2> QED BY <2>1, <2>2
<1>14. ASSUME Single(new) PROVE Adds(rows, approved, RowsIn(new))
  <2>1. \A r : Copies(new, r) = One(r, RowsIn(new))
    BY <1>2, <1>14, CopiesCount
  <2> QED BY <1>13, <2>1 DEF Adds
<1> QED BY <1>1, <1>10, <1>11, <1>12, <1>13, <1>14

\* What rejecting rows adds.
LEMMA RejectedAfter ==
  ASSUME NEW last, Filed(rejected, last), NEW new, Filed(new, last)
  PROVE  /\ Filed(rejected \o new, last)
         /\ Single(new) => Adds(rejected \o new, rejected, RowsIn(new))
<1> DEFINE rows == rejected \o new
<1>1. /\ rejected \in Seq(RequestRow) /\ DOMAIN rejected = 1..Len(rejected) /\ Len(rejected) \in Nat
      /\ new \in Seq(RequestRow) /\ DOMAIN new = 1..Len(new) /\ Len(new) \in Nat
  BY DEF Filed
<1>2. /\ rows \in Seq(RequestRow) /\ Len(rows) = Len(rejected) + Len(new)
      /\ \A k \in 1..Len(rows) :
            rows[k] = IF k <= Len(rejected) THEN rejected[k] ELSE new[k - Len(rejected)]
  BY <1>1, ConcatProperties
<1>3. \A k \in DOMAIN rows :
         \/ k \in DOMAIN rejected /\ rows[k] = rejected[k]
         \/ k - Len(rejected) \in DOMAIN new /\ rows[k] = new[k - Len(rejected)]
  BY <1>1, <1>2
<1> HIDE DEF rows
<1>4. Filed(rows, last)
  <2>1. ASSUME NEW k \in DOMAIN rows PROVE rows[k].id <= rows[k].row /\ rows[k].row <= last
    BY <1>3, FiledRows
  <2> QED BY <1>2, <2>1 DEF Filed
<1>5. ASSUME Single(new) PROVE Adds(rows, rejected, RowsIn(new))
  <2>1. \A r : Copies(new, r) = One(r, RowsIn(new))
    BY <1>1, <1>5, CopiesCount
  <2>2. \A r : Copies(rows, r) = Copies(rejected, r) + Copies(new, r)
    BY <1>1, CopiesConcat DEF rows
  <2> QED BY <2>1, <2>2 DEF Adds
<1> QED BY <1>4, <1>5 DEF rows

\* A file stays one when more rows were written elsewhere.
LEMMA FiledLater ==
  ASSUME NEW last \in Nat, NEW rows, Filed(rows, last)
  PROVE  Filed(rows, last + 1)
<1>1. \A k \in DOMAIN rows : rows[k].row \in Nat /\ rows[k].row <= last
  BY FiledRows DEF Ids
<1>2. \A k \in DOMAIN rows : rows[k].row <= last + 1
  BY <1>1
<1> QED BY <1>2 DEF Filed

\* What a write that was cut off leaves.
LEMMA FiledHead ==
  ASSUME NEW last, NEW rows, Filed(rows, last), NEW k \in 0..Len(rows)
  PROVE  Filed(SubSeq(rows, 1, k), last)
<1>1. rows \in Seq(RequestRow) /\ Len(rows) \in Nat /\ DOMAIN rows = 1..Len(rows)
  BY DEF Filed
<1>2. \A i \in 1..k : rows[i] \in RequestRow /\ i \in DOMAIN rows
  BY <1>1, FiledRows
<1>3. /\ SubSeq(rows, 1, k) \in Seq(RequestRow) /\ Len(SubSeq(rows, 1, k)) = k
      /\ \A i \in 1..k : SubSeq(rows, 1, k)[i] = rows[i]
  BY <1>1, <1>2, SubSeqProperties
<1>4. DOMAIN SubSeq(rows, 1, k) = 1..k
  BY <1>3
<1> QED BY <1>2, <1>3, <1>4, FiledRows DEF Filed

\* A file of one row, and a file that a row is appended to.
LEMMA FiledOne ==
  ASSUME NEW last, NEW row \in RequestRow, row.id <= row.row, row.row <= last
  PROVE  /\ Filed(<<row>>, last)
         /\ \A rows : Filed(rows, last) => Filed(Append(rows, row), last)
<1>1. Filed(<<row>>, last)
  <2>1. <<row>> \in Seq(RequestRow) /\ DOMAIN <<row>> = {1} /\ <<row>>[1] = row
    OBVIOUS
  <2> QED BY <2>1 DEF Filed
<1>2. ASSUME NEW rows, Filed(rows, last) PROVE Filed(Append(rows, row), last)
  <2>1. rows \in Seq(RequestRow) /\ Len(rows) \in Nat /\ DOMAIN rows = 1..Len(rows)
    BY <1>2 DEF Filed
  <2>2. /\ Append(rows, row) \in Seq(RequestRow) /\ Len(Append(rows, row)) = Len(rows) + 1
        /\ \A k \in 1..Len(rows) : Append(rows, row)[k] = rows[k]
        /\ Append(rows, row)[Len(rows) + 1] = row
    BY <2>1, AppendProperties
  <2>3. \A k \in DOMAIN Append(rows, row) : k \in DOMAIN rows \/ k = Len(rows) + 1
    BY <2>1, <2>2
  <2> QED BY <1>2, <2>1, <2>2, <2>3, FiledRows DEF Filed
<1> QED BY <1>1, <1>2

\* The row a command adds has a number of its own, and its id fits.
LEMMA NewRowFits ==
  ASSUME Files, lastRow < MaxRequests, NEW supersedes \in SUBSET Ids,
         NEW taken, taken \subseteq IdsIn(approved) \cup CandidateIds
  PROVE  /\ NewRow(NextId(taken), supersedes) \in RequestRow
         /\ NewRow(NextId(taken), supersedes).id <= NewRow(NextId(taken), supersedes).row
         /\ NewRow(NextId(taken), supersedes).row = lastRow + 1
<1>0. lastRow \in 0..MaxRequests /\ MaxRequests \in Nat
  BY ReviewAssumption DEF Files
<1>1. ASSUME NEW rows, Filed(rows, lastRow) PROVE \A i \in IdsIn(rows) : i <= lastRow
  <2>1. \A k \in DOMAIN rows : rows[k].id <= lastRow
    <3>1. ASSUME NEW k \in DOMAIN rows PROVE rows[k].id <= lastRow
      <4>1. rows[k].row \in Nat /\ rows[k].id \in Nat /\ rows[k].id <= rows[k].row /\ rows[k].row <= lastRow
        BY <1>1, FiledRows DEF Ids
      <4> QED BY <1>0, <4>1
    <3> QED BY <3>1
  <2> QED BY <2>1 DEF IdsIn
<1>2. \A i \in IdsIn(approved) \cup CandidateIds : i <= lastRow
  <2>1. Filed(approved, lastRow) /\ \A b \in Batches : Filed(candidates[b], lastRow)
    BY DEF Files
  <2> QED BY <1>1, <2>1 DEF CandidateIds
<1>3. NextId(taken) \in Ids /\ NextId(taken) <= lastRow + 1
  BY <1>0, <1>2, NextIdFits
<1>4. lastRow + 1 \in Ids
  BY <1>0 DEF Ids
<1> QED BY <1>3, <1>4 DEF NewRow, RequestRow

\* Before the first command.
LEMMA FilesAtFirst ==
  ASSUME InitRequests PROVE Files
<1>1. Filed(<<>>, 0)
  BY DEF Filed
<1>2. 0 \in 0..MaxRequests /\ 0 \in 0..MaxKills
  BY ReviewAssumption
<1>3. InitRequests => candidates \in [Batches -> Seq(RequestRow)]
  BY <1>1 DEF InitRequests, Filed
<1> QED BY <1>1, <1>2, <1>3 DEF InitRequests, Files, NoReview

\* A command that adds a row to a candidate file.
LEMMA FilesAdded ==
  ASSUME Files, lastRow < MaxRequests, review = NoReview,
         NEW b \in Batches, NEW rows, Filed(rows, lastRow + 1),
         candidates' = [candidates EXCEPT ![b] = rows],
         lastRow' = lastRow + 1, written' \subseteq written \cup {lastRow + 1},
         UNCHANGED <<approved, rejected, review, kills, truncated>>
  PROVE  Files'
<1>0. lastRow \in 0..MaxRequests /\ MaxRequests \in Nat
  BY ReviewAssumption DEF Files
<1>1. lastRow' \in 0..MaxRequests /\ written' \subseteq 1..lastRow'
  BY <1>0 DEF Files
<1>2. candidates' \in [Batches -> Seq(RequestRow)] /\ \A c \in Batches : Filed(candidates'[c], lastRow')
  <2>1. \A c \in Batches : Filed(candidates[c], lastRow)
    BY DEF Files
  <2>2. \A c \in Batches : Filed(candidates[c], lastRow + 1)
    BY <1>0, <2>1, FiledLater
  <2>3. rows \in Seq(RequestRow)
    BY DEF Filed
  <2> QED BY <2>2, <2>3 DEF Files
<1>3. Filed(approved', lastRow') /\ Filed(rejected', lastRow')
  BY <1>0, FiledLater DEF Files
<1> QED BY <1>1, <1>2, <1>3 DEF Files

\* What a review is going to write.
LEMMA ReviewStarts ==
  ASSUME Files, NEW b \in Batches, NEW decision
  PROVE  LET newRows == Decided(b, decision, "APPROVE")
             refused == Decided(b, decision, "REJECT")
             deferred == Decided(b, decision, "DEFER")
         IN  /\ Filed(newRows, lastRow) /\ Filed(refused, lastRow) /\ Filed(deferred, lastRow)
             /\ \A k \in DOMAIN newRows : newRows[k].status = "APPROVED"
             /\ Filed(ApprovedAfter(newRows), lastRow) /\ Filed(rejected \o refused, lastRow)
<1>1. Filed(candidates[b], lastRow) /\ Filed(approved, lastRow) /\ Filed(rejected, lastRow)
  BY DEF Files
<1>2. \A d \in Decisions : Filed(Decided(b, decision, d), lastRow)
  BY <1>1, DecidedRows
<1>3. \A k \in DOMAIN Decided(b, decision, "APPROVE") :
         Decided(b, decision, "APPROVE")[k].status = "APPROVED"
  <2>1. "APPROVE" \in Decisions /\ StatusFor("APPROVE") = "APPROVED"
    BY DEF Decisions, StatusFor
  <2>2. \A d \in Decisions : \A k \in DOMAIN Decided(b, decision, d) :
           Decided(b, decision, d)[k].status = StatusFor(d)
    BY <1>1, DecidedRows
  <2> QED BY <2>1, <2>2
<1>4. {"APPROVE", "REJECT", "DEFER"} = Decisions
  BY DEF Decisions
<1>5. /\ Filed(Decided(b, decision, "APPROVE"), lastRow)
      /\ Filed(Decided(b, decision, "REJECT"), lastRow)
      /\ Filed(Decided(b, decision, "DEFER"), lastRow)
  BY <1>2, <1>4
<1>6. Filed(ApprovedAfter(Decided(b, decision, "APPROVE")), lastRow)
  BY <1>1, <1>3, <1>5, CorpusAfter
<1>7. Filed(rejected \o Decided(b, decision, "REJECT"), lastRow)
  BY <1>1, <1>5, RejectedAfter
<1> QED BY <1>3, <1>5, <1>6, <1>7

\* Every command, step and kill leaves files of rows.
LEMMA FilesStep ==
  ASSUME Files, [NextRequests]_requestVars PROVE Files'
<1>0. lastRow \in 0..MaxRequests /\ MaxRequests \in Nat /\ MaxKills \in Nat /\ kills \in 0..MaxKills
  BY ReviewAssumption DEF Files
<1>1. ASSUME NEW b \in Batches, Author(b) PROVE Files'
  <2> DEFINE new == NewRow(NextId(IdsIn(approved)), {})
  <2>1. lastRow < MaxRequests /\ review = NoReview
    BY <1>1 DEF Author
  <2>2. new \in RequestRow /\ new.id <= new.row /\ new.row = lastRow + 1
    BY <2>1, NewRowFits
  <2>3. Filed(<<new>>, lastRow + 1)
    <3> HIDE DEF new
    <3>1. new.row <= lastRow + 1
      BY <1>0, <2>2
    <3> QED BY <2>2, <3>1, FiledOne
  <2>4. /\ candidates' = [candidates EXCEPT ![b] = <<new>>]
        /\ lastRow' = lastRow + 1 /\ written' \subseteq written \cup {lastRow + 1}
        /\ UNCHANGED <<approved, rejected, review, kills, truncated>>
    BY <1>1 DEF Author
  <2> HIDE DEF new
  <2> QED BY <2>1, <2>3, <2>4, FilesAdded
<1>2. ASSUME NEW supersedes \in SUBSET Ids, lastRow < MaxRequests, review = NoReview,
             candidates' = [candidates EXCEPT ![Manual] =
               Append(@, NewRow(NextId(IdsIn(approved) \cup CandidateIds), supersedes))],
             written' = written \cup {lastRow + 1}, lastRow' = lastRow + 1,
             UNCHANGED <<approved, rejected, review, kills, truncated>>
      PROVE  Files'
  <2> DEFINE new == NewRow(NextId(IdsIn(approved) \cup CandidateIds), supersedes)
  <2>1. new \in RequestRow /\ new.id <= new.row /\ new.row = lastRow + 1
    BY <1>2, NewRowFits
  <2>2. Filed(candidates[Manual], lastRow + 1) /\ Manual \in Batches
    <3>1. Manual \in Batches /\ Filed(candidates[Manual], lastRow)
      BY ReviewAssumption DEF Files
    <3> QED BY <1>0, <3>1, FiledLater
  <2>3. candidates' = [candidates EXCEPT ![Manual] = Append(candidates[Manual], new)]
    BY <1>2
  <2> HIDE DEF new
  <2>4. new.row <= lastRow + 1
    BY <1>0, <2>1
  <2>5. Filed(Append(candidates[Manual], new), lastRow + 1)
    BY <2>1, <2>2, <2>4, FiledOne
  <2> QED BY <1>2, <2>2, <2>3, <2>5, FilesAdded
<1>3. ASSUME NEW b \in Batches, StartReview(b) PROVE Files'
  <2>1. PICK decision : review' = [at |-> "approved", batch |-> b,
                            approved |-> ApprovedAfter(Decided(b, decision, "APPROVE")),
                            rejected |-> rejected \o Decided(b, decision, "REJECT"),
                            deferred |-> Decided(b, decision, "DEFER")]
    BY <1>3 DEF StartReview
  <2>2. /\ Filed(Decided(b, decision, "DEFER"), lastRow)
        /\ Filed(ApprovedAfter(Decided(b, decision, "APPROVE")), lastRow)
        /\ Filed(rejected \o Decided(b, decision, "REJECT"), lastRow)
    BY ReviewStarts
  <2>3. UNCHANGED <<candidates, approved, rejected, written, lastRow, kills, truncated>>
    BY <1>3 DEF StartReview, corpus, history
  <2>4. /\ Filed(review'.approved, lastRow) /\ Filed(review'.rejected, lastRow)
        /\ Filed(review'.deferred, lastRow)
    BY <2>1, <2>2
  <2>5. review' \in Reviews
    BY <2>1, <2>2 DEF Reviews, Filed
  <2> QED BY <2>3, <2>4, <2>5 DEF Files
<1>4. ASSUME review # NoReview
      PROVE  /\ review \in Reviews /\ Filed(review.approved, lastRow)
             /\ Filed(review.rejected, lastRow) /\ Filed(review.deferred, lastRow)
             /\ review.batch \in Batches
  BY <1>4 DEF Files, Reviews
<1>5. CASE WriteApproved
  <2>1. review # NoReview
    BY <1>5 DEF WriteApproved, NoReview
  <2>2. review' \in Reviews /\ review'.approved = review.approved
        /\ review'.rejected = review.rejected /\ review'.deferred = review.deferred
    BY <1>4, <1>5, <2>1 DEF WriteApproved, Reviews
  <2>3. /\ UNCHANGED <<candidates, rejected, written, lastRow, kills, truncated>>
        /\ approved' = review.approved
    BY <1>5 DEF WriteApproved, history
  <2> QED BY <1>4, <2>1, <2>2, <2>3 DEF Files
<1>6. CASE WriteRejected
  <2>1. review # NoReview
    BY <1>6 DEF WriteRejected, NoReview
  <2>2. review' \in Reviews /\ review'.approved = review.approved
        /\ review'.rejected = review.rejected /\ review'.deferred = review.deferred
    BY <1>4, <1>6, <2>1 DEF WriteRejected, Reviews
  <2>3. /\ UNCHANGED <<candidates, approved, written, lastRow, kills, truncated>>
        /\ rejected' = review.rejected
    BY <1>6 DEF WriteRejected, history
  <2> QED BY <1>4, <2>1, <2>2, <2>3 DEF Files
<1>7. CASE WriteInput
  <2>1. review # NoReview
    BY <1>7 DEF WriteInput, NoReview
  <2>2. /\ UNCHANGED <<approved, rejected, written, lastRow, kills, truncated>>
        /\ candidates' = [candidates EXCEPT ![review.batch] = review.deferred]
        /\ review' = NoReview
    BY <1>7 DEF WriteInput, history
  <2>3. candidates' \in [Batches -> Seq(RequestRow)] /\ \A c \in Batches : Filed(candidates'[c], lastRow)
    BY <1>4, <2>1, <2>2 DEF Files, Filed
  <2> QED BY <2>2, <2>3 DEF Files
<1>8. CASE KillReview
  <2>1. kills' \in 0..MaxKills
    BY <1>0, <1>8 DEF KillReview
  <2> QED BY <1>8, <2>1 DEF KillReview, Files, corpus
<1>9. CASE KillWithinWrite
  <2>1. kills' \in 0..MaxKills /\ truncated' \in BOOLEAN /\ review' = NoReview
        /\ UNCHANGED <<written, lastRow>> /\ review # NoReview
    BY <1>0, <1>9 DEF KillWithinWrite
  <2>2. /\ \A k \in 0..Len(review.approved) : Filed(SubSeq(review.approved, 1, k), lastRow)
        /\ \A k \in 0..Len(review.rejected) : Filed(SubSeq(review.rejected, 1, k), lastRow)
        /\ \A k \in 0..Len(review.deferred) : Filed(SubSeq(review.deferred, 1, k), lastRow)
    BY <1>4, <2>1, FiledHead
  <2>3. Filed(approved', lastRow) /\ Filed(rejected', lastRow)
    BY <1>9, <2>2 DEF KillWithinWrite, Files
  <2>4. candidates' \in [Batches -> Seq(RequestRow)] /\ \A c \in Batches : Filed(candidates'[c], lastRow)
    <3>1. CASE UNCHANGED candidates
      BY <3>1 DEF Files
    <3>2. CASE \E k \in 0..Len(review.deferred) :
                candidates' = [candidates EXCEPT ![review.batch] = SubSeq(review.deferred, 1, k)]
      BY <1>4, <2>1, <2>2, <3>2 DEF Files, Filed
    <3> QED BY <1>9, <3>1, <3>2 DEF KillWithinWrite
  <2> QED BY <2>1, <2>3, <2>4 DEF Files
<1>10. ASSUME UNCHANGED requestVars PROVE Files'
  BY <1>10 DEF Files, requestVars, corpus, history
<1>11. ASSUME NextRequests PROVE Files'
  <2>1. CASE AddHuman
    <3>1. {} \in SUBSET Ids
      OBVIOUS
    <3> QED BY <1>2, <2>1, <3>1 DEF AddHuman
  <2>2. ASSUME NEW id \in Ids, AddCorrective(id) PROVE Files'
    <3>1. {id} \in SUBSET Ids
      OBVIOUS
    <3> QED BY <1>2, <2>2, <3>1 DEF AddCorrective
  <2> QED BY <1>1, <1>3, <1>5, <1>6, <1>7, <1>8, <1>9, <1>11, <2>1, <2>2 DEF NextRequests
<1> QED BY <1>10, <1>11

-------------------------------------------------------------------------------
(* Where the requests stand *)

\* A candidate is counted where it is.
LEMMA QueuesCount ==
  ASSUME NEW queues, Apart(queues), NEW r
  PROVE  Cardinality({b \in Batches : r \in RowsIn(queues[b])}) = One(r, Queued(queues))
<1> DEFINE B == {b \in Batches : r \in RowsIn(queues[b])}
<1>1. B = {} <=> r \notin Queued(queues)
  BY DEF Queued
<1>2. ASSUME B # {} PROVE Cardinality(B) = 1
  <2>1. PICK b \in B : TRUE
    BY <1>2
  <2>2. B = {b}
    BY <2>1 DEF Apart
  <2> HIDE DEF B
  <2> QED BY <2>2, FS_Singleton
<1>3. Cardinality({}) = 0
  BY FS_EmptySet
<1> HIDE DEF B
<1>4. Cardinality(B) = One(r, Queued(queues))
  BY <1>1, <1>2, <1>3 DEF One
<1> QED BY <1>4 DEF B

\* The copies of a row in the corpus.
LEMMA CountsAreNumbers ==
  ASSUME Files, NEW r, NEW S
  PROVE  /\ Copies(approved, r) \in Nat /\ Copies(rejected, r) \in Nat /\ One(r, S) \in 0..1
         /\ Copies(approved, r) > 0 <=> r \in RowsIn(approved)
         /\ Copies(rejected, r) > 0 <=> r \in RowsIn(rejected)
<1>1. approved \in Seq(RequestRow) /\ rejected \in Seq(RequestRow)
  BY DEF Files, Filed
<1>2. One(r, S) \in 0..1
  BY DEF One
<1>3. Copies(approved, r) \in Nat /\ (Copies(approved, r) > 0 <=> r \in RowsIn(approved))
  BY <1>1, CopiesCount
<1>4. Copies(rejected, r) \in Nat /\ (Copies(rejected, r) > 0 <=> r \in RowsIn(rejected))
  BY <1>1, CopiesCount
<1> QED BY <1>2, <1>3, <1>4

\* Nothing has the number of the next row yet.
LEMMA NextRowIsNew ==
  ASSUME Files
  PROVE  /\ Copies(approved, lastRow + 1) = 0 /\ Copies(rejected, lastRow + 1) = 0
         /\ \A b \in Batches : lastRow + 1 \notin RowsIn(candidates[b])
         /\ lastRow + 1 \notin written
<1>1. lastRow \in Nat /\ \A r \in written : r <= lastRow
  BY ReviewAssumption DEF Files
<1>2. ASSUME NEW rows, Filed(rows, lastRow) PROVE lastRow + 1 \notin RowsIn(rows)
  <2>1. \A k \in DOMAIN rows : rows[k].row # lastRow + 1
    <3>1. \A k \in DOMAIN rows : rows[k].row \in Nat /\ rows[k].row <= lastRow
      BY <1>2, FiledRows DEF Ids
    <3> QED BY <1>1, <3>1
  <2> QED BY <2>1 DEF RowsIn
<1>3. /\ lastRow + 1 \notin RowsIn(approved) /\ lastRow + 1 \notin RowsIn(rejected)
      /\ \A b \in Batches : lastRow + 1 \notin RowsIn(candidates[b])
  BY <1>2 DEF Files
<1>4. Copies(approved, lastRow + 1) = 0 /\ Copies(rejected, lastRow + 1) = 0
  BY <1>3, CountsAreNumbers
<1> QED BY <1>1, <1>3, <1>4

\* Before the first command no request stands anywhere.
LEMMA SoundAtFirst ==
  ASSUME InitRequests PROVE Sound
<1>1. Apart(candidates)
  BY DEF InitRequests, Apart, Single, RowsIn
<1> QED BY <1>1 DEF InitRequests, Sound, Replaced, Counted

\* A new row enters a candidate file, which keeps the rows K.
LEMMA SoundAdded ==
  ASSUME Files, Sound, review = NoReview, UNCHANGED <<approved, rejected, review, kills>>,
         NEW b \in Batches, NEW rows, candidates' = [candidates EXCEPT ![b] = rows],
         Single(rows), NEW K, K \subseteq RowsIn(candidates[b]),
         RowsIn(rows) = K \cup {lastRow + 1},
         written' = (written \ (RowsIn(candidates[b]) \ K)) \cup {lastRow + 1}
  PROVE  Sound'
<1>0. kills \in Nat /\ DOMAIN candidates = Batches
  BY ReviewAssumption DEF Files
<1>1. Apart(candidates) /\ Replaced(approved) /\ Counted(approved, rejected, candidates, {})
  BY DEF Sound
<1>2. /\ candidates'[b] = rows
      /\ \A c \in Batches : c # b => candidates'[c] = candidates[c]
  BY <1>0
<1>3. /\ \A c \in Batches : lastRow + 1 \notin RowsIn(candidates[c])
      /\ Copies(approved, lastRow + 1) = 0 /\ Copies(rejected, lastRow + 1) = 0
      /\ lastRow + 1 \notin written
  BY NextRowIsNew
<1>4. PICK queues : queues = candidates'
  OBVIOUS
<1>5. Apart(queues)
  <2>1. \A c \in Batches : Single(queues[c])
    BY <1>1, <1>2, <1>4 DEF Apart
  <2>2. \A c \in Batches : c # b => RowsIn(queues[b]) \cap RowsIn(queues[c]) = {}
    BY <1>1, <1>2, <1>3, <1>4 DEF Apart
  <2>3. \A c, d \in Batches : c # b /\ d # b /\ c # d => RowsIn(queues[c]) \cap RowsIn(queues[d]) = {}
    BY <1>1, <1>2, <1>4 DEF Apart
  <2> QED BY <2>1, <2>2, <2>3 DEF Apart
<1>6. \A r \in written \ (RowsIn(candidates[b]) \ K) :
         r \in Queued(queues) <=> r \in Queued(candidates)
  BY <1>2, <1>3, <1>4 DEF Queued
<1>7. lastRow + 1 \in Queued(queues)
  BY <1>2, <1>4 DEF Queued
<1>8. ASSUME NEW r \in written'
      PROVE  Standing(approved, rejected, queues, r) \in 1..(1 + kills + One(r, {}))
  <2>1. CASE r = lastRow + 1
    BY <1>0, <1>3, <1>7, <2>1 DEF Standing, One
  <2>2. CASE r \in written \ (RowsIn(candidates[b]) \ K)
    <3>1. One(r, Queued(queues)) = One(r, Queued(candidates))
      BY <1>6, <2>2 DEF One
    <3> QED BY <1>1, <2>2, <3>1 DEF Counted, Standing
  <2> QED BY <1>8, <2>1, <2>2
<1>9. Counted(approved, rejected, candidates, {})'
  BY <1>4, <1>8 DEF Counted, Standing
<1> QED BY <1>1, <1>4, <1>5, <1>9 DEF Sound

\* A review begins: every candidate of the file is approved, rejected or deferred.
LEMMA SoundStarted ==
  ASSUME Files, Sound, NEW b \in Batches, StartReview(b)
  PROVE  Sound'
<1>1. /\ Apart(candidates) /\ Replaced(approved) /\ Counted(approved, rejected, candidates, {})
      /\ UNCHANGED <<candidates, approved, rejected, written, kills>>
  BY DEF Sound, StartReview, corpus, history
<1>2. PICK decision \in [IdsIn(candidates[b]) -> Decisions] :
         review' = [at |-> "approved", batch |-> b,
                    approved |-> ApprovedAfter(Decided(b, decision, "APPROVE")),
                    rejected |-> rejected \o Decided(b, decision, "REJECT"),
                    deferred |-> Decided(b, decision, "DEFER")]
  BY DEF StartReview
<1> DEFINE queue == candidates[b]
           Those(d) == RowsIn(Decided(b, decision, d))
<1>3. Filed(queue, lastRow) /\ Filed(approved, lastRow) /\ Filed(rejected, lastRow) /\ Single(queue)
  BY <1>1 DEF Files, Apart
<1>4. \A d \in Decisions :
         /\ Filed(Decided(b, decision, d), lastRow) /\ Single(Decided(b, decision, d))
         /\ \A r : r \in Those(d) <=> \E k \in DOMAIN queue : r = queue[k].row /\ decision[queue[k].id] = d
  <2> SUFFICES ASSUME NEW d \in Decisions
               PROVE  /\ Filed(Decided(b, decision, d), lastRow) /\ Single(Decided(b, decision, d))
                      /\ \A r : r \in RowsIn(Decided(b, decision, d)) <=>
                           \E k \in DOMAIN queue : r = queue[k].row /\ decision[queue[k].id] = d
    OBVIOUS
  <2>1. Filed(candidates[b], lastRow) /\ Single(candidates[b])
    BY <1>3
  <2>2. Filed(Decided(b, decision, d), lastRow)
    BY <2>1, DecidedRows
  <2>3. Single(Decided(b, decision, d))
    BY <2>1, DecidedRows
  <2>4. Picked(Decided(b, decision, d), candidates[b], decision, d)
    BY <2>1, DecidedRows
  <2> QED BY <2>2, <2>3, <2>4 DEF Picked
<1>5. Decisions = {"APPROVE", "REJECT", "DEFER"}
  BY DEF Decisions
<1>6. \A k \in DOMAIN queue : decision[queue[k].id] \in Decisions
  <2>1. \A k \in DOMAIN queue : queue[k].id \in IdsIn(queue)
    BY DEF IdsIn
  <2> QED BY <1>2, <2>1
<1>7. \A j, k \in DOMAIN queue : queue[j].row = queue[k].row => j = k
  BY <1>3 DEF Single
<1>8. RowsIn(queue) = {queue[k].row : k \in DOMAIN queue}
  BY DEF RowsIn
<1> HIDE DEF queue, Those
<1>10. /\ RowsIn(queue) = Those("APPROVE") \cup Those("REJECT") \cup Those("DEFER")
       /\ \A d, e \in Decisions : d # e => Those(d) \cap Those(e) = {}
  <2>1. ASSUME NEW d \in Decisions, NEW e \in Decisions, d # e, NEW r \in Those(d), r \in Those(e)
        PROVE  FALSE
    BY <1>4, <1>7, <2>1
  <2>2. \A r : r \in RowsIn(queue) <=> \E d \in Decisions : r \in Those(d)
    BY <1>4, <1>6, <1>8
  <2>3. RowsIn(queue) = UNION {Those(d) : d \in Decisions}
    BY <2>2
  <2> QED BY <1>5, <2>1, <2>3
<1>11. /\ Continues(ApprovedAfter(Decided(b, decision, "APPROVE")), approved)
       /\ Replaced(ApprovedAfter(Decided(b, decision, "APPROVE")))
       /\ Adds(ApprovedAfter(Decided(b, decision, "APPROVE")), approved, Those("APPROVE"))
  <2>1. \A k \in DOMAIN Decided(b, decision, "APPROVE") :
           Decided(b, decision, "APPROVE")[k].status = "APPROVED"
    BY ReviewStarts
  <2>2. Filed(Decided(b, decision, "APPROVE"), lastRow) /\ Single(Decided(b, decision, "APPROVE"))
    BY <1>4, <1>5
  <2> QED BY <1>1, <1>3, <2>1, <2>2, CorpusAfter DEF Those
<1>12. Adds(rejected \o Decided(b, decision, "REJECT"), rejected, Those("REJECT"))
  <2>1. Filed(Decided(b, decision, "REJECT"), lastRow) /\ Single(Decided(b, decision, "REJECT"))
    BY <1>4, <1>5
  <2> QED BY <1>3, <2>1, RejectedAfter DEF Those
<1>13. Those("APPROVE") \in SUBSET Ids /\ Those("REJECT") \in SUBSET Ids
  <2>1. ASSUME NEW rows, Filed(rows, lastRow) PROVE RowsIn(rows) \subseteq Ids
    BY <2>1, FiledRows DEF RowsIn
  <2> QED BY <1>4, <1>5, <2>1 DEF Those
<1>14. PICK A \in SUBSET Ids, R \in SUBSET Ids : A = Those("APPROVE") /\ R = Those("REJECT")
  BY <1>13
<1>15. Deciding(A, R)'
  <2>1. /\ RowsIn(review'.deferred) = Those("DEFER") /\ Single(review'.deferred)
        /\ review'.at = "approved" /\ review'.batch = b
    BY <1>2, <1>4, <1>5 DEF Those
  <2>2. RowsIn(candidates'[review'.batch]) = A \cup R \cup RowsIn(review'.deferred)
    BY <1>1, <1>10, <1>14, <2>1 DEF queue
  <2>3. A \cap R = {} /\ RowsIn(review'.deferred) \cap (A \cup R) = {}
    BY <1>5, <1>10, <1>14, <2>1
  <2>4. Adds(review'.approved, approved', A) /\ Continues(review'.approved, approved') /\ Replaced(review'.approved)
    BY <1>1, <1>2, <1>11, <1>14
  <2>5. Adds(review'.rejected, rejected', R)
    BY <1>1, <1>2, <1>12, <1>14
  <2> QED BY <2>1, <2>2, <2>3, <2>4, <2>5 DEF Deciding
<1>16. Counted(approved, rejected, candidates, Moved(A, R))'
  BY <1>1, <1>2 DEF Counted, Standing, Moved
<1>17. review' # NoReview
  BY <1>2 DEF NoReview
<1> QED BY <1>1, <1>15, <1>16, <1>17 DEF Sound

\* What is known while a review is under way.
LEMMA UnderWay ==
  ASSUME Files, Sound, review # NoReview
  PROVE  /\ review \in Reviews
         /\ \E A, R \in SUBSET Ids :
               Deciding(A, R) /\ Counted(approved, rejected, candidates, Moved(A, R))
BY DEF Files, Sound

\* The approved rows are written: each has one more copy until the queue is.
LEMMA SoundApproved ==
  ASSUME Files, Files', Sound, WriteApproved
  PROVE  Sound'
<1>1. /\ review # NoReview /\ review.at = "approved" /\ approved' = review.approved
      /\ UNCHANGED <<candidates, rejected, written, kills>>
  BY DEF WriteApproved, NoReview, history
<1>2. PICK A \in SUBSET Ids, R \in SUBSET Ids :
         Deciding(A, R) /\ Counted(approved, rejected, candidates, Moved(A, R))
  BY <1>1, UnderWay
<1>3. /\ review'.at = "rejected" /\ review'.batch = review.batch /\ review' # NoReview
      /\ review'.rejected = review.rejected /\ review'.deferred = review.deferred
  <2>1. review \in Reviews
    BY <1>1, UnderWay
  <2> QED BY <2>1 DEF WriteApproved, Reviews, NoReview
<1>4. Moved(A, R) = {} /\ Moved(A, R)' = A
  BY <1>1, <1>3 DEF Moved
<1>5. \A r \in Ids : Copies(approved', r) = Copies(approved, r) + One(r, A)
  BY <1>1, <1>2 DEF Deciding, Adds
<1>6. Replaced(approved')
  BY <1>1, <1>2 DEF Deciding
<1>7. A \subseteq RowsIn(approved')
  <2>1. approved' \in Seq(RequestRow)
    BY DEF Files, Filed
  <2>2. \A r \in A : Copies(approved', r) > 0
    <3>1. \A r \in A : r \in Ids /\ Copies(approved, r) \in Nat /\ One(r, A) = 1
      BY CountsAreNumbers DEF One
    <3> QED BY <1>5, <3>1
  <2>3. \A r : Copies(approved', r) > 0 <=> r \in RowsIn(approved')
    BY <2>1, CopiesCount
  <2> QED BY <2>2, <2>3
<1>8. Deciding(A, R)'
  BY <1>1, <1>2, <1>3, <1>7 DEF Deciding
<1>9. Counted(approved, rejected, candidates, Moved(A, R))'
  <2>1. ASSUME NEW r \in written
        PROVE  Standing(approved', rejected, candidates, r) \in 1..(1 + kills + One(r, A))
    <3>1. r \in Ids
      BY ReviewAssumption DEF Files, Ids
    <3>2. Standing(approved, rejected, candidates, r) \in 1..(1 + kills + One(r, {}))
      BY <1>2, <1>4 DEF Counted
    <3>3. /\ Copies(approved, r) \in Nat /\ Copies(rejected, r) \in Nat
          /\ One(r, Queued(candidates)) \in 0..1 /\ One(r, A) \in 0..1 /\ One(r, {}) = 0
      BY CountsAreNumbers DEF One
    <3>4. Copies(approved', r) = Copies(approved, r) + One(r, A)
      BY <1>5, <3>1
    <3>5. kills \in Nat
      BY ReviewAssumption DEF Files
    <3> QED BY <3>2, <3>3, <3>4, <3>5 DEF Standing
  <2> QED BY <1>1, <1>4, <2>1 DEF Counted, Standing
<1>10. Apart(candidates')
  BY <1>1 DEF Sound
<1> QED BY <1>3, <1>6, <1>8, <1>9, <1>10 DEF Sound

\* And so are the rejected ones.
LEMMA SoundRejected ==
  ASSUME Files, Files', Sound, WriteRejected
  PROVE  Sound'
<1>1. /\ review # NoReview /\ review.at = "rejected" /\ rejected' = review.rejected
      /\ UNCHANGED <<candidates, approved, written, kills>>
  BY DEF WriteRejected, NoReview, history
<1>2. PICK A \in SUBSET Ids, R \in SUBSET Ids :
         Deciding(A, R) /\ Counted(approved, rejected, candidates, Moved(A, R))
  BY <1>1, UnderWay
<1>3. /\ review'.at = "input" /\ review'.batch = review.batch /\ review' # NoReview
      /\ review'.deferred = review.deferred
  <2>1. review \in Reviews
    BY <1>1, UnderWay
  <2> QED BY <2>1 DEF WriteRejected, Reviews, NoReview
<1>4. Moved(A, R) = A /\ Moved(A, R)' = A \cup R
  BY <1>1, <1>3 DEF Moved
<1>5. \A r \in Ids : Copies(rejected', r) = Copies(rejected, r) + One(r, R)
  BY <1>1, <1>2 DEF Deciding, Adds
<1>6. A \subseteq RowsIn(approved) /\ A \cap R = {}
  BY <1>1, <1>2 DEF Deciding
<1>7. R \subseteq RowsIn(rejected')
  <2>1. rejected' \in Seq(RequestRow)
    BY DEF Files, Filed
  <2>2. \A r \in R : Copies(rejected', r) > 0
    <3>1. \A r \in R : r \in Ids /\ Copies(rejected, r) \in Nat /\ One(r, R) = 1
      BY CountsAreNumbers DEF One
    <3> QED BY <1>5, <3>1
  <2>3. \A r : Copies(rejected', r) > 0 <=> r \in RowsIn(rejected')
    BY <2>1, CopiesCount
  <2> QED BY <2>2, <2>3
<1>8. Deciding(A, R)'
  BY <1>1, <1>2, <1>3, <1>6, <1>7 DEF Deciding
<1>9. Counted(approved, rejected, candidates, Moved(A, R))'
  <2>1. ASSUME NEW r \in written
        PROVE  Standing(approved, rejected', candidates, r) \in 1..(1 + kills + One(r, A \cup R))
    <3>1. r \in Ids
      BY ReviewAssumption DEF Files, Ids
    <3>2. Standing(approved, rejected, candidates, r) \in 1..(1 + kills + One(r, A))
      BY <1>2, <1>4 DEF Counted
    <3>3. /\ Copies(approved, r) \in Nat /\ Copies(rejected, r) \in Nat
          /\ One(r, Queued(candidates)) \in 0..1 /\ One(r, A) \in 0..1 /\ One(r, R) \in 0..1
      BY CountsAreNumbers DEF One
    <3>4. Copies(rejected', r) = Copies(rejected, r) + One(r, R)
      BY <1>5, <3>1
    <3>5. kills \in Nat
      BY ReviewAssumption DEF Files
    <3>6. One(r, A \cup R) = One(r, A) + One(r, R)
      BY <1>6 DEF One
    <3> QED BY <3>2, <3>3, <3>4, <3>5, <3>6 DEF Standing
  <2> QED BY <1>1, <1>4, <2>1 DEF Counted, Standing
<1>10. Apart(candidates') /\ Replaced(approved')
  BY <1>1 DEF Sound
<1> QED BY <1>3, <1>8, <1>9, <1>10 DEF Sound

\* The rows decided on leave the candidate file; they are in the corpus by now.
LEMMA SoundLeft ==
  ASSUME Files, Sound, WriteInput
  PROVE  Sound'
<1>1. /\ review # NoReview /\ review.at = "input" /\ review' = NoReview
      /\ candidates' = [candidates EXCEPT ![review.batch] = review.deferred]
      /\ UNCHANGED <<approved, rejected, written, kills>>
  BY DEF WriteInput, NoReview, history
<1>2. PICK A \in SUBSET Ids, R \in SUBSET Ids :
         Deciding(A, R) /\ Counted(approved, rejected, candidates, Moved(A, R))
  BY <1>1, UnderWay
<1>3. review.batch \in Batches /\ DOMAIN candidates = Batches
  BY <1>1, UnderWay DEF Reviews, Files
<1>4. PICK b \in Batches : b = review.batch
  BY <1>3
<1>5. /\ candidates'[b] = review.deferred
      /\ \A c \in Batches : c # b => candidates'[c] = candidates[c]
  BY <1>1, <1>3, <1>4
<1>6. /\ RowsIn(candidates[b]) = A \cup R \cup RowsIn(review.deferred)
      /\ RowsIn(review.deferred) \cap (A \cup R) = {} /\ Single(review.deferred)
      /\ A \subseteq RowsIn(approved) /\ R \subseteq RowsIn(rejected)
  BY <1>1, <1>2, <1>4 DEF Deciding
<1>7. Apart(candidates) /\ Replaced(approved)
  BY DEF Sound
<1>8. PICK queues : queues = candidates'
  OBVIOUS
<1>9. /\ \A c \in Batches : RowsIn(queues[c]) \subseteq RowsIn(candidates[c])
      /\ RowsIn(queues[b]) = RowsIn(review.deferred)
      /\ \A c \in Batches : c # b => RowsIn(queues[c]) = RowsIn(candidates[c])
  BY <1>5, <1>6, <1>8
<1>10. Apart(queues)
  <2>1. \A c \in Batches : Single(queues[c])
    BY <1>5, <1>6, <1>7, <1>8 DEF Apart
  <2> QED BY <1>7, <1>9, <2>1 DEF Apart
<1>11. \A c \in Batches : c # b => RowsIn(candidates[c]) \cap (A \cup R) = {}
  BY <1>6, <1>7 DEF Apart
<1>12. Queued(queues) = Queued(candidates) \ (A \cup R) /\ (A \cup R) \subseteq Queued(candidates)
  <2>1. (A \cup R) \subseteq Queued(candidates)
    BY <1>6 DEF Queued
  <2>2. ASSUME NEW r PROVE r \in Queued(queues) <=> r \in Queued(candidates) /\ r \notin A \cup R
    <3>1. r \in Queued(queues) <=> \E c \in Batches : r \in RowsIn(queues[c])
      BY DEF Queued
    <3>2. r \in Queued(candidates) <=> \E c \in Batches : r \in RowsIn(candidates[c])
      BY DEF Queued
    <3>3. \A c \in Batches : r \in RowsIn(queues[c]) <=> r \in RowsIn(candidates[c]) /\ r \notin A \cup R
      <4>1. ASSUME NEW c \in Batches, c = b
            PROVE  r \in RowsIn(queues[c]) <=> r \in RowsIn(candidates[c]) /\ r \notin A \cup R
        BY <1>6, <1>9, <4>1
      <4>2. ASSUME NEW c \in Batches, c # b
            PROVE  r \in RowsIn(queues[c]) <=> r \in RowsIn(candidates[c]) /\ r \notin A \cup R
        BY <1>9, <1>11, <4>2
      <4> QED BY <4>1, <4>2
    <3> QED BY <3>1, <3>2, <3>3
  <2> QED BY <2>1, <2>2
<1>13. ASSUME NEW r \in written
       PROVE  Standing(approved, rejected, queues, r) \in 1..(1 + kills + One(r, {}))
  <2>1. Moved(A, R) = A \cup R
    BY <1>1 DEF Moved
  <2>2. Standing(approved, rejected, candidates, r) \in 1..(1 + kills + One(r, A \cup R))
    BY <1>2, <2>1 DEF Counted
  <2>3. /\ Copies(approved, r) \in Nat /\ Copies(rejected, r) \in Nat /\ kills \in Nat
        /\ Copies(approved, r) > 0 <=> r \in RowsIn(approved)
        /\ Copies(rejected, r) > 0 <=> r \in RowsIn(rejected)
    <3>1. kills \in Nat
      BY ReviewAssumption DEF Files
    <3> QED BY <3>1, CountsAreNumbers
  <2>4. CASE r \in A \cup R
    <3>1. /\ One(r, Queued(candidates)) = 1 /\ One(r, Queued(queues)) = 0
          /\ One(r, A \cup R) = 1 /\ One(r, {}) = 0
      BY <1>12, <2>4 DEF One
    <3>2. Copies(approved, r) > 0 \/ Copies(rejected, r) > 0
      BY <1>6, <2>3, <2>4
    <3> QED BY <2>2, <2>3, <3>1, <3>2 DEF Standing
  <2>5. CASE r \notin A \cup R
    <3>1. /\ One(r, Queued(candidates)) = One(r, Queued(queues))
          /\ One(r, A \cup R) = 0 /\ One(r, {}) = 0
      BY <1>12, <2>5 DEF One
    <3> QED BY <2>2, <3>1 DEF Standing
  <2> QED BY <2>4, <2>5
<1>14. Counted(approved, rejected, candidates, {})'
  BY <1>1, <1>8, <1>13 DEF Counted, Standing
<1> QED BY <1>1, <1>7, <1>8, <1>10, <1>14 DEF Sound

\* A killed review leaves the rows it moved where they were, too.
LEMMA SoundKilled ==
  ASSUME Files, Sound, KillReview
  PROVE  Sound'
<1>1. /\ review # NoReview /\ review' = NoReview /\ kills' = kills + 1 /\ kills \in Nat
      /\ UNCHANGED <<candidates, approved, rejected, written>>
  BY ReviewAssumption DEF KillReview, corpus, Files
<1>2. PICK A \in SUBSET Ids, R \in SUBSET Ids :
         Deciding(A, R) /\ Counted(approved, rejected, candidates, Moved(A, R))
  BY <1>1, UnderWay
<1>3. ASSUME NEW r \in written
      PROVE  Standing(approved, rejected, candidates, r) \in 1..(1 + kills' + One(r, {}))
  <2>1. Standing(approved, rejected, candidates, r) \in 1..(1 + kills + One(r, Moved(A, R)))
    BY <1>2 DEF Counted
  <2>2. One(r, Moved(A, R)) \in 0..1 /\ One(r, {}) = 0
    BY DEF One
  <2> QED BY <1>1, <2>1, <2>2
<1>4. Counted(approved, rejected, candidates, {})'
  BY <1>1, <1>3 DEF Counted, Standing
<1>5. Apart(candidates') /\ Replaced(approved')
  BY <1>1 DEF Sound
<1> QED BY <1>1, <1>4, <1>5 DEF Sound

\* Only a review killed within a write truncates a file.
LEMMA SoundStep ==
  ASSUME Files, Files', Sound, ~truncated', [NextRequests]_requestVars
  PROVE  Sound'
<1>1. ASSUME NEW b \in Batches, Author(b) PROVE Sound'
  <2> DEFINE new == NewRow(NextId(IdsIn(approved)), {})
  <2>1. /\ review = NoReview /\ UNCHANGED <<approved, rejected, review, kills>>
        /\ candidates' = [candidates EXCEPT ![b] = <<new>>]
        /\ written' = (written \ RowsIn(candidates[b])) \cup {lastRow + 1}
    BY <1>1 DEF Author
  <2>2. Single(<<new>>) /\ RowsIn(<<new>>) = {} \cup {lastRow + 1}
    BY DEF Single, RowsIn, NewRow
  <2>3. written' = (written \ (RowsIn(candidates[b]) \ {})) \cup {lastRow + 1}
    BY <2>1
  <2>4. PICK rows : rows = <<new>>
    OBVIOUS
  <2>5. PICK K : K = {}
    OBVIOUS
  <2>6. K \subseteq RowsIn(candidates[b])
    BY <2>5
  <2> HIDE DEF new
  <2> QED BY <2>1, <2>2, <2>3, <2>4, <2>5, <2>6, SoundAdded
<1>2. ASSUME NEW supersedes, review = NoReview, UNCHANGED <<approved, rejected, review, kills>>,
             candidates' = [candidates EXCEPT ![Manual] =
               Append(@, NewRow(NextId(IdsIn(approved) \cup CandidateIds), supersedes))],
             written' = written \cup {lastRow + 1}
      PROVE  Sound'
  <2> DEFINE new == NewRow(NextId(IdsIn(approved) \cup CandidateIds), supersedes)
             queue == candidates[Manual]
             rows == Append(queue, new)
  <2>1. new.row = lastRow + 1
    BY DEF NewRow
  <2> HIDE DEF new
  <2>2. /\ Manual \in Batches /\ queue \in Seq(RequestRow) /\ Single(queue)
        /\ lastRow + 1 \notin RowsIn(queue)
    BY ReviewAssumption, NextRowIsNew DEF Files, Filed, Sound, Apart
  <2>3. candidates' = [candidates EXCEPT ![Manual] = rows]
    BY <1>2 DEF new
  <2> HIDE DEF queue
  <2>4. /\ rows \in Seq(RequestRow \cup {new}) /\ Len(rows) = Len(queue) + 1
        /\ \A k \in 1..Len(queue) : rows[k] = queue[k]
        /\ rows[Len(queue) + 1] = new
    <3>1. queue \in Seq(RequestRow \cup {new})
      BY <2>2
    <3> QED BY <3>1, AppendProperties
  <2>5. /\ DOMAIN queue = 1..Len(queue) /\ Len(queue) \in Nat
        /\ DOMAIN rows = DOMAIN queue \cup {Len(queue) + 1} /\ Len(queue) + 1 \notin DOMAIN queue
    <3>1. DOMAIN queue = 1..Len(queue) /\ Len(queue) \in Nat
      BY <2>2
    <3>2. DOMAIN rows = 1..(Len(queue) + 1)
      BY <2>4
    <3> HIDE DEF rows
    <3> QED BY <3>1, <3>2
  <2> HIDE DEF rows
  <2>6. RowsIn(rows) = RowsIn(queue) \cup {lastRow + 1}
    BY <2>1, <2>4, <2>5 DEF RowsIn
  <2>7. Single(rows)
    <3>1. \A k \in DOMAIN queue : rows[k] = queue[k] /\ rows[k].row # lastRow + 1
      BY <2>2, <2>4, <2>5 DEF RowsIn
    <3>2. rows[Len(queue) + 1].row = lastRow + 1
      BY <2>1, <2>4
    <3> QED BY <2>2, <2>5, <3>1, <3>2 DEF Single
  <2>8. written' = (written \ (RowsIn(queue) \ RowsIn(queue))) \cup {lastRow + 1}
    BY <1>2
  <2> QED BY <1>2, <2>2, <2>3, <2>6, <2>7, <2>8, SoundAdded DEF queue
<1>3. ASSUME UNCHANGED requestVars PROVE Sound'
  <2>1. UNCHANGED <<candidates, approved, rejected, review, written, kills>>
    BY <1>3 DEF requestVars, corpus, history
  <2> QED BY <2>1 DEF Sound, Deciding, Moved, Counted, Standing
<1>4. ~KillWithinWrite
  BY DEF KillWithinWrite
<1>5. CASE AddHuman
  BY <1>2, <1>5 DEF AddHuman
<1>6. ASSUME NEW id \in Ids, AddCorrective(id) PROVE Sound'
  BY <1>2, <1>6 DEF AddCorrective
<1>7. ASSUME NEW b \in Batches, StartReview(b) PROVE Sound'
  BY <1>7, SoundStarted
<1> QED BY <1>1, <1>3, <1>4, <1>5, <1>6, <1>7, SoundApproved, SoundRejected, SoundLeft, SoundKilled
        DEF NextRequests

\* The invariant: the files of authoring.py hold rows that were written, and while no
\* write was cut off, each request stands in a candidate file or in the corpus, and what
\* a review is about to write adds the rows it decided on and takes none away.
THEOREM RequestsStayFiled == RequestSpec => []RequestInv
<1>1. InitRequests => RequestInv
  BY FilesAtFirst, SoundAtFirst DEF RequestInv
<1>2. RequestInv /\ [NextRequests]_requestVars => RequestInv'
  <2> SUFFICES ASSUME RequestInv, [NextRequests]_requestVars PROVE RequestInv'
    OBVIOUS
  <2>1. Files /\ Files'
    BY FilesStep DEF RequestInv
  <2>2. ~truncated' => ~truncated
    BY DEF NextRequests, Author, AddHuman, AddCorrective, StartReview, WriteApproved, WriteRejected,
           WriteInput, KillReview, KillWithinWrite, requestVars, history, corpus
  <2>3. ~truncated' => Sound'
    BY <2>1, <2>2, SoundStep DEF RequestInv
  <2> QED BY <2>1, <2>3 DEF RequestInv
<1> QED BY <1>1, <1>2, PTL DEF RequestSpec

\* No request that was written leaves candidates, approved and rejected, and no row is
\* superseded without its replacement, whatever review_candidates was killed between.
THEOREM NoRequestIsLost == RequestSpec => []CorpusIsSound
<1>1. RequestInv => CorpusIsSound
  <2> SUFFICES ASSUME RequestInv PROVE CorpusIsSound
    OBVIOUS
  <2>0. lastRow \in Nat /\ MaxRequests \in Nat /\ lastRow <= MaxRequests /\ kills \in Nat
    BY ReviewAssumption DEF RequestInv, Files
  <2>1. RequestTypeOK
    <3>1. candidates \in [Batches -> Seq(RequestRow)]
      BY DEF RequestInv, Files
    <3>2. approved \in Seq(RequestRow) /\ rejected \in Seq(RequestRow)
      BY DEF RequestInv, Files, Filed
    <3>3. review.at \in {"idle", "approved", "rejected", "input"}
      BY DEF RequestInv, Files, Reviews, NoReview
    <3>4. written \subseteq Ids
      BY <2>0 DEF RequestInv, Files, Ids
    <3> QED BY <3>1, <3>2, <3>3, <3>4 DEF RequestInv, Files, RequestTypeOK
  <2>2. ASSUME ~truncated, NEW r \in written
        PROVE  CopiesOf(r) \in 1..(1 + kills + (IF review = NoReview THEN 0 ELSE 1))
    <3>1. Files /\ Sound
      BY <2>2 DEF RequestInv
    <3>2. CopiesOf(r) = Standing(approved, rejected, candidates, r)
      BY <3>1, QueuesCount DEF Sound, CopiesOf, Standing
    <3>3. CASE review = NoReview
      <4>1. Standing(approved, rejected, candidates, r) \in 1..(1 + kills + One(r, {}))
        BY <3>1, <3>3 DEF Sound, Counted
      <4>2. One(r, {}) = 0
        BY DEF One
      <4> QED BY <2>0, <3>2, <3>3, <4>1, <4>2
    <3>4. CASE review # NoReview
      <4>1. PICK S : Standing(approved, rejected, candidates, r) \in 1..(1 + kills + One(r, S))
        BY <3>1, <3>4, UnderWay DEF Counted
      <4>2. One(r, S) \in 0..1
        BY DEF One
      <4> QED BY <2>0, <3>2, <3>4, <4>1, <4>2
    <3> QED BY <3>3, <3>4
  <2>3. SupersededHaveReplacements
    BY DEF RequestInv, Sound, Replaced, SupersededHaveReplacements
  <2> QED BY <2>1, <2>2, <2>3 DEF CorpusIsSound, RequestsAreKept
<1> QED BY <1>1, RequestsStayFiled, PTL

\* The approved rows of review_candidates keep their places, superseded ones stay so, and
\* rejected ones are never taken back, in any order of commands, reviews and kills.
THEOREM DecisionsStand == RequestSpec => ApprovedHistoryIsKept
<1> DEFINE Kept ==
      ~truncated' =>
         /\ IsPrefix([k \in DOMAIN approved |-> approved[k].row],
                     [k \in DOMAIN approved' |-> approved'[k].row])
         /\ \A k \in DOMAIN approved :
               approved[k].status = "SUPERSEDED" => approved'[k].status = "SUPERSEDED"
         /\ RowsIn(rejected) \subseteq RowsIn(rejected')
<1>1. RequestInv /\ RequestInv' /\ [NextRequests]_requestVars => [Kept]_corpus
  <2> SUFFICES ASSUME RequestInv, RequestInv', [NextRequests]_requestVars, ~truncated', corpus' # corpus
               PROVE  /\ IsPrefix([k \in DOMAIN approved |-> approved[k].row],
                                  [k \in DOMAIN approved' |-> approved'[k].row])
                      /\ \A k \in DOMAIN approved :
                            approved[k].status = "SUPERSEDED" => approved'[k].status = "SUPERSEDED"
                      /\ RowsIn(rejected) \subseteq RowsIn(rejected')
    OBVIOUS
  <2>1. Files /\ Files' /\ Sound
    <3>1. ~truncated
      BY DEF NextRequests, Author, AddHuman, AddCorrective, StartReview, WriteApproved, WriteRejected,
             WriteInput, KillReview, KillWithinWrite, requestVars, history, corpus
    <3> QED BY <3>1 DEF RequestInv
  <2>2. Continues(approved', approved)
    <3>1. CASE WriteApproved
      <4>1. review # NoReview /\ review.at = "approved" /\ approved' = review.approved
        BY <3>1 DEF WriteApproved, NoReview
      <4> QED BY <2>1, <4>1, UnderWay DEF Deciding
    <3>2. CASE UNCHANGED approved
      <4>1. Len(approved) \in Nat
        BY <2>1 DEF Files, Filed
      <4> QED BY <3>2, <4>1 DEF Continues
    <3> QED BY <3>1, <3>2 DEF NextRequests, Author, AddHuman, AddCorrective, StartReview, WriteRejected,
               WriteInput, KillReview, KillWithinWrite, requestVars, corpus
  <2>3. RowsIn(rejected) \subseteq RowsIn(rejected')
    <3>1. CASE WriteRejected
      <4>1. review # NoReview /\ review.at = "rejected" /\ rejected' = review.rejected
        BY <3>1 DEF WriteRejected, NoReview
      <4>2. PICK R \in SUBSET Ids : Adds(rejected', rejected, R)
        BY <2>1, <4>1, UnderWay DEF Deciding
      <4>3. \A r \in RowsIn(rejected) : r \in Ids
        BY <2>1, FiledRows DEF Files, RowsIn
      <4>4. rejected \in Seq(RequestRow) /\ rejected' \in Seq(RequestRow)
        BY <2>1 DEF Files, Filed
      <4>5. ASSUME NEW r \in RowsIn(rejected) PROVE r \in RowsIn(rejected')
        <5>1. Copies(rejected, r) \in Nat /\ Copies(rejected, r) > 0
          BY <4>4, CopiesCount
        <5>2. Copies(rejected', r) = Copies(rejected, r) + One(r, R) /\ One(r, R) \in 0..1
          BY <4>2, <4>3 DEF Adds, One
        <5>3. Copies(rejected', r) > 0
          BY <5>1, <5>2
        <5> QED BY <4>4, <5>3, CopiesCount
      <4> QED BY <4>5
    <3>2. CASE UNCHANGED rejected
      BY <3>2
    <3> QED BY <3>1, <3>2 DEF NextRequests, Author, AddHuman, AddCorrective, StartReview, WriteApproved,
               WriteInput, KillReview, KillWithinWrite, requestVars, corpus
  <2>4. IsPrefix([k \in DOMAIN approved |-> approved[k].row],
                 [k \in DOMAIN approved' |-> approved'[k].row])
    <3> DEFINE s == [k \in DOMAIN approved |-> approved[k].row]
               t == [k \in DOMAIN approved' |-> approved'[k].row]
    <3>1. /\ DOMAIN approved = 1..Len(approved) /\ Len(approved) \in Nat
          /\ DOMAIN approved' = 1..Len(approved') /\ Len(approved') \in Nat
      BY <2>1 DEF Files, Filed
    <3>2. s \in Seq(Ids) /\ Len(s) = Len(approved) /\ \A k \in 1..Len(s) : s[k] = approved[k].row
      BY <2>1, <3>1, FiledRows DEF Files
    <3>3. t \in Seq(Ids) /\ Len(t) = Len(approved') /\ \A k \in 1..Len(t) : t[k] = approved'[k].row
      BY <2>1, <3>1, FiledRows DEF Files
    <3>4. Len(s) <= Len(t) /\ \A k \in 1..Len(s) : t[k] = s[k]
      <4> HIDE DEF s, t
      <4> QED BY <2>2, <3>1, <3>2, <3>3 DEF Continues
    <3> HIDE DEF s, t
    <3>5. SubSeq(s, 1, Len(s)) = SubSeq(t, 1, Len(s))
      BY <3>2, <3>3, <3>4, SubSeqProperties
    <3>6. IsPrefix(s, t)
      BY <3>4, <3>5 DEF IsPrefix
    <3> QED BY <3>6 DEF s, t
  <2> QED BY <2>2, <2>3, <2>4 DEF Continues
<1>2. []RequestInv /\ [][NextRequests]_requestVars => [][Kept]_corpus
  BY <1>1, PTL
<1> QED BY <1>2, RequestsStayFiled, PTL DEF RequestSpec, ApprovedHistoryIsKept
===============================================================================
