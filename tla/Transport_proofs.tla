--------------------------- MODULE Transport_proofs ---------------------------
(* Proofs about Transport for any number of cells, invocations and retries,   *)
(* and any assignment of providers to invocations.                            *)
EXTENDS Transport, FiniteSetTheorems, SequenceTheorems, TLAPS

\* The counter stands within its limit, and behind it only for a failure for good.
CountsAttempts(c) ==
    /\ at[c] \in {"calling", "waiting", "replied"} => retries[c] <= MaxRetries
    /\ at[c] = "exhausted" => retries[c] = MaxRetries + 1
    /\ at[c] = "replied" =>
          /\ reply[c].finish \in (Finish \ {"transport_error"}) \cup {"malformed"}
          /\ reply[c].finish = "malformed" => reply[c] = Malformed

\* The calls that were answered are the recorded ones, but for one under way.
RecordsCalls(c) ==
    /\ at[c] \in {"ready", "calling", "waiting", "exhausted", "done"} =>
          paid[c] = 1..Len(records[c])
    /\ at[c] = "replied" =>
          paid[c] = IF reply[c].finish = "http_error" THEN 1..Len(records[c])
                    ELSE 1..(Len(records[c]) + 1)
    /\ at[c] = "failed" => paid[c] = 1..(Len(records[c]) - 1)
    /\ at[c] = "raised" => \E n \in Nat \ {0} : paid[c] = 1..n

Answered(c, k) == \A i \in 1..k : ~IsFailure(records[c][i].finish)

\* A failure is the last record of its cell, and the row says so.
EndsAtFailure(c) ==
    /\ at[c] \in {"ready", "calling", "waiting", "replied", "exhausted"} =>
          row[c] = "none" /\ Answered(c, Len(records[c]))
    /\ at[c] = "done" => row[c] = "ok" /\ Answered(c, Len(records[c]))
    /\ at[c] = "raised" => row[c] = "harness" /\ records[c] = <<>>
    /\ at[c] = "failed" =>
          /\ row[c] = "provider" /\ Len(records[c]) > 0
          /\ IsFailure(records[c][Len(records[c])].finish)
          /\ Answered(c, Len(records[c]) - 1)

CellInv(c) == CountsAttempts(c) /\ RecordsCalls(c) /\ EndsAtFailure(c)

Verdict ==
    summary # NoSummary =>
        /\ \A c \in Cells : row[c] # "none"
        /\ summary.healthy => \A c \in Cells : row[c] # "harness"

IInv == TypeOK /\ (\A c \in Cells : CellInv(c)) /\ Verdict

Here(c) == <<at[c], retries[c], reply[c], records[c], row[c], paid[c]>>

\* The steps of one thread are invisible to the others.
LEMMA ThreadsAreSeparate ==
  ASSUME TypeOK, NEW c \in Cells, Step(c)
  PROVE  UNCHANGED summary /\ \A d \in Cells : d # c => UNCHANGED Here(d)
BY DEF TypeOK, Step, Begin, Attempt, AttemptFails, AttemptReplies, Retry, Conclude, Raise,
       EndCell, Goto, Pay, Here, callVars

\* What comes of one attempt that reached the provider.
LEMMA RepliesAreTyped ==
  ASSUME NEW p, NEW s \in Sent, CallOnce(p, s) # Unreached
  PROVE  /\ CallOnce(p, s) \in Reply
         /\ CallOnce(p, s).finish \in (Finish \ {"transport_error"}) \cup {"malformed"}
         /\ CallOnce(p, s).finish = "malformed" => CallOnce(p, s) = Malformed
         /\ CallOnce(p, s).finish = "http_error" <=> s.status # "200"
BY DEF CallOnce, Unreached, Malformed, CutReason, Sent, Reply, Finish, Retriable

LEMMA RecordsAreTyped ==
  ASSUME TypeOK, NEW c \in Cells, CellInv(c), Concluding(c)
  PROVE  /\ RecordOf(c) \in Record
         /\ IsFailure(RecordOf(c).finish) <=> at[c] = "exhausted" \/ reply[c].finish = "http_error"
<1>1. retries[c] \in 0..(MaxRetries + 1) /\ reply[c] \in Reply
  BY DEF TypeOK
<1>2. CASE at[c] = "exhausted"
  BY <1>1, <1>2 DEF RecordOf, Record, Finish, IsFailure
<1>3. CASE at[c] = "replied" /\ reply[c] # Malformed
  <2>1. reply[c].finish \in Finish \ {"transport_error"} /\ reply[c].content \in BOOLEAN
    BY <1>1, <1>3 DEF CellInv, CountsAttempts, Reply
  <2>2. RecordOf(c) = [finish  |-> reply[c].finish,
                       retries |-> retries[c],
                       parse   |-> IF IsFailure(reply[c].finish) THEN "error"
                                   ELSE IF ~reply[c].content THEN "empty"
                                   ELSE "ok"]
    BY <1>3 DEF RecordOf
  <2> QED
    BY <1>1, <1>3, <2>1, <2>2 DEF Record, IsFailure
<1> QED
  BY <1>2, <1>3 DEF Concluding

LEMMA TypeOKStep ==
  ASSUME TypeOK, \A c \in Cells : CellInv(c), [Next]_vars
  PROVE  TypeOK'
<1> USE TransportAssumption DEF TypeOK
<1>1. ASSUME NEW c \in Cells, Begin(c) PROVE TypeOK'
  BY <1>1 DEF Begin, Goto, Place, Unreached, Reply
<1>2. ASSUME NEW c \in Cells, NEW s \in Sent, AttemptFails(c, s) PROVE TypeOK'
  <2>1. retries[c] + 1 \in 0..(MaxRetries + 1)
    BY <1>2 DEF AttemptFails, CellInv, CountsAttempts
  <2>2. log' \subseteq [cell : Cells, call : Nat, attempt : Nat]
    <3>1. Call(c) \in Nat /\ retries[c] \in Nat
      BY DEF Call
    <3> QED
      BY <1>2, <3>1 DEF AttemptFails, LogAttempt
  <2> QED
    BY <1>2, <2>1, <2>2 DEF AttemptFails, Goto, Place
<1>3. ASSUME NEW c \in Cells, NEW s \in Sent, AttemptReplies(c, s) PROVE TypeOK'
  <2>1. reply' \in [Cells -> Reply]
    BY <1>3, RepliesAreTyped DEF AttemptReplies
  <2>2. paid' \in [Cells -> SUBSET Nat]
    <3>1. Call(c) \in Nat
      BY DEF Call
    <3> QED
      BY <1>3, <3>1 DEF AttemptReplies, Pay
  <2> QED
    BY <1>3, <2>1, <2>2 DEF AttemptReplies, Goto, Place
<1>4. ASSUME NEW c \in Cells, Retry(c) PROVE TypeOK'
  BY <1>4 DEF Retry, Goto, Place
<1>5. ASSUME NEW c \in Cells, Conclude(c) PROVE TypeOK'
  <2>1. Append(records[c], RecordOf(c)) \in Seq(Record)
    BY <1>5, RecordsAreTyped DEF Conclude
  <2>2. records' = [records EXCEPT ![c] = Append(records[c], RecordOf(c))]
    BY <1>5 DEF Conclude
  <2>3. records' \in [Cells -> Seq(Record)]
    BY <2>1, <2>2
  <2> QED
    BY <1>5, <2>3 DEF Conclude, Goto, Place, Outcome, callVars
<1>6. ASSUME NEW c \in Cells, Raise(c) PROVE TypeOK'
  BY <1>6 DEF Raise, Goto, Place, Outcome, callVars
<1>7. ASSUME NEW c \in Cells, EndCell(c) PROVE TypeOK'
  BY <1>7 DEF EndCell, Goto, Place, Outcome, callVars
<1>8. CASE Summarise
  BY <1>8 DEF Summarise, HealthOf, StatusOf, Status, callVars
<1>9. CASE UNCHANGED vars
  BY <1>9 DEF vars, callVars
<1> QED
  BY <1>1, <1>2, <1>3, <1>4, <1>5, <1>6, <1>7, <1>8, <1>9 DEF Next, Step, Attempt

\* Appending a record keeps the others.
LEMMA AppendKeeps ==
  ASSUME TypeOK, NEW c \in Cells, NEW e \in Record,
         records' = [records EXCEPT ![c] = Append(records[c], e)]
  PROVE  /\ Len(records[c]) \in Nat /\ Len(records'[c]) = Len(records[c]) + 1
         /\ records'[c][Len(records[c]) + 1] = e
         /\ \A i \in 1..Len(records[c]) : records'[c][i] = records[c][i]
<1>1. records[c] \in Seq(Record) /\ records'[c] = Append(records[c], e)
  BY DEF TypeOK
<1> QED
  BY <1>1

LEMMA CellInvStep ==
  ASSUME TypeOK, TypeOK', \A c \in Cells : CellInv(c), NEW c \in Cells, Step(c)
  PROVE  CellInv(c)'
<1> USE TransportAssumption
<1>0. /\ Len(records[c]) \in Nat /\ retries[c] \in Nat /\ MaxRetries \in Nat
      /\ CellInv(c)
      /\ at \in [Cells -> Place] /\ DOMAIN retries = Cells /\ DOMAIN reply = Cells
      /\ DOMAIN records = Cells /\ DOMAIN row = Cells /\ DOMAIN paid = Cells
  BY DEF TypeOK
<1> USE DEF CellInv, CountsAttempts, RecordsCalls, EndsAtFailure, Answered
<1>1. CASE Begin(c)
  BY <1>0, <1>1 DEF Begin, Goto
<1>2. ASSUME NEW s \in Sent, AttemptFails(c, s) PROVE CellInv(c)'
  <2>1. /\ at[c] = "calling" /\ retries'[c] = retries[c] + 1
        /\ at'[c] = IF retries[c] + 1 > MaxRetries THEN "exhausted" ELSE "waiting"
        /\ UNCHANGED <<reply, records, row, paid>>
    BY <1>0, <1>2 DEF AttemptFails, Goto
  <2> QED
    BY <1>0, <2>1
<1>3. ASSUME NEW s \in Sent, AttemptReplies(c, s) PROVE CellInv(c)'
  <2>1. /\ at[c] = "calling" /\ at'[c] = "replied"
        /\ reply'[c] = CallOnce(ProviderOf[Call(c)], s)
        /\ paid'[c] = IF s.status = "200" THEN paid[c] \cup {Len(records[c]) + 1} ELSE paid[c]
        /\ UNCHANGED <<retries, records, row>>
        /\ CallOnce(ProviderOf[Call(c)], s) # Unreached
    BY <1>0, <1>3 DEF AttemptReplies, Goto, Pay, Call
  <2>2. CountsAttempts(c)'
    BY <1>0, <2>1, RepliesAreTyped
  <2>3. RecordsCalls(c)'
    <3>1. 1..(Len(records[c]) + 1) = (1..Len(records[c])) \cup {Len(records[c]) + 1}
      BY <1>0
    <3>2. reply'[c].finish = "http_error" <=> s.status # "200"
      BY <2>1, RepliesAreTyped
    <3> QED
      BY <1>0, <2>1, <3>1, <3>2
  <2>4. EndsAtFailure(c)'
    BY <1>0, <2>1
  <2> QED
    BY <2>2, <2>3, <2>4
<1>4. CASE Retry(c)
  BY <1>0, <1>4 DEF Retry, Goto
<1>5. CASE Conclude(c)
  <2>1. /\ Concluding(c) /\ records' = [records EXCEPT ![c] = Append(records[c], RecordOf(c))]
        /\ UNCHANGED <<retries, reply, paid>>
        /\ IF IsFailure(RecordOf(c).finish)
           THEN at'[c] = "failed" /\ row'[c] = "provider"
           ELSE at'[c] = "ready" /\ row'[c] = row[c]
    BY <1>0, <1>5 DEF Conclude, Goto, callVars
  <2>2. /\ Len(records'[c]) = Len(records[c]) + 1
        /\ records'[c][Len(records[c]) + 1] = RecordOf(c)
        /\ \A i \in 1..Len(records[c]) : records'[c][i] = records[c][i]
        /\ (IsFailure(RecordOf(c).finish)
              <=> at[c] = "exhausted" \/ reply[c].finish = "http_error")
    BY <2>1, AppendKeeps, RecordsAreTyped
  <2>3. at[c] \in {"replied", "exhausted"}
    BY <2>1 DEF Concluding
  <2>4. Answered(c, Len(records[c]))
    BY <1>0, <2>3
  <2>5. CASE IsFailure(RecordOf(c).finish)
    <3>1. paid[c] = 1..Len(records[c])
      BY <1>0, <2>2, <2>3, <2>5
    <3>2. at'[c] = "failed" /\ row'[c] = "provider"
      BY <2>1, <2>5
    <3>3. RecordsCalls(c)'
      BY <1>0, <2>1, <2>2, <3>1, <3>2
    <3>4. EndsAtFailure(c)'
      BY <1>0, <2>2, <2>4, <2>5, <3>2
    <3> QED
      BY <3>2, <3>3, <3>4
  <2>6. CASE ~IsFailure(RecordOf(c).finish)
    <3>1. paid[c] = 1..(Len(records[c]) + 1)
      BY <1>0, <2>2, <2>3, <2>6
    <3>2. at'[c] = "ready" /\ row'[c] = "none"
      BY <1>0, <2>1, <2>3, <2>6
    <3>3. RecordsCalls(c)'
      BY <1>0, <2>1, <2>2, <3>1, <3>2
    <3>4. EndsAtFailure(c)'
      BY <1>0, <2>2, <2>4, <2>6, <3>2
    <3> QED
      BY <3>2, <3>3, <3>4
  <2> QED
    BY <2>5, <2>6
<1>6. CASE Raise(c)
  <2>1. /\ at[c] = "replied" /\ reply[c].finish = "malformed" /\ at'[c] = "raised"
        /\ records'[c] = <<>> /\ row'[c] = "harness" /\ paid' = paid
    BY <1>0, <1>6 DEF Raise, Goto, Malformed
  <2>2. paid[c] = 1..(Len(records[c]) + 1) /\ Len(records[c]) + 1 \in Nat \ {0}
    BY <1>0, <2>1
  <2> QED
    BY <2>1, <2>2
<1>7. CASE EndCell(c)
  BY <1>0, <1>7 DEF EndCell, Goto, callVars
<1> QED
  BY <1>1, <1>2, <1>3, <1>4, <1>5, <1>6, <1>7 DEF Step, Attempt

LEMMA VerdictStep ==
  ASSUME IInv, IInv', [Next]_vars, summary # NoSummary
  PROVE  UNCHANGED <<summary, records, row, at>>
<1>1. \A c \in Cells : at[c] \in {"failed", "raised", "done"}
  BY DEF IInv, Verdict, TypeOK, Place, CellInv, EndsAtFailure
<1>2. \A c \in Cells : ~Step(c)
  BY <1>1 DEF Step, Begin, Attempt, AttemptFails, AttemptReplies, Retry, Conclude,
        Concluding, Raise, EndCell
<1> QED
  BY <1>2 DEF Next, Summarise, vars

\* Every step keeps the invariant.
LEMMA Preservation ==
  ASSUME IInv, [Next]_vars
  PROVE  IInv'
<1>1. TypeOK'
  BY TypeOKStep DEF IInv
<1>2. ASSUME NEW c \in Cells, Step(c) PROVE IInv'
  <2>1. ASSUME NEW d \in Cells, d # c PROVE CellInv(d)'
    <3>1. UNCHANGED Here(d)
      BY <1>2, <2>1, ThreadsAreSeparate DEF IInv
    <3> QED
      BY <3>1 DEF Here, IInv, CellInv, CountsAttempts, RecordsCalls, EndsAtFailure, Answered
  <2>2. CellInv(c)'
    BY <1>1, <1>2, CellInvStep DEF IInv
  <2>3. summary' = summary
    BY <1>2, ThreadsAreSeparate DEF IInv
  <2>4. summary = NoSummary
    <3> SUFFICES ASSUME summary # NoSummary PROVE FALSE
      OBVIOUS
    <3>1. at[c] \in {"failed", "raised", "done"}
      BY DEF IInv, Verdict, TypeOK, Place, CellInv, EndsAtFailure
    <3> QED
      BY <1>2, <3>1 DEF Step, Begin, Attempt, AttemptFails, AttemptReplies, Retry, Conclude,
            Concluding, Raise, EndCell
  <2> QED
    BY <1>1, <2>1, <2>2, <2>3, <2>4 DEF IInv, Verdict
<1>3. CASE Summarise
  <2>1. /\ UNCHANGED <<at, retries, reply, records, row, paid>>
        /\ \A c \in Cells : row[c] # "none"
        /\ summary' = HealthOf({row[c] : c \in Cells}, {KindOf(r) : r \in Traced})
    BY <1>3 DEF Summarise, callVars
  <2>2. summary'.healthy => \A c \in Cells : row[c] # "harness"
    BY <2>1 DEF HealthOf
  <2>3. \A c \in Cells : CellInv(c)'
    BY <2>1 DEF IInv, CellInv, CountsAttempts, RecordsCalls, EndsAtFailure, Answered
  <2> QED
    BY <1>1, <2>1, <2>2, <2>3 DEF IInv, Verdict
<1>4. CASE UNCHANGED vars
  BY <1>1, <1>4 DEF vars, callVars, IInv, CellInv, CountsAttempts, RecordsCalls,
        EndsAtFailure, Answered, Verdict
<1> QED
  BY <1>2, <1>3, <1>4 DEF Next

\* Counters, records, rows and the verdict agree in every state (providers/base.py,
\* invoke; runner.py, _invoke; run.py, _run_one).
THEOREM Invariance == Spec => []IInv
<1>1. Init => IInv
  <2> SUFFICES ASSUME Init PROVE IInv
    OBVIOUS
  <2>1. TypeOK
    BY TransportAssumption
       DEF Init, TypeOK, Place, Reply, Unreached, NoSummary, Outcome
  <2>2. ASSUME NEW c \in Cells PROVE CellInv(c)
    BY DEF Init, CellInv, CountsAttempts, RecordsCalls, EndsAtFailure, Answered
  <2> QED
    BY <2>1, <2>2 DEF Init, IInv, Verdict
<1>2. IInv /\ [Next]_vars => IInv'
  BY Preservation
<1> QED
  BY <1>1, <1>2, PTL DEF Spec

\* Every variable of the invocations keeps its type, for any number of cells, calls
\* and retries (providers/base.py, invoke; run.py, execute_run).
THEOREM TypeCorrect == Spec => []TypeOK
<1>1. IInv => TypeOK
  BY DEF IInv
<1> QED
  BY <1>1, Invariance, PTL

\* No cell calls a provider behind a failure for good, and its row says so
\* (runner.py, _invoke raises ProviderInvocationFailure).
THEOREM FailuresEndCells == Spec => []FailureEndsTheCell
<1>1. ASSUME IInv, NEW c \in Cells
      PROVE  /\ \A i \in 1..(Len(records[c]) - 1) : ~ IsFailure(records[c][i].finish)
             /\ row[c] = "provider" <=>
                   records[c] # <<>> /\ IsFailure(records[c][Len(records[c])].finish)
  <2>1. records[c] \in Seq(Record) /\ Len(records[c]) \in Nat /\ at[c] \in Place
    BY <1>1 DEF IInv, TypeOK
  <2>2. CellInv(c)
    BY <1>1 DEF IInv
  <2>3. CASE at[c] = "failed"
    BY <2>1, <2>2, <2>3 DEF CellInv, EndsAtFailure, Answered
  <2>4. CASE at[c] = "raised"
    BY <2>1, <2>2, <2>4 DEF CellInv, EndsAtFailure
  <2>5. CASE at[c] \notin {"failed", "raised"}
    <3>1. Answered(c, Len(records[c])) /\ row[c] # "provider"
      BY <2>1, <2>2, <2>5 DEF CellInv, EndsAtFailure, Place
    <3>2. records[c] # <<>> => Len(records[c]) \in 1..Len(records[c])
      BY <2>1
    <3> QED
      BY <2>1, <3>1, <3>2 DEF Answered
  <2> QED
    BY <2>3, <2>4, <2>5
<1>2. IInv => FailureEndsTheCell
  BY <1>1 DEF FailureEndsTheCell
<1> QED
  BY <1>2, Invariance, PTL

\* A healthy run has a record for every call that was answered (run.py, _run_one
\* and summarize_run_health).
THEOREM HealthyRunsAreTraced == Spec => []HealthyRunsTraceWhatTheyPaid
<1>1. IInv => HealthyRunsTraceWhatTheyPaid
  <2> SUFFICES ASSUME IInv, summary.healthy, NEW c \in Cells, NEW i \in paid[c]
               PROVE  i <= Len(records[c])
    BY DEF HealthyRunsTraceWhatTheyPaid
  <2>1. summary # NoSummary
    BY DEF NoSummary
  <2>2. at[c] \in {"failed", "done"}
    BY <2>1 DEF IInv, Verdict, TypeOK, Place, CellInv, EndsAtFailure
  <2>3. Len(records[c]) \in Nat
    BY DEF IInv, TypeOK
  <2> QED
    BY <2>2, <2>3 DEF IInv, CellInv, RecordsCalls
<1> QED
  BY <1>1, Invariance, PTL

\* A published verdict and what it was made of stay (run.py, summarize_run_health).
THEOREM VerdictsAreFinal == Spec => VerdictIsFinal
<1>1. IInv /\ IInv' /\ [Next]_vars
        => [summary # NoSummary => UNCHANGED <<summary, records, row>>]_vars
  BY VerdictStep
<1> QED
  BY <1>1, Invariance, PTL DEF Spec, VerdictIsFinal
--------------------------------------------------------------------------------
(* The log of failed attempts, which all threads share.                       *)

Underway == {"calling", "waiting", "replied", "exhausted"}

\* The log holds the attempts of the invocations so far and none of a later one.
LogInv(c) ==
    /\ \A i \in 1..Len(records[c]) :
          /\ FailedAttempts(c, i) = 0..(records[c][i].retries - 1)
          /\ (records[c][i].retries > MaxRetries <=> records[c][i].finish = "transport_error")
    /\ at[c] \in Underway => FailedAttempts(c, Len(records[c]) + 1) = 0..(retries[c] - 1)
    /\ at[c] = "ready" => FailedAttempts(c, Len(records[c]) + 1) = {}
    /\ at[c] # "raised" =>
          \A i \in Nat : i > Len(records[c]) + 1 => FailedAttempts(c, i) = {}

LEMMA LogInvStep ==
  ASSUME IInv, IInv', NEW c \in Cells, Step(c), LogInv(c)
  PROVE  LogInv(c)'
<1> USE TransportAssumption
<1>0. /\ Len(records[c]) \in Nat /\ retries[c] \in Nat /\ CellInv(c)
      /\ at \in [Cells -> Place] /\ DOMAIN retries = Cells /\ DOMAIN records = Cells
  BY DEF IInv, TypeOK
<1>a. log' = log => \A i : FailedAttempts(c, i)' = FailedAttempts(c, i)
  BY DEF FailedAttempts
<1>1. CASE Begin(c)
  <2>1. at[c] = "ready" /\ at'[c] = "calling" /\ retries'[c] = 0 /\ UNCHANGED <<records, log>>
    BY <1>0, <1>1 DEF Begin, Goto
  <2>2. 0..(retries'[c] - 1) = {}
    BY <2>1
  <2> QED
    BY <1>a, <2>1, <2>2 DEF LogInv, Underway
<1>2. ASSUME NEW s \in Sent, AttemptFails(c, s) PROVE LogInv(c)'
  <2>1. /\ at[c] = "calling" /\ retries'[c] = retries[c] + 1 /\ records' = records
        /\ at'[c] \in {"exhausted", "waiting"}
        /\ log' = log \cup {[cell |-> c, call |-> Len(records[c]) + 1, attempt |-> retries[c]]}
    BY <1>0, <1>2 DEF AttemptFails, Goto, LogAttempt, Call
  <2>2. /\ FailedAttempts(c, Len(records[c]) + 1)'
             = FailedAttempts(c, Len(records[c]) + 1) \cup {retries[c]}
        /\ \A i : i # Len(records[c]) + 1 => FailedAttempts(c, i)' = FailedAttempts(c, i)
    <3>1. ASSUME NEW call, call = Len(records[c]) + 1
          PROVE  /\ FailedAttempts(c, call)' = FailedAttempts(c, call) \cup {retries[c]}
                 /\ \A i : i # call => FailedAttempts(c, i)' = FailedAttempts(c, i)
      <4>1. PICK new : /\ log' = log \cup {new}
                       /\ new.cell = c /\ new.call = call /\ new.attempt = retries[c]
        <5> DEFINE entry == [cell |-> c, call |-> call, attempt |-> retries[c]]
        <5>1. entry.cell = c /\ entry.call = call /\ entry.attempt = retries[c]
          OBVIOUS
        <5>2. log' = log \cup {entry}
          BY <2>1, <3>1
        <5> HIDE DEF entry
        <5> QED
          BY <5>1, <5>2
      <4>2. {f \in log' : f.cell = c /\ f.call = call}
              = {f \in log : f.cell = c /\ f.call = call} \cup {new}
        BY <4>1
      <4>3. ASSUME NEW i, i # call
            PROVE  {f \in log' : f.cell = c /\ f.call = i} = {f \in log : f.cell = c /\ f.call = i}
        BY <4>1, <4>3
      <4> QED
        BY <4>1, <4>2, <4>3 DEF FailedAttempts
    <3> QED
      BY <2>1, <3>1
  <2>3. 0..(retries'[c] - 1) = (0..(retries[c] - 1)) \cup {retries[c]}
    BY <1>0, <2>1
  <2>4. \A i \in 1..Len(records[c]) : FailedAttempts(c, i)' = FailedAttempts(c, i)
    BY <1>0, <2>2
  <2>5. \A i \in Nat : i > Len(records[c]) + 1 => FailedAttempts(c, i)' = FailedAttempts(c, i)
    BY <1>0, <2>2
  <2>6. FailedAttempts(c, Len(records[c]) + 1)' = 0..(retries'[c] - 1)
    BY <2>1, <2>2, <2>3 DEF LogInv, Underway
  <2> QED
    BY <2>1, <2>4, <2>5, <2>6 DEF LogInv, Underway
<1>3. ASSUME NEW s \in Sent, AttemptReplies(c, s) PROVE LogInv(c)'
  <2>1. /\ at[c] = "calling" /\ at'[c] = "replied" /\ UNCHANGED <<retries, records, log>>
    BY <1>0, <1>3 DEF AttemptReplies, Goto
  <2> QED
    BY <1>a, <2>1 DEF LogInv, Underway
<1>4. CASE Retry(c)
  <2>1. /\ at[c] = "waiting" /\ at'[c] = "calling" /\ UNCHANGED <<retries, records, log>>
    BY <1>0, <1>4 DEF Retry, Goto
  <2> QED
    BY <1>a, <2>1 DEF LogInv, Underway
<1>5. CASE Conclude(c)
  <2>1. /\ Concluding(c) /\ UNCHANGED <<retries, log>> /\ at'[c] \in {"failed", "ready"}
        /\ records' = [records EXCEPT ![c] = Append(records[c], RecordOf(c))]
    BY <1>0, <1>5 DEF Conclude, Goto, callVars
  <2>2. /\ Len(records'[c]) = Len(records[c]) + 1
        /\ records'[c][Len(records[c]) + 1] = RecordOf(c)
        /\ \A i \in 1..Len(records[c]) : records'[c][i] = records[c][i]
    BY <2>1, <1>0, AppendKeeps, RecordsAreTyped DEF IInv
  <2>3. at[c] \in Underway \ {"calling", "waiting"}
    BY <2>1 DEF Concluding, Underway
  <2>4. /\ RecordOf(c).retries = retries[c]
        /\ (retries[c] > MaxRetries <=> RecordOf(c).finish = "transport_error")
    BY <1>0, <2>1 DEF RecordOf, Concluding, CellInv, CountsAttempts
  <2>5. ASSUME NEW i \in 1..Len(records'[c])
        PROVE  /\ FailedAttempts(c, i)' = 0..(records'[c][i].retries - 1)
               /\ (records'[c][i].retries > MaxRetries
                     <=> records'[c][i].finish = "transport_error")
    <3>1. CASE i \in 1..Len(records[c])
      BY <1>a, <2>1, <2>2, <3>1 DEF LogInv
    <3>2. CASE i = Len(records[c]) + 1
      BY <1>a, <2>1, <2>2, <2>3, <2>4, <3>2 DEF LogInv
    <3> QED
      BY <1>0, <2>2, <3>1, <3>2
  <2>6. ASSUME NEW i \in Nat, i > Len(records[c]) + 1 PROVE FailedAttempts(c, i)' = {}
    BY <1>a, <2>1, <2>3, <2>6 DEF LogInv, Underway
  <2>7. Len(records'[c]) + 1 \in Nat /\ Len(records'[c]) + 1 > Len(records[c]) + 1
    BY <1>0, <2>2
  <2>8. \A i \in Nat : i > Len(records'[c]) + 1 => i > Len(records[c]) + 1
    BY <1>0, <2>2
  <2> QED
    BY <2>1, <2>5, <2>6, <2>7, <2>8 DEF LogInv, Underway
<1>6. CASE Raise(c)
  <2>1. at'[c] = "raised" /\ records'[c] = <<>>
    BY <1>0, <1>6 DEF Raise, Goto
  <2> QED
    BY <2>1 DEF LogInv, Underway
<1>7. CASE EndCell(c)
  <2>1. at[c] = "ready" /\ at'[c] = "done" /\ UNCHANGED <<records, log>>
    BY <1>0, <1>7 DEF EndCell, Goto, callVars
  <2> QED
    BY <1>a, <2>1 DEF LogInv, Underway
<1> QED
  BY <1>1, <1>2, <1>3, <1>4, <1>5, <1>6, <1>7 DEF Step, Attempt

LEMMA LogIsShared ==
  ASSUME IInv, NEW c \in Cells, Step(c), NEW d \in Cells, d # c
  PROVE  \A i : FailedAttempts(d, i)' = FailedAttempts(d, i)
<1>1. CASE log' = log
  BY <1>1 DEF FailedAttempts
<1>2. ASSUME NEW s \in Sent, AttemptFails(c, s)
      PROVE  \A i : FailedAttempts(d, i)' = FailedAttempts(d, i)
  <2>1. log' = log \cup {[cell |-> c, call |-> Call(c), attempt |-> retries[c]]}
    BY <1>2 DEF AttemptFails, LogAttempt
  <2> QED
    BY <2>1 DEF FailedAttempts
<1> QED
  BY <1>1, <1>2 DEF Step, Begin, Attempt, AttemptReplies, Retry, Conclude, Raise, EndCell, callVars

\* The retries a record gives are those the shared log holds, however the threads
\* interleave (providers/base.py, invoke and attempt_log).
THEOREM RetriesAreLogged == Spec => []RetriesAreAccounted
<1> DEFINE Logged == \A c \in Cells : LogInv(c)
<1>1. Init => Logged
  BY DEF Init, LogInv, Underway, FailedAttempts
<1>2. IInv /\ IInv' /\ Logged /\ [Next]_vars => Logged'
  <2> SUFFICES ASSUME IInv, IInv', Logged, [Next]_vars PROVE Logged'
    OBVIOUS
  <2>1. ASSUME NEW c \in Cells, Step(c), NEW d \in Cells PROVE LogInv(d)'
    <3>1. CASE d = c
      BY <2>1, <3>1, LogInvStep
    <3>2. CASE d # c
      <4>1. UNCHANGED Here(d) /\ \A i : FailedAttempts(d, i)' = FailedAttempts(d, i)
        BY <2>1, <3>2, ThreadsAreSeparate, LogIsShared DEF IInv
      <4> QED
        BY <4>1 DEF Here, LogInv
    <3> QED
      BY <3>1, <3>2
  <2>2. CASE UNCHANGED <<at, records, retries, log>>
    BY <2>2 DEF LogInv, FailedAttempts
  <2> QED
    BY <2>1, <2>2 DEF Next, Summarise, vars, callVars
<1>3. Logged => RetriesAreAccounted
  BY DEF LogInv, RetriesAreAccounted
<1> QED
  BY <1>1, <1>2, <1>3, Invariance, PTL DEF Spec
--------------------------------------------------------------------------------
(* Refinement of Invocations.                                                 *)

TriesOf(c) ==
    CASE at[c] \in {"calling", "waiting", "exhausted"} -> retries[c]
      [] at[c] = "replied" -> retries[c] + 1
      [] OTHER -> 0
EndsOf(c) ==
    IF at[c] = "raised"
    THEN [i \in 1..Cardinality(paid[c]) |->
            IF i < Cardinality(paid[c]) THEN "answer" ELSE "exception"]
    ELSE [i \in 1..Len(records[c]) |->
            IF IsFailure(records[c][i].finish) THEN "failure" ELSE "answer"]
OverOf(c) == at[c] \in {"failed", "raised", "done"}

Tries == [c \in Cells |-> TriesOf(c)]
EndsSoFar == [c \in Cells |-> EndsOf(c)]
Over == [c \in Cells |-> OverOf(c)]

\* A step of one thread changes what is promised to its cell and to no other.
LEMMA PromiseFrame ==
  ASSUME IInv, NEW c \in Cells, Step(c)
  PROVE  /\ Tries' = [Tries EXCEPT ![c] = TriesOf(c)']
         /\ EndsSoFar' = [EndsSoFar EXCEPT ![c] = EndsOf(c)']
         /\ Over' = [Over EXCEPT ![c] = OverOf(c)']
<1>1. ASSUME NEW d \in Cells, d # c
      PROVE  TriesOf(d)' = TriesOf(d) /\ EndsOf(d)' = EndsOf(d) /\ OverOf(d)' = OverOf(d)
  <2>1. UNCHANGED Here(d)
    BY <1>1, ThreadsAreSeparate DEF IInv
  <2> QED
    BY <2>1 DEF Here, TriesOf, EndsOf, OverOf
<1> QED
  BY <1>1 DEF Tries, EndsSoFar, Over

LEMMA AppendIsPointwise ==
  ASSUME NEW S, NEW s \in Seq(S), NEW e \in S
  PROVE  Append(s, e) = [i \in 1..(Len(s) + 1) |-> IF i = Len(s) + 1 THEN e ELSE s[i]]
<1>1. /\ Append(s, e) \in Seq(S) /\ Len(Append(s, e)) = Len(s) + 1
      /\ \A i \in 1..Len(s) : Append(s, e)[i] = s[i]
      /\ Append(s, e)[Len(s) + 1] = e
  BY AppendProperties
<1>2. Append(s, e) \in [1..(Len(s) + 1) -> S] /\ Len(s) \in Nat
  BY <1>1, LenProperties
<1>3. \A i \in 1..(Len(s) + 1) : Append(s, e)[i] = IF i = Len(s) + 1 THEN e ELSE s[i]
  BY <1>1, <1>2
<1> HIDE <1>1
<1> DEFINE t == Append(s, e)
<1> HIDE DEF t
<1>4. t \in [1..(Len(s) + 1) -> S]
      /\ \A i \in 1..(Len(s) + 1) : t[i] = IF i = Len(s) + 1 THEN e ELSE s[i]
  BY <1>2, <1>3 DEF t
<1>5. t = [i \in 1..(Len(s) + 1) |-> IF i = Len(s) + 1 THEN e ELSE s[i]]
  BY <1>4
<1> QED
  BY <1>5 DEF t

\* A cell's ends grow by one at the end of an invocation.
LEMMA EndsGrow ==
  ASSUME IInv, NEW c \in Cells, NEW e \in {"answer", "failure", "exception"},
         NEW seq, seq = [i \in 1..(Len(records[c]) + 1) |->
                           IF i = Len(records[c]) + 1 THEN e ELSE EndsOf(c)[i]],
         at[c] # "raised"
  PROVE  seq = Append(EndsOf(c), e)
<1>1. Len(records[c]) \in Nat
  BY DEF IInv, TypeOK
<1>2. EndsOf(c) \in [1..Len(records[c]) -> {"answer", "failure"}]
  BY DEF EndsOf
<1>3. EndsOf(c) \in Seq({"answer", "failure", "exception"}) /\ Len(EndsOf(c)) = Len(records[c])
  BY <1>1, <1>2
<1>4. Append(EndsOf(c), e) = [i \in 1..(Len(records[c]) + 1) |->
                                IF i = Len(records[c]) + 1 THEN e ELSE EndsOf(c)[i]]
  <2>1. Append(EndsOf(c), e) = [i \in 1..(Len(EndsOf(c)) + 1) |->
                                  IF i = Len(EndsOf(c)) + 1 THEN e ELSE EndsOf(c)[i]]
    BY <1>3, AppendIsPointwise
  <2> QED
    BY <1>3, <2>1
<1> QED
  BY <1>4

LEMMA ConcludeEnds ==
  ASSUME IInv, IInv', NEW c \in Cells, Conclude(c)
  PROVE  /\ TriesOf(c) > 0 /\ TriesOf(c)' = 0 /\ ~OverOf(c)
         /\ \E e \in {"answer", "failure"} :
               EndsOf(c)' = Append(EndsOf(c), e) /\ OverOf(c)' = (e # "answer")
<1>0. /\ TypeOK /\ CellInv(c) /\ MaxRetries \in Nat /\ Concluding(c)
      /\ retries[c] \in Nat /\ Len(records[c]) \in Nat
  BY TransportAssumption DEF IInv, TypeOK, Conclude
<1>1. at[c] \in {"exhausted", "replied"}
  BY <1>0 DEF Concluding
<1>2. TriesOf(c) > 0 /\ ~OverOf(c)
  BY <1>0, <1>1 DEF TriesOf, OverOf, CellInv, CountsAttempts
<1> DEFINE e == IF IsFailure(RecordOf(c).finish) THEN "failure" ELSE "answer"
<1>3. at'[c] = IF e = "failure" THEN "failed" ELSE "ready"
  BY DEF Conclude, Goto, IInv, TypeOK
<1>4. TriesOf(c)' = 0 /\ OverOf(c)' = (e # "answer")
  BY <1>3 DEF TriesOf, OverOf
<1>5. /\ Len(records'[c]) = Len(records[c]) + 1
      /\ records'[c][Len(records[c]) + 1] = RecordOf(c)
      /\ \A i \in 1..Len(records[c]) : records'[c][i] = records[c][i]
  BY <1>0, RecordsAreTyped, AppendKeeps DEF Conclude
<1>6. EndsOf(c)' = [i \in 1..(Len(records[c]) + 1) |->
                      IF i = Len(records[c]) + 1 THEN e ELSE EndsOf(c)[i]]
  <2>1. EndsOf(c)' = [i \in 1..(Len(records[c]) + 1) |->
                        IF IsFailure(records'[c][i].finish) THEN "failure" ELSE "answer"]
    BY <1>3, <1>5 DEF EndsOf, IsFailure
  <2>2. EndsOf(c) = [i \in 1..Len(records[c]) |->
                       IF IsFailure(records[c][i].finish) THEN "failure" ELSE "answer"]
    BY <1>1 DEF EndsOf
  <2>3. ASSUME NEW i \in 1..(Len(records[c]) + 1)
        PROVE  (IF IsFailure(records'[c][i].finish) THEN "failure" ELSE "answer")
                 = IF i = Len(records[c]) + 1 THEN e ELSE EndsOf(c)[i]
    BY <1>0, <1>5, <2>2
  <2> QED
    BY <2>1, <2>3
<1>7. EndsOf(c)' = Append(EndsOf(c), e)
  BY <1>1, <1>6, EndsGrow
<1> QED
  BY <1>2, <1>4, <1>7

LEMMA RaiseEnds ==
  ASSUME IInv, IInv', NEW c \in Cells, Raise(c)
  PROVE  /\ TriesOf(c) > 0 /\ TriesOf(c)' = 0 /\ ~OverOf(c) /\ OverOf(c)'
         /\ EndsOf(c)' = Append(EndsOf(c), "exception")
<1>0. /\ CellInv(c) /\ retries[c] \in Nat /\ Len(records[c]) \in Nat
      /\ at[c] = "replied" /\ reply[c].finish = "malformed" /\ at'[c] = "raised"
      /\ paid' = paid
  BY DEF IInv, TypeOK, Raise, Goto, Malformed
<1>1. TriesOf(c) > 0 /\ TriesOf(c)' = 0 /\ ~OverOf(c) /\ OverOf(c)'
  BY <1>0 DEF TriesOf, OverOf
<1>2. paid[c] = 1..(Len(records[c]) + 1) /\ Answered(c, Len(records[c]))
  BY <1>0 DEF CellInv, RecordsCalls, EndsAtFailure
<1>3. Cardinality(paid'[c]) = Len(records[c]) + 1
  BY <1>0, <1>2, FS_Interval
<1>4. EndsOf(c)' = [i \in 1..(Len(records[c]) + 1) |->
                      IF i < Len(records[c]) + 1 THEN "answer" ELSE "exception"]
  BY <1>0, <1>3 DEF EndsOf
<1>5. \A i \in 1..Len(records[c]) : EndsOf(c)[i] = "answer"
  BY <1>0, <1>2 DEF EndsOf, Answered
<1>6. EndsOf(c)' = [i \in 1..(Len(records[c]) + 1) |->
                      IF i = Len(records[c]) + 1 THEN "exception" ELSE EndsOf(c)[i]]
  BY <1>0, <1>4, <1>5
<1> QED
  BY <1>0, <1>1, <1>6, EndsGrow

\* The retry loop is one of the behaviours the callers are promised: at most
\* MaxRetries + 1 attempts, one end for each invocation, and none behind a failure
\* or an exception (providers/base.py, invoke; runner.py, _invoke).
THEOREM RefinesInvocations == Spec => ImplementsInvocations
<1> USE TransportAssumption
<1>1. Init => Promise!Init
  <2> SUFFICES ASSUME Init PROVE Promise!Init
    OBVIOUS
  <2>1. ASSUME NEW c \in Cells
        PROVE  TriesOf(c) = 0 /\ OverOf(c) = FALSE /\ EndsOf(c) = <<>>
    <3>1. at[c] = "ready" /\ records[c] = <<>>
      BY DEF Init
    <3>2. EndsOf(c) = [i \in 1..0 |->
                         IF IsFailure(records[c][i].finish) THEN "failure" ELSE "answer"]
      BY <3>1 DEF EndsOf
    <3> QED
      BY <3>1, <3>2 DEF TriesOf, OverOf
  <2>2. /\ Tries = [c \in Cells |-> 0] /\ EndsSoFar = [c \in Cells |-> <<>>]
        /\ Over = [c \in Cells |-> FALSE]
    BY <2>1 DEF Tries, EndsSoFar, Over
  <2> QED
    BY <2>2 DEF Promise!Init, Tries, EndsSoFar, Over, TriesOf, EndsOf, OverOf
<1>2. ASSUME IInv, IInv', NEW c \in Cells, Step(c)
      PROVE  Promise!Next \/ UNCHANGED <<Tries, EndsSoFar, Over>>
  <2>0. /\ Tries' = [Tries EXCEPT ![c] = TriesOf(c)']
        /\ EndsSoFar' = [EndsSoFar EXCEPT ![c] = EndsOf(c)']
        /\ Over' = [Over EXCEPT ![c] = OverOf(c)']
        /\ Tries[c] = TriesOf(c) /\ EndsSoFar[c] = EndsOf(c) /\ Over[c] = OverOf(c)
    BY <1>2, PromiseFrame DEF Tries, EndsSoFar, Over
  <2>1. CASE /\ TriesOf(c)' = TriesOf(c) /\ EndsOf(c)' = EndsOf(c) /\ OverOf(c)' = OverOf(c)
    BY <2>0, <2>1 DEF Tries, EndsSoFar, Over
  <2>3. CASE /\ TriesOf(c) > 0 /\ TriesOf(c)' = 0 /\ ~OverOf(c)
             /\ \E e \in {"answer", "failure", "exception"} :
                   EndsOf(c)' = Append(EndsOf(c), e) /\ OverOf(c)' = (e # "answer")
    <3>1. PICK e \in {"answer", "failure", "exception"} :
                   EndsOf(c)' = Append(EndsOf(c), e) /\ OverOf(c)' = (e # "answer")
      BY <2>3
    <3>2. /\ ~Over[c] /\ Tries[c] > 0 /\ e \in Promise!Ends
          /\ Tries' = [Tries EXCEPT ![c] = 0]
          /\ EndsSoFar' = [EndsSoFar EXCEPT ![c] = Append(EndsSoFar[c], e)]
          /\ Over' = [Over EXCEPT ![c] = (e # "answer")]
      BY <2>0, <2>3, <3>1 DEF Promise!Ends
    <3> QED
      BY <3>2 DEF Promise!Next, Promise!End, Tries, EndsSoFar, Over, TriesOf, EndsOf, OverOf
  <2>4. CASE /\ TriesOf(c) = 0 /\ TriesOf(c)' = 0 /\ ~OverOf(c) /\ OverOf(c)'
             /\ EndsOf(c)' = EndsOf(c)
    <3>1. /\ ~Over[c] /\ Tries[c] = 0 /\ Tries' = Tries /\ EndsSoFar' = EndsSoFar
          /\ Over' = [Over EXCEPT ![c] = TRUE]
      <4>1. OverOf(c)' = TRUE
        BY <2>4 DEF OverOf
      <4> QED
        BY <2>0, <2>4, <4>1 DEF Tries, EndsSoFar
    <3> QED
      BY <3>1 DEF Promise!Next, Promise!Finish, Tries, EndsSoFar, Over, TriesOf, EndsOf, OverOf
  <2>5. /\ CellInv(c) /\ retries[c] \in Nat /\ at \in [Cells -> Place]
        /\ retries \in [Cells -> 0..(MaxRetries + 1)]
    BY <1>2 DEF IInv, TypeOK
  <2>6. CASE Begin(c) \/ Retry(c)
    <3>1. UNCHANGED <<records, paid>>
      BY <2>6 DEF Begin, Retry
    <3>2. TriesOf(c)' = TriesOf(c) /\ OverOf(c)' = OverOf(c)
      BY <2>5, <2>6 DEF Begin, Retry, Goto, TriesOf, OverOf
    <3>3. EndsOf(c)' = EndsOf(c)
      BY <2>5, <2>6, <3>1 DEF Begin, Retry, Goto, EndsOf
    <3> QED
      BY <2>1, <3>2, <3>3
  <2>7. ASSUME NEW s \in Sent, AttemptFails(c, s) \/ AttemptReplies(c, s)
        PROVE  Promise!Next
    <3>1. at[c] = "calling" /\ UNCHANGED records
          /\ \/ retries'[c] = retries[c] + 1 /\ at'[c] \in {"waiting", "exhausted"}
             \/ retries'[c] = retries[c] /\ at'[c] = "replied"
      BY <2>5, <2>7 DEF AttemptFails, AttemptReplies, Goto
    <3>2. retries[c] <= MaxRetries
      BY <2>5, <3>1 DEF CellInv, CountsAttempts
    <3>3. /\ ~OverOf(c) /\ TriesOf(c) < MaxRetries + 1 /\ TriesOf(c)' = TriesOf(c) + 1
          /\ OverOf(c)' = OverOf(c)
      BY <2>5, <3>1, <3>2 DEF TriesOf, OverOf
    <3>4. EndsOf(c)' = EndsOf(c)
      BY <3>1 DEF EndsOf
    <3>5. /\ ~Over[c] /\ Tries[c] < MaxRetries + 1
          /\ Tries' = [Tries EXCEPT ![c] = Tries[c] + 1]
          /\ EndsSoFar' = EndsSoFar /\ Over' = Over
      BY <2>0, <3>3, <3>4 DEF EndsSoFar, Over
    <3> QED
      BY <3>5 DEF Promise!Next, Promise!Try, Tries, EndsSoFar, Over, TriesOf, EndsOf, OverOf
  <2>8. CASE Conclude(c)
    BY <1>2, <2>3, <2>8, ConcludeEnds
  <2>9. CASE Raise(c)
    <3>1. OverOf(c)' = TRUE
      BY <1>2, <2>9, RaiseEnds DEF OverOf
    <3> QED
      BY <1>2, <2>3, <2>9, <3>1, RaiseEnds
  <2>10. CASE EndCell(c)
    <3>1. at[c] = "ready" /\ at'[c] = "done" /\ UNCHANGED records
      BY <2>5, <2>10 DEF EndCell, Goto
    <3> QED
      BY <2>4, <3>1 DEF TriesOf, OverOf, EndsOf
  <2> QED
    BY <1>2, <2>6, <2>7, <2>8, <2>9, <2>10 DEF Step, Attempt
<1>3. ASSUME UNCHANGED <<at, retries, records, paid>>
      PROVE  UNCHANGED <<Tries, EndsSoFar, Over>>
  BY <1>3 DEF Tries, EndsSoFar, Over, TriesOf, EndsOf, OverOf
<1>4. UNCHANGED <<Tries, EndsSoFar, Over>> => UNCHANGED Promise!invocationVars
  BY DEF Promise!invocationVars, Tries, EndsSoFar, Over, TriesOf, EndsOf, OverOf
<1>5. IInv /\ IInv' /\ [Next]_vars => [Promise!Next]_(Promise!invocationVars)
  BY <1>2, <1>3, <1>4 DEF Next, Summarise, vars, callVars
<1> QED
  BY <1>1, <1>5, Invariance, PTL DEF Spec, ImplementsInvocations, Promise!Spec
===============================================================================
