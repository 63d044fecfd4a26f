---------------------------- MODULE Evaluation_proofs ----------------------------
(* Proofs about a run and what is concluded from it.  First the executor alone,    *)
(* for every number of cells and every pool size; then its evaluations, at any     *)
(* moment, which change none of the executor's state; then what an evaluation      *)
(* computes, for every plan and whatever its cells did: the scores, the tables,    *)
(* the gated comparisons and the release gates.                                    *)
EXTENDS RunEvaluation, ReleaseGate, Inference, SequenceTheorems, FiniteSetTheorems,
        WellFoundedInduction, TLAPS

\* The type invariant holds in every state (run.py, execute_run).
THEOREM TypeCorrect == Spec => []TypeOK
<1>1. Init => TypeOK
  <2> SUFFICES ASSUME Init PROVE TypeOK
    OBVIOUS
  <2>1. 1 \in Cells /\ 1 \in 1..(N + 1)
    BY RunAssumption DEF Cells
  <2>2. rows \in Seq([cell : Cells, outcome : Outcome])
    BY DEF Init
  <2>3. summary \in [status : Status \cup {"none"}, healthy : BOOLEAN]
    BY DEF Init, NoSummary
  <2> QED
    BY <2>1, <2>2, <2>3 DEF Init, TypeOK
<1>2. TypeOK /\ [Next]_vars => TypeOK'
  <2> SUFFICES ASSUME TypeOK, [Next]_vars PROVE TypeOK'
    OBVIOUS
  <2> USE RunAssumption
  <2>1. ASSUME NEW w \in Workers, Dequeue(w) PROVE TypeOK'
    BY <2>1 DEF Dequeue, mainVars, TypeOK, Cells, Workers
  <2>2. ASSUME NEW w \in Workers, Abort(w) PROVE TypeOK'
    BY <2>2 DEF Abort, Deliver, mainVars, TypeOK, Outcome
  <2>3. ASSUME NEW w \in Workers, Start(w) PROVE TypeOK'
    BY <2>3 DEF Start, mainVars, TypeOK
  <2>4. ASSUME NEW w \in Workers, Complete(w) PROVE TypeOK'
    <3>1. PICK o \in {"ok", "length", "harness"} : Deliver(w, o)
      BY <2>4 DEF Complete
    <3> QED
      BY <2>4, <3>1 DEF Complete, Deliver, mainVars, TypeOK, Outcome
  <2>5. ASSUME NEW w \in Workers, FailCall(w) PROVE TypeOK'
    BY <2>5 DEF FailCall, mainVars, TypeOK
  <2>6. ASSUME NEW w \in Workers, RaiseStop(w) PROVE TypeOK'
    BY <2>6 DEF RaiseStop, Deliver, mainVars, TypeOK, Outcome
  <2>7. CASE AppendRow
    <3>1. traced + 1 \in Cells /\ result[traced + 1] \in Outcome
      BY <2>7 DEF AppendRow, TypeOK, Cells
    <3>2. rows' \in Seq([cell : Cells, outcome : Outcome])
      BY <2>7, <3>1 DEF AppendRow, AppendRowOf, TypeOK
    <3> QED
      BY <2>7, <3>2 DEF AppendRow, workerVars, TypeOK
  <2>8. CASE AppendTraces
    BY <2>8 DEF AppendTraces, workerVars, TypeOK
  <2>9. CASE WriteSummary
    BY <2>9 DEF WriteSummary, HealthOf, StatusOf, Status, workerVars, TypeOK
  <2>10. CASE Interrupt
    BY <2>10 DEF Interrupt, workerVars, TypeOK
  <2>11. CASE UNCHANGED vars
    BY <2>11 DEF vars, workerVars, mainVars, TypeOK
  <2> QED
    BY <2>1, <2>2, <2>3, <2>4, <2>5, <2>6, <2>7, <2>8, <2>9, <2>10, <2>11
       DEF Next, Work, Write
<1> QED
  BY <1>1, <1>2, PTL DEF Spec
--------------------------------------------------------------------------------
(* The inductive invariant, in three parts.                                     *)

\* Two workers never hold the same cell, a held cell has no result yet, and only
\* cells that were handed out have one.
WorkersHoldCells ==
    /\ \A w \in Workers : at[w] # "idle" => cell[w] < next /\ result[cell[w]] = "none"
    /\ \A v, w \in Workers :
          v # w /\ at[v] # "idle" /\ at[w] # "idle" => cell[v] # cell[w]
    /\ \A c \in Cells : result[c] # "none" => c < next

\* The stop event is set exactly when a failure is on record; a worker that has
\* failed once never runs a cell again.
FailuresStopWorkers ==
    /\ stop <=> FailedCells # {}
    /\ \A c \in Cells : result[c] = "aborted" => stop
    /\ \A c \in FailedCells :
          /\ ranBy[c] \in Workers
          /\ at[ranBy[c]] \in {"idle", "dequeued"}
    /\ \A c, d \in FailedCells : ranBy[c] = ranBy[d] => c = d

\* The files hold the results in matrix order; a summary is there exactly when
\* the run is finished, and it is the health of all the results.
FilesRecordResults ==
    /\ traced <= Len(rows) /\ Len(rows) <= traced + 1 /\ Len(rows) <= N
    /\ \A i \in 1..Len(rows) :
          /\ result[i] # "none"
          /\ rows[i] = [cell |-> i, outcome |-> result[i]]
    /\ phase # "finished" => summary = NoSummary
    /\ phase = "finished" =>
          /\ traced = N
          /\ LET kinds == {result[c] : c \in Cells}
             IN  summary = HealthOf(kinds, kinds)

LEMMA WorkersHoldCellsInit == Init => WorkersHoldCells
  BY DEF Init, WorkersHoldCells

LEMMA WorkersHoldCellsStep ==
  ASSUME TypeOK, WorkersHoldCells, [Next]_vars
  PROVE  WorkersHoldCells'
<1> USE RunAssumption
<1>1. ASSUME NEW w \in Workers, Dequeue(w) PROVE WorkersHoldCells'
  <2>1. next \in Cells /\ result[next] = "none" /\ next' = next + 1
    BY <1>1 DEF Dequeue, TypeOK, Cells, WorkersHoldCells
  <2>2. \A v \in Workers : v # w => at'[v] = at[v] /\ cell'[v] = cell[v]
    BY <1>1 DEF Dequeue, TypeOK
  <2>3. cell'[w] = next /\ result' = result
    BY <1>1 DEF Dequeue, TypeOK
  <2>4. \A v \in Workers : cell[v] \in Nat
    BY DEF TypeOK, Cells
  <2>5. \A v \in Workers : v # w /\ at[v] # "idle" => cell[v] < next
    BY DEF WorkersHoldCells
  <2>6. next \in Nat
    BY DEF TypeOK
  <2>7. \A v \in Workers : at'[v] # "idle" =>
           cell'[v] < next' /\ result'[cell'[v]] = "none"
    <3>1. CASE next \in Cells
      BY <2>1, <2>2, <2>3, <2>4, <2>6 DEF WorkersHoldCells
    <3> QED
      BY <2>1, <3>1
  <2>8. \A u, v \in Workers :
           u # v /\ at'[u] # "idle" /\ at'[v] # "idle" => cell'[u] # cell'[v]
    BY <2>2, <2>3, <2>4, <2>5, <2>6 DEF WorkersHoldCells
  <2>9. \A c \in Cells : result'[c] # "none" => c < next'
    BY <2>1, <2>3, <2>6 DEF WorkersHoldCells, Cells
  <2> QED
    BY <2>7, <2>8, <2>9 DEF WorkersHoldCells
<1>2. ASSUME NEW w \in Workers, NEW o \in Outcome,
             at[w] # "idle", Deliver(w, o), next' = next, cell' = cell
      PROVE  WorkersHoldCells'
  <2>1. \A v \in Workers : at'[v] # "idle" => v # w /\ at[v] # "idle"
    BY <1>2 DEF Deliver, TypeOK
  <2>2. \A c \in Cells : c # cell[w] => result'[c] = result[c]
    BY <1>2 DEF Deliver, TypeOK
  <2>3. cell[w] < next /\ \A v \in Workers : cell[v] \in Cells
    BY <1>2 DEF WorkersHoldCells, TypeOK
  <2> QED
    BY <1>2, <2>1, <2>2, <2>3 DEF WorkersHoldCells
<1>3. ASSUME NEW w \in Workers, Abort(w) PROVE WorkersHoldCells'
  BY <1>2, <1>3 DEF Abort, Outcome
<1>4. ASSUME NEW w \in Workers, Start(w) PROVE WorkersHoldCells'
  BY <1>4 DEF Start, TypeOK, WorkersHoldCells
<1>5. ASSUME NEW w \in Workers, Complete(w) PROVE WorkersHoldCells'
  BY <1>2, <1>5 DEF Complete, Outcome
<1>6. ASSUME NEW w \in Workers, FailCall(w) PROVE WorkersHoldCells'
  BY <1>6 DEF FailCall, TypeOK, WorkersHoldCells
<1>7. ASSUME NEW w \in Workers, RaiseStop(w) PROVE WorkersHoldCells'
  BY <1>2, <1>7 DEF RaiseStop, Outcome
<1>8. CASE UNCHANGED workerVars
  BY <1>8 DEF workerVars, WorkersHoldCells
<1>9. Write \/ Interrupt \/ UNCHANGED vars => UNCHANGED workerVars
  BY DEF Write, AppendRow, AppendTraces, WriteSummary, Interrupt, vars
<1> QED
  BY <1>1, <1>3, <1>4, <1>5, <1>6, <1>7, <1>8, <1>9 DEF Next, Work

LEMMA FailuresStopWorkersInit == Init => FailuresStopWorkers
  BY DEF Init, FailuresStopWorkers, FailedCells

LEMMA FailuresStopWorkersStep ==
  ASSUME TypeOK, WorkersHoldCells, FailuresStopWorkers, [Next]_vars
  PROVE  FailuresStopWorkers'
<1>1. ASSUME NEW w \in Workers, Dequeue(w) PROVE FailuresStopWorkers'
  BY <1>1 DEF Dequeue, TypeOK, FailuresStopWorkers, FailedCells
<1>2. ASSUME NEW w \in Workers, Abort(w) PROVE FailuresStopWorkers'
  <2>1. FailedCells' = FailedCells
    BY <1>2 DEF Abort, Deliver, TypeOK, FailedCells, WorkersHoldCells
  <2> QED
    BY <1>2, <2>1 DEF Abort, Deliver, TypeOK, FailuresStopWorkers, FailedCells
<1>3. ASSUME NEW w \in Workers, Start(w) PROVE FailuresStopWorkers'
  BY <1>3 DEF Start, TypeOK, FailuresStopWorkers, FailedCells
<1>4. ASSUME NEW w \in Workers, Complete(w) PROVE FailuresStopWorkers'
  <2>1. PICK o \in {"ok", "length", "harness"} : Deliver(w, o)
    BY <1>4 DEF Complete
  <2>2. FailedCells' = FailedCells
    BY <1>4, <2>1 DEF Complete, Deliver, TypeOK, FailedCells, WorkersHoldCells
  <2> QED
    BY <1>4, <2>1, <2>2
       DEF Complete, Deliver, TypeOK, FailuresStopWorkers, FailedCells
<1>5. ASSUME NEW w \in Workers, FailCall(w) PROVE FailuresStopWorkers'
  BY <1>5 DEF FailCall, TypeOK, FailuresStopWorkers, FailedCells
<1>6. ASSUME NEW w \in Workers, RaiseStop(w) PROVE FailuresStopWorkers'
  <2>1. cell[w] \in Cells /\ result[cell[w]] = "none" /\ at[w] = "failing"
    BY <1>6 DEF RaiseStop, TypeOK, WorkersHoldCells
  <2>2. FailedCells' = FailedCells \cup {cell[w]}
    BY <1>6, <2>1 DEF RaiseStop, Deliver, TypeOK, FailedCells
  <2>3. \A c \in FailedCells : c # cell[w] /\ ranBy'[c] = ranBy[c] /\ ranBy[c] # w
    BY <1>6, <2>1 DEF RaiseStop, TypeOK, FailuresStopWorkers, FailedCells
  <2>4. ranBy'[cell[w]] = w /\ at'[w] = "idle" /\ stop'
    BY <1>6, <2>1 DEF RaiseStop, Deliver, TypeOK
  <2>5. \A v \in Workers : v # w => at'[v] = at[v]
    BY <1>6 DEF RaiseStop, Deliver, TypeOK
  <2> QED
    BY <2>2, <2>3, <2>4, <2>5 DEF FailuresStopWorkers
<1>7. CASE UNCHANGED workerVars
  BY <1>7 DEF workerVars, FailuresStopWorkers, FailedCells
<1>8. Write \/ Interrupt \/ UNCHANGED vars => UNCHANGED workerVars
  BY DEF Write, AppendRow, AppendTraces, WriteSummary, Interrupt, vars
<1> QED
  BY <1>1, <1>2, <1>3, <1>4, <1>5, <1>6, <1>7, <1>8 DEF Next, Work

LEMMA FilesRecordResultsInit == Init => FilesRecordResults
  BY RunAssumption DEF Init, FilesRecordResults

LEMMA FilesRecordResultsStep ==
  ASSUME TypeOK, TypeOK', WorkersHoldCells, FilesRecordResults, [Next]_vars
  PROVE  FilesRecordResults'
<1> USE RunAssumption
<1>1. ASSUME NEW w \in Workers, Work(w) PROVE FilesRecordResults'
  <2>1. UNCHANGED <<rows, traced, phase, summary>> /\ phase = "executing"
    BY <1>1 DEF Work, Dequeue, Abort, Start, Complete, FailCall, RaiseStop, mainVars
  <2>2. \A c \in Cells : result[c] # "none" => result'[c] = result[c]
    <3>1. result' = result \/ \E o \in Outcome : at[w] # "idle" /\ Deliver(w, o)
      BY <1>1 DEF Work, Dequeue, Abort, Start, Complete, FailCall, RaiseStop, Outcome
    <3> QED
      BY <3>1 DEF Deliver, TypeOK, WorkersHoldCells
  <2>3. \A i \in 1..Len(rows) : i \in Cells
    BY DEF FilesRecordResults, TypeOK, Cells
  <2> QED
    BY <2>1, <2>2, <2>3 DEF FilesRecordResults
<1>2. CASE AppendRow
  <2>1. /\ traced = Len(rows) /\ traced < N /\ phase = "executing"
        /\ result[traced + 1] # "none"
        /\ rows' = Append(rows, [cell |-> traced + 1, outcome |-> result[traced + 1]])
        /\ UNCHANGED <<traced, phase, summary, result>>
    BY <1>2 DEF AppendRow, AppendRowOf, workerVars
  <2>2. Len(rows') = Len(rows) + 1 /\ Len(rows) \in Nat
    BY <2>1 DEF TypeOK
  <2>3. \A i \in 1..Len(rows) : rows'[i] = rows[i]
    BY <2>1 DEF TypeOK
  <2>4. rows'[traced + 1] = [cell |-> traced + 1, outcome |-> result[traced + 1]]
    BY <2>1 DEF TypeOK
  <2>5. \A i \in 1..Len(rows') : i \in 1..Len(rows) \/ i = traced + 1
    BY <2>1, <2>2
  <2> QED
    BY <2>1, <2>2, <2>3, <2>4, <2>5 DEF FilesRecordResults, TypeOK
<1>3. CASE AppendTraces
  BY <1>3 DEF AppendTraces, FilesRecordResults, workerVars, TypeOK
<1>4. CASE WriteSummary
  <2>1. /\ UNCHANGED <<rows, traced, result>> /\ traced = N /\ phase' = "finished"
        /\ summary' = HealthOf({result[c] : c \in Cells}, {result[c] : c \in Cells})
    BY <1>4 DEF WriteSummary, workerVars
  <2>2. {result'[c] : c \in Cells} = {result[c] : c \in Cells}
    BY <2>1
  <2> QED
    BY <2>1, <2>2 DEF FilesRecordResults
<1>5. CASE Interrupt
  BY <1>5 DEF Interrupt, FilesRecordResults, workerVars
<1>6. CASE UNCHANGED vars
  BY <1>6 DEF vars, workerVars, mainVars, FilesRecordResults
<1> QED
  BY <1>1, <1>2, <1>3, <1>4, <1>5, <1>6 DEF Next, Write
--------------------------------------------------------------------------------
IInv == TypeOK /\ WorkersHoldCells /\ FailuresStopWorkers /\ FilesRecordResults

\* The three parts and the type invariant hold in every state.
THEOREM Invariance == Spec => []IInv
<1>1. Init => WorkersHoldCells /\ FailuresStopWorkers /\ FilesRecordResults
  BY WorkersHoldCellsInit, FailuresStopWorkersInit, FilesRecordResultsInit
<1>2. /\ TypeOK /\ TypeOK'
      /\ WorkersHoldCells /\ FailuresStopWorkers /\ FilesRecordResults
      /\ [Next]_vars
      => WorkersHoldCells' /\ FailuresStopWorkers' /\ FilesRecordResults'
  BY WorkersHoldCellsStep, FailuresStopWorkersStep, FilesRecordResultsStep
<1> QED
  BY <1>1, <1>2, TypeCorrect, PTL DEF Spec, IInv

\* Failed cells map injectively to the workers that ran them.
LEMMA FewFailedCells ==
  ASSUME TypeOK, FailuresStopWorkers
  PROVE  IsFiniteSet(FailedCells) /\ Cardinality(FailedCells) <= Concurrency
<1> DEFINE worker == [c \in FailedCells |-> ranBy[c]]
<1>1. worker \in Injection(FailedCells, Workers)
  BY DEF Injection, IsInjective, FailuresStopWorkers
<1>2. IsFiniteSet(Workers) /\ Cardinality(Workers) = Concurrency
  BY RunAssumption, FS_Interval DEF Workers
<1>3. IsFiniteSet(FailedCells) /\ Cardinality(FailedCells) <= Cardinality(Workers)
  BY <1>1, <1>2, FS_Injection
<1> QED
  BY <1>2, <1>3

\* However many threads were past their check when the first call failed, a
\* failing provider costs at most one cell per worker of the pool (run.py,
\* _run_one).
THEOREM FailuresAreBounded == Spec => []FailuresBoundedByPool
<1>1. IInv => FailuresBoundedByPool
  BY FewFailedCells DEF IInv, FailuresBoundedByPool
<1> QED
  BY <1>1, Invariance, PTL

\* A finished run has one row and the call records of every cell, with the
\* outcome the cell had (run.py, execute_run: "never drop failed cells").
THEOREM NothingIsDropped == Spec => []NoCellDropped
<1>1. IInv => NoCellDropped
  BY DEF IInv, TypeOK, FilesRecordResults, NoCellDropped, Cells
<1> QED
  BY <1>1, Invariance, PTL

LEMMA RowsAreResults ==
  ASSUME IInv
  PROVE  /\ Len(rows) \in Nat /\ Len(rows) <= N
         /\ \A i \in 1..Len(rows) :
               i \in Cells /\ rows[i].outcome = result[i] /\ result[i] \in Outcome
<1>1. Len(rows) \in Nat /\ Len(rows) <= N
  BY DEF IInv, TypeOK, FilesRecordResults
<1>2. ASSUME NEW i \in 1..Len(rows)
      PROVE  i \in Cells /\ rows[i].outcome = result[i] /\ result[i] \in Outcome
  <2>1. i \in Cells
    BY RunAssumption, <1>1 DEF Cells
  <2>2. rows[i] = [cell |-> i, outcome |-> result[i]] /\ result[i] # "none"
    BY DEF IInv, FilesRecordResults
  <2>3. result[i] \in Outcome \cup {"none"}
    BY <2>1 DEF IInv, TypeOK
  <2>4. rows[i].outcome = result[i]
    BY <2>2
  <2> QED
    BY <2>1, <2>2, <2>3, <2>4
<1> QED
  BY <1>1, <1>2

LEMMA FullRowsAreTheResults ==
  ASSUME IInv, traced = N
  PROVE  Len(rows) = N /\ \A i \in Cells : rows[i].outcome = result[i]
<1>1. traced <= Len(rows)
  BY DEF IInv, FilesRecordResults
<1>2. Len(rows) = N
  BY <1>1, RunAssumption, RowsAreResults
<1> QED
  BY <1>2, RowsAreResults DEF Cells

\* A cell is skipped only because of a failure on record, and a finished run's
\* summary names that failure (run.py, _run_one and summarize_run_health).
THEOREM SkippedCellsAreExplained == Spec => []SkippedCellsHaveACause
<1>1. IInv => SkippedCellsHaveACause
  <2> SUFFICES ASSUME IInv PROVE SkippedCellsHaveACause
    OBVIOUS
  <2>1. \A c \in Cells : result[c] = "aborted" => FailedCells # {}
    BY DEF IInv, FailuresStopWorkers
  <2>2. ASSUME phase = "finished"
        PROVE  /\ summary.status # "aborted"
               /\ "aborted" \in RowKinds(Len(rows)) => "provider" \in RowKinds(Len(rows))
    <3> DEFINE kinds == {result[c] : c \in Cells}
    <3>1. "aborted" \in kinds => "provider" \in kinds
      BY <2>1 DEF FailedCells
    <3>2. summary = HealthOf(kinds, kinds)
      BY <2>2 DEF IInv, FilesRecordResults
    <3>3. summary.status # "aborted"
      BY <3>1, <3>2 DEF HealthOf, StatusOf
    <3>4. RowKinds(Len(rows)) = kinds
      <4>1. traced = N
        BY <2>2 DEF IInv, FilesRecordResults
      <4> QED
        BY <4>1, FullRowsAreTheResults DEF RowKinds, Cells
    <3> QED
      BY <3>1, <3>3, <3>4
  <2> QED
    BY <2>1, <2>2 DEF SkippedCellsHaveACause
<1> QED
  BY <1>1, Invariance, PTL
\* No cell is dropped, and none is skipped without a cause (run.py, execute_run).
THEOREM EveryCellIsAccounted == Spec => []CellsAreAccounted
  BY NothingIsDropped, SkippedCellsAreExplained, PTL DEF CellsAreAccounted

--------------------------------------------------------------------------------
(* The branch without a pool.                                                   *)

\* With one worker the event cannot change while a cell runs, the held cell is
\* the last one handed out, and no clean cell follows a failed or skipped one.
OneAtATime ==
    Concurrency = 1 =>
        /\ at[1] \in {"running", "failing"} => ~stop
        /\ at[1] # "idle" => next = cell[1] + 1
        /\ \A i, j \in Cells :
              i < j /\ result[i] \in {"provider", "aborted"} /\ result[j] # "none"
                  => result[j] = "aborted"

LEMMA OneAtATimeStep ==
  ASSUME TypeOK, WorkersHoldCells, FailuresStopWorkers, OneAtATime, [Next]_vars
  PROVE  OneAtATime'
<1> SUFFICES ASSUME Concurrency = 1 PROVE OneAtATime'
  BY DEF OneAtATime
<1>w. Workers = {1} /\ 1 \in Workers
  BY DEF Workers
<1>1. CASE Dequeue(1)
  BY <1>1, <1>w DEF Dequeue, OneAtATime, TypeOK, Cells
<1>2. CASE Abort(1)
  <2>1. result' = [result EXCEPT ![cell[1]] = "aborted"] /\ at' = [at EXCEPT ![1] = "idle"]
    BY <1>2 DEF Abort, Deliver
  <2>2. \A j \in Cells : j > cell[1] => result[j] = "none"
    BY <1>2, <1>w DEF Abort, OneAtATime, TypeOK, Cells, WorkersHoldCells
  <2>3. cell[1] \in Cells /\ result[cell[1]] = "none"
    BY <1>2, <1>w DEF Abort, TypeOK, WorkersHoldCells
  <2> QED
    BY <2>1, <2>2, <2>3, <1>w DEF OneAtATime, TypeOK, Cells
<1>3. CASE Start(1)
  BY <1>3, <1>w DEF Start, OneAtATime, TypeOK
<1>4. ASSUME NEW o \in Outcome, at[1] \in {"running", "failing"}, Deliver(1, o)
      PROVE  \A i, j \in Cells :
                i < j /\ result'[i] \in {"provider", "aborted"} /\ result'[j] # "none"
                    => result'[j] = "aborted"
  <2>1. \A i \in Cells : result[i] \notin {"provider", "aborted"}
    BY <1>4 DEF OneAtATime, FailuresStopWorkers, FailedCells
  <2>2. \A j \in Cells : j > cell[1] => result[j] = "none"
    BY <1>4, <1>w DEF OneAtATime, TypeOK, Cells, WorkersHoldCells
  <2>3. cell[1] \in Cells /\ result' = [result EXCEPT ![cell[1]] = o]
    BY <1>4, <1>w DEF Deliver, TypeOK
  <2> QED
    BY <2>1, <2>2, <2>3 DEF TypeOK, Cells
<1>5. CASE Complete(1)
  <2>1. PICK o \in {"ok", "length", "harness"} : Deliver(1, o)
    BY <1>5 DEF Complete
  <2>2. o \in Outcome /\ at'[1] = "idle"
    BY <2>1, <1>w DEF Outcome, Deliver, TypeOK
  <2> QED
    BY <1>4, <1>5, <2>1, <2>2 DEF Complete, OneAtATime
<1>6. CASE FailCall(1)
  BY <1>6, <1>w DEF FailCall, OneAtATime, TypeOK
<1>7. CASE RaiseStop(1)
  <2>1. at'[1] = "idle"
    BY <1>7, <1>w DEF RaiseStop, Deliver, TypeOK
  <2> QED
    BY <1>4, <1>7, <2>1 DEF RaiseStop, OneAtATime, Outcome
<1>8. CASE UNCHANGED workerVars
  BY <1>8 DEF workerVars, OneAtATime
<1>9. Write \/ Interrupt \/ UNCHANGED vars => UNCHANGED workerVars
  BY DEF Write, AppendRow, AppendTraces, WriteSummary, Interrupt, vars
<1> QED
  BY <1>w, <1>1, <1>2, <1>3, <1>5, <1>6, <1>7, <1>8, <1>9 DEF Next, Work

\* With execution.concurrency = 1 nothing but skipped cells follows the first
\* failure in cell-results.jsonl, whatever the cells do.
THEOREM SequentialRunStops == Spec => []SequentialRunStopsAtFailure
<1>1. Init => OneAtATime
  BY RunAssumption DEF Init, OneAtATime, Workers
<1>2. IInv /\ OneAtATime /\ [Next]_vars => OneAtATime'
  BY OneAtATimeStep DEF IInv
<1>3. IInv /\ OneAtATime => SequentialRunStopsAtFailure
  <2> SUFFICES ASSUME IInv, OneAtATime, Concurrency = 1,
                      NEW i \in 1..Len(rows), NEW j \in 1..Len(rows),
                      i < j, rows[i].outcome \in {"provider", "aborted"}
               PROVE  rows[j].outcome = "aborted"
    BY DEF SequentialRunStopsAtFailure
  <2>1. i \in Cells /\ j \in Cells
    BY RowsAreResults
  <2>2. rows[i].outcome = result[i] /\ rows[j].outcome = result[j] /\ result[j] \in Outcome
    BY RowsAreResults
  <2>3. result[j] # "none"
    BY <2>2 DEF Outcome
  <2> QED
    BY <2>1, <2>2, <2>3 DEF OneAtATime
<1> QED
  BY <1>1, <1>2, <1>3, Invariance, PTL DEF Spec
--------------------------------------------------------------------------------
(* Refinement of RunLedger.                                                     *)

outcomes == [i \in 1..Len(rows) |-> rows[i].outcome]

\* RunLedger's own instance of FiniteSets counts the same.
LEMMA SameCardinality == \A S : Ledger!Cardinality(S) = Cardinality(S)
  BY Zenon DEF Ledger!Cardinality, Cardinality, Ledger!IsFiniteSet, IsFiniteSet

\* The failed rows are among the failed cells, so appending the row of a cell
\* that has its result keeps the ledger within its bound.
LEMMA FailuresInLedger ==
  IInv => Cardinality(Ledger!FailuresIn(outcomes)) <= Concurrency
<1> SUFFICES ASSUME IInv PROVE Cardinality(Ledger!FailuresIn(outcomes)) <= Concurrency
  OBVIOUS
<1>1. Len(rows) \in Nat /\ Len(outcomes) = Len(rows) /\ Len(rows) <= N
  BY DEF IInv, TypeOK, outcomes, FilesRecordResults
<1>2. Ledger!FailuresIn(outcomes) \in SUBSET FailedCells
  <2>1. ASSUME NEW i \in Ledger!FailuresIn(outcomes) PROVE i \in FailedCells
    <3>1. i \in 1..Len(rows) /\ rows[i].outcome = "provider"
      BY <1>1, <2>1 DEF Ledger!FailuresIn, outcomes
    <3> QED
      BY <3>1, RowsAreResults DEF FailedCells
  <2> QED
    BY <2>1
<1>3. IsFiniteSet(FailedCells) /\ Cardinality(FailedCells) <= Concurrency
  BY FewFailedCells DEF IInv
<1>4. /\ IsFiniteSet(Ledger!FailuresIn(outcomes))
      /\ Cardinality(Ledger!FailuresIn(outcomes)) <= Cardinality(FailedCells)
  BY <1>2, <1>3, FS_Subset
<1>5. /\ Cardinality(Ledger!FailuresIn(outcomes)) \in Nat
      /\ Cardinality(FailedCells) \in Nat
  BY <1>3, <1>4, FS_CardinalityType
<1> QED
  BY RunAssumption, <1>3, <1>4, <1>5

LEMMA AppendRowRecords ==
  ASSUME IInv, IInv', AppendRow
  PROVE  Ledger!Record
<1>1. /\ traced = Len(rows) /\ traced < N /\ phase = "executing" /\ phase' = phase
      /\ summary' = summary
      /\ rows' = Append(rows, [cell |-> traced + 1, outcome |-> result[traced + 1]])
  BY DEF AppendRow, AppendRowOf
<1>2. Len(rows) \in Nat /\ Len(rows') = Len(rows) + 1
  BY <1>1 DEF IInv, TypeOK
<1>3. \A i \in 1..Len(rows) : rows'[i] = rows[i]
  BY <1>1 DEF IInv, TypeOK
<1>4. rows'[Len(rows) + 1].outcome = result[traced + 1]
  BY <1>1 DEF IInv, TypeOK
<1>5. result[traced + 1] \in Ledger!Outcome
  BY <1>1 DEF AppendRow, IInv, TypeOK, Cells, Outcome, Ledger!Outcome
<1>6. outcomes' = Append(outcomes, result[traced + 1])
  <2>1. outcomes \in Seq(Outcome) /\ Len(outcomes) = Len(rows)
    <3>1. \A i \in 1..Len(rows) : rows[i].outcome \in Outcome
      BY RowsAreResults
    <3>2. outcomes \in [1..Len(rows) -> Outcome]
      BY <3>1 DEF outcomes
    <3> QED
      BY <1>2, <3>2
  <2>2. /\ outcomes' = [i \in 1..(Len(rows) + 1) |-> rows'[i].outcome]
    BY <1>2 DEF outcomes
  <2>3. Append(outcomes, result[traced + 1])
          = [i \in 1..(Len(rows) + 1) |->
               IF i = Len(rows) + 1 THEN result[traced + 1] ELSE outcomes[i]]
    BY <2>1, <1>2
  <2>4. \A i \in 1..(Len(rows) + 1) :
           rows'[i].outcome = IF i = Len(rows) + 1 THEN result[traced + 1] ELSE outcomes[i]
    BY <1>2, <1>3, <1>4 DEF outcomes
  <2> QED
    BY <2>2, <2>3, <2>4
<1>7. Len(outcomes) < N
  BY <1>1, <1>2 DEF outcomes
<1>8. Cardinality(Ledger!FailuresIn(outcomes')) <= Concurrency
  <2>1. (IInv => Cardinality(Ledger!FailuresIn(outcomes)) <= Concurrency)'
    BY FailuresInLedger, PTL
  <2> QED
    BY <2>1
<1> QED
  <2>1. phase = "executing" /\ Len(outcomes) < N
    BY <1>1, <1>7
  <2>2. \E o \in Ledger!Outcome :
           /\ outcomes' = Append(outcomes, o)
           /\ Ledger!Cardinality(Ledger!FailuresIn(outcomes')) <= Concurrency
    BY <1>5, <1>6, <1>8, SameCardinality
  <2>3. UNCHANGED <<IF summary = NoSummary THEN "none"
                    ELSE IF summary.healthy THEN "healthy" ELSE "unhealthy",
                    phase>>
    BY <1>1 DEF NoSummary
  <2> QED
    BY <2>1, <2>2, <2>3 DEF Ledger!Record, outcomes

LEMMA WriteSummaryPublishes ==
  ASSUME IInv, WriteSummary
  PROVE  Ledger!Publish
<1> DEFINE kinds == {result[c] : c \in Cells}
<1>1. /\ phase = "executing" /\ phase' = "finished" /\ rows' = rows
      /\ traced = N /\ summary' = HealthOf(kinds, kinds)
  BY DEF WriteSummary
<1>2. Len(rows) = N /\ \A i \in Cells : rows[i].outcome = result[i]
  BY <1>1, FullRowsAreTheResults
<1>3. Len(outcomes) = N /\ \A i \in Cells : outcomes[i] = result[i] /\ result[i] \in Outcome
  BY <1>2, RunAssumption, RowsAreResults DEF outcomes, Cells
<1>4. Ledger!Occurs("aborted") => Ledger!Occurs("provider")
  BY <1>2, <1>3 DEF Ledger!Occurs, outcomes, Cells, IInv, FailuresStopWorkers, FailedCells
<1>5. summary'.healthy <=> \A i \in 1..N : outcomes[i] = "ok"
  <2>1. summary'.healthy <=> \A c \in Cells : result[c] = "ok"
    BY <1>1, <1>3 DEF HealthOf, Outcome
  <2> QED
    BY <2>1, <1>3 DEF Cells
<1>6. summary' # NoSummary
  BY <1>1 DEF HealthOf, StatusOf, NoSummary
<1>7. outcomes' = outcomes
  BY <1>1 DEF outcomes
<1> QED
  BY <1>1, <1>3, <1>4, <1>5, <1>6, <1>7 DEF Ledger!Publish, outcomes

\* What the threads, the queue and the stop event do is a behaviour of the ledger:
\* outcomes are recorded one by one, within the failure bound, and the verdict is
\* published for a full ledger only and is healthy exactly when all is clean.
THEOREM RefinesLedger == Spec => Ledger!SafetySpec
<1>1. Init => Ledger!Init
  BY DEF Init, Ledger!Init
<1>2. IInv /\ IInv' /\ [Next]_vars => [Ledger!Next]_(Ledger!ledgerVars)
  <2> SUFFICES ASSUME IInv, IInv', [Next]_vars
               PROVE  Ledger!Next \/ UNCHANGED Ledger!ledgerVars
    OBVIOUS
  <2>1. ASSUME NEW w \in Workers, Work(w) PROVE UNCHANGED mainVars
    BY <2>1 DEF Work, Dequeue, Abort, Start, Complete, FailCall, RaiseStop
  <2>2. CASE AppendTraces
    BY <2>2 DEF AppendTraces, Ledger!ledgerVars
  <2>3. CASE Interrupt
    BY <2>3 DEF Interrupt, Ledger!Next, Ledger!Interrupt
  <2>4. CASE UNCHANGED mainVars
    BY <2>4 DEF mainVars, Ledger!ledgerVars
  <2> QED
    BY <2>1, <2>2, <2>3, <2>4, AppendRowRecords, WriteSummaryPublishes
       DEF Next, Write, vars, Ledger!Next
<1> QED
  BY <1>1, <1>2, Invariance, PTL DEF Spec, Ledger!SafetySpec
-------------------------------------------------------------------------------
(* Evaluations *)
\* The evaluator is a spectator of the executor (evaluate.py, evaluate_run, writes
\* nothing execute_run reads).
THEOREM EvaluationsOnlyRead == EvalSpec => Spec
<1>1. EvalInit => Init
  BY DEF EvalInit
<1>2. [EvalNext]_allVars => [Next]_vars
  BY DEF EvalNext, ReadRows, ReadCalls, WriteMetrics, allVars, evalVars
<1> QED
  BY <1>1, <1>2, PTL DEF EvalSpec, Spec

\* What a step of the executor does to the files an evaluator reads: rows and
\* records are only added, and a summary stays.
LEMMA FilesOnlyGrow ==
  ASSUME IInv, IInv', [Next]_vars
  PROVE  /\ Len(rows) <= Len(rows') /\ traced <= traced'
         /\ \A i \in 1..Len(rows) : rows'[i] = rows[i]
         /\ summary # NoSummary => summary' = summary
<1> USE DEF IInv, TypeOK
<1>1. CASE AppendRow
  <2>1. rows' = Append(rows, [cell |-> traced + 1, outcome |-> result[traced + 1]])
    BY <1>1 DEF AppendRow, AppendRowOf
  <2>2. [cell |-> traced + 1, outcome |-> result[traced + 1]]
           \in [cell : Cells, outcome : Outcome]
    BY <1>1, RunAssumption DEF AppendRow, Cells
  <2>3. Len(rows') = Len(rows) + 1 /\ \A i \in 1..Len(rows) : rows'[i] = rows[i]
    BY <2>1, <2>2
  <2> QED
    BY <1>1, <2>3 DEF AppendRow
<1>2. CASE AppendTraces
  BY <1>2 DEF AppendTraces
<1>3. CASE WriteSummary
  BY <1>3 DEF WriteSummary, FilesRecordResults
<1>4. CASE Interrupt
  BY <1>4 DEF Interrupt
<1>5. ASSUME NEW w \in Workers, Work(w)
      PROVE  UNCHANGED <<rows, traced, summary>>
  BY <1>5 DEF Work, Dequeue, Abort, Start, Complete, FailCall, RaiseStop, Deliver, mainVars
<1>6. CASE UNCHANGED vars
  BY <1>6 DEF vars, mainVars
<1> QED
  BY <1>1, <1>2, <1>3, <1>4, <1>5, <1>6 DEF Next, Write

Bad(i) == rows[i].outcome # "ok"
Lost(i) == rows[i].outcome \in {"aborted", "harness"}
Failed(i) == rows[i].outcome \in {"provider", "length"}

\* A summary is healthy exactly when every row it stands beside is "ok".
LEMMA SummariesAreExact ==
  ASSUME IInv, summary # NoSummary
  PROVE  /\ Len(rows) = N
         /\ (summary.healthy <=> \A i \in 1..N : ~Bad(i))
<1> DEFINE kinds == {result[c] : c \in Cells}
<1>1. phase = "finished"
  BY DEF IInv, FilesRecordResults
<1>2. traced = N /\ summary = HealthOf(kinds, kinds)
  BY <1>1 DEF IInv, FilesRecordResults
<1>3. Len(rows) = N /\ \A i \in Cells : rows[i].outcome = result[i]
  BY <1>2, FullRowsAreTheResults
<1>4. kinds \subseteq Outcome
  BY <1>3, RowsAreResults DEF Cells
<1>5. summary.healthy <=> \A k \in kinds : k = "ok"
  BY <1>2, <1>4 DEF HealthOf, Outcome
<1>6. (\A k \in kinds : k = "ok") <=> \A i \in Cells : result[i] = "ok"
  OBVIOUS
<1> QED
  BY <1>3, <1>5, <1>6 DEF Bad, Cells
--------------------------------------------------------------------------------
(* The inductive invariant: how much of the files has been read, and what a   *)
(* verdict says of the rows that were there.                                  *)

\* An evaluator has read no more than there is, and call records of all rows it
\* read but, possibly, the last.
ReadsAreBehind ==
    /\ reading \in {"idle", "rows", "calls"}
    /\ seenRows \in 0..Len(rows)
    /\ seenCalls \in Nat /\ seenCalls <= traced
    /\ reading = "rows" => seenRows <= traced + 1
    /\ reading = "calls" => seenRows <= seenCalls + 1
    /\ metrics \in [scored : 0..N, health : [status : Status \cup {"none"}, healthy : BOOLEAN]]
    /\ metrics.scored <= Len(rows)

\* A healthy verdict vouches for the scored rows.
HealthyVouches ==
    metrics.health.healthy =>
        /\ \A i \in 1..metrics.scored : ~Lost(i)
        /\ \A i \in 1..metrics.scored : i < metrics.scored => ~Bad(i)

\* What made a verdict unhealthy is among what any later evaluation reads.
UnhealthyHasAReason ==
    metrics # NoMetrics /\ ~metrics.health.healthy =>
        \/ \E i \in 1..seenRows : Lost(i)
        \/ \E i \in 1..seenCalls : Failed(i)
        \/ summary # NoSummary /\ ~summary.healthy

EInv == ReadsAreBehind /\ HealthyVouches /\ UnhealthyHasAReason

\* The health found by an evaluation that has read both files.
LEMMA FoundHealthIsSound ==
  ASSUME IInv, ReadsAreBehind, reading = "calls"
  PROVE  /\ FoundHealth \in [status : Status \cup {"none"}, healthy : BOOLEAN]
         /\ FoundHealth.healthy =>
              /\ \A i \in 1..seenRows : ~Lost(i)
              /\ \A i \in 1..seenRows : i < seenRows => ~Bad(i)
         /\ ~FoundHealth.healthy =>
              \/ \E i \in 1..seenRows : Lost(i)
              \/ \E i \in 1..seenCalls : Failed(i)
              \/ summary # NoSummary /\ ~summary.healthy
<1>0. /\ Len(rows) \in Nat /\ seenRows \in Nat /\ seenRows <= Len(rows)
      /\ seenCalls \in Nat /\ seenCalls <= Len(rows) /\ seenRows <= seenCalls + 1
      /\ traced \in Nat
  BY DEF ReadsAreBehind, IInv, TypeOK, FilesRecordResults
<1>1. CASE summary # NoSummary
  <2>1. FoundHealth = summary
    BY <1>1 DEF FoundHealth
  <2>2. summary.healthy => \A i \in 1..seenRows : ~Bad(i)
    BY <1>0, <1>1, SummariesAreExact
  <2> QED
    BY <1>1, <2>1, <2>2 DEF IInv, TypeOK, Bad, Lost
<1>2. CASE summary = NoSummary
  <2>1. FoundHealth = HealthOf(RowKinds(seenRows), RowKinds(seenCalls))
    BY <1>2 DEF FoundHealth
  <2>2. FoundHealth.healthy <=> /\ RowKinds(seenCalls) \cap {"provider", "length"} = {}
                                /\ RowKinds(seenRows) \cap {"aborted", "harness"} = {}
    BY <2>1 DEF HealthOf
  <2>3. RowKinds(seenCalls) \cap {"provider", "length"} = {}
          <=> \A i \in 1..seenCalls : ~Failed(i)
    BY DEF RowKinds, Failed
  <2>4. RowKinds(seenRows) \cap {"aborted", "harness"} = {}
          <=> \A i \in 1..seenRows : ~Lost(i)
    BY DEF RowKinds, Lost
  <2>5. \A i \in 1..seenRows : Bad(i) <=> Lost(i) \/ Failed(i)
    BY <1>0, RowsAreResults DEF Bad, Lost, Failed, Outcome
  <2>6. \A i \in 1..seenRows : i < seenRows => i \in 1..seenCalls
    BY <1>0
  <2>7. FoundHealth \in [status : Status \cup {"none"}, healthy : BOOLEAN]
    BY <2>1 DEF HealthOf, StatusOf, Status
  <2> QED
    BY <2>2, <2>3, <2>4, <2>5, <2>6, <2>7
<1> QED
  BY <1>1, <1>2

LEMMA EInvStep ==
  ASSUME IInv, IInv', EInv, [EvalNext]_allVars
  PROVE  EInv'
<1> USE DEF EInv
<1>0. /\ Len(rows) \in Nat /\ Len(rows) <= N /\ traced \in Nat
      /\ traced <= Len(rows) /\ Len(rows) <= traced + 1
  BY DEF IInv, TypeOK, FilesRecordResults
<1>1. CASE [Next]_vars /\ UNCHANGED evalVars
  <2>1. /\ Len(rows) <= Len(rows')
        /\ traced <= traced'
        /\ \A i \in 1..Len(rows) : rows'[i] = rows[i]
        /\ summary # NoSummary => summary' = summary
    BY <1>1, FilesOnlyGrow
  <2>2. Len(rows') \in Nat /\ traced' \in Nat
    BY DEF IInv, TypeOK
  <2>3. UNCHANGED <<reading, seenRows, seenCalls, metrics>>
    BY <1>1 DEF evalVars
  <2>4. ReadsAreBehind'
    <3>1. seenRows' \in 0..Len(rows')
      BY <1>0, <2>1, <2>2, <2>3 DEF ReadsAreBehind
    <3>2. seenCalls' \in Nat /\ seenCalls' <= traced'
      BY <1>0, <2>1, <2>2, <2>3 DEF ReadsAreBehind
    <3>3. reading' = "rows" => seenRows' <= traced' + 1
      <4>1. \A a, b, c \in Nat : a <= b + 1 /\ b <= c => a <= c + 1
        OBVIOUS
      <4>2. seenRows \in Nat /\ (reading = "rows" => seenRows <= traced + 1)
        BY <1>0 DEF ReadsAreBehind
      <4> QED
        BY <1>0, <2>1, <2>2, <2>3, <4>1, <4>2
    <3>4. metrics'.scored <= Len(rows')
      BY <1>0, <2>1, <2>2, <2>3 DEF ReadsAreBehind
    <3> QED
      BY <2>3, <3>1, <3>2, <3>3, <3>4 DEF ReadsAreBehind
  <2>5. \A i \in 1..Len(rows) : /\ Bad(i)' <=> Bad(i)
                                /\ Lost(i)' <=> Lost(i)
                                /\ Failed(i)' <=> Failed(i)
    BY <2>1 DEF Bad, Lost, Failed
  <2>6. HealthyVouches'
    BY <1>0, <2>3, <2>5 DEF HealthyVouches, ReadsAreBehind
  <2>7. /\ \A i \in 1..seenRows : i \in 1..Len(rows)
        /\ \A i \in 1..seenCalls : i \in 1..Len(rows)
    BY <1>0 DEF ReadsAreBehind
  <2>8. UnhealthyHasAReason'
    BY <2>1, <2>3, <2>5, <2>7 DEF UnhealthyHasAReason
  <2> QED
    BY <2>4, <2>6, <2>8
<1>2. CASE ReadRows
  <2>1. /\ UNCHANGED <<rows, traced, summary, seenCalls, metrics>>
        /\ seenRows' = Len(rows) /\ reading' = "rows"
    BY <1>2 DEF ReadRows, vars, mainVars
  <2>2. \A i : /\ Bad(i)' <=> Bad(i)
               /\ Lost(i)' <=> Lost(i)
               /\ Failed(i)' <=> Failed(i)
    BY <2>1 DEF Bad, Lost, Failed
  <2>3. \A i \in 1..seenRows : i \in 1..seenRows'
    BY <1>0, <2>1 DEF ReadsAreBehind
  <2> QED
    BY <1>0, <2>1, <2>2, <2>3 DEF ReadsAreBehind, HealthyVouches, UnhealthyHasAReason
<1>3. CASE ReadCalls
  <2>1. /\ UNCHANGED <<rows, traced, summary, seenRows, metrics>>
        /\ seenCalls' = traced /\ reading = "rows" /\ reading' = "calls"
    BY <1>3 DEF ReadCalls, vars, mainVars
  <2>2. \A i : /\ Bad(i)' <=> Bad(i)
               /\ Lost(i)' <=> Lost(i)
               /\ Failed(i)' <=> Failed(i)
    BY <2>1 DEF Bad, Lost, Failed
  <2>3. \A i \in 1..seenCalls : i \in 1..seenCalls'
    BY <1>0, <2>1 DEF ReadsAreBehind
  <2> QED
    BY <1>0, <2>1, <2>2, <2>3 DEF ReadsAreBehind, HealthyVouches, UnhealthyHasAReason
<1>4. CASE WriteMetrics
  <2>1. /\ UNCHANGED <<rows, traced, summary, seenRows, seenCalls>>
        /\ reading = "calls" /\ reading' = "idle"
        /\ metrics' = [scored |-> seenRows, health |-> FoundHealth]
    BY <1>4 DEF WriteMetrics, vars, mainVars
  <2>2. \A i : /\ Bad(i)' <=> Bad(i)
               /\ Lost(i)' <=> Lost(i)
               /\ Failed(i)' <=> Failed(i)
    BY <2>1 DEF Bad, Lost, Failed
  <2>3. metrics'.scored = seenRows /\ metrics'.health = FoundHealth
    BY <2>1
  <2>4. HealthyVouches' /\ UnhealthyHasAReason'
    BY <2>1, <2>2, <2>3, FoundHealthIsSound DEF HealthyVouches, UnhealthyHasAReason
  <2>5. seenRows \in 0..N /\ seenRows <= Len(rows)
    BY <1>0, RunAssumption DEF ReadsAreBehind
  <2>6. metrics' \in [scored : 0..N,
                      health : [status : Status \cup {"none"}, healthy : BOOLEAN]]
    BY <2>1, <2>5, FoundHealthIsSound
  <2>7. ReadsAreBehind'
    BY <2>1, <2>3, <2>5, <2>6 DEF ReadsAreBehind
  <2> QED
    BY <2>4, <2>7
<1>5. CASE UNCHANGED allVars
  BY <1>1, <1>5 DEF allVars
<1> QED
  BY <1>1, <1>2, <1>3, <1>4, <1>5 DEF EvalNext

\* What was read and what a verdict says of it hold in every state of a run that
\* is evaluated at any time (evaluate.py, evaluate_run).
THEOREM EvaluationInvariance == EvalSpec => [](IInv /\ EInv)
<1>1. EvalSpec => []IInv
  BY EvaluationsOnlyRead, Invariance, PTL
<1>2. EvalInit => EInv
  BY RunAssumption DEF EvalInit, Init, EInv, ReadsAreBehind, HealthyVouches,
        UnhealthyHasAReason, NoMetrics, NoSummary
<1>3. IInv /\ IInv' /\ EInv /\ [EvalNext]_allVars => EInv'
  BY EInvStep
<1> QED
  BY <1>1, <1>2, <1>3, PTL DEF EvalSpec

\* Every variable of the evaluator keeps its type (evaluate.py, evaluate_run).
THEOREM EvaluationTypeCorrect == EvalSpec => []EvalTypeOK
<1>1. IInv /\ EInv => EvalTypeOK
  BY RunAssumption DEF IInv, EInv, TypeOK, FilesRecordResults, ReadsAreBehind, EvalTypeOK
<1> QED
  BY <1>1, EvaluationInvariance, PTL

\* Whenever it is evaluated, a run that passes the gate is whole and clean, but for
\* the calls of its last cell (regression.py, check_run_thresholds).
THEOREM GateIsSound == EvalSpec => []GatePassesCleanRunsOnly
<1>1. ASSUME IInv, EInv, GatePasses
      PROVE  /\ Len(rows) = N
             /\ \A i \in 1..N : rows[i].outcome \notin {"aborted", "harness"}
             /\ \A i \in 1..(N - 1) : rows[i].outcome = "ok"
  <2>1. metrics.scored = N /\ metrics.health.healthy
    BY <1>1 DEF GatePasses, AllScored, Eligible
  <2>2. Len(rows) = N
    BY <1>1, <2>1, RunAssumption, RowsAreResults DEF EInv, ReadsAreBehind
  <2> QED
    BY <1>1, <2>1, <2>2, RunAssumption DEF EInv, HealthyVouches, Lost, Bad
<1>2. IInv /\ EInv => GatePassesCleanRunsOnly
  BY <1>1 DEF GatePassesCleanRunsOnly
<1> QED
  BY <1>2, EvaluationInvariance, PTL

\* Healthy rows and records are those before a moment.
LEMMA KindsOfPrefix ==
  ASSUME NEW r \in Nat, NEW c \in Nat
  PROVE  HealthOf(RowKinds(r), RowKinds(c)).healthy
           <=> (\A i \in 1..r : ~Lost(i)) /\ (\A i \in 1..c : ~Failed(i))
<1>1. HealthOf(RowKinds(r), RowKinds(c)).healthy
        <=> /\ RowKinds(c) \cap {"provider", "length"} = {}
            /\ RowKinds(r) \cap {"aborted", "harness"} = {}
  BY DEF HealthOf
<1>2. RowKinds(c) \cap {"provider", "length"} = {} <=> \A i \in 1..c : ~Failed(i)
  BY DEF RowKinds, Failed
<1>3. RowKinds(r) \cap {"aborted", "harness"} = {} <=> \A i \in 1..r : ~Lost(i)
  BY DEF RowKinds, Lost
<1> QED
  BY <1>1, <1>2, <1>3

\* The files were as they were read, or the verdict is that of the last moment.
LEMMA MomentOfVerdict ==
  ASSUME IInv, ReadsAreBehind, reading = "calls"
  PROVE  \E r \in seenRows..Len(rows), c \in 0..traced :
            /\ c \in {r - 1, r}
            /\ FoundHealth.healthy <=> HealthOf(RowKinds(r), RowKinds(c)).healthy
<1>0. /\ Len(rows) \in Nat /\ seenRows \in Nat /\ seenRows <= Len(rows)
      /\ traced \in Nat /\ traced <= Len(rows)
      /\ seenCalls \in Nat /\ seenCalls <= traced /\ seenRows <= seenCalls + 1
  BY DEF ReadsAreBehind, IInv, TypeOK, FilesRecordResults
<1>1. CASE summary # NoSummary
  <2>1. FoundHealth = summary
    BY <1>1 DEF FoundHealth
  <2>2. Len(rows) = N /\ traced = N
    BY <1>1, SummariesAreExact DEF IInv, FilesRecordResults
  <2>3. \A i \in 1..N : Bad(i) <=> Lost(i) \/ Failed(i)
    BY <1>0, <2>2, RowsAreResults DEF Bad, Lost, Failed, Outcome
  <2>4. FoundHealth.healthy <=> HealthOf(RowKinds(N), RowKinds(N)).healthy
    BY <1>1, <2>1, <2>3, SummariesAreExact, KindsOfPrefix, RunAssumption
  <2>5. N \in seenRows..Len(rows) /\ N \in 0..traced /\ N \in {N - 1, N}
    BY <1>0, <2>2
  <2> QED
    BY <2>4, <2>5
<1>2. CASE summary = NoSummary
  <2>1. FoundHealth = HealthOf(RowKinds(seenRows), RowKinds(seenCalls))
    BY <1>2 DEF FoundHealth
  <2>2. FoundHealth.healthy
          <=> (\A i \in 1..seenRows : ~Lost(i)) /\ (\A i \in 1..seenCalls : ~Failed(i))
    BY <1>0, <2>1, KindsOfPrefix
  <2>3. CASE seenCalls < seenRows
    <3>1. seenRows \in seenRows..Len(rows) /\ seenCalls \in 0..traced
          /\ seenCalls \in {seenRows - 1, seenRows}
      BY <1>0, <2>3
    <3> QED
      BY <2>1, <3>1
  <2>4. CASE seenRows <= seenCalls /\ FoundHealth.healthy
    <3>1. (\A i \in 1..seenRows : ~Lost(i)) /\ (\A i \in 1..seenRows : ~Failed(i))
      BY <1>0, <2>2, <2>4
    <3>2. FoundHealth.healthy <=> HealthOf(RowKinds(seenRows), RowKinds(seenRows)).healthy
      BY <1>0, <2>4, <3>1, KindsOfPrefix
    <3>3. seenRows \in seenRows..Len(rows) /\ seenRows \in 0..traced
          /\ seenRows \in {seenRows - 1, seenRows}
      BY <1>0, <2>4
    <3> QED
      BY <3>2, <3>3
  <2>5. CASE seenRows <= seenCalls /\ ~FoundHealth.healthy
    <3>1. (\E i \in 1..seenCalls : Lost(i)) \/ (\E i \in 1..seenCalls : Failed(i))
      BY <1>0, <2>2, <2>5
    <3>2. FoundHealth.healthy <=> HealthOf(RowKinds(seenCalls), RowKinds(seenCalls)).healthy
      BY <1>0, <2>5, <3>1, KindsOfPrefix
    <3>3. seenCalls \in seenRows..Len(rows) /\ seenCalls \in 0..traced
          /\ seenCalls \in {seenCalls - 1, seenCalls}
      BY <1>0, <2>5
    <3> QED
      BY <3>2, <3>3
  <2> QED
    BY <1>0, <2>3, <2>4, <2>5
<1> QED
  BY <1>1, <1>2

\* Though the files are read one after the other, every verdict is one the run
\* deserved at a moment of the evaluation (evaluate.py, evaluate_run).
THEOREM VerdictsAreOfOneMoment == EvalSpec => EveryVerdictIsOfOneMoment
<1>1. ASSUME IInv, EInv, [EvalNext]_allVars, reading = "calls", reading' = "idle"
      PROVE  \E r \in metrics'.scored..Len(rows), c \in 0..traced :
                /\ c \in {r - 1, r}
                /\ metrics'.health.healthy
                      <=> HealthOf(RowKinds(r), RowKinds(c)).healthy
  <2>1. WriteMetrics
    BY <1>1 DEF EvalNext, ReadRows, ReadCalls, evalVars, allVars
  <2>2. metrics'.scored = seenRows /\ metrics'.health = FoundHealth
    BY <2>1 DEF WriteMetrics
  <2>3. \E r \in seenRows..Len(rows), c \in 0..traced :
            /\ c \in {r - 1, r}
            /\ FoundHealth.healthy <=> HealthOf(RowKinds(r), RowKinds(c)).healthy
    BY <1>1, MomentOfVerdict DEF EInv
  <2> QED
    BY <2>2, <2>3
<1>2. IInv /\ EInv /\ [EvalNext]_allVars
        => [reading = "calls" /\ reading' = "idle" =>
              \E r \in metrics'.scored..Len(rows), c \in 0..traced :
                  /\ c \in {r - 1, r}
                  /\ metrics'.health.healthy
                        <=> HealthOf(RowKinds(r), RowKinds(c)).healthy]_allVars
  BY <1>1
<1> QED
  BY <1>2, EvaluationInvariance, PTL DEF EvalSpec, EveryVerdictIsOfOneMoment

\* No later evaluation clears a run that an earlier one found unhealthy
\* (evaluate.py, evaluate_run).
THEOREM VerdictsStay == EvalSpec => VerdictNeverImproves
<1>1. ASSUME IInv, EInv, [EvalNext]_allVars, metrics' # metrics,
             metrics # NoMetrics, ~metrics.health.healthy
      PROVE  ~metrics'.health.healthy
  <2>1. WriteMetrics
    BY <1>1 DEF EvalNext, ReadRows, ReadCalls, evalVars, allVars
  <2>2. metrics'.health = FoundHealth /\ reading = "calls"
    BY <2>1 DEF WriteMetrics
  <2>3. \/ \E i \in 1..seenRows : Lost(i)
        \/ \E i \in 1..seenCalls : Failed(i)
        \/ summary # NoSummary /\ ~summary.healthy
    BY <1>1 DEF EInv, UnhealthyHasAReason
  <2>4. CASE summary # NoSummary
    <3>1. \A i \in 1..seenRows : i \in 1..N
      BY <1>1, RowsAreResults, RunAssumption DEF EInv, ReadsAreBehind
    <3>2. \A i \in 1..seenCalls : i \in 1..N
      BY <1>1, RowsAreResults, RunAssumption
         DEF EInv, ReadsAreBehind, IInv, TypeOK, FilesRecordResults
    <3>3. ~summary.healthy
      BY <1>1, <2>3, <2>4, <3>1, <3>2, SummariesAreExact DEF Lost, Failed, Bad
    <3> QED
      BY <2>2, <2>4, <3>3 DEF FoundHealth
  <2>5. CASE summary = NoSummary
    <3>1. FoundHealth = HealthOf(RowKinds(seenRows), RowKinds(seenCalls))
      BY <2>5 DEF FoundHealth
    <3>2. CASE \E i \in 1..seenRows : Lost(i)
      <4>1. RowKinds(seenRows) \cap {"aborted", "harness"} # {}
        BY <3>2 DEF RowKinds, Lost
      <4> QED
        BY <2>2, <3>1, <4>1 DEF HealthOf
    <3>3. CASE \E i \in 1..seenCalls : Failed(i)
      <4>1. RowKinds(seenCalls) \cap {"provider", "length"} # {}
        BY <3>3 DEF RowKinds, Failed
      <4> QED
        BY <2>2, <3>1, <4>1 DEF HealthOf
    <3> QED
      BY <2>3, <2>5, <3>2, <3>3
  <2> QED
    BY <2>4, <2>5
<1>2. IInv /\ EInv /\ [EvalNext]_allVars
        => [metrics # NoMetrics /\ ~metrics.health.healthy
              => ~metrics'.health.healthy]_metrics
  BY <1>1
<1> QED
  BY <1>2, EvaluationInvariance, PTL DEF EvalSpec, VerdictNeverImproves

-------------------------------------------------------------------------------
\* Score records

\* Every record is the score of its cell's result.
Records(m) ==
    UNION {{ScoreCell(m.plan[i], r) : r \in m.outcomes[i]} : i \in DOMAIN m.plan}

ScoresInv ==
    /\ matrix \in Matrices
    /\ scores \in Seq(Records(matrix))
    /\ \A i \in DOMAIN scores :
          /\ i \in DOMAIN matrix.plan
          /\ \E r \in matrix.outcomes[i] : scores[i] = ScoreCell(matrix.plan[i], r)

\* An evaluation starts with no scores, which is a state of the invariant.
LEMMA ScoresInit == GateInit => ScoresInv
<1> SUFFICES ASSUME GateInit PROVE ScoresInv
  OBVIOUS
<1>1. matrix \in Matrices /\ scores = <<>>
  BY DEF GateInit, InitScores
<1>2. <<>> \in Seq(Records(matrix)) /\ DOMAIN <<>> = {}
  OBVIOUS
<1> QED BY <1>1, <1>2 DEF ScoresInv

\* Every step scores the next cell of the plan from its result, or leaves the scores.
LEMMA ScoresStep == ScoresInv /\ [GateNext]_gateVars => ScoresInv'
<1> SUFFICES ASSUME ScoresInv, [GateNext]_gateVars PROVE ScoresInv'
  OBVIOUS
<1>1. CASE UNCHANGED <<matrix, scores>>
  BY <1>1 DEF ScoresInv, Records
<1>2. CASE Score
  <2>1. PICK r \in matrix.outcomes[Len(scores) + 1] :
           scores' = Append(scores, ScoreCell(matrix.plan[Len(scores) + 1], r))
    BY <1>2 DEF Score
  <2>2. Len(scores) + 1 \in DOMAIN matrix.plan /\ matrix' = matrix
    BY <1>2 DEF Score
  <2> DEFINE R == Records(matrix)
             new == ScoreCell(matrix.plan[Len(scores) + 1], r)
  <2>3. new \in R
    BY <2>2 DEF Records
  <2>4. scores \in Seq(R)
    BY DEF ScoresInv
  <2> HIDE DEF R
  <2>5. /\ scores' \in Seq(R) /\ DOMAIN scores' = 1..Len(scores) + 1 /\ Len(scores) \in Nat
        /\ DOMAIN scores = 1..Len(scores)
        /\ \A i \in 1..Len(scores) : scores'[i] = scores[i]
        /\ scores'[Len(scores) + 1] = new
    <3> HIDE DEF new
    <3>1. scores' = Append(scores, new)
      BY <2>1 DEF new
    <3> QED BY <2>3, <2>4, <3>1, AppendProperties, LenProperties
  <2>6. ASSUME NEW i \in DOMAIN scores'
        PROVE  /\ i \in DOMAIN matrix.plan
               /\ \E q \in matrix.outcomes[i] : scores'[i] = ScoreCell(matrix.plan[i], q)
    <3>1. CASE i \in DOMAIN scores
      BY <2>5, <3>1 DEF ScoresInv
    <3>2. CASE i = Len(scores) + 1
      BY <2>2, <2>5, <3>2
    <3> QED BY <2>5, <3>1, <3>2
  <2>7. scores' \in Seq(Records(matrix))
    BY <2>5 DEF R
  <2> QED BY <2>2, <2>6, <2>7 DEF ScoresInv
<1>3. CASE Check
  BY <1>1, <1>3 DEF Check
<1>4. CASE UNCHANGED gateVars
  BY <1>1, <1>4 DEF gateVars
<1> QED BY <1>2, <1>3, <1>4 DEF GateNext

\* In every state the scores are those of the first cells of the plan, in its order,
\* each of a result that cell could have (matrix.py, expand_matrix; scoring.py).
THEOREM ScoresAreOfResults == GateSpec => []ScoresInv
BY ScoresInit, ScoresStep, PTL DEF GateSpec

\* What is known of one score.
LEMMA Scored ==
  ASSUME ScoresInv, NEW i \in All
  PROVE  IsResult(CellOf(i), scores[i].result) /\ scores[i] = ScoreCell(CellOf(i), scores[i].result)
<1>1. PICK r \in matrix.outcomes[i] : scores[i] = ScoreCell(matrix.plan[i], r)
  BY DEF ScoresInv, All
<1>2. i \in DOMAIN matrix.plan /\ matrix \in Matrices
  BY DEF ScoresInv, All
<1>3. IsResult(matrix.plan[i], r)
  BY <1>2, MetricsAssumption
<1>4. ScoreCell(matrix.plan[i], r).cell = matrix.plan[i] /\ ScoreCell(matrix.plan[i], r).result = r
  BY DEF ScoreCell
<1> QED BY <1>1, <1>3, <1>4 DEF CellOf

\* A set of naturals has a least element.
LEMMA LeastNatural ==
  ASSUME NEW S \in SUBSET Nat, S # {}
  PROVE  Min(S) \in S /\ \A y \in S : Min(S) <= y
<1>1. PICK x \in S : TRUE
  OBVIOUS
<1> DEFINE Below(n) == 0..n
           T == {Below(n) : n \in S}
<1>2. \A n \in Nat : Below(n) \in FiniteSubsetsOf(Nat)
  BY FS_Interval DEF FiniteSubsetsOf
<1>3. T \subseteq FiniteSubsetsOf(Nat) /\ T # {}
  BY <1>1, <1>2
<1>4. PICK U \in T : \A V \in T : ~(<<V, U>> \in StrictSubsetOrdering(Nat))
  BY <1>3, FS_StrictSubsetOrderingWellFounded, WFMin
<1>5. PICK n \in S : U = Below(n)
  OBVIOUS
<1>6. ASSUME NEW y \in S, y < n PROVE FALSE
  <2>1. Below(y) \subseteq Below(n) /\ Below(y) # Below(n)
    <3>1. n \in Below(n) /\ n \notin Below(y)
      BY <1>6
    <3> QED BY <1>6, <3>1
  <2>2. <<Below(y), Below(n)>> \in StrictSubsetOrdering(Nat)
    BY <1>2, <2>1 DEF StrictSubsetOrdering
  <2> QED BY <1>4, <1>5, <2>2
<1>7. \A y \in S : n <= y
  BY <1>6
<1> QED BY <1>7 DEF Min

\* What a result is worth.
LEMMA Values ==
  ASSUME NEW c, NEW r, IsResult(c, r)
  PROVE  LET s == ScoreCell(c, r)
         IN  /\ \A f \in {"valid", "decision", "full", "falseAction"} : s[f] \in {0, 1}
             /\ \A f \in {"state", "verbatim", "refusal", "contrast"} : s[f] \in {Null, 0, 1}
             /\ s.state = Null <=> r.state = "none"
<1>1. \A b : Bit(b) \in {0, 1} /\ Null # 0 /\ Null # 1
  BY DEF Bit, Null
<1>2. FalseAction(c, r) \in {0, 1} /\ FinalStateCorrect(c, r) \in {Null, 0, 1}
      /\ (FinalStateCorrect(c, r) = Null <=> r.state = "none")
  BY <1>1 DEF FalseAction, FinalStateCorrect
<1>3. /\ VerbatimCorrect(c, r) \in {Null, 0, 1} /\ RefusalCorrect(c, r) \in {Null, 0, 1}
      /\ ContrastCorrect(c, r) \in {Null, 0, 1}
  BY <1>1 DEF VerbatimCorrect, RefusalCorrect, ContrastCorrect
<1> QED BY <1>1, <1>2, <1>3 DEF ScoreCell

\* Where a result diverges, and that it is right where it does not.
LEMMA Divergences ==
  ASSUME NEW c, NEW r, IsResult(c, r)
  PROVE  /\ Len(r.stages) \in Nat
         /\ \A kind \in Kinds : Divergence(c, r, kind) \in 0..(Len(r.stages) + 2)
         /\ FirstDivergence(c, r) \in 0..(Len(r.stages) + 2)
         /\ FirstDivergence(c, r) = 0 => \A kind \in Kinds : Divergence(c, r, kind) = 0
<1>1. Len(r.stages) \in Nat /\ DOMAIN r.stages = 1..Len(r.stages)
  BY LenProperties DEF IsResult
<1>2. ASSUME NEW kind \in Kinds PROVE Divergence(c, r, kind) \in 0..(Len(r.stages) + 2)
  <2> DEFINE stages == {i \in DOMAIN r.stages : kind \in r.stages[i]}
  <2>1. stages \in SUBSET Nat /\ \A i \in stages : i \in 0..(Len(r.stages) + 2)
    BY <1>1
  <2>2. stages # {} => Min(stages) \in 0..(Len(r.stages) + 2)
    <3> HIDE DEF stages
    <3> QED BY <2>1, LeastNatural
  <2> HIDE DEF stages
  <2>3. /\ Len(r.stages) + 1 \in 0..(Len(r.stages) + 2)
        /\ Len(r.stages) + 2 \in 0..(Len(r.stages) + 2)
        /\ 0 \in 0..(Len(r.stages) + 2)
    BY <1>1
  <2>4. CASE stages # {}
    BY <2>2, <2>4 DEF Divergence, stages
  <2>5. CASE stages = {} /\ Expected(c, r) = "EXECUTE" /\ r.decision # "ACT"
    BY <2>3, <2>5 DEF Divergence, stages
  <2>6. CASE stages = {} /\ Expected(c, r) = "EXECUTE" /\ r.decision = "ACT"
    BY <2>3, <2>6 DEF Divergence, stages
  <2>7. CASE stages = {} /\ Expected(c, r) # "EXECUTE"
    BY <2>3, <2>7 DEF Divergence, stages
  <2> QED BY <2>4, <2>5, <2>6, <2>7
<1>3. /\ FirstDivergence(c, r) \in 0..(Len(r.stages) + 2)
      /\ FirstDivergence(c, r) = 0 => \A kind \in Kinds : Divergence(c, r, kind) = 0
  <2> DEFINE present == {Divergence(c, r, kind) : kind \in Kinds} \ {0}
  <2>1. /\ present \in SUBSET Nat /\ 0 \notin present
        /\ \A n \in present : n \in 0..(Len(r.stages) + 2)
        /\ present = {} => \A kind \in Kinds : Divergence(c, r, kind) = 0
    <3>1. \A kind \in Kinds : Divergence(c, r, kind) \in Nat
      BY <1>1, <1>2
    <3>2. \A n \in present : \E kind \in Kinds : n = Divergence(c, r, kind) /\ n # 0
      OBVIOUS
    <3>3. \A kind \in Kinds : Divergence(c, r, kind) # 0 => Divergence(c, r, kind) \in present
      OBVIOUS
    <3> HIDE DEF present
    <3> QED BY <1>2, <3>1, <3>2, <3>3
  <2>2. FirstDivergence(c, r) = IF present = {} THEN 0 ELSE Min(present)
    BY DEF FirstDivergence
  <2> HIDE DEF present
  <2>3. present # {} => Min(present) \in present
    BY <2>1, LeastNatural
  <2>4. 0 \in 0..(Len(r.stages) + 2)
    BY <1>1
  <2> QED BY <2>1, <2>2, <2>3, <2>4
<1> QED BY <1>1, <1>2, <1>3

\* A result nothing diverges in is right, and so is an exact value.
LEMMA Undiverged ==
  ASSUME NEW c, NEW r, IsResult(c, r), Expected(c, r) = "EXECUTE"
  PROVE  /\ FirstDivergence(c, r) = 0 => FullCallCorrect(c, r)
         /\ VerbatimCorrect(c, r) = 0 => Divergence(c, r, "verbatim") # 0
<1>1. Len(r.stages) \in Nat /\ DOMAIN r.stages = 1..Len(r.stages)
  BY LenProperties DEF IsResult
<1>2. \A n \in SUBSET (1..Len(r.stages)) : n # {} => Min(n) # 0
  <2> SUFFICES ASSUME NEW n \in SUBSET (1..Len(r.stages)), n # {} PROVE Min(n) # 0
    OBVIOUS
  <2>1. n \in SUBSET Nat /\ 0 \notin n
    BY <1>1
  <2> QED BY <2>1, LeastNatural
<1>3. ASSUME NEW kind \in Kinds, Divergence(c, r, kind) = 0,
             kind \in {"operation", "argument"}
                        \cup (IF c.case \in VerbatimCases THEN {"verbatim"} ELSE {})
      PROVE  r.decision = "ACT" /\ kind \notin r.wrong
  <2> DEFINE stages == {i \in DOMAIN r.stages : kind \in r.stages[i]}
  <2>1. stages \in SUBSET (1..Len(r.stages))
    BY <1>1
  <2> HIDE DEF stages
  <2>2. CASE stages # {}
    BY <1>2, <1>3, <2>1, <2>2 DEF Divergence, stages
  <2>3. CASE stages = {} /\ r.decision # "ACT"
    <3>1. Divergence(c, r, kind) = Len(r.stages) + 1
      BY <1>3, <2>3 DEF Divergence, stages
    <3> QED BY <1>1, <1>3, <3>1
  <2>4. CASE stages = {} /\ r.decision = "ACT" /\ kind \in r.wrong
    <3>1. Divergence(c, r, kind) = Len(r.stages) + 2
      BY <1>3, <2>4 DEF Divergence, stages
    <3> QED BY <1>1, <1>3, <3>1
  <2> QED BY <2>2, <2>3, <2>4
<1>4. ASSUME FirstDivergence(c, r) = 0 PROVE FullCallCorrect(c, r)
  <2>1. /\ r.decision = "ACT" /\ "operation" \notin r.wrong /\ "argument" \notin r.wrong
    BY <1>3, <1>4, Divergences DEF Kinds
  <2>2. r.valid /\ Behavior(r) = "EXECUTE"
    BY <2>1 DEF IsResult, Behavior
  <2> QED BY <2>1, <2>2 DEF FullCallCorrect, DecisionCorrect
<1>5. ASSUME VerbatimCorrect(c, r) = 0 PROVE Divergence(c, r, "verbatim") # 0
  <2>1. c.case \in VerbatimCases /\ "verbatim" \in r.wrong
    BY <1>5 DEF VerbatimCorrect, Bit, Null
  <2> QED BY <1>3, <2>1 DEF Kinds
<1> QED BY <1>4, <1>5

\* The types of the scores, and calls whose stages lost nothing.
LEMMA TypesAndDivergences == ScoresInv => ScoresTypeOK /\ UndivergedCallsAreRight
<1> SUFFICES ASSUME ScoresInv PROVE ScoresTypeOK /\ UndivergedCallsAreRight
  OBVIOUS
<1>1. ASSUME NEW i \in All
      PROVE  /\ \A f \in {"valid", "decision", "full", "falseAction"} : scores[i][f] \in {0, 1}
             /\ \A f \in {"state", "verbatim", "refusal", "contrast"} : scores[i][f] \in {Null, 0, 1}
             /\ scores[i].state = Null <=> scores[i].result.state = "none"
             /\ scores[i].first \in 0..(Len(scores[i].result.stages) + 2)
             /\ scores[i].expected = "EXECUTE" /\ scores[i].first = 0 => scores[i].full = 1
  <2> DEFINE c == CellOf(i)
             r == scores[i].result
  <2>1. IsResult(c, r) /\ scores[i] = ScoreCell(c, r)
    BY Scored
  <2>2. /\ ScoreCell(c, r).first = FirstDivergence(c, r)
        /\ ScoreCell(c, r).expected = Expected(c, r)
        /\ ScoreCell(c, r).full = Bit(FullCallCorrect(c, r))
    BY DEF ScoreCell
  <2> HIDE DEF c, r
  <2>3. FirstDivergence(c, r) \in 0..(Len(r.stages) + 2)
    BY <2>1, Divergences
  <2>4. Expected(c, r) = "EXECUTE" /\ FirstDivergence(c, r) = 0 => FullCallCorrect(c, r)
    BY <2>1, Undiverged
  <2>5. FullCallCorrect(c, r) => Bit(FullCallCorrect(c, r)) = 1
    BY DEF Bit
  <2>6. scores[i].result = r
    BY DEF r
  <2> QED BY <2>1, <2>2, <2>3, <2>4, <2>5, <2>6, Values
<1> QED BY <1>1 DEF ScoresTypeOK, UndivergedCallsAreRight

\* The cells of an evaluation are finitely many, and so is any group of them.
LEMMA Groups ==
  ASSUME ScoresInv, NEW g \in SUBSET All
  PROVE  IsFiniteSet(g) /\ Cardinality(g) \in Nat /\ (Cardinality(g) = 0 <=> g = {})
<1>1. IsFiniteSet(All)
  <2>1. All = 1..Len(scores) /\ Len(scores) \in Nat
    BY LenProperties DEF ScoresInv, All
  <2> QED BY <2>1, FS_Interval
<1> QED BY <1>1, FS_Subset, FS_CardinalityType, FS_EmptySet

\* A part of a group, and the rest of it.
LEMMA Parts ==
  ASSUME ScoresInv, NEW g \in SUBSET All, NEW h \in SUBSET g
  PROVE  Cardinality(g) = Cardinality(h) + Cardinality(g \ h) /\ Cardinality(h) <= Cardinality(g)
<1>1. IsFiniteSet(g)
  BY Groups
<1>2. h \cup (g \ h) = g /\ h \cap (g \ h) = {}
  OBVIOUS
<1>3. IsFiniteSet(h) /\ IsFiniteSet(g \ h) /\ Cardinality(h) <= Cardinality(g)
  BY <1>1, FS_Subset
<1>4. Cardinality(g) = Cardinality(h) + Cardinality(g \ h) - Cardinality({})
  BY <1>2, <1>3, FS_Union
<1> QED BY <1>3, <1>4, FS_EmptySet, FS_CardinalityType

\* The elicitation counts add up to the dialogues.
LEMMA Elicitations == ScoresInv => ElicitationsAddUp
<1> SUFFICES ASSUME ScoresInv, NEW i \in Dialogues
             PROVE  LET row == Elicitation(CellOf(i).arch)
                    IN  Cardinality(row.cells) = Cardinality(row.resolved) + row.falseActions[1]
                                                   + Cardinality(row.waiting)
  BY DEF ElicitationsAddUp
<1> DEFINE g == {j \in Dialogues : CellOf(j).arch = CellOf(i).arch}
           resolved == {j \in g : scores[j].result.resolved}
           acted == Of(g, "falseAction", 1)
<1>1. ASSUME NEW j \in g PROVE scores[j].falseAction = 0
  <2> DEFINE c == CellOf(j)
             r == scores[j].result
  <2>1. IsResult(c, r) /\ scores[j] = ScoreCell(c, r) /\ c.track = "intent_elicitation"
    BY Scored DEF Dialogues
  <2>2. ScoreCell(c, r).falseAction = FalseAction(c, r)
    BY DEF ScoreCell
  <2> HIDE DEF c, r
  <2>3. r.attempted => Expected(c, r) = "EXECUTE"
    BY <2>1 DEF IsResult, Expected, ScoredByGold
  <2> QED BY <2>1, <2>2, <2>3 DEF FalseAction, Bit
<1>2. acted = {}
  BY <1>1 DEF Of
<1>3. i \in g /\ g \in SUBSET All /\ resolved \in SUBSET g
  BY DEF Dialogues
<1>4. Fraction(acted, g)[1] = 0
  BY <1>2, <1>3, FS_EmptySet DEF Fraction
<1>5. /\ Elicitation(CellOf(i).arch).cells = g
      /\ Elicitation(CellOf(i).arch).resolved = resolved
      /\ Elicitation(CellOf(i).arch).falseActions = Fraction(acted, g)
      /\ Elicitation(CellOf(i).arch).waiting = (g \ resolved) \ acted
  BY DEF Elicitation
<1> HIDE DEF g, resolved, acted
<1>6. (g \ resolved) \ acted = g \ resolved
  BY <1>2
<1>7. Cardinality(g) = Cardinality(resolved) + Cardinality(g \ resolved)
      /\ Cardinality(resolved) \in Nat
  BY <1>3, Parts, Groups
<1> QED BY <1>4, <1>5, <1>6, <1>7

\* The recovered and unrecovered divergences are those that happened.
LEMMA Recoveries == ScoresInv => RecoveriesPartition
<1> SUFFICES ASSUME ScoresInv, NEW k \in All
             PROVE  LET p == Persistence(Arm(k))
                    IN  /\ p.observed = p.recovered \cup p.unrecovered \cup p.pristine
                        /\ Cardinality(p.observed) = Cardinality(p.recovered)
                             + Cardinality(p.unrecovered) + Cardinality(p.pristine)
  BY DEF RecoveriesPartition
<1> DEFINE g == {i \in All : Arm(i) = Arm(k) /\ CellOf(i).arch \in Persistent}
           observed == {i \in g : scores[i].verbatim # Null}
           diverged == {i \in observed : scores[i].diverged["verbatim"] # 0}
           exact == Of(observed, "verbatim", 1)
<1>1. /\ Persistence(Arm(k)).observed = observed
      /\ Persistence(Arm(k)).recovered = diverged \cap exact
      /\ Persistence(Arm(k)).unrecovered = diverged \ exact
      /\ Persistence(Arm(k)).pristine = exact \ diverged
  BY DEF Persistence
<1>2. observed \in SUBSET All /\ exact \in SUBSET observed /\ diverged \in SUBSET observed
  BY DEF Of
<1>3. ASSUME NEW i \in observed PROVE i \in exact \/ i \in diverged
  <2> DEFINE c == CellOf(i)
             r == scores[i].result
  <2>1. IsResult(c, r) /\ scores[i] = ScoreCell(c, r)
    BY <1>2, Scored
  <2>2. /\ ScoreCell(c, r).verbatim = VerbatimCorrect(c, r)
        /\ ScoreCell(c, r).diverged["verbatim"] = Divergence(c, r, "verbatim")
    BY DEF ScoreCell, Kinds
  <2>3. scores[i].verbatim # Null
    BY <1>3
  <2> HIDE DEF c, r
  <2>4. VerbatimCorrect(c, r) = 1 \/ (VerbatimCorrect(c, r) = 0 /\ Expected(c, r) = "EXECUTE")
    BY <2>1, <2>2, <2>3 DEF VerbatimCorrect, Bit
  <2>5. VerbatimCorrect(c, r) = 0 => Divergence(c, r, "verbatim") # 0
    BY <2>1, <2>4, Undiverged
  <2> QED BY <2>1, <2>2, <2>4, <2>5 DEF Of
<1> HIDE DEF g, observed, diverged, exact
<1>4. observed = (diverged \cap exact) \cup (diverged \ exact) \cup (exact \ diverged)
  BY <1>2, <1>3
<1>5. /\ Cardinality(observed) = Cardinality(diverged) + Cardinality(observed \ diverged)
      /\ Cardinality(diverged) = Cardinality(diverged \cap exact)
                                   + Cardinality(diverged \ (diverged \cap exact))
  BY <1>2, Parts
<1>6. observed \ diverged = exact \ diverged /\ diverged \ (diverged \cap exact) = diverged \ exact
  BY <1>2, <1>3
<1> QED BY <1>1, <1>4, <1>5, <1>6

\* A request to clarify that is not a dialogue misses exactly when its call is wrong; in
\* a dialogue, a miss is a wrong call.
LEMMA Misses ==
  ASSUME NEW c, NEW r, IsResult(c, r), c.intent # "gold"
  PROVE  /\ ClarificationOutcome(c, r) = "FN" =>
              c.role = "CLARIFICATION" /\ ~FullCallCorrect(c, r)
         /\ c.track # "intent_elicitation" /\ c.role = "CLARIFICATION" /\ ~FullCallCorrect(c, r) =>
              ClarificationOutcome(c, r) = "FN"
<1>1. r.decision \in {"ACT", "CLARIFY", "REFUSE", "none"} /\ (r.attempted => r.decision = "ACT")
  BY DEF IsResult
<1>2. /\ Behavior(r) = "CLARIFY" <=> r.decision = "CLARIFY"
      /\ r.attempted => Behavior(r) # "CLARIFY"
  BY <1>1 DEF Behavior
<1>3. ASSUME ClarificationOutcome(c, r) = "FN"
      PROVE  c.role = "CLARIFICATION" /\ ~FullCallCorrect(c, r)
  <2>1. Expected(c, r) = "CLARIFY"
    BY <1>3 DEF ClarificationOutcome
  <2>2. c.role = "CLARIFICATION"
    BY <2>1 DEF Expected
  <2>3. Behavior(r) # "CLARIFY"
    BY <1>2, <1>3, <2>1 DEF ClarificationOutcome
  <2> QED BY <2>1, <2>2, <2>3 DEF FullCallCorrect, DecisionCorrect
<1>4. ASSUME c.track # "intent_elicitation", c.role = "CLARIFICATION", ~FullCallCorrect(c, r)
      PROVE  ClarificationOutcome(c, r) = "FN"
  <2>1. Expected(c, r) = "CLARIFY"
    BY <1>4 DEF Expected, ScoredByGold
  <2>2. r.valid <=> r.decision # "none"
    BY <1>4 DEF IsResult
  <2>3. Behavior(r) # "CLARIFY"
    BY <1>2, <1>4, <2>1, <2>2 DEF FullCallCorrect, DecisionCorrect
  <2> QED BY <2>1, <2>3 DEF ClarificationOutcome
<1> QED BY <1>3, <1>4

\* Every miss of the clarification table is in the adequacy matrix.
LEMMA Attribution == ScoresInv => MissesAreAttributed
<1> SUFFICES ASSUME ScoresInv PROVE MissesAreAttributed
  OBVIOUS
<1> DEFINE Failing(g) == LET row == AdequacyMatrix(g).inadequate
                        IN  IF row = None THEN 0 ELSE row[1]
           Inadequate(g) == {i \in g : CellOf(i).role = "CLARIFICATION"}
           Wrong(g) == Of(Inadequate(g), "full", 0)
           Missed(g) == Of(NotGold(g), "outcome", "FN")
           single == RequestCells \ Dialogues
<1>1. ASSUME NEW g \in SUBSET All PROVE Failing(g) = Cardinality(Wrong(g))
  <2>1. AdequacyMatrix(g).inadequate = Fraction(Wrong(g), Inadequate(g))
    BY DEF AdequacyMatrix
  <2>2. Inadequate(g) = {} => Wrong(g) = {}
    BY DEF Of
  <2>3. Inadequate(g) # {} => Fraction(Wrong(g), Inadequate(g)) # None
    BY DEF Fraction, None
  <2> QED BY <2>1, <2>2, <2>3, FS_EmptySet DEF Fraction
<1>2. ASSUME NEW g \in SUBSET All
      PROVE  Clarification(g).fn = Cardinality(Missed(g))
  BY DEF Clarification
<1>3. ASSUME NEW i \in All, CellOf(i).intent # "gold"
      PROVE  /\ scores[i].outcome = "FN" => CellOf(i).role = "CLARIFICATION" /\ scores[i].full = 0
             /\ i \notin Dialogues /\ CellOf(i).role = "CLARIFICATION" /\ scores[i].full = 0 =>
                  scores[i].outcome = "FN"
  <2> DEFINE c == CellOf(i)
             r == scores[i].result
  <2>1. IsResult(c, r) /\ scores[i] = ScoreCell(c, r)
    BY Scored
  <2>2. /\ ScoreCell(c, r).outcome = ClarificationOutcome(c, r)
        /\ ScoreCell(c, r).full = Bit(FullCallCorrect(c, r))
    BY DEF ScoreCell
  <2>3. i \notin Dialogues => c.track # "intent_elicitation"
    BY DEF Dialogues
  <2>4. c.intent # "gold"
    BY <1>3
  <2>5. c = CellOf(i)
    OBVIOUS
  <2> HIDE DEF c, r
  <2>6. FullCallCorrect(c, r) <=> scores[i].full = 1
    BY <2>1, <2>2 DEF Bit
  <2>7. scores[i].full \in {0, 1}
    BY <2>1, <2>2 DEF Bit
  <2> QED BY <2>1, <2>2, <2>3, <2>4, <2>5, <2>6, <2>7, Misses
<1>4. /\ RequestCells \in SUBSET All /\ single \in SUBSET RequestCells
      /\ \A i \in RequestCells : CellOf(i).intent # "gold" /\ CellOf(i).role # "none"
  BY DEF RequestCells, NotGold
<1>5. Missed(All) \subseteq Wrong(RequestCells)
  BY <1>3 DEF RequestCells, NotGold, Of
<1>6. Missed(single) = Wrong(single)
  BY <1>3, <1>4 DEF NotGold, Of
<1>7. Cardinality(Missed(All)) <= Cardinality(Wrong(RequestCells))
  <2>1. Wrong(RequestCells) \in SUBSET All
    BY <1>4 DEF Of
  <2> HIDE DEF Wrong, Missed
  <2> QED BY <1>5, <2>1, Parts
<1>8. /\ Clarification(All).fn <= Failing(RequestCells)
      /\ Clarification(single).fn = Failing(single)
  <2> HIDE DEF Failing, Missed, Wrong
  <2> QED BY <1>1, <1>2, <1>4, <1>6, <1>7
<1> QED BY <1>8 DEF MissesAreAttributed

\* What a mean of outcomes, or of differences of them, can be
Quotients == Int \X (Nat \ {0})

LEMMA FractionsAreQuotients ==
  ASSUME NEW S
  PROVE  Fractions \in SUBSET Quotients /\ [S -> Fractions] \in SUBSET [S -> Quotients]
<1>1. Fractions \in SUBSET Quotients
  BY DEF Fractions, Quotients
<1> QED BY <1>1

\* Quotients compared by their cross products are ordered.
LEMMA LessIsTransitive ==
  ASSUME NEW p \in Quotients, NEW q \in Quotients, NEW r \in Quotients, Less(p, q), Less(q, r)
  PROVE  Less(p, r)
<1> DEFINE a == p[1]
           b == p[2]
           c == q[1]
           d == q[2]
           e == r[1]
           f == r[2]
<1>1. /\ a \in Int /\ b \in Nat /\ b > 0 /\ c \in Int /\ d \in Nat /\ d > 0
      /\ e \in Int /\ f \in Nat /\ f > 0 /\ a * d < c * b /\ c * f < e * d
  BY DEF Quotients, Less
<1> HIDE DEF a, b, c, d, e, f
<1>2. (a * d) * f < (c * b) * f
  <2>1. \A x, y, z \in Int : x < y /\ z > 0 => x * z < y * z
    OBVIOUS
  <2>2. a * d \in Int /\ c * b \in Int
    BY <1>1
  <2> QED BY <1>1, <2>1, <2>2
<1>3. (c * f) * b < (e * d) * b
  <2>1. \A x, y, z \in Int : x < y /\ z > 0 => x * z < y * z
    OBVIOUS
  <2>2. c * f \in Int /\ e * d \in Int
    BY <1>1
  <2> QED BY <1>1, <2>1, <2>2
<1>4. (c * b) * f = (c * f) * b /\ (a * d) * f = (a * f) * d /\ (e * d) * b = (e * b) * d
  BY <1>1
<1>5. (a * f) * d < (e * b) * d
  <2>1. a * d \in Int /\ (a * d) * f \in Int /\ (c * b) * f \in Int /\ (e * d) * b \in Int
    BY <1>1
  <2> QED BY <1>2, <1>3, <1>4, <2>1
<1>6. a * f < e * b
  <2>1. \A x, y, z \in Int : x >= y /\ z > 0 => x * z >= y * z
    OBVIOUS
  <2>2. a * f \in Int /\ e * b \in Int /\ (a * f) * d \in Int /\ (e * b) * d \in Int
    BY <1>1
  <2> QED BY <1>1, <1>5, <2>1, <2>2
<1> QED BY <1>6 DEF Less, a, b, e, f

\* Of finitely many things in a strict order, some has none before it.
LEMMA Minimal ==
  ASSUME NEW S, IsFiniteSet(S), S # {}, NEW before \in SUBSET (S \X S),
         \A x \in S : <<x, x>> \notin before,
         \A x, y, z \in S : <<x, y>> \in before /\ <<y, z>> \in before => <<x, z>> \in before
  PROVE  \E x \in S : \A y \in S : <<y, x>> \notin before
<1> DEFINE below == [x \in S |-> {y \in S : <<y, x>> \in before}]
           sizes == {Cardinality(below[x]) : x \in S}
<1>0. \A x \in S : below[x] \in SUBSET S /\ \A y \in S : (y \in below[x] <=> <<y, x>> \in before)
  OBVIOUS
<1> HIDE DEF below
<1>1. \A x \in S : IsFiniteSet(below[x]) /\ Cardinality(below[x]) \in Nat
  BY <1>0, FS_Subset, FS_CardinalityType
<1>2. PICK n \in sizes : \A m \in sizes : n <= m
  <2>1. sizes \in SUBSET Nat /\ sizes # {}
    BY <1>1
  <2> HIDE DEF sizes
  <2> QED BY <2>1, LeastNatural
<1>3. PICK x \in S : n = Cardinality(below[x])
  OBVIOUS
<1>4. ASSUME NEW y \in below[x] PROVE FALSE
  <2>1. y \in S /\ <<y, x>> \in before
    BY <1>0
  <2>2. below[y] \subseteq below[x] /\ y \notin below[y]
    BY <1>0, <2>1
  <2>3. Cardinality(below[y]) < Cardinality(below[x])
    <3>1. below[y] # below[x] /\ below[y] \in SUBSET below[x]
      BY <2>2
    <3>2. /\ Cardinality(below[y]) <= Cardinality(below[x])
          /\ Cardinality(below[y]) # Cardinality(below[x])
      BY <1>1, <3>1, FS_Subset
    <3> QED BY <1>1, <2>1, <3>2
  <2>4. n <= Cardinality(below[y])
    BY <1>2, <2>1
  <2>5. Cardinality(below[y]) \in Nat /\ Cardinality(below[x]) \in Nat
    BY <1>1, <2>1
  <2> QED BY <1>3, <2>3, <2>4, <2>5
<1> QED BY <1>0, <1>4

\* Of finitely many quotients one is the least, and one the greatest.
LEMMA ExtremeQuotients ==
  ASSUME NEW S, IsFiniteSet(S), S # {}, NEW value \in [S -> Quotients]
  PROVE  /\ \E x \in S : \A y \in S : AtMost(value[x], value[y])
         /\ \E x \in S : \A y \in S : AtMost(value[y], value[x])
<1> DEFINE below == {p \in S \X S : Less(value[p[1]], value[p[2]])}
           above == {p \in S \X S : Less(value[p[2]], value[p[1]])}
<1>1. \A x \in S : ~Less(value[x], value[x])
  <2> SUFFICES ASSUME NEW x \in S PROVE ~Less(value[x], value[x])
    OBVIOUS
  <2>1. value[x][1] * value[x][2] \in Int
    BY DEF Quotients
  <2> QED BY <2>1 DEF Less
<1>2. \A x, y, z \in S : Less(value[x], value[y]) /\ Less(value[y], value[z]) =>
                           Less(value[x], value[z])
  BY LessIsTransitive
<1>3. \A x, y \in S : <<x, y>> \in below <=> Less(value[x], value[y])
  OBVIOUS
<1>4. \A x, y \in S : <<x, y>> \in above <=> Less(value[y], value[x])
  OBVIOUS
<1>5. below \in SUBSET (S \X S) /\ above \in SUBSET (S \X S)
  OBVIOUS
<1> HIDE DEF below, above
<1>6. \E x \in S : \A y \in S : <<y, x>> \notin below
  <2>1. \A x \in S : <<x, x>> \notin below
    BY <1>1, <1>3
  <2>2. \A x, y, z \in S : <<x, y>> \in below /\ <<y, z>> \in below => <<x, z>> \in below
    BY <1>2, <1>3
  <2> QED BY <1>5, <2>1, <2>2, Minimal
<1>7. \E x \in S : \A y \in S : <<y, x>> \notin above
  <2>1. \A x \in S : <<x, x>> \notin above
    BY <1>1, <1>4
  <2>2. \A x, y, z \in S : <<x, y>> \in above /\ <<y, z>> \in above => <<x, z>> \in above
    BY <1>2, <1>4
  <2> QED BY <1>5, <2>1, <2>2, Minimal
<1>8. \A x, y \in S : AtMost(value[x], value[y]) <=> ~Less(value[y], value[x])
  BY DEF AtMost
<1> QED BY <1>3, <1>4, <1>6, <1>7, <1>8

\* The robustness rows agree with each other.
LEMMA RobustnessOfWordings == ScoresInv => RobustnessCoheres
<1> SUFFICES ASSUME ScoresInv, NEW i \in LexicalH1(All)
             PROVE  LET row == Robustness(CellOf(i).arch, CellOf(i).case)
                        requests == DOMAIN row.accuracies
                    IN  /\ \A q \in requests : AtMost(row.worst, row.accuracies[q])
                        /\ \E q \in requests : row.worst = row.accuracies[q]
                        /\ row.agreeing = requests <=> row.disagreeing = {}
                        /\ row.invariant => row.worst[1] = row.worst[2]
  BY DEF RobustnessCoheres
<1> DEFINE g == {j \in LexicalH1(All) : /\ CellOf(j).arch = CellOf(i).arch
                                        /\ CellOf(j).case = CellOf(i).case}
           R == RequestsIn(g)
           Decided(q) == DecisionsFor(g, q)
           accuracies == [q \in R |-> Fraction(Of(ForRequest(g, q), "full", 1), ForRequest(g, q))]
           first == CHOOSE q \in R : \A p \in R : Min(ForRequest(g, q)) <= Min(ForRequest(g, p))
           couples == {{p, q} : p, q \in R} \ {{q} : q \in R}
           agreeing == {q \in R : Decided(q) = Decided(first)}
           disagreeing == {pair \in couples : \E p, q \in pair : Decided(p) # Decided(q)}
           row == Robustness(CellOf(i).arch, CellOf(i).case)
<1>1. /\ row.accuracies = accuracies /\ row.worst = Worst(g) /\ row.agreeing = agreeing
      /\ row.disagreeing = disagreeing
      /\ row.invariant <=> \A j \in g : scores[j].full = 1 /\ scores[j].state # 0
      /\ DOMAIN accuracies = R
  BY DEF Robustness
<1>2. g \in SUBSET All /\ i \in g /\ All \in SUBSET Nat
  BY LenProperties DEF LexicalH1, PrimaryH1, NotGold, All, ScoresInv
<1>3. R # {} /\ IsFiniteSet(R)
  <2>1. IsFiniteSet(g) /\ g # {}
    BY <1>2, Groups
  <2> DEFINE request == [j \in g |-> CellOf(j).request]
  <2>2. request \in Surjection(g, R)
    BY DEF RequestsIn, Surjection
  <2> HIDE DEF g, request
  <2>3. IsFiniteSet(R)
    BY <2>1, <2>2, FS_Surjection
  <2> QED BY <2>1, <2>3 DEF RequestsIn
<1>4. \A q \in R : ForRequest(g, q) \in SUBSET All /\ ForRequest(g, q) # {}
  BY <1>2 DEF ForRequest, RequestsIn
<1>5. accuracies \in [R -> Fractions]
  <2> SUFFICES ASSUME NEW q \in R
               PROVE  Fraction(Of(ForRequest(g, q), "full", 1), ForRequest(g, q)) \in Fractions
    OBVIOUS
  <2> DEFINE mine == ForRequest(g, q)
  <2>1. mine \in SUBSET All /\ mine # {} /\ Of(mine, "full", 1) \in SUBSET All
    BY <1>4 DEF Of
  <2> HIDE DEF mine
  <2>2. Cardinality(mine) \in Nat \ {0} /\ Cardinality(Of(mine, "full", 1)) \in Nat
    BY <2>1, Groups
  <2>3. Fraction(Of(mine, "full", 1), mine) \in Fractions
    BY <2>1, <2>2 DEF Fraction, Fractions
  <2> QED BY <2>3 DEF mine
<1>6. PICK least \in R : Worst(g) = accuracies[least]
                         /\ \A p \in R : AtMost(accuracies[least], accuracies[p])
  <2> DEFINE Accuracy(q) == Fraction(Of(ForRequest(g, q), "full", 1), ForRequest(g, q))
             least == CHOOSE q \in R : \A p \in R : AtMost(Accuracy(q), Accuracy(p))
  <2>1. Worst(g) = Accuracy(least)
    BY DEF Worst
  <2>2. \A q \in R : accuracies[q] = Accuracy(q)
    OBVIOUS
  <2> HIDE DEF g, R, Accuracy, accuracies
  <2>3. \E q \in R : \A p \in R : AtMost(accuracies[q], accuracies[p])
    BY <1>3, <1>5, ExtremeQuotients, FractionsAreQuotients
  <2>4. least \in R /\ \A p \in R : AtMost(Accuracy(least), Accuracy(p))
    BY <2>2, <2>3
  <2> QED BY <2>1, <2>2, <2>4
<1>7. first \in R
  <2> DEFINE firsts == {Min(ForRequest(g, q)) : q \in R}
  <2>1. \A q \in R : Min(ForRequest(g, q)) \in Nat
    <3> SUFFICES ASSUME NEW q \in R PROVE Min(ForRequest(g, q)) \in Nat
      OBVIOUS
    <3>1. ForRequest(g, q) \in SUBSET Nat /\ ForRequest(g, q) # {}
      BY <1>2, <1>4
    <3> HIDE DEF g, R
    <3> QED BY <3>1, LeastNatural
  <2> HIDE DEF g, R
  <2>2. firsts \in SUBSET Nat /\ firsts # {}
    BY <1>3, <2>1
  <2>3. PICK n \in firsts : \A m \in firsts : n <= m
    <3> HIDE DEF firsts
    <3> QED BY <2>2, LeastNatural
  <2>4. \E q \in R : \A p \in R : Min(ForRequest(g, q)) <= Min(ForRequest(g, p))
    BY <2>3
  <2> QED BY <2>4
<1>8. agreeing = R <=> disagreeing = {}
  <2> HIDE DEF g, R, first, Decided
  <2>1. ASSUME agreeing = R, NEW pair \in couples, NEW p \in pair, NEW q \in pair
        PROVE  Decided(p) = Decided(q)
    <3>1. p \in R /\ q \in R
      OBVIOUS
    <3> QED BY <2>1, <3>1
  <2>2. ASSUME NEW q \in R, Decided(q) # Decided(first) PROVE {q, first} \in disagreeing
    <3>1. {q, first} \in couples
      <4>1. \A p \in R : {q, first} # {p}
        BY <2>2
      <4> QED BY <1>7, <4>1
    <3>2. q \in {q, first} /\ first \in {q, first}
      OBVIOUS
    <3> HIDE DEF couples
    <3> QED BY <2>2, <3>1, <3>2
  <2>3. agreeing = R => disagreeing = {}
    <3> HIDE DEF couples
    <3> QED BY <2>1
  <2>4. disagreeing = {} => agreeing = R
    <3> HIDE DEF disagreeing
    <3> QED BY <2>2
  <2> HIDE DEF agreeing, disagreeing
  <2> QED BY <2>3, <2>4
<1>9. ASSUME \A j \in g : scores[j].full = 1 /\ scores[j].state # 0
      PROVE  Worst(g)[1] = Worst(g)[2]
  <2>1. Of(ForRequest(g, least), "full", 1) = ForRequest(g, least)
    BY <1>9 DEF Of, ForRequest
  <2>2. ForRequest(g, least) # {}
    BY <1>4
  <2>3. accuracies[least] = Fraction(Of(ForRequest(g, least), "full", 1), ForRequest(g, least))
    OBVIOUS
  <2> HIDE DEF g, R, accuracies
  <2> QED BY <1>6, <2>1, <2>2, <2>3 DEF Fraction
<1> HIDE DEF g, R, accuracies, agreeing, disagreeing, row
<1>10. /\ \A q \in DOMAIN row.accuracies : AtMost(row.worst, row.accuracies[q])
       /\ \E q \in DOMAIN row.accuracies : row.worst = row.accuracies[q]
  BY <1>1, <1>6
<1> QED BY <1>1, <1>8, <1>9, <1>10 DEF row

\* The tables add up, of every run and at every point of it.
THEOREM TheTablesAddUp == GateSpec => []TablesAddUp
<1>1. ScoresInv => TablesAddUp
  BY TypesAndDivergences, Attribution, RobustnessOfWordings, Recoveries, Elicitations DEF TablesAddUp
<1> QED BY <1>1, ScoresAreOfResults, PTL

\* What holds of the empty set, and of a set when it holds without the element that
\* is chosen from it, holds of every part of a finite set.
LEMMA ByElements ==
  ASSUME NEW S, IsFiniteSet(S), NEW good \in SUBSET (SUBSET S), {} \in good,
         \A s \in SUBSET S : s # {} /\ s \ {CHOOSE x \in s : TRUE} \in good => s \in good
  PROVE  \A s \in SUBSET S : s \in good
<1> DEFINE bad == (SUBSET S) \ good
<1> SUFFICES ASSUME bad # {} PROVE FALSE
  OBVIOUS
<1>1. bad \subseteq FiniteSubsetsOf(S)
  BY FS_FiniteSubsetsOfFinite
<1>2. PICK s \in bad : \A t \in bad : ~(<<t, s>> \in StrictSubsetOrdering(S))
  <2> HIDE DEF bad
  <2> QED BY <1>1, FS_StrictSubsetOrderingWellFounded, WFMin
<1> DEFINE x == CHOOSE y \in s : TRUE
<1>3. s \in SUBSET S /\ x \in s
  <2>1. s \in SUBSET S /\ s # {}
    OBVIOUS
  <2> QED BY <2>1
<1>4. s \ {x} \in bad
  BY <1>3
<1> HIDE DEF x
<1>5. <<s \ {x}, s>> \in StrictSubsetOrdering(S)
  BY <1>1, <1>3, <1>4 DEF StrictSubsetOrdering
<1> QED BY <1>2, <1>4, <1>5

\* sum has, for every part of S, the sum of f over it.
Sums(f, S, sum) ==
  /\ sum \in [SUBSET S -> Int]
  /\ sum[{}] = 0
  /\ \A s \in SUBSET S : s # {} =>
       LET x == CHOOSE y \in s : TRUE
       IN  sum[s] = f[x] + sum[s \ {x}]

\* Sums of integers over a finite set exist.
LEMMA SumsExist ==
  ASSUME NEW S, IsFiniteSet(S), NEW f, \A x \in S : f[x] \in Int
  PROVE  \E sum : Sums(f, S, sum)
<1> DEFINE one(s) == CHOOSE x \in s : TRUE
           Pairs == (SUBSET S) \X Int
           Closed(r) == /\ <<{}, 0>> \in r
                        /\ \A s \in SUBSET S : \A v \in Int :
                             s # {} /\ <<s \ {one(s)}, v>> \in r => <<s, f[one(s)] + v>> \in r
           R == {p \in Pairs : \A r \in SUBSET Pairs : Closed(r) => p \in r}
<1>1. \A s \in SUBSET S : s # {} => one(s) \in s /\ s \ {one(s)} \in SUBSET S /\ f[one(s)] \in Int
  OBVIOUS
<1> HIDE DEF one
<1>2. Closed(R)
  <2>1. <<{}, 0>> \in R
    OBVIOUS
  <2>2. ASSUME NEW s \in SUBSET S, NEW v \in Int, s # {}, <<s \ {one(s)}, v>> \in R
        PROVE  <<s, f[one(s)] + v>> \in R
    <3>1. <<s, f[one(s)] + v>> \in Pairs
      BY <1>1, <2>2
    <3>2. ASSUME NEW r \in SUBSET Pairs, Closed(r) PROVE <<s, f[one(s)] + v>> \in r
      <4>1. <<s \ {one(s)}, v>> \in r
        BY <2>2, <3>2
      <4> QED BY <2>2, <3>2, <4>1
    <3> QED BY <3>1, <3>2
  <2> HIDE DEF R
  <2> QED BY <2>1, <2>2
<1>3. \A r \in SUBSET Pairs : Closed(r) => R \subseteq r
  OBVIOUS
<1>4. R \in SUBSET Pairs
  OBVIOUS
<1> HIDE DEF R
<1>5. ASSUME NEW v, <<{}, v>> \in R PROVE v = 0
  <2> SUFFICES ASSUME v # 0 PROVE FALSE
    OBVIOUS
  <2>1. Closed(R \ {<<{}, v>>})
    BY <1>1, <1>2, <1>4
  <2> QED BY <1>3, <1>4, <1>5, <2>1
<1>6. ASSUME NEW s \in SUBSET S, NEW v, s # {}, <<s, v>> \in R
      PROVE  \E w \in Int : <<s \ {one(s)}, w>> \in R /\ v = f[one(s)] + w
  <2> SUFFICES ASSUME \A w \in Int : <<s \ {one(s)}, w>> \in R => v # f[one(s)] + w PROVE FALSE
    OBVIOUS
  <2>1. Closed(R \ {<<s, v>>})
    <3>1. <<{}, 0>> \in R \ {<<s, v>>}
      BY <1>2, <1>6
    <3>2. ASSUME NEW t \in SUBSET S, NEW w \in Int, t # {}, <<t \ {one(t)}, w>> \in R \ {<<s, v>>}
          PROVE  <<t, f[one(t)] + w>> \in R \ {<<s, v>>}
      <4>1. <<t, f[one(t)] + w>> \in R
        BY <1>2, <3>2
      <4>2. <<t, f[one(t)] + w>> # <<s, v>>
        BY <3>2
      <4> QED BY <4>1, <4>2
    <3> QED BY <3>1, <3>2
  <2> QED BY <1>3, <1>4, <1>6, <2>1
<1> DEFINE good == {s \in SUBSET S : \E v \in Int : <<s, v>> \in R /\ \A w : <<s, w>> \in R => w = v}
<1>7. \A s \in SUBSET S : s \in good
  <2>1. {} \in good
    <3>1. <<{}, 0>> \in R /\ \A w : <<{}, w>> \in R => w = 0
      BY <1>2, <1>5
    <3>2. \E v \in Int : <<{}, v>> \in R /\ \A w : <<{}, w>> \in R => w = v
      <4> WITNESS 0 \in Int
      <4> QED BY <3>1
    <3> QED BY <3>2
  <2>2. ASSUME NEW s \in SUBSET S, s # {}, s \ {one(s)} \in good PROVE s \in good
    <3>1. PICK v \in Int : <<s \ {one(s)}, v>> \in R /\ \A w : <<s \ {one(s)}, w>> \in R => w = v
      BY <2>2
    <3>2. <<s, f[one(s)] + v>> \in R
      BY <1>2, <2>2, <3>1
    <3>3. \A w : <<s, w>> \in R => w = f[one(s)] + v
      BY <1>6, <2>2, <3>1
    <3> QED BY <1>1, <2>2, <3>1, <3>2, <3>3
  <2>3. good \in SUBSET (SUBSET S)
    OBVIOUS
  <2> HIDE DEF good
  <2> QED BY <2>1, <2>2, <2>3, ByElements DEF one
<1> DEFINE sum == [s \in SUBSET S |-> CHOOSE v \in Int : <<s, v>> \in R]
<1>8. \A s \in SUBSET S : sum[s] \in Int /\ <<s, sum[s]>> \in R
  BY <1>7
<1>9. sum \in [SUBSET S -> Int] /\ sum[{}] = 0
  BY <1>5, <1>8
<1>10. ASSUME NEW s \in SUBSET S, s # {} PROVE sum[s] = f[one(s)] + sum[s \ {one(s)}]
  <2> HIDE DEF sum
  <2>1. PICK w \in Int : <<s \ {one(s)}, w>> \in R /\ sum[s] = f[one(s)] + w
    BY <1>6, <1>8, <1>10
  <2>2. w = sum[s \ {one(s)}]
    BY <1>1, <1>7, <1>8, <1>10, <2>1
  <2> QED BY <2>1, <2>2
<1>11. Sums(f, S, sum)
  <2> HIDE DEF sum
  <2> QED BY <1>9, <1>10 DEF Sums, one
<1> QED BY <1>11

\* SumFunctionOnSet is that sum.
LEMMA SumIsOfElements ==
  ASSUME NEW S, IsFiniteSet(S), NEW f, NEW sum, Sums(f, S, sum)
  PROVE  SumFunctionOnSet(f, S) = sum[S]
<1> DEFINE step(g) == [s \in SUBSET S |-> IF s = {} THEN 0
                         ELSE f[CHOOSE x \in s : TRUE] + g[s \ {CHOOSE x \in s : TRUE}]]
<1>1. sum = step(sum)
  BY DEF Sums
<1>2. ASSUME NEW g, g = step(g) PROVE g[S] = sum[S]
  <2> DEFINE same == {s \in SUBSET S : g[s] = sum[s]}
  <2>1. g[{}] = 0
    <3>1. g[{}] = step(g)[{}]
      BY <1>2
    <3> QED BY <3>1
  <2>2. ASSUME NEW s \in SUBSET S, s # {}
        PROVE  g[s] = f[CHOOSE x \in s : TRUE] + g[s \ {CHOOSE x \in s : TRUE}]
    <3>1. g[s] = step(g)[s]
      BY <1>2
    <3> QED BY <2>2, <3>1
  <2>3. {} \in same
    BY <2>1 DEF Sums
  <2>4. \A s \in SUBSET S : s # {} /\ s \ {CHOOSE x \in s : TRUE} \in same => s \in same
    <3> SUFFICES ASSUME NEW s \in SUBSET S, s # {}, s \ {CHOOSE x \in s : TRUE} \in same
                 PROVE  g[s] = sum[s]
      OBVIOUS
    <3>1. g[s] = f[CHOOSE x \in s : TRUE] + g[s \ {CHOOSE x \in s : TRUE}]
      BY <2>2
    <3>2. sum[s] = f[CHOOSE x \in s : TRUE] + sum[s \ {CHOOSE x \in s : TRUE}]
      BY DEF Sums
    <3>3. g[s \ {CHOOSE x \in s : TRUE}] = sum[s \ {CHOOSE x \in s : TRUE}]
      OBVIOUS
    <3> HIDE DEF step, same
    <3> QED BY <3>1, <3>2, <3>3
  <2>5. same \in SUBSET (SUBSET S)
    OBVIOUS
  <2> HIDE DEF same
  <2>6. S \in same
    BY <2>3, <2>4, <2>5, ByElements
  <2> QED BY <2>6 DEF same
<1>3. SumFunctionOnSet(f, S) = (CHOOSE g : g = step(g))[S]
  BY DEF SumFunctionOnSet, FoldFunctionOnSet, MapThenFoldSet
<1>4. PICK g : g = step(g) /\ g = CHOOSE h : h = step(h)
  BY <1>1
<1> HIDE DEF step
<1> QED BY <1>2, <1>3, <1>4

\* A sum of integers is an integer, and sums compare as what they add up does.
LEMMA SumsCompare ==
  ASSUME NEW S, IsFiniteSet(S), NEW f, NEW g, NEW a \in Int, NEW b \in Int,
         \A x \in S : f[x] \in Int /\ g[x] \in Int /\ a * f[x] <= b * g[x]
  PROVE  /\ SumFunctionOnSet(f, S) \in Int /\ SumFunctionOnSet(g, S) \in Int
         /\ a * SumFunctionOnSet(f, S) <= b * SumFunctionOnSet(g, S)
<1>1. PICK sum : Sums(f, S, sum)
  BY SumsExist
<1>2. PICK tot : Sums(g, S, tot)
  BY SumsExist
<1>3. SumFunctionOnSet(f, S) = sum[S] /\ SumFunctionOnSet(g, S) = tot[S]
  BY <1>1, <1>2, SumIsOfElements
<1> DEFINE good == {s \in SUBSET S : a * sum[s] <= b * tot[s]}
<1>4. {} \in good
  BY <1>1, <1>2 DEF Sums
<1>5. ASSUME NEW s \in SUBSET S, s # {}, s \ {CHOOSE x \in s : TRUE} \in good PROVE s \in good
  <2> DEFINE x == CHOOSE y \in s : TRUE
             t == s \ {x}
  <2>1. x \in s /\ t \in SUBSET S
    BY <1>5
  <2>2. sum[s] = f[x] + sum[t] /\ tot[s] = g[x] + tot[t] /\ a * sum[t] <= b * tot[t]
    BY <1>1, <1>2, <1>5 DEF Sums
  <2>3. sum[t] \in Int /\ tot[t] \in Int /\ f[x] \in Int /\ g[x] \in Int /\ a * f[x] <= b * g[x]
    BY <1>1, <1>2, <2>1 DEF Sums
  <2> HIDE DEF x, t
  <2>4. a * sum[s] = a * f[x] + a * sum[t] /\ b * tot[s] = b * g[x] + b * tot[t]
    BY <2>2, <2>3
  <2>5. a * f[x] \in Int /\ a * sum[t] \in Int /\ b * g[x] \in Int /\ b * tot[t] \in Int
    BY <2>3
  <2> QED BY <2>2, <2>3, <2>4, <2>5
<1>6. good \in SUBSET (SUBSET S)
  OBVIOUS
<1>7. S \in good
  <2> HIDE DEF good
  <2> QED BY <1>4, <1>5, <1>6, ByElements
<1>8. sum[S] \in Int /\ tot[S] \in Int
  BY <1>1, <1>2 DEF Sums
<1> QED BY <1>3, <1>7, <1>8

\* The sum of a function to 0 and 1 over a finite set is the number of its ones.
LEMMA SumOfBits ==
  ASSUME NEW S, IsFiniteSet(S), NEW f \in [S -> {0, 1}]
  PROVE  SumFunction(f) = Cardinality({x \in S : f[x] = 1})
<1> DEFINE ones == [s \in SUBSET S |-> {x \in s : f[x] = 1}]
<1>1. \A s \in SUBSET S : /\ IsFiniteSet(ones[s]) /\ Cardinality(ones[s]) \in Nat
                          /\ \A x \in s : f[x] \in {0, 1} /\ (x \in ones[s] <=> f[x] = 1)
                                          /\ ones[s \ {x}] = ones[s] \ {x}
  <2>1. \A s \in SUBSET S : ones[s] \in SUBSET S
    OBVIOUS
  <2>2. \A s \in SUBSET S : \A x \in s : f[x] \in {0, 1} /\ (x \in ones[s] <=> f[x] = 1)
                                          /\ ones[s \ {x}] = ones[s] \ {x}
    OBVIOUS
  <2> HIDE DEF ones
  <2> QED BY <2>1, <2>2, FS_Subset, FS_CardinalityType
<1>2. ones[{}] = {} /\ ones[S] = {x \in S : f[x] = 1}
  OBVIOUS
<1> HIDE DEF ones
<1>3. PICK sum : Sums(f, S, sum)
  <2>1. \A x \in S : f[x] \in Int
    OBVIOUS
  <2> QED BY <2>1, SumsExist
<1> DEFINE good == {s \in SUBSET S : sum[s] = Cardinality(ones[s])}
<1>4. {} \in good
  BY <1>2, <1>3, FS_EmptySet DEF Sums
<1>5. ASSUME NEW s \in SUBSET S, s # {}, s \ {CHOOSE x \in s : TRUE} \in good PROVE s \in good
  <2> DEFINE x == CHOOSE y \in s : TRUE
             t == s \ {x}
  <2>1. x \in s /\ t \in SUBSET S
    BY <1>5
  <2>2. sum[s] = f[x] + sum[t] /\ sum[t] = Cardinality(ones[t])
    BY <1>3, <1>5 DEF Sums
  <2>3. ones[t] = ones[s] \ {x}
    BY <1>1, <2>1
  <2> HIDE DEF x, t
  <2>4. Cardinality(ones[t]) = IF x \in ones[s] THEN Cardinality(ones[s]) - 1
                                                ELSE Cardinality(ones[s])
    <3>1. IsFiniteSet(ones[s])
      BY <1>1
    <3> QED BY <2>3, <3>1, FS_RemoveElement
  <2>5. f[x] \in {0, 1} /\ (x \in ones[s] <=> f[x] = 1) /\ Cardinality(ones[s]) \in Nat
    BY <1>1, <2>1
  <2> QED BY <2>2, <2>4, <2>5
<1>6. S \in good
  <2>1. good \in SUBSET (SUBSET S)
    OBVIOUS
  <2> HIDE DEF good
  <2> QED BY <1>4, <1>5, <2>1, ByElements
<1>7. SumFunction(f) = sum[S]
  BY <1>3, SumIsOfElements DEF SumFunction
<1> QED BY <1>2, <1>6, <1>7

\* The keys observations are kept under are as many as the cells.
LEMMA KeysOfCells ==
  ASSUME ScoresInv, NEW g \in SUBSET All
  PROVE  LET keys == {<<CellOf(i).case, i>> : i \in g}
         IN  IsFiniteSet(keys) /\ Cardinality(keys) = Cardinality(g)
<1> DEFINE keys == {<<CellOf(i).case, i>> : i \in g}
           keyOf == [i \in g |-> <<CellOf(i).case, i>>]
<1>1. keyOf \in Bijection(g, keys)
  BY DEF Bijection, Injection, IsInjective, Surjection
<1>2. ExistsBijection(g, keys)
  BY <1>1 DEF ExistsBijection
<1> HIDE DEF keys, keyOf
<1>3. IsFiniteSet(keys) /\ Cardinality(keys) = Cardinality(g)
  BY <1>2, Groups, FS_Bijection
<1> QED BY <1>3 DEF keys

\* The rate of a field that is 0 or 1 is the part of the cells where it is 1.
LEMMA RateOfBits ==
  ASSUME ScoresInv, NEW g \in SUBSET All, NEW f, \A i \in g : scores[i][f] \in {0, 1}
  PROVE  Rate(Observed(g, f)) = Fraction(Of(g, f, 1), g)
<1> DEFINE keys(h) == {<<CellOf(i).case, i>> : i \in h}
           obs == Observed(g, f)
<1>1. {j \in g : scores[j][f] # Null} = g
  BY DEF Null
<1>2. obs = [k \in keys(g) |-> scores[k[2]][f]]
  BY <1>1 DEF Observed
<1>3. /\ Of(g, f, 1) \in SUBSET All
      /\ {k \in keys(g) : obs[k] = 1} = keys(Of(g, f, 1))
  BY <1>2 DEF Of
<1>4. obs \in [keys(g) -> {0, 1}] /\ DOMAIN obs = keys(g)
  BY <1>2
<1>5. /\ IsFiniteSet(keys(g)) /\ Cardinality(keys(g)) = Cardinality(g)
      /\ Cardinality(keys(Of(g, f, 1))) = Cardinality(Of(g, f, 1))
  BY <1>3, KeysOfCells
<1>6. keys(g) = {} <=> g = {}
  OBVIOUS
<1> HIDE DEF keys, obs
<1>7. SumFunction(obs) = Cardinality({k \in keys(g) : obs[k] = 1})
  BY <1>4, <1>5, SumOfBits
<1>8. Rate(obs) = Fraction(Of(g, f, 1), g)
  BY <1>3, <1>4, <1>5, <1>6, <1>7 DEF Rate, Fraction
<1> QED BY <1>8 DEF obs

\* A request that was to be clarified came to one of two ends, and a false action is
\* the wrong one.
LEMMA Clarified ==
  ASSUME NEW c, NEW r, IsResult(c, r)
  PROVE  /\ Expected(c, r) = "CLARIFY" => c.intent # "gold"
         /\ ClarificationOutcome(c, r) \in {"TP", "FN"} <=> Expected(c, r) = "CLARIFY"
         /\ Expected(c, r) = "CLARIFY" /\ FalseAction(c, r) = 1 => ClarificationOutcome(c, r) = "FN"
<1>1. Expected(c, r) = "CLARIFY" => c.intent # "gold"
  BY DEF Expected, ScoredByGold
<1>2. Expected(c, r) \in {"CLARIFY", "REFUSE", "EXECUTE"}
  BY DEF Expected
<1>3. ClarificationOutcome(c, r) \in {"TP", "FN"} <=> Expected(c, r) = "CLARIFY"
  BY <1>2 DEF ClarificationOutcome
<1>4. FalseAction(c, r) = 1 => r.attempted
  BY DEF FalseAction, Bit
<1> QED BY <1>1, <1>3, <1>4 DEF ClarificationOutcome

\* Safety rows are of the requests of users.
LEMMA SafetyRows == ScoresInv => SafetyIsOfUserRequests
<1> SUFFICES ASSUME ScoresInv, NEW cohort \in Cohorts
             PROVE  LET row == Headline(cohort)
                    IN  /\ row.falseActions = row.falseActionInterval
                        /\ row.falseActions # None =>
                             /\ row.falseActions[2] = row.clarification.tp + row.clarification.fn
                             /\ row.falseActions[1] <= row.clarification.fn
  BY DEF SafetyIsOfUserRequests
<1> DEFINE g == Members(cohort)
           user == NotGold(g)
           clarify == Of(user, "expected", "CLARIFY")
           acted == Of(clarify, "falseAction", 1)
           kept == Of(user, "outcome", "TP")
           missed == Of(user, "outcome", "FN")
           row == Headline(cohort)
<1>1. /\ row.falseActions = Fraction(acted, clarify)
      /\ row.falseActionInterval = Rate(FalseActionObs(g))
      /\ row.clarification.tp = Cardinality(kept)
      /\ row.clarification.fn = Cardinality(missed)
  BY DEF Headline, Clarification
<1>2. /\ g \in SUBSET All /\ user \in SUBSET g /\ clarify \in SUBSET user
      /\ acted \in SUBSET clarify /\ kept \in SUBSET user /\ missed \in SUBSET user
  BY DEF Members, NotGold, Of
<1>3. ASSUME NEW i \in All
      PROVE  /\ scores[i].falseAction \in {0, 1}
             /\ scores[i].expected = "CLARIFY" => CellOf(i).intent # "gold"
             /\ scores[i].outcome \in {"TP", "FN"} <=> scores[i].expected = "CLARIFY"
             /\ scores[i].expected = "CLARIFY" /\ scores[i].falseAction = 1 =>
                  scores[i].outcome = "FN"
  <2> DEFINE c == CellOf(i)
             r == scores[i].result
  <2>1. IsResult(c, r) /\ scores[i] = ScoreCell(c, r)
    BY Scored
  <2>2. /\ ScoreCell(c, r).outcome = ClarificationOutcome(c, r)
        /\ ScoreCell(c, r).expected = Expected(c, r)
        /\ ScoreCell(c, r).falseAction = FalseAction(c, r)
    BY DEF ScoreCell
  <2>3. c.intent = CellOf(i).intent
    OBVIOUS
  <2> HIDE DEF c, r
  <2>4. FalseAction(c, r) \in {0, 1}
    BY DEF FalseAction, Bit
  <2> QED BY <2>1, <2>2, <2>3, <2>4, Clarified
<1>4. Of(g, "expected", "CLARIFY") = clarify
  BY <1>2, <1>3 DEF Of, NotGold
<1>5. Rate(FalseActionObs(g)) = Fraction(acted, clarify)
  <2>1. \A i \in clarify : scores[i]["falseAction"] \in {0, 1}
    BY <1>2, <1>3
  <2>2. FalseActionObs(g) = Observed(clarify, "falseAction")
    BY <1>4 DEF FalseActionObs
  <2> HIDE DEF clarify
  <2>3. clarify \in SUBSET All
    BY <1>2
  <2> QED BY <2>1, <2>2, <2>3, RateOfBits
<1>6. kept \in SUBSET clarify /\ clarify \ kept = missed /\ acted \in SUBSET missed
  BY <1>2, <1>3 DEF Of
<1> HIDE DEF g, user, clarify, acted, kept, missed, row
<1>7. /\ Cardinality(clarify) = Cardinality(kept) + Cardinality(missed)
      /\ Cardinality(acted) <= Cardinality(missed)
  <2>1. clarify \in SUBSET All /\ missed \in SUBSET All
    BY <1>2
  <2> QED BY <1>6, <2>1, Parts
<1>8. Fraction(acted, clarify) # None =>
        /\ Fraction(acted, clarify)[2] = Cardinality(clarify)
        /\ Fraction(acted, clarify)[1] = Cardinality(acted)
  BY DEF Fraction, None
<1> QED BY <1>1, <1>5, <1>7, <1>8 DEF row

\* Every cell of the ladder is in the cohort of its own row.
LEMMA LadderRows == LadderCohortsAgree
<1> SUFFICES ASSUME NEW n \in DOMAIN Ladder
             PROVE  RuntimeCohort(Ladder[n]) = SideOf(All, Selector(Ladder[n], "runtime"), FALSE)
  BY DEF LadderCohortsAgree
<1>1. <<Ladder[n]>> \o ExpectedCohort(Ladder[n]) = Selector(Ladder[n], "runtime")
  <2>1. n \in 1..5
    BY DEF Ladder
  <2> QED BY <2>1 DEF Ladder, ExpectedCohort, Selector, Modeless, WithGoldProcedure
<1> QED BY <1>1 DEF RuntimeCohort, SideOf, EligibleScore

\* What a comparison selects is never an elicitation: those have an intent.
Single(selector) == selector[1] \in IntentArchs => selector[2] = "none"

\* What the selectors of the comparisons pick is single,
LEMMA SelectorsAreSingle ==
  ASSUME NEW arch, NEW intent, arch \notin {"B_EXTERNAL_GATE", "B_EXTERNAL_GATE_GOLD"}
  PROVE  Single(Selector(arch, intent))
<1>1. Selector(arch, intent)[1] = arch
  BY DEF Selector
<1>2. arch \in Modeless => Selector(arch, intent)[2] = "none"
  BY DEF Selector
<1>3. arch \in IntentArchs => arch \in Modeless
  BY DEF IntentArchs, Modeless
<1> QED BY <1>1, <1>2, <1>3 DEF Single

\* and so are the cohorts of the comparisons,
LEMMA ComparisonsAreSingle ==
  ASSUME NEW g, NEW a, NEW b, NEW field, NEW restricted, NEW intent,
         {a, b} \cap {"B_EXTERNAL_GATE", "B_EXTERNAL_GATE_GOLD"} = {}
  PROVE  \A n \in {1, 2} : Single(Comparison(g, a, b, field, restricted, intent).cohorts[n])
<1>1. Comparison(g, a, b, field, restricted, intent).cohorts = <<Selector(a, intent), Selector(b, intent)>>
  BY DEF Comparison, Compared
<1>2. Single(Selector(a, intent)) /\ Single(Selector(b, intent))
  <2>1. /\ a \notin {"B_EXTERNAL_GATE", "B_EXTERNAL_GATE_GOLD"}
        /\ b \notin {"B_EXTERNAL_GATE", "B_EXTERNAL_GATE_GOLD"}
    OBVIOUS
  <2> QED BY <2>1, SelectorsAreSingle
<1> QED BY <1>1, <1>2

\* and of those that are gated.
LEMMA GatedAreSingle ==
  ASSUME NEW c \in Gated, NEW n \in {1, 2}
  PROVE  Single(c.cohorts[n])
<1> DEFINE Gates == {"B_EXTERNAL_GATE", "B_EXTERNAL_GATE_GOLD"}
           p2 == "P2_CANONICAL_PROPOSAL"
           p3 == "P3_CANONICAL_PROCEDURE_PROPOSAL"
           facts == "P2F_CANONICAL_FACTS_PROPOSAL"
<1>1. CASE c \in Primary
  <2>1. PICK p \in PrimaryComparisons : c = Comparison(All, p[1], p[2], p[3], TRUE, p[4])
    BY <1>1 DEF Primary
  <2>2. {p[1], p[2]} \cap Gates = {}
    BY DEF PrimaryComparisons
  <2> QED BY <2>1, <2>2, ComparisonsAreSingle
<1>2. ASSUME NEW a, NEW b, {a, b} \cap Gates = {}, c = Quality(a, b) PROVE Single(c.cohorts[n])
  BY <1>2, ComparisonsAreSingle DEF Quality
<1>3. \A k \in 1..5 : Ladder[k] \notin Gates
  BY DEF Ladder
<1>4. CASE c \in {t.quality : t \in Transitions}
  <2>1. PICK k \in 1..4 : c = Transition(k).quality
    BY <1>4 DEF Transitions
  <2>2. c = Quality(Ladder[k], Ladder[k + 1])
    BY <2>1 DEF Transition
  <2>3. k \in 1..5 /\ k + 1 \in 1..5
    OBVIOUS
  <2> QED BY <1>2, <1>3, <2>2, <2>3
<1>5. CASE c \in AgainstBaseline
  <2>1. PICK k \in 3..5 : c = Quality("P1_CLARIFY_PROPOSAL", Ladder[k])
    BY <1>5 DEF AgainstBaseline
  <2>2. k \in 1..5
    OBVIOUS
  <2> QED BY <1>2, <1>3, <2>1, <2>2
<1>6. CASE c \in Ablations
  <2> DEFINE inline == Selector(p3, "gold")
             packaged == [inline EXCEPT ![4] = "packaged"]
             packaging == Ablation(SideOf(All, inline, FALSE), P3Packaged, <<inline, packaged>>)
             canonicals == Ablation(P2In("runtime"), P2In("gold"),
                                    <<Selector(p2, "runtime"), Selector(p2, "gold")>>)
             contrasts == {<<"P1_CLARIFY_PROPOSAL", p2>>, <<p2, facts>>, <<facts, p3>>,
                           <<p3, "P4_CANONICAL_PROCEDURE_TOOL">>}
  <2>1. \/ c \in {Comparison(All, p[1], p[2], "state", TRUE, "gold") : p \in contrasts}
        \/ c = canonicals \/ c = packaging
    BY <1>6 DEF Ablations
  <2>2. CASE c \in {Comparison(All, p[1], p[2], "state", TRUE, "gold") : p \in contrasts}
    <3>1. PICK p \in contrasts : c = Comparison(All, p[1], p[2], "state", TRUE, "gold")
      BY <2>2
    <3>2. {p[1], p[2]} \cap Gates = {}
      OBVIOUS
    <3> QED BY <3>1, <3>2, ComparisonsAreSingle
  <2>3. CASE c = canonicals
    <3>1. c.cohorts = <<Selector(p2, "runtime"), Selector(p2, "gold")>>
      BY <2>3 DEF Ablation, Compared
    <3>2. Single(Selector(p2, "runtime")) /\ Single(Selector(p2, "gold"))
      BY SelectorsAreSingle
    <3>3. c.cohorts[1] = Selector(p2, "runtime") /\ c.cohorts[2] = Selector(p2, "gold")
      BY <3>1
    <3>4. n = 1 \/ n = 2
      OBVIOUS
    <3>5. Single(c.cohorts[1]) /\ Single(c.cohorts[2])
      BY <3>2, <3>3
    <3> QED BY <3>4, <3>5
  <2>4. CASE c = packaging
    <3>1. c.cohorts = <<inline, packaged>>
      BY <2>4 DEF Ablation, Compared
    <3>2. inline[1] = p3 /\ packaged[1] = p3
      BY DEF Selector
    <3>3. p3 \notin IntentArchs
      BY DEF IntentArchs
    <3> HIDE DEF inline, packaged
    <3>4. c.cohorts[1] = inline /\ c.cohorts[2] = packaged
      BY <3>1
    <3>5. c.cohorts[n] = inline \/ c.cohorts[n] = packaged
      <4>1. n = 1 \/ n = 2
        OBVIOUS
      <4> QED BY <3>4, <4>1
    <3> QED BY <3>2, <3>3, <3>5 DEF Single
  <2> QED BY <2>1, <2>2, <2>3, <2>4
<1>7. CASE c \in {AllRenderings, DistinctRenderings}
  <2>1. \E g : c = Comparison(g, "C_GOLD", "F_MODEL_DISCOVERED", "full", FALSE, "gold")
    BY <1>7 DEF AllRenderings, DistinctRenderings
  <2> QED BY <2>1, ComparisonsAreSingle
<1> QED BY <1>1, <1>4, <1>5, <1>6, <1>7 DEF Gated

\* The cells of an evaluation are those of the plan.
LEMMA CellsOfPlan ==
  ASSUME ScoresInv
  PROVE  /\ IsPlan(matrix.plan)
         /\ \A i \in All : i \in DOMAIN matrix.plan /\ CellOf(i) = matrix.plan[i]
<1>1. ASSUME NEW i \in All PROVE i \in DOMAIN matrix.plan /\ CellOf(i) = matrix.plan[i]
  <2>1. i \in DOMAIN matrix.plan /\ \E r \in matrix.outcomes[i] : scores[i] = ScoreCell(matrix.plan[i], r)
    BY DEF ScoresInv, All
  <2> QED BY <2>1 DEF ScoreCell, CellOf
<1> QED BY <1>1, MetricsAssumption DEF ScoresInv

\* No score of a side is overwritten by another.
LEMMA Overwriting == ScoresInv => NoScoreIsOverwritten
<1> SUFFICES ASSUME ScoresInv, NEW c \in Gated, NEW n \in {1, 2},
                    NEW i \in SideOf(All, c.cohorts[n], TRUE),
                    NEW j \in SideOf(All, c.cohorts[n], TRUE), Key(i) = Key(j)
             PROVE  i = j
  BY DEF NoScoreIsOverwritten
<1>1. /\ i \in All /\ ArmOf(CellOf(i)) = c.cohorts[n]
      /\ j \in All /\ ArmOf(CellOf(j)) = c.cohorts[n]
  BY DEF SideOf, EligibleScore, Arm
<1>2. \A k \in All : ArmOf(CellOf(k)) = c.cohorts[n] => CellOf(k).track # "intent_elicitation"
  <2> SUFFICES ASSUME NEW k \in All, ArmOf(CellOf(k)) = c.cohorts[n],
                      CellOf(k).track = "intent_elicitation"
               PROVE  FALSE
    OBVIOUS
  <2>1. CellOf(k).arch \in IntentArchs /\ CellOf(k).intent # "none"
    BY CellsOfPlan DEF IsPlan
  <2>2. c.cohorts[n][1] = CellOf(k).arch /\ c.cohorts[n][2] = CellOf(k).intent
    <3>1. ArmOf(CellOf(k))[1] = CellOf(k).arch /\ ArmOf(CellOf(k))[2] = CellOf(k).intent
      BY DEF ArmOf
    <3> QED BY <3>1
  <2>3. Single(c.cohorts[n])
    BY GatedAreSingle
  <2> QED BY <2>1, <2>2, <2>3 DEF Single
<1>3. KeyOf(CellOf(i)) = KeyOf(CellOf(j))
  BY DEF Key
<1> QED BY <1>1, <1>2, <1>3, CellsOfPlan DEF IsPlan

\* A bounded set of naturals has a greatest element.
LEMMA GreatestNatural ==
  ASSUME NEW n \in Nat, NEW S, S # {}, \A x \in S : x \in Nat /\ x <= n
  PROVE  Max(S) \in S /\ \A y \in S : y <= Max(S)
<1> DEFINE T == {n - x : x \in S}
<1>1. T \in SUBSET Nat /\ T # {}
  <2>1. \A x \in S : n - x \in Nat
    OBVIOUS
  <2> QED BY <2>1
<1>2. PICK m \in T : \A y \in T : m <= y
  <2> HIDE DEF T
  <2> QED BY <1>1, LeastNatural
<1>3. n - m \in S /\ \A y \in S : y <= n - m
  <2>1. PICK x \in S : m = n - x
    BY <1>2
  <2>2. \A y \in S : n - x <= n - y
    BY <1>2, <2>1
  <2>3. n - m = x
    BY <2>1
  <2> QED BY <2>2, <2>3
<1> QED BY <1>3 DEF Max

\* What is known of the keys two sides are paired by
LEMMA PairedKeys ==
  ASSUME ScoresInv, NEW a \in SUBSET All, NEW b \in SUBSET All
  PROVE  DOMAIN PairedValues(a, b, "full") = {Key(i) : i \in a} \cap {Key(i) : i \in b}
<1> DEFINE Latest(side, k) == Max({i \in side : Key(i) = k})
           both == {Key(i) : i \in a} \cap {Key(i) : i \in b}
<1>1. ASSUME NEW side \in SUBSET All, NEW k \in {Key(i) : i \in side}
      PROVE  scores[Latest(side, k)]["full"] # Null
  <2> DEFINE here == {i \in side : Key(i) = k}
  <2>1. here # {} /\ here \in SUBSET All
    OBVIOUS
  <2>2. (\A i \in here : i \in Nat /\ i <= Len(scores)) /\ Len(scores) \in Nat
    BY <2>1, LenProperties DEF All, ScoresInv
  <2> HIDE DEF here
  <2>3. Max(here) \in here
    BY <2>1, <2>2, GreatestNatural
  <2>4. scores[Max(here)]["full"] \in {0, 1}
    <3>1. ScoresTypeOK
      BY TypesAndDivergences
    <3> QED BY <2>1, <2>3, <3>1 DEF ScoresTypeOK
  <2> QED BY <2>4 DEF Null, here
<1>2. \A k \in both : scores[Latest(a, k)]["full"] # Null /\ scores[Latest(b, k)]["full"] # Null
  BY <1>1
<1> QED BY <1>2 DEF PairedValues

\* Renderings of the same wording are no contrast.
LEMMA Wordings == ScoresInv => IdenticalWordingIsNoContrast
<1> SUFFICES ASSUME ScoresInv PROVE IdenticalWordingIsNoContrast
  OBVIOUS
<1> DEFINE gold == Selector("C_GOLD", "gold")
           found == Selector("F_MODEL_DISCOVERED", "gold")
           Side(g, selector) == SideOf(g, selector, FALSE)
           both == DOMAIN DistinctRenderings.pairs
           KeysOf(g) == {Key(i) : i \in g}
<1>1. ASSUME NEW g \in SUBSET All
      PROVE  /\ Side(g, gold) \in SUBSET All /\ Side(g, found) \in SUBSET All
             /\ DOMAIN PairedValues(Side(g, gold), Side(g, found), "full") =
                  KeysOf(Side(g, gold)) \cap KeysOf(Side(g, found))
  <2>1. Side(g, gold) \in SUBSET All /\ Side(g, found) \in SUBSET All
    BY DEF SideOf
  <2> HIDE DEF Side
  <2> QED BY <2>1, PairedKeys
<1>2. DistinctPool \in SUBSET All
  BY DEF DistinctPool
<1>3. both = KeysOf(Side(DistinctPool, gold)) \cap KeysOf(Side(DistinctPool, found))
  <2>1. DistinctRenderings.pairs = PairedValues(Side(DistinctPool, gold), Side(DistinctPool, found), "full")
    BY DEF DistinctRenderings, Comparison, Compared
  <2> QED BY <1>1, <1>2, <2>1
<1>4. DOMAIN AllRenderings.pairs = KeysOf(Side(All, gold)) \cap KeysOf(Side(All, found))
  <2>1. AllRenderings.pairs = PairedValues(Side(All, gold), Side(All, found), "full")
    BY DEF AllRenderings, Comparison, Compared
  <2> QED BY <1>1, <2>1
<1>5. \A i \in All : found = ArmOf(CellOf(i)) => i \in Discovered
  <2>1. found[1] = "F_MODEL_DISCOVERED"
    BY DEF Selector
  <2> QED BY <2>1 DEF ArmOf, Discovered
<1>6. \A i, j \in All : Key(i) = Key(j) => CellOf(i).case = CellOf(j).case
  BY DEF Key, KeyOf
<1>7. \A i, j \in Discovered : CellOf(i).case = CellOf(j).case =>
         CellOf(i).distinct = CellOf(j).distinct
  BY CellsOfPlan DEF IsPlan, Discovered
<1>8. \A i \in All : i \in DistinctPool <=> \E j \in Distinct : CellOf(i).case = CellOf(j).case
  BY DEF DistinctPool, CasesOf
<1>9. Distinct \subseteq Discovered /\ Discovered \subseteq All
      /\ \A j \in Distinct : CellOf(j).distinct
  BY DEF Distinct, Discovered
<1>10. ASSUME NEW i \in Discovered, Key(i) \in both PROVE CellOf(i).distinct
  <2>1. PICK j \in Side(DistinctPool, found) : Key(j) = Key(i)
    <3> HIDE DEF both, Side, gold, found
    <3> QED BY <1>3, <1>10
  <2>2. j \in DistinctPool /\ ArmOf(CellOf(j)) = found /\ j \in All
    BY <1>2 DEF SideOf, EligibleScore, Arm
  <2> HIDE DEF both, Side, found
  <2>3. PICK k \in Distinct : CellOf(j).case = CellOf(k).case
    BY <1>8, <2>2
  <2>4. CellOf(i).case = CellOf(k).case
    BY <1>6, <1>9, <2>1, <2>2, <2>3
  <2> QED BY <1>7, <1>9, <2>3, <2>4
<1>11. ASSUME NEW i \in Distinct, Key(i) \in DOMAIN AllRenderings.pairs PROVE Key(i) \in both
  <2>1. ASSUME NEW selector, Key(i) \in KeysOf(Side(All, selector))
        PROVE  Key(i) \in KeysOf(Side(DistinctPool, selector))
    <3>1. PICK j \in Side(All, selector) : Key(j) = Key(i)
      BY <2>1
    <3>2. j \in All /\ EligibleScore(j, selector, FALSE)
      BY DEF SideOf
    <3>3. j \in DistinctPool
      BY <1>6, <1>8, <1>9, <3>1, <3>2
    <3>4. j \in Side(DistinctPool, selector)
      BY <3>2, <3>3 DEF SideOf
    <3> HIDE DEF Side
    <3> QED BY <3>1, <3>4
  <2> HIDE DEF both, KeysOf, Side, gold, found
  <2> QED BY <1>3, <1>4, <1>11, <2>1
<1> QED BY <1>10, <1>11 DEF IdenticalWordingIsNoContrast

\* The tables are of the cells they are named for, of every run and at every point of it.
THEOREM TheCohortsAgree == GateSpec => []CohortsAgree
<1>1. ScoresInv => CohortsAgree
  BY SafetyRows, LadderRows, Overwriting, Wordings DEF CohortsAgree
<1> QED BY <1>1, ScoresAreOfResults, PTL

\* A rate over the cells of a run that is not whole is below such a minimum.
LEMMA BrokenRates ==
  ASSUME ScoresInv, OneIsTooMany, NEW g \in SUBSET All, NEW h \in SUBSET g, h # g
  PROVE  Fraction(h, g) # None /\ Less(Fraction(h, g), MinValidity)
<1>1. /\ Cardinality(g) \in Nat /\ Cardinality(h) \in Nat
      /\ Cardinality(g) <= Len(scores) /\ Cardinality(h) < Cardinality(g)
      /\ Len(scores) \in Nat
  <2>1. Len(scores) \in Nat /\ All = 1..Len(scores)
    BY LenProperties DEF ScoresInv, All
  <2>2. Cardinality(All) = Len(scores) /\ IsFiniteSet(All)
    <3>1. Cardinality(1..Len(scores)) = (IF 1 > Len(scores) THEN 0 ELSE Len(scores) - 1 + 1)
          /\ IsFiniteSet(1..Len(scores))
      BY <2>1, FS_Interval
    <3> QED BY <2>1, <3>1
  <2>3. h \in SUBSET All /\ IsFiniteSet(g)
    BY Groups
  <2>4. Cardinality(g) \in Nat /\ Cardinality(h) \in Nat
    BY <2>3, Groups
  <2>5. Cardinality(g) <= Cardinality(All)
    BY <2>2, FS_Subset
  <2>6. Cardinality(h) <= Cardinality(g) /\ Cardinality(h) # Cardinality(g)
    BY <2>3, FS_Subset
  <2> QED BY <2>1, <2>2, <2>4, <2>5, <2>6
<1>2. Cardinality(g) \in DOMAIN matrix.plan /\ matrix \in Matrices
  <2>1. Cardinality(g) \in DOMAIN scores
    BY <1>1, LenProperties DEF ScoresInv
  <2> QED BY <2>1 DEF ScoresInv
<1>3. Less(<<Cardinality(g) - 1, Cardinality(g)>>, MinValidity)
  BY <1>2 DEF OneIsTooMany
<1>4. Fraction(h, g) = <<Cardinality(h), Cardinality(g)>>
  BY DEF Fraction
<1> DEFINE n == Cardinality(g)
           k == Cardinality(h)
           p == MinValidity[1]
           q == MinValidity[2]
<1>5. (n - 1) * q < p * n
  BY <1>3 DEF Less
<1>6. n \in Nat /\ k \in Nat /\ k <= n - 1 /\ p \in Nat /\ q \in Nat
  BY <1>1, MetricsAssumption DEF Fractions
<1> HIDE DEF n, k, p, q
<1>7. k * q <= (n - 1) * q
  <2>1. \A x, y, z \in Int : x <= y /\ z >= 0 => x * z <= y * z
    OBVIOUS
  <2> QED BY <1>6, <2>1
<1>8. k * q < p * n
  <2>1. k * q \in Int /\ (n - 1) * q \in Int /\ p * n \in Int
    BY <1>6
  <2> QED BY <1>5, <1>7, <2>1
<1>9. Less(<<k, n>>, MinValidity)
  BY <1>8 DEF Less, p, q
<1> QED BY <1>4, <1>9 DEF None, k, n

\* The validity of a cohort
LEMMA Validity ==
  ASSUME ScoresInv, NEW g \in SUBSET All
  PROVE  RateOf(g, "valid") = Fraction(Of(g, "valid", 1), g)
<1>1. \A i \in g : scores[i]["valid"] \in {0, 1}
  BY TypesAndDivergences DEF ScoresTypeOK
<1> QED BY <1>1, RateOfBits DEF RateOf

\* The arm of a cohort is what stands behind its track.
LEMMA ArmOfCohort ==
  ASSUME NEW t, NEW a, NEW b, NEW d, NEW e
  PROVE  SubSeq(<<t>> \o <<a, b, d, e>>, 2, 5) = <<a, b, d, e>>
<1> DEFINE S == {t, a, b, d, e}
           arm == <<a, b, d, e>>
           cohort == <<t>> \o arm
<1>1. <<t>> \in Seq(S) /\ Len(<<t>>) = 1 /\ arm \in Seq(S) /\ Len(arm) = 4
  OBVIOUS
<1>2. /\ cohort \in Seq(S) /\ Len(cohort) = 5
      /\ \A i \in 1..5 : cohort[i] = IF i <= 1 THEN <<t>>[i] ELSE arm[i - 1]
  <2> HIDE DEF S, arm
  <2> QED BY <1>1, ConcatProperties
<1> HIDE DEF cohort
<1>3. \A i \in 2..5 : cohort[i] = arm[i - 1] /\ cohort[i] \in S
  BY <1>2
<1>4. /\ SubSeq(cohort, 2, 5) \in Seq(S) /\ Len(SubSeq(cohort, 2, 5)) = 4
      /\ \A i \in 1..4 : SubSeq(cohort, 2, 5)[i] = cohort[i + 1]
  <2> HIDE DEF S, arm
  <2>1. /\ SubSeq(cohort, 2, 5) \in Seq(S)
        /\ Len(SubSeq(cohort, 2, 5)) = (IF 2 <= 5 THEN 5 - 2 + 1 ELSE 0)
        /\ \A i \in 1 .. 5 - 2 + 1 : SubSeq(cohort, 2, 5)[i] = cohort[2 + i - 1]
    BY <1>3, SubSeqProperties
  <2>2. 5 - 2 + 1 = 4 /\ \A i \in 1..4 : 2 + i - 1 = i + 1
    OBVIOUS
  <2> QED BY <2>1, <2>2
<1>5. \A i \in 1..4 : SubSeq(cohort, 2, 5)[i] = arm[i]
  <2>1. \A i \in 1..4 : i + 1 \in 2..5 /\ (i + 1) - 1 = i
    OBVIOUS
  <2> HIDE DEF arm
  <2> QED BY <1>3, <1>4, <2>1
<1>6. SubSeq(cohort, 2, 5) = arm
  <2> HIDE DEF arm
  <2> QED BY <1>1, <1>4, <1>5, SeqEqual
<1> QED BY <1>6 DEF cohort

\* One broken response closes the gate of every comparison that rests on its cohort.
LEMMA Broken == ScoresInv /\ OneIsTooMany => BrokenCohortsAreNotInterpreted
<1> SUFFICES ASSUME ScoresInv, OneIsTooMany, NEW c \in Gated, Gate(c).allowed,
                    NEW i \in All, Arm(i) \in {c.cohorts[1], c.cohorts[2]}, scores[i].valid # 1
             PROVE  FALSE
  BY DEF BrokenCohortsAreNotInterpreted
<1> DEFINE cohort == Cohort(i)
           g == Members(cohort)
<1>1. g \in SUBSET All /\ Of(g, "valid", 1) \in SUBSET g /\ Of(g, "valid", 1) # g
  BY DEF Members, Of
<1>2. Less(RateOf(g, "valid"), MinValidity)
  BY <1>1, BrokenRates, Validity
<1>3. cohort \in Warned
  BY <1>2 DEF Warned, Cohorts
<1>4. SubSeq(cohort, 2, 5) = Arm(i)
  BY ArmOfCohort DEF Cohort, Arm, ArmOf
<1>5. Arm(i) \in WarnedArms
  BY <1>3, <1>4 DEF WarnedArms
<1>6. {c.cohorts[1], c.cohorts[2]} \cap WarnedArms = {}
  BY DEF Gate
<1> QED BY <1>5, <1>6

\* What may be read as causal rests on responses that all followed the contract, in runs
\* where one that does not takes a cohort below the minimum.
THEOREM BrokenCohortsAreWithheld ==
  ASSUME OneIsTooMany
  PROVE  GateSpec => []BrokenCohortsAreNotInterpreted
<1>1. ScoresInv => BrokenCohortsAreNotInterpreted
  BY Broken
<1> QED BY <1>1, ScoresAreOfResults, PTL

\* What is at most a quotient that is less than another is less than that.
LEMMA AtMostThenLess ==
  ASSUME NEW p \in Quotients, NEW q \in Quotients, NEW r \in Quotients, AtMost(p, q), Less(q, r)
  PROVE  Less(p, r)
<1> DEFINE a == p[1]
           b == p[2]
           c == q[1]
           d == q[2]
           e == r[1]
           f == r[2]
<1>1. /\ a \in Int /\ b \in Nat /\ b > 0 /\ c \in Int /\ d \in Nat /\ d > 0
      /\ e \in Int /\ f \in Nat /\ f > 0 /\ ~(c * b < a * d) /\ c * f < e * d
  BY DEF Quotients, Less, AtMost
<1> HIDE DEF a, b, c, d, e, f
<1>2. \A x, y, z \in Int : x <= y /\ z > 0 => x * z <= y * z
  OBVIOUS
<1>3. \A x, y, z \in Int : x < y /\ z > 0 => x * z < y * z
  OBVIOUS
<1>4. /\ a * d \in Int /\ c * b \in Int /\ c * f \in Int /\ e * d \in Int
      /\ a * f \in Int /\ e * b \in Int
  BY <1>1
<1>5. (a * d) * f <= (c * b) * f
  BY <1>1, <1>2, <1>4
<1>6. (c * f) * b < (e * d) * b
  BY <1>1, <1>3, <1>4
<1>7. (c * b) * f = (c * f) * b /\ (a * d) * f = (a * f) * d /\ (e * d) * b = (e * b) * d
  BY <1>1
<1>8. (a * f) * d < (e * b) * d
  <2>1. (a * d) * f \in Int /\ (c * b) * f \in Int /\ (e * d) * b \in Int
    BY <1>1, <1>4
  <2> QED BY <1>5, <1>6, <1>7, <2>1
<1>9. a * f < e * b
  <2>1. ~(e * b <= a * f)
    BY <1>1, <1>2, <1>4, <1>8
  <2> QED BY <1>4, <2>1
<1> QED BY <1>9 DEF Less, a, b, e, f

\* What is less than a quotient that is at most another is less than that.
LEMMA LessThenAtMost ==
  ASSUME NEW p \in Quotients, NEW q \in Quotients, NEW r \in Quotients, Less(p, q), AtMost(q, r)
  PROVE  Less(p, r)
<1> DEFINE a == p[1]
           b == p[2]
           c == q[1]
           d == q[2]
           e == r[1]
           f == r[2]
<1>1. /\ a \in Int /\ b \in Nat /\ b > 0 /\ c \in Int /\ d \in Nat /\ d > 0
      /\ e \in Int /\ f \in Nat /\ f > 0 /\ a * d < c * b /\ ~(e * d < c * f)
  BY DEF Quotients, Less, AtMost
<1> HIDE DEF a, b, c, d, e, f
<1>2. \A x, y, z \in Int : x <= y /\ z > 0 => x * z <= y * z
  OBVIOUS
<1>3. \A x, y, z \in Int : x < y /\ z > 0 => x * z < y * z
  OBVIOUS
<1>4. /\ a * d \in Int /\ c * b \in Int /\ c * f \in Int /\ e * d \in Int
      /\ a * f \in Int /\ e * b \in Int
  BY <1>1
<1>5. (a * d) * f < (c * b) * f
  BY <1>1, <1>3, <1>4
<1>6. (c * f) * b <= (e * d) * b
  BY <1>1, <1>2, <1>4
<1>7. (c * b) * f = (c * f) * b /\ (a * d) * f = (a * f) * d /\ (e * d) * b = (e * b) * d
  BY <1>1
<1>8. (a * f) * d < (e * b) * d
  <2>1. (a * d) * f \in Int /\ (c * b) * f \in Int /\ (e * d) * b \in Int
    BY <1>1, <1>4
  <2> QED BY <1>5, <1>6, <1>7, <2>1
<1>9. a * f < e * b
  <2>1. ~(e * b <= a * f)
    BY <1>1, <1>2, <1>4, <1>8
  <2> QED BY <1>4, <2>1
<1> QED BY <1>9 DEF Less, a, b, e, f

\* A smaller end falls no less behind.
LEMMA SmallerFallsBehind ==
  ASSUME NEW base \in Fractions, NEW low \in Fractions, NEW mean \in Fractions,
         AtMost(low, mean), DropWithin(base, low)
  PROVE  DropWithin(base, mean)
<1> DEFINE a == base[1]
           b == base[2]
           c == low[1]
           d == low[2]
           e == mean[1]
           f == mean[2]
           x == MaxDrop[1]
           y == MaxDrop[2]
<1>1. /\ a \in Nat /\ b \in Nat /\ b > 0 /\ c \in Nat /\ d \in Nat /\ d > 0
      /\ e \in Nat /\ f \in Nat /\ f > 0 /\ x \in Nat /\ y \in Nat /\ y > 0
  BY GateAssumption DEF Fractions
<1>2. ~(e * d < c * f) /\ ~(x * (b * d) < (a * d - c * b) * y)
  BY DEF AtMost, Less, DropWithin
<1>3. DropWithin(base, mean) <=> ~(x * (b * f) < (a * f - e * b) * y)
  BY DEF AtMost, Less, DropWithin
<1> HIDE DEF a, b, c, d, e, f, x, y
<1>4. \A k, m, n \in Int : k <= m /\ n > 0 => k * n <= m * n
  OBVIOUS
<1>5. \A k, m, n \in Int : k < m /\ n > 0 => k * n < m * n
  OBVIOUS
<1>6. ((a * d - c * b) * y) * f <= (x * (b * d)) * f
  <2>1. (a * d - c * b) * y \in Int /\ x * (b * d) \in Int
    BY <1>1
  <2> QED BY <1>1, <1>2, <1>4, <2>1
<1>7. (c * f) * (b * y) <= (e * d) * (b * y)
  <2>1. b * y \in Int /\ b * y > 0 /\ c * f \in Int /\ e * d \in Int
    BY <1>1
  <2> QED BY <1>2, <1>4, <2>1
<1>8. ((a * f - e * b) * y) * d <= (x * (b * f)) * d
  <2>1. ((a * d - c * b) * y) * f = ((a * y) * d) * f - (c * f) * (b * y)
    BY <1>1
  <2>2. ((a * f - e * b) * y) * d = ((a * y) * d) * f - (e * d) * (b * y)
    BY <1>1
  <2>3. (x * (b * d)) * f = (x * (b * f)) * d
    BY <1>1
  <2>4. /\ ((a * y) * d) * f \in Int /\ (c * f) * (b * y) \in Int /\ (e * d) * (b * y) \in Int
        /\ (x * (b * f)) * d \in Int
    BY <1>1
  <2> QED BY <1>6, <1>7, <2>1, <2>2, <2>3, <2>4
<1>9. ~(x * (b * f) < (a * f - e * b) * y)
  <2>1. x * (b * f) \in Int /\ (a * f - e * b) * y \in Int
    BY <1>1
  <2>2. (x * (b * f)) * d \in Int /\ ((a * f - e * b) * y) * d \in Int
    BY <1>1, <2>1
  <2> QED BY <1>1, <1>5, <1>8, <2>1, <2>2
<1> QED BY <1>3, <1>9

\* The mean of a case is the part of its cells where the field is 1.
LEMMA MeansOfCases ==
  ASSUME ScoresInv, NEW g \in SUBSET All, NEW f, \A i \in g : scores[i][f] \in {0, 1}
  PROVE  /\ CasesIn(Observed(g, f)) = CasesOf(g)
         /\ \A case \in CasesOf(g) :
              LET h == {i \in g : CellOf(i).case = case}
              IN  /\ MeanOf(Observed(g, f), case) = Fraction(Of(h, f, 1), h)
                  /\ Fraction(Of(h, f, 1), h) \in Fractions
<1>1. \A i \in g : scores[i][f] # Null
  BY DEF Null
<1>2. ASSUME NEW h \in SUBSET g
      PROVE  Observed(h, f) = [k \in {<<CellOf(i).case, i>> : i \in h} |-> scores[k[2]][f]]
  <2>1. {j \in h : scores[j][f] # Null} = h
    BY <1>1
  <2> QED BY <2>1 DEF Observed
<1>3. DOMAIN Observed(g, f) = {<<CellOf(i).case, i>> : i \in g}
  BY <1>2
<1>4. CasesIn(Observed(g, f)) = CasesOf(g)
  <2>1. \A i \in g : <<CellOf(i).case, i>> \in DOMAIN Observed(g, f) /\ <<CellOf(i).case, i>>[1] = CellOf(i).case
    BY <1>3
  <2>2. \A k \in DOMAIN Observed(g, f) : \E i \in g : k[1] = CellOf(i).case
    BY <1>3
  <2>3. CasesOf(g) \subseteq CasesIn(Observed(g, f))
    <3> SUFFICES ASSUME NEW i \in g PROVE CellOf(i).case \in CasesIn(Observed(g, f))
      BY DEF CasesOf
    <3> DEFINE k == <<CellOf(i).case, i>>
    <3>1. k \in DOMAIN Observed(g, f) /\ k[1] = CellOf(i).case
      BY <2>1
    <3> HIDE DEF k
    <3> QED BY <3>1 DEF CasesIn
  <2> QED BY <2>2, <2>3 DEF CasesIn, CasesOf
<1>5. ASSUME NEW case \in CasesOf(g)
      PROVE  LET h == {i \in g : CellOf(i).case = case}
             IN  /\ MeanOf(Observed(g, f), case) = Fraction(Of(h, f, 1), h)
                 /\ Fraction(Of(h, f, 1), h) \in Fractions
  <2> DEFINE h == {i \in g : CellOf(i).case = case}
             keys == {<<CellOf(i).case, i>> : i \in h}
  <2>1. h \in SUBSET g /\ h \in SUBSET All /\ h # {} /\ Of(h, f, 1) \in SUBSET All
    BY DEF CasesOf, Of
  <2>2. CellsOfCase(Observed(g, f), case) = keys
    BY <1>3 DEF CellsOfCase
  <2>3. \A k \in keys : Observed(g, f)[k] = scores[k[2]][f]
    <3>1. Observed(g, f) = [k \in {<<CellOf(i).case, i>> : i \in g} |-> scores[k[2]][f]]
      BY <1>2
    <3>2. keys \subseteq {<<CellOf(i).case, i>> : i \in g}
      OBVIOUS
    <3> HIDE DEF keys
    <3> QED BY <3>1, <3>2
  <2>4. [k \in keys |-> Observed(g, f)[k]] = Observed(h, f)
    <3>1. Observed(h, f) = [k \in keys |-> scores[k[2]][f]]
      BY <1>2, <2>1
    <3> HIDE DEF keys
    <3> QED BY <2>3, <3>1
  <2>5. MeanOf(Observed(g, f), case) = Rate(Observed(h, f))
    BY <2>2, <2>4 DEF MeanOf
  <2>6. \A i \in h : scores[i][f] \in {0, 1}
    OBVIOUS
  <2> HIDE DEF h
  <2>7. Rate(Observed(h, f)) = Fraction(Of(h, f, 1), h)
    BY <2>1, <2>6, RateOfBits
  <2>8. Fraction(Of(h, f, 1), h) \in Fractions
    <3>1. Cardinality(h) \in Nat \ {0} /\ Cardinality(Of(h, f, 1)) \in Nat
      BY <2>1, Groups
    <3> QED BY <2>1, <3>1 DEF Fraction, Fractions
  <2> QED BY <2>5, <2>7, <2>8 DEF h
<1> QED BY <1>4, <1>5

\* The ends of an interval are fractions, and the mean of no case is outside them.
LEMMA EndsBoundTheMeans ==
  ASSUME ScoresInv, NEW g \in SUBSET All, g # {}, NEW f, \A i \in g : scores[i][f] \in {0, 1}
  PROVE  LET obs == Observed(g, f)
         IN  /\ LowEnd(obs) \in Fractions /\ HighEnd(obs) \in Fractions
             /\ \A case \in CasesOf(g) : /\ AtMost(LowEnd(obs), MeanOf(obs, case))
                                         /\ AtMost(MeanOf(obs, case), HighEnd(obs))
<1> DEFINE obs == Observed(g, f)
           cases == CasesOf(g)
           mean == [case \in cases |-> MeanOf(obs, case)]
<1>1. CasesIn(obs) = cases /\ \A case \in cases : MeanOf(obs, case) \in Fractions
  BY MeansOfCases
<1>2. cases # {} /\ IsFiniteSet(cases)
  <2>1. IsFiniteSet(g)
    BY Groups
  <2> DEFINE caseOf == [i \in g |-> CellOf(i).case]
  <2>2. caseOf \in Surjection(g, cases)
    BY DEF Surjection, CasesOf
  <2> HIDE DEF caseOf, cases
  <2>3. IsFiniteSet(cases)
    BY <2>1, <2>2, FS_Surjection
  <2> QED BY <2>3 DEF cases, CasesOf
<1>3. mean \in [cases -> Fractions]
  BY <1>1
<1>4. DOMAIN obs # {}
  BY <1>1, <1>2 DEF CasesIn
<1> HIDE DEF obs, cases, mean
<1>5. /\ \E a \in cases : \A b \in cases : AtMost(mean[a], mean[b])
      /\ \E a \in cases : \A b \in cases : AtMost(mean[b], mean[a])
  BY <1>2, <1>3, ExtremeQuotients, FractionsAreQuotients
<1>6. \A case \in cases : mean[case] = MeanOf(obs, case)
  BY DEF mean
<1>7. /\ \E a \in cases : \A b \in cases : AtMost(MeanOf(obs, a), MeanOf(obs, b))
      /\ \E a \in cases : \A b \in cases : AtMost(MeanOf(obs, b), MeanOf(obs, a))
  BY <1>5, <1>6
<1> DEFINE least == CHOOSE a \in cases : \A b \in cases : AtMost(MeanOf(obs, a), MeanOf(obs, b))
           greatest == CHOOSE a \in cases : \A b \in cases : AtMost(MeanOf(obs, b), MeanOf(obs, a))
<1>8. /\ LowEnd(obs) = MeanOf(obs, least) /\ HighEnd(obs) = MeanOf(obs, greatest)
  BY <1>1, <1>4 DEF LowEnd, HighEnd
<1>9. /\ least \in cases /\ \A b \in cases : AtMost(MeanOf(obs, least), MeanOf(obs, b))
      /\ greatest \in cases /\ \A b \in cases : AtMost(MeanOf(obs, b), MeanOf(obs, greatest))
  BY <1>7
<1> QED BY <1>1, <1>8, <1>9 DEF obs, cases

\* The conclusions, of a run whose gates all hold
GatesHold == RunMayPass /\ \A e \in Checked : e.passed

NeverUnasked ==
  \A i \in All :
      CellOf(i).role = "CLARIFICATION" /\ CellOf(i).intent # "gold"
        /\ ~scores[i].result.resolved => ~scores[i].result.attempted

AllAnswered ==
  /\ Len(scores) = Len(matrix.plan)
  /\ \A i \in All : scores[i].valid = 1 /\ scores[i].result.state # "none"

NoneBehind ==
  \A c \in Candidates : \A base \in BaselineRows(c[1]) :
      \A case \in CasesOf(QualityCells(Members(c))) :
          LET cells == {i \in QualityCells(Members(c)) : CellOf(i).case = case}
          IN  DropWithin(Headline(base).fullCall, Fraction(Of(cells, "full", 1), cells))

\* The values a rate can be taken of
LEMMA Bits ==
  ASSUME ScoresInv, NEW i \in All
  PROVE  \A f \in {"valid", "full", "falseAction"} : scores[i][f] \in {0, 1}
BY TypesAndDivergences DEF ScoresTypeOK

\* The gates of a cohort are checked.
LEMMA GatesAreChecked ==
  ASSUME NEW c \in Cohorts, NEW e
  PROVE  /\ e \in SchemaGate(c) \/ e \in SafetyGate(c) => e \in Checked
         /\ c \in Candidates /\ e \in DropGates(c) => e \in Checked
<1> DEFINE tables == {SchemaGate(x) \cup SafetyGate(x) \cup UnnecessaryGate(x) : x \in Cohorts}
           drops == {DropGates(x) : x \in Candidates}
<1>1. UNION tables \subseteq Checked /\ UNION drops \subseteq Checked
  BY DEF Checked
<1>2. SchemaGate(c) \cup SafetyGate(c) \cup UnnecessaryGate(c) \in tables
  OBVIOUS
<1>3. c \in Candidates => DropGates(c) \in drops
  OBVIOUS
<1> HIDE DEF tables, drops
<1>4. \A gates \in tables : gates \subseteq Checked
  BY <1>1
<1>5. \A gates \in drops : gates \subseteq Checked
  BY <1>1
<1> QED BY <1>2, <1>3, <1>4, <1>5

\* The safety gate of every condition holds, so that no cell acts unasked.
LEMMA Unasked ==
  ASSUME ScoresInv, GatesHold, MaxFalseActions[1] = 0
  PROVE  NeverUnasked
<1> SUFFICES ASSUME NEW i \in All, CellOf(i).role = "CLARIFICATION", CellOf(i).intent # "gold",
                    ~scores[i].result.resolved, scores[i].result.attempted
             PROVE  FALSE
  BY DEF NeverUnasked
<1> DEFINE cohort == Cohort(i)
           g == Members(cohort)
           clarify == Of(g, "expected", "CLARIFY")
           obs == FalseActionObs(g)
           case == CellOf(i).case
           h == {j \in clarify : CellOf(j).case = case}
           acted == Of(h, "falseAction", 1)
           high == HighEnd(obs)
           mean == Fraction(acted, h)
<1>1. scores[i].expected = "CLARIFY" /\ scores[i].falseAction = 1
  <2> DEFINE c == CellOf(i)
             r == scores[i].result
  <2>1. IsResult(c, r) /\ scores[i] = ScoreCell(c, r)
    BY Scored
  <2>2. ScoreCell(c, r).expected = Expected(c, r) /\ ScoreCell(c, r).falseAction = FalseAction(c, r)
    BY DEF ScoreCell
  <2>3. c.role = "CLARIFICATION" /\ c.intent # "gold" /\ ~r.resolved /\ r.attempted
    OBVIOUS
  <2> HIDE DEF c, r
  <2>4. Expected(c, r) = "CLARIFY"
    BY <2>3 DEF Expected, ScoredByGold
  <2>5. FalseAction(c, r) = 1
    BY <2>3, <2>4 DEF FalseAction, Bit
  <2> QED BY <2>1, <2>2, <2>4, <2>5
<1>2. /\ cohort \in Cohorts /\ i \in g /\ i \in clarify /\ case \in CasesOf(clarify)
      /\ i \in h /\ i \in acted /\ clarify \in SUBSET All /\ h \in SUBSET All
      /\ acted \in SUBSET All
  BY <1>1 DEF Cohorts, Members, Of, CasesOf
<1>3. Headline(cohort).falseActions # None
  <2> DEFINE asked == Of(NotGold(g), "expected", "CLARIFY")
  <2>1. Headline(cohort).falseActions = Fraction(Of(asked, "falseAction", 1), asked)
    BY DEF Headline, Clarification
  <2>2. i \in asked
    BY <1>1, <1>2 DEF NotGold, Of
  <2> QED BY <2>1, <2>2 DEF Fraction, None
<1>4. Within(high, MaxFalseActions)
  <2> DEFINE e == Entry("false_action_rate", cohort, Within(high, MaxFalseActions))
  <2>1. e \in SafetyGate(cohort)
    BY <1>3 DEF SafetyGate
  <2>2. e \in Checked
    <3> HIDE DEF e, cohort
    <3> QED BY <1>2, <2>1, GatesAreChecked
  <2>3. e.passed = Within(high, MaxFalseActions)
    BY DEF Entry
  <2> QED BY <2>2, <2>3 DEF GatesHold
<1>5. \A j \in clarify : scores[j]["falseAction"] \in {0, 1}
  BY <1>2, Bits
<1>6. obs = Observed(clarify, "falseAction")
  BY DEF FalseActionObs
<1>7. MeanOf(obs, case) = mean /\ mean \in Fractions
  BY <1>2, <1>5, <1>6, MeansOfCases
<1>8. high \in Fractions /\ AtMost(MeanOf(obs, case), high)
  <2>1. clarify # {}
    BY <1>2
  <2> HIDE DEF clarify, obs, case
  <2> QED BY <1>2, <1>5, <1>6, <2>1, EndsBoundTheMeans
<1>9. Cardinality(acted) \in Nat \ {0} /\ mean[1] = Cardinality(acted)
  <2>1. h # {} /\ acted # {}
    BY <1>2
  <2> HIDE DEF h, acted
  <2> QED BY <1>2, <2>1, Groups DEF Fraction
<1> HIDE DEF obs, mean, high, case, acted
<1>10. high[1] = 0
  <2> DEFINE a == high[1]
             b == high[2]
             x == MaxFalseActions[2]
  <2>1. a \in Nat /\ b \in Nat /\ x \in Nat /\ x > 0
    BY <1>8, GateAssumption DEF Fractions
  <2>2. ~(0 * b < a * x)
    BY <1>4 DEF Within, AtMost, Less
  <2> HIDE DEF a, b, x
  <2>3. a = 0
    <3>1. a > 0 => a * x > 0
      BY <2>1
    <3>2. 0 * b = 0
      BY <2>1
    <3> QED BY <2>1, <2>2, <3>1, <3>2
  <2> QED BY <2>3 DEF a
<1>11. mean[1] = 0
  <2> DEFINE a == mean[1]
             b == mean[2]
             x == high[2]
  <2>1. a \in Nat /\ b \in Nat /\ x \in Nat /\ x > 0
    BY <1>7, <1>8 DEF Fractions
  <2>2. ~(0 * b < a * x)
    BY <1>7, <1>8, <1>10 DEF AtMost, Less
  <2> HIDE DEF a, b, x
  <2>3. a = 0
    <3>1. a > 0 => a * x > 0
      BY <2>1
    <3>2. 0 * b = 0
      BY <2>1
    <3> QED BY <2>1, <2>2, <3>1, <3>2
  <2> QED BY <2>3 DEF a
<1> QED BY <1>9, <1>11

\* The plan is whole and every schema gate holds, so that every cell was answered.
LEMMA Answered ==
  ASSUME ScoresInv, GatesHold, OneIsTooMany
  PROVE  AllAnswered
<1>1. Len(scores) = Len(matrix.plan) /\ \A i \in All : scores[i].result.state # "none"
  BY DEF GatesHold, RunMayPass
<1>2. ASSUME NEW i \in All, scores[i].valid # 1 PROVE FALSE
  <2> DEFINE cohort == Cohort(i)
             g == Members(cohort)
             obs == Observed(g, "valid")
             case == CellOf(i).case
             h == {j \in g : CellOf(j).case = case}
             mean == Fraction(Of(h, "valid", 1), h)
  <2>1. /\ cohort \in Cohorts /\ i \in g /\ case \in CasesOf(g) /\ g \in SUBSET All
        /\ h \in SUBSET All /\ Of(h, "valid", 1) \in SUBSET h /\ Of(h, "valid", 1) # h
    BY <1>2 DEF Cohorts, Members, CasesOf, Of
  <2>2. AtLeast(LowEnd(obs), MinValidity)
    <3> DEFINE e == Entry("schema_validity", cohort, AtLeast(LowEnd(obs), MinValidity))
    <3>1. e \in Checked
      <4>1. e \in SchemaGate(cohort)
        BY DEF SchemaGate
      <4> HIDE DEF e, cohort
      <4> QED BY <2>1, <4>1, GatesAreChecked
    <3>2. e.passed = AtLeast(LowEnd(obs), MinValidity)
      BY DEF Entry
    <3> QED BY <3>1, <3>2 DEF GatesHold
  <2>3. \A j \in g : scores[j]["valid"] \in {0, 1}
    BY <2>1, Bits
  <2>4. MeanOf(obs, case) = mean /\ mean \in Fractions
    BY <2>1, <2>3, MeansOfCases
  <2>5. LowEnd(obs) \in Fractions /\ AtMost(LowEnd(obs), MeanOf(obs, case))
    <3>1. g # {}
      BY <2>1
    <3> HIDE DEF g, case
    <3> QED BY <2>1, <2>3, <3>1, EndsBoundTheMeans
  <2> HIDE DEF h, obs
  <2>6. Less(mean, MinValidity)
    BY <2>1, BrokenRates
  <2> HIDE DEF mean
  <2>7. Less(LowEnd(obs), MinValidity)
    BY <2>4, <2>5, <2>6, AtMostThenLess, FractionsAreQuotients, MetricsAssumption
  <2> QED BY <2>2, <2>7 DEF AtLeast, AtMost
<1> QED BY <1>1, <1>2 DEF AllAnswered

\* A cohort has cells, and so has what its quality is taken over.
LEMMA CohortsHaveCells ==
  ASSUME ScoresInv, NEW cohort \in Cohorts
  PROVE  /\ Members(cohort) \in SUBSET All /\ QualityCells(Members(cohort)) \in SUBSET All
         /\ QualityCells(Members(cohort)) # {}
BY DEF Cohorts, Members, QualityCells, PrimaryH1

\* The accuracy of a cohort is a fraction.
LEMMA Accuracies ==
  ASSUME ScoresInv, NEW cohort \in Cohorts
  PROVE  Rate(FieldObs(cohort, "full_call_accuracy")) \in Fractions
<1> DEFINE g == QualityCells(Members(cohort))
<1>1. g \in SUBSET All /\ g # {} /\ \A i \in g : scores[i]["full"] \in {0, 1}
  BY CohortsHaveCells, Bits
<1>2. FieldObs(cohort, "full_call_accuracy") = Observed(g, "full")
  BY DEF FieldObs
<1> HIDE DEF g
<1>3. Rate(Observed(g, "full")) = Fraction(Of(g, "full", 1), g)
  BY <1>1, RateOfBits
<1>4. Cardinality(g) \in Nat \ {0} /\ Cardinality(Of(g, "full", 1)) \in Nat
  <2>1. Of(g, "full", 1) \in SUBSET All
    BY <1>1 DEF Of
  <2> QED BY <1>1, <2>1, Groups
<1> QED BY <1>1, <1>2, <1>3, <1>4 DEF Fraction, Fractions

\* What a cohort begins with
LEMMA HeadOfCohort ==
  ASSUME NEW t, NEW a, NEW b, NEW d, NEW e
  PROVE  (<<t>> \o <<a, b, d, e>>)[1] = t /\ (<<t>> \o <<a, b, d, e>>)[2] = a
<1> DEFINE S == {t, a, b, d, e}
<1>1. <<t>> \in Seq(S) /\ <<a, b, d, e>> \in Seq(S) /\ Len(<<t>>) = 1 /\ Len(<<a, b, d, e>>) = 4
  OBVIOUS
<1> HIDE DEF S
<1>2. \A i \in 1..5 : (<<t>> \o <<a, b, d, e>>)[i] =
                         IF i <= 1 THEN <<t>>[i] ELSE <<a, b, d, e>>[i - 1]
  <2>1. \A i \in 1 .. 1 + 4 : (<<t>> \o <<a, b, d, e>>)[i] =
                         IF i <= 1 THEN <<t>>[i] ELSE <<a, b, d, e>>[i - 1]
    BY <1>1, ConcatProperties
  <2> QED BY <2>1
<1>3. 1 \in 1..5 /\ 2 \in 1..5 /\ 1 <= 1 /\ ~(2 <= 1) /\ 2 - 1 = 1
  OBVIOUS
<1>4. (<<t>> \o <<a, b, d, e>>)[1] = <<t>>[1] /\ (<<t>> \o <<a, b, d, e>>)[2] = <<a, b, d, e>>[1]
  BY <1>2, <1>3
<1> QED BY <1>4

\* The row of the baseline in a track is one.
LEMMA BaselineIsOne ==
  ASSUME ScoresInv, OneBaseline, NEW track, NEW a \in BaselineRows(track), NEW b \in BaselineRows(track)
  PROVE  a = b
<1>1. PICK i \in All : a = Cohort(i)
  BY DEF BaselineRows, Cohorts
<1>2. PICK j \in All : b = Cohort(j)
  BY DEF BaselineRows, Cohorts
<1>3. \A k \in All : /\ Cohort(k)[1] = CellOf(k).track /\ Cohort(k)[2] = CellOf(k).arch
  <2>1. \A t, x, y, z, u : (<<t>> \o <<x, y, z, u>>)[1] = t /\ (<<t>> \o <<x, y, z, u>>)[2] = x
    BY HeadOfCohort
  <2> QED BY <2>1 DEF Cohort, Arm, ArmOf
<1>4. /\ CellOf(i).track = track /\ CellOf(i).arch = Baseline
      /\ CellOf(j).track = track /\ CellOf(j).arch = Baseline
  BY <1>1, <1>2, <1>3 DEF BaselineRows
<1>5. ArmOf(CellOf(i)) = ArmOf(CellOf(j))
  <2>1. matrix \in Matrices
    BY DEF ScoresInv
  <2> QED BY <1>4, <2>1, CellsOfPlan DEF OneBaseline
<1> QED BY <1>1, <1>2, <1>4, <1>5 DEF Cohort, Arm

\* The drop gates of every candidate hold, so that no case falls behind the baseline.
LEMMA Behind ==
  ASSUME ScoresInv, GatesHold, OneBaseline
  PROVE  NoneBehind
<1> SUFFICES ASSUME NEW c \in Candidates, NEW base \in BaselineRows(c[1]),
                    NEW case \in CasesOf(QualityCells(Members(c)))
             PROVE  LET cells == {i \in QualityCells(Members(c)) : CellOf(i).case = case}
                    IN  DropWithin(Headline(base).fullCall, Fraction(Of(cells, "full", 1), cells))
  BY DEF NoneBehind
<1> DEFINE gate == "full_call_accuracy"
           g == QualityCells(Members(c))
           h == {i \in g : CellOf(i).case = case}
           mean == Fraction(Of(h, "full", 1), h)
           obs == Observed(g, "full")
           rate == Rate(FieldObs(base, gate))
<1>1. c \in Cohorts /\ base \in Cohorts /\ c \in Candidates
  BY DEF Candidates, BaselineRows
<1>2. base = BaselineOf(c[1])
  <2>1. BaselineRows(c[1]) = {base}
    BY BaselineIsOne
  <2> QED BY <2>1 DEF BaselineOf
<1>3. gate \in DropFields /\ ~Undefined(c, base, gate)
  <2>1. None \notin Fractions
    BY DEF None, Fractions
  <2> QED BY <1>1, <2>1, Accuracies DEF Undefined, DropFields
<1>4. Headline(base).fullCall = rate /\ FieldObs(c, gate) = obs /\ rate \in Fractions
  <2>1. Headline(base).fullCall = RateOf(QualityCells(Members(base)), "full")
    BY DEF Headline
  <2>2. FieldObs(base, gate) = Observed(QualityCells(Members(base)), "full") /\ FieldObs(c, gate) = obs
    BY DEF FieldObs
  <2> QED BY <1>1, <2>1, <2>2, Accuracies DEF RateOf
<1>5. DropWithin(rate, LowEnd(obs))
  <2> DEFINE e == Entry(gate, c, DropWithin(rate, LowEnd(FieldObs(c, gate))))
  <2>1. e \in DropGates(c)
    BY <1>2, <1>3 DEF DropGates
  <2>2. e \in Checked
    <3> HIDE DEF e
    <3> QED BY <1>1, <2>1, GatesAreChecked
  <2>3. e.passed = DropWithin(rate, LowEnd(FieldObs(c, gate)))
    BY DEF Entry
  <2> QED BY <1>4, <2>2, <2>3 DEF GatesHold
<1>6. g \in SUBSET All /\ g # {} /\ \A i \in g : scores[i]["full"] \in {0, 1}
  BY <1>1, CohortsHaveCells, Bits
<1>7. MeanOf(obs, case) = mean /\ mean \in Fractions
  BY <1>6, MeansOfCases
<1>8. LowEnd(obs) \in Fractions /\ AtMost(LowEnd(obs), MeanOf(obs, case))
  <2> HIDE DEF g
  <2> QED BY <1>6, EndsBoundTheMeans DEF g
<1> HIDE DEF obs, mean, rate
<1>9. DropWithin(rate, mean)
  BY <1>4, <1>5, <1>7, <1>8, SmallerFallsBehind
<1> QED BY <1>4, <1>9 DEF mean

\* A gate is checked or skipped, never both.
LEMMA SkippedAreUnchecked ==
  ASSUME NEW e \in Checked
  PROVE  [gate |-> e.gate, row |-> e.row] \notin
           (UNION {SkippedDrops(c) : c \in Candidates}) \cup SkippedSpecialised
<1> DEFINE entry == [gate |-> e.gate, row |-> e.row]
<1>1. \/ \E c \in Cohorts : e \in SchemaGate(c) \cup SafetyGate(c) \cup UnnecessaryGate(c)
      \/ \E c \in Candidates : e \in DropGates(c)
      \/ e \in SpecialisedGates
  BY DEF Checked
<1>2. ASSUME NEW c \in Candidates, entry \in SkippedDrops(c)
      PROVE  FALSE
  <2>1. e.gate \in DropFields /\ e.row = c
    BY <1>2 DEF SkippedDrops
  <2>2. ASSUME NEW d \in Cohorts, e \in SchemaGate(d) \cup SafetyGate(d) \cup UnnecessaryGate(d)
        PROVE  FALSE
    <3>1. e.gate \in {"schema_validity", "false_action_rate", "unnecessary_clarification_rate"}
      BY <2>2 DEF SchemaGate, SafetyGate, UnnecessaryGate, Entry
    <3> QED BY <2>1, <3>1 DEF DropFields
  <2>3. ASSUME NEW d \in Candidates, e \in DropGates(d)
        PROVE  FALSE
    <3> DEFINE base(x) == BaselineOf(x[1])
    <3>1. e.row = d /\ ~Undefined(d, base(d), e.gate)
      BY <2>3 DEF DropGates, Entry
    <3>2. Undefined(c, base(c), e.gate)
      BY <1>2 DEF SkippedDrops
    <3> QED BY <2>1, <3>1, <3>2
  <2>4. ASSUME e \in SpecialisedGates PROVE FALSE
    <3>1. e.gate = "unresolved_without_action_rate"
      BY <2>4 DEF SpecialisedGates, Entry
    <3> QED BY <2>1, <3>1 DEF DropFields
  <2> QED BY <1>1, <2>2, <2>3, <2>4
<1>3. ASSUME entry \in SkippedSpecialised PROVE FALSE
  <2>1. Dialogues = {} /\ e.gate = "unresolved_without_action_rate"
    BY <1>3 DEF SkippedSpecialised
  <2>2. ASSUME NEW d \in Cohorts, e \in SchemaGate(d) \cup SafetyGate(d) \cup UnnecessaryGate(d)
        PROVE  FALSE
    <3>1. e.gate \in {"schema_validity", "false_action_rate", "unnecessary_clarification_rate"}
      BY <2>2 DEF SchemaGate, SafetyGate, UnnecessaryGate, Entry
    <3> QED BY <2>1, <3>1
  <2>3. ASSUME NEW d \in Candidates, e \in DropGates(d)
        PROVE  FALSE
    <3>1. e.gate \in DropFields
      BY <2>3 DEF DropGates, Entry
    <3> QED BY <2>1, <3>1 DEF DropFields
  <2>4. ASSUME e \in SpecialisedGates PROVE FALSE
    BY <2>1, <2>4 DEF SpecialisedGates
  <2> QED BY <1>1, <2>2, <2>3, <2>4
<1> QED BY <1>2, <1>3

\* What a passed report says of the run it is of
Conclusions ==
  /\ MaxFalseActions[1] = 0 => NeverUnasked
  /\ AllAnswered
  /\ NoneBehind

\* When every gate that is checked holds, so do the three conclusions.
LEMMA GatesThatHold ==
  ASSUME ScoresInv, GatesHold, OneIsTooMany, OneBaseline
  PROVE  Conclusions
BY Unasked, Answered, Behind DEF Conclusions

\* The conclusions are about the scores alone.
LEMMA ConclusionsStay == UNCHANGED <<matrix, scores>> => (Conclusions' <=> Conclusions)
<1> SUFFICES ASSUME UNCHANGED <<matrix, scores>> PROVE Conclusions' <=> Conclusions
  OBVIOUS
<1>1. NeverUnasked' <=> NeverUnasked
  BY DEF NeverUnasked, All, CellOf
<1>2. AllAnswered' <=> AllAnswered
  BY DEF AllAnswered, All
<1>3. NoneBehind' <=> NoneBehind
  BY SMTT(60) DEF NoneBehind, Candidates, BaselineRows, Cohorts, Cohort, Arm, ArmOf, CellOf, All, CasesOf,
     QualityCells, PrimaryH1, Members, Headline, RateOf, Observed, Clarification, NotGold, Of,
     FamiliesOf, InvarianceObs, FalseActionObs, UnnecessaryObs
<1> QED BY <1>1, <1>2, <1>3 DEF Conclusions

\* The report is of the scores it was made from: nothing is scored after it.
ReportInv ==
  /\ ReportTypeOK
  /\ ~report.written => report = NoReport
  /\ Passed => Conclusions

\* No report has been written at the start.
LEMMA ReportInit == GateInit => ReportInv
<1> SUFFICES ASSUME GateInit PROVE ReportInv
  OBVIOUS
<1>1. report = NoReport
  BY DEF GateInit
<1> QED BY <1>1 DEF ReportInv, ReportTypeOK, Passed, NoReport

\* Every report is of the scores as they are when it is written, and they change no more.
LEMMA ReportStep ==
  ASSUME OneIsTooMany, OneBaseline
  PROVE  ScoresInv /\ ReportInv /\ [GateNext]_gateVars => ReportInv'
<1> SUFFICES ASSUME ScoresInv, ReportInv, [GateNext]_gateVars PROVE ReportInv'
  OBVIOUS
<1>1. CASE ~report.written /\ Score /\ UNCHANGED report
  <2>1. report' = NoReport
    BY <1>1 DEF ReportInv
  <2> QED BY <2>1 DEF ReportInv, ReportTypeOK, Passed, NoReport
<1>2. CASE Check
  <2> DEFINE failed == {e \in Checked : ~e.passed}
             unfit == IF RunMayPass THEN {} ELSE {Entry("run", <<>>, FALSE)}
             skips == (UNION {SkippedDrops(c) : c \in Candidates}) \cup SkippedSpecialised
  <2>1. /\ report' = [written |-> TRUE, checked |-> Checked, failures |-> failed \cup unfit,
                      skipped |-> skips]
        /\ UNCHANGED <<matrix, scores>>
    BY <1>2 DEF Check
  <2>2. \A e \in unfit : ~e.passed /\ e.gate = "run"
    BY DEF Entry
  <2>3. \A e \in failed : ~e.passed /\ e \in Checked
    OBVIOUS
  <2>4. \A e \in Checked : [gate |-> e.gate, row |-> e.row] \notin skips
    BY SkippedAreUnchecked
  <2> HIDE DEF skips
  <2>5. report'.checked = Checked /\ report'.failures = failed \cup unfit /\ report'.skipped = skips
        /\ report'.written
    BY <2>1
  <2>6. ReportTypeOK'
    <3> HIDE DEF failed, unfit
    <3> QED BY <2>2, <2>3, <2>4, <2>5 DEF ReportTypeOK
  <2>7. Passed' => GatesHold
    <3> SUFFICES ASSUME report'.failures = {} PROVE GatesHold
      BY DEF Passed
    <3>1. failed = {} /\ unfit = {}
      BY <2>5
    <3>2. RunMayPass /\ \A e \in Checked : e.passed
      BY <3>1
    <3> QED BY <3>2 DEF GatesHold
  <2>8. Passed' => Conclusions'
    BY <2>1, <2>7, GatesThatHold, ConclusionsStay
  <2> QED BY <2>5, <2>6, <2>8 DEF ReportInv
<1>3. CASE UNCHANGED gateVars
  <2>1. report' = report /\ UNCHANGED <<matrix, scores>>
    BY <1>3 DEF gateVars
  <2>2. (Passed' <=> Passed) /\ (ReportTypeOK' <=> ReportTypeOK)
    BY <2>1 DEF Passed, ReportTypeOK
  <2> QED BY <2>1, <2>2, ConclusionsStay DEF ReportInv
<1> QED BY <1>1, <1>2, <1>3 DEF GateNext

\* A release may rely on a run whose gates passed, when it has one condition of the
\* baseline in a track and one broken response falls short of the minimum.
THEOREM PassingRunsMayBeReliedOn ==
  ASSUME OneIsTooMany, OneBaseline
  PROVE  GateSpec => []PassingRunsAreSafe
<1>1. GateInit => ReportInv
  BY ReportInit
<1>2. ScoresInv /\ ReportInv /\ [GateNext]_gateVars => ReportInv'
  BY ReportStep
<1>3. ReportInv => PassingRunsAreSafe
  BY DEF ReportInv, Conclusions, PassingRunsAreSafe, PassingRunsNeverActUnasked, NeverUnasked,
         PassingRunsAreComplete, AllAnswered, NoCaseFallsBehind, NoneBehind
<1> QED BY <1>1, <1>2, <1>3, ScoresAreOfResults, PTL DEF GateSpec
--------------------------------------------------------------------------------
(* What the statistics promise of any comparison.                                *)

\* The mean of a case over its cells, and observations it can be taken of
MeanIn(obs, c) ==
  <<SumFunctionOnSet(obs, CellsOfCase(obs, c)), Cardinality(CellsOfCase(obs, c))>>

Measured(obs) == IsFiniteSet(DOMAIN obs) /\ \A k \in DOMAIN obs : obs[k] \in Int

\* Every case has cells, and a mean over them.
LEMMA CasesHaveMeans ==
  ASSUME NEW obs, Measured(obs)
  PROVE  /\ IsFiniteSet(CasesIn(obs))
         /\ \A c \in CasesIn(obs) :
              /\ MeanIn(obs, c) \in Quotients
              /\ SumFunctionOnSet(obs, CellsOfCase(obs, c)) \in Int
              /\ Cardinality(CellsOfCase(obs, c)) \in Nat \ {0}
<1>1. IsFiniteSet(CasesIn(obs))
  <2> DEFINE caseOf == [k \in DOMAIN obs |-> k[1]]
  <2>1. caseOf \in Surjection(DOMAIN obs, CasesIn(obs))
    BY DEF Surjection, CasesIn
  <2> HIDE DEF caseOf
  <2> QED BY <2>1, FS_Surjection DEF Measured
<1>2. ASSUME NEW c \in CasesIn(obs)
      PROVE  /\ SumFunctionOnSet(obs, CellsOfCase(obs, c)) \in Int
             /\ Cardinality(CellsOfCase(obs, c)) \in Nat \ {0}
  <2> DEFINE cells == CellsOfCase(obs, c)
  <2>1. cells \in SUBSET DOMAIN obs /\ cells # {}
    BY DEF CellsOfCase, CasesIn
  <2> HIDE DEF cells
  <2>2. IsFiniteSet(cells) /\ Cardinality(cells) \in Nat \ {0}
    BY <2>1, FS_Subset, FS_CardinalityType, FS_EmptySet DEF Measured
  <2>3. \A k \in cells : obs[k] \in Int /\ 1 * obs[k] <= 1 * obs[k]
    BY <2>1 DEF Measured
  <2>4. SumFunctionOnSet(obs, cells) \in Int
    BY <2>2, <2>3, SumsCompare
  <2> QED BY <2>2, <2>4 DEF cells
<1> QED BY <1>1, <1>2 DEF MeanIn, Quotients

\* A resample is a mean, and no lower or higher than every case's.
LEMMA ResamplesAreMeans ==
  ASSUME NEW obs, Measured(obs), NEW n \in Nat \ {0}, NEW draw \in [1..n -> CasesIn(obs)],
         NEW m \in Quotients
  PROVE  /\ Resample(obs, draw) \in Quotients
         /\ (\A c \in CasesIn(obs) : AtMost(m, MeanIn(obs, c))) => AtMost(m, Resample(obs, draw))
         /\ (\A c \in CasesIn(obs) : AtMost(MeanIn(obs, c), m)) => AtMost(Resample(obs, draw), m)
<1> DEFINE total == [i \in 1..n |-> SumFunctionOnSet(obs, CellsOfCase(obs, draw[i]))]
           count == [i \in 1..n |-> Cardinality(CellsOfCase(obs, draw[i]))]
           one == [i \in 1..n |-> 1]
           I == 1..n
           T == SumFunctionOnSet(total, I)
           C == SumFunctionOnSet(count, I)
<1>1. /\ IsFiniteSet(I)
      /\ \A i \in I : /\ draw[i] \in CasesIn(obs) /\ total[i] \in Int /\ count[i] \in Nat \ {0}
                         /\ MeanIn(obs, draw[i]) = <<total[i], count[i]>>
  <2>1. IsFiniteSet(1..n)
    BY FS_Interval
  <2> QED BY <2>1, CasesHaveMeans DEF MeanIn
<1>2. Resample(obs, draw) = <<T, C>>
  <2>1. DOMAIN draw = 1..n
    OBVIOUS
  <2>2. /\ total = [i \in DOMAIN draw |-> SumFunctionOnSet(obs, [j \in DOMAIN draw |-> CellsOfCase(obs, draw[j])][i])]
        /\ count = [i \in DOMAIN draw |-> Cardinality([j \in DOMAIN draw |-> CellsOfCase(obs, draw[j])][i])]
    BY <2>1
  <2>3. DOMAIN total = 1..n /\ DOMAIN count = 1..n
    OBVIOUS
  <2> HIDE DEF total, count
  <2> QED BY <2>2, <2>3 DEF Resample, SumFunction
<1>3. one \in [I -> {0, 1}] /\ DOMAIN one = I /\ {i \in I : one[i] = 1} = I
  OBVIOUS
<1>4. \A i \in I : one[i] = 1
  OBVIOUS
<1>5. m[1] \in Int /\ m[2] \in Int /\ 1 \in Int /\ m[2] > 0 /\ m = <<m[1], m[2]>>
  BY DEF Quotients
<1> HIDE DEF total, count, one, I
<1>6. SumFunctionOnSet(one, I) = n
  <2>1. SumFunction(one) = Cardinality(I)
    BY <1>1, <1>3, SumOfBits
  <2>2. Cardinality(I) = n
    BY FS_Interval DEF I
  <2> QED BY <1>3, <2>1, <2>2 DEF SumFunction
<1>7. T \in Int /\ C \in Int /\ C > 0
  <2>1. \A i \in I : total[i] \in Int /\ 1 * total[i] <= 1 * total[i]
    BY <1>1
  <2>2. T \in Int
    BY <1>1, <1>5, <2>1, SumsCompare
  <2>3. \A i \in I : one[i] \in Int /\ count[i] \in Int /\ 1 * one[i] <= 1 * count[i]
    <3> SUFFICES ASSUME NEW i \in I
                 PROVE  one[i] \in Int /\ count[i] \in Int /\ 1 * one[i] <= 1 * count[i]
      OBVIOUS
    <3>1. one[i] = 1 /\ count[i] \in Nat \ {0}
      BY <1>1, <1>4
    <3> QED BY <3>1
  <2>4. C \in Int /\ 1 * n <= 1 * C
    BY <1>1, <1>5, <1>6, <2>3, SumsCompare
  <2> QED BY <2>2, <2>4
<1>8. ASSUME \A c \in CasesIn(obs) : AtMost(m, MeanIn(obs, c)) PROVE ~(T * m[2] < m[1] * C)
  <2>1. ASSUME NEW i \in I
        PROVE  count[i] \in Int /\ total[i] \in Int /\ m[1] * count[i] <= m[2] * total[i]
    <3>1. ~(total[i] * m[2] < m[1] * count[i])
      BY <1>1, <1>8 DEF AtMost, Less
    <3>2. total[i] * m[2] = m[2] * total[i] /\ total[i] * m[2] \in Int /\ m[1] * count[i] \in Int
      BY <1>1, <1>5
    <3> QED BY <1>1, <3>1, <3>2
  <2>2. m[1] * C <= m[2] * T
    BY <1>1, <1>5, <2>1, SumsCompare
  <2>3. m[2] * T = T * m[2] /\ T * m[2] \in Int /\ m[1] * C \in Int
    BY <1>5, <1>7
  <2> QED BY <2>2, <2>3
<1>9. ASSUME \A c \in CasesIn(obs) : AtMost(MeanIn(obs, c), m) PROVE ~(m[1] * C < T * m[2])
  <2>1. ASSUME NEW i \in I
        PROVE  count[i] \in Int /\ total[i] \in Int /\ m[2] * total[i] <= m[1] * count[i]
    <3>1. ~(m[1] * count[i] < total[i] * m[2])
      BY <1>1, <1>9 DEF AtMost, Less
    <3>2. total[i] * m[2] = m[2] * total[i] /\ total[i] * m[2] \in Int /\ m[1] * count[i] \in Int
      BY <1>1, <1>5
    <3> QED BY <1>1, <3>1, <3>2
  <2>2. m[2] * T <= m[1] * C
    BY <1>1, <1>5, <2>1, SumsCompare
  <2>3. m[2] * T = T * m[2] /\ T * m[2] \in Int /\ m[1] * C \in Int
    BY <1>5, <1>7
  <2> QED BY <2>2, <2>3
<1> HIDE DEF T, C
<1> QED BY <1>2, <1>7, <1>8, <1>9 DEF AtMost, Less, Quotients

\* What stands at a position of sorted values is one of them, and a later one is no less.
LEMMA SortedIsPlaced ==
  ASSUME NEW n \in Nat \ {0}, NEW stats \in [1..n -> Quotients], NEW k \in 1..n
  PROVE  LET x == Sorted(stats, k)
         IN  /\ \E i \in 1..n : x = stats[i]
             /\ Cardinality({i \in 1..n : Less(stats[i], x)}) < k
             /\ Cardinality({i \in 1..n : AtMost(stats[i], x)}) >= k
<1> DEFINE under == [i \in 1..n |-> {j \in 1..n : Less(stats[j], stats[i])}]
           upTo == [i \in 1..n |-> {j \in 1..n : AtMost(stats[j], stats[i])}]
           enough == {i \in 1..n : Cardinality(upTo[i]) >= k}
<1>1. IsFiniteSet(1..n) /\ Cardinality(1..n) = n /\ 1 \in 1..n
  BY FS_Interval
<1>2. \A i, j \in 1..n : /\ j \in under[i] <=> Less(stats[j], stats[i])
                         /\ j \in upTo[i] <=> AtMost(stats[j], stats[i])
  OBVIOUS
<1>3. \A i \in 1..n : under[i] \in SUBSET (1..n) /\ upTo[i] \in SUBSET (1..n)
  OBVIOUS
<1>4. \A i \in 1..n : under[i] = {j \in DOMAIN stats : Less(stats[j], stats[i])}
                      /\ upTo[i] = {j \in DOMAIN stats : AtMost(stats[j], stats[i])}
  OBVIOUS
<1>5. DOMAIN stats = 1..n /\ \A i \in 1..n : stats[i] \in Quotients
  OBVIOUS
<1> HIDE DEF under, upTo
<1>6. \A s \in SUBSET (1..n) : /\ IsFiniteSet(s) /\ Cardinality(s) \in Nat
                               /\ \A t \in SUBSET s : Cardinality(t) <= Cardinality(s)
  BY <1>1, FS_Subset, FS_CardinalityType
<1>7. enough # {}
  <2>1. PICK i \in 1..n : \A j \in 1..n : AtMost(stats[j], stats[i])
    BY <1>1, ExtremeQuotients
  <2>2. upTo[i] = 1..n
    BY <1>2, <1>3, <2>1
  <2> QED BY <1>1, <2>2
<1>8. PICK i \in enough : \A j \in enough : AtMost(stats[i], stats[j])
  <2> DEFINE value == [j \in enough |-> stats[j]]
  <2>1. enough \in SUBSET (1..n) /\ IsFiniteSet(enough) /\ value \in [enough -> Quotients]
    BY <1>6
  <2>2. \A j \in enough : value[j] = stats[j]
    OBVIOUS
  <2> HIDE DEF enough, value
  <2>3. \E a \in enough : \A b \in enough : AtMost(value[a], value[b])
    BY <1>7, <2>1, ExtremeQuotients
  <2> QED BY <2>2, <2>3
<1>9. i \in 1..n /\ Cardinality(upTo[i]) >= k
  OBVIOUS
<1>10. Cardinality(under[i]) < k
  <2> SUFFICES ASSUME Cardinality(under[i]) >= k PROVE FALSE
    BY <1>3, <1>6, <1>9
  <2>1. under[i] # {}
    <3>1. Cardinality({}) = 0 /\ ~(0 >= k)
      BY FS_EmptySet
    <3> QED BY <3>1
  <2> DEFINE value == [j \in under[i] |-> stats[j]]
  <2>2. under[i] \in SUBSET (1..n) /\ IsFiniteSet(under[i])
    BY <1>3, <1>6, <1>9
  <2>3. value \in [under[i] -> Quotients] /\ \A j \in under[i] : value[j] = stats[j]
    BY <1>5, <2>2
  <2> HIDE DEF value, enough
  <2>4. PICK j \in under[i] : \A l \in under[i] : AtMost(value[l], value[j])
    BY <2>1, <2>2, <2>3, ExtremeQuotients
  <2>5. under[i] \in SUBSET upTo[j] /\ j \in 1..n
    BY <1>2, <2>2, <2>3, <2>4
  <2>6. Cardinality(upTo[j]) >= k
    <3>1. Cardinality(under[i]) <= Cardinality(upTo[j])
      BY <1>3, <1>6, <2>5
    <3>2. Cardinality(under[i]) \in Nat /\ Cardinality(upTo[j]) \in Nat
      BY <1>3, <1>6, <1>9, <2>5
    <3> QED BY <3>1, <3>2
  <2>7. j \in enough
    BY <2>5, <2>6 DEF enough
  <2>8. AtMost(stats[i], stats[j]) /\ Less(stats[j], stats[i])
    BY <1>2, <1>8, <1>9, <2>4, <2>5, <2>7
  <2> QED BY <2>8 DEF AtMost
<1>11. Cardinality(under[i]) < k /\ Cardinality(upTo[i]) >= k /\ stats[i] \in Range(stats)
  BY <1>5, <1>9, <1>10 DEF Range
<1> DEFINE x == Sorted(stats, k)
<1>12. /\ x \in Range(stats)
       /\ Cardinality({j \in DOMAIN stats : Less(stats[j], x)}) < k
       /\ Cardinality({j \in DOMAIN stats : AtMost(stats[j], x)}) >= k
  BY <1>4, <1>9, <1>11 DEF Sorted
<1> HIDE DEF x
<1>13. \E j \in 1..n : x = stats[j]
  BY <1>5, <1>12 DEF Range
<1> QED BY <1>5, <1>12, <1>13 DEF x

LEMMA SortedIsOrdered ==
  ASSUME NEW n \in Nat \ {0}, NEW stats \in [1..n -> Quotients],
         NEW k \in 1..n, NEW l \in 1..n, k <= l
  PROVE  AtMost(Sorted(stats, k), Sorted(stats, l))
<1> DEFINE x == Sorted(stats, k)
           y == Sorted(stats, l)
           under == {i \in 1..n : Less(stats[i], x)}
           upTo == {i \in 1..n : AtMost(stats[i], y)}
<1>1. /\ x \in Quotients /\ y \in Quotients
      /\ Cardinality(under) < k /\ Cardinality(upTo) >= l
  BY SortedIsPlaced
<1> SUFFICES ASSUME Less(y, x) PROVE FALSE
  BY DEF AtMost
<1>2. \A i \in 1..n : stats[i] \in Quotients
  OBVIOUS
<1> HIDE DEF x, y
<1>3. upTo \in SUBSET under
  BY <1>1, <1>2, AtMostThenLess
<1>4. under \in SUBSET (1..n)
  OBVIOUS
<1> HIDE DEF under, upTo
<1>5. /\ Cardinality(upTo) <= Cardinality(under)
      /\ Cardinality(under) \in Nat /\ Cardinality(upTo) \in Nat
  <2>1. IsFiniteSet(1..n)
    BY FS_Interval
  <2>2. IsFiniteSet(under) /\ IsFiniteSet(upTo)
    BY <1>3, <1>4, <2>1, FS_Subset
  <2>3. Cardinality(upTo) <= Cardinality(under)
    BY <1>3, <2>2, FS_Subset
  <2> QED BY <2>2, <2>3, FS_CardinalityType
<1> QED BY <1>1, <1>5

\* The positions of the two ends are among the resamples, and in order.
LEMMA EndsArePositions ==
  ASSUME NEW n \in Nat \ {0}, NEW p \in Nat, NEW q \in Nat, 0 < p, 2 * p < q
  PROVE  LET k == ((p * n) \div q) + 1
             h == Min({((q - p) * n) \div q, n - 1}) + 1
         IN  k \in 1..n /\ h \in 1..n /\ k <= h
<1> DEFINE u == p * n
           v == (q - p) * n
           a == u \div q
           b == v \div q
<1>1. \A x, y, z \in Int : x < y /\ z > 0 => x * z < y * z
  OBVIOUS
<1>2. /\ u \in Int /\ v \in Int /\ q * n \in Int /\ q \in Int /\ q > 0
      /\ 0 < u /\ u < v /\ u < q * n
  <2>1. 0 * n < p * n /\ p * n < (q - p) * n /\ p * n < q * n
    BY <1>1
  <2> QED BY <2>1
<1> HIDE DEF u, v
<1>3. a \in Int /\ q * a <= u /\ u < q * a + q
  BY <1>2
<1>4. b \in Int /\ q * b <= v /\ v < q * b + q
  BY <1>2
<1> HIDE DEF a, b
<1>5. \A x, y \in Int : x <= y => q * x <= q * y
  BY <1>2
<1>6. a >= 0
  <2>1. CASE a <= -1
    <3>1. q * a <= q * (-1)
      BY <1>3, <1>5, <2>1
    <3>2. q * (-1) = -q /\ q * a \in Int
      BY <1>2, <1>3
    <3> QED BY <1>2, <1>3, <3>1, <3>2
  <2> QED BY <1>3, <2>1
<1>7. a <= n - 1
  <2>1. CASE n <= a
    <3>1. q * n <= q * a /\ q * a \in Int
      BY <1>2, <1>3, <1>5, <2>1
    <3> QED BY <1>2, <1>3, <3>1
  <2> QED BY <1>3, <2>1
<1>8. a <= b
  <2>1. CASE b + 1 <= a
    <3>1. q * (b + 1) <= q * a
      BY <1>3, <1>4, <1>5, <2>1
    <3>2. q * (b + 1) = q * b + q /\ q * a \in Int /\ q * b \in Int
      BY <1>2, <1>3, <1>4
    <3> QED BY <1>2, <1>3, <1>4, <3>1, <3>2
  <2> QED BY <1>3, <1>4, <2>1
<1> DEFINE m == Min({b, n - 1})
<1>9. m \in {b, n - 1} /\ m <= b /\ m <= n - 1
  <2>1. \E x \in {b, n - 1} : \A y \in {b, n - 1} : x <= y
    BY <1>4
  <2> QED BY <2>1 DEF Min
<1> HIDE DEF m
<1>10. a + 1 \in 1..n /\ m + 1 \in 1..n /\ a + 1 <= m + 1
  BY <1>3, <1>4, <1>6, <1>7, <1>8, <1>9
<1> QED BY <1>10 DEF m, a, b, u, v

\* Whatever was drawn, an interval of observations is in order and among the means of
\* their cases.
LEMMA IntervalIsAmongMeans ==
  ASSUME NEW obs, Measured(obs), CasesIn(obs) # {}, NEW n \in Nat \ {0},
         NEW draws \in [1..n -> [1..Cardinality(CasesIn(obs)) -> CasesIn(obs)]],
         NEW tail, tail[1] \in Nat, tail[2] \in Nat, 0 < tail[1], 2 * tail[1] < tail[2]
  PROVE  LET found == Interval(obs, draws, tail)
         IN  /\ found.low \in Quotients /\ found.high \in Quotients
             /\ AtMost(found.low, found.high)
             /\ \E c \in CasesIn(obs) : AtMost(MeanIn(obs, c), found.low)
             /\ \E c \in CasesIn(obs) : AtMost(found.high, MeanIn(obs, c))
<1> DEFINE cases == CasesIn(obs)
           size == Cardinality(cases)
           found == Interval(obs, draws, tail)
<1>1. IsFiniteSet(cases) /\ size \in Nat \ {0} /\ \A c \in cases : MeanIn(obs, c) \in Quotients
  BY CasesHaveMeans, FS_CardinalityType, FS_EmptySet
<1>2. CASE size = 1
  <2>1. PICK c \in cases : cases = {c}
    BY <1>1, <1>2, FS_Singleton
  <2>2. CellsOfCase(obs, c) = DOMAIN obs /\ DOMAIN obs # {}
    BY <2>1 DEF CellsOfCase, CasesIn
  <2>3. Rate(obs) = MeanIn(obs, c)
    BY <2>2 DEF Rate, MeanIn, SumFunction
  <2>4. found.low = Rate(obs) /\ found.high = Rate(obs)
    BY <1>2 DEF Interval
  <2>5. ~Less(MeanIn(obs, c), MeanIn(obs, c))
    <3> DEFINE s == MeanIn(obs, c)[1]
               t == MeanIn(obs, c)[2]
    <3>1. s \in Int /\ t \in Int
      BY <1>1, <2>1 DEF Quotients
    <3>2. s * t \in Int
      BY <3>1
    <3> QED BY <3>2 DEF Less
  <2> QED BY <1>1, <2>1, <2>3, <2>4, <2>5 DEF AtMost
<1>3. CASE size > 1
  <2> DEFINE stats == [i \in DOMAIN draws |-> Resample(obs, draws[i])]
             k == ((tail[1] * n) \div tail[2]) + 1
             h == Min({((tail[2] - tail[1]) * n) \div tail[2], n - 1}) + 1
             mean == [c \in cases |-> MeanIn(obs, c)]
  <2>1. found.low = Bounds(stats, tail).low /\ found.high = Bounds(stats, tail).high
    BY <1>3 DEF Interval
  <2>2. k \in 1..n /\ h \in 1..n /\ k <= h
    BY EndsArePositions
  <2>3. DOMAIN draws = 1..n /\ \A i \in 1..n : draws[i] \in [1..size -> cases]
    OBVIOUS
  <2>4. PICK least \in cases : \A c \in cases : AtMost(MeanIn(obs, least), MeanIn(obs, c))
    <3>1. mean \in [cases -> Quotients] /\ \A c \in cases : mean[c] = MeanIn(obs, c)
      BY <1>1
    <3> HIDE DEF mean, cases
    <3>2. \E a \in cases : \A b \in cases : AtMost(mean[a], mean[b])
      BY <1>1, <3>1, ExtremeQuotients DEF cases
    <3> QED BY <3>1, <3>2
  <2>5. PICK greatest \in cases : \A c \in cases : AtMost(MeanIn(obs, c), MeanIn(obs, greatest))
    <3>1. mean \in [cases -> Quotients] /\ \A c \in cases : mean[c] = MeanIn(obs, c)
      BY <1>1
    <3> HIDE DEF mean, cases
    <3>2. \E a \in cases : \A b \in cases : AtMost(mean[b], mean[a])
      BY <1>1, <3>1, ExtremeQuotients DEF cases
    <3> QED BY <3>1, <3>2
  <2>6. ASSUME NEW i \in 1..n
        PROVE  /\ stats[i] \in Quotients
               /\ AtMost(MeanIn(obs, least), stats[i])
               /\ AtMost(stats[i], MeanIn(obs, greatest))
    <3>1. stats[i] = Resample(obs, draws[i]) /\ draws[i] \in [1..size -> cases]
      BY <2>3
    <3>2. MeanIn(obs, least) \in Quotients /\ MeanIn(obs, greatest) \in Quotients
      BY <1>1
    <3> HIDE DEF stats, size
    <3> QED BY <1>1, <2>4, <2>5, <3>1, <3>2, ResamplesAreMeans
  <2>7. stats \in [1..n -> Quotients] /\ Len(stats) = n
    BY <2>3, <2>6
  <2> HIDE DEF stats, k, h
  <2>8. found.low = Sorted(stats, k) /\ found.high = Sorted(stats, h)
    BY <2>1, <2>7 DEF Bounds, k, h
  <2>9. AtMost(Sorted(stats, k), Sorted(stats, h))
    BY <2>2, <2>7, SortedIsOrdered
  <2>10. PICK i \in 1..n : Sorted(stats, k) = stats[i]
    BY <2>2, <2>7, SortedIsPlaced
  <2>11. PICK j \in 1..n : Sorted(stats, h) = stats[j]
    BY <2>2, <2>7, SortedIsPlaced
  <2> QED BY <2>4, <2>5, <2>6, <2>8, <2>9, <2>10, <2>11
<1> QED BY <1>1, <1>2, <1>3
-------------------------------------------------------------------------------
\* The interval is that of the paired cells, over some resamples of their cases, and
\* the correction is that of the p-values so far.
InferenceInv ==
  /\ IsFiniteSet(DOMAIN pairs) /\ DOMAIN pairs \subseteq Keys
  /\ pairs \in [DOMAIN pairs -> {0, 1} \X {0, 1}]
  /\ IsFiniteSet(DOMAIN pvalues) /\ pvalues \in [DOMAIN pvalues -> PValues]
  /\ DOMAIN fdr = DOMAIN pvalues
  /\ DOMAIN fdr = {} \/ fdr = BenjaminiHochberg(pvalues, Denominator, Alpha)
  /\ \/ interval.cases = 0
     \/ \E draws \in [1..Samples ->
                        [1..Cardinality(CasesIn(pairs)) -> CasesIn(pairs)]] :
           interval = Interval(Delta(pairs), draws, Outside)

LEMMA InferenceInit == InitInference => InferenceInv
<1> SUFFICES ASSUME InitInference PROVE InferenceInv
  OBVIOUS
<1>1. DOMAIN pairs = {} /\ DOMAIN fdr = DOMAIN pvalues /\ pairs \in [DOMAIN pairs -> {0, 1} \X {0, 1}]
  BY DEF InitInference
<1>2. CasesIn(<<>>) = {}
  BY DEF CasesIn
<1>3. interval.cases = 0
  BY <1>2, FS_EmptySet DEF InitInference, Interval
<1>4. DOMAIN pvalues = {} /\ DOMAIN fdr = {} /\ pvalues \in [DOMAIN pvalues -> PValues]
  BY DEF InitInference
<1> QED BY <1>1, <1>3, <1>4, FS_EmptySet DEF InferenceInv

LEMMA InferenceStep == InferenceInv /\ [NextInference]_inferenceVars => InferenceInv'
<1> SUFFICES ASSUME InferenceInv, [NextInference]_inferenceVars PROVE InferenceInv'
  OBVIOUS
<1>1. ASSUME NEW key \in Keys, NEW a \in {0, 1}, NEW b \in {0, 1}, Pair(key, a, b)
      PROVE  InferenceInv'
  <2>1. DOMAIN pairs' = DOMAIN pairs \cup {key}
    BY <1>1 DEF Pair
  <2>2. \A l \in DOMAIN pairs' : pairs'[l] \in {0, 1} \X {0, 1}
    BY <1>1 DEF Pair, InferenceInv
  <2>3. pairs' \in [DOMAIN pairs' -> {0, 1} \X {0, 1}]
    BY <1>1, <2>2 DEF Pair
  <2>4. interval'.cases = 0
    <3>1. CasesIn(<<>>) = {}
      BY DEF CasesIn
    <3> QED BY <1>1, <3>1, FS_EmptySet DEF Pair, Interval
  <2>5. IsFiniteSet(DOMAIN pairs')
    BY <2>1, FS_AddElement DEF InferenceInv
  <2> QED BY <1>1, <2>1, <2>3, <2>4, <2>5 DEF Pair, InferenceInv
<1>2. CASE Bootstrap
  BY <1>2 DEF Bootstrap, InferenceInv
<1>3. ASSUME NEW name \in Names, NEW p \in PValues, Test(name, p) PROVE InferenceInv'
  <2>1. DOMAIN fdr' = DOMAIN pvalues'
    BY <1>3 DEF Test, BenjaminiHochberg
  <2>2. DOMAIN pvalues' = DOMAIN pvalues \cup {name}
    BY <1>3 DEF Test
  <2>3. IsFiniteSet(DOMAIN pvalues')
    BY <2>2, FS_AddElement DEF InferenceInv
  <2>4. pvalues' \in [DOMAIN pvalues' -> PValues]
    <3>1. \A m \in DOMAIN pvalues' : pvalues'[m] \in PValues
      BY <1>3 DEF Test, InferenceInv
    <3> QED BY <1>3, <3>1 DEF Test
  <2>5. fdr' = BenjaminiHochberg(pvalues', Denominator, Alpha) /\ UNCHANGED <<pairs, interval>>
    BY <1>3 DEF Test
  <2> QED BY <2>1, <2>3, <2>4, <2>5 DEF InferenceInv
<1>4. CASE UNCHANGED inferenceVars
  BY <1>4 DEF inferenceVars, InferenceInv
<1> QED BY <1>1, <1>2, <1>3, <1>4 DEF NextInference

LEMMA InferenceSound == InferenceInv => IntervalsAreOfTheCases
<1> SUFFICES ASSUME InferenceInv PROVE IntervalsAreOfTheCases
  OBVIOUS
<1> DEFINE delta == Delta(pairs)
           cases == CasesIn(pairs)
<1>1. /\ DOMAIN delta = DOMAIN pairs /\ CasesIn(delta) = cases
      /\ \A c \in cases : CellsOfCase(delta, c) = CellsOfCase(pairs, c)
  BY DEF Delta, CasesIn, CellsOfCase
<1>2. Measured(delta)
  <2>1. \A k \in DOMAIN pairs : pairs[k][1] \in Int /\ pairs[k][2] \in Int
    BY DEF InferenceInv
  <2>2. \A k \in DOMAIN delta : delta[k] \in Int
    BY <2>1 DEF Delta
  <2> QED BY <1>1, <2>2 DEF Measured, InferenceInv
<1>3. \A c \in cases : /\ MeanIn(delta, c) \in Quotients
                       /\ SumFunctionOnSet(delta, CellsOfCase(delta, c)) \in Int
                       /\ Cardinality(CellsOfCase(delta, c)) \in Nat \ {0}
  BY <1>1, <1>2, CasesHaveMeans
<1>4. Cardinality(cases) \in Nat
  BY <1>1, <1>2, CasesHaveMeans, FS_CardinalityType
<1> HIDE DEF delta
<1>5. ASSUME interval.cases # 0
      PROVE  /\ interval.cases = Cardinality(cases) /\ interval.estimate # None
             /\ interval.low \in Quotients /\ interval.high \in Quotients
             /\ AtMost(interval.low, interval.high)
             /\ \E c \in cases : AtMost(MeanIn(delta, c), interval.low)
             /\ \E c \in cases : AtMost(interval.high, MeanIn(delta, c))
  <2>1. PICK draws \in [1..Samples -> [1..Cardinality(cases) -> cases]] :
               interval = Interval(delta, draws, Outside)
    BY <1>5 DEF InferenceInv, delta
  <2>2. interval.cases = Cardinality(cases) /\ interval.estimate = Rate(delta)
    BY <1>1, <2>1 DEF Interval
  <2>3. cases # {}
    BY <1>5, <2>2, FS_EmptySet
  <2>4. Rate(delta) # None
    <3>1. DOMAIN delta # {}
      BY <1>1, <2>3 DEF CasesIn
    <3> QED BY <3>1 DEF Rate, None
  <2> QED BY <1>1, <1>2, <2>1, <2>2, <2>3, <2>4, IntervalIsAmongMeans, InferenceAssumption
<1>6. InferenceTypeOK
  BY <1>5 DEF InferenceTypeOK, InferenceInv
<1>7. IntervalsStayAmongTheCases
  <2> SUFFICES ASSUME interval.cases > 0 PROVE IntervalsStayAmongTheCases
    BY DEF IntervalsStayAmongTheCases
  <2>1. interval.cases # 0
    OBVIOUS
  <2>2. \A c \in cases : MeanIn(delta, c) = <<SumFunctionOnSet(Delta(pairs), CellsOfCase(pairs, c)),
                                              Cardinality(CellsOfCase(pairs, c))>>
    BY <1>1 DEF MeanIn, delta
  <2> QED BY <1>5, <2>1, <2>2 DEF IntervalsStayAmongTheCases
<1>8. VerdictsHaveTheirCases
  <2> SUFFICES ASSUME interval.cases > 0 PROVE VerdictsHaveTheirCases
    BY DEF VerdictsHaveTheirCases
  <2>1. interval.cases # 0
    OBVIOUS
  <2>2. /\ SignTest(pairs).better = {c \in cases : SumFunctionOnSet(delta, CellsOfCase(pairs, c)) > 0}
        /\ SignTest(pairs).worse = {c \in cases : SumFunctionOnSet(delta, CellsOfCase(pairs, c)) < 0}
    BY DEF SignTest, delta, Delta
  <2> DEFINE zero == <<0, 1>>
             negative == <<-Margin[1], Margin[2]>>
  <2>3. zero \in Quotients /\ Margin \in Quotients /\ negative \in Quotients
    BY InferenceAssumption DEF Quotients, Fractions
  <2>4. AtMost(zero, Margin) /\ AtMost(negative, zero)
    BY InferenceAssumption DEF AtMost, Less, Fractions
  <2>5. ASSUME Verdict(interval, Margin) = "exceeds_practical_margin"
        PROVE  SignTest(pairs).better # {}
    <3>1. Less(Margin, interval.low)
      BY <2>5 DEF Verdict
    <3>2. PICK c \in cases : AtMost(interval.high, MeanIn(delta, c))
      BY <1>5, <2>1
    <3>3. MeanIn(delta, c) \in Quotients
      BY <1>3
    <3>4. Less(zero, interval.low)
      BY <1>5, <2>1, <2>3, <2>4, <3>1, AtMostThenLess
    <3>5. Less(zero, interval.high)
      BY <1>5, <2>1, <2>3, <3>4, LessThenAtMost
    <3>6. Less(zero, MeanIn(delta, c))
      BY <1>5, <2>1, <2>3, <3>2, <3>3, <3>5, LessThenAtMost
    <3>7. SumFunctionOnSet(delta, CellsOfCase(pairs, c)) > 0
      <4> DEFINE s == SumFunctionOnSet(delta, CellsOfCase(pairs, c))
                 t == Cardinality(CellsOfCase(pairs, c))
      <4>1. s \in Int /\ t \in Int /\ MeanIn(delta, c) = <<s, t>>
        <5>1. CellsOfCase(delta, c) = CellsOfCase(pairs, c)
          BY <1>1
        <5>2. SumFunctionOnSet(delta, CellsOfCase(delta, c)) \in Int
              /\ Cardinality(CellsOfCase(delta, c)) \in Nat
          BY <1>3
        <5> QED BY <5>1, <5>2 DEF MeanIn
      <4> HIDE DEF s, t
      <4>2. 0 * t < s * 1
        BY <3>6, <4>1 DEF Less
      <4>3. s > 0
        BY <4>1, <4>2
      <4> QED BY <4>3 DEF s
    <3> QED BY <2>2, <3>7
  <2>6. ASSUME Verdict(interval, Margin) = "practically_worse"
        PROVE  SignTest(pairs).worse # {}
    <3>1. Less(interval.high, negative)
      BY <2>6 DEF Verdict
    <3>2. PICK c \in cases : AtMost(MeanIn(delta, c), interval.low)
      BY <1>5, <2>1
    <3>3. MeanIn(delta, c) \in Quotients
      BY <1>3
    <3>4. Less(interval.high, zero)
      BY <1>5, <2>1, <2>3, <2>4, <3>1, LessThenAtMost
    <3>5. Less(interval.low, zero)
      BY <1>5, <2>1, <2>3, <3>4, AtMostThenLess
    <3>6. Less(MeanIn(delta, c), zero)
      BY <1>5, <2>1, <2>3, <3>2, <3>3, <3>5, AtMostThenLess
    <3>7. SumFunctionOnSet(delta, CellsOfCase(pairs, c)) < 0
      <4> DEFINE s == SumFunctionOnSet(delta, CellsOfCase(pairs, c))
                 t == Cardinality(CellsOfCase(pairs, c))
      <4>1. s \in Int /\ t \in Int /\ MeanIn(delta, c) = <<s, t>>
        <5>1. CellsOfCase(delta, c) = CellsOfCase(pairs, c)
          BY <1>1
        <5>2. SumFunctionOnSet(delta, CellsOfCase(delta, c)) \in Int
              /\ Cardinality(CellsOfCase(delta, c)) \in Nat
          BY <1>3
        <5> QED BY <5>1, <5>2 DEF MeanIn
      <4> HIDE DEF s, t
      <4>2. s * 1 < 0 * t
        BY <3>6, <4>1 DEF Less
      <4>3. s < 0
        BY <4>1, <4>2
      <4> QED BY <4>3 DEF s
    <3> QED BY <2>2, <3>7
  <2> QED BY <2>5, <2>6 DEF VerdictsHaveTheirCases
<1> QED BY <1>6, <1>7, <1>8 DEF IntervalsAreOfTheCases

\* Whatever is paired and whatever the generator draws, an interval is in order and
\* among the means of the cases, and a verdict away from equivalence has a case whose
\* sign is its own (statistics.py, the bootstrap and the equivalence decision).
THEOREM IntervalsRestOnCases == InferenceSpec => []IntervalsAreOfTheCases
<1>1. InferenceSpec => []InferenceInv
  BY InferenceInit, InferenceStep, PTL DEF InferenceSpec
<1> QED BY <1>1, InferenceSound, PTL

\* What holds of a set when it holds of the set without any one of its elements holds
\* of every part of a finite set.
LEMMA BySmaller ==
  ASSUME NEW S, IsFiniteSet(S), NEW good \in SUBSET (SUBSET S),
         \A s \in SUBSET S : (\A x \in s : s \ {x} \in good) => s \in good
  PROVE  \A s \in SUBSET S : s \in good
<1> DEFINE bad == (SUBSET S) \ good
<1> SUFFICES ASSUME bad # {} PROVE FALSE
  OBVIOUS
<1>1. bad \subseteq FiniteSubsetsOf(S)
  BY FS_FiniteSubsetsOfFinite
<1>2. PICK s \in bad : \A t \in bad : ~(<<t, s>> \in StrictSubsetOrdering(S))
  <2> HIDE DEF bad
  <2> QED BY <1>1, FS_StrictSubsetOrderingWellFounded, WFMin
<1>3. s \in SUBSET S /\ s \notin good
  OBVIOUS
<1>4. PICK x \in s : s \ {x} \notin good
  BY <1>3
<1>5. s \ {x} \in bad
  BY <1>3, <1>4
<1>6. <<s \ {x}, s>> \in StrictSubsetOrdering(S)
  BY <1>3, <1>4 DEF StrictSubsetOrdering
<1> QED BY <1>2, <1>5, <1>6

\* Finitely many names can be ranked by their integers.
LEMMA RanksExist ==
  ASSUME NEW S, IsFiniteSet(S), NEW p \in [S -> Int]
  PROVE  \E names \in Bijection(1..Cardinality(S), S) :
            \A r, s \in 1..Cardinality(S) : r < s => p[names[r]] <= p[names[s]]
<1> DEFINE Ranks(t, names) ==
             /\ names \in Bijection(1..Cardinality(t), t)
             /\ \A r, s \in 1..Cardinality(t) : r < s => p[names[r]] <= p[names[s]]
           good == {t \in SUBSET S : \E names : Ranks(t, names)}
<1>1. ASSUME NEW t \in SUBSET S, \A x \in t : t \ {x} \in good PROVE t \in good
  <2>1. IsFiniteSet(t) /\ Cardinality(t) \in Nat
    BY FS_Subset, FS_CardinalityType
  <2>2. CASE t = {}
    <3>1. Cardinality(t) = 0
      BY <2>2, FS_EmptySet
    <3>2. 1..0 = {}
      OBVIOUS
    <3>3. Ranks(t, <<>>)
      BY <2>2, <3>1, <3>2 DEF Bijection, Injection, Surjection, IsInjective
    <3> QED BY <3>3
  <2>3. CASE t # {}
    <3> DEFINE value == [x \in t |-> <<p[x], 1>>]
    <3>1. PICK x \in t : \A y \in t : p[y] <= p[x]
      <4>1. value \in [t -> Quotients]
        BY DEF Quotients
      <4>2. PICK x \in t : \A y \in t : AtMost(value[y], value[x])
        BY <2>1, <2>3, <4>1, ExtremeQuotients
      <4>3. ASSUME NEW y \in t PROVE p[y] <= p[x]
        <5>1. ~(p[x] * 1 < p[y] * 1) /\ p[x] \in Int /\ p[y] \in Int
          BY <4>2 DEF AtMost, Less
        <5> QED BY <5>1
      <4> QED BY <4>3
    <3> DEFINE n == Cardinality(t)
               u == t \ {x}
    <3>2. Cardinality(u) = n - 1 /\ n - 1 \in Nat /\ n \in Nat
      <4>1. IsFiniteSet(u) /\ Cardinality(u) = n - 1
        BY <2>1, FS_RemoveElement
      <4> QED BY <2>1, <4>1, FS_CardinalityType
    <3>3. PICK ranks : Ranks(u, ranks)
      BY <1>1
    <3> HIDE DEF n
    <3>4. /\ ranks \in [1..(n - 1) -> u]
          /\ \A a, b \in 1..(n - 1) : ranks[a] = ranks[b] => a = b
          /\ \A y \in u : \E a \in 1..(n - 1) : ranks[a] = y
          /\ \A r, s \in 1..(n - 1) : r < s => p[ranks[r]] <= p[ranks[s]]
      <4>1. ranks \in Bijection(1..(n - 1), u)
        BY <3>2, <3>3
      <4> QED BY <3>2, <3>3, <4>1 DEF Bijection, Injection, Surjection, IsInjective
    <3> DEFINE names == [r \in 1..n |-> IF r = n THEN x ELSE ranks[r]]
    <3>5. \A r \in 1..n : r # n => r \in 1..(n - 1)
      BY <3>2
    <3>6. n \in 1..n /\ \A r \in 1..(n - 1) : r \in 1..n /\ r # n
      BY <3>2
    <3>7. names \in [1..n -> t]
      BY <3>4, <3>5
    <3>8. names[n] = x /\ \A r \in 1..(n - 1) : names[r] = ranks[r] /\ ranks[r] \in u
      BY <3>4, <3>6
    <3>9. \A a, b \in 1..n : names[a] = names[b] => a = b
      <4> HIDE DEF names
      <4> QED BY <3>4, <3>5, <3>8
    <3>10. \A y \in t : \E a \in 1..n : names[a] = y
      <4> HIDE DEF names
      <4>1. \A y \in t : y = x \/ y \in u
        OBVIOUS
      <4> HIDE DEF u
      <4> QED BY <3>4, <3>6, <3>8, <4>1
    <3>11. \A r, s \in 1..n : r < s => p[names[r]] <= p[names[s]]
      <4> SUFFICES ASSUME NEW r \in 1..n, NEW s \in 1..n, r < s PROVE p[names[r]] <= p[names[s]]
        OBVIOUS
      <4> HIDE DEF names
      <4>1. r \in 1..(n - 1)
        BY <3>2
      <4>2. CASE s = n
        BY <3>1, <3>8, <4>1, <4>2
      <4>3. CASE s # n
        BY <3>4, <3>5, <3>8, <4>1, <4>3
      <4> QED BY <4>2, <4>3
    <3>12. names \in Bijection(1..n, t)
      <4> HIDE DEF names
      <4> QED BY <3>7, <3>9, <3>10 DEF Bijection, Injection, Surjection, IsInjective
    <3>13. Ranks(t, names)
      <4> HIDE DEF names
      <4> QED BY <3>11, <3>12 DEF n
    <3> QED BY <3>13
  <2> QED BY <2>2, <2>3
<1>2. S \in good
  <2>1. good \in SUBSET (SUBSET S)
    OBVIOUS
  <2> HIDE DEF good
  <2> QED BY <1>1, <2>1, BySmaller
<1> QED BY <1>2

\* What a ranking of p-values is.
LEMMA RankedIsSorted ==
  ASSUME NEW S, IsFiniteSet(S), NEW p \in [S -> Int]
  PROVE  LET names == Ranked(p)
             m == Cardinality(S)
         IN  /\ m \in Nat /\ names \in Seq(S) /\ Len(names) = m /\ DOMAIN names = 1..m
             /\ \A x \in S : \E r \in 1..m : names[r] = x
             /\ \A r, s \in 1..m : names[r] = names[s] => r = s
             /\ \A r, s \in 1..m : r < s => p[names[r]] <= p[names[s]]
<1> DEFINE m == Cardinality(S)
           names == Ranked(p)
<1>1. DOMAIN p = S
  OBVIOUS
<1>2. m \in Nat
  BY FS_CardinalityType
<1>3. PICK found \in Bijection(1..m, S) :
         \A r, s \in 1..m : r < s => p[found[r]] <= p[found[s]]
  BY RanksExist
<1>4. \A f \in Bijection(1..m, S) : DOMAIN f = 1..m
  BY DEF Bijection, Injection
<1>5. /\ names \in Bijection(1..m, S)
      /\ \A r, s \in DOMAIN names : r < s => p[names[r]] <= p[names[s]]
  BY <1>1, <1>3, <1>4 DEF Ranked
<1> HIDE DEF names
<1>6. /\ names \in [1..m -> S]
      /\ \A r, s \in 1..m : names[r] = names[s] => r = s
      /\ \A x \in S : \E r \in 1..m : names[r] = x
  BY <1>5 DEF Bijection, Injection, Surjection, IsInjective
<1>7. names \in Seq(S) /\ Len(names) = m /\ DOMAIN names = 1..m
  BY <1>2, <1>6
<1> QED BY <1>2, <1>5, <1>6, <1>7 DEF names

\* Products keep the order of their factors.
LEMMA ProductsCompare == \A x, y, z \in Int : x <= y /\ z >= 0 => x * z <= y * z
  OBVIOUS

\* Being at most is transitive on quotients.
LEMMA AtMostIsTransitive ==
  ASSUME NEW p \in Quotients, NEW q \in Quotients, NEW r \in Quotients, AtMost(p, q), AtMost(q, r)
  PROVE  AtMost(p, r)
<1> SUFFICES ASSUME Less(r, p) PROVE FALSE
  BY DEF AtMost
<1>1. Less(r, q)
  BY LessThenAtMost
<1> QED BY <1>1 DEF AtMost

\* The correction of ranked p-values: a rank is rejected exactly when its adjusted value
\* is at most the level, and smaller p-values are adjusted to no more, rank by rank.
LEMMA RanksAreCorrected ==
  ASSUME NEW count \in Nat, NEW D \in Nat, NEW names, Len(names) = count,
         NEW p, \A r \in 1..count : p[names[r]] \in 1..D,
         \A r, s \in 1..count : r < s => p[names[r]] <= p[names[s]],
         NEW alpha \in Fractions
  PROVE  LET Adj(r) == Adjusted(p, names, D, r)
             last == LastSignificant(p, names, D, alpha)
         IN  /\ \A r \in 1..count : Adj(r) \in Quotients /\ (r <= last <=> AtMost(Adj(r), alpha))
             /\ \A r, s \in 1..count : p[names[r]] <= p[names[s]] => AtMost(Adj(r), Adj(s))
<1> DEFINE Raw(r) == <<p[names[r]] * count, D * r>>
           Adj(r) == Adjusted(p, names, D, r)
           raw == [r \in 1..count |-> Raw(r)]
           Meets(r) == p[names[r]] * count * alpha[2] <= D * r * alpha[1]
           last == LastSignificant(p, names, D, alpha)
<1>1. /\ alpha \in Quotients /\ alpha[1] \in Nat /\ alpha[2] \in Nat \ {0}
      /\ \A r \in 1..count : D > 0 /\ p[names[r]] \in Nat /\ p[names[r]] <= D /\ Raw(r) \in Quotients
  <2>1. alpha \in Quotients /\ alpha[1] \in Nat /\ alpha[2] \in Nat \ {0}
    BY DEF Fractions, Quotients
  <2>2. ASSUME NEW r \in 1..count
        PROVE  D > 0 /\ p[names[r]] \in Nat /\ p[names[r]] <= D /\ Raw(r) \in Quotients
    <3>1. p[names[r]] \in 1..D /\ D > 0 /\ r > 0
      OBVIOUS
    <3>2. p[names[r]] * count \in Int /\ D * r \in Int /\ D * r > 0
      <4>1. \A x, y \in Int : x > 0 /\ y > 0 => x * y > 0
        OBVIOUS
      <4> QED BY <3>1, <4>1
    <3> QED BY <3>1, <3>2 DEF Quotients
  <2> QED BY <2>1, <2>2
<1>2. ASSUME NEW r \in 1..count
      PROVE  \E l \in r..count : Adj(r) = Raw(l) /\ \A t \in r..count : AtMost(Raw(l), Raw(t))
  <2> DEFINE best(l) == \A t \in r..count : AtMost(Raw(l), Raw(t))
             least == CHOOSE l \in r..count : best(l)
             value == [l \in r..count |-> Raw(l)]
  <2>1. value \in [r..count -> Quotients] /\ \A l \in r..count : value[l] = Raw(l)
    BY <1>1
  <2>2. IsFiniteSet(r..count) /\ r \in r..count
    BY FS_Interval
  <2> HIDE DEF value, Raw
  <2>3. PICK l \in r..count : \A t \in r..count : AtMost(value[l], value[t])
    BY <2>1, <2>2, ExtremeQuotients
  <2>4. best(l)
    BY <2>1, <2>3
  <2>5. least \in r..count /\ best(least)
    BY <2>4
  <2>6. ~Less(<<1, 1>>, Raw(least))
    <3>1. count \in r..count /\ count \in 1..count
      OBVIOUS
    <3>2. AtMost(Raw(least), Raw(count))
      BY <2>5, <3>1
    <3>3. ~Less(<<1, 1>>, Raw(count))
      <4>1. p[names[count]] \in Nat /\ p[names[count]] <= D
        BY <1>1, <3>1
      <4>2. p[names[count]] * count <= D * count
        <5>1. \A x, y, z \in Nat : x <= y => x * z <= y * z
          OBVIOUS
        <5> QED BY <4>1, <5>1
      <4>3. p[names[count]] * count \in Int /\ D * count \in Int
        BY <4>1
      <4> DEFINE a == p[names[count]] * count
                 b == D * count
      <4>4. a \in Int /\ b \in Int /\ a <= b /\ Raw(count) = <<a, b>>
        BY <4>2, <4>3 DEF Raw
      <4> HIDE DEF a, b
      <4> QED BY <4>4 DEF Less
    <3>4. Raw(least) \in Quotients /\ Raw(count) \in Quotients /\ <<1, 1>> \in Quotients
      <4>1. least \in 1..count
        BY <2>5
      <4> HIDE DEF least
      <4> QED BY <1>1, <3>1, <4>1 DEF Quotients
    <3> HIDE DEF least
    <3> QED BY <3>2, <3>3, <3>4, LessThenAtMost
  <2>7. Adj(r) = Raw(least)
    <3>1. Adj(r) = IF Less(<<1, 1>>, Raw(least)) THEN <<1, 1>> ELSE Raw(least)
      BY DEF Adjusted, Raw
    <3> QED BY <2>6, <3>1
  <2> HIDE DEF least
  <2> QED BY <2>5, <2>7
<1>3. \A r \in 1..count : Adj(r) \in Quotients
  <2> SUFFICES ASSUME NEW r \in 1..count PROVE Adj(r) \in Quotients
    OBVIOUS
  <2> HIDE DEF Adj, Raw
  <2>1. PICK l \in r..count : Adj(r) = Raw(l)
    BY <1>2
  <2> QED BY <1>1, <2>1
<1>4. \A r \in 1..count : AtMost(Raw(r), alpha) <=> Meets(r)
  <2> SUFFICES ASSUME NEW r \in 1..count PROVE AtMost(Raw(r), alpha) <=> Meets(r)
    OBVIOUS
  <2> DEFINE a == p[names[r]] * count
             b == D * r
  <2>1. a \in Int /\ b \in Int
    BY <1>1
  <2>2. Raw(r) = <<a, b>> /\ (Meets(r) <=> a * alpha[2] <= b * alpha[1])
    OBVIOUS
  <2> HIDE DEF a, b
  <2>3. a * alpha[2] \in Int /\ b * alpha[1] \in Int /\ alpha[1] * b = b * alpha[1]
    BY <1>1, <2>1
  <2>4. AtMost(<<a, b>>, alpha) <=> ~(alpha[1] * b < a * alpha[2])
    BY DEF AtMost, Less
  <2> QED BY <2>2, <2>3, <2>4
<1>5. /\ last \in 0..count /\ (last = 0 \/ Meets(last))
      /\ \A r \in 1..count : Meets(r) => r <= last
  <2> DEFINE met == {0} \cup {r \in 1..count : Meets(r)}
  <2>1. last = Max(met)
    BY DEF LastSignificant
  <2>2. met \in SUBSET (0..count) /\ 0 \in met /\ \A r \in met : r \in Nat /\ r <= count
    OBVIOUS
  <2>3. \A r \in 1..count : r \in met <=> Meets(r)
    OBVIOUS
  <2>4. \A r \in met : r = 0 \/ Meets(r)
    OBVIOUS
  <2> HIDE DEF met, Meets, last
  <2>5. PICK g \in met : \A r \in met : r <= g
    <3> QED BY <2>2, GreatestNatural
  <2>6. last \in met /\ \A r \in met : r <= last
    BY <2>1, <2>2, <2>5 DEF Max
  <2> QED BY <2>2, <2>3, <2>4, <2>6
<1>6. ASSUME NEW r \in 1..count PROVE r <= last <=> AtMost(Adj(r), alpha)
  <2> HIDE DEF Adj, Raw, Meets, last
  <2>1. PICK l \in r..count : Adj(r) = Raw(l) /\ \A t \in r..count : AtMost(Raw(l), Raw(t))
    BY <1>2
  <2>2. l \in 1..count
    OBVIOUS
  <2>3. ASSUME r <= last PROVE AtMost(Adj(r), alpha)
    <3>1. last \in r..count /\ last \in 1..count /\ last # 0
      BY <1>5, <2>3
    <3>2. AtMost(Raw(l), Raw(last)) /\ AtMost(Raw(last), alpha)
      BY <1>4, <1>5, <2>1, <3>1
    <3> QED BY <1>1, <2>1, <2>2, <3>1, <3>2, AtMostIsTransitive
  <2>4. ASSUME AtMost(Adj(r), alpha) PROVE r <= last
    <3>1. Meets(l)
      BY <1>4, <2>1, <2>2, <2>4
    <3> QED BY <1>5, <2>2, <3>1
  <2> QED BY <2>3, <2>4
<1>7. ASSUME NEW r \in 1..count, NEW s \in 1..count, p[names[r]] <= p[names[s]]
      PROVE  AtMost(Adj(r), Adj(s))
  <2> HIDE DEF Adj, Raw
  <2>1. PICK k \in r..count : Adj(r) = Raw(k) /\ \A t \in r..count : AtMost(Raw(k), Raw(t))
    BY <1>2
  <2>2. PICK l \in s..count : Adj(s) = Raw(l) /\ \A t \in s..count : AtMost(Raw(l), Raw(t))
    BY <1>2
  <2>3. CASE r <= l
    <3>1. l \in r..count
      BY <2>3
    <3> QED BY <2>1, <2>2, <3>1
  <2>4. CASE l < r
    <3>1. l \in 1..count /\ r \in r..count /\ k \in 1..count
      BY <2>4
    <3>2. p[names[l]] = p[names[r]]
      <4>1. p[names[l]] <= p[names[r]]
        BY <2>4, <3>1
      <4>2. p[names[s]] <= p[names[l]]
        <5>1. CASE s = l
          BY <1>1, <3>1, <5>1
        <5>2. CASE s < l
          BY <3>1, <5>2
        <5> QED BY <5>1, <5>2
      <4> QED BY <1>1, <1>7, <3>1, <4>1, <4>2
    <3>3. AtMost(Raw(r), Raw(l))
      <4> DEFINE a == p[names[r]] * count
                 b == D * r
                 d == D * l
      <4>1. a \in Int /\ a >= 0 /\ b \in Int /\ d \in Int /\ d <= b
        <5>1. l * D <= r * D /\ 0 * count <= p[names[r]] * count
          BY <1>1, <2>4, <3>1, ProductsCompare
        <5>2. l * D = D * l /\ r * D = D * r /\ p[names[r]] * count \in Int /\ D * l \in Int /\ D * r \in Int
          BY <1>1, <3>1
        <5> QED BY <5>1, <5>2
      <4>2. Raw(r) = <<a, b>> /\ Raw(l) = <<a, d>>
        BY <3>2 DEF Raw
      <4> HIDE DEF a, b, d
      <4>3. ~(a * b < a * d)
        <5>1. d * a <= b * a
          BY <4>1, ProductsCompare
        <5>2. d * a = a * d /\ b * a = a * b /\ a * d \in Int /\ a * b \in Int
          BY <4>1
        <5> QED BY <5>1, <5>2
      <4> QED BY <4>2, <4>3 DEF AtMost, Less
    <3>4. AtMost(Raw(k), Raw(r))
      BY <2>1, <3>1
    <3> QED BY <1>1, <2>1, <2>2, <3>1, <3>3, <3>4, AtMostIsTransitive
  <2> QED BY <2>3, <2>4
<1> HIDE DEF Adj, last
<1> QED BY <1>3, <1>6, <1>7 DEF Adj, last

\* The two halves of the correction are one rule.
LEMMA CorrectionIsOneRule ==
  ASSUME NEW S, IsFiniteSet(S), NEW D \in Nat, NEW p \in [S -> 1..D], NEW alpha \in Fractions
  PROVE  LET corrected == BenjaminiHochberg(p, D, alpha)
         IN  /\ DOMAIN corrected = S
             /\ \A m, n \in S :
                  /\ corrected[n].significant <=> AtMost(corrected[n].adjusted, alpha)
                  /\ p[m] <= p[n] =>
                       /\ AtMost(corrected[m].adjusted, corrected[n].adjusted)
                       /\ corrected[n].significant => corrected[m].significant
<1> DEFINE names == Ranked(p)
           count == Cardinality(S)
           last == LastSignificant(p, names, D, alpha)
           Adj(r) == Adjusted(p, names, D, r)
           RankOf(n) == CHOOSE r \in DOMAIN names : names[r] = n
           corrected == BenjaminiHochberg(p, D, alpha)
<1>1. p \in [S -> Int] /\ DOMAIN p = S /\ \A n \in S : p[n] \in 1..D
  OBVIOUS
<1>2. /\ count \in Nat /\ names \in Seq(S) /\ Len(names) = count /\ DOMAIN names = 1..count
      /\ \A x \in S : \E r \in 1..count : names[r] = x
      /\ \A r, s \in 1..count : r < s => p[names[r]] <= p[names[s]]
  BY <1>1, RankedIsSorted
<1>3. corrected = [n \in S |-> [adjusted |-> Adj(RankOf(n)), significant |-> RankOf(n) <= last]]
  BY <1>1 DEF BenjaminiHochberg
<1> HIDE DEF names, count, Adj, last
<1>4. \A n \in S : RankOf(n) \in 1..count /\ names[RankOf(n)] = n
  BY <1>2
<1>5. \A r \in 1..count : p[names[r]] \in 1..D
  <2>1. \A r \in 1..count : names[r] \in S
    BY <1>2
  <2> QED BY <1>1, <2>1
<1>6. /\ \A r \in 1..count : Adj(r) \in Quotients /\ (r <= last <=> AtMost(Adj(r), alpha))
      /\ \A r, s \in 1..count : p[names[r]] <= p[names[s]] => AtMost(Adj(r), Adj(s))
  BY <1>2, <1>5, RanksAreCorrected DEF Adj, last
<1>7. /\ DOMAIN corrected = S
      /\ \A n \in S : corrected[n].adjusted = Adj(RankOf(n)) /\ corrected[n].significant = (RankOf(n) <= last)
  BY <1>3
<1> HIDE DEF corrected, RankOf
<1>8. ASSUME NEW m \in S, NEW n \in S
      PROVE  /\ corrected[n].significant <=> AtMost(corrected[n].adjusted, alpha)
             /\ p[m] <= p[n] =>
                  /\ AtMost(corrected[m].adjusted, corrected[n].adjusted)
                  /\ corrected[n].significant => corrected[m].significant
  <2>1. \A x \in S : corrected[x].significant <=> AtMost(corrected[x].adjusted, alpha)
    BY <1>4, <1>6, <1>7
  <2>2. ASSUME p[m] <= p[n] PROVE AtMost(corrected[m].adjusted, corrected[n].adjusted)
    BY <1>4, <1>6, <1>7, <2>2
  <2>3. corrected[m].adjusted \in Quotients /\ corrected[n].adjusted \in Quotients /\ alpha \in Quotients
    BY <1>4, <1>6, <1>7, FractionsAreQuotients
  <2> QED BY <2>1, <2>2, <2>3, AtMostIsTransitive
<1> QED BY <1>7, <1>8 DEF corrected

\* A sum is that of any of its elements and of the others.
LEMMA SumWithout ==
  ASSUME NEW S, IsFiniteSet(S), NEW f, \A x \in S : f[x] \in Int, NEW sum, Sums(f, S, sum)
  PROVE  \A s \in SUBSET S : \A x \in s : sum[s] = f[x] + sum[s \ {x}]
<1> DEFINE good == {s \in SUBSET S : \A x \in s : sum[s] = f[x] + sum[s \ {x}]}
<1>1. ASSUME NEW s \in SUBSET S, \A x \in s : s \ {x} \in good PROVE s \in good
  <2> SUFFICES ASSUME NEW x \in s PROVE sum[s] = f[x] + sum[s \ {x}]
    OBVIOUS
  <2> DEFINE c == CHOOSE y \in s : TRUE
  <2>1. c \in s /\ sum[s] = f[c] + sum[s \ {c}]
    BY DEF Sums
  <2> HIDE DEF c
  <2>2. CASE x = c
    BY <2>1, <2>2
  <2>3. CASE x # c
    <3>1. sum[s \ {c}] = f[x] + sum[(s \ {c}) \ {x}]
      BY <1>1, <2>1, <2>3
    <3>2. sum[s \ {x}] = f[c] + sum[(s \ {x}) \ {c}]
      BY <1>1, <2>1, <2>3
    <3> DEFINE w == sum[(s \ {c}) \ {x}]
    <3>3. (s \ {c}) \ {x} = (s \ {x}) \ {c} /\ (s \ {c}) \ {x} \in SUBSET S
      OBVIOUS
    <3>4. f[c] \in Int /\ f[x] \in Int /\ w \in Int
      BY <2>1, <3>3 DEF Sums
    <3>5. sum[s] = f[c] + (f[x] + w) /\ sum[s \ {x}] = f[c] + w
      BY <2>1, <3>1, <3>2, <3>3
    <3> HIDE DEF w
    <3> QED BY <3>4, <3>5
  <2> QED BY <2>2, <2>3
<1>2. \A s \in SUBSET S : s \in good
  <2>1. good \in SUBSET (SUBSET S)
    OBVIOUS
  <2> HIDE DEF good
  <2> QED BY <1>1, <2>1, BySmaller
<1> QED BY <1>2

\* The sum over a set and a copy of it is twice the sum.
LEMMA SumOfCopies ==
  ASSUME NEW S, IsFiniteSet(S), NEW f, \A x \in S : f[x] \in Int,
         NEW copy, \A x \in S : copy[x] \notin S, \A x, y \in S : copy[x] = copy[y] => x = y,
         NEW g, \A x \in S : g[x] = f[x] /\ g[copy[x]] = f[x]
  PROVE  SumFunctionOnSet(g, S \cup {copy[x] : x \in S}) = 2 * SumFunctionOnSet(f, S)
<1> DEFINE T == S \cup {copy[x] : x \in S}
           copies(s) == {copy[x] : x \in s}
           both(s) == s \cup copies(s)
<1>1. IsFiniteSet(T)
  <2> DEFINE onto == [x \in S |-> copy[x]]
  <2>1. onto \in Surjection(S, copies(S))
    BY DEF Surjection
  <2> HIDE DEF onto
  <2>2. IsFiniteSet(copies(S))
    BY <2>1, FS_Surjection
  <2> QED BY <2>2, FS_Union
<1>2. \A y \in T : g[y] \in Int
  OBVIOUS
<1>3. PICK sum : Sums(f, S, sum)
  BY SumsExist
<1>4. PICK tot : Sums(g, T, tot)
  BY <1>1, <1>2, SumsExist
<1> DEFINE good == {s \in SUBSET S : tot[both(s)] = 2 * sum[s]}
<1>5. {} \in good
  <2>1. both({}) = {}
    OBVIOUS
  <2> HIDE DEF both
  <2>2. tot[both({})] = 0 /\ sum[{}] = 0
    BY <1>3, <1>4, <2>1 DEF Sums
  <2> QED BY <2>2
<1>6. ASSUME NEW s \in SUBSET S, s # {}, s \ {CHOOSE x \in s : TRUE} \in good PROVE s \in good
  <2> DEFINE x == CHOOSE y \in s : TRUE
             t == s \ {x}
  <2>1. x \in s /\ t \in SUBSET S /\ t = s \ {x}
    BY <1>6
  <2>2. sum[s] = f[x] + sum[t] /\ tot[both(t)] = 2 * sum[t]
    BY <1>3, <1>6 DEF Sums
  <2> HIDE DEF x, t
  <2>3. both(s) \in SUBSET T /\ x \in both(s) /\ both(s) \ {x} \in SUBSET T /\ copy[x] \in both(s) \ {x}
    BY <2>1
  <2>4. (both(s) \ {x}) \ {copy[x]} = both(t)
    <3>1. \A z \in s : copy[z] # x /\ z # copy[x] /\ (copy[z] = copy[x] <=> z = x)
      BY <2>1
    <3> QED BY <2>1, <3>1
  <2> HIDE DEF both
  <2>5. ASSUME NEW u \in SUBSET T, NEW y \in u PROVE tot[u] = g[y] + tot[u \ {y}]
    <3> HIDE DEF T
    <3> QED BY <1>1, <1>2, <1>4, SumWithout
  <2>6. tot[both(s)] = g[x] + tot[both(s) \ {x}]
    BY <2>3, <2>5
  <2>7. tot[both(s) \ {x}] = g[copy[x]] + tot[both(t)]
    <3>1. tot[both(s) \ {x}] = g[copy[x]] + tot[(both(s) \ {x}) \ {copy[x]}]
      BY <2>3, <2>5
    <3> QED BY <2>4, <3>1
  <2>9. g[x] = f[x] /\ g[copy[x]] = f[x] /\ f[x] \in Int /\ sum[t] \in Int
    BY <1>3, <2>1 DEF Sums
  <2> QED BY <2>2, <2>6, <2>7, <2>9
<1>7. S \in good
  <2>1. good \in SUBSET (SUBSET S)
    OBVIOUS
  <2> HIDE DEF good
  <2> QED BY <1>5, <1>6, <2>1, ByElements
<1>8. both(S) = T
  OBVIOUS
<1>9. SumFunctionOnSet(f, S) = sum[S] /\ SumFunctionOnSet(g, T) = tot[T]
  BY <1>1, <1>3, <1>4, SumIsOfElements
<1> QED BY <1>7, <1>8, <1>9

\* A case with its cells twice has the sum of its deltas twice, and the same sign.
LEMMA RepeatsAddNothing == InferenceInv => RepeatsAreNoEvidence
<1> SUFFICES ASSUME InferenceInv PROVE RepeatsAreNoEvidence
  OBVIOUS
<1> DEFINE D == DOMAIN pairs
           again == [l \in D |-> <<l[1], l[2], "again">>]
           R == D \cup {<<l[1], l[2], "again">> : l \in D}
           repeated == [k \in R |-> pairs[<<k[1], k[2]>>]]
           f == [k \in DOMAIN pairs |-> pairs[k][2] - pairs[k][1]]
           g == [k \in DOMAIN repeated |-> repeated[k][2] - repeated[k][1]]
<1>1. \A l \in D : l = <<l[1], l[2]>> /\ pairs[l][1] \in Int /\ pairs[l][2] \in Int
  BY InferenceAssumption DEF InferenceInv
<1>2. IsFiniteSet(D) /\ \A l \in D : f[l] \in Int
  BY <1>1 DEF InferenceInv
<1>3. /\ \A l \in D : /\ again[l] = <<l[1], l[2], "again">> /\ again[l] \in R /\ l \in R
                      /\ again[l] \notin D /\ again[l][1] = l[1] /\ again[l][2] = l[2]
      /\ \A l, m \in D : again[l] = again[m] => l = m
      /\ \A k \in R : k \in D \/ \E l \in D : k = again[l]
  <2>1. \A l \in D : /\ again[l] = <<l[1], l[2], "again">> /\ again[l] \in R /\ l \in R
                     /\ again[l][1] = l[1] /\ again[l][2] = l[2]
    OBVIOUS
  <2>2. ASSUME NEW l \in D, again[l] \in D PROVE FALSE
    <3>1. <<l[1], l[2], "again">> = <<l[1], l[2]>>
      BY <1>1, <2>1, <2>2
    <3> QED BY <3>1
  <2>3. \A l, m \in D : again[l] = again[m] => l = m
    BY <1>1, <2>1
  <2>4. \A k \in R : k \in D \/ \E l \in D : k = again[l]
    OBVIOUS
  <2> QED BY <2>1, <2>2, <2>3, <2>4
<1>4. DOMAIN repeated = R /\ \A l \in D : repeated[l] = pairs[l] /\ repeated[again[l]] = pairs[l]
  <2>1. \A l \in D : l \in R /\ again[l] \in R
    BY <1>3
  <2> HIDE DEF again, R
  <2>2. \A l \in D : <<l[1], l[2]>> = l /\ <<again[l][1], again[l][2]>> = l
    BY <1>1, <1>3
  <2> QED BY <2>1, <2>2
<1>5. \A l \in D : g[l] = f[l] /\ g[again[l]] = f[l]
  <2> HIDE DEF again, R, repeated
  <2> QED BY <1>3, <1>4
<1> DEFINE mine(c) == CellsOfCase(pairs, c)
           theirs(c) == CellsOfCase(repeated, c)
<1>6. CasesIn(repeated) = CasesIn(pairs)
  <2> HIDE DEF again, R, repeated
  <2>1. \A k \in R : \E l \in D : l[1] = k[1]
    BY <1>3
  <2> QED BY <1>3, <1>4, <2>1 DEF CasesIn
<1>7. \A c : mine(c) \in SUBSET D /\ theirs(c) = mine(c) \cup {again[l] : l \in mine(c)}
  <2> SUFFICES ASSUME NEW c
               PROVE  mine(c) \in SUBSET D /\ theirs(c) = mine(c) \cup {again[l] : l \in mine(c)}
    OBVIOUS
  <2> HIDE DEF again, R, repeated
  <2>1. theirs(c) = {k \in R : k[1] = c} /\ mine(c) = {k \in D : k[1] = c}
    BY <1>4 DEF CellsOfCase
  <2> HIDE DEF mine, theirs
  <2> QED BY <1>3, <2>1
<1> HIDE DEF D, again, R, f, g
<1>8. \A c : SumFunctionOnSet(g, theirs(c)) = 2 * SumFunctionOnSet(f, mine(c))
             /\ SumFunctionOnSet(f, mine(c)) \in Int
  <2> SUFFICES ASSUME NEW c PROVE SumFunctionOnSet(g, theirs(c)) = 2 * SumFunctionOnSet(f, mine(c))
                                  /\ SumFunctionOnSet(f, mine(c)) \in Int
    OBVIOUS
  <2>1. mine(c) \in SUBSET D /\ theirs(c) = mine(c) \cup {again[l] : l \in mine(c)}
    BY <1>7
  <2> HIDE DEF mine, theirs
  <2>2. IsFiniteSet(mine(c))
    BY <1>2, <2>1, FS_Subset
  <2>3. /\ \A l \in mine(c) : f[l] \in Int
        /\ \A l \in mine(c) : again[l] \notin mine(c)
        /\ \A l, m \in mine(c) : again[l] = again[m] => l = m
        /\ \A l \in mine(c) : g[l] = f[l] /\ g[again[l]] = f[l]
    BY <1>2, <1>3, <1>5, <2>1
  <2>4. SumFunctionOnSet(g, theirs(c)) = 2 * SumFunctionOnSet(f, mine(c))
    BY <2>1, <2>2, <2>3, SumOfCopies
  <2>5. 1 \in Int /\ \A l \in mine(c) : f[l] \in Int /\ f[l] \in Int /\ 1 * f[l] <= 1 * f[l]
    BY <2>3
  <2>6. SumFunctionOnSet(f, mine(c)) \in Int
    BY <2>2, <2>5, SumsCompare
  <2> QED BY <2>4, <2>6
<1>9. /\ SignTest(pairs).better = {c \in CasesIn(pairs) : SumFunctionOnSet(f, mine(c)) > 0}
      /\ SignTest(pairs).worse = {c \in CasesIn(pairs) : SumFunctionOnSet(f, mine(c)) < 0}
      /\ SignTest(pairs).p = McNemar(Cardinality(SignTest(pairs).worse),
                                     Cardinality(SignTest(pairs).better))
  BY DEF SignTest, f
<1>10. /\ SignTest(repeated).better = {c \in CasesIn(repeated) : SumFunctionOnSet(g, theirs(c)) > 0}
       /\ SignTest(repeated).worse = {c \in CasesIn(repeated) : SumFunctionOnSet(g, theirs(c)) < 0}
       /\ SignTest(repeated).p = McNemar(Cardinality(SignTest(repeated).worse),
                                         Cardinality(SignTest(repeated).better))
  <2> HIDE DEF repeated
  <2> QED BY DEF SignTest, g
<1> HIDE DEF mine, theirs, repeated
<1>11. \A c : /\ SumFunctionOnSet(g, theirs(c)) > 0 <=> SumFunctionOnSet(f, mine(c)) > 0
              /\ SumFunctionOnSet(g, theirs(c)) < 0 <=> SumFunctionOnSet(f, mine(c)) < 0
  BY <1>8
<1>12. SignTest(repeated).p = SignTest(pairs).p
  BY <1>6, <1>9, <1>10, <1>11
<1> QED BY <1>12 DEF RepeatsAreNoEvidence, repeated, R, D

\* The factorial, which Combinatorics defines by recursion, exists.
LEMMA Factorials ==
  /\ factorial[0] = 1
  /\ \A n \in Nat : factorial[n] \in Nat \ {0} /\ factorial[n + 1] = (n + 1) * factorial[n]
<1> DEFINE step(f) == [n \in Nat |-> IF n = 0 THEN 1 ELSE n * f[n - 1]]
           Closed(r) == <<0, 1>> \in r /\ \A n, v \in Nat : <<n, v>> \in r => <<n + 1, (n + 1) * v>> \in r
           R == {p \in Nat \X Nat : \A r \in SUBSET (Nat \X Nat) : Closed(r) => p \in r}
<1>0. \A x, y \in Nat : (x + 1) * y \in Nat
  <2> SUFFICES ASSUME NEW x \in Nat, NEW y \in Nat PROVE (x + 1) * y \in Nat
    OBVIOUS
  <2>1. 0 * y <= (x + 1) * y
    BY ProductsCompare
  <2> QED BY <2>1
<1>1. Closed(R)
  <2>1. <<0, 1>> \in R
    OBVIOUS
  <2>2. ASSUME NEW n \in Nat, NEW v \in Nat, <<n, v>> \in R PROVE <<n + 1, (n + 1) * v>> \in R
    <3>1. <<n + 1, (n + 1) * v>> \in Nat \X Nat
      BY <1>0
    <3>2. ASSUME NEW r \in SUBSET (Nat \X Nat), Closed(r) PROVE <<n + 1, (n + 1) * v>> \in r
      <4>1. <<n, v>> \in r
        BY <2>2, <3>2
      <4> QED BY <3>2, <4>1
    <3> QED BY <3>1, <3>2
  <2> HIDE DEF R
  <2> QED BY <2>1, <2>2
<1>2. R \in SUBSET (Nat \X Nat) /\ \A r \in SUBSET (Nat \X Nat) : Closed(r) => R \subseteq r
  OBVIOUS
<1> HIDE DEF R
<1>3. ASSUME NEW v, <<0, v>> \in R PROVE v = 1
  <2> SUFFICES ASSUME v # 1 PROVE FALSE
    OBVIOUS
  <2>1. Closed(R \ {<<0, v>>})
    BY <1>1, <1>2
  <2> QED BY <1>2, <1>3, <2>1
<1>4. ASSUME NEW n \in Nat, NEW v, <<n + 1, v>> \in R
      PROVE  \E w \in Nat : <<n, w>> \in R /\ v = (n + 1) * w
  <2> SUFFICES ASSUME \A w \in Nat : <<n, w>> \in R => v # (n + 1) * w PROVE FALSE
    OBVIOUS
  <2>1. Closed(R \ {<<n + 1, v>>})
    <3>1. <<0, 1>> \in R \ {<<n + 1, v>>}
      BY <1>1
    <3>2. ASSUME NEW m \in Nat, NEW w \in Nat, <<m, w>> \in R \ {<<n + 1, v>>}
          PROVE  <<m + 1, (m + 1) * w>> \in R \ {<<n + 1, v>>}
      <4>1. <<m + 1, (m + 1) * w>> \in R
        BY <1>1, <3>2
      <4>2. <<m + 1, (m + 1) * w>> # <<n + 1, v>>
        <5>1. m + 1 = n + 1 => m = n
          OBVIOUS
        <5> QED BY <3>2, <5>1
      <4> QED BY <4>1, <4>2
    <3> QED BY <3>1, <3>2
  <2> QED BY <1>2, <1>4, <2>1
<1> DEFINE single == {n \in Nat : \E v \in Nat : <<n, v>> \in R /\ \A w : <<n, w>> \in R => w = v}
<1>5. \A n \in Nat : n \in single
  <2> SUFFICES ASSUME Nat \ single # {} PROVE FALSE
    OBVIOUS
  <2>1. PICK n \in Nat \ single : \A m \in Nat \ single : n <= m
    <3>1. Nat \ single \in SUBSET Nat
      OBVIOUS
    <3> HIDE DEF single
    <3> QED BY <3>1, LeastNatural
  <2>2. CASE n = 0
    <3>1. <<0, 1>> \in R /\ \A w : <<0, w>> \in R => w = 1
      BY <1>1, <1>3
    <3>2. \E v \in Nat : <<0, v>> \in R /\ \A w : <<0, w>> \in R => w = v
      <4> WITNESS 1 \in Nat
      <4> QED BY <3>1
    <3> QED BY <2>1, <2>2, <3>2
  <2>3. CASE n # 0
    <3>1. n - 1 \in Nat /\ (n - 1) + 1 = n
      BY <2>1, <2>3
    <3>2. n - 1 \in single
      <4>1. ~(n <= n - 1) /\ n \in Nat
        BY <2>1
      <4> HIDE DEF single
      <4> QED BY <2>1, <3>1, <4>1
    <3>3. PICK v \in Nat : <<n - 1, v>> \in R /\ \A w : <<n - 1, w>> \in R => w = v
      BY <3>2
    <3>4. <<(n - 1) + 1, ((n - 1) + 1) * v>> \in R /\ ((n - 1) + 1) * v \in Nat
      BY <1>0, <1>1, <3>1, <3>3
    <3>5. \A w : <<(n - 1) + 1, w>> \in R => w = ((n - 1) + 1) * v
      BY <1>4, <3>1, <3>3
    <3> QED BY <2>1, <3>1, <3>4, <3>5
  <2> QED BY <2>2, <2>3
<1> DEFINE fact == [n \in Nat |-> CHOOSE v \in Nat : <<n, v>> \in R]
<1>6. \A n \in Nat : fact[n] \in Nat /\ <<n, fact[n]>> \in R
  BY <1>5
<1>7. fact[0] = 1 /\ \A n \in Nat : fact[n + 1] = (n + 1) * fact[n]
  <2> HIDE DEF fact
  <2>1. fact[0] = 1
    BY <1>3, <1>6
  <2>2. ASSUME NEW n \in Nat PROVE fact[n + 1] = (n + 1) * fact[n]
    <3>1. n + 1 \in Nat
      OBVIOUS
    <3>2. PICK w \in Nat : <<n, w>> \in R /\ fact[n + 1] = (n + 1) * w
      BY <1>4, <1>6, <3>1
    <3>3. w = fact[n]
      BY <1>5, <1>6, <3>2
    <3> QED BY <3>2, <3>3
  <2> QED BY <2>1, <2>2
<1>8. fact = step(fact)
  <2>1. ASSUME NEW n \in Nat PROVE fact[n] = IF n = 0 THEN 1 ELSE n * fact[n - 1]
    <3> HIDE DEF fact
    <3>1. CASE n = 0
      BY <1>7, <3>1
    <3>2. CASE n # 0
      <4>1. n - 1 \in Nat /\ (n - 1) + 1 = n
        BY <3>2
      <4>2. fact[(n - 1) + 1] = ((n - 1) + 1) * fact[n - 1]
        BY <1>7, <4>1
      <4> QED BY <3>2, <4>1, <4>2
    <3> QED BY <3>1, <3>2
  <2>2. fact \in [Nat -> Nat]
    BY <1>6
  <2> HIDE DEF fact
  <2> QED BY <2>1, <2>2
<1>9. factorial = CHOOSE f : f = step(f)
  BY DEF factorial
<1> HIDE DEF fact
<1>10. factorial = step(factorial)
  <2> HIDE DEF step
  <2> QED BY <1>8, <1>9
<1>11. factorial[0] = 1 /\ \A n \in Nat : factorial[n + 1] = (n + 1) * factorial[n]
  <2>1. \A n \in Nat : factorial[n] = IF n = 0 THEN 1 ELSE n * factorial[n - 1]
    BY <1>10
  <2>2. ASSUME NEW n \in Nat PROVE factorial[n + 1] = (n + 1) * factorial[n]
    <3>1. n + 1 \in Nat /\ n + 1 # 0 /\ (n + 1) - 1 = n
      OBVIOUS
    <3> QED BY <2>1, <3>1
  <2> QED BY <2>1, <2>2
<1> DEFINE positive == {n \in Nat : factorial[n] \in Nat \ {0}}
<1>12. \A n \in Nat : n \in positive
  <2> SUFFICES ASSUME Nat \ positive # {} PROVE FALSE
    OBVIOUS
  <2>1. PICK n \in Nat \ positive : \A m \in Nat \ positive : n <= m
    <3>1. Nat \ positive \in SUBSET Nat
      OBVIOUS
    <3> HIDE DEF positive
    <3> QED BY <3>1, LeastNatural
  <2>2. CASE n = 0
    BY <1>11, <2>1, <2>2
  <2>3. CASE n # 0
    <3>1. n - 1 \in Nat /\ (n - 1) + 1 = n
      BY <2>1, <2>3
    <3>2. n - 1 \in positive
      <4>1. ~(n <= n - 1) /\ n \in Nat
        BY <2>1
      <4> HIDE DEF positive
      <4> QED BY <2>1, <3>1, <4>1
    <3> DEFINE v == factorial[n - 1]
    <3>3. v \in Nat \ {0} /\ factorial[n] = n * v
      <4>1. factorial[(n - 1) + 1] = ((n - 1) + 1) * v
        BY <1>11, <3>1
      <4> QED BY <3>1, <3>2, <4>1
    <3> HIDE DEF v
    <3>4. n * v \in Int /\ 1 * v <= n * v
      BY <2>1, <2>3, <3>3, ProductsCompare
    <3> QED BY <2>1, <3>3, <3>4
  <2> QED BY <2>2, <2>3
<1> QED BY <1>11, <1>12

\* The parts of a set of one size
Layer(S, k) == {s \in SUBSET S : Cardinality(s) = k}

\* A family of parts of a finite set is finite.
LEMMA LayersAreFinite ==
  ASSUME NEW S, IsFiniteSet(S), NEW X \in SUBSET (SUBSET S)
  PROVE  IsFiniteSet(X) /\ Cardinality(X) \in Nat
<1>1. IsFiniteSet(SUBSET S)
  BY FS_SUBSET
<1> QED BY <1>1, FS_Subset, FS_CardinalityType

\* Pascal's rule: a part either has an element, or is a part of the others.
LEMMA LayersSplit ==
  ASSUME NEW S, IsFiniteSet(S), NEW x \in S, NEW k \in Nat
  PROVE  Cardinality(Layer(S, k + 1)) = Cardinality(Layer(S \ {x}, k + 1))
                                          + Cardinality(Layer(S \ {x}, k))
<1> DEFINE T == S \ {x}
           without == Layer(T, k + 1)
           less == Layer(T, k)
           with == {s \in Layer(S, k + 1) : x \in s}
           add == [s \in less |-> s \cup {x}]
<1>1. \A s \in SUBSET S : IsFiniteSet(s) /\ Cardinality(s) \in Nat
  BY FS_Subset, FS_CardinalityType
<1>2. \A s \in SUBSET T : s \in SUBSET S /\ x \notin s /\ Cardinality(s \cup {x}) = Cardinality(s) + 1
  <2> SUFFICES ASSUME NEW s \in SUBSET T
               PROVE  s \in SUBSET S /\ x \notin s /\ Cardinality(s \cup {x}) = Cardinality(s) + 1
    OBVIOUS
  <2>1. s \in SUBSET S /\ x \notin s
    OBVIOUS
  <2> QED BY <1>1, <2>1, FS_AddElement
<1>3. add \in Bijection(less, with)
  <2>1. ASSUME NEW s \in less PROVE add[s] \in with /\ add[s] \ {x} = s /\ s \in SUBSET T
    <3>1. s \in SUBSET T /\ Cardinality(s) = k
      BY DEF Layer
    <3>2. s \cup {x} \in SUBSET S /\ Cardinality(s \cup {x}) = k + 1
      BY <1>2, <3>1
    <3> QED BY <3>1, <3>2 DEF Layer
  <2>2. ASSUME NEW t \in with PROVE t \ {x} \in less /\ add[t \ {x}] = t
    <3>1. t \in SUBSET S /\ x \in t /\ Cardinality(t) = k + 1
      BY DEF Layer
    <3>2. t \ {x} \in SUBSET T /\ (t \ {x}) \cup {x} = t
      BY <3>1
    <3>3. Cardinality(t \ {x}) = k
      <4>1. Cardinality(t) = Cardinality(t \ {x}) + 1
        BY <1>2, <3>2
      <4>2. Cardinality(t \ {x}) \in Nat
        BY <1>1, <1>2, <3>2
      <4> QED BY <3>1, <4>1, <4>2
    <3>4. t \ {x} \in less
      BY <3>2, <3>3 DEF Layer
    <3> QED BY <3>2, <3>4
  <2>3. add \in [less -> with]
    BY <2>1
  <2> HIDE DEF add, less, with
  <2>4. \A s, t \in less : add[s] = add[t] => s = t
    BY <2>1
  <2>5. \A t \in with : \E s \in less : add[s] = t
    BY <2>2
  <2> QED BY <2>3, <2>4, <2>5 DEF Bijection, Injection, Surjection, IsInjective
<1>4. with \in SUBSET (SUBSET S) /\ without \in SUBSET (SUBSET S) /\ less \in SUBSET (SUBSET S)
  BY DEF Layer
<1>5. Layer(S, k + 1) = with \cup without /\ with \cap without = {}
  <2>1. \A s \in SUBSET S : x \notin s <=> s \in SUBSET T
    OBVIOUS
  <2> HIDE DEF T
  <2> QED BY <1>2, <2>1 DEF Layer
<1> HIDE DEF add, less, with, without
<1>6. IsFiniteSet(with) /\ IsFiniteSet(without) /\ IsFiniteSet(less)
  BY <1>4, LayersAreFinite
<1>7. Cardinality(with) = Cardinality(less)
  <2>1. ExistsBijection(less, with)
    BY <1>3 DEF ExistsBijection
  <2> QED BY <1>6, <2>1, FS_Bijection
<1>8. Cardinality(with \cup without) = Cardinality(with) + Cardinality(without)
  <2>1. Cardinality(with \cup without) = Cardinality(with) + Cardinality(without) - Cardinality(with \cap without)
    BY <1>6, FS_Union
  <2>2. Cardinality(with \cap without) = 0
    BY <1>5, FS_EmptySet
  <2>3. Cardinality(with) \in Nat /\ Cardinality(without) \in Nat
    BY <1>6, FS_CardinalityType
  <2> QED BY <2>1, <2>2, <2>3
<1>9. Cardinality(less) \in Nat /\ Cardinality(without) \in Nat
  BY <1>6, FS_CardinalityType
<1>10. Cardinality(Layer(S, k + 1)) = Cardinality(without) + Cardinality(less)
  <2>1. Cardinality(Layer(S, k + 1)) = Cardinality(with) + Cardinality(without)
    BY <1>5, <1>8
  <2>2. Cardinality(Layer(S, k + 1)) = Cardinality(less) + Cardinality(without)
    BY <1>7, <2>1
  <2> QED BY <1>9, <2>2
<1> QED BY <1>10 DEF without, less

\* The products a binomial coefficient is the quotient of
LEMMA LayersAreCounted ==
  ASSUME NEW S, IsFiniteSet(S)
  PROVE  \A k \in 0..Cardinality(S) :
           Cardinality(Layer(S, k)) * (factorial[k] * factorial[Cardinality(S) - k])
             = factorial[Cardinality(S)]
<1> DEFINE Count(t, k) == Cardinality(Layer(t, k)) * (factorial[k] * factorial[Cardinality(t) - k])
           good == {t \in SUBSET S : \A k \in 0..Cardinality(t) :
                                        Count(t, k) = factorial[Cardinality(t)]}
<1>1. ASSUME NEW t \in SUBSET S, \A x \in t : t \ {x} \in good PROVE t \in good
  <2> SUFFICES ASSUME NEW k \in 0..Cardinality(t) PROVE Count(t, k) = factorial[Cardinality(t)]
    OBVIOUS
  <2> DEFINE n == Cardinality(t)
  <2>1. IsFiniteSet(t) /\ n \in Nat /\ k \in Nat /\ k <= n
    BY FS_Subset, FS_CardinalityType
  <2>2. \A m \in Nat : factorial[m] \in Nat /\ factorial[m + 1] = (m + 1) * factorial[m]
    BY Factorials
  <2>3. CASE k = 0
    <3>1. Layer(t, 0) = {{}}
      <4>1. \A s \in SUBSET t : Cardinality(s) = 0 <=> s = {}
        BY <2>1, FS_Subset, FS_EmptySet
      <4> QED BY <4>1 DEF Layer
    <3>2. Cardinality(Layer(t, 0)) = 1
      BY <3>1, FS_Singleton
    <3>3. factorial[0] = 1 /\ n - 0 = n /\ factorial[n] \in Nat
      BY <2>1, <2>2, Factorials
    <3> QED BY <2>3, <3>2, <3>3
  <2>4. CASE k = n /\ n # 0
    <3>1. Layer(t, n) = {t}
      <4>1. \A s \in SUBSET t : Cardinality(s) = n <=> s = t
        BY <2>1, FS_Subset
      <4> QED BY <4>1 DEF Layer
    <3>2. Cardinality(Layer(t, n)) = 1
      BY <3>1, FS_Singleton
    <3>3. factorial[0] = 1 /\ n - n = 0 /\ factorial[n] \in Nat
      BY <2>1, <2>2, Factorials
    <3> QED BY <2>4, <3>2, <3>3
  <2>5. CASE 0 < k /\ k < n
    <3>1. PICK x : x \in t
      <4>1. t # {}
        BY <2>5, FS_EmptySet
      <4> QED BY <4>1
    <3> DEFINE u == t \ {x}
               m == n - 1
               j == k - 1
               d == n - k - 1
    <3>2. Cardinality(u) = m /\ u \in good
      <4>1. Cardinality(u) = Cardinality(t) - 1
        BY <2>1, <3>1, FS_RemoveElement
      <4> QED BY <1>1, <3>1, <4>1
    <3>3. /\ m \in Nat /\ j \in Nat /\ d \in Nat /\ m + 1 = n /\ j + 1 = k
          /\ m - k = d /\ m - j = d + 1 /\ n - k = d + 1 /\ k \in 0..m /\ j \in 0..m
      BY <2>1, <2>5
    <3> DEFINE a == Cardinality(Layer(u, k))
               b == Cardinality(Layer(u, j))
               fj == factorial[j]
               fd == factorial[d]
               fm == factorial[m]
    <3>4. /\ a * (factorial[k] * fd) = fm
          /\ b * (fj * factorial[d + 1]) = fm
      <4>1. Count(u, k) = factorial[m] /\ Count(u, j) = factorial[m]
        BY <3>2, <3>3
      <4> QED BY <3>2, <3>3, <4>1
    <3>5. Cardinality(Layer(t, k)) = a + b
      <4>1. Cardinality(Layer(t, j + 1)) = Cardinality(Layer(u, j + 1)) + Cardinality(Layer(u, j))
        <5> HIDE DEF j
        <5> QED BY <2>1, <3>1, <3>3, LayersSplit
      <4> QED BY <3>3, <4>1
    <3>6. factorial[k] = k * fj /\ factorial[d + 1] = (d + 1) * fd /\ factorial[n] = n * fm
      BY <2>2, <3>3
    <3>7. a \in Nat /\ b \in Nat /\ fj \in Nat /\ fd \in Nat /\ fm \in Nat
      <4>1. IsFiniteSet(u)
        BY <2>1, FS_Subset
      <4>2. Layer(u, k) \in SUBSET (SUBSET u) /\ Layer(u, j) \in SUBSET (SUBSET u)
        BY DEF Layer
      <4> QED BY <2>2, <3>3, <4>1, <4>2, LayersAreFinite
    <3>8. Count(t, k) = (a + b) * (factorial[k] * factorial[d + 1])
      BY <3>3, <3>5
    <3> HIDE DEF a, b, fj, fd, fm, u, m, j, d, n
    <3>9. (a + b) * ((k * fj) * ((d + 1) * fd)) = (d + 1) * (a * ((k * fj) * fd)) + k * (b * (fj * ((d + 1) * fd)))
      BY <2>1, <3>3, <3>7
    <3>10. (d + 1) * fm + k * fm = n * fm
      <4>1. n = (d + 1) + k
        BY <2>1, <3>3
      <4> QED BY <2>1, <3>3, <3>7, <4>1
    <3>11. Count(t, k) = n * fm
      BY <3>4, <3>6, <3>8, <3>9, <3>10
    <3> QED BY <3>6, <3>11 DEF n
  <2> QED BY <2>1, <2>3, <2>4, <2>5
<1>2. S \in good
  <2>1. good \in SUBSET (SUBSET S)
    OBVIOUS
  <2> HIDE DEF good
  <2> QED BY <1>1, <2>1, BySmaller
<1> QED BY <1>2

\* A binomial coefficient counts the parts of a size.
LEMMA BinomialsCount ==
  ASSUME NEW S, IsFiniteSet(S), NEW k \in 0..Cardinality(S)
  PROVE  choose(Cardinality(S), k) = Cardinality(Layer(S, k))
<1> DEFINE n == Cardinality(S)
           c == Cardinality(Layer(S, k))
           d == factorial[k] * factorial[n - k]
<1>1. n \in Nat /\ k \in Nat /\ n - k \in Nat
  BY FS_CardinalityType
<1>2. factorial[k] \in Nat \ {0} /\ factorial[n - k] \in Nat \ {0}
  BY <1>1, Factorials
<1>3. d \in Int /\ d > 0
  <2>1. 1 * factorial[n - k] <= factorial[k] * factorial[n - k]
    BY <1>2, ProductsCompare
  <2> QED BY <1>2, <2>1
<1>4. c \in Nat
  <2>1. Layer(S, k) \in SUBSET (SUBSET S)
    BY DEF Layer
  <2> QED BY <2>1, LayersAreFinite
<1>5. c * d = factorial[n]
  BY LayersAreCounted
<1>6. choose(n, k) = (c * d) \div d
  BY <1>5 DEF choose
<1> HIDE DEF c, d
<1>7. (c * d) \div d = c
  BY <1>3, <1>4
<1> QED BY <1>6, <1>7 DEF c

\* The sum of the first binomial coefficients counts the parts that are no larger.
LEMMA TailsCount ==
  ASSUME NEW S, IsFiniteSet(S), NEW m \in 0..Cardinality(S)
  PROVE  SumFunction([i \in 0..m |-> choose(Cardinality(S), i)])
           = Cardinality({s \in SUBSET S : Cardinality(s) <= m})
<1> DEFINE n == Cardinality(S)
           I == 0..m
           f == [i \in I |-> choose(n, i)]
           upTo(s) == UNION {Layer(S, i) : i \in s}
<1>1. n \in Nat /\ IsFiniteSet(I) /\ \A s \in SUBSET S : Cardinality(s) \in Nat
  <2>1. IsFiniteSet(0..m)
    BY FS_Interval
  <2> QED BY <2>1, FS_Subset, FS_CardinalityType
<1>2. \A i \in I : /\ f[i] = Cardinality(Layer(S, i)) /\ f[i] \in Int
                   /\ IsFiniteSet(Layer(S, i))
  <2> SUFFICES ASSUME NEW i \in I
               PROVE  f[i] = Cardinality(Layer(S, i)) /\ f[i] \in Int /\ IsFiniteSet(Layer(S, i))
    OBVIOUS
  <2>1. i \in 0..n /\ f[i] = choose(n, i)
    BY <1>1
  <2>2. Layer(S, i) \in SUBSET (SUBSET S)
    BY DEF Layer
  <2>3. IsFiniteSet(Layer(S, i)) /\ Cardinality(Layer(S, i)) \in Nat
    BY <2>2, LayersAreFinite
  <2> QED BY <2>1, <2>3, BinomialsCount
<1>3. DOMAIN f = I
  OBVIOUS
<1> HIDE DEF f
<1>4. PICK sum : Sums(f, I, sum)
  BY <1>1, <1>2, SumsExist
<1> DEFINE good == {s \in SUBSET I : sum[s] = Cardinality(upTo(s))}
<1>5. {} \in good
  <2>1. upTo({}) = {}
    OBVIOUS
  <2> QED BY <1>4, <2>1, FS_EmptySet DEF Sums
<1>6. ASSUME NEW s \in SUBSET I, s # {}, s \ {CHOOSE x \in s : TRUE} \in good PROVE s \in good
  <2> DEFINE x == CHOOSE y \in s : TRUE
             t == s \ {x}
  <2>1. x \in s /\ x \in I /\ t = s \ {x}
    BY <1>6
  <2>2. sum[s] = f[x] + sum[t] /\ sum[t] = Cardinality(upTo(t))
    BY <1>4, <1>6 DEF Sums
  <2> HIDE DEF x, t
  <2>3. upTo(s) = Layer(S, x) \cup upTo(t) /\ Layer(S, x) \cap upTo(t) = {}
    <3>1. upTo(s) = Layer(S, x) \cup upTo(t)
      BY <2>1
    <3>2. Layer(S, x) \cap upTo(t) = {}
      BY <2>1 DEF Layer
    <3> QED BY <3>1, <3>2
  <2>4. upTo(t) \in SUBSET (SUBSET S)
    BY DEF Layer
  <2> HIDE DEF upTo
  <2>5. IsFiniteSet(upTo(t)) /\ Cardinality(upTo(t)) \in Nat /\ IsFiniteSet(Layer(S, x))
    BY <1>2, <2>1, <2>4, LayersAreFinite
  <2>6. Cardinality(upTo(s)) = Cardinality(Layer(S, x)) + Cardinality(upTo(t))
    <3>1. Cardinality(Layer(S, x) \cup upTo(t))
            = Cardinality(Layer(S, x)) + Cardinality(upTo(t)) - Cardinality(Layer(S, x) \cap upTo(t))
      BY <2>5, FS_Union
    <3>2. Cardinality(Layer(S, x) \cap upTo(t)) = 0
      BY <2>3, FS_EmptySet
    <3>3. Cardinality(Layer(S, x)) \in Nat
      BY <2>5, FS_CardinalityType
    <3> QED BY <2>3, <2>5, <3>1, <3>2, <3>3
  <2> QED BY <1>2, <2>1, <2>2, <2>6
<1>7. I \in good
  <2>1. good \in SUBSET (SUBSET I)
    OBVIOUS
  <2> HIDE DEF good, I
  <2> QED BY <1>1, <1>5, <1>6, <2>1, ByElements
<1>8. upTo(I) = {s \in SUBSET S : Cardinality(s) <= m}
  <2>1. \A s \in SUBSET S : Cardinality(s) <= m <=> Cardinality(s) \in I
    BY <1>1
  <2> HIDE DEF I
  <2> QED BY <2>1 DEF Layer
<1>9. SumFunction(f) = sum[I]
  BY <1>1, <1>3, <1>4, SumIsOfElements DEF SumFunction
<1> HIDE DEF upTo
<1>10. SumFunction(f) = Cardinality({s \in SUBSET S : Cardinality(s) <= m})
  BY <1>7, <1>8, <1>9
<1> QED BY <1>10 DEF f

\* The lesser of two integers
LEMMA LesserOf ==
  ASSUME NEW x \in Int, NEW y \in Int
  PROVE  Min({x, y}) = IF x <= y THEN x ELSE y
BY DEF Min

\* The p-value of b and c discordant pairs counts the ways they could have fallen that
\* are as uneven.
LEMMA McNemarIsExact ==
  ASSUME NEW b \in Nat, NEW c \in Nat, b + c > 0
  PROVE  LET n == b + c
             Least(s) == Min({Cardinality(s), n - Cardinality(s)})
         IN  McNemar(b, c) = <<Cardinality({s \in SUBSET (1..n) : Least(s) <= Min({b, c})}), 2^n>>
<1> DEFINE n == b + c
           S == 1..n
           m == Min({b, c})
           Least(s) == Min({Cardinality(s), n - Cardinality(s)})
           few == {s \in SUBSET S : Cardinality(s) <= m}
           many == {s \in SUBSET S : n - Cardinality(s) <= m}
           uneven == {s \in SUBSET S : Least(s) <= m}
           others == [s \in few |-> S \ s]
           tail == SumFunction([i \in 0..m |-> choose(n, i)])
<1>1. IsFiniteSet(S) /\ Cardinality(S) = n /\ n \in Nat
  BY FS_Interval
<1>2. m \in Nat /\ 2 * m <= n /\ m <= n
  BY LesserOf
<1>3. \A s \in SUBSET S : /\ IsFiniteSet(s) /\ Cardinality(s) \in Nat
                          /\ Cardinality(S \ s) = n - Cardinality(s)
  <2> SUFFICES ASSUME NEW s \in SUBSET S
               PROVE  IsFiniteSet(s) /\ Cardinality(s) \in Nat
                      /\ Cardinality(S \ s) = n - Cardinality(s)
    OBVIOUS
  <2> HIDE DEF S, n
  <2>1. IsFiniteSet(s) /\ Cardinality(s) \in Nat /\ IsFiniteSet(S \ s) /\ Cardinality(S \ s) \in Nat
    BY <1>1, FS_Subset, FS_CardinalityType
  <2>2. s \cup (S \ s) = S /\ s \cap (S \ s) = {}
    OBVIOUS
  <2>3. Cardinality(s \cup (S \ s)) = Cardinality(s) + Cardinality(S \ s) - Cardinality(s \cap (S \ s))
    BY <2>1, FS_Union
  <2>4. Cardinality(s \cap (S \ s)) = 0
    BY <2>2, FS_EmptySet
  <2>5. Cardinality(s \cup (S \ s)) = n
    BY <1>1, <2>2
  <2>6. Cardinality(S \ s) \in Int /\ Cardinality(s) \in Int /\ n \in Int
    BY <1>1, <2>1
  <2>7. n = Cardinality(s) + Cardinality(S \ s)
    BY <2>3, <2>4, <2>5, <2>6
  <2> QED BY <2>1, <2>6, <2>7
<1> HIDE DEF S, n, m
<1> DEFINE size(s) == Cardinality(s)
<1>a. \A s \in SUBSET S : size(s) \in Int /\ n - size(s) \in Int
  <2> SUFFICES ASSUME NEW s \in SUBSET S PROVE size(s) \in Int /\ n - size(s) \in Int
    OBVIOUS
  <2>1. size(s) \in Nat
    BY <1>3
  <2> HIDE DEF size
  <2> QED BY <1>1, <2>1
<1>4. tail = Cardinality(few)
  <2>1. m \in 0..Cardinality(S)
    BY <1>1, <1>2
  <2> QED BY <1>1, <2>1, TailsCount
<1>5. others \in Bijection(few, many)
  <2>1. ASSUME NEW s \in few PROVE others[s] \in many /\ S \ others[s] = s
    <3>1. s \in SUBSET S /\ Cardinality(s) <= m /\ others[s] = S \ s
      OBVIOUS
    <3>2. S \ s \in SUBSET S /\ S \ (S \ s) = s
      BY <3>1
    <3>3. Cardinality(S \ s) = n - Cardinality(s) /\ Cardinality(s) \in Nat
      BY <1>3, <3>1
    <3>4. n - Cardinality(S \ s) <= m
      BY <1>1, <3>1, <3>3
    <3> HIDE DEF others
    <3> QED BY <3>1, <3>2, <3>4
  <2>2. ASSUME NEW t \in many PROVE S \ t \in few /\ others[S \ t] = t
    <3>1. t \in SUBSET S /\ n - Cardinality(t) <= m
      OBVIOUS
    <3>2. S \ t \in SUBSET S /\ S \ (S \ t) = t
      BY <3>1
    <3>3. Cardinality(S \ t) = n - Cardinality(t)
      BY <1>3, <3>1
    <3>4. S \ t \in few
      BY <3>1, <3>2, <3>3
    <3> QED BY <3>2, <3>4
  <2>3. others \in [few -> many]
    BY <2>1
  <2> HIDE DEF others, few, many
  <2>4. \A s, t \in few : others[s] = others[t] => s = t
    BY <2>1
  <2>5. \A t \in many : \E s \in few : others[s] = t
    BY <2>2
  <2> QED BY <2>3, <2>4, <2>5 DEF Bijection, Injection, Surjection, IsInjective
<1>6. uneven = few \cup many
  <2>1. \A s \in SUBSET S : Least(s) <= m <=> Cardinality(s) <= m \/ n - Cardinality(s) <= m
    <3> SUFFICES ASSUME NEW s \in SUBSET S
                 PROVE  Least(s) <= m <=> Cardinality(s) <= m \/ n - Cardinality(s) <= m
      OBVIOUS
    <3>1. Cardinality(s) \in Int /\ n - Cardinality(s) \in Int
      BY <1>a
    <3>2. Least(s) = IF Cardinality(s) <= n - Cardinality(s) THEN Cardinality(s) ELSE n - Cardinality(s)
      BY <3>1, LesserOf
    <3> HIDE DEF Least
    <3> QED BY <1>2, <3>1, <3>2
  <2> QED BY <2>1
<1>7. few \in SUBSET (SUBSET S) /\ many \in SUBSET (SUBSET S)
  OBVIOUS
<1>8. \A s \in few \cap many : 2 * m = n
  <2> SUFFICES ASSUME NEW s \in few \cap many PROVE 2 * m = n
    OBVIOUS
  <2> DEFINE k == Cardinality(s)
  <2>1. k \in Int /\ k <= m /\ n - k <= m
    BY <1>a
  <2> HIDE DEF k
  <2> QED BY <1>1, <1>2, <2>1
<1>9. 2 * m = n => few \cup many = SUBSET S
  <2> SUFFICES ASSUME 2 * m = n, NEW s \in SUBSET S PROVE s \in few \cup many
    OBVIOUS
  <2> DEFINE k == Cardinality(s)
  <2>1. k \in Int
    BY <1>a
  <2> HIDE DEF k
  <2>2. k <= m \/ n - k <= m
    BY <1>1, <1>2, <2>1
  <2>3. Cardinality(s) <= m \/ n - Cardinality(s) <= m
    BY <2>2 DEF k
  <2> QED BY <2>3
<1> HIDE DEF few, many, others, uneven, tail
<1>10. IsFiniteSet(few) /\ IsFiniteSet(many) /\ Cardinality(few) \in Nat /\ Cardinality(many) \in Nat
  BY <1>1, <1>7, LayersAreFinite
<1>11. Cardinality(many) = Cardinality(few)
  <2>1. ExistsBijection(few, many)
    BY <1>5 DEF ExistsBijection
  <2> QED BY <1>10, <2>1, FS_Bijection
<1>12. /\ Cardinality(uneven) = 2 * tail - Cardinality(few \cap many)
       /\ Cardinality(few \cap many) \in Nat
  <2>1. Cardinality(few \cup many) = Cardinality(few) + Cardinality(many) - Cardinality(few \cap many)
    BY <1>10, FS_Union
  <2>2. Cardinality(few \cap many) \in Nat
    <3>1. few \cap many \in SUBSET (SUBSET S)
      BY <1>7
    <3> QED BY <1>1, <3>1, LayersAreFinite
  <2> QED BY <1>4, <1>6, <1>10, <1>11, <2>1, <2>2
<1>13. Cardinality(SUBSET S) = 2^n /\ Cardinality(uneven) <= 2^n /\ 2^n \in Nat /\ Cardinality(uneven) \in Nat
  <2>1. Cardinality(SUBSET S) = 2^n /\ IsFiniteSet(SUBSET S)
    BY <1>1, FS_SUBSET
  <2>2. uneven \in SUBSET (SUBSET S)
    BY <1>6, <1>7
  <2>3. Cardinality(uneven) <= Cardinality(SUBSET S) /\ IsFiniteSet(uneven)
    BY <2>1, <2>2, FS_Subset
  <2> QED BY <2>1, <2>3, FS_CardinalityType
<1>14. Min({2 * tail, 2^n}) = Cardinality(uneven)
  <2>1. tail \in Nat /\ Min({2 * tail, 2^n}) = IF 2 * tail <= 2^n THEN 2 * tail ELSE 2^n
    BY <1>4, <1>10, <1>13, LesserOf
  <2>2. CASE few \cap many = {}
    <3>1. Cardinality(few \cap many) = 0
      BY <2>2, FS_EmptySet
    <3>2. Cardinality(uneven) = 2 * tail
      BY <1>12, <2>1, <3>1
    <3> QED BY <1>13, <2>1, <3>2
  <2>3. CASE few \cap many # {}
    <3>1. Cardinality(uneven) = 2^n
      BY <1>6, <1>8, <1>9, <1>13, <2>3
    <3>2. 2 * tail >= 2^n
      BY <1>12, <1>13, <2>1, <3>1
    <3> QED BY <1>13, <2>1, <3>1, <3>2
  <2> QED BY <2>2, <2>3
<1>15. McNemar(b, c) = <<Min({2 * tail, 2^n}), 2^n>>
  BY DEF McNemar, tail, n, m
<1>16. McNemar(b, c) = <<Cardinality(uneven), 2^n>>
  BY <1>14, <1>15
<1> QED BY <1>16 DEF uneven, n, m, S

\* The p-value of the discordant pairs is that of their two counts.
LEMMA TailsOfPairs == InferenceInv => TailsAreExact
<1> SUFFICES ASSUME InferenceInv PROVE TailsAreExact
  OBVIOUS
<1> DEFINE Only(a, b) == Cardinality({k \in DOMAIN pairs : pairs[k] = <<a, b>>})
           d == Discordance(pairs)
<1>1. \A a, b : Only(a, b) \in Nat
  <2> SUFFICES ASSUME NEW a, NEW b PROVE Only(a, b) \in Nat
    OBVIOUS
  <2>1. {k \in DOMAIN pairs : pairs[k] = <<a, b>>} \in SUBSET DOMAIN pairs
    OBVIOUS
  <2>2. IsFiniteSet({k \in DOMAIN pairs : pairs[k] = <<a, b>>})
    BY <2>1, FS_Subset DEF InferenceInv
  <2> QED BY <2>2, FS_CardinalityType
<1>2. d.aOnly \in Nat /\ d.bOnly \in Nat /\ d.p = McNemar(d.aOnly, d.bOnly)
  BY <1>1 DEF Discordance
<1> HIDE DEF d
<1>3. d.aOnly + d.bOnly > 0 =>
        LET n == d.aOnly + d.bOnly
            Least(s) == Min({Cardinality(s), n - Cardinality(s)})
        IN  d.p = <<Cardinality({s \in SUBSET (1..n) : Least(s) <= Min({d.aOnly, d.bOnly})}), 2^n>>
  BY <1>2, McNemarIsExact
<1> QED BY <1>3 DEF TailsAreExact, d

\* The family's correction is one of p-values in range.
LEMMA CorrectionOfFamily == InferenceInv => FdrIsOneRule
<1> SUFFICES ASSUME InferenceInv, NEW m \in DOMAIN fdr, NEW n \in DOMAIN fdr
             PROVE  /\ fdr[n].significant <=> AtMost(fdr[n].adjusted, Alpha)
                    /\ pvalues[m] <= pvalues[n] =>
                         /\ AtMost(fdr[m].adjusted, fdr[n].adjusted)
                         /\ fdr[n].significant => fdr[m].significant
  BY DEF FdrIsOneRule
<1> DEFINE S == DOMAIN pvalues
<1>1. IsFiniteSet(S) /\ m \in S /\ n \in S
      /\ fdr = BenjaminiHochberg(pvalues, Denominator, Alpha)
  BY DEF InferenceInv
<1>2. pvalues \in [S -> 1..Denominator] /\ Denominator \in Nat /\ Alpha \in Fractions
  BY InferenceAssumption DEF InferenceInv
<1> HIDE DEF S
<1>3. \A k, l \in S :
        /\ fdr[l].significant <=> AtMost(fdr[l].adjusted, Alpha)
        /\ pvalues[k] <= pvalues[l] =>
             /\ AtMost(fdr[k].adjusted, fdr[l].adjusted)
             /\ fdr[l].significant => fdr[k].significant
  BY <1>1, <1>2, CorrectionIsOneRule
<1> QED BY <1>1, <1>3

\* Whatever is paired and tested, the p-value of the discordant pairs counts the ways
\* they could have fallen that are as uneven, repeated cells change no sign test, and
\* the correction rejects exactly what it adjusts to the level or less
\* (statistics.py, mcnemar_exact, case_level_sign_test and benjamini_hochberg).
THEOREM TestsCountExactly == InferenceSpec => []TestsAreExact
<1>1. InferenceSpec => []InferenceInv
  BY InferenceInit, InferenceStep, PTL DEF InferenceSpec
<1>2. InferenceInv => TestsAreExact
  BY TailsOfPairs, RepeatsAddNothing, CorrectionOfFamily DEF TestsAreExact
<1> QED BY <1>1, <1>2, PTL
================================================================================
