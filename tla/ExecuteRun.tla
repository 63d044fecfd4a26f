------------------------------ MODULE ExecuteRun ------------------------------
(* The executor of a run: lexstab/run.py, execute_run.                        *)
(*                                                                            *)
(* The cells of the matrix are numbered 1..N in the order they are submitted. *)
(* Pool threads take them from the queue; the main thread walks               *)
(* pool.map(_run_one, ordered), which yields results in submission order, and *)
(* appends each one to the run's files.  With Concurrency = 1 there is no     *)
(* pool: the main thread itself runs cell k and writes it before it takes     *)
(* cell k + 1.                                                                *)
(*                                                                            *)
(* A cell's outcome is abstracted to what the executor and the health summary *)
(* tell apart, the Outcome of RunHealth.                                      *)
EXTENDS Naturals, Sequences, FiniteSets, RunHealth

CONSTANTS N,            \* number of matrix cells
          Concurrency   \* execution.concurrency, the size of the thread pool

ASSUME RunAssumption == N \in Nat \ {0} /\ Concurrency \in Nat \ {0}

Cells == 1..N
Workers == 1..Concurrency
NoSummary == [status |-> "none", healthy |-> FALSE]
Idle == 0               \* ranBy of a cell no provider failure is known of

VARIABLES
    stop,       \* stop_after_provider_failure, a threading.Event
    next,       \* the next cell the pool's queue hands out
    at,         \* what each worker is doing
    cell,       \* the cell each worker holds, or held last
    result,     \* the in-memory CellResult of each cell, or "none"
    rows,       \* cell-results.jsonl
    traced,     \* how many cells' records stand in invocations.jsonl
    phase,      \* "executing", "finished" or "interrupted"
    summary     \* run-summary.json, or NoSummary
VARIABLE
    ranBy       \* history: the worker on which each failed call was made

workerVars == <<stop, next, at, cell, result, ranBy>>
mainVars == <<rows, traced, phase, summary>>
vars == <<workerVars, mainVars>>
-------------------------------------------------------------------------------
\* The outcomes of the first k rows.
RowKinds(k) == {rows[i].outcome : i \in 1..k}

Init ==
    /\ stop = FALSE
    /\ next = 1
    /\ at = [w \in Workers |-> "idle"]
    /\ cell = [w \in Workers |-> 1]
    /\ result = [c \in Cells |-> "none"]
    /\ ranBy = [c \in Cells |-> Idle]
    /\ rows = <<>>
    /\ traced = 0
    /\ phase = "executing"
    /\ summary = NoSummary
-------------------------------------------------------------------------------
(* The workers: _run_one.                                                     *)

\* A worker takes the next cell.  Without a pool the cell before must have been
\* written by then.
Dequeue(w) ==
    /\ phase = "executing"
    /\ at[w] = "idle"
    /\ next <= N
    /\ Concurrency = 1 => traced = next - 1
    /\ at' = [at EXCEPT ![w] = "dequeued"]
    /\ cell' = [cell EXCEPT ![w] = next]
    /\ next' = next + 1
    /\ UNCHANGED <<stop, result, ranBy, mainVars>>

\* The worker's result becomes known and the worker is free again.
Deliver(w, outcome) ==
    /\ result' = [result EXCEPT ![cell[w]] = outcome]
    /\ at' = [at EXCEPT ![w] = "idle"]

\* stop_after_provider_failure.is_set(): the cell is recorded as skipped.
Abort(w) ==
    /\ phase = "executing"
    /\ at[w] = "dequeued"
    /\ stop
    /\ Deliver(w, "aborted")
    /\ UNCHANGED <<stop, next, cell, ranBy, mainVars>>

\* The event is not looked at.
StartUnchecked(w) ==
    /\ phase = "executing"
    /\ at[w] = "dequeued"
    /\ at' = [at EXCEPT ![w] = "running"]
    /\ UNCHANGED <<stop, next, cell, result, ranBy, mainVars>>

\* The event was not set when it was read; it may be set before the first call.
Start(w) ==
    /\ phase = "executing"
    /\ at[w] = "dequeued"
    /\ ~stop
    /\ at' = [at EXCEPT ![w] = "running"]
    /\ UNCHANGED <<stop, next, cell, result, ranBy, mainVars>>

\* cell_runner returns, or raises something other than a provider failure.
Complete(w) ==
    /\ phase = "executing"
    /\ at[w] = "running"
    /\ \E outcome \in {"ok", "length", "harness"} : Deliver(w, outcome)
    /\ UNCHANGED <<stop, next, cell, ranBy, mainVars>>

\* The provider call has failed for good; the exception is on its way up to
\* _run_one and no other thread can know yet.
FailCall(w) ==
    /\ phase = "executing"
    /\ at[w] = "running"
    /\ at' = [at EXCEPT ![w] = "failing"]
    /\ UNCHANGED <<stop, next, cell, result, ranBy, mainVars>>

\* except ProviderInvocationFailure: the event is set, the result returned.
RaiseStop(w) ==
    /\ phase = "executing"
    /\ at[w] = "failing"
    /\ stop' = TRUE
    /\ ranBy' = [ranBy EXCEPT ![cell[w]] = w]
    /\ Deliver(w, "provider")
    /\ UNCHANGED <<next, cell, mainVars>>
-------------------------------------------------------------------------------
(* The main thread: _write_result for each result, then run-summary.json.     *)

AppendRowOf(c) ==
    rows' = Append(rows, [cell |-> c, outcome |-> result[c]])

\* The next result in submission order is there: its row is appended.
AppendRow ==
    /\ phase = "executing"
    /\ traced = Len(rows)
    /\ traced < N
    /\ result[traced + 1] # "none"
    /\ AppendRowOf(traced + 1)
    /\ UNCHANGED <<traced, phase, summary, workerVars>>

\* ... and then its invocations, ledger entries and events.
AppendTraces ==
    /\ phase = "executing"
    /\ traced < Len(rows)
    /\ traced' = traced + 1
    /\ UNCHANGED <<rows, phase, summary, workerVars>>

\* The summary is written when the last cell has been handed out.
WriteSummaryEarly ==
    /\ phase = "executing"
    /\ next > N
    /\ traced = Len(rows)
    /\ summary' = HealthOf(RowKinds(traced), RowKinds(traced))
    /\ phase' = "finished"
    /\ UNCHANGED <<rows, traced, workerVars>>

\* Every result was written; the summary is computed from the results in memory,
\* of which only those that made calls to an end carry invocation records.
WriteSummary ==
    /\ phase = "executing"
    /\ traced = N
    /\ LET kinds == {result[c] : c \in Cells}
       IN  summary' = HealthOf(kinds, kinds)
    /\ phase' = "finished"
    /\ UNCHANGED <<rows, traced, workerVars>>

\* The process ends at any point: a signal, a full disk, an operator.  What was
\* only in memory is gone; `result` is kept as a record of what had been done.
Interrupt ==
    /\ phase = "executing"
    /\ phase' = "interrupted"
    /\ UNCHANGED <<rows, traced, summary, workerVars>>

Work(w) ==
    \/ Dequeue(w) \/ Abort(w) \/ Start(w)
    \/ Complete(w) \/ FailCall(w) \/ RaiseStop(w)

Write == AppendRow \/ AppendTraces \/ WriteSummary

Next == (\E w \in Workers : Work(w)) \/ Write \/ Interrupt

Spec == Init /\ [][Next]_vars

\* A thread that can go on does: the pool's threads are scheduled by the
\* operating system and every provider call has a time limit and a bounded
\* number of retries.  Nobody has to interrupt the run.
FairSpec ==
    /\ Spec
    /\ \A w \in Workers : WF_vars(Work(w))
    /\ WF_vars(Write)
-------------------------------------------------------------------------------
TypeOK ==
    /\ stop \in BOOLEAN
    /\ next \in 1..(N + 1)
    /\ at \in [Workers -> {"idle", "dequeued", "running", "failing"}]
    /\ cell \in [Workers -> Cells]
    /\ result \in [Cells -> Outcome \cup {"none"}]
    /\ ranBy \in [Cells -> Workers \cup {Idle}]
    /\ rows \in Seq([cell : Cells, outcome : Outcome])
    /\ traced \in Nat
    /\ phase \in {"executing", "finished", "interrupted"}
    /\ summary \in [status : Status \cup {"none"}, healthy : BOOLEAN]

FailedCells == {c \in Cells : result[c] = "provider"}

\* At most one cell per worker is spent on a failing provider: whoever has seen a
\* failure finds the event set before it can start a second cell, however many
\* threads were past their check when the first call failed (run.py, _run_one).
FailuresBoundedByPool == Cardinality(FailedCells) <= Concurrency

\* A cell is skipped only after a provider failure that is on record, and in a
\* finished run that failure has a row of its own, so the summary of a finished
\* run names the cause and never just "aborted".
SkippedCellsHaveACause ==
    /\ \A c \in Cells : result[c] = "aborted" => FailedCells # {}
    /\ phase = "finished" =>
          /\ summary.status # "aborted"
          /\ "aborted" \in RowKinds(Len(rows)) => "provider" \in RowKinds(Len(rows))

\* "never drop failed cells silently" (run.py, _run_one): a finished run has
\* exactly one row for every cell, with the cell's own outcome, and the call
\* records of all of them, whatever the threads did.
NoCellDropped ==
    phase = "finished" =>
        /\ Len(rows) = N /\ traced = N
        /\ \A c \in Cells :
              \E i \in 1..N : rows[i] = [cell |-> c, outcome |-> result[c]]

\* Every cell is accounted for, and every cell that was not executed is explained.
CellsAreAccounted == NoCellDropped /\ SkippedCellsHaveACause

\* Without a pool the run stops at the failure: every later row is a skipped one.
SequentialRunStopsAtFailure ==
    Concurrency = 1 =>
        \A i, j \in 1..Len(rows) :
            i < j /\ rows[i].outcome \in {"provider", "aborted"}
                => rows[j].outcome = "aborted"

\* What the run promises to the readers of its files.
Ledger == INSTANCE RunLedger WITH
    MaxFailures <- Concurrency,
    ledger      <- [i \in 1..Len(rows) |-> rows[i].outcome],
    verdict     <- IF summary = NoSummary THEN "none"
                   ELSE IF summary.healthy THEN "healthy" ELSE "unhealthy"

\* The executor implements RunLedger, its progress included: a run that nobody
\* interrupts ends with a summary, also when the stop event is set while threads run.
ImplementsLedger == Ledger!Spec

\* RUNBOOK.md, "Crash and partial-run behavior": "Every completed matrix cell is
\* appended to the run directory as soon as it finishes."  So no cell that has
\* ended waits, unwritten, for a cell that is still being executed.
CompletedCellsAreWritten ==
    ~ \E w \in Workers, d \in Cells :
          /\ phase = "executing"
          /\ at[w] = "running"
          /\ cell[w] < d
          /\ d > Len(rows)
          /\ result[d] # "none"
===============================================================================
