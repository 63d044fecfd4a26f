----------------------------- MODULE RunEvaluation -----------------------------
(* Evaluating a run directory: lexstab/evaluate.py, evaluate_run, and the      *)
(* eligibility part of the release gate, lexstab/regression.py,                *)
(* check_run_thresholds.                                                       *)
(*                                                                             *)
(* Nothing stops an operator from evaluating a run that is still executing or  *)
(* was interrupted, any number of times.  The files are read one after the     *)
(* other while execute_run may go on appending to them: first                  *)
(* cell-results.jsonl, then the call records, then run-summary.json.  The      *)
(* configured eligibility is taken to be TRUE (with FALSE nothing is eligible);*)
(* the statistical gates of check_run_thresholds are left out.                 *)
EXTENDS ExecuteRun

VARIABLES
    reading,    \* how far the evaluator has come: "idle", "rows" or "calls"
    seenRows,   \* rows read by the evaluation under way
    seenCalls,  \* cells whose call records it has read
    metrics     \* metrics.json of the last evaluation, or NoMetrics

evalVars == <<reading, seenRows, seenCalls, metrics>>
allVars == <<vars, evalVars>>

NoMetrics == [scored |-> 0, health |-> NoSummary]

EvalInit ==
    /\ Init
    /\ reading = "idle"
    /\ seenRows = 0
    /\ seenCalls = 0
    /\ metrics = NoMetrics
-------------------------------------------------------------------------------
\* jsonl_read(cell-results.jsonl): fails unless the file is there.
ReadRows ==
    /\ reading = "idle"
    /\ rows # <<>>
    /\ seenRows' = Len(rows)
    /\ reading' = "rows"
    /\ UNCHANGED <<vars, seenCalls, metrics>>

\* The call records are read whether or not their rows were: they can be of
\* fewer cells than the rows (one) or of many more.
ReadCalls ==
    /\ reading = "rows"
    /\ seenCalls' = traced
    /\ reading' = "calls"
    /\ UNCHANGED <<vars, seenRows, metrics>>

\* The fallback looks at the calls alone.
FoundHealthWithoutRows ==
    IF summary # NoSummary THEN summary ELSE HealthOf({}, RowKinds(seenCalls))

\* A run that got as far as its summary counts as healthy.
FoundHealthIfFinished ==
    IF summary # NoSummary
    THEN [status |-> "complete", healthy |-> TRUE]
    ELSE HealthOf(RowKinds(seenRows), RowKinds(seenCalls))

\* The summary's health when the run has one, else computed from what was read.
FoundHealth ==
    IF summary # NoSummary
    THEN summary
    ELSE HealthOf(RowKinds(seenRows), RowKinds(seenCalls))

\* The rows are read a second time to be scored.
WriteMetricsAfresh ==
    /\ reading = "calls"
    /\ metrics' = [scored |-> Len(rows), health |-> FoundHealth]
    /\ reading' = "idle"
    /\ UNCHANGED <<vars, seenRows, seenCalls>>

\* Only the rows that were read are scored; metrics.json is replaced.
WriteMetrics ==
    /\ reading = "calls"
    /\ metrics' = [scored |-> seenRows, health |-> FoundHealth]
    /\ reading' = "idle"
    /\ UNCHANGED <<vars, seenRows, seenCalls>>

EvalNext ==
    \/ Next /\ UNCHANGED evalVars
    \/ ReadRows \/ ReadCalls \/ WriteMetrics

EvalSpec == EvalInit /\ [][EvalNext]_allVars

\* The fairness of the executor; nobody has to evaluate a run.
FairEvalSpec ==
    /\ EvalSpec
    /\ \A w \in Workers : WF_vars(Work(w))
    /\ WF_vars(Write)
-------------------------------------------------------------------------------
\* run_health["baseline_eligible"]
Eligible == metrics.scored > 0 /\ metrics.health.healthy

\* missing_cells is empty and completion_rate is 1.0
AllScored(m) == m.scored = N

\* check_run_thresholds finds neither an ineligible nor an incomplete run.
GatePasses == Eligible /\ AllScored(metrics)

EvalTypeOK ==
    /\ TypeOK
    /\ reading \in {"idle", "rows", "calls"}
    /\ seenRows \in 0..N
    /\ seenCalls \in 0..N
    /\ metrics \in [scored : 0..N,
                    health : [status : Status \cup {"none"}, healthy : BOOLEAN]]

\* Whenever the evaluation is made, on a finished, a running or an interrupted
\* run: a run that passes the gate has a row for every cell, none of them was
\* skipped or lost to the harness, and no call failed or was cut off except,
\* possibly, in the last cell: an evaluation between the append of its row and the
\* append of its call records sees a scored row and no failure.
GatePassesCleanRunsOnly ==
    GatePasses =>
        /\ Len(rows) = N
        /\ \A i \in 1..N : rows[i].outcome \notin {"aborted", "harness"}
        /\ \A i \in 1..(N - 1) : rows[i].outcome = "ok"

\* The files are read one after the other while the run goes on, yet every verdict
\* is one the run deserved at a single moment between the reading of its rows and
\* the end of the evaluation: when it had r rows, all scored ones among them, and
\* the call records of all of these or of all but the last.  (The status need not
\* be of any moment: it can be "length_terminated" although a row that was there
\* when the calls were read, and was not read, is of a harness failure.)
EveryVerdictIsOfOneMoment ==
    [][reading = "calls" /\ reading' = "idle" =>
          \E r \in metrics'.scored..Len(rows), c \in 0..traced :
              /\ c \in {r - 1, r}
              /\ metrics'.health.healthy
                    <=> HealthOf(RowKinds(r), RowKinds(c)).healthy]_allVars

\* Evaluating again never clears a run: once an evaluation found it unhealthy,
\* every later one does, though each may see more of the files and may take the
\* health from another source.
VerdictNeverImproves ==
    [][metrics # NoMetrics /\ ~metrics.health.healthy
         => ~metrics'.health.healthy]_metrics
===============================================================================
