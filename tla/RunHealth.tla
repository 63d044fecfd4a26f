------------------------------- MODULE RunHealth -------------------------------
(* The verdict on the infrastructure of a run: lexstab/run.py,                *)
(* summarize_run_health.  It is computed from what became of the cells:       *)
(*   "ok"        the cell ended, no call was cut off;                         *)
(*   "length"    the cell ended, a call finished with finish_reason "length"; *)
(*   "provider"  a call failed for good: ProviderInvocationFailure;           *)
(*   "harness"   any other exception escaped cell_runner;                     *)
(*   "aborted"   the cell was skipped because the stop event was set.         *)
Outcome == {"ok", "length", "provider", "harness", "aborted"}

(* summarize_run_health.  rowKinds: the error categories of the rows at hand; *)
(* callKinds: the finish reasons of the invocation records at hand.           *)
StatusOf(rowKinds, callKinds) ==
    IF "provider" \in callKinds THEN "provider_failure"
    ELSE IF "harness" \in rowKinds THEN "harness_failure"
    ELSE IF "aborted" \in rowKinds THEN "aborted"
    ELSE IF "length" \in callKinds THEN "length_terminated"
    ELSE "complete"

\* Rows without calls do not count.
HealthOfCallsOnly(rowKinds, callKinds) ==
    [status  |-> StatusOf(rowKinds, callKinds),
     healthy |-> callKinds \cap {"provider", "length"} = {}]

HealthOf(rowKinds, callKinds) ==
    [status  |-> StatusOf(rowKinds, callKinds),
     healthy |-> /\ callKinds \cap {"provider", "length"} = {}
                 /\ rowKinds \cap {"aborted", "harness"} = {}]

Status == {"provider_failure", "harness_failure", "aborted",
           "length_terminated", "complete"}
================================================================================
