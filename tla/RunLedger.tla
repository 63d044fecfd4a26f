------------------------------ MODULE RunLedger ------------------------------
(* What a run promises to whoever reads its files, with no worker, queue or   *)
(* stop signal in sight (the promises of lexstab/run.py, execute_run):        *)
(*   - the ledger grows by one outcome at a time and never loses one;         *)
(*   - at most MaxFailures cells are spent on a failing provider;             *)
(*   - a verdict is published only for a full ledger, it is healthy exactly   *)
(*     when every outcome is clean, and skipped cells never stand in it       *)
(*     without the provider failure that caused them.                         *)
(* ExecuteRun refines this module.                                            *)
EXTENDS Naturals, Sequences, FiniteSets

CONSTANTS N,            \* number of matrix cells
          MaxFailures   \* how many cells a failing provider may cost

VARIABLES ledger,       \* outcomes recorded so far, in matrix order
          verdict,      \* "none", or the published health
          phase         \* "executing", "finished" or "interrupted"

ledgerVars == <<ledger, verdict, phase>>

Outcome == {"ok", "length", "provider", "harness", "aborted"}

FailuresIn(l) == {i \in 1..Len(l) : l[i] = "provider"}

Occurs(o) == \E i \in 1..Len(ledger) : ledger[i] = o

Init ==
    /\ ledger = <<>>
    /\ verdict = "none"
    /\ phase = "executing"

Record ==
    /\ phase = "executing"
    /\ Len(ledger) < N
    /\ \E o \in Outcome :
          /\ ledger' = Append(ledger, o)
          /\ Cardinality(FailuresIn(ledger')) <= MaxFailures
    /\ UNCHANGED <<verdict, phase>>

Publish ==
    /\ phase = "executing"
    /\ Len(ledger) = N
    /\ Occurs("aborted") => Occurs("provider")
    /\ verdict' = IF \A i \in 1..N : ledger[i] = "ok" THEN "healthy" ELSE "unhealthy"
    /\ phase' = "finished"
    /\ UNCHANGED ledger

Interrupt ==
    /\ phase = "executing"
    /\ phase' = "interrupted"
    /\ UNCHANGED <<ledger, verdict>>

Next == Record \/ Publish \/ Interrupt

SafetySpec == Init /\ [][Next]_ledgerVars

Spec == SafetySpec /\ WF_ledgerVars(Record \/ Publish)
==============================================================================
