------------------------------- MODULE Transport -------------------------------
(* The invocations of a run, from the cell that makes them to the records and *)
(* the verdict they leave: BaseAdapter.invoke (lexstab/providers/base.py)     *)
(* with the backends of openai.py, openrouter.py and anthropic.py, its caller *)
(* _invoke (lexstab/runner.py) and the handlers of _run_one (lexstab/run.py). *)
(*                                                                            *)
(* Every cell runs in a thread of its own; the adapters, with their           *)
(* attempt_log, are shared.  An invocation goes to the provider of its role.  *)
(* What a backend can send is abstracted to a status and, for 200, to what    *)
(* the parsing tells apart.                                                   *)
EXTENDS Naturals, Sequences, FiniteSets, RunHealth

CONSTANTS Cells,        \* the cells that execute, one thread each
          MaxCalls,     \* bound: invocations a cell makes at most
          MaxRetries,   \* execution.transport_retries
          ProviderOf,   \* the provider of the role each invocation is made in
          Keyed         \* the providers whose API key is configured

ASSUME TransportAssumption ==
    /\ MaxCalls \in Nat \ {0}
    /\ MaxRetries \in Nat
    /\ ProviderOf \in [1..MaxCalls -> {"openai", "openrouter", "anthropic"}]

VARIABLES
    at,         \* where each thread is
    retries,    \* failed attempts of that invocation
    reply,      \* the response it has got
    log,        \* attempt_log: the failed attempts of all threads
    records,    \* the invocation records in each cell's result
    row,        \* the outcome in the cell's row, or "none"
    summary     \* run-summary.json, or NoSummary
VARIABLE
    paid        \* history: the calls of each cell that were answered with 200

callVars == <<retries, reply, log>>
vars == <<at, callVars, records, row, summary, paid>>

NoSummary == [status |-> "none", healthy |-> FALSE]
Calls == 1..MaxCalls
-------------------------------------------------------------------------------
(* One attempt: _call_once of the adapters.                                   *)

Retriable(p) ==
    {"429", "503"} \cup (IF p = "anthropic" THEN {"529"} ELSE {})

\* What comes back: nothing (a timeout, a reset), or a status with a body.
Sent ==
    [status : {"none", "400", "429", "503", "529"}, body : {"error"}]
        \cup [status : {"200"}, body : {"full", "blank", "cut", "malformed"}]

\* The word each API has for an answer that ran into its token limit.
CutReason(p) == IF p = "anthropic" THEN "max_tokens" ELSE "length"

Unreached == [finish |-> "unreached", content |-> FALSE]
Malformed == [finish |-> "malformed", content |-> FALSE]

CallOnce(p, s) ==
    IF p \notin Keyed \/ s.status = "none" \/ s.status \in Retriable(p) THEN Unreached
    ELSE IF s.status # "200" THEN [finish |-> "http_error", content |-> FALSE]
    ELSE IF s.body = "malformed" THEN Malformed
    ELSE [finish  |-> IF s.body = "cut" THEN CutReason(p) ELSE "stop",
          content |-> s.body # "blank"]

\* provider_failure_category
IsFailure(finish) == finish \in {"transport_error", "http_error"}

\* The InvocationRecord of an invocation: the one behind the last attempt, or
\* the one made of the response.
RecordOf(c) ==
    IF at[c] = "exhausted"
    THEN [finish |-> "transport_error", retries |-> retries[c], parse |-> "error"]
    ELSE [finish  |-> reply[c].finish,
          retries |-> retries[c],
          parse   |-> IF IsFailure(reply[c].finish) THEN "error"
                      ELSE IF ~reply[c].content THEN "empty"
                      ELSE "ok"]

\* How summarize_run_health counts a record.
KindOf(record) ==
    IF IsFailure(record.finish) THEN "provider"
    ELSE IF record.finish = "length" THEN "length"
    ELSE "ok"
-------------------------------------------------------------------------------
Init ==
    /\ at = [c \in Cells |-> "ready"]
    /\ retries = [c \in Cells |-> 0]
    /\ reply = [c \in Cells |-> Unreached]
    /\ log = {}
    /\ records = [c \in Cells |-> <<>>]
    /\ row = [c \in Cells |-> "none"]
    /\ summary = NoSummary
    /\ paid = [c \in Cells |-> {}]

Goto(c, there) == at' = [at EXCEPT ![c] = there]

\* The number of the invocation a cell is in.
Call(c) == Len(records[c]) + 1

\* The counter of the invocation before goes on.
BeginUncleared(c) ==
    /\ at[c] = "ready"
    /\ Call(c) \in Calls
    /\ Goto(c, "calling")
    /\ UNCHANGED <<retries, reply, log, records, row, summary, paid>>

Begin(c) ==
    /\ at[c] = "ready"
    /\ Call(c) \in Calls
    /\ Goto(c, "calling")
    /\ retries' = [retries EXCEPT ![c] = 0]
    /\ reply' = [reply EXCEPT ![c] = Unreached]
    /\ UNCHANGED <<log, records, row, summary, paid>>

LogAttempt(c) ==
    log' = log \cup {[cell |-> c, call |-> Call(c), attempt |-> retries[c]]}

\* The limit is compared before the counter is incremented.
AttemptFailsOnceMore(c, s) ==
    /\ at[c] = "calling"
    /\ CallOnce(ProviderOf[Call(c)], s) = Unreached
    /\ LogAttempt(c)
    /\ retries' = [retries EXCEPT ![c] = @ + 1]
    /\ Goto(c, IF retries[c] > MaxRetries THEN "exhausted" ELSE "waiting")
    /\ UNCHANGED <<reply, records, row, summary, paid>>

\* except TransportError: the attempt is logged and counted.
AttemptFails(c, s) ==
    /\ at[c] = "calling"
    /\ CallOnce(ProviderOf[Call(c)], s) = Unreached
    /\ LogAttempt(c)
    /\ retries' = [retries EXCEPT ![c] = @ + 1]
    /\ Goto(c, IF retries[c] + 1 > MaxRetries THEN "exhausted" ELSE "waiting")
    /\ UNCHANGED <<reply, records, row, summary, paid>>

\* self.sleeper(...), and the next attempt.
Retry(c) ==
    /\ at[c] = "waiting"
    /\ Goto(c, "calling")
    /\ UNCHANGED <<retries, reply, log, records, row, summary, paid>>

Pay(c, s) ==
    paid' = [paid EXCEPT ![c] = IF s.status = "200" THEN @ \cup {Call(c)} ELSE @]

AttemptReplies(c, s) ==
    /\ at[c] = "calling"
    /\ CallOnce(ProviderOf[Call(c)], s) # Unreached
    /\ reply' = [reply EXCEPT ![c] = CallOnce(ProviderOf[Call(c)], s)]
    /\ Goto(c, "replied")
    /\ Pay(c, s)
    /\ UNCHANGED <<retries, log, records, row, summary>>

\* The body of a 200 is no JSON, or not of the expected shape: the exception
\* passes invoke and _invoke, and _run_one replaces the cell's result by an
\* empty one.
Raise(c) ==
    /\ at[c] = "replied"
    /\ reply[c] = Malformed
    /\ Goto(c, "raised")
    /\ records' = [records EXCEPT ![c] = <<>>]
    /\ row' = [row EXCEPT ![c] = "harness"]
    /\ UNCHANGED <<callVars, summary, paid>>

Concluding(c) ==
    \/ at[c] = "exhausted"
    \/ at[c] = "replied" /\ reply[c] # Malformed

\* An answer without content is asked for again.
ConcludeUnlessEmpty(c) ==
    /\ Concluding(c)
    /\ IF RecordOf(c).parse = "empty"
       THEN Goto(c, "calling") /\ UNCHANGED <<records, row>>
       ELSE /\ records' = [records EXCEPT ![c] = Append(@, RecordOf(c))]
            /\ IF IsFailure(RecordOf(c).finish)
               THEN Goto(c, "failed") /\ row' = [row EXCEPT ![c] = "provider"]
               ELSE Goto(c, "ready") /\ UNCHANGED row
    /\ UNCHANGED <<callVars, summary, paid>>

\* The record is made and appended; a failure for good raises
\* ProviderInvocationFailure with the result so far.
Conclude(c) ==
    /\ Concluding(c)
    /\ records' = [records EXCEPT ![c] = Append(@, RecordOf(c))]
    /\ IF IsFailure(RecordOf(c).finish)
       THEN Goto(c, "failed") /\ row' = [row EXCEPT ![c] = "provider"]
       ELSE Goto(c, "ready") /\ UNCHANGED row
    /\ UNCHANGED <<callVars, summary, paid>>

\* The cell ends by itself.
EndCell(c) ==
    /\ at[c] = "ready"
    /\ Goto(c, "done")
    /\ row' = [row EXCEPT ![c] = "ok"]
    /\ UNCHANGED <<callVars, records, summary, paid>>

\* The records of every cell, in invocations.jsonl and in the results.
Traced == UNION {{records[c][i] : i \in 1..Len(records[c])} : c \in Cells}

Summarise ==
    /\ \A c \in Cells : row[c] # "none"
    /\ summary = NoSummary
    /\ summary' = HealthOf({row[c] : c \in Cells}, {KindOf(r) : r \in Traced})
    /\ UNCHANGED <<at, callVars, records, row, paid>>

Attempt(c) ==
    \E s \in Sent : AttemptFails(c, s) \/ AttemptReplies(c, s)

Step(c) ==
    Begin(c) \/ Attempt(c) \/ Retry(c) \/ Conclude(c) \/ Raise(c) \/ EndCell(c)

Next == (\E c \in Cells : Step(c)) \/ Summarise

Spec == Init /\ [][Next]_vars

\* A request has a time limit (httpx timeout), a sleep ends, and the threads of
\* the pool are scheduled by the operating system.
FairSpec == Spec /\ (\A c \in Cells : WF_vars(Step(c))) /\ WF_vars(Summarise)
-------------------------------------------------------------------------------
Finish == {"stop", "length", "max_tokens", "http_error", "transport_error"}
Reply == [finish : Finish \cup {"unreached", "malformed"}, content : BOOLEAN]
Record == [finish : Finish, retries : 0..(MaxRetries + 1), parse : {"ok", "empty", "error"}]
Place == {"ready", "calling", "waiting", "replied", "exhausted", "failed", "raised", "done"}

TypeOK ==
    /\ at \in [Cells -> Place]
    /\ retries \in [Cells -> 0..(MaxRetries + 1)]
    /\ reply \in [Cells -> Reply]
    /\ log \subseteq [cell : Cells, call : Nat, attempt : Nat]
    /\ records \in [Cells -> Seq(Record)]
    /\ row \in [Cells -> Outcome \cup {"none"}]
    /\ summary \in [status : Status \cup {"none"}, healthy : BOOLEAN]
    /\ paid \in [Cells -> SUBSET Nat]

FailedAttempts(c, i) == {e.attempt : e \in {f \in log : f.cell = c /\ f.call = i}}

\* "Transport retries are bounded ... and recorded per attempt" (providers/base.py):
\* however the threads that share the log interleave, the number a record gives is
\* the number of failed attempts the log holds for that invocation, in order and
\* without a gap; and it passes the limit only in the record of a failure for good.
RetriesAreAccounted ==
    \A c \in Cells : \A i \in 1..Len(records[c]) :
        LET n == records[c][i].retries IN
        /\ FailedAttempts(c, i) = 0..(n - 1)
        /\ n > MaxRetries <=> records[c][i].finish = "transport_error"

\* A cell makes no call behind a failure for good, and its row says so: in no
\* cell does an invocation follow a record that is a provider failure, and the
\* row is a failure exactly when the last record is one.
FailureEndsTheCell ==
    \A c \in Cells :
        /\ \A i \in 1..(Len(records[c]) - 1) : ~ IsFailure(records[c][i].finish)
        /\ row[c] = "provider" <=>
              records[c] # <<>> /\ IsFailure(records[c][Len(records[c])].finish)

\* A healthy run has a record for every call that was answered: where an
\* exception takes the records of a cell with it (run.py, _run_one), the run is
\* not healthy.
HealthyRunsTraceWhatTheyPaid ==
    summary.healthy =>
        \A c \in Cells : \A i \in paid[c] : i <= Len(records[c])

\* A published verdict is never revised, and the records it was made of stay.
VerdictIsFinal == [][summary # NoSummary => UNCHANGED <<summary, records, row>>]_vars

\* Every thread comes to an end, and the run to its verdict, whatever the
\* providers do.
RunIsJudged == <>(summary # NoSummary)

\* What the cells are promised.
Promise == INSTANCE Invocations WITH
    MaxTries <- MaxRetries + 1,
    tries <- [c \in Cells |->
                CASE at[c] \in {"calling", "waiting", "exhausted"} -> retries[c]
                  [] at[c] = "replied" -> retries[c] + 1
                  [] OTHER -> 0],
    ends  <- [c \in Cells |->
                IF at[c] = "raised"
                THEN [i \in 1..Cardinality(paid[c]) |->
                        IF i < Cardinality(paid[c]) THEN "answer" ELSE "exception"]
                ELSE [i \in 1..Len(records[c]) |->
                        IF IsFailure(records[c][i].finish) THEN "failure" ELSE "answer"]],
    over  <- [c \in Cells |-> at[c] \in {"failed", "raised", "done"}]

\* The adapters implement Invocations.
ImplementsInvocations == Promise!Spec

\* docs/RESULTS_GUIDE.md: any length-terminated invocation sets healthy: false.
CutAnswersAreUnhealthy ==
    summary.healthy => \A r \in Traced : r.finish \notin {"length", "max_tokens"}

\* providers/base.py: "Every adapter implements invoke and returns a complete
\* InvocationRecord", so a call that was answered is recorded when its cell ends.
AnsweredCallsAreRecorded ==
    \A c \in Cells : row[c] # "none" => \A i \in paid[c] : i <= Len(records[c])
================================================================================
