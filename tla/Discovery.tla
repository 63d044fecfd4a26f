------------------------------ MODULE Discovery ------------------------------
(* Blind discovery of operation labels with a resumable checkpoint:           *)
(* lexstab/discovery.py, discover_renderings.                                 *)
(*                                                                            *)
(* A session works through its operations in the given order (ascending here),*)
(* and for each through samples 0, 1, ..., samples - 1.  A sample that has a  *)
(* VALID or INVALID row in the checkpoint is reused; any other is asked of    *)
(* the provider and its answer appended.  The user may start another session  *)
(* at any time with other operations and another number of samples, and a     *)
(* session may be killed at any point, also in the middle of a write.         *)
(*                                                                            *)
(* Abstracted: the terms themselves and their statistics; of a candidate the  *)
(* model keeps the two counts a reviewer judges it by.  The compatibility     *)
(* check of the checkpoint is left out: all sessions use one model, prompt and*)
(* schema.                                                                    *)
EXTENDS Naturals, Sequences, FiniteSets, FiniteSetsExt

CONSTANTS
    Ops,            \* operations, as numbers in processing order
    MaxSamples,     \* the largest --samples a user asks for
    Limit,          \* MAX_CONSECUTIVE_INVALID_RESPONSES
    MaxRows,        \* bound: rows in the checkpoint
    MaxCrashes      \* bound: killed sessions

ASSUME DiscoveryAssumption ==
    /\ Ops \subseteq Nat /\ IsFiniteSet(Ops)
    /\ {MaxSamples, Limit, MaxRows, MaxCrashes} \subseteq Nat \ {0}

VARIABLES
    ledger,     \* the checkpoint's rows, by operation: <output>.samples.jsonl
    output,     \* the candidates on disk, NoCandidate where there is none
    summary,    \* <output>.summary.json
    damaged,    \* the files a killed write left unreadable
    session,    \* operations and samples of the session under way
    todo,       \* its operations that are not finished
    failed,     \* its failed_operations
    index,      \* sample_index
    streak,     \* consecutive_invalid
    at          \* "idle", "sample", an answer not yet recorded, "interrupt",
                \* "endOfOp", "summarise" or "finish"
VARIABLES
    paid,       \* history: answers VALID or INVALID received from the provider
    crashes     \* history: killed sessions

files == <<ledger, output, summary, damaged>>
memory == <<session, todo, failed, index, streak, at>>
vars == <<files, memory, paid, crashes>>

NoCandidate == [samples |-> 0, valid |-> 0]
NoSession == [ops |-> {}, samples |-> 0]
Answers == {"VALID", "INVALID", "PROVIDER_ERROR"}
Indices == 0..(MaxSamples - 1)

\* _checkpoint_records: the last row of a sample stands for it.
RowsOf(o, i) == {k \in 1..Len(ledger[o]) : ledger[o][k].index = i}
StatusOf(o, i) == ledger[o][Max(RowsOf(o, i))].status
RecordedUnder(o, n) == {i \in 0..(n - 1) : RowsOf(o, i) # {}}
ValidUnder(o, n) == {i \in RecordedUnder(o, n) : StatusOf(o, i) = "VALID"}

\* The sample has an answer that is not asked for again.
Completed(o, i) == RowsOf(o, i) # {} /\ StatusOf(o, i) # "PROVIDER_ERROR"

current == Min(todo)    \* the operation the session is working on

Init ==
    /\ ledger = [o \in Ops |-> <<>>]
    /\ output = [o \in Ops |-> NoCandidate]
    /\ summary = [status |-> "none", ops |-> {}, samples |-> 0]
    /\ damaged = {}
    /\ session = NoSession
    /\ todo = {} /\ failed = {} /\ index = 0 /\ streak = 0
    /\ at = "idle"
    /\ paid = 0 /\ crashes = 0

\* The process is over and with it all it knew.
ProcessEnds ==
    /\ at' = "idle"
    /\ session' = NoSession
    /\ todo' = {} /\ failed' = {} /\ index' = 0 /\ streak' = 0

\* The command is given; a file that cannot be parsed ends it at once.
StartSession ==
    /\ at = "idle"
    /\ damaged = {}
    /\ \E ops \in (SUBSET Ops) \ {{}}, n \in 1..MaxSamples :
          /\ session' = [ops |-> ops, samples |-> n]
          /\ todo' = ops
    /\ failed' = {} /\ index' = 0 /\ streak' = 0
    /\ at' = "sample"
    /\ UNCHANGED <<files, paid, crashes>>

\* Reused rows do not count towards the limit.
AdvanceFresh(status) ==
    /\ streak' = IF status = "INVALID" /\ at # "sample" THEN streak + 1 ELSE 0
    /\ index' = index + 1
    /\ at' = IF streak' >= Limit \/ index' = session.samples THEN "endOfOp" ELSE "sample"

\* The operation stops one invalid answer short of the limit.
AdvanceShort(status) ==
    /\ streak' = IF status = "INVALID" THEN streak + 1 ELSE 0
    /\ index' = index + 1
    /\ at' = IF streak' + 1 >= Limit \/ index' = session.samples THEN "endOfOp" ELSE "sample"

\* After an answer or a reused row: count it, and stop the operation at the limit
\* or go on to the next sample.
Advance(status) ==
    /\ streak' = IF status = "INVALID" THEN streak + 1 ELSE 0
    /\ index' = index + 1
    /\ at' = IF streak' >= Limit \/ index' = session.samples THEN "endOfOp" ELSE "sample"

\* The reused sample is skipped without going on to the next.
ReuseInPlace ==
    /\ at = "sample"
    /\ Completed(current, index)
    /\ UNCHANGED vars

Reuse ==
    /\ at = "sample"
    /\ Completed(current, index)
    /\ Advance(StatusOf(current, index))
    /\ UNCHANGED <<files, session, todo, failed, paid, crashes>>

\* The check is forgotten and every sample of the session asked for.
InvokeAlways ==
    /\ at = "sample"
    /\ MapThenSumSet(LAMBDA o : Len(ledger[o]), Ops) < MaxRows
    /\ at' \in Answers
    /\ paid' = IF at' = "PROVIDER_ERROR" THEN paid ELSE paid + 1
    /\ UNCHANGED <<files, session, todo, failed, index, streak, crashes>>

\* provider.invoke and _parse_sample; nothing is on disk yet.
Invoke ==
    /\ at = "sample"
    /\ ~Completed(current, index)
    /\ MapThenSumSet(LAMBDA o : Len(ledger[o]), Ops) < MaxRows
    /\ at' \in Answers
    /\ paid' = IF at' = "PROVIDER_ERROR" THEN paid ELSE paid + 1
    /\ UNCHANGED <<files, session, todo, failed, index, streak, crashes>>

Summarised(status) ==
    [status |-> status, ops |-> session.ops, samples |-> session.samples]

Recorded ==
    ledger' = [ledger EXCEPT ![current] = Append(@, [index |-> index, status |-> at])]

\* jsonl_append; a provider error interrupts the session.
Record ==
    /\ at \in Answers
    /\ Recorded
    /\ \/ /\ at = "PROVIDER_ERROR"
          /\ at' = "interrupt"
          /\ UNCHANGED <<index, streak>>
       \/ /\ at # "PROVIDER_ERROR"
          /\ Advance(at)
    /\ UNCHANGED <<output, summary, damaged, session, todo, failed, paid, crashes>>

\* The INTERRUPTED summary is written and DiscoveryError raised.
EndInterrupted ==
    /\ at = "interrupt"
    /\ summary' = Summarised("INTERRUPTED")
    /\ ProcessEnds
    /\ UNCHANGED <<ledger, output, damaged, paid, crashes>>

\* Neither INTERRUPTED_AFTER_CONSECUTIVE_INVALID_RESPONSES nor NO_VALID_RESPONSES.
Suffices(o, n) ==
    /\ Cardinality(RecordedUnder(o, n)) = n
    /\ ValidUnder(o, n) # {}

Candidate(o, n) == [samples |-> n, valid |-> Cardinality(ValidUnder(o, n))]

\* The candidate of the operation is computed from the checkpoint and the output
\* rewritten, or the operation has failed and the output stays as it was.
EndOfOp ==
    /\ at = "endOfOp"
    /\ \/ /\ Suffices(current, session.samples)
          /\ output' = [output EXCEPT ![current] = Candidate(current, session.samples)]
          /\ UNCHANGED failed
       \/ /\ ~Suffices(current, session.samples)
          /\ failed' = failed \cup {current}
          /\ UNCHANGED output
    /\ at' = "summarise"
    /\ UNCHANGED <<ledger, summary, damaged, session, todo, index, streak, paid, crashes>>

\* _write_summary after an operation; the next one starts from scratch.
Summarise ==
    /\ at = "summarise"
    /\ summary' = Summarised("RUNNING")
    /\ todo' = todo \ {current}
    /\ index' = 0 /\ streak' = 0
    /\ at' = IF todo' = {} THEN "finish" ELSE "sample"
    /\ UNCHANGED <<ledger, output, damaged, session, failed, paid, crashes>>

\* The output is rewritten with the same candidates, then the last summary.
Finish ==
    /\ at = "finish"
    /\ summary' = Summarised(IF failed = {} THEN "COMPLETE" ELSE "INCOMPLETE")
    /\ ProcessEnds
    /\ UNCHANGED <<ledger, output, damaged, paid, crashes>>

\* The rows of the output that a killed jsonl_write may leave: the first of them.
OutputCutAt(k) ==
    LET rewritten == IF at = "endOfOp"
                     THEN [output EXCEPT ![current] = Candidate(current, session.samples)]
                     ELSE output
    IN  [o \in Ops |-> IF o <= k THEN rewritten[o] ELSE NoCandidate]

\* The session is killed between two writes, or in the middle of one: jsonl_append
\* then leaves an incomplete last line, jsonl_write an output that was truncated
\* and has some of its rows, and may end within a line.
Kill ==
    /\ at # "idle"
    /\ crashes < MaxCrashes
    /\ crashes' = crashes + 1
    /\ ProcessEnds
    /\ \/ UNCHANGED <<output, damaged>>
       \/ /\ at \in Answers
          /\ damaged' = {"checkpoint"}
          /\ UNCHANGED output
       \/ /\ (at = "endOfOp" /\ Suffices(current, session.samples)) \/ at = "finish"
          /\ damaged' \in {{}, {"output"}}
          /\ \E k \in Ops \cup {0} : output' = OutputCutAt(k)
    /\ UNCHANGED <<ledger, summary, paid>>

SessionStep ==
    \/ Reuse \/ Invoke \/ Record \/ EndInterrupted
    \/ EndOfOp \/ Summarise \/ Finish

Next == StartSession \/ SessionStep \/ Kill

Spec == Init /\ [][Next]_vars

\* A session goes on by itself (a provider call ends, by its time limit at the
\* latest); nobody has to start or kill one.
FairSpec == Spec /\ WF_vars(SessionStep)
-------------------------------------------------------------------------------
TypeOK ==
    /\ ledger \in [Ops -> Seq([index : Indices, status : Answers])]
    /\ output \in [Ops -> [samples : 0..MaxSamples, valid : 0..MaxSamples]]
    /\ summary \in [status : {"none", "INTERRUPTED", "RUNNING", "INCOMPLETE", "COMPLETE"},
                    ops : SUBSET Ops, samples : 0..MaxSamples]
    /\ damaged \in SUBSET {"checkpoint", "output"}
    /\ session \in [ops : SUBSET Ops, samples : 0..MaxSamples]
    /\ todo \subseteq session.ops /\ failed \subseteq session.ops
    /\ index \in 0..MaxSamples /\ streak \in 0..Limit
    /\ at \in Answers \cup {"idle", "sample", "interrupt", "endOfOp", "summarise", "finish"}
    /\ paid \in Nat /\ crashes \in 0..MaxCrashes

\* Over any number of sessions of any size, and through kills, the samples of an
\* operation are a prefix 0, ..., m - 1; only the last one may be a provider
\* error; each has at most one completed row; and no Limit consecutive answers
\* are INVALID except as the last ones, so no session went on paying behind them.
LedgerIsWellFormed ==
    /\ TypeOK
    /\ \A o \in Ops : \A i \in RecordedUnder(o, MaxSamples) :
          /\ \A j \in 0..(i - 1) : Completed(o, j)
          /\ Cardinality({k \in RowsOf(o, i) : ledger[o][k].status # "PROVIDER_ERROR"}) <= 1
          /\ i >= Limit => \E j \in (i - Limit)..(i - 1) : StatusOf(o, j) = "VALID"

\* A candidate's counts are what the checkpoint says of its samples, for ever:
\* also when later sessions of another size failed, resumed or were killed.
CandidatesMatchLedger ==
    \A o \in Ops : output[o] # NoCandidate =>
        /\ Suffices(o, output[o].samples)
        /\ output[o] = Candidate(o, output[o].samples)

\* A COMPLETE summary stays true: every requested sample of its operations has a
\* completed row and each operation at least one valid answer.
CompleteMeansComplete ==
    summary.status = "COMPLETE" =>
        \A o \in summary.ops :
            /\ \A i \in 0..(summary.samples - 1) : Completed(o, i)
            /\ ValidUnder(o, summary.samples) # {}

\* The first m samples are answered and the last k of these answers are INVALID.
EndsInvalid(o, m, k) ==
    \A i \in 0..(m - 1) :
        Completed(o, i) /\ (i >= m - k => StatusOf(o, i) = "INVALID")

\* The operation was left at Limit INVALID answers in a row or has no other answers.
HasFailed(o, n) == EndsInvalid(o, n, n) \/ \E m \in Limit..n : EndsInvalid(o, m, Limit)

\* No operation is given up short of the limit: whatever a session reused, asked
\* for and counted, the checkpoint shows why it has an operation among its failed
\* ones, and why a summary says INCOMPLETE, for ever.
FailuresHaveACause ==
    /\ \A o \in failed : HasFailed(o, session.samples)
    /\ summary.status = "INCOMPLETE" =>
          \E o \in summary.ops : HasFailed(o, summary.samples)

\* What the files say of a session's answers agrees with the checkpoint they were
\* drawn from: the candidates' counts, the operations given up, and the verdict of
\* the last summary.
OutputsMatchLedger ==
    CandidatesMatchLedger /\ CompleteMeansComplete /\ FailuresHaveACause

\* "Repeating the same command resumes compatible checkpointed samples instead of
\* paying for them again" (DATASET_AUTHORING.md): an answer that was paid for is
\* in the checkpoint, or in hand, or was lost to a kill, at most one to each.
PaidAnswersAreKept ==
    paid <= Cardinality({key \in Ops \X Indices : Completed(key[1], key[2])})
            + (IF at \in {"VALID", "INVALID"} THEN 1 ELSE 0) + crashes

\* A session ends, whatever the provider answers and whatever was there before.
SessionEnds ==
    at = "sample" ~> at = "idle" \/ MapThenSumSet(LAMBDA o : Len(ledger[o]), Ops) = MaxRows
===============================================================================
