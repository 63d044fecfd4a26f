-------------------------------- MODULE Compose --------------------------------
(* The repair of a run: lexstab/compose.py, compose_track_repair.  Commands   *)
(* compose a base run and a healthy repair run into one output directory.     *)
(* The base run may still be executing, or have been killed, and so may a     *)
(* command.                                                                   *)
(*                                                                            *)
(* A run is a record.  What it has on disk of a cell is in two files, rows    *)
(* (cell-results.jsonl) and calls (invocations.jsonl); the ledger and the     *)
(* event files are copied like calls.  A row or a call has the kind that      *)
(* summarize_run_health counts it as.                                         *)
EXTENDS FiniteSets, Naturals, RunHealth

CONSTANTS Cells,        \* the matrix of the base run
          TrackOf,      \* the track of each cell
          Composers,    \* commands that compose into the same output
          Bases,        \* base runs at their start
          Repairs       \* repair runs

VARIABLES
    base,       \* the directory of the base run
    writing,    \* the cell whose row it has written and whose calls it has not
    at,         \* where each command is
    tracks,     \* --tracks of each command
    repair,     \* the repair run each command was given
    out,        \* the output directory
    ended       \* history: the commands that found the base run summarised

args == <<tracks, repair>>
vars == <<base, writing, at, args, out, ended>>

NoCell == "no cell"
Kinds == Outcome \ {"aborted"}
Files == [Cells -> Kinds \cup {"none"}]
Base == [at : {"executing", "summarised", "killed"}, rows : Files, calls : Files,
         pinned : {b.pinned : b \in Bases}, model : {b.model : b \in Bases},
         maxTokens : Nat, eligible : BOOLEAN]

\* _write_result of run.py: all calls of a cell stand behind its row, and a harness
\* failure has lost its own.
CallsOf(kind) == IF kind = "harness" THEN "none" ELSE kind

ASSUME ComposeAssumption ==
    /\ "nobody" \notin Composers /\ NoCell \notin Cells
    /\ \A b \in Bases :
          /\ b \in Base /\ b.at = "executing"
          /\ \A c \in Cells : b.rows[c] = "none" /\ b.calls[c] = "none"
    /\ \A r \in Repairs :
          /\ r.eligible \in BOOLEAN
          /\ \A c \in DOMAIN r.rows :
                /\ r.rows[c] \in Kinds
                /\ c \in DOMAIN r.calls /\ r.calls[c] = CallsOf(r.rows[c])
          /\ \A c \in DOMAIN r.calls : r.calls[c] \in Kinds \cup {"none"}
Tracks == {TrackOf[c] : c \in Cells}

NoOutput == [owner |-> "nobody", rows |-> {}, calls |-> {}, manifest |-> FALSE,
             eligible |-> FALSE, summary |-> FALSE]

\* What a file has of its cells: the run it came from and the kinds.
Rows(source, run, cells) ==
    {[cell |-> c, source |-> source, kind |-> run.rows[c]]
       : c \in {d \in cells \cap DOMAIN run.rows : run.rows[d] # "none"}}

Calls(source, run, cells) ==
    {[cell |-> c, source |-> source, kind |-> run.calls[c]]
       : c \in {d \in cells \cap DOMAIN run.calls : run.calls[d] # "none"}}
KindsIn(file) == {r.kind : r \in file}
-------------------------------------------------------------------------------
(* The checks before anything is written.                                     *)

\* _validate_manifests and _validate_role_compatibility: what has to be equal is
\* the benchmark, the code and the model; the response budget may grow.
Compatible(b, r) ==
    /\ b.pinned = r.pinned
    /\ b.model = r.model
    /\ r.maxTokens >= b.maxTokens

Replaced(p) == {c \in Cells : TrackOf[c] \in tracks[p]}

\* The matrix of the repair is the rows of the named tracks, all of them.
ExactSubset(p) ==
    LET matrix == repair[p].matrix
    IN  /\ DOMAIN matrix # {}
        /\ DOMAIN matrix = Replaced(p)
        /\ \A c \in DOMAIN matrix : matrix[c] = "as in base"

Refused(p) ==
    \/ tracks[p] = {}
    \/ out.owner # "nobody"
    \/ ~Compatible(base, repair[p])
    \/ ~repair[p].healthy
    \/ ~ExactSubset(p)
-------------------------------------------------------------------------------
Init ==
    /\ base \in Bases
    /\ writing = NoCell
    /\ at = [p \in Composers |-> "starting"]
    /\ tracks \in [Composers -> SUBSET Tracks]
    /\ repair \in [Composers -> Repairs]
    /\ out = NoOutput
    /\ ended = {}

Goto(p, there) == at' = [at EXCEPT ![p] = there]

Check(p) ==
    /\ at[p] = "starting"
    /\ Goto(p, IF Refused(p) THEN "refused" ELSE "checked")
    /\ ended' = IF base.at = "summarised" THEN ended \cup {p} ELSE ended
    /\ UNCHANGED <<base, writing, args, out>>

\* Mutation: mkdir with exist_ok.
TakeDirectory(p) ==
    /\ at[p] = "checked"
    /\ out' = [out EXCEPT !.owner = p]
    /\ Goto(p, "owning")
    /\ UNCHANGED <<base, writing, args, ended>>

\* output_run_dir.mkdir(exist_ok=False); the matrix is that of the base run.
MakeDirectory(p) ==
    /\ at[p] = "checked"
    /\ IF out.owner # "nobody" THEN Goto(p, "refused") /\ out' = out
       ELSE Goto(p, "owning") /\ out' = [out EXCEPT !.owner = p]
    /\ UNCHANGED <<base, writing, args, ended>>

\* Mutation: the rows of the base run are taken as they are, and completed.
CopyRowsOver(p) ==
    /\ at[p] = "owning"
    /\ LET kept == Rows("base", base, Cells)
           missing == Cells \ {r.cell : r \in kept}
       IN  /\ out' = [out EXCEPT !.rows = kept \cup Rows("repair", repair[p], missing)]
           /\ Goto(p, "rows")
    /\ UNCHANGED <<base, writing, args, ended>>

\* One result for every cell of the matrix, or the composition fails.
CopyRows(p) ==
    /\ at[p] = "owning"
    /\ LET kept == Rows("base", base, Cells \ Replaced(p))
           inserted == Rows("repair", repair[p], Replaced(p))
       IN  IF /\ {r.cell : r \in inserted} = Replaced(p)
              /\ {r.cell : r \in kept \cup inserted} = Cells
           THEN /\ out' = [out EXCEPT !.rows = kept \cup inserted]
                /\ Goto(p, "rows")
           ELSE Goto(p, "failed") /\ out' = out
    /\ UNCHANGED <<base, writing, args, ended>>

\* The files behind cell-results.jsonl.
CopyCalls(p) ==
    /\ at[p] = "rows"
    /\ out' = [out EXCEPT !.calls = Calls("base", base, Cells \ Replaced(p))
                                        \cup Calls("repair", repair[p], Replaced(p))]
    /\ Goto(p, "copied")
    /\ UNCHANGED <<base, writing, args, ended>>

Healthy == HealthOf(KindsIn(out.rows), KindsIn(out.calls)).healthy

Judge(p) ==
    /\ at[p] = "copied"
    /\ Goto(p, IF Healthy THEN "judged" ELSE "failed")
    /\ UNCHANGED <<base, writing, args, out, ended>>

\* The provenance and then the manifest.
WriteManifest(p) ==
    /\ at[p] = "judged"
    /\ out' = [out EXCEPT !.manifest = TRUE,
                          !.eligible = base.eligible /\ repair[p].eligible]
    /\ Goto(p, "described")
    /\ UNCHANGED <<base, writing, args, ended>>

WriteSummary(p) ==
    /\ at[p] = "described"
    /\ out' = [out EXCEPT !.summary = TRUE]
    /\ Goto(p, "composed")
    /\ UNCHANGED <<base, writing, args, ended>>

Ended == {"refused", "failed", "composed", "killed"}

Kill(p) ==
    /\ at[p] \notin Ended
    /\ Goto(p, "killed")
    /\ UNCHANGED <<base, writing, args, out, ended>>
-------------------------------------------------------------------------------
(* The base run: see ExecuteRun.                                              *)

BaseRow(c, kind) ==
    /\ base.at = "executing" /\ writing = NoCell /\ base.rows[c] = "none"
    /\ base' = [base EXCEPT !.rows = [base.rows EXCEPT ![c] = kind]]
    /\ writing' = c
    /\ UNCHANGED <<at, args, out, ended>>

BaseCalls ==
    /\ base.at = "executing" /\ writing # NoCell
    /\ base' = [base EXCEPT !.calls =
                   [base.calls EXCEPT ![writing] = CallsOf(base.rows[writing])]]
    /\ writing' = NoCell
    /\ UNCHANGED <<at, args, out, ended>>

BaseEnds ==
    /\ base.at = "executing" /\ writing = NoCell
    /\ \A c \in Cells : base.rows[c] # "none"
    /\ base' = [base EXCEPT !.at = "summarised"]
    /\ UNCHANGED <<writing, at, args, out, ended>>

BaseKilled ==
    /\ base.at = "executing"
    /\ base' = [base EXCEPT !.at = "killed"]
    /\ UNCHANGED <<writing, at, args, out, ended>>

BaseStep ==
    (\E c \in Cells, kind \in Kinds : BaseRow(c, kind)) \/ BaseCalls \/ BaseEnds \/ BaseKilled

Compose(p) ==
    \/ Check(p) \/ MakeDirectory(p) \/ CopyRows(p) \/ CopyCalls(p)
    \/ Judge(p) \/ WriteManifest(p) \/ WriteSummary(p)

Next == BaseStep \/ \E p \in Composers : Compose(p) \/ Kill(p)

Spec == Init /\ [][Next]_vars
-------------------------------------------------------------------------------
Record == [cell : Cells, source : {"base", "repair"}, kind : Kinds]

TypeOK ==
    /\ base \in Base
    /\ writing \in Cells \cup {NoCell}
    /\ at \in [Composers -> {"starting", "checked", "owning", "rows", "copied", "judged",
                             "described"} \cup Ended]
    /\ out \in [owner : Composers \cup {"nobody"}, rows : SUBSET Record, calls : SUBSET Record,
                manifest : BOOLEAN, eligible : BOOLEAN, summary : BOOLEAN]
    /\ ended \subseteq Composers

\* A directory with a manifest, which is what evaluate and report ask for, is a
\* whole composite, wherever its command was killed: one row for each cell, from
\* the repair for the cells of the named tracks and from the base run for all
\* others, and no call record of a run that the row of its cell is not from.
CompositeIsWhole ==
    out.manifest =>
        /\ \A c \in Cells : Cardinality({r \in out.rows : r.cell = c}) = 1
        /\ \A r \in out.rows \cup out.calls :
              (r.source = "repair") <=> r.cell \in Replaced(out.owner)
        /\ out.summary => at[out.owner] = "composed"

\* "No failed source invocation is retained in the composite": in a composite of
\* a base run that had ended, no cell, kept or replaced, failed for a reason of
\* the infrastructure in the run it is from; and an eligible one has no source
\* that was configured ineligible.
NothingFailedIsKept ==
    out.manifest /\ out.owner \in ended =>
        /\ \A c \in Cells \ Replaced(out.owner) : base.rows[c] = "ok"
        /\ \A c \in Replaced(out.owner) : repair[out.owner].calls[c] = "ok"
        /\ out.eligible => base.eligible /\ repair[out.owner].eligible

\* A directory is made once and stays with its command; what a command has left
\* there, whole or not, no other one writes to.
OutputsHaveOneAuthor ==
    [][/\ out.owner # "nobody" => out'.owner = out.owner
       /\ out' # out => \E p \in Composers : out'.owner = p /\ at'[p] # at[p]
       /\ out.summary => out' = out]_vars

\* RESULTS_GUIDE.md: any length-terminated invocation sets healthy and
\* baseline_eligible to false.
CompositesRetainNoCutAnswer ==
    out.manifest => \A c \in Cells \ Replaced(out.owner) : base.rows[c] # "length"
================================================================================
