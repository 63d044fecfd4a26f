--------------------------- MODULE RenderingReview ---------------------------
(* The review of discovered renderings: lexstab/discovery.py,                 *)
(* review_rendering_candidates, on the candidate files discover_renderings    *)
(* writes.                                                                    *)
(*                                                                            *)
(* A candidate's rendering_id is made of its operation and of the model that  *)
(* was asked, so a second discovery with the same model yields the same id;   *)
(* the number of the discovery stands for the label and the counts.  Only     *)
(* MODEL_DISCOVERED renderings are modelled: the others are never candidates. *)
(* One review runs at a time, and may be killed between the files it writes   *)
(* or while it writes one of them.                                            *)
EXTENDS Naturals, Sequences, FiniteSets, SequencesExt, Rows

CONSTANTS
    Ops,            \* canonical operations
    Models,         \* models that were asked to name the operations
    MaxDiscoveries, \* bound: discoveries
    MaxKills        \* bound: killed commands

ASSUME RenderingAssumption ==
    IsFiniteSet(Ops) /\ MaxDiscoveries \in Nat /\ MaxKills \in Nat

VARIABLES
    candidates,     \* the rows of each model's candidate file
    approved,       \* dataset/renderings/approved/support.jsonl
    rejected,       \* dataset/renderings/rejected/rejected.jsonl
    review,         \* the review under way: what it is going to write, and where
    discoveries,    \* history: discoveries so far
    kills,          \* history: killed commands
    truncated       \* history: a review was killed while it wrote a file

corpora == <<candidates, approved, rejected>>
reviewVars == <<corpora, review, discoveries, kills, truncated>>

NoReview == [at |-> "idle"]

IdOf(row) == <<row.op, row.model>>
IdsIn(rows) == {IdOf(rows[k]) : k \in DOMAIN rows}
Active(rows) == Among(rows, {r \in ToSet(rows) : r.status \in {"APPROVED", "FROZEN"}})

InitReview ==
    /\ candidates = [m \in Models |-> <<>>]
    /\ approved = <<>> /\ rejected = <<>>
    /\ review = NoReview
    /\ discoveries = 0 /\ kills = 0 /\ truncated = FALSE

\* A discovery gives every operation it was asked about a new candidate; those of
\* the other operations stay in the file, which belongs to one model.
Discover(ops, model) ==
    /\ review = NoReview
    /\ discoveries < MaxDiscoveries
    /\ discoveries' = discoveries + 1
    /\ candidates' = [candidates EXCEPT ![model] = SetToSeq(
            {[op |-> o, model |-> model, discovery |-> discoveries + 1,
              status |-> "CANDIDATE"] : o \in ops}
            \cup {row \in ToSet(candidates[model]) : row.op \notin ops})]
    /\ UNCHANGED <<approved, rejected, review, kills, truncated>>
-------------------------------------------------------------------------------
\* The status a decision gives a row.
StatusFor(d) ==
    CASE d = "APPROVE" -> "APPROVED" [] d = "REJECT" -> "REJECTED" [] d = "DEFER" -> "NEEDS_REVIEW"

\* The candidates with a given decision, in file order.  One whose id the approved
\* corpus already holds is passed over, whatever was decided.
Decided(model, decision, d) ==
    LET fresh == Among(candidates[model],
                    {r \in ToSet(candidates[model]) :
                        IdOf(r) \notin IdsIn(approved) /\ decision[r.op] = d})
    IN  [k \in DOMAIN fresh |-> [fresh[k] EXCEPT !.status = StatusFor(d)]]

\* A rendering would only supersede the one of the same model.
SupersedeSameId(newRows) ==
    [k \in DOMAIN approved |->
        IF IdOf(approved[k]) \in IdsIn(newRows)
        THEN [approved[k] EXCEPT !.status = "SUPERSEDED"] ELSE approved[k]]
    \o newRows

\* The rows of an operation would be marked once the new one stands among them.
SupersedeAppended(newRows) ==
    LET rows == approved \o newRows
        Renewed(o) == /\ \E j \in DOMAIN approved : approved[j].op = o
                      /\ \E j \in DOMAIN newRows : newRows[j].op = o
    IN  [k \in DOMAIN rows |->
            IF Renewed(rows[k].op) THEN [rows[k] EXCEPT !.status = "SUPERSEDED"] ELSE rows[k]]

\* An approved rendering supersedes the active one of its operation.
Supersede(newRows) ==
    [k \in DOMAIN approved |->
        IF \E j \in DOMAIN newRows : newRows[j].op = approved[k].op
        THEN [approved[k] EXCEPT !.status = "SUPERSEDED"] ELSE approved[k]]
    \o newRows

\* All decisions are applied in memory first; "wanted" (history) is what the
\* reviewer deferred.
StartReview(model) ==
    /\ review = NoReview
    /\ candidates[model] # <<>>
    /\ \E decision \in [{row.op : row \in ToSet(candidates[model])}
                            -> {"APPROVE", "REJECT", "DEFER"}] :
          review' = [at       |-> "approved",
                     model    |-> model,
                     approved |-> Supersede(Decided(model, decision, "APPROVE")),
                     rejected |-> rejected \o Decided(model, decision, "REJECT"),
                     deferred |-> Decided(model, decision, "DEFER"),
                     wanted   |-> {row.op : row \in {r \in ToSet(candidates[model]) :
                                                        decision[r.op] = "DEFER"}}]
    /\ UNCHANGED <<corpora, discoveries, kills, truncated>>

WriteApproved ==
    /\ review.at = "approved"
    /\ approved' = review.approved
    /\ review' = [review EXCEPT !.at = "rejected"]
    /\ UNCHANGED <<candidates, rejected, discoveries, kills, truncated>>

WriteRejected ==
    /\ review.at = "rejected"
    /\ rejected' = review.rejected
    /\ review' = [review EXCEPT !.at = "input"]
    /\ UNCHANGED <<candidates, approved, discoveries, kills, truncated>>

\* The candidate file keeps the deferred rows, or is unlinked.
WriteInput ==
    /\ review.at = "input"
    /\ candidates' = [candidates EXCEPT ![review.model] = review.deferred]
    /\ review' = NoReview
    /\ UNCHANGED <<approved, rejected, discoveries, kills, truncated>>

\* The review is killed between two files, or within the write of one, which
\* starts by truncating it.
KillReview ==
    /\ review # NoReview
    /\ kills < MaxKills
    /\ kills' = kills + 1
    /\ review' = NoReview
    /\ \/ UNCHANGED <<corpora, truncated>>
       \/ /\ truncated' = TRUE
          /\ \/ /\ review.at = "approved"
                /\ \E k \in 0..Len(review.approved) : approved' = SubSeq(review.approved, 1, k)
                /\ UNCHANGED <<candidates, rejected>>
             \/ /\ review.at = "rejected" /\ review.rejected # rejected
                /\ \E k \in 0..Len(review.rejected) : rejected' = SubSeq(review.rejected, 1, k)
                /\ UNCHANGED <<candidates, approved>>
             \/ /\ review.at = "input" /\ review.deferred # <<>>
                /\ \E k \in 0..Len(review.deferred) :
                      candidates' = [candidates EXCEPT ![review.model] =
                                        SubSeq(review.deferred, 1, k)]
                /\ UNCHANGED <<approved, rejected>>
    /\ UNCHANGED discoveries

NextReview ==
    \/ \E m \in Models : StartReview(m) \/ \E ops \in (SUBSET Ops) \ {{}} : Discover(ops, m)
    \/ WriteApproved \/ WriteRejected \/ WriteInput \/ KillReview

ReviewSpec == InitReview /\ [][NextReview]_reviewVars
-------------------------------------------------------------------------------
Rendering == [op : Ops, model : Models, discovery : 1..MaxDiscoveries,
              status : {"CANDIDATE", "NEEDS_REVIEW", "APPROVED", "SUPERSEDED", "REJECTED"}]

ReviewTypeOK ==
    /\ candidates \in [Models -> Seq(Rendering)] /\ approved \in Seq(Rendering) /\ rejected \in Seq(Rendering)
    /\ review.at \in {"idle", "approved", "rejected", "input"}
    /\ discoveries \in 0..MaxDiscoveries /\ kills \in 0..MaxKills /\ truncated \in BOOLEAN

ActiveOf(rows, o) == {k \in DOMAIN rows : rows[k].op = o /\ rows[k].status = "APPROVED"}

\* An operation never has two active discovered renderings, and no two rows of the
\* approved corpus have the same id, whatever is discovered, reviewed, killed and
\* reviewed again: otherwise no later benchmark could be frozen.
AtMostOneActive ==
    /\ \A o \in Ops : Cardinality(ActiveOf(approved, o)) <= 1
    /\ \A j, k \in DOMAIN approved : IdOf(approved[j]) = IdOf(approved[k]) => j = k

\* An operation that has an active rendering keeps one: a review replaces it, and
\* never only withdraws it.
ActiveIsReplacedNotLost ==
    [][~truncated' => \A o \in Ops :
          ActiveOf(approved, o) # {} => ActiveOf(approved', o) # {}]_approved

\* "Apply selective human decisions while preserving deferred candidates"
\* (discovery.py): a candidate the reviewer defers is in the candidate file after
\* the review.
DeferredCandidatesArePreserved ==
    [][review.at = "input" /\ review' = NoReview /\ kills' = kills =>
          \A o \in review.wanted :
              \E k \in DOMAIN candidates'[review.model] :
                  candidates'[review.model][k].op = o]_reviewVars
===============================================================================
