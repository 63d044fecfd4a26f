---------------------------- MODULE RequestReview ----------------------------
(* The request corpus on its way to approval: lexstab/authoring.py,           *)
(* author_requests, add_human_request and review_candidates, as the commands  *)
(* of lexstab/cli.py call them.                                               *)
(*                                                                            *)
(* The requests are of one case; an id is the number in REQ-<case>-<number>.  *)
(* One command runs at a time, and a review may be killed between the files   *)
(* it writes, or while it writes one.  Every row gets a number of its own (a  *)
(* history variable), which tells rows with the same id apart.                *)
EXTENDS Naturals, Sequences, FiniteSets, SequencesExt, Rows

CONSTANTS
    Batches,        \* candidate files; Manual is the one add_human_request uses
    Manual,
    MaxRequests,    \* bound: rows ever written
    MaxKills        \* bound: killed reviews

ASSUME ReviewAssumption ==
    /\ Manual \in Batches
    /\ MaxRequests \in Nat /\ MaxKills \in Nat

VARIABLES
    candidates,     \* the rows of each candidate file
    approved,       \* dataset/requests/approved/support.jsonl
    rejected,       \* dataset/requests/rejected/rejected.jsonl
    review          \* the review under way: what it is going to write, and where
VARIABLES
    written,        \* history: rows written and not overwritten by authoring
    lastRow,        \* history: the number of the last row written
    kills,          \* history: killed reviews
    truncated       \* history: a review was killed while it wrote a file

corpus == <<candidates, approved, rejected>>
history == <<written, lastRow, kills, truncated>>
requestVars == <<corpus, review, history>>

Ids == 1..MaxRequests
NoReview == [at |-> "idle"]
Decisions == {"APPROVE", "REJECT", "DEFER"}

\* _next_request_id: the first number that is not taken.
NextId(taken) == Min(1..(MaxRequests + 1) \ taken)

IdsIn(rows) == {rows[k].id : k \in DOMAIN rows}
RowsIn(rows) == {rows[k].row : k \in DOMAIN rows}
CandidateIds == UNION {IdsIn(candidates[b]) : b \in Batches}

NewRow(id, supersedes) ==
    [row |-> lastRow + 1, id |-> id, supersedes |-> supersedes, status |-> "CANDIDATE"]

InitRequests ==
    /\ candidates = [b \in Batches |-> <<>>]
    /\ approved = <<>>
    /\ rejected = <<>>
    /\ review = NoReview
    /\ written = {} /\ lastRow = 0 /\ kills = 0 /\ truncated = FALSE

\* author_requests and write_candidates: the file is written anew, ids are taken
\* with regard to the approved corpus only, and what it held is the operator's loss.
Author(b) ==
    /\ review = NoReview
    /\ lastRow < MaxRequests
    /\ candidates' = [candidates EXCEPT ![b] = <<NewRow(NextId(IdsIn(approved)), {})>>]
    /\ written' = (written \ RowsIn(candidates[b])) \cup {lastRow + 1}
    /\ lastRow' = lastRow + 1
    /\ UNCHANGED <<approved, rejected, review, kills, truncated>>

\* add_human_request: appended, with an id free in every directory but rejected.
AddHuman ==
    /\ review = NoReview
    /\ lastRow < MaxRequests
    /\ candidates' = [candidates EXCEPT ![Manual] =
                        Append(@, NewRow(NextId(IdsIn(approved) \cup CandidateIds), {}))]
    /\ written' = written \cup {lastRow + 1}
    /\ lastRow' = lastRow + 1
    /\ UNCHANGED <<approved, rejected, review, kills, truncated>>

\* A corrective candidate is written by hand: no code sets supersedes_request_ids.
AddCorrective(id) ==
    /\ review = NoReview
    /\ lastRow < MaxRequests
    /\ candidates' = [candidates EXCEPT ![Manual] =
                        Append(@, NewRow(NextId(IdsIn(approved) \cup CandidateIds), {id}))]
    /\ written' = written \cup {lastRow + 1}
    /\ lastRow' = lastRow + 1
    /\ UNCHANGED <<approved, rejected, review, kills, truncated>>
-------------------------------------------------------------------------------
\* The status a decision gives a row: a deferred one is up for a second review.
StatusFor(d) ==
    CASE d = "APPROVE" -> "APPROVED" [] d = "REJECT" -> "REJECTED" [] d = "DEFER" -> "NEEDS_REVIEW"

\* The rows of a candidate file with a given decision, in file order.
Decided(b, decision, d) ==
    LET rows == Among(candidates[b], {r \in ToSet(candidates[b]) : decision[r.id] = d})
    IN  [k \in DOMAIN rows |-> [rows[k] EXCEPT !.status = StatusFor(d)]]

Superseding(rows) == UNION {rows[k].supersedes : k \in DOMAIN rows}

\* An approved row would replace one that has its id already.
ApprovedAfterById(newRows) ==
    LET kept == SelectSeq(approved, LAMBDA r : r.id \notin IdsIn(newRows))
    IN  [k \in DOMAIN kept |->
            IF kept[k].id \in Superseding(newRows)
            THEN [kept[k] EXCEPT !.status = "SUPERSEDED"] ELSE kept[k]] \o newRows

\* The approved corpus after the review: rows named by an approved row are
\* marked, and the approved rows stand at the end.
ApprovedAfter(newRows) ==
    [k \in DOMAIN approved |->
        IF approved[k].id \in Superseding(newRows)
        THEN [approved[k] EXCEPT !.status = "SUPERSEDED"] ELSE approved[k]]
    \o newRows

\* All decisions are applied in memory first.  An unknown superseded id stops the
\* review before anything is written; rows nobody decided on stay candidates.
StartReview(b) ==
    /\ review = NoReview
    /\ candidates[b] # <<>>
    /\ \E decision \in [IdsIn(candidates[b]) -> Decisions] :
          LET newRows == Decided(b, decision, "APPROVE")
          IN  /\ Superseding(newRows) \subseteq IdsIn(approved)
              /\ review' = [at |-> "approved", batch |-> b,
                            approved |-> ApprovedAfter(newRows),
                            rejected |-> rejected \o Decided(b, decision, "REJECT"),
                            deferred |-> Decided(b, decision, "DEFER")]
    /\ UNCHANGED <<corpus, history>>

WriteApproved ==
    /\ review.at = "approved"
    /\ approved' = review.approved
    /\ review' = [review EXCEPT !.at = "rejected"]
    /\ UNCHANGED <<candidates, rejected, history>>

\* The rejected rows replace those of earlier reviews.
WriteRejectedAnew ==
    /\ review.at = "rejected"
    /\ rejected' = SubSeq(review.rejected, Len(rejected) + 1, Len(review.rejected))
    /\ review' = [review EXCEPT !.at = "input"]
    /\ UNCHANGED <<candidates, approved, history>>

WriteRejected ==
    /\ review.at = "rejected"
    /\ rejected' = review.rejected
    /\ review' = [review EXCEPT !.at = "input"]
    /\ UNCHANGED <<candidates, approved, history>>

\* Last, the candidate file keeps the deferred rows, or is unlinked.
WriteInput ==
    /\ review.at = "input"
    /\ candidates' = [candidates EXCEPT ![review.batch] = review.deferred]
    /\ review' = NoReview
    /\ UNCHANGED <<approved, rejected, history>>

\* The review is killed between two files.
KillReview ==
    /\ review # NoReview
    /\ kills < MaxKills
    /\ kills' = kills + 1
    /\ review' = NoReview
    /\ UNCHANGED <<corpus, written, lastRow, truncated>>

\* The review is killed within jsonl_write, which has truncated the file and
\* written some of its rows.  A corpus without new rows is not written at all,
\* and a candidate file without deferred rows is unlinked, which is one step.
KillWithinWrite ==
    /\ review # NoReview
    /\ kills < MaxKills
    /\ kills' = kills + 1
    /\ truncated' = TRUE
    /\ \/ /\ review.at = "approved" /\ review.approved # approved
          /\ \E k \in 0..Len(review.approved) : approved' = SubSeq(review.approved, 1, k)
          /\ UNCHANGED <<candidates, rejected>>
       \/ /\ review.at = "rejected" /\ review.rejected # rejected
          /\ \E k \in 0..Len(review.rejected) : rejected' = SubSeq(review.rejected, 1, k)
          /\ UNCHANGED <<candidates, approved>>
       \/ /\ review.at = "input" /\ review.deferred # <<>>
          /\ \E k \in 0..Len(review.deferred) :
                candidates' = [candidates EXCEPT ![review.batch] = SubSeq(review.deferred, 1, k)]
          /\ UNCHANGED <<approved, rejected>>
    /\ review' = NoReview
    /\ UNCHANGED <<written, lastRow>>

NextRequests ==
    \/ \E b \in Batches : Author(b) \/ StartReview(b)
    \/ AddHuman
    \/ \E id \in Ids : AddCorrective(id)
    \/ WriteApproved \/ WriteRejected \/ WriteInput
    \/ KillReview \/ KillWithinWrite

RequestSpec == InitRequests /\ [][NextRequests]_requestVars
-------------------------------------------------------------------------------
Copies(rows, r) == Cardinality({k \in DOMAIN rows : rows[k].row = r})

CopiesOf(r) ==
    Copies(approved, r) + Copies(rejected, r)
    + Cardinality({b \in Batches : r \in RowsIn(candidates[b])})

RequestRow == [row : Ids, id : Ids, supersedes : SUBSET Ids,
        status : {"CANDIDATE", "NEEDS_REVIEW", "APPROVED", "SUPERSEDED", "REJECTED"}]

RequestTypeOK ==
    /\ candidates \in [Batches -> Seq(RequestRow)]
    /\ approved \in Seq(RequestRow)
    /\ rejected \in Seq(RequestRow)
    /\ review.at \in {"idle", "approved", "rejected", "input"}
    /\ written \subseteq Ids
    /\ lastRow \in 0..MaxRequests /\ kills \in 0..MaxKills /\ truncated \in BOOLEAN

\* A request that was written is a candidate, approved or rejected at any time,
\* also when reviews were killed between their files; it stands in one place, and
\* each killed review leaves at most one more copy of it behind.
RequestsAreKept ==
    /\ RequestTypeOK
    /\ ~truncated => \A r \in written :
          CopiesOf(r) \in 1..(1 + kills + (IF review = NoReview THEN 0 ELSE 1))

\* A superseded row always has its approved replacement beside it, and nothing
\* that was ever approved is withdrawn in any other way.
SupersededHaveReplacements ==
    ~truncated => \A k \in DOMAIN approved :
        approved[k].status = "SUPERSEDED" =>
            \E j \in DOMAIN approved : approved[k].id \in approved[j].supersedes

\* Whatever is reviewed and killed, no request is lost between the queue of candidates
\* and the approved corpus, and none that was approved leaves it without a successor.
CorpusIsSound == RequestsAreKept /\ SupersededHaveReplacements

\* The approved corpus only grows and a superseded row stays one, whatever is
\* reviewed; decisions once made are not undone by later reviews or kills.
ApprovedHistoryIsKept ==
    [][~truncated' =>
         /\ IsPrefix([k \in DOMAIN approved |-> approved[k].row],
                     [k \in DOMAIN approved' |-> approved'[k].row])
         /\ \A k \in DOMAIN approved :
               approved[k].status = "SUPERSEDED" => approved'[k].status = "SUPERSEDED"
         /\ RowsIn(rejected) \subseteq RowsIn(rejected')]_corpus
===============================================================================
