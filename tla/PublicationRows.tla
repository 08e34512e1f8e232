-------------------------- MODULE PublicationRows --------------------------
(***************************************************************************)
(* One row of the table publication_items of the meeting-publication       *)
(* store, and what each store operation does to the row it touches.        *)
(*                                                                         *)
(* A revision stands for the SHA-256 of a note's bytes.  Times are         *)
(* abstracted to what is compared with them: a lease is live or expired, a *)
(* scheduled retry is still waiting or due.  Identifiers returned by the   *)
(* providers are abstracted to "recorded or not".                          *)
(***************************************************************************)
EXTENDS Naturals

CONSTANTS
  Revisions,   \* contents a note can have (their hashes)
  NoRev,       \* SQL NULL in a hash column, or no eligible note on disk
  AuthLimit    \* claims after which a blocked item is not resumed by itself

ASSUME RevisionAssumption == NoRev \notin Revisions
ASSUME AuthLimitAssumption == AuthLimit \in Nat

MaybeRev == Revisions \cup {NoRev}

Status == {"absent", "pending_review", "approved", "publishing", "published",
           "rejected", "blocked", "archived"}

\* Failures as the code tells them apart: "transient" ones get a retry time,
\* "auth" ones can be resumed after a healthy preflight, "uncertain" is the
\* durable reconciliation stop, the others wait for a reviewer.
ProviderFailure == {"transient", "auth", "fatal"}
Failure == {"none", "source", "uncertain"} \cup ProviderFailure

Row == [status   : Status,
        source   : MaybeRev,     \* source_hash
        approved : MaybeRev,     \* approved_hash
        doc      : BOOLEAN,      \* google_doc_id is recorded
        docRev   : MaybeRev,     \* google_source_hash
        msg      : BOOLEAN,      \* discord_message_id is recorded
        failure  : Failure,      \* failure_code
        waiting  : BOOLEAN,      \* next_attempt_at lies in the future
        lease    : {"none", "live", "expired"},
        attempts : Nat]

NoRow == [status |-> "absent", source |-> NoRev, approved |-> NoRev,
          doc |-> FALSE, docRev |-> NoRev, msg |-> FALSE, failure |-> "none",
          waiting |-> FALSE, lease |-> "none", attempts |-> 0]

-----------------------------------------------------------------------------
(* The canonical lifecycle: the statuses in which an event is accepted.    *)
(* Every event leads to one status, named by the operators below.          *)

AcceptedIn ==
  [update  |-> {"pending_review"},
   approve |-> {"pending_review", "blocked"},
   reject  |-> {"pending_review"},
   archive |-> {"pending_review", "approved", "publishing", "blocked", "rejected"},
   restore |-> {"archived"},
   claim   |-> {"approved"},
   retry   |-> {"publishing"},
   block   |-> {"publishing"},
   publish |-> {"publishing"}]

Accepts(r, event) == r.status \in AcceptedIn[event]

-----------------------------------------------------------------------------
(* Store operations on a row                                               *)

\* What an ordinary decision resets: failure, retry time and lease.
Settled(r) == [r EXCEPT !.failure = "none", !.waiting = FALSE, !.lease = "none"]

\* Slip: the approval of the previous revision stays.
UpsertedStillApproved(r, rev) ==
  IF r.source = rev
  THEN r
  ELSE [Settled(r) EXCEPT !.status = "pending_review", !.source = rev, !.docRev = NoRev]

\* Slip: the document checkpoint of the previous revision stays.
UpsertedKeepsCheckpoint(r, rev) ==
  IF r.source = rev
  THEN r
  ELSE [Settled(r) EXCEPT !.status = "pending_review", !.source = rev, !.approved = NoRev]

\* A new revision always returns the row to review and withdraws the approval
\* and the document checkpoint; the provider ids and the attempts stay.
Upserted(r, rev) ==
  IF r.status = "absent"
  THEN [NoRow EXCEPT !.status = "pending_review", !.source = rev]
  ELSE IF r.source = rev
  THEN r
  ELSE [Settled(r) EXCEPT !.status = "pending_review", !.source = rev,
                          !.approved = NoRev, !.docRev = NoRev]

Approve(r, rev) == [Settled(r) EXCEPT !.status = "approved", !.approved = rev]

Reject(r) == [r EXCEPT !.status = "rejected", !.approved = NoRev]

Archive(r) == [Settled(r) EXCEPT !.status = "archived", !.approved = NoRev]

Restore(r) == [r EXCEPT !.status = "pending_review"]

\* archivePaths: an excluded note archives its row in any other status.
ArchivedByScan(r) ==
  IF r.status \in {"absent", "published", "archived"} THEN r ELSE Archive(r)

Claim(r) == [r EXCEPT !.status = "publishing", !.lease = "live",
                      !.attempts = @ + 1]

RecordDoc(r) == [r EXCEPT !.doc = TRUE, !.docRev = r.source]

RecordMessage(r) == [r EXCEPT !.msg = TRUE]

MarkPublished(r) == [Settled(r) EXCEPT !.status = "published"]

\* Slip: a status the lifecycle does not have.
MarkFailureUnknown(r, code) ==
  [r EXCEPT !.status  = IF code = "transient" THEN "approved" ELSE "failed",
            !.failure = code,
            !.waiting = (code = "transient"),
            !.lease   = "none"]

\* Only a failure with a retry time goes back to the approved queue.
MarkFailure(r, code) ==
  [r EXCEPT !.status  = IF code = "transient" THEN "approved" ELSE "blocked",
            !.failure = code,
            !.waiting = (code = "transient"),
            !.lease   = "none"]

ResumeAuth(r) == [Settled(r) EXCEPT !.status = "approved"]

-----------------------------------------------------------------------------
(* The conditions the store checks inside a transaction                    *)

\* requireClaim: the claim a worker holds is still the row's live claim.
ClaimValid(r, claim) ==
  /\ r.status = "publishing"
  /\ r.lease = "live"
  /\ r.attempts = claim.attempts
  /\ claim.approved # NoRev
  /\ claim.approved = claim.source
  /\ r.source = claim.source
  /\ r.approved = claim.approved

Claimable(r) == Accepts(r, "claim") /\ ~r.waiting

\* resumeAuthBlocked: the row still is the snapshot whose failure the healthy
\* preflight refers to.
Resumable(r, seen) ==
  /\ r.status = "blocked"
  /\ r.source = seen.source
  /\ r.approved = seen.approved
  /\ r.approved = r.source
  /\ r.approved # NoRev
  /\ r.attempts = seen.attempts
  /\ r.attempts < AuthLimit
  /\ r.failure = seen.failure
  /\ r.failure = "auth"

-----------------------------------------------------------------------------
(* What holds of every stored row on its own                               *)

\* An absent row has no revision and no message, whatever is queued, being
\* published or published carries an approval, an approval and a document
\* checkpoint are for the row's own revision, and an uncertain delivery blocks.
RowSane(r) ==
  /\ r.status = "absent" => r.source = NoRev /\ ~r.msg
  /\ r.status \in {"approved", "publishing", "published"} => r.approved # NoRev
  /\ r.approved # NoRev => r.approved = r.source
  /\ r.docRev # NoRev => r.docRev = r.source
  /\ r.failure = "uncertain" => r.status = "blocked"
=============================================================================
