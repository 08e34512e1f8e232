--------------------------- MODULE CommunityBriefing ---------------------------
(***************************************************************************)
(* The weekly community briefing: a pair of files, the briefing and its    *)
(* Discord summary, that a Python service generates, rewrites and has      *)
(* approved, and that a TypeScript worker publishes.  They share a SQLite  *)
(* table, whose write lock the service keeps while it replaces the pair,   *)
(* and a marker file that says whether a replacement is finished.          *)
(*                                                                         *)
(* A revision stands for the contents of both halves; two halves of        *)
(* different revisions are a torn pair.  A briefing is claimed at most     *)
(* once, so no publication finds a document or message of an earlier one.  *)
(***************************************************************************)
EXTENDS Naturals, FiniteSets

CONSTANTS
  Briefings, Revisions, NoRev,
  Reviewers,    \* review requests, revision threads and draft runs
  Publishers,   \* processes that publish under a signed authority
  NoOne

ASSUME CommunityAssumption ==
  /\ NoRev \notin Revisions
  /\ NoOne \notin Reviewers \cup Publishers

VARIABLES
  row,        \* community_briefings
  files,      \* briefing.md and discord.txt of each briefing
  marker,     \* revision-status.json: phase and nonce (who wrote it)
  lock,       \* who is inside BEGIN IMMEDIATE on the queue
  review,     \* what each reviewer is doing
  ledger,     \* the singleton row of community_briefing_lease
  pub,        \* what each publisher is doing
  requests,   \* accepted by a provider and not yet carried out
  document, message   \* what Google and Discord show

vars == <<row, files, marker, lock, review, ledger, pub, requests, document, message>>
reviewVars == <<row, files, marker, lock, review>>
publishVars == <<ledger, pub, requests, document, message>>

NoRow == [status |-> "absent", draft |-> NoRev, approved |-> NoRev, leased |-> FALSE,
          doc |-> FALSE, message |-> FALSE]
NoReview == [pc |-> "idle", b |-> NoOne, rev |-> NoRev, action |-> "none", expected |-> {}]
NoPub == [pc |-> "idle", b |-> NoOne, rev |-> NoRev, briefing |-> NoRev, discord |-> NoRev,
          waiting |-> FALSE, expired |-> FALSE]

Init ==
  /\ row = [b \in Briefings |-> NoRow]
  /\ files = [b \in Briefings |-> [briefing |-> NoRev, discord |-> NoRev]]
  /\ marker = [b \in Briefings |-> [phase |-> "none", by |-> NoOne]]
  /\ lock = NoOne
  /\ review = [v \in Reviewers |-> NoReview]
  /\ ledger = NoOne
  /\ pub = [p \in Publishers |-> NoPub]
  /\ requests = {}
  /\ document = [b \in Briefings |-> [copies |-> 0, text |-> NoRev, shared |-> FALSE]]
  /\ message = [b \in Briefings |-> [copies |-> 0, text |-> NoRev]]

-----------------------------------------------------------------------------
(* The review service. *)

\* Nothing of the row's publication, under way, done or blocked, is left.
Reviewable(b) ==
  /\ row[b].status \in {"pending_review", "approved", "rejected"}
  /\ ~row[b].leased /\ ~row[b].doc /\ ~row[b].message

\* The row and both files: what a revision must find again at its end.
Snapshot(b) == {<<row[b].draft, row[b].status, row[b].approved, files[b]>>}

\* Slip: the row is read, and the write lock only taken to change it.
BeginCommitUnlocked(v, b, rev, action) ==
  /\ marker' = [marker EXCEPT ![b] = [phase |-> "committing", by |-> v]]
  /\ review' = [review EXCEPT ![v] = [NoReview EXCEPT !.pc = "briefing", !.b = b, !.rev = rev,
                                                      !.action = action]]
  /\ UNCHANGED <<row, files, lock>>

\* The barrier is written before the files, under the write lock.
BeginCommit(v, b, rev, action) ==
  /\ lock = NoOne
  /\ lock' = v
  /\ marker' = [marker EXCEPT ![b] = [phase |-> "committing", by |-> v]]
  /\ review' = [review EXCEPT ![v] = [NoReview EXCEPT !.pc = "briefing", !.b = b, !.rev = rev,
                                                      !.action = action]]
  /\ UNCHANGED <<row, files>>

\* The first draft of a week; files without a row are someone's to reconcile.
Generate(v, b, rev) ==
  /\ review[v].pc = "idle"
  /\ row[b].status = "absent"
  /\ marker[b].phase = "none"
  /\ BeginCommit(v, b, rev, "save")

\* A reviewer saves or approves the pair in the form.
ReviewPair(v, b, rev, action) ==
  /\ review[v].pc = "idle"
  /\ Reviewable(b)
  /\ marker[b].phase # "committing"
  /\ ~(action = "save" /\ row[b].draft = rev /\ files[b] = [briefing |-> rev, discord |-> rev])
  /\ BeginCommit(v, b, rev, action)

\* A revision or regeneration by AI reserves the briefing; only a
\* regeneration from the command line may start from an approved one.
Reserve(v, b) ==
  /\ review[v].pc = "idle"
  /\ lock = NoOne
  /\ Reviewable(b)
  /\ row[b].status \in {"pending_review", "approved"}
  /\ marker[b].phase \notin {"generating", "committing"}
  /\ marker' = [marker EXCEPT ![b] = [phase |-> "generating", by |-> v]]
  /\ review' = [review EXCEPT ![v] = [NoReview EXCEPT !.pc = "rewriting", !.b = b,
                                                      !.expected = Snapshot(b)]]
  /\ UNCHANGED <<row, files, lock>>

\* The AI has answered and nothing it started from has changed.
CommitRevision(v) ==
  LET b == review[v].b IN
  /\ review[v].pc = "rewriting"
  /\ Reviewable(b)
  /\ marker[b] = [phase |-> "generating", by |-> v]
  /\ Snapshot(b) = review[v].expected
  /\ \E rev \in Revisions : BeginCommit(v, b, rev, "save")

\* The AI failed, or newer work is to be kept: a marker of this revision says so.  Neither
\* the row's status nor its lease is looked at: after a claim, too, it lets CheckClaim pass.
FailRevision(v) ==
  LET b == review[v].b IN
  /\ review[v].pc = "rewriting"
  /\ lock = NoOne
  /\ marker' = IF marker[b].by = v /\ marker[b].phase # "committing"
                 THEN [marker EXCEPT ![b].phase = "finished"]
                 ELSE marker
  /\ review' = [review EXCEPT ![v] = NoReview]
  /\ UNCHANGED <<row, files, lock>>

WriteBriefing(v) ==
  /\ review[v].pc = "briefing"
  /\ files' = [files EXCEPT ![review[v].b].briefing = review[v].rev]
  /\ review' = [review EXCEPT ![v].pc = "discord"]
  /\ UNCHANGED <<row, marker, lock>>

WriteDiscord(v) ==
  /\ review[v].pc = "discord"
  /\ files' = [files EXCEPT ![review[v].b].discord = review[v].rev]
  /\ review' = [review EXCEPT ![v].pc = "row"]
  /\ UNCHANGED <<row, marker, lock>>

CommitRow(v) ==
  LET approving == review[v].action = "approve" IN
  /\ review[v].pc = "row"
  /\ row' = [row EXCEPT ![review[v].b].draft = review[v].rev,
                        ![review[v].b].status = IF approving THEN "approved" ELSE "pending_review",
                        ![review[v].b].approved = IF approving THEN review[v].rev ELSE NoRev]
  /\ lock' = NoOne
  /\ review' = [review EXCEPT ![v].pc = "marker"]
  /\ UNCHANGED <<files, marker>>

\* In a second transaction: claims and other reviewers may come between.
CompleteMarker(v) ==
  LET b == review[v].b IN
  /\ review[v].pc = "marker"
  /\ lock = NoOne
  /\ marker' = IF marker[b].by = v THEN [marker EXCEPT ![b].phase = "finished"] ELSE marker
  /\ review' = [review EXCEPT ![v] = NoReview]
  /\ UNCHANGED <<row, files, lock>>

Reject(v, b) ==
  /\ review[v].pc = "idle"
  /\ lock = NoOne
  /\ Reviewable(b)
  /\ marker[b].phase # "committing"
  /\ row' = [row EXCEPT ![b].status = "rejected", ![b].approved = NoRev]
  /\ UNCHANGED <<files, marker, lock, review>>

\* Slip: an exception marks the revision failed, although it may have written a file.
AbandonReviewAsFailed(v) ==
  /\ review[v].pc # "idle"
  /\ review' = [review EXCEPT ![v] = NoReview]
  /\ lock' = IF lock = v THEN NoOne ELSE lock
  /\ marker' = [marker EXCEPT ![review[v].b].phase = "finished"]
  /\ UNCHANGED <<row, files>>

\* The service dies, or an exception leaves the transaction: SQLite rolls
\* back, the files and the marker stay as they are.
AbandonReview(v) ==
  /\ review[v].pc # "idle"
  /\ review' = [review EXCEPT ![v] = NoReview]
  /\ lock' = IF lock = v THEN NoOne ELSE lock
  /\ UNCHANGED <<row, files, marker>>

Review ==
  /\ \E v \in Reviewers :
       \/ \E b \in Briefings :
            \/ \E rev \in Revisions : Generate(v, b, rev) \/ ReviewPair(v, b, rev, "save")
                                      \/ ReviewPair(v, b, rev, "approve")
            \/ Reserve(v, b) \/ Reject(v, b)
       \/ CommitRevision(v) \/ FailRevision(v) \/ AbandonReview(v)
       \/ WriteBriefing(v) \/ WriteDiscord(v) \/ CommitRow(v) \/ CompleteMarker(v)
  /\ UNCHANGED publishVars

-----------------------------------------------------------------------------
(* The publisher. *)

Goto(p, pc) == pub' = [pub EXCEPT ![p].pc = pc]
Fail(p) == pub' = [pub EXCEPT ![p].pc = "fail", ![p].waiting = FALSE]

\* Approved as it is, and no briefing of the table is being published.
Available(b, rev) ==
  /\ row[b].status = "approved" /\ row[b].approved = row[b].draft /\ row[b].draft = rev
  /\ \A other \in Briefings : row[other].status # "publishing" /\ ~row[other].leased

\* The exact approved revision, under a new lease in the authority's ledger.
Authorize(p, b) ==
  /\ pub[p].pc = "idle"
  /\ ledger = NoOne
  /\ Available(b, row[b].draft)
  /\ ledger' = p
  /\ pub' = [pub EXCEPT ![p] = [NoPub EXCEPT !.pc = "claim", !.b = b, !.rev = row[b].draft]]
  /\ UNCHANGED <<requests, document, message>>

Claim(p) ==
  LET b == pub[p].b IN
  /\ pub[p].pc = "claim"
  /\ lock = NoOne
  /\ Available(b, pub[p].rev)
  /\ row' = [row EXCEPT ![b].status = "publishing", ![b].leased = TRUE]
  /\ Goto(p, "begin")
  /\ UNCHANGED <<ledger, requests, document, message>>

\* Nothing to claim, or the queue stayed busy; the ledger keeps the lease.
ClaimFails(p) ==
  /\ pub[p].pc = "claim"
  /\ lock # NoOne \/ ~Available(pub[p].b, pub[p].rev)
  /\ pub' = [pub EXCEPT ![p] = NoPub]
  /\ UNCHANGED <<row, ledger, requests, document, message>>

Owned(p) ==
  LET current == row[pub[p].b] IN
  /\ current.status = "publishing" /\ current.leased
  /\ current.draft = pub[p].rev /\ current.approved = pub[p].rev

\* Asked again before every request that changes something.
CheckClaim(p) ==
  /\ Owned(p)
  /\ ~pub[p].expired
  /\ marker[pub[p].b].phase \in {"none", "finished"}

Begin(p) ==
  /\ pub[p].pc = "begin"
  /\ CheckClaim(p)
  /\ Goto(p, "briefing")
  /\ UNCHANGED <<row, ledger, requests, document, message>>

ReadBriefing(p) ==
  /\ pub[p].pc = "briefing"
  /\ pub' = [pub EXCEPT ![p].pc = "discord", ![p].briefing = files[pub[p].b].briefing]
  /\ UNCHANGED <<row, ledger, requests, document, message>>

\* The pair goes on only if it hashes to the approved revision.
ReadDiscord(p) ==
  LET discord == files[pub[p].b].discord IN
  /\ pub[p].pc = "discord"
  /\ pub' = [pub EXCEPT ![p].discord = discord,
                        ![p].pc = IF {pub[p].briefing, discord} = {pub[p].rev} THEN "create" ELSE "fail"]
  /\ UNCHANGED <<row, ledger, requests, document, message>>

\* Slip: the receipt is recorded as soon as the document has its text.
AfterFilled == [create |-> "fill", fill |-> "google", share |-> "google", announce |-> "published"]

\* The document is created, filled and shared and its receipt recorded, then
\* the message is sent and its receipt recorded.
After == [create |-> "fill", fill |-> "share", share |-> "google", announce |-> "published"]
Kinds == DOMAIN After

RequestOf(p) == [b |-> pub[p].b, kind |-> pub[p].pc,
                 text |-> IF pub[p].pc = "announce" THEN pub[p].discord ELSE pub[p].briefing]

Send(p) ==
  /\ pub[p].pc \in Kinds /\ ~pub[p].waiting
  /\ CheckClaim(p)
  /\ requests' = requests \cup {RequestOf(p)}
  /\ pub' = [pub EXCEPT ![p].waiting = TRUE]
  /\ UNCHANGED <<row, ledger, document, message>>

\* The claim is no longer good, or a read that comes before the request fails.
NotSent(p) ==
  /\ \/ pub[p].pc = "begin" /\ ~CheckClaim(p)
     \/ pub[p].pc \in Kinds /\ ~pub[p].waiting
  /\ Fail(p)
  /\ UNCHANGED <<row, ledger, requests, document, message>>

Answered(p) ==
  /\ pub[p].waiting
  /\ RequestOf(p) \notin requests
  /\ pub' = [pub EXCEPT ![p].pc = After[@], ![p].waiting = FALSE]
  /\ UNCHANGED <<row, ledger, requests, document, message>>

Refused(p) ==
  /\ pub[p].waiting
  /\ RequestOf(p) \in requests
  /\ requests' = requests \ {RequestOf(p)}
  /\ Fail(p)
  /\ UNCHANGED <<row, ledger, document, message>>

\* No answer in time: the request is carried out, then or later, or it is not.
GiveUp(p) ==
  /\ pub[p].waiting
  /\ Fail(p)
  /\ UNCHANGED <<row, ledger, requests, document, message>>

RecordGoogle(p) ==
  /\ pub[p].pc = "google"
  /\ lock = NoOne /\ Owned(p)
  /\ row' = [row EXCEPT ![pub[p].b].doc = TRUE]
  /\ Goto(p, "announce")
  /\ UNCHANGED <<ledger, requests, document, message>>

MarkPublished(p) ==
  /\ pub[p].pc = "published"
  /\ lock = NoOne /\ Owned(p)
  /\ row' = [row EXCEPT ![pub[p].b].status = "published", ![pub[p].b].message = TRUE,
                        ![pub[p].b].leased = FALSE]
  /\ Goto(p, "complete")
  /\ UNCHANGED <<ledger, requests, document, message>>

\* Another transaction keeps the queue busy for longer than the worker waits.
NotRecorded(p) ==
  /\ pub[p].pc \in {"google", "published"}
  /\ lock # NoOne \/ ~Owned(p)
  /\ Fail(p)
  /\ UNCHANGED <<row, ledger, requests, document, message>>

MarkFailure(p) ==
  /\ pub[p].pc = "fail"
  /\ lock = NoOne /\ Owned(p)
  /\ row' = [row EXCEPT ![pub[p].b].status = "blocked", ![pub[p].b].leased = FALSE]
  /\ pub' = [pub EXCEPT ![p] = NoPub]
  /\ UNCHANGED <<ledger, requests, document, message>>

\* Only a confirmed publication gives the lease back.
Complete(p) ==
  /\ pub[p].pc = "complete"
  /\ ledger = p
  /\ ledger' = NoOne
  /\ pub' = [pub EXCEPT ![p] = NoPub]
  /\ UNCHANGED <<row, requests, document, message>>

LeaseExpires(p) ==
  /\ pub[p].pc \notin {"idle", "claim"}
  /\ ~pub[p].expired
  /\ pub' = [pub EXCEPT ![p].expired = TRUE]
  /\ UNCHANGED <<row, ledger, requests, document, message>>

\* The process dies, its authority is revoked or ends, or a failure could not
\* be recorded: the row and the ledger stay as they are.
Interrupt(p) ==
  /\ pub[p].pc # "idle"
  /\ pub' = [pub EXCEPT ![p] = NoPub]
  /\ UNCHANGED <<row, ledger, requests, document, message>>

Publish ==
  /\ \E p \in Publishers :
       \/ \E b \in Briefings : Authorize(p, b) /\ UNCHANGED row
       \/ Claim(p) \/ ClaimFails(p) \/ Begin(p) \/ ReadBriefing(p) \/ ReadDiscord(p)
       \/ Send(p) \/ NotSent(p) \/ Answered(p) \/ Refused(p) \/ GiveUp(p)
       \/ RecordGoogle(p) \/ MarkPublished(p) \/ NotRecorded(p) \/ MarkFailure(p)
       \/ Complete(p) \/ LeaseExpires(p) \/ Interrupt(p)
  /\ UNCHANGED <<files, marker, lock, review>>

-----------------------------------------------------------------------------
(* The providers, and the operator who takes up what was left.             *)

Effect(r) ==
  /\ document' = CASE r.kind = "create" -> [document EXCEPT ![r.b].copies = @ + 1]
                   [] r.kind = "fill" -> [document EXCEPT ![r.b].text = r.text]
                   [] r.kind = "share" -> [document EXCEPT ![r.b].shared = TRUE]
                   [] OTHER -> document
  /\ message' = IF r.kind = "announce"
                  THEN [message EXCEPT ![r.b] = [copies |-> @.copies + 1, text |-> r.text]]
                  ELSE message

\* An accepted request is carried out, or after all is not.
Provider ==
  \E r \in requests :
    /\ requests' = requests \ {r}
    /\ \/ Effect(r) /\ UNCHANGED pub
       \/ /\ \A p \in Publishers : pub[p].waiting => RequestOf(p) # r
          /\ UNCHANGED <<pub, document, message>>
    /\ UNCHANGED <<reviewVars, ledger>>

Delivered(b) ==
  /\ document[b] = [copies |-> 1, text |-> row[b].approved, shared |-> TRUE]
  /\ message[b] = [copies |-> 1, text |-> row[b].approved]

\* With every writer stopped, and only when the outcome at the providers is
\* certain, the row is closed; the ledger is cleared when no row is open.
Reconcile ==
  /\ \A p \in Publishers : pub[p].pc = "idle"
  /\ \A v \in Reviewers : review[v].pc = "idle"
  /\ \/ \E b \in Briefings :
          /\ row[b].status = "publishing"
          /\ \A r \in requests : r.b # b
          /\ row' = [row EXCEPT ![b] =
               IF Delivered(b)
                 THEN [@ EXCEPT !.status = "published", !.leased = FALSE, !.doc = TRUE, !.message = TRUE]
                 ELSE [@ EXCEPT !.status = "blocked", !.leased = FALSE]]
          /\ UNCHANGED ledger
     \/ /\ ledger # NoOne
        /\ \A b \in Briefings : row[b].status # "publishing"
        /\ ledger' = NoOne
        /\ UNCHANGED row
  /\ UNCHANGED <<files, marker, lock, review, pub, requests, document, message>>

Next == Review \/ Publish \/ Provider \/ Reconcile

Spec == Init /\ [][Next]_vars
=============================================================================
