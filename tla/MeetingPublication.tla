------------------------- MODULE MeetingPublication -------------------------
(***************************************************************************)
(* Publication of reviewed meeting notes to a Google document and a        *)
(* Discord message.                                                        *)
(*                                                                         *)
(* Workers are the processes that scan the notes, claim approved rows and  *)
(* call the providers; each runs one cycle or one exact publication at a   *)
(* time (the workerLock of its service).  Reviewers are the requests of    *)
(* the review server, which take no lock.  They share the note files, the  *)
(* SQLite table and the providers.  Every action is one transaction of the *)
(* store or one step between two awaits of the service.                    *)
(*                                                                         *)
(* A worker may crash at every step; a denied authorization and a failed   *)
(* SQLite write end it in the same way, with no change to the row.  A      *)
(* request to a provider may be applied, rejected, applied without the     *)
(* reply arriving, or applied long after its sender has given up.          *)
(***************************************************************************)
EXTENDS PublicationRows

CONSTANTS
  Items,        \* meetings
  Workers,      \* service processes
  Reviewers,    \* concurrent review requests
  NoItem,       \* the job of a worker that has none
  MaxAttempts   \* bound of the model: no row is claimed more often

ASSUME ItemAssumption == NoItem \notin Items
ASSUME MaxAttemptsAssumption == MaxAttempts \in Nat

VARIABLES
  note,      \* note[i]: revision on disk, NoRev when absent or excluded
  rows,      \* the table publication_items
  drive,     \* Google's side: copies and text of i's document, and sharing
  channel,   \* Discord's side: copies and text of i's message
  wire,      \* requests sent to a provider and not yet applied or rejected
  pc,        \* where each worker is
  seen,      \* the notes the worker's scan discovered
  todo,      \* discovered items its scan has not stored yet
  job,       \* the item the worker is publishing or resuming
  claim,     \* its snapshot of that item's row
  outcome,   \* the failure it is about to record
  rpc,       \* where each review request is
  form,      \* what the reviewer asked for
  everApproved  \* history: <<item, revision>> approved by a reviewer

fileVars     == <<note>>
providerVars == <<drive, channel, wire>>
workerVars   == <<pc, seen, todo, job, claim, outcome>>
reviewVars   == <<rpc, form, everApproved>>
vars == <<fileVars, rows, providerVars, workerVars, reviewVars>>

-----------------------------------------------------------------------------
(* Control states                                                          *)

\* The worker waits for the reply to a request of the same name.
Waiting == {"create", "write", "share", "post", "edit"}

\* The worker works under a claim.
Publishing == {"read", "google", "lookup", "created", "written", "recordGoogle",
               "discord", "access", "recordDiscord", "publish", "fail"} \cup Waiting

Scanning == {"archive", "upsert", "health", "resume", "exact", "claim"}

WorkerPc == {"down", "idle"} \cup Scanning \cup Publishing

ReviewPc == {"idle", "refresh", "decide", "write", "commit"}

Operation == {"approve", "reject", "archive", "update"}

NoForm == [item |-> NoItem, op |-> "approve", rev |-> NoRev, note |-> NoRev]

Form == [item : Items \cup {NoItem}, op : Operation, rev : MaybeRev, note : MaybeRev]

Request == [worker : Workers, kind : Waiting, item : Items, rev : Revisions,
            attempt : Nat]

-----------------------------------------------------------------------------
(* The guard every transaction starts with                                 *)

Uncertain(i) == rows[i].failure = "uncertain"

NoUncertainty == \A i \in Items : ~Uncertain(i)

\* A claimant's checkpoint, failure and publish writes.
MayRecord == NoUncertainty

\* Slips in the second guard: a publication in progress, one with an expired
\* lease, or an uncertain delivery does not stop a write.
MayWriteUnlessUncertain == NoUncertainty
MayWriteAfterLease ==
  NoUncertainty /\ \A i \in Items : rows[i].status = "publishing" => rows[i].lease = "expired"
MayWriteUnlessPublishing == \A i \in Items : rows[i].status # "publishing"

\* Every other write.
MayWrite == NoUncertainty /\ \A i \in Items : rows[i].status # "publishing"

\* requireCertainDelivery reads the same two conditions outside a transaction.
CertainDelivery == MayWrite

UpdateRow(i, r) == rows' = [rows EXCEPT ![i] = r]

-----------------------------------------------------------------------------
NoDoc == [copies |-> 0, text |-> NoRev, shared |-> FALSE]
NoMessage == [copies |-> 0, text |-> NoRev]

Init ==
  /\ note \in [Items -> MaybeRev]
  /\ rows = [i \in Items |-> NoRow]
  /\ drive = [i \in Items |-> NoDoc]
  /\ channel = [i \in Items |-> NoMessage]
  /\ wire = {}
  /\ pc = [w \in Workers |-> "idle"]
  /\ seen = [w \in Workers |-> [i \in Items |-> NoRev]]
  /\ todo = [w \in Workers |-> {}]
  /\ job = [w \in Workers |-> NoItem]
  /\ claim = [w \in Workers |-> NoRow]
  /\ outcome = [w \in Workers |-> "none"]
  /\ rpc = [r \in Reviewers |-> "idle"]
  /\ form = [r \in Reviewers |-> NoForm]
  /\ everApproved = {}

-----------------------------------------------------------------------------
(* Environment: edits of the notes, time                                   *)

\* Any editor may change a note, make it ineligible or remove it.
EditNote(i) ==
  /\ \E rev \in MaybeRev \ {note[i]} : note' = [note EXCEPT ![i] = rev]
  /\ UNCHANGED <<rows, providerVars, workerVars, reviewVars>>

RetryDue(i) ==
  /\ rows[i].waiting
  /\ UpdateRow(i, [rows[i] EXCEPT !.waiting = FALSE])
  /\ UNCHANGED <<fileVars, providerVars, workerVars, reviewVars>>

LeaseExpires(i) ==
  /\ rows[i].lease = "live"
  /\ UpdateRow(i, [rows[i] EXCEPT !.lease = "expired"])
  /\ UNCHANGED <<fileVars, providerVars, workerVars, reviewVars>>

-----------------------------------------------------------------------------
(* Worker: life cycle                                                      *)

\* Forget everything held in memory and continue at "at".
Reset(w, at) ==
  /\ pc' = [pc EXCEPT ![w] = at]
  /\ seen' = [seen EXCEPT ![w] = [i \in Items |-> NoRev]]
  /\ todo' = [todo EXCEPT ![w] = {}]
  /\ job' = [job EXCEPT ![w] = NoItem]
  /\ claim' = [claim EXCEPT ![w] = NoRow]
  /\ outcome' = [outcome EXCEPT ![w] = "none"]

\* A process dies, loses its authority, or fails to write: memory is lost,
\* what it sent is not.
Crash(w) ==
  /\ pc[w] # "down"
  /\ Reset(w, "down")
  /\ UNCHANGED <<fileVars, rows, providerVars, reviewVars>>

Restart(w) ==
  /\ pc[w] = "down"
  /\ pc' = [pc EXCEPT ![w] = "idle"]
  /\ UNCHANGED <<fileVars, rows, providerVars, seen, todo, job, claim, outcome,
                 reviewVars>>

-----------------------------------------------------------------------------
(* Worker: scan                                                            *)

\* worker: certain delivery is required, then the notes are discovered.
BeginCycle(w) ==
  /\ pc[w] = "idle"
  /\ CertainDelivery
  /\ pc' = [pc EXCEPT ![w] = "archive"]
  /\ seen' = [seen EXCEPT ![w] = note]
  /\ todo' = [todo EXCEPT ![w] = {i \in Items : note[i] # NoRev}]
  /\ UNCHANGED <<fileVars, rows, providerVars, job, claim, outcome, reviewVars>>

\* One transaction archives the rows of the files that were excluded; a file
\* that is missing leaves its row alone.
ScanArchive(w) ==
  /\ pc[w] = "archive"
  /\ MayWrite
  /\ \E excluded \in SUBSET {i \in Items : seen[w][i] = NoRev} :
       rows' = [i \in Items |-> IF i \in excluded THEN ArchivedByScan(rows[i])
                                                  ELSE rows[i]]
  /\ pc' = [pc EXCEPT ![w] = "upsert"]
  /\ UNCHANGED <<fileVars, providerVars, seen, todo, job, claim, outcome, reviewVars>>

\* An exact match is skipped without a transaction.
ScanUpsert(w, i) ==
  /\ pc[w] = "upsert"
  /\ i \in todo[w]
  /\ rows[i].source = seen[w][i] \/ MayWrite
  /\ UpdateRow(i, Upserted(rows[i], seen[w][i]))
  /\ todo' = [todo EXCEPT ![w] = @ \ {i}]
  /\ UNCHANGED <<fileVars, providerVars, pc, seen, job, claim, outcome, reviewVars>>

ScanDone(w) ==
  /\ pc[w] = "upsert"
  /\ todo[w] = {}
  /\ Reset(w, "health")
  /\ UNCHANGED <<fileVars, rows, providerVars, reviewVars>>

\* A transaction refused by its guard fails the cycle, and the process with it.
Refused(w) ==
  /\ \/ pc[w] \in {"archive", "health", "resume", "exact", "claim"}
     \/ pc[w] = "upsert" /\ \E i \in todo[w] : rows[i].source # seen[w][i]
  /\ ~MayWrite
  /\ Reset(w, "down")
  /\ UNCHANGED <<fileVars, rows, providerVars, reviewVars>>

-----------------------------------------------------------------------------
(* Worker: provider health                                                 *)

\* A healthy preflight lets the worker look at an item that an authentication
\* failure blocked: it keeps the row it saw and reads the note.
SelectBlocked(w, i) ==
  /\ pc[w] = "health"
  /\ rows[i].status = "blocked"
  /\ rows[i].failure # "source"
  /\ rows[i].approved # NoRev
  /\ note[i] # NoRev
  /\ pc' = [pc EXCEPT ![w] = "resume"]
  /\ job' = [job EXCEPT ![w] = i]
  /\ claim' = [claim EXCEPT ![w] = rows[i]]
  /\ seen' = [seen EXCEPT ![w] = [j \in Items |-> IF j = i THEN note[i] ELSE NoRev]]
  /\ UNCHANGED <<fileVars, rows, providerVars, todo, outcome, reviewVars>>

\* A changed note goes back to review, an unchanged one back to the queue if
\* the row still is the one that was seen.
ResumeBlocked(w) ==
  LET i == job[w]
  IN /\ pc[w] = "resume"
     /\ MayWrite
     /\ \/ /\ seen[w][i] # claim[w].approved
           /\ UpdateRow(i, Upserted(rows[i], seen[w][i]))
        \/ /\ seen[w][i] = claim[w].approved
           /\ Resumable(rows[i], claim[w])
           /\ UpdateRow(i, ResumeAuth(rows[i]))
        \/ /\ seen[w][i] = claim[w].approved
           /\ ~Resumable(rows[i], claim[w])
           /\ UNCHANGED rows
     /\ Reset(w, "health")
     /\ UNCHANGED <<fileVars, providerVars, reviewVars>>

\* Both providers answered, or one did not and the cycle ends here.
HealthChecked(w) ==
  /\ pc[w] = "health"
  /\ \E next \in {"claim", "idle"} : pc' = [pc EXCEPT ![w] = next]
  /\ UNCHANGED <<fileVars, rows, providerVars, seen, todo, job, claim, outcome,
                 reviewVars>>

-----------------------------------------------------------------------------
(* Worker: claim                                                           *)

TakeClaim(w, i) ==
  /\ Claimable(rows[i])
  /\ rows[i].attempts < MaxAttempts
  /\ UpdateRow(i, Claim(rows[i]))
  /\ pc' = [pc EXCEPT ![w] = "read"]
  /\ job' = [job EXCEPT ![w] = i]
  /\ claim' = [claim EXCEPT ![w] = Claim(rows[i])]
  /\ UNCHANGED <<fileVars, providerVars, todo, outcome, reviewVars>>

ClaimNext(w, i) ==
  /\ pc[w] = "claim"
  /\ MayWrite
  /\ TakeClaim(w, i)
  /\ UNCHANGED seen

\* Nothing is due, or the cycle has claimed its maximum.
EndCycle(w) ==
  /\ pc[w] = "claim"
  /\ Reset(w, "idle")
  /\ UNCHANGED <<fileVars, rows, providerVars, reviewVars>>

\* publishOne: one approved revision, whose note must read the same.
BeginExact(w, i) ==
  /\ pc[w] = "idle"
  /\ CertainDelivery
  /\ rows[i].approved # NoRev
  /\ rows[i].approved = rows[i].source
  /\ note[i] = rows[i].source
  /\ pc' = [pc EXCEPT ![w] = "exact"]
  /\ job' = [job EXCEPT ![w] = i]
  /\ seen' = [seen EXCEPT ![w] = [j \in Items |-> IF j = i THEN note[i] ELSE NoRev]]
  /\ UNCHANGED <<fileVars, rows, providerVars, todo, claim, outcome, reviewVars>>

ClaimExact(w) ==
  LET i == job[w]
  IN /\ pc[w] = "exact"
     /\ MayWrite
     /\ rows[i].source = seen[w][i]
     /\ rows[i].approved = seen[w][i]
     /\ TakeClaim(w, i)
     /\ seen' = [seen EXCEPT ![w] = [j \in Items |-> NoRev]]

NothingExact(w) ==
  /\ pc[w] = "exact"
  /\ MayWrite
  /\ ~( /\ Claimable(rows[job[w]])
        /\ rows[job[w]].source = seen[w][job[w]]
        /\ rows[job[w]].approved = seen[w][job[w]]
        /\ rows[job[w]].attempts < MaxAttempts )
  /\ Reset(w, "idle")
  /\ UNCHANGED <<fileVars, rows, providerVars, reviewVars>>

-----------------------------------------------------------------------------
(* Worker: one publication under a claim                                   *)

\* The claimed revision: the one whose approval the claim carries.
Rev(w) == claim[w].approved

Goto(w, at) == pc' = [pc EXCEPT ![w] = at]

Fail(w, code) ==
  /\ Goto(w, "fail")
  /\ outcome' = [outcome EXCEPT ![w] = code]

\* Steps that only move the worker on.
OnlyMoves == UNCHANGED <<fileVars, rows, providerVars, seen, todo, job, claim,
                         reviewVars>>

\* Slip: a document checkpoint of any revision skips Google.
ReadNoteAnyCheckpoint(w) ==
  /\ pc[w] = "read"
  /\ \/ /\ note[job[w]] # Rev(w)
        /\ Fail(w, "source")
     \/ /\ note[job[w]] = Rev(w)
        /\ Goto(w, IF claim[w].doc THEN "discord" ELSE "google")
        /\ UNCHANGED outcome
  /\ OnlyMoves

\* The note is read again: a missing or changed one is a recorded failure,
\* a document checkpoint for the same revision skips Google.
ReadNote(w) ==
  /\ pc[w] = "read"
  /\ \/ /\ note[job[w]] # Rev(w)
        /\ Fail(w, "source")
     \/ /\ note[job[w]] = Rev(w)
        /\ Goto(w, IF claim[w].doc /\ claim[w].docRev = Rev(w) THEN "discord"
                                                              ELSE "google")
        /\ UNCHANGED outcome
  /\ OnlyMoves

\* A claim that is no longer live ends the worker; the row stays publishing.
LostClaim(w) ==
  /\ \/ /\ pc[w] \in {"google", "discord"}
        /\ ~ClaimValid(rows[job[w]], claim[w])
     \/ /\ pc[w] \in {"recordGoogle", "recordDiscord", "publish", "fail"}
        /\ ~(ClaimValid(rows[job[w]], claim[w]) /\ MayRecord)
  /\ Reset(w, "down")
  /\ UNCHANGED <<fileVars, rows, providerVars, reviewVars>>

\* Fresh grant, then getClaim: the last check before the provider is called.
EnterProvider(w) ==
  /\ pc[w] \in {"google", "discord"}
  /\ ClaimValid(rows[job[w]], claim[w])
  /\ Goto(w, IF pc[w] = "google" THEN "lookup" ELSE "access")
  /\ UNCHANGED outcome
  /\ OnlyMoves

\* A failing GET proves nothing was written by it.
ReadFails(w) ==
  /\ pc[w] \in {"lookup", "created", "written", "access"}
  /\ \E code \in ProviderFailure : Fail(w, code)
  /\ OnlyMoves

RequestOf(w, kind) == [worker |-> w, kind |-> kind, item |-> job[w],
                       rev |-> Rev(w), attempt |-> claim[w].attempts]

Send(w, kind) ==
  /\ Goto(w, kind)
  /\ wire' = wire \cup {RequestOf(w, kind)}
  /\ UNCHANGED <<fileVars, rows, drive, channel, seen, todo, job, claim, outcome,
                 reviewVars>>

\* The document is found by its marker or recorded id, or created.
LookedUp(w) ==
  /\ pc[w] = "lookup"
  /\ Send(w, IF drive[job[w]].copies = 0 THEN "create" ELSE "write")

\* A new document is filled after it was created.
WriteCreated(w) ==
  /\ pc[w] = "created"
  /\ Send(w, "write")

\* Sharing is added when the permissions that were read do not have it.
ShareWritten(w) ==
  /\ pc[w] = "written"
  /\ IF drive[job[w]].shared
     THEN Goto(w, "recordGoogle") /\ UNCHANGED outcome /\ OnlyMoves
     ELSE Send(w, "share")

\* Slip: the recorded message is not looked at.
AnnounceAgain(w) ==
  /\ pc[w] = "access"
  /\ Send(w, "post")

\* A message that was never recorded is posted, a recorded one edited.
Announce(w) ==
  /\ pc[w] = "access"
  /\ Send(w, IF rows[job[w]].msg THEN "edit" ELSE "post")

\* Slips: a write that timed out is retried like a read; only Discord's
\* requests have a timeout.
GiveUpRetries(w) ==
  /\ pc[w] \in Waiting
  /\ Fail(w, "transient")
  /\ OnlyMoves
GiveUpOnDiscord(w) ==
  /\ pc[w] \in {"post", "edit"}
  /\ Fail(w, "uncertain")
  /\ OnlyMoves

\* The transport's timeout, or a reply that does not arrive or decode: the
\* outcome of the write is unknown and the request may still be applied.
GiveUp(w) ==
  /\ pc[w] \in Waiting
  /\ Fail(w, "uncertain")
  /\ OnlyMoves

RecordGoogle(w) ==
  /\ pc[w] = "recordGoogle"
  /\ ClaimValid(rows[job[w]], claim[w]) /\ MayRecord
  /\ UpdateRow(job[w], RecordDoc(rows[job[w]]))
  /\ Goto(w, "discord")
  /\ UNCHANGED <<fileVars, providerVars, seen, todo, job, claim, outcome, reviewVars>>

RecordDiscord(w) ==
  /\ pc[w] = "recordDiscord"
  /\ ClaimValid(rows[job[w]], claim[w]) /\ MayRecord
  /\ UpdateRow(job[w], RecordMessage(rows[job[w]]))
  /\ Goto(w, "publish")
  /\ UNCHANGED <<fileVars, providerVars, seen, todo, job, claim, outcome, reviewVars>>

\* The worker's loop claims again, an exact publication returns.
Publish(w) ==
  /\ pc[w] = "publish"
  /\ ClaimValid(rows[job[w]], claim[w]) /\ MayRecord
  /\ UpdateRow(job[w], MarkPublished(rows[job[w]]))
  /\ \E next \in {"claim", "idle"} : Reset(w, next)
  /\ UNCHANGED <<fileVars, providerVars, reviewVars>>

\* An uncertain delivery stops the process, any other failure lets the worker
\* check the providers again (a changed note: claim again).
RecordFailure(w) ==
  /\ pc[w] = "fail"
  /\ ClaimValid(rows[job[w]], claim[w]) /\ MayRecord
  /\ UpdateRow(job[w], MarkFailure(rows[job[w]], outcome[w]))
  /\ IF outcome[w] = "uncertain"
     THEN Reset(w, "down")
     ELSE \E next \in {"health", "claim", "idle"} : Reset(w, next)
  /\ UNCHANGED <<fileVars, providerVars, reviewVars>>

-----------------------------------------------------------------------------
(* Providers                                                               *)

\* The sender of q still waits for this reply.
Awaits(q) ==
  /\ pc[q.worker] = q.kind
  /\ job[q.worker] = q.item
  /\ claim[q.worker].attempts = q.attempt

Replied == [create |-> "created", write |-> "written",
            share |-> "recordGoogle", post |-> "recordDiscord",
            edit |-> "recordDiscord"]

Effect(q) ==
  CASE q.kind = "create" ->
         /\ drive' = [drive EXCEPT ![q.item].copies = @ + 1]
         /\ UNCHANGED channel
    [] q.kind = "write" ->
         /\ drive' = [drive EXCEPT ![q.item].text = q.rev]
         /\ UNCHANGED channel
    [] q.kind = "share" ->
         /\ drive' = [drive EXCEPT ![q.item].shared = TRUE]
         /\ UNCHANGED channel
    [] q.kind = "post" ->
         /\ channel' = [channel EXCEPT ![q.item] = [copies |-> @.copies + 1,
                                                   text   |-> q.rev]]
         /\ UNCHANGED drive
    [] q.kind = "edit" ->
         /\ channel' = [channel EXCEPT ![q.item].text = q.rev]
         /\ UNCHANGED drive

\* The provider applies a request; the reply may be lost.
Apply(q) ==
  /\ q \in wire
  /\ wire' = wire \ {q}
  /\ Effect(q)
  /\ \/ Awaits(q) /\ Goto(q.worker, Replied[q.kind])
     \/ UNCHANGED pc
  /\ UNCHANGED <<fileVars, rows, seen, todo, job, claim, outcome, reviewVars>>

\* The provider answers that it did not apply the request.
Refuse(q) ==
  /\ q \in wire
  /\ wire' = wire \ {q}
  /\ \/ /\ Awaits(q)
        /\ \E code \in ProviderFailure : Fail(q.worker, code)
     \/ /\ ~Awaits(q)
        /\ UNCHANGED <<pc, outcome>>
  /\ UNCHANGED <<fileVars, rows, drive, channel, seen, todo, job, claim, reviewVars>>

-----------------------------------------------------------------------------
(* Review requests                                                         *)

EndReview(r) ==
  /\ rpc' = [rpc EXCEPT ![r] = "idle"]
  /\ form' = [form EXCEPT ![r] = NoForm]

\* refreshCurrentForReview: the row is looked up and the note read.
BeginReview(r, i) ==
  /\ rpc[r] = "idle"
  /\ rows[i].status # "absent"
  /\ note[i] # NoRev
  /\ \E op \in Operation, rev \in Revisions :
       form' = [form EXCEPT ![r] = [item |-> i, op |-> op, rev |-> rev,
                                    note |-> note[i]]]
  /\ rpc' = [rpc EXCEPT ![r] = "refresh"]
  /\ UNCHANGED <<fileVars, rows, providerVars, workerVars, everApproved>>

\* The note is stored; a revision the row or the reviewer did not know ends
\* the request, and the row stays refreshed.  An edit needs a pending row.
RefreshRow(r) ==
  LET i == form[r].item
      known == rows[i].source = form[r].note /\ form[r].note = form[r].rev
  IN /\ rpc[r] = "refresh"
     /\ MayWrite
     /\ UpdateRow(i, Upserted(rows[i], form[r].note))
     /\ IF known /\ (form[r].op # "update" \/ Accepts(rows[i], "update"))
        THEN /\ rpc' = [rpc EXCEPT ![r] = IF form[r].op = "update" THEN "write"
                                                                  ELSE "decide"]
             /\ UNCHANGED form
        ELSE EndReview(r)
     /\ UNCHANGED <<fileVars, providerVars, workerVars, everApproved>>

\* The decision is taken on the row as it is now.
Decide(r) ==
  LET i == form[r].item
      row == rows[i]
  IN /\ rpc[r] = "decide"
     /\ MayWrite
     /\ row.source = form[r].rev
     /\ \/ /\ form[r].op = "approve" /\ Accepts(row, "approve")
           /\ UpdateRow(i, Approve(row, form[r].rev))
           /\ everApproved' = everApproved \cup {<<i, form[r].rev>>}
        \/ /\ form[r].op = "reject" /\ Accepts(row, "reject")
           /\ UpdateRow(i, Reject(row))
           /\ UNCHANGED everApproved
        \/ /\ form[r].op = "archive" /\ Accepts(row, "archive")
           /\ UpdateRow(i, Archive(row))
           /\ UNCHANGED everApproved
     /\ EndReview(r)
     /\ UNCHANGED <<fileVars, providerVars, workerVars>>

\* The file is replaced if it still has the reviewed bytes; this commits
\* before the row is stored.
ReplaceNote(r) ==
  LET i == form[r].item
  IN /\ rpc[r] = "write"
     /\ note[i] = form[r].rev
     /\ \E rev \in Revisions :
          /\ note' = [note EXCEPT ![i] = rev]
          /\ form' = [form EXCEPT ![r].note = rev]
     /\ rpc' = [rpc EXCEPT ![r] = "commit"]
     /\ UNCHANGED <<rows, providerVars, workerVars, everApproved>>

CommitNote(r) ==
  /\ rpc[r] = "commit"
  /\ MayWrite
  /\ UpdateRow(form[r].item, Upserted(rows[form[r].item], form[r].note))
  /\ EndReview(r)
  /\ UNCHANGED <<fileVars, providerVars, workerVars, everApproved>>

\* A refused transaction, a lost authority or a crash: nothing is written.
AbortReview(r) ==
  /\ rpc[r] # "idle"
  /\ EndReview(r)
  /\ UNCHANGED <<fileVars, rows, providerVars, workerVars, everApproved>>

RestoreItem(i) ==
  /\ MayWrite
  /\ Accepts(rows[i], "restore")
  /\ UpdateRow(i, Restore(rows[i]))
  /\ UNCHANGED <<fileVars, providerVars, workerVars, reviewVars>>

-----------------------------------------------------------------------------
(* Specification                                                           *)

Publication(w) ==
  \/ ReadNote(w) \/ LostClaim(w) \/ EnterProvider(w) \/ ReadFails(w)
  \/ LookedUp(w) \/ WriteCreated(w) \/ ShareWritten(w) \/ Announce(w)
  \/ GiveUp(w) \/ RecordGoogle(w) \/ RecordDiscord(w) \/ Publish(w)
  \/ RecordFailure(w)

Cycle(w) ==
  \/ BeginCycle(w) \/ ScanArchive(w) \/ (\E i \in Items : ScanUpsert(w, i))
  \/ ScanDone(w) \/ Refused(w) \/ (\E i \in Items : SelectBlocked(w, i))
  \/ ResumeBlocked(w) \/ HealthChecked(w) \/ (\E i \in Items : ClaimNext(w, i))
  \/ EndCycle(w) \/ (\E i \in Items : BeginExact(w, i)) \/ ClaimExact(w)
  \/ NothingExact(w)

Review(r) ==
  \/ (\E i \in Items : BeginReview(r, i)) \/ RefreshRow(r) \/ Decide(r)
  \/ ReplaceNote(r) \/ CommitNote(r) \/ AbortReview(r)

Next ==
  \/ \E w \in Workers : Publication(w) \/ Cycle(w) \/ Crash(w) \/ Restart(w)
  \/ \E r \in Reviewers : Review(r)
  \/ \E q \in wire : Apply(q) \/ Refuse(q)
  \/ \E i \in Items : EditNote(i) \/ RetryDue(i) \/ LeaseExpires(i) \/ RestoreItem(i)

Spec == Init /\ [][Next]_vars

\* A running process takes its next step: the transport times every request
\* out, and nothing else in a publication waits for another party.
FairSpec == Spec /\ \A w \in Workers : WF_vars(Publication(w))
=============================================================================
