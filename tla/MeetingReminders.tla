-------------------------- MODULE MeetingReminders --------------------------
(***************************************************************************)
(* Reminders of the meeting publication: what the operator is told about   *)
(* rows that wait for a person and about providers that are failing.       *)
(*                                                                         *)
(* The worker checks the providers, tells their incidents and recoveries,  *)
(* resumes what an authentication failure blocked, tells the rows that are *)
(* due and acknowledges them, and publishes.  A notification and a         *)
(* preflight take time; review requests and scans write rows meanwhile,    *)
(* and the process may end between any two steps.  One process holds the   *)
(* owner's lease and its workerLock admits one cycle, so that provider     *)
(* health has a single writer.                                             *)
(*                                                                         *)
(* An attempt to publish is one step here: while a row is being published  *)
(* the store refuses every other write (module MeetingPublication).        *)
(***************************************************************************)
EXTENDS PublicationRows, Sequences

CONSTANTS
  Items,        \* meetings
  Providers,    \* the providers, in the order in which they are checked
  Kinds,        \* failures of a provider's health; "auth" those of the account
  MaxAttempts,  \* bound of the model: no row is claimed more often
  MaxEdits,     \* bound of the model: writes by scans and review requests
  MaxCrashes    \* bound of the model: how often the process ends

\* The service checks a fixed list, each provider once, and classifies every
\* failure of the account apart.
ASSUME ReminderAssumption ==
  /\ Providers \in Seq({"google", "discord"}) /\ Providers # <<>>
  /\ \A m, n \in DOMAIN Providers : Providers[m] = Providers[n] => m = n
  /\ "auth" \in Kinds /\ Kinds \subseteq {"auth", "down"}
  /\ MaxAttempts \in Nat /\ MaxEdits \in Nat /\ MaxCrashes \in Nat

VARIABLES
  rows,     \* the table publication_items
  stage,    \* its column failure_stage
  mark,     \* its column last_notified_at: NULL, recent, or due again
  health,   \* the table provider_health
  pc,       \* where the worker is
  why,      \* what it checks the providers for
  at,       \* position of the provider being checked
  previous, \* the health rows its check started from
  ready,    \* no provider has failed in this check
  snap,     \* the rows it has listed
  todo,     \* the items among them still to be resumed, or to be told
  written,  \* items written since they were listed: updated_at differs
  told,     \* history: items whose current need the operator was told
  changed,  \* history: items whose need has changed since they were listed
  heard,    \* history: what the operator was last told of a provider
  edits, crashes

tableVars == <<rows, stage, mark, told>>
checkVars == <<why, at, previous, ready>>
listVars  == <<snap, todo, written, changed>>
counters  == <<edits, crashes>>
vars == <<tableVars, health, heard, pc, checkVars, listVars, counters>>

ProviderSet == {Providers[n] : n \in DOMAIN Providers}

\* A provider that was never checked has no row.
NoHealth == [failure |-> "unknown", fresh |-> FALSE, notified |-> "none",
             pending |-> FALSE]

Failing(h) == h.failure \in Kinds

NoRows == [i \in Items |-> NoRow]

Init ==
  /\ rows = NoRows
  /\ stage = [i \in Items |-> "none"]
  /\ mark = [i \in Items |-> "none"]
  /\ health = [p \in ProviderSet |-> NoHealth]
  /\ pc = "idle" /\ why = "cycle" /\ at = 1 /\ ready = TRUE
  /\ previous = health
  /\ snap = NoRows /\ todo = {} /\ written = {}
  /\ told = {} /\ changed = {}
  /\ heard = [p \in ProviderSet |-> "nothing"]
  /\ edits = 0 /\ crashes = 0

-----------------------------------------------------------------------------
(* Writing a row                                                           *)

Frozen == \E i \in Items : rows[i].status = "publishing" \/ rows[i].failure = "uncertain"

\* The guard of every transaction that is not a claimant's.
MayWrite == ~Frozen

\* dueNotifications: a row some person has to look at.
NeedsAttention(r) ==
  r.status \in {"pending_review", "blocked"} \/ (r.status = "approved" /\ r.failure # "none")

\* What a person has to be told of, once.
Need(r, s) == IF NeedsAttention(r) THEN <<r.status, r.source, r.failure, s>> ELSE <<>>

\* The worker reminds of the rows it has listed.
Reminding == {"review", "sendReview", "ackReview", "error", "sendError", "ackError"}

\* Every write sets updated_at, which matters while the worker reminds.
Write(i, r, s, m) ==
  LET other == Need(r, s) # Need(rows[i], stage[i])
  IN /\ rows' = [rows EXCEPT ![i] = r]
     /\ stage' = [stage EXCEPT ![i] = s]
     /\ mark' = [mark EXCEPT ![i] = m]
     /\ told' = IF other THEN told \ {i} ELSE told
     /\ IF pc \in Reminding
        THEN /\ written' = written \cup {i}
             /\ changed' = IF other THEN changed \cup {i} ELSE changed
        ELSE UNCHANGED <<written, changed>>

Edit(i, r, s, m) ==
  /\ MayWrite
  /\ edits < MaxEdits
  /\ edits' = edits + 1
  /\ Write(i, r, s, m)
  /\ UNCHANGED <<health, heard, pc, checkVars, snap, todo, crashes>>

-----------------------------------------------------------------------------
(* Scans and review requests: one transaction each                         *)

\* A scan, a review request or an edit stores another revision.
SourceChanged(i) ==
  \E rev \in Revisions \ {rows[i].source} : Edit(i, Upserted(rows[i], rev), "none", "none")

ApproveItem(i) ==
  /\ Accepts(rows[i], "approve")
  /\ Edit(i, Approve(rows[i], rows[i].source), "none", "none")

RejectItem(i) ==
  /\ Accepts(rows[i], "reject")
  /\ Edit(i, Reject(rows[i]), stage[i], mark[i])

\* By a reviewer or because a scan excludes the note; the acknowledgement stays.
ArchiveItem(i) ==
  /\ ArchivedByScan(rows[i]) # rows[i]
  /\ Edit(i, Archive(rows[i]), "none", mark[i])

RestoreItem(i) ==
  /\ Accepts(rows[i], "restore")
  /\ Edit(i, Restore(rows[i]), stage[i], "none")

-----------------------------------------------------------------------------
(* Time                                                                    *)

Ages(i) ==
  /\ mark[i] = "recent"
  /\ mark' = [mark EXCEPT ![i] = "old"]
  /\ UNCHANGED <<rows, stage, told, health, heard, pc, checkVars, listVars, counters>>

RetryDue(i) ==
  /\ rows[i].waiting
  /\ rows' = [rows EXCEPT ![i].waiting = FALSE]
  /\ UNCHANGED <<stage, mark, told, health, heard, pc, checkVars, listVars, counters>>

\* A minute after a check, or an interval after an alert.
HealthAges(p) ==
  /\ \/ health[p].fresh /\ health' = [health EXCEPT ![p].fresh = FALSE]
     \/ health[p].notified = "recent" /\ health' = [health EXCEPT ![p].notified = "old"]
  /\ UNCHANGED <<tableVars, heard, pc, checkVars, listVars, counters>>

-----------------------------------------------------------------------------
(* The worker: control                                                     *)

Provider == Providers[at]

Goto(l) == pc' = l

\* The rows it has listed are used up.
Unlist == snap' = NoRows /\ todo' = {} /\ written' = {} /\ changed' = {}

Rests(l) ==
  /\ Goto(l)
  /\ why' = "cycle" /\ at' = 1 /\ ready' = TRUE
  /\ previous' = [p \in ProviderSet |-> NoHealth]
  /\ Unlist

\* checkProviderHealth reads the health rows first.
StartCheck(reason, rowsOfHealth) ==
  /\ Goto("check")
  /\ why' = reason /\ at' = 1 /\ ready' = TRUE
  /\ previous' = rowsOfHealth
  /\ Unlist

\* The next provider, or what follows the check.
NextProvider ==
  IF at < Len(Providers)
  THEN /\ Goto("check") /\ at' = at + 1
       /\ Unlist
       /\ UNCHANGED <<why, ready, previous>>
  ELSE IF why = "reconnect" THEN Rests("idle")
  ELSE /\ Goto("due") /\ at' = 1
       /\ previous' = [p \in ProviderSet |-> NoHealth]
       /\ Unlist
       /\ UNCHANGED <<why, ready>>

BeginCycle ==
  /\ pc = "idle"
  /\ MayWrite
  /\ StartCheck("cycle", health)
  /\ UNCHANGED <<tableVars, health, heard, counters>>

\* The Google account was reconnected: everything is checked at once.  With a
\* frozen table the first write is refused, and nothing happens.
Reconnected ==
  /\ pc = "idle"
  /\ MayWrite
  /\ StartCheck("reconnect", health)
  /\ UNCHANGED <<tableVars, health, heard, counters>>

Crash ==
  /\ pc # "down"
  /\ crashes < MaxCrashes
  /\ crashes' = crashes + 1
  /\ Rests("down")
  /\ UNCHANGED <<tableVars, health, heard, edits>>

Restart ==
  /\ pc = "down"
  /\ Goto("idle")
  /\ UNCHANGED <<tableVars, health, heard, checkVars, listVars, counters>>

-----------------------------------------------------------------------------
(* The worker: provider health                                             *)

\* Slip: a recovery that could not be told is forgotten by the next check.
CheckedForgets(prior, failure) ==
  [failure  |-> failure,
   fresh    |-> TRUE,
   notified |-> IF prior.failure = failure THEN prior.notified ELSE "none",
   pending  |-> failure = "none" /\ Failing(prior)]

\* The health row after a preflight: another failure is told again, and a
\* recovery is owed until it was told.
Checked(prior, failure) ==
  [failure  |-> failure,
   fresh    |-> TRUE,
   notified |-> IF prior.failure = failure THEN prior.notified ELSE "none",
   pending  |-> failure = "none" /\ (Failing(prior) \/ prior.pending)]

\* The blocked rows are listed when a healthy provider may resume them.
AfterResult(h) ==
  /\ ready' = (ready /\ ~Failing(h))
  /\ IF Failing(h) \/ why = "reconnect"
     THEN Goto("alert") /\ UNCHANGED listVars
     ELSE /\ Goto("resume")
          /\ snap' = [i \in Items |-> IF rows[i].status = "blocked" THEN rows[i] ELSE NoRow]
          /\ todo' = {i \in Items : /\ rows[i].status = "blocked"
                                    /\ stage[i] = Provider
                                    /\ rows[i].approved # NoRev}
          /\ UNCHANGED <<written, changed>>
  /\ previous' = [previous EXCEPT ![Provider] = NoHealth]
  /\ UNCHANGED <<tableVars, heard, why, at, counters>>

CheckedRecently ==
  /\ pc = "check"
  /\ why # "reconnect" /\ previous[Provider].fresh
  /\ AfterResult(previous[Provider])
  /\ UNCHANGED health

Preflight ==
  /\ pc = "check"
  /\ why = "reconnect" \/ ~previous[Provider].fresh
  /\ MayWrite
  /\ \E failure \in Kinds \cup {"none"} :
       LET h == Checked(previous[Provider], failure)
       IN health' = [health EXCEPT ![Provider] = h] /\ AfterResult(h)

\* One listed row: its note cannot be read; or was changed and is stored; or the
\* row goes back to the queue if it is still the one listed and the provider was
\* found healthy within the last minute.
Resume(i) ==
  /\ pc = "resume" /\ i \in todo
  /\ \/ UNCHANGED <<tableVars, written, changed>>
     \/ /\ MayWrite
        /\ \E rev \in Revisions \ {snap[i].approved} :
             IF rev = rows[i].source
             THEN UNCHANGED <<tableVars, written, changed>>
             ELSE Write(i, Upserted(rows[i], rev), "none", "none")
     \/ /\ MayWrite
        /\ Resumable(rows[i], snap[i])
        /\ stage[i] = Provider
        /\ ~Failing(health[Provider]) /\ health[Provider].fresh
        /\ Write(i, ResumeAuth(rows[i]), "none", "none")
  /\ todo' = todo \ {i}
  /\ UNCHANGED <<health, heard, pc, checkVars, snap, counters>>

ResumeDone ==
  /\ pc = "resume" /\ todo = {}
  /\ Goto("alert")
  /\ Unlist
  /\ UNCHANGED <<tableVars, health, heard, checkVars, counters>>

AlertDue(h) ==
  /\ Failing(h) \/ h.pending
  /\ h.notified \in {"none", "old"}

Alert ==
  /\ pc = "alert"
  /\ IF AlertDue(health[Provider])
     THEN Goto("alerting") /\ UNCHANGED <<checkVars, listVars>>
     ELSE NextProvider
  /\ UNCHANGED <<tableVars, health, heard, counters>>

Hears(p) ==
  heard' = [heard EXCEPT ![p] = IF Failing(health[p]) THEN health[p].failure ELSE "recovered"]

AlertDelivered(p) ==
  /\ pc = "alerting" /\ p = Provider
  /\ Hears(p)
  /\ Goto("alerted")
  /\ UNCHANGED <<tableVars, health, checkVars, listVars, counters>>

\* A notifier that failed or timed out may still have shown it.
AlertFails ==
  /\ pc = "alerting"
  /\ UNCHANGED heard \/ Hears(Provider)
  /\ NextProvider
  /\ UNCHANGED <<tableVars, health, counters>>

RecordAlert ==
  /\ pc = "alerted"
  /\ MayWrite
  /\ health' = [health EXCEPT ![Provider].notified = "recent", ![Provider].pending = FALSE]
  /\ NextProvider
  /\ UNCHANGED <<tableVars, heard, counters>>

\* recordAuthFailure: what a publication has met is known at once.
RecordAuthFailure(p) ==
  LET prior == health[p]
      now == [failure |-> "auth", fresh |-> TRUE, pending |-> FALSE,
              notified |-> IF prior.failure = "auth" THEN prior.notified ELSE "none"]
  IN /\ pc = "refused" /\ p = Provider
     /\ MayWrite
     /\ health' = [health EXCEPT ![p] = now]
     /\ StartCheck("cycle", [health EXCEPT ![p] = now])
     /\ UNCHANGED <<tableVars, heard, counters>>

-----------------------------------------------------------------------------
(* The worker: reminders                                                   *)

\* Slip: any failing provider silences all reminders.
SilencedByAny(i) == \E p \in ProviderSet : Failing(health[p])

\* The incident of its provider is told instead.
Silenced(i) == \E p \in ProviderSet : stage[i] = p /\ Failing(health[p])

\* notifyDue: due rows and health are read.
ReadDue ==
  /\ pc = "due"
  /\ snap' = rows
  /\ todo' = {i \in Items : /\ NeedsAttention(rows[i]) /\ mark[i] # "recent"
                            /\ ~Silenced(i)}
  /\ written' = {} /\ changed' = {}
  /\ Goto("review")
  /\ UNCHANGED <<tableVars, health, heard, checkVars, counters>>

Audience == {"review", "error"}

\* The items of the notification that is due now.
Counted(kind) == {i \in todo : (snap[i].status = "pending_review") = (kind = "review")}

Sending(kind) == IF kind = "review" THEN "sendReview" ELSE "sendError"
Acking(kind) == IF kind = "review" THEN "ackReview" ELSE "ackError"

\* Errors follow reviews; then the worker publishes if its check was good.
AfterNotice(kind) ==
  IF kind = "review"
  THEN Goto("error") /\ UNCHANGED <<checkVars, listVars>>
  ELSE IF ready
  THEN /\ Goto("claim") /\ Unlist
       /\ UNCHANGED checkVars
  ELSE Rests("idle")

Notice(kind) ==
  /\ pc = kind
  /\ IF Counted(kind) = {}
     THEN AfterNotice(kind)
     ELSE Goto(Sending(kind)) /\ UNCHANGED <<checkVars, listVars>>
  /\ UNCHANGED <<tableVars, health, heard, counters>>

\* What was counted and is still the same need has now been told.
Told(kind) == told' = told \cup (Counted(kind) \ changed)

NoticeDelivered(kind) ==
  /\ pc = Sending(kind)
  /\ Told(kind)
  /\ Goto(Acking(kind))
  /\ UNCHANGED <<rows, stage, mark, health, heard, checkVars, listVars, counters>>

NoticeFails(kind) ==
  /\ pc = Sending(kind)
  /\ UNCHANGED told \/ Told(kind)
  /\ AfterNotice(kind)
  /\ UNCHANGED <<rows, stage, mark, health, heard, counters>>

\* Slip: updated_at is not compared.
StillSameColumns(i) == [rows[i] EXCEPT !.waiting = snap[i].waiting] = snap[i]

\* markNotified compares every column of the row that was counted.  That a
\* retry has become due meanwhile changes none of them.
StillCounted(i) ==
  /\ [rows[i] EXCEPT !.waiting = snap[i].waiting] = snap[i]
  /\ i \notin written

MarkNotified(kind) ==
  /\ pc = Acking(kind)
  /\ MayWrite
  /\ mark' = [i \in Items |-> IF i \in Counted(kind) /\ StillCounted(i) THEN "recent" ELSE mark[i]]
  /\ AfterNotice(kind)
  /\ UNCHANGED <<rows, stage, told, health, heard, counters>>

-----------------------------------------------------------------------------
(* The worker: publication                                                 *)

\* markFailure keeps the acknowledgement of the same failure.
MarkAfter(i, s, code) ==
  IF stage[i] = s /\ rows[i].failure = code THEN mark[i] ELSE "none"

FailedAs(i, s, code) ==
  Write(i, MarkFailure(Claim(rows[i]), code), s, MarkAfter(i, s, code))

\* Nobody learns what became of the attempt.
Lost(i) ==
  /\ \/ Write(i, Claim(rows[i]), stage[i], mark[i])
     \/ \E p \in ProviderSet : FailedAs(i, p, "uncertain")
  /\ Rests("down")

Attemptable(i) ==
  /\ MayWrite
  /\ Claimable(rows[i])
  /\ rows[i].attempts < MaxAttempts

\* One claim of the worker.
Attempt(i) ==
  /\ pc = "claim"
  /\ Attemptable(i)
  /\ \/ /\ Write(i, MarkPublished(Claim(rows[i])), "none", mark[i])
        /\ UNCHANGED <<pc, checkVars, snap, todo>>
     \/ /\ FailedAs(i, "source", "source")
        /\ UNCHANGED <<pc, checkVars, snap, todo>> \/ StartCheck("cycle", health)
     \/ \E n \in DOMAIN Providers, code \in ProviderFailure :
          /\ FailedAs(i, Providers[n], code)
          /\ IF code = "auth"
             THEN Goto("refused") /\ at' = n /\ UNCHANGED <<why, previous, ready, snap, todo>>
             ELSE StartCheck("cycle", health)
     \/ Lost(i)
  /\ UNCHANGED <<health, heard, counters>>

\* publishOne: the same without a word about the provider's health.
AttemptExact(i) ==
  /\ pc = "idle"
  /\ Attemptable(i)
  /\ \/ /\ Write(i, MarkPublished(Claim(rows[i])), "none", mark[i])
        /\ UNCHANGED <<pc, checkVars, snap, todo>>
     \/ /\ \/ FailedAs(i, "source", "source")
           \/ \E p \in ProviderSet, code \in ProviderFailure : FailedAs(i, p, code)
        /\ UNCHANGED <<pc, checkVars, snap, todo>>
     \/ Lost(i)
  /\ UNCHANGED <<health, heard, counters>>

EndCycle ==
  /\ pc = "claim"
  /\ Rests("idle")
  /\ UNCHANGED <<tableVars, health, heard, counters>>

-----------------------------------------------------------------------------
(* Specification                                                           *)

Work ==
  \/ Restart \/ CheckedRecently \/ Preflight \/ (\E i \in Items : Resume(i)) \/ ResumeDone
  \/ Alert \/ (\E p \in ProviderSet : AlertDelivered(p) \/ RecordAuthFailure(p))
  \/ AlertFails \/ RecordAlert \/ ReadDue
  \/ \E kind \in Audience : Notice(kind) \/ NoticeDelivered(kind) \/ NoticeFails(kind)
                            \/ MarkNotified(kind)
  \/ (\E i \in Items : Attempt(i)) \/ EndCycle

Next ==
  \/ BeginCycle \/ Reconnected \/ Crash \/ Work
  \/ \E p \in ProviderSet : HealthAges(p)
  \/ \E i \in Items : SourceChanged(i) \/ ApproveItem(i) \/ RejectItem(i)
                      \/ ArchiveItem(i) \/ RestoreItem(i) \/ Ages(i) \/ RetryDue(i)
                      \/ AttemptExact(i)

Spec == Init /\ [][Next]_vars

\* The worker goes on, the schedule starts cycle after cycle, and a notifier
\* that is tried again and again with one sort of news works now and then.
FairSpec ==
  /\ Spec
  /\ WF_vars(Work)
  /\ SF_vars(BeginCycle)
  /\ \A p \in ProviderSet : SF_vars(Failing(health[p]) /\ AlertDelivered(p))
  /\ \A kind \in Audience : SF_vars(NoticeDelivered(kind))

-----------------------------------------------------------------------------
(* What the reminders promise                                              *)

\* A row is acknowledged only if the operator was told of the need it has now,
\* whatever reviewers, scans and attempts did while the notification was shown.
AcknowledgedWasTold ==
  \A i \in Items : NeedsAttention(rows[i]) /\ mark[i] # "none" => i \in told

\* What the health table says was told, was told, and a failure the operator
\* has heard of is either still there or its recovery is owed.
IncidentHeard ==
  \A p \in ProviderSet :
    /\ Failing(health[p]) /\ health[p].notified # "none" => heard[p] = health[p].failure
    /\ ~Failing(health[p]) /\ heard[p] \in Kinds => health[p].pending

\* Every need is told some day, unless it ends, the incident of its provider is
\* told instead, or an uncertain delivery has stopped the whole table.
NeedIsTold ==
  \A i \in Items :
    NeedsAttention(rows[i]) ~>
      \/ ~NeedsAttention(rows[i]) \/ i \in told \/ Frozen
      \/ \E p \in ProviderSet : /\ stage[i] = p /\ Failing(health[p])
                                /\ heard[p] = health[p].failure
=============================================================================
