# Harnessy: a TLA+ verification of its coordination code

This directory holds TLA+ models of the parts of Harnessy in which the hard
mistakes are those of order and concurrency: the publication of reviewed meeting
notes and the reminders about it, the execution engine that pauses sandboxed code
for a human, the browser approval that answers those pauses, the agent loop and the session around it,
the orchestrator of agent processes, and the weekly community briefing; TLC
configurations that check the models on small instances; and proofs, checked by TLAPS,
of what matters most of them for every instance.

Paths below are relative to the repository root; `PROJECT.json` maps every
definition to its lines.

1. [The system](#1-the-system): inventory, state, interactions, hazards
2. [The modules](#2-the-modules) and how they correspond to the code
3. [The runs](#3-the-runs): what is checked, bounds, fairness
4. [The proofs](#4-the-proofs)
5. [What the code does not keep](#5-what-the-code-does-not-keep)
6. [Abstractions](#6-abstractions) and what is not modelled
7. [The plan](#7-the-plan)

## 1. The system

### Meeting publication

`packages/harnessy-core/src/jarvis/meeting-publication/`, with its provider plugins
and transport in `packages/harnessy-sdk/src/`.

A meeting note is a Markdown file. A worker scans the files into one SQLite table; a
reviewer approves exactly one content hash; a worker claims the approved row, writes
a Google document, shares it, announces it on Discord, and marks the row published.

| Component | State it keeps | Operations |
|---|---|---|
| Store (`store.ts`, `models.ts`) | table `publication_items`: status, source and approved hash, provider ids, document checkpoint, failure, retry time, lease, attempts; table `provider_health` | `upsert`, `archivePaths`, `approve`, `reject`, `archive`, `restore`, `claim`, `claimExact`, `recordGoogle`, `recordDiscord`, `markPublished`, `markFailure`, `resumeAuthBlocked`, reminders |
| Service (`service.ts`) | a worker lock per process; local variables of a cycle | `worker`, `publishOne`, `scan`, `checkProviderHealth`, `notifyDue`, `recordAuthFailure`, the review operations |
| Notifier (`notifier.ts`) | one child process per notification | `notify`, which answers whether it was shown |
| Note files (`notes.ts`) | the files, a lock file while one is replaced | discover, read, replace if unchanged |
| Providers (`google-meeting-publication.ts`, `discord-meeting-publication.ts`, `transport.ts`) | documents, permissions, messages, outside the program | find, create, write, share; post, edit |
| Owner (`operational-runtime.ts`, `review.ts`, `authority.ts`) | a lease file, a session, an HTTP server, a schedule | start, renew, drain, stop; serve reviews; dispatch |

Interactions: review requests, the scheduled worker and every other process share the
files, the table and the providers. Each store call is one SQLite transaction; between
two calls of the service anything may happen. A provider request is awaited with a
timeout, after which it may still be applied.

Correct means: nothing is published that a reviewer did not approve in that very
revision; one publication is open at a time; a document and a message are created
once; a row marked published tells the truth; when the outcome of a write is not known
everything stops and the evidence stays; every claim ends; what waits for a person is told,
and only what was told is acknowledged.

### Execution engine and browser approval

`executor/packages/core/execution/src/engine.ts` and
`executor/packages/hosts/mcp/src/`.

| Component | State it keeps | Operations |
|---|---|---|
| Engine (`engine.ts`) | per run: a fiber and a queue of pauses; maps of paused executions and resumes in flight; two bounded first-in first-out caches of what has settled | `executeWithPause`, `resume`, `isExecutionSettled`, the watcher of a fiber |
| Approval store (`browser-approval-store.ts`) | recorded decisions; one Deferred per waiting execution | `waitForResponse`, `recordResponse` |
| Session store (`in-memory-session-store.ts`) | sessions with their transport and engine | open, close, handle an approval request |
| Tool server (`tool-server.ts`) | none | the `execute` and `resume` tools |

Interactions: an `execute` call returns as soon as the code ends or opens its first
pause. Each `resume` gives one pause its response and waits again. Clients lose replies
and repeat calls; concurrent tool calls of one run open several pauses while one reply
can carry only one. In browser mode the tool waits for a decision that a human's HTTP
request records.

Correct means: no pause is lost between the maps; a tool call gets one response;
repeated calls see one answer; "no such execution" is said only of what is over;
whoever waits is released when the code ends; the model alone never resumes; a
recorded decision is used or still there.

### Agent loop and session

`packages/agent/src/agent-loop.ts`, `agent.ts`, and
`packages/coding-agent/src/core/agent-session.ts`.

| Component | State it keeps | Operations |
|---|---|---|
| Agent (`agent.ts`) | the transcript, a steering and a follow-up queue, the active run with its signal | `prompt`, `continue`, `steer`, `followUp`, `abort` |
| Loop (`agent-loop.ts`) | its own copy of the messages, pending messages, the tool calls of a reply | turns: inject, ask, answer the calls, poll the queues |
| Session (`agent-session.ts`) | retry counter and abort controller, the callers that wait | `prompt`, retry, `abort`, `clearQueue` |

Interactions: every event of the loop is awaited, so messages are queued and runs aborted
between any two of its steps. Tools of one reply run one by one or together. Whoever
started a run decides at its end to retry, to go on with queued messages, or to return.
Nothing locks the session while a prompt is prepared or a retry sleeps.

Correct means: a message that was accepted is delivered once and not left behind; the
model is asked with what the transcript shows; calls are answered in order and completely;
an aborted run ends.

### Orchestrator

`packages/orchestrator/src/`: one server process that keeps agent processes for its
clients.

| Component | State it keeps | Operations |
|---|---|---|
| Supervisor (`supervisor.ts`, `storage.ts`) | the live instances with their record and resources; `instances.json` | `spawnInstance`, `stopInstance`, `handleRpc`, `openRpcStream`, the handler of an unexpected exit, `recoverAfterRestart`, `shutdown` |
| Child process (`rpc-process.ts`) | pending requests, exit listeners, whether it has exited | `send`, `dispose` |
| Presence at Radius (`radius.ts`) | the machine (`machine.json`), one heartbeat per instance | register, disconnect, heartbeat, register again after three answers "not found" |
| Server (`serve.ts`, `handler.ts`) | the shutdown under way | start, IPC requests, shutdown on a signal or an error |

Interactions: an instance is an entry of a map, a record in a file, a child process and a
registration at a service, and every operation touches them one after the other over
awaits. Nothing orders two operations on one instance.

Correct means: what is listed as live can serve; nobody waits for a process that has gone;
what an instance acquired is given back; the records tell the truth after a restart; a
registration in use is kept alive; a shutdown ends.

### Community briefing

`packages/harnessy-sdk/src/community-briefing/` and, from
`packages/capability-harnessy-v1-full/`, `community_briefing/service.py`.

| Component | State it keeps | Operations |
|---|---|---|
| Review service (Python) | the pair `briefing.md` and `discord.txt`; `revision-status.json`; table `community_briefings` | generate, save, approve, reject, revise by AI, regenerate |
| Publisher (`queue.ts`, `worker.ts`, `publication.ts`) | the same table; a claim with a lease | claim, check, publish, record, fail |
| Authority (`grant-host.ts`, `operational-runtime.ts`) | a singleton lease in a ledger of its own | authorize one approved revision, revoke, complete |

Interactions: two programs in two languages share a table, two files and a marker. The
service keeps SQLite's write lock while it replaces the pair; the publisher reads the
files without it. A revision by AI reads the briefing, waits for minutes, and commits only
if nothing has changed.

Correct means: what reaches the providers is the approved pair, once; a pair cut short is
never approved or published; a claimed briefing is no longer rewritten.

### Other components

| Component | State and operations | Hard behaviour | Here |
|---|---|---|---|
| Agent harness (`packages/agent/src/harness`) | a second owner of the agent loop, with phases and pending writes | that of the session, with phases | not modelled |
| Work runs, life orchestrator, ratchet (`packages/harnessy-core/src`) | run directories and ledgers; start, recover, promote | recovery of a run half written, gates on promotion | planned |
| Local host portal and wiki (`packages/harnessy-local-host`) | jobs and services of the host | a restart during a job | planned |
| Executor platform (`executor/packages/core/sdk`) | catalogs, connections, OAuth tokens | two refreshes of one token | planned |
| Provider layer (`packages/ai`) | none shared | conversion of message formats | left out |
| Terminal UI, compaction, session files (`packages/coding-agent`, `packages/tui`) | a screen and an editor; a tree of entries | compaction during a run | left out |

### Hazards

`PROJECT.json` lists 40, each at its line, with the property that covers it or the
reason why none does. The ones that shaped the models:

* A request is applied after its sender gave up, died, or was restarted.
* The worker dies between the provider's reply and the checkpoint that records it.
* A note is read, the row stored and the decision taken in three steps; scans, editors
  and other reviewers come between.
* A lease expires while a provider is being called.
* A resume is repeated while the first is in flight, has just settled, or has rolled
  out of the cache.
* The code ends by itself with one pause being resumed and others open.
* A caller goes away after its response was delivered.
* Several calls wait for one human decision and time out one by one.
* Messages are queued during the last events of a run, or while it fails or is aborted.
* Two prompts are prepared at once; one finds the other's run active.
* An abort comes between the preparation of parallel tool calls and their execution.
* An instance is stopped, or its child exits, while its registration is awaited.
* A registration is renewed while its instance ends, or by two heartbeats at once.
* Recovery after a restart awaits a service while clients already spawn instances.
* A row changes while the operator is being reminded of it, or the process dies before the
  reminder is acknowledged.
* A provider recovers while the notifier fails, and nobody is told.
* An editor writes a note between its last comparison and the rename that replaces it.
* A revision by AI commits after the briefing it started from was claimed.
* A service dies between the two files of a pair, or between the files and the row.

## 2. The modules

```
PublicationRows          one row, and each store operation on it
  MeetingPublication     files, rows, providers, workers, review requests
    MeetingProperties    types, invariants, action properties, liveness
      ApprovalGate       (instance) what reviewers are promised
      MeetingInvariant   the inductive invariant
        RowProofs, MeetingProofs
  MeetingReminders       rows, provider health, incidents, acknowledgements
    ReminderProofs
ExecutionEngine          runs, pauses, callers, caches
  EngineProperties       types, invariants, liveness
    ResumeOnce           (instance) the ledger of identifiers
  BrowserApproval        the engine with the approval store and its requests
    BrowserProperties
      EngineProofs       of both
AgentLoop                one agent: transcript, queues, a run with its tool calls
  AgentSession           callers of prompt, retries, abort around it
    AgentProperties
      AgentProofs
Orchestrator             instances, children, records, registrations, the server process
  OrchestratorProperties
    OrchestratorProofs
NoteReplacement          lock, temporary file and rename of one note
  AtomicReplace          (instance) one comparison and one write
  NoteProofs
CommunityBriefing        the table, the files, the marker, reviewers and publishers
  CommunityProperties
    CommunityProofs
MC...                    one for each of the eight systems, for TLC
```

A definition whose comment begins with "Slip" is a plausible mistake in the one that
follows it. It is not used by any specification; each property is broken by one of them.

### PublicationRows

A record `Row` has the columns the code decides by. A revision stands for the hash of a
note's bytes, a lease is live or expired, a retry time lies ahead or not, a provider id
is recorded or not, and failures are the classes the code distinguishes. `Upserted`,
`Approve`, `Claim`, `RecordDoc`, `MarkFailure`, ... are the `UPDATE` statements of
`store.ts`; `ClaimValid`, `Claimable` and `Resumable` are the conditions of
`requireClaim`, `claim` and `resumeAuthBlocked`.

### MeetingPublication

| Variables | In the code |
|---|---|
| `note` | the revision of each note on disk |
| `rows` | the table |
| `drive`, `channel`, `wire` | documents and messages at the providers, requests under way |
| `pc`, `seen`, `todo`, `job`, `claim`, `outcome` | the position and local variables of each worker process |
| `rpc`, `form` | each review request |
| `everApproved` | history: what reviewers have approved |

One action is one transaction of the store or one stretch of the service between two
awaits:

* `BeginCycle` ... `ScanDone` are `scan`: discovery takes a snapshot, then one
  transaction per file, with an editor or reviewer free to act between any two.
* `SelectBlocked`, `ResumeBlocked`, `HealthChecked` are `checkProviderHealth`; the row is
  compared with the snapshot it was selected from.
* `ClaimNext`, `BeginExact`, `ClaimExact`, `NothingExact` are the two ways to claim.
* `ReadNote` ... `RecordFailure` are `publishClaimed` with both plugins: `LookedUp`,
  `WriteCreated`, `ShareWritten`, `Announce` send a request; `Apply` and `Refuse` are the
  provider's; `GiveUp` is the transport's timeout. `Apply` with no one awaiting is a
  request that takes effect late.
* `BeginReview`, `RefreshRow`, `Decide` are approve, reject and archive; `ReplaceNote`,
  `CommitNote` the edit of a note, whose file is replaced before its row is stored.
* `Crash` is the end of a process at any step: exit, lost authority or a failed write.
  `Refused` and `LostClaim` are the transactions that throw.
* `EditNote`, `RetryDue`, `LeaseExpires` are the environment.

`MayWrite` is the guard almost every transaction starts with: no uncertain delivery in
the table and no row being published. `MayRecord` is the one for the claimant's own
outcome.

`ApprovalGate` says the same without scans, claims, leases, processes or requests: a
revision is granted or withdrawn while nothing is open; one publication is open at a
time; its document takes the granted revision and the message follows the document; a
publication whose outcome is lost is never closed.

### MeetingReminders

| Variables | In the code |
|---|---|
| `rows`, `stage`, `mark` | `publication_items`, with `failure_stage` and `last_notified_at` (NULL, recent, or an interval ago) |
| `health` | `provider_health`: failure, whether it was checked within a minute, `notified_at`, `recovery_pending` |
| `pc`, `why`, `at`, `previous`, `ready` | where the worker is in `checkProviderHealth`, for what, and its locals |
| `snap`, `todo`, `written` | the rows it has listed, what is left of them, and whose `updated_at` has changed since |
| `told`, `changed`, `heard` | history: which need of a row, which news of a provider the operator was told |

`CheckedRecently`, `Preflight`, `Resume`, `Alert` ... `RecordAlert` are one provider's turn in
`checkProviderHealth`; `ReadDue`, `Notice` ... `MarkNotified` are `notifyDue`; `Attempt` with
`RecordAuthFailure` is a claim of the cycle and what it says about the provider, `AttemptExact`
a dispatch, which says nothing. `SourceChanged`, `ApproveItem`, `RejectItem`, `ArchiveItem` and
`RestoreItem` are scans and reviews between any two of these steps, `Ages`, `RetryDue` and
`HealthAges` the clock. `Crash` ends the process anywhere; a notification shown and not yet
acknowledged is then shown again.

One process publishes at a time (the owner's `active_lease`, `operational-runtime.ts:752`) and
its `workerLock` admits one cycle, reconnection or dispatch, so there is one worker here. An
attempt is one step: while a row is being published the store refuses all other writes,
which is what `MeetingPublication` is about. The row operations are those of `PublicationRows`,
shared with it.

### ExecutionEngine

| Variables | In the code |
|---|---|
| `fiber`, `owner`, `queue` | the fiber of a run, the run of a pause, `pauseQueue` |
| `paused`, `pending` | keys of `pausedExecutions` and `pendingResumes` |
| `recorded`, `outcome` | what `recordSettledOutcome` stored, oldest first, and its exits |
| `call` | what each caller waits for: a run, or the Deferred of another resume |
| `told`, `given`, `replies` | history: pauses answered with, responses given, answers |

Both caches keep the newest entries of one sequence, so `Replayable` and `Remembered` are
conditions on a position in `recorded`. `Execute`, `Elicit`, `End`, `Cleanup` are a run
and its watcher; `SeeEnd` and `SeePause` the two outcomes of the race in
`awaitCompletionOrPause`; `Resume` the synchronous lookup of `resumeExecution` (replay,
join, take, or missing); `SeeInflight` the end of a joined wait; `Interrupt` a client
that goes away, whose exit `onExit` still records.

`ResumeOnce` is the ledger behind it: an identifier is unborn, open, taken or settled, and
settles with one answer. `EngineProperties!Ledger` maps maps, queues and caches to it.

### BrowserApproval

Adds `responses` and `waiters` of the approval store, the Deferreds (`made`, `woken`), the
tool calls that wait (`tool`) and the approval requests (`human`). `CallResume`, `Wake`
and `TimeOut` are the `resume` tool in browser mode; `OpenApproval`, `Abandon` and
`Approve` are `handleApprovalRequest`, in which the check that the execution is paused
and the record of the decision are two steps. The engine's own actions are taken over;
`Resume` only happens with a decision taken from the store.

### AgentLoop

| Variables | In the code |
|---|---|
| `transcript`, `steering`, `followUps` | `_state.messages`, the two queues |
| `context`, `inbox`, `more` | `currentContext.messages`, prompts or `pendingMessages`, `hasMoreToolCalls` |
| `batch` | of the calls of a reply: how many, the mode, the next to prepare, those running, those that asked to terminate, results emitted |
| `pc`, `aborted`, `skip` | the await the run is at, its signal, `skipInitialSteeringPoll` |

`EmitPrompt`, `FirstPoll`, `Inject`, `Ask`, `Reply` and `NextTurn` are the loop; `Prepare`,
`NextSibling`, `Settle`, `Report` and `Reported` a batch of calls: a sequential one comes back to
`Prepare` after each result, a parallel one prepares all, executes, and reports in source
order, a truncated one only reports. `Throw` is `handleRunFailure`.

### AgentSession

`PromptStreaming` and `PromptIdle` are the two branches of `prompt` behind the check of
`isStreaming`; `StartRun` is the acceptance and `Agent.prompt`, which throws if a run is
active. `Return` is `finishRun` and the first half of `_handlePostAgentRun`: a retry, with the
failed reply taken off the transcript, or `AfterRun`, which goes on with queued messages.
Between the two another caller may start a run: then `continue` throws (`GoOn`). `Wake` ends
the sleep of a retry. `retrier` is the one abort controller of retries; `fate` records what
became of each message.

### Orchestrator

| Variables | In the code |
|---|---|
| `phase`, `starts`, `undone`, `snap`, `machine` | how far `serve` and `shutdown` have come; what recovery loaded; `machine.json` |
| `live`, `mem`, `res`, `bound`, `file` | `liveInstances`, `live.record`, `live.resources`, the exit listener, `instances.json` |
| `child` | the process: none, running, signalled, exited |
| `pis`, `minted` | registrations Radius holds, and how many it has given out |
| `heart`, `beat`, `ring` | `piHeartbeatStates`; a heartbeat or renewal in flight; what `reRegisterMachineAndPis` has left |
| `op`, `leaving` | the await each request is at; the exit handler's |
| `crossed`, `failed` | history: why something may be left behind |

An action is the code between two awaits. A continuation that waits for no event
(`Microtask`) is taken before anything else. `Spawn`, `SpawnAnswered`, `SpawnRegistered`,
`FailSpawn` are `spawnInstance`; `Stop`, `Disconnected`, `NotDisconnected`, `Disposed` are
`stopInstance` with `cleanupAcquiredResources`, which a failing spawn and a shutdown go
through too; `Exit`, `UnexpectedExit`, `Left` the exit of a child and its handler;
`OpenStream`, `Send`, `Answered`, `Synced` a request on a handle that outlives the instance.
`HeartLost`, `Renew`, `Renewed`, `NotRenewed` register an instance again, `MachineRenewed` and
`RenewNext` all of them. `Start`, `DisconnectOld`, `SaveRecovered`, `MachineRegistered` are
the start, with the server already listening; `Shutdown`, `StopNext`, `StopPresence`, `Leave`
its end.

### NoteReplacement and AtomicReplace

`path` leads to a file; `text` and `stamp` belong to files, so a writer that has opened one
(`opened`) keeps it when the path is given to another. `TakeLock` ... `Unlock` are the
system calls of `replaceNoteContent`, with the first and second half of the final
validation apart (`Validate`, `ReadAgain`). Every call may fail, and every writer die.
`Refuse` goes to the finally block; `CleanUp` and `Unlock` are that block. Three kinds of failure leave
a file, and `failed` records whose they were: the `fstat` that identifies a lock (notes.ts:318) or a temporary
file (360) that was just created, since the finally block only removes what was identified; a call of the finally
block itself, where a throw (415, 430, 433, 446) skips the rest and an `lstat` (418, 435) that fails leaves
the file in silence; and a death. `litter` are the writers whose temporary file stayed.
`EditInPlace` and `EditByRename` are programs that know no lock. `AtomicReplace` says what is
promised: at most one edit has compared and not yet written; "done" is told of an edit that
was made, "race" of one that was not. `MeetingPublication!ReplaceNote` is that edit in one
step, which is a sound reading as long as no other program writes between the two; such a
program is `EditNote` there.

### CommunityBriefing

| Variables | In the code |
|---|---|
| `row` | `community_briefings`; a lease, a document id and a message id are there or not |
| `files`, `marker` | the pair, `revision-status.json` (`by` is its nonce) |
| `lock` | who is inside `BEGIN IMMEDIATE` |
| `review` | each review request, revision or generation |
| `ledger` | the lease of the authority |
| `pub`, `requests`, `document`, `message` | each publisher, what providers have accepted, what they show |

`BeginCommit` ... `CompleteMarker` are `_commit_artifacts`, which every way to write a pair
ends with: marker, two files and row under the lock, the marker's completion in a second
transaction. `Reserve`, `CommitRevision`, `FailRevision` are a revision by AI around its long
wait; `FailRevision`, like `_fail_revision`, looks only at the marker, so a revision that was reserved before a claim
may fail after it, and its finished marker then lets `CheckClaim` pass. `Authorize`, `Claim`, `Begin`, `ReadBriefing`, `ReadDiscord`, `Send` ...,
`RecordGoogle`, `MarkPublished`, `MarkFailure`, `Complete` are a publication. `Reconcile` is the
operator, who closes a row only with every writer stopped and no request outstanding.

## 3. The runs

| Run | Instance | Checks |
|---|---|---|
| `meeting_retries` | 1 meeting, 2 revisions, 1 worker, 1 reviewer, 2 claims | `TypeOK`, `AtMostOneCopy`, `PublishedIsDelivered`, `CheckpointIsTrue`, `OnlyApprovedText`, `ClaimResolved` |
| `meeting_processes` | 1 meeting, 2 revisions, 2 workers, 1 reviewer, 1 claim | `OneClaimant`, `OutstandingIsApproved`, `ApprovalIsReviewed`, `UncertaintyFreezes`, `AbandonedStays` |
| `meeting_gate` | 2 meetings, 1 revision, 1 worker, 1 reviewer, 1 claim of each | `ImplementsGate` |
| `engine_duplicates` | 2 runs, 3 pauses, 3 callers, 1 of them interruptible, caches of 1 and 2 | `TypeOK`, `Accounted`, `MissingIsSettled`, `ImplementsLedger`, `EndReleasesAll` |
| `browser_approval` | 1 run, 3 pauses, 3 callers, 2 requests, 2 Deferreds | `OnlyHumanDecides`, `DecisionKept`, `PausesAreReachable` |
| `agent_session` | 3 messages, 2 callers, replies with up to 2 calls, 1 reply with calls, 1 retry, 1 run that throws | `TypeOK`, `DeliveredOnce`, `ContextIsTranscript`, `CallsAnswered`, `NothingLeftQueued`, `AbortEnds` |
| `orchestrator` | 2 instances, one left by an earlier process; 1 client and the shutdown; 3 registrations, 2 starts | `NoZombie`, `NobodyAwaitsTheDead`, `LeftoversExplained`, `RecordsTruthful`, `HeartbeatKept`, `ShutdownEnds` |
| `note_replacement` | 2 writers, 2 texts, 3 new files, 2 edits by other programs | `NothingLeft`, `ImplementsReplace` |
| `community_briefing` | 2 briefings, 2 revisions, 2 reviewers, 2 publishers | `PublishedAsApproved`, `TornPairIsMarked`, `FrozenByClaim` |
| `meeting_reminders` | 1 meeting, 2 revisions, 1 provider with 2 kinds of failure, 2 claims, 3 edits, 1 crash | `AcknowledgedWasTold`, `IncidentHeard`, `NeedIsTold` |
| `doc_wakes_waiters`, `doc_accepted_prompt` | see section 5 | one statement each, violated |

What they show:

* `meeting_retries`: a first publication fails anywhere, the note is edited,
  reviewed and claimed again; requests of the first attempt may still arrive. No second
  document or message appears, a published row describes what the providers show, a
  checkpoint that lets a retry skip Google is true, and text only changes to what is
  approved at that moment. Two revisions are needed to mix old and new text, two claims
  to retry; a third adds no new combination, since nothing is remembered of an attempt
  but the row and what the providers hold.
* `meeting_processes`: two processes over one table, with crashes, restarts and expiring
  leases at every step. Two workers are what it takes for one to intrude on the other.
* `meeting_gate`: two meetings, so that "one open publication in the whole table" is not
  vacuous, against the abstract specification.
* `engine_duplicates`: three callers give a first resume, a duplicate in flight and a late
  one; two runs let outcomes of one roll another's out of a cache of one; three pauses
  overflow the cache of two. Once the code has ended every caller and duplicate returns.
* `browser_approval`: three calls can share a Deferred, time out, and be duplicated, with
  two requests deciding. Nobody is interruptible here: a client that goes away during
  `execute` takes the identifier of the next pause with it, and the pause can then not be
  reached until the code ends. `PausesAreReachable` is therefore a promise to clients that
  stay, and is checked with those.

* `agent_session`: three messages give one that runs, one that starts a second run while
  the first sleeps before a retry, and one that is queued meanwhile. Two calls are what it
  takes to abort between them, to settle out of order, and to terminate half a batch.
* `orchestrator`: the instance left behind is recovered while the client spawns the other,
  stops it, streams to it and loses it; three registrations let one be renewed while
  another is awaited. What is left after an instance has ended (a registration, a
  heartbeat, a child, a record) is left for one of the reasons that `crossed` and `failed`
  record, and section 5 names.
* `note_replacement`: two writers suffice to hold, meet and lose the lock; two foreign edits
  can change a note and change it back; three files are a temporary one of each writer and one that
  an editor renames over the note. A lock or temporary file that stays belongs to a writer
  in `failed`, after any other refusal or failing call there is none.
* `community_briefing`: a second briefing makes the single claim in the table a claim; a
  second reviewer comes between the reading and the commit of the first; a second
  publisher finds the lease of a dead one. A briefing is claimed at most once, so nothing
  has to be bounded.
* `meeting_reminders`: a row can change and change back while it is told (two revisions, three
  edits), fail twice with the same or another failure (two claims), and be told twice (a
  crash). Two kinds of failure let an incident change its kind. Providers are checked one
  after the other and share nothing but the rows; the two invariants were also checked with
  both (one revision, one claim, two edits, a crash: 1.4 million states), whose liveness
  takes TLC too long.

Bounds of the model: `MaxAttempts` caps the claims of a row, the sets `Runs` and `Pauses`
the identifiers, `MaxDeferreds` the Deferreds, `MaxMsgs`,
`MaxTurns` and `MaxThrows` the messages, the replies that call tools and the failing runs,
`MaxInstances`, `MaxPis` and `MaxStarts` the instances, registrations and starts of the
orchestrator, `MaxFiles` and `MaxEdits` the files and foreign edits of a note, `MaxEdits` and `MaxCrashes` the
scans and reviews and the crashes around the reminders. When they are
used up and nothing else is left to do the system stops, so the configurations say `CHECK_DEADLOCK FALSE`; the real
system stops in the same way when nobody calls.

Messages and instances are numbered in the order in which they appear, and so are runs and
pauses: identifiers are fresh, so the next one may as well be the next number. Symmetry:
revisions, workers, reviewers, writers, callers, requests, briefings and publishers are
permuted where a run checks safety only.

Fairness: `MeetingPublication!FairSpec` assumes that a running worker takes its next step
under a claim: a request to a provider ends at the latest with the transport's timeout,
and nothing else in a publication waits for another party. Cycles, reviews, providers and
restarts are not assumed fair for `ClaimResolved`. `ExecutionEngine!FairSpec` assumes that a
fiber that can run runs: callers that wait for something that has happened, and the
watcher of an ended run. Nothing is assumed of the code or of clients.
`AgentSession!FairSpec` assumes that listeners return, and that requests and tools end once
the signal is aborted (types.ts makes hooks and tools responsible for it); without an abort
they may take for ever. `OrchestratorProperties!FairSpec` assumes that a shutdown goes on
when what it awaits has come: Radius answers or its request fails, and a child that was
signalled exits (`rpc-mode.ts` ends the process on SIGTERM). Nothing is assumed of clients,
renewals, other children or a next start. The code sets no timeout on either wait.
`MeetingReminders!FairSpec` assumes that the worker goes on and a dead one is restarted (a
notification has a timeout), that cycles are started again and again (`scheduledWorker`), and
that a notifier asked for ever to tell a failure of a provider, or rows due, shows it now and
then: strong fairness, since another cycle comes between two of its attempts. Clock, reviewers
and providers are not assumed fair; `NeedIsTold` holds for a provider that fails and recovers
for ever.

Every property has a mutant in `PROJECT.json`: one definition replaced by its slip, under
which the same run finds the property violated.

## 4. The proofs

TLAPS checks, for all values of the constants:

| Theorem | Module | Statement |
|---|---|---|
| `TypeCorrect` | MeetingProofs | `Spec => []TypeOK` |
| `OneClaimantAlways` | MeetingProofs | `Spec => []OneClaimant` |
| `ApprovalsAreReviewed` | MeetingProofs | `Spec => []ApprovalIsReviewed` |
| `UncertaintyFreezesAlways` | MeetingProofs | `Spec => UncertaintyFreezes` |
| `AbandonedStaysAlways` | MeetingProofs | `Spec => AbandonedStays` |
| `AtMostOneCopyAlways`, `PublishedIsDeliveredAlways` | MeetingProofs | `Spec => []AtMostOneCopy`, `Spec => []PublishedIsDelivered` |
| `CheckpointIsTrueAlways`, `OutstandingIsApprovedAlways` | MeetingProofs | `Spec => []CheckpointIsTrue`, `Spec => []OutstandingIsApproved` |
| `OnlyApprovedTextAlways` | MeetingProofs | `Spec => OnlyApprovedText` |
| `PublicationImplementsGate` | MeetingProofs | `Spec => ImplementsGate` |
| `EngineTypes`, `EngineAccounts` | EngineProofs | `Spec => []TypeOK`, `Spec => []Accounted` |
| `EngineMissing` | EngineProofs | `Spec => MissingIsSettled` |
| `EngineImplementsLedger` | EngineProofs | `Spec => ImplementsLedger` |
| `EngineReachable` | EngineProofs | `Spec => []PausesAreReachable`, if `Interruptible = {}` |
| `BrowserHumanDecides`, `BrowserKeepsDecisions` | EngineProofs | `BrowserSpec => []OnlyHumanDecides`, `[]DecisionKept` |
| `BrowserReachable` | EngineProofs | `BrowserSpec => []PausesAreReachable` |
| `BrowserRefinesEngine` | EngineProofs | `BrowserSpec => Spec` of the engine |
| `AgentTypes`, `AgentContext` | AgentProofs | `Spec => []TypeOK`, `Spec => []ContextIsTranscript` |
| `AgentAnswers` | AgentProofs | `Spec => []CallsAnswered` |
| `AgentDeliversOnce` | AgentProofs | `Spec => []DeliveredOnce` |
| `AgentQueuesEmpty` | AgentProofs | `Spec => []NothingLeftQueued` |
| `NoZombieAlways`, `NobodyAwaitsTheDeadAlways` | OrchestratorProofs | `Spec => []NoZombie`, `Spec => []NobodyAwaitsTheDead` |
| `HeartbeatKeptAlways`, `RecordsTruthfulAlways` | OrchestratorProofs | `Spec => []HeartbeatKept`, `Spec => []RecordsTruthful` |
| `LeftoversExplainedAlways` | OrchestratorProofs | `Spec => []LeftoversExplained` |
| `NoteLeavesNothing` | NoteProofs | `Spec => []NothingLeft` |
| `NoteImplementsReplace` | NoteProofs | `Spec => ImplementsReplace` |
| `ReminderIncidents` | ReminderProofs | `Spec => []IncidentHeard` |
| `ReminderAcknowledged` | ReminderProofs | `Spec => []AcknowledgedWasTold` |
| `CommunityPairs`, `CommunityFrozen` | CommunityProofs | `Spec => []TornPairIsMarked`, `Spec => FrozenByClaim` |
| `CommunityPublishes` | CommunityProofs | `Spec => []PublishedAsApproved` |

None of these properties is inductive as it stands. What follows says for each proof which
invariant it goes by, and why that is needed; every invariant was checked by TLC before it
was proved.

### Meeting publication

Assumed: `NoRev` is no revision, `NoItem` no meeting, the limits are natural numbers. The
argument has three layers.

1. `TypeInv` (MeetingInvariant) is `TypeOK` with what a control state says of the local
   variables (a worker under a claim has a job and an approved revision, a request that is
   not idle has a form) and `RowSane` of every row. `TypeOK` alone is not inductive: `claim` of a
   worker is a row, but `Rev(w)` is only a revision because what was claimed was approved.
   `RowProofs` states once what each store operation returns; `MeetingProofs` has one
   lemma per group of actions.
2. `ClaimInv` adds: publications that are open, being published or uncertain, are the
   same one; `OneClaimant`; `ApprovalIsReviewed`. The first part is the strengthening: an
   uncertain row is no longer being published, and only because it still counts as open
   can no other be claimed. Instead of repeating every action, `StepKinds` shows that each
   step is one of five kinds (`Quiet`, `Write`, `Claiming`, `Checkpointing`, `Settling`),
   and one lemma per kind preserves the invariant. Two action properties follow: with
   an uncertain or abandoned row only `Quiet` steps are left.
3. `DeliveryInv` adds the providers. At most one request is under way, and `Sent` says of it
   that its publication is open, that its revision is the approved one, and that the providers are
   still as its sender found them: a document still to be created does not exist yet, a message is only
   posted once the document is complete. `UnderWay` says who may have it: a worker that waits for
   the answer, a worker that gave up on it and is about to record an uncertain outcome (`Doubtful`), or
   nobody. `AtPlace` says what the worker has brought about when it gets to where it is.
   `MessageRecorded` is the strengthening that `AtMostOneCopy` needs: `msg` is what keeps a later
   publication from posting again, so a message its row does not know of must belong to
   the publication that is open, whose worker is about to record it, does not know of it, or is gone. In the
   last two cases the row is or stays uncertain or abandoned, and by the second layer no
   other publication is opened. That is also why the late request of a dead worker is harmless: it finds what its
   sender found, and nobody else is at work.

`PublicationImplementsGate` reads the gate off the rows: granted is what is approved, open is
publishing or uncertain, lost is uncertain. `Claiming` is `Open`; `Write` is `Withdraw` or
`Grant` (`Decided`: a scan withdraws any number of approvals, a review gives one); `Settling` is
`Close` or `Lose`; a request that a provider applies is `CreateDocument`, `FillDocument` or
`Announce`, and only `Apply` changes what the providers have (`ProviderSteps`). Every other step stutters.

### Execution engine and browser approval

Assumed: runs and pauses are numbers, as the code numbers them; the values that stand for no run or
pause are none; callers that may be interrupted are callers; the two caches have limits, and that of
identifiers is the larger one, as in the code. Browser approval adds a bound on deferreds.

`EngineInv` says where every identifier is. `Places` and `RecordedOnce` put an opened pause
into exactly one of the maps or among the settled; `CallsKnown` ties a pause in flight to the one
caller that races for it, which is what makes the count in `Accounted` one; `IdsKnown` says
that queues and clients only hold pauses that were opened; `AnswersKnown` that every reply so far
was the outcome, or "missing" after it. The ledger needs the last: a replay from the cache is
the recorded answer only because nothing rewrites an outcome. `Records`, `Settling` and
`CleanupSettles` state once what recording does, and are used by every action that settles.

`EngineReachable` needs a second invariant, `Reach`, about runs that go on: a pause that no
client knows is in its run's queue, and somebody races for that run or can resume
another of its pauses. It holds only if no transport interrupts a call: an interruption may
drop the only caller that was about to be told. The MCP server never interrupts a resume
of the browser, so `BrowserSpec` needs no such condition: its steps are those of the engine
without `Interrupt`. `BrowserInv` adds that recorded and read decisions are of pauses that a client
was told of, and so `OnlyHumanDecides` cannot be broken by a pause opened later.

### Agent

Assumed: `NoCaller` is no caller, and the four bounds and `MaxRetries` are natural numbers; the
theorems hold for every value of them. The argument has four layers, and each uses only the first.

1. `TypeInv` is `TypeOK` with what the place of a run says of its locals: messages are on hand
   only before the first request of a turn, a batch exists only while calls are answered
   and is reported no further than it is prepared (`BatchInOrder`), and after the first event the
   transcript is not empty, on which `continue` and the end of a run rely.
2. `TalkInv` is about the two copies of the conversation. `ContextIsTranscript` speaks of one moment;
   `ContextKept` says how the copies differ at the others: while prompts are emitted the context is ahead by
   them, while calls are answered it is behind by the results so far. `ReplyInAnswer` says where
   the reply is whose calls are answered, from which `CallsAnswered` follows entry by entry. A step adds an
   entry (`AnsweredAppend`), removes a failed reply (`AnsweredFront`), or neither; a reply is never a
   result, so no result loses its predecessors.
3. `DeliveryInv` counts. `Places(m)` is how often a message is in the queues, on hand and
   in the transcript; a step only moves messages (`Moves`), accepts one, gives one that was never
   accepted another fate, or drops those it removes (`DeliveryKinds`). That a drained message is neither lost
   nor doubled is `DrainedCount`; that accepting puts it where it was not, `HeldOnce`: two calls never
   prepare one message.
4. `QueueInv` says who is to look at the queues. A run has exactly one caller (`RunHasCaller`);
   while something is queued, somebody runs, is about to look or waits for a retry
   (`QueueIsWatched`). `NothingLeftQueued` needs more than that, because `continue` throws when
   the transcript is empty: the first entry is a prompt unless a run threw, and so the removal of
   a failed reply never empties it.

### Orchestrator

Assumed: the bounds are natural numbers, and the instances an earlier process left are the first
ones. There are two invariants.

`OrchestratorInv` says who may still touch an instance. An exit is heard as long as its
listener is attached (`Listened`), and whoever ends an instance detaches it first (`StopDetaches`,
which also says that no renewal in flight holds a record of a stop that has begun). A registration
that is awaited for an instance that is ending or gone is in `crossed` (`CrossingKnown`), so that
what such an answer writes is exempt and nothing else (`CurrentIsLive`). `HeartBeats` says that
only the end of an online instance deletes its heartbeat: `HeartbeatKept` alone is not inductive,
since arming finds nothing if the state had been deleted. One lemma, `StepEnds`, serves every step
by which a stop or a failed spawn ends an instance: all of them do to it what `Ends` says.

`TidyInv` says for each instance who still owes it what. A child that runs has its handle with the
instance, and one that was signalled is waited for (`ChildOwned`). With the listener attached the only
registration is the one on record, and each of the others is being disconnected by somebody
(`Registered`): that is why two registrations at a time have to count as a crossing (`TwoCross`). What
ended is written as ended or will be by who is still at it (`Written`). Instances that crossed or failed are
only asked for the first. A step that leaves an instance alone keeps it tidy (`KeptIsTidy`), so each
lemma looks at one instance. An instance with nobody at work on it then has nothing left:
`LeftoversExplained`.

### Note files

Assumed: the bounds are natural numbers, at least one file, and the values that stand for none are no
writer and no text. `NoteInv` ties
the lock file to the one writer past it, a temporary file to its writer and to the candidate
text, and the text a writer has compared to the modification time it saw (`ReadIsDated`). The
last is what the refinement rests on: at the rename the present text is the one compared,
unless the time differs. `NothingLeft` follows from who holds the lock (`LockHeld`: a writer past it, or one in
`failed`) and from where a temporary file may still be when a writer ends (`TempOwned`): past the clean-up
only with a writer in `failed`.

### Reminders

Assumed (`ReminderAssumption`): at least one provider is checked and none twice, and there is a
failure of the account; `service.ts:419` checks a fixed list of two, and `classifyMeetingProviderFailure`
tells authentication apart. Of provider health, `ReadIsPresent` says that the rows a check has read
before its preflights are still the present ones for every provider it has to come to: the
worker is their only writer. Of rows, `JustTold` says that what was counted before a notification and has not
been written since was told by it, and `QueuedToRetry` that a failed row that is queued
again had a transient failure: `markFailure` keeps an acknowledgement for "the same" failure, and
without this a row that changed in between would keep one it does not deserve.

### Community briefing

Assumed: `NoRev` is no revision, `NoOne` neither a reviewer nor a publisher. There are two
invariants. `ReviewInv` says who may be between the two files: `WriterAlone` (whoever replaces a pair holds
the write lock, has put up the barrier, and the briefing is not claimed), `WrittenIsWhole`
(between the row and the marker the pair is whole as long as the marker is its own) and
`ReservesOnly` (a revision that gives up never takes down another's barrier). From it follow the
torn pairs and, with `MovesOn` (what a publisher does to a row), that a claim freezes.
`PublicationInv` says how far a publication is: `Shown(b, n)` is what the providers show
after `n` of its four requests, `OnCourse` what the place of a publisher says of it and of the
requests that are out, `InOrder` what is true of a briefing without anyone at work: a request
that is still out is the next one, and the only one. That is what makes a late request
harmless: whoever gave up on it has stopped, and nobody is to claim the briefing again.

### Only model-checked

Liveness: `ClaimResolved`, `EndReleasesAll`,
`NeedIsTold`, `AbortEnds` and `ShutdownEnds` are out of this prover's reach. Every invariant and every
safety property that a passing run checks has a theorem.

## 5. What the code does not keep

| Run | Statement | What happens |
|---|---|---|
| `doc_wakes_waiters` | `browser-approval-store.ts:24`: a decision wakes any call in flight | calls share a Deferred; the first to time out removes it from the map while others still await it, and a decision then wakes nobody |
| `doc_accepted_prompt` | `packages/coding-agent/docs/rpc.md:76`: failures after acceptance are reported in the event stream | two prompts sent to an idle session both pass the check and are accepted; the second finds a run active, and its error reaches neither the response nor the events |

Two neighbours of the last one are worth knowing. `agent-session.ts:1022` says that the
loop drains both queues before `agent_end`; an aborted or failed run does not
(`agent-loop.ts:196`), and only the continuation after it keeps `NothingLeftQueued` true. So a
session that is aborted with queued messages starts again by itself, unless the caller
cleared the queue first, as the terminal does. And `steer` over RPC does not look at
`isStreaming`: sent a moment too late it waits for the next prompt.

Two statements about meeting publication are kept by no step of the model, and need no run
to see it. `docs/meeting-publication-state-contract.md:209` says that an expired publishing
lease may be reclaimed; every write but the claimant's own is refused while a row is
publishing, whatever its lease (`store.ts:439`), and after a crash the row and the whole
table wait for a person: `AbandonedStays`, proved, is the other side of it. And
`packages/harnessy-local-host/README.md:223` speaks of a cumulative cap of five attempts;
the claim query has no such condition, only the resumption after an authentication failure
counts (`store.ts:612`).

The reminders differ from their plan (`docs/migrations/meeting-dispatch-execution-plan.md`) in
two details. Line 3505 promises one immediate alert per incident; an incident that changes its
kind, say from transient to authentication, is alerted at once again, since `notifiedAt`
belongs to the kind (`service.ts:440`), which is why `IncidentHeard` speaks of kinds. And line
3510 resumes blocked rows after a successful verification; a process that dies between the
failure of a row and `recordAuthFailure`, or a dispatch, which records none, leaves a check of
up to a minute ago to stand for it, and the row is resumed once too early. The limit of five
attempts bounds this.

Of the engine: `engine.ts:413` says that `resume` returns a result, a new pause or null, and
`engine.ts:606` that a duplicate replays the outcome. When the client that resumed first goes
away, its interruption is what is recorded (`engine.ts:645`) and what its retry is answered
with, while the code goes on. `ImplementsLedger` counts the interruption as an answer.

Of the orchestrator the model shows where something is left behind, which
`LeftoversExplained`, `RecordsTruthful` and `ShutdownEnds` therefore exempt:

* A stop, or the exit of the child, while a registration is awaited: the registration that
  then arrives is recorded for an instance that is no longer live, set online in the file,
  and kept by a heartbeat until Radius forgets it or the server restarts (`supervisor.ts:292`, `radius.ts:439`).
* Two renewals at once, by the instance's own heartbeat and by the machine's: one of the two
  registrations is forgotten.
* A disconnect that fails: the child is not disposed of (`supervisor.ts:161`), and the
  instance is dropped.
* Recovery writes the records it loaded over those of instances that were spawned while it
  awaited Radius (`supervisor.ts:254`): they run without a record until the next write.
* A shutdown that fails so is rejected; the handler of unhandled rejections awaits the same
  promise, is rejected again, and the process neither ends nor does anything else
  (`serve.ts:41`, `serve.ts:69`). The model calls this phase "hung"; `ShutdownEnds` counts it as an
  end, so nothing here shows that it is avoided.
* A stop waits without a limit for the exit of the child it has signalled (`rpc-process.ts:193`). `ShutdownEnds`
  assumes that the exit comes; a child that ignores the signal would hold up a shutdown for ever.

Of the notes: a lock that is left because a call failed (`NothingLeft` names the calls) refuses every later edit as a
race, and nothing tells the reviewer why. The comment at `notes.ts:295` has it removed once no process
owns the recorded PID; but the process that left it may well go on, and when the `fstat` at 318 failed no
PID was recorded. Two of these failures, the `lstat` at 418 and at 435, are not even reported: the edit returns as
if nothing had been left. In the model such a lock may be removed at any time (`RemoveLock`).

Of the community briefing: an approval commits its row before it completes its marker, and
a claim that comes between finds the marker unfinished and blocks the briefing for good
(`worker.ts:114`), although nothing is wrong with it. A save from a form that was opened
long ago overwrites what others saved since: the form carries no version.

## 6. Abstractions

* Contents are revisions; two different contents have different hashes.
* Folders are created as part of `create`; the metadata and the body of a document are one
  `write`. Between the two requests of a write there is no decision, and an attempt that
  fails there writes both again.
* The providers' replies carry valid identifiers: an applied request is what the reply
  says. A reply that does not decode is one that did not arrive.
* Searching for a document by its marker finds it if it exists. Google's search may lag;
  the recorded id and the reconciliation stop are the code's answer to that.
* In `MeetingPublication` replacing a note is one step; `NoteReplacement` has its protocol.
* In `MeetingReminders` a failure is its class: two codes of one class are the same failure.
  `updated_at` differs after every write; two writes of a row in one millisecond would not be
  told apart (`store.ts:911`). Which account is connected, when an incident began and when a
  provider last worked are left out; a frozen table lets no cycle start.
* What a decision says (its content) is left out: a decision is there or not.
* `Cleanup` records the open pauses in any order; the code's order is that of a map.
* Authorization (`authority.ts`) is the choice to end a process at any step: a denied grant
  has the effect of a crash.

* A stop reason `toolUse` is a `stop` with calls. Calls in a reply that failed are never
  answered and are left out of it.
* Nothing but microtasks lies between the two polls of a turn, and between the end of a run
  and the removal of its failed reply; each pair is one step.
* Direct calls of `steer` and `followUp` are those of a prompt during a run. Compaction is
  switched off.
* A tool still running when a parallel batch throws is forgotten; it changes neither
  transcript nor queues.

* Radius is enabled throughout. How many heartbeats in a row are answered "not found" is
  left open, and so whether it is the third; the third does not come before the machine is
  registered. One heartbeat of an instance is in flight at a time. When Radius forgets the
  machine it forgets all that was registered under it.
* A client uses one connection per request, so nothing new is asked once the server is
  closed. The `error` event of a child is its exit. When the server process ends its
  children end, since `rpc-mode.ts` exits when its input is closed.
* Recovery disconnects the old registrations in any order. A failure of recovery or of the
  machine's registration ends the process, which is `Crash`.
* A note's modification time tells apart any two foreign edits of a file. Modes, links and
  the containment of paths are left out.
* Attempts and the time of a lease of a briefing are left out but for its expiry; the
  provenance file and the log of revisions go with the pair. Both halves are hashed together.
  The service waits ten seconds for the lock and the publisher one, so the publisher's
  writes may fail while a reviewer holds it and the reviewer's do not.
* Version 1 also has a publisher in Python; a publication by the worker is refused unless it
  is shown to be absent (`proveCompatibilityAbsent`), so it is left out.
* A briefing that was claimed is never approved again, so the branches of the publisher that
  find an earlier document or message are not reached and are left out.

Not modelled, and why: sections 1 and 7 name the components. Rendering, HTTP routing,
OAuth, schemas and formatting keep no state that others share. The weekly schedule of the
community briefing, with its retries, only decides when a generation starts. The owner of
meeting publication adds a lease file and a drain around what the store enforces anyway.

## 7. The plan

What is left, in this order.

1. `OwnerRuntime`: lease, session and drain of the publication owner.
2. Portal jobs, work runs and the ratchet, OAuth refresh, the weekly schedule.
