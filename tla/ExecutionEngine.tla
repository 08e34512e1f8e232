--------------------------- MODULE ExecutionEngine ---------------------------
(***************************************************************************)
(* Pausing and resuming sandboxed executions.                              *)
(*                                                                         *)
(* A run is one piece of code in its own detached fiber.  Each tool call   *)
(* that needs a human opens a pause with an identifier of its own and      *)
(* suspends.  A caller that executes or resumes waits until the run ends   *)
(* or its next pause arrives, whichever is first; clients that lose a      *)
(* reply resume the same identifier again.                                 *)
(*                                                                         *)
(* Fibers of one engine take turns: an action is what one of them does     *)
(* between two suspensions.  How the code and the tools behave is open: a  *)
(* run may pause and end at any time.                                      *)
(***************************************************************************)
EXTENDS Naturals, Sequences, FiniteSets

CONSTANTS
  Runs,           \* executions started with executeWithPause, numbered as they start
  Pauses,         \* identifiers of elicitations, numbered as they are opened
  Callers,        \* concurrent calls of execute and resume
  Interruptible,  \* callers whose transport interrupts them on disconnect
  NoRun, NoPause,
  OutcomeLimit,   \* SETTLED_OUTCOME_LIMIT
  IdLimit         \* SETTLED_EXECUTION_ID_LIMIT

ASSUME NumberedAssumption == Runs \subseteq Nat /\ Pauses \subseteq Nat
ASSUME NoneAssumption == NoRun \notin Runs /\ NoPause \notin Pauses
ASSUME CallerAssumption == Interruptible \subseteq Callers
ASSUME LimitAssumption == OutcomeLimit \in Nat /\ IdLimit \in Nat /\ OutcomeLimit <= IdLimit

VARIABLES
  fiber,     \* each run's fiber; "cleaned" once its watcher has run
  owner,     \* the run that opened each pause
  queue,     \* pauseQueue of each run
  paused,    \* keys of pausedExecutions
  pending,   \* keys of pendingResumes
  recorded,  \* the identifiers recorded as settled, oldest first
  outcome,   \* the exit recorded for each, also that of its inflight Deferred
  call,      \* what each caller waits for
  told,      \* history: the pauses some caller was answered with
  given,     \* history: how often each pause was given a response
  replies    \* history: what resumes of each identifier were answered

runVars   == <<fiber, owner, queue>>
cacheVars == <<paused, pending, recorded, outcome>>
historyVars == <<told, given, replies>>
vars == <<runVars, cacheVars, call, historyVars>>

-----------------------------------------------------------------------------
Ended(x) == [kind |-> "ended", run |-> x, id |-> NoPause]
PausedAt(p) == [kind |-> "paused", run |-> NoRun, id |-> p]
Interrupted == [kind |-> "interrupted", run |-> NoRun, id |-> NoPause]
NoOutcome == [kind |-> "none", run |-> NoRun, id |-> NoPause]
Missing == [kind |-> "missing", run |-> NoRun, id |-> NoPause]

Outcome == {Ended(x) : x \in Runs} \cup {PausedAt(p) : p \in Pauses} \cup {Interrupted}

\* "race": awaitCompletionOrPause on a run, for a resume of id or to start it;
\* "join": a duplicate awaits the inflight Deferred of id.
Idle == [at |-> "idle", run |-> NoRun, id |-> NoPause]
Racing(x, p) == [at |-> "race", run |-> x, id |-> p]
Joined(p) == [at |-> "join", run |-> NoRun, id |-> p]

Init ==
  /\ fiber = [x \in Runs |-> "unborn"]
  /\ owner = [p \in Pauses |-> NoRun]
  /\ queue = [x \in Runs |-> <<>>]
  /\ paused = {}
  /\ pending = {}
  /\ recorded = <<>>
  /\ outcome = [p \in Pauses |-> NoOutcome]
  /\ call = [c \in Callers |-> Idle]
  /\ told = {}
  /\ given = [p \in Pauses |-> 0]
  /\ replies = [p \in Pauses |-> {}]

-----------------------------------------------------------------------------
(* The caches of settled executions                                        *)

\* Both are first-in first-out, and every identifier is recorded once: what
\* they hold are the last ones recorded.
Last(p, n) == \E i \in DOMAIN recorded : recorded[i] = p /\ i + n > Len(recorded)

\* settledOutcomes has p.
Replayable(p) == Last(p, OutcomeLimit)

\* isExecutionSettled.
Remembered(p) == Last(p, IdLimit)

\* recordSettledOutcome of several identifiers, in this order.
Record(ids, o) ==
  /\ recorded' = recorded \o ids
  /\ outcome' = [p \in Pauses |-> IF \E i \in DOMAIN ids : ids[i] = p THEN o
                                                                 ELSE outcome[p]]

\* Slip: any answer is taken to name a pause.
ReplyTellsAll(c, p, o) ==
  /\ call' = [call EXCEPT ![c] = Idle]
  /\ told' = told \cup {o.id}
  /\ replies' = IF p = NoPause THEN replies ELSE [replies EXCEPT ![p] = @ \cup {o}]

\* The caller gets o; a pause it gets is one it can resume.
Reply(c, p, o) ==
  /\ call' = [call EXCEPT ![c] = Idle]
  /\ told' = IF o.kind = "paused" THEN told \cup {o.id} ELSE told
  /\ replies' = IF p = NoPause THEN replies ELSE [replies EXCEPT ![p] = @ \cup {o}]

-----------------------------------------------------------------------------
(* Runs                                                                    *)

\* executeWithPause: the fiber and its watcher are forked.
Execute(c, x) ==
  /\ call[c] = Idle
  /\ fiber[x] = "unborn" /\ \A y \in Runs : fiber[y] = "unborn" => x <= y
  /\ fiber' = [fiber EXCEPT ![x] = "running"]
  /\ call' = [call EXCEPT ![c] = Racing(x, NoPause)]
  /\ UNCHANGED <<owner, queue, cacheVars, historyVars>>

\* The elicitation handler: the pause is listed, queued, and suspends its call.
Elicit(x, p) ==
  /\ fiber[x] = "running"
  /\ owner[p] = NoRun /\ \A q \in Pauses : owner[q] = NoRun => p <= q
  /\ owner' = [owner EXCEPT ![p] = x]
  /\ paused' = paused \cup {p}
  /\ queue' = [queue EXCEPT ![x] = Append(@, p)]
  /\ UNCHANGED <<fiber, pending, recorded, outcome, call, historyVars>>

\* The code returns, fails or times out, with pauses open or not.
End(x) ==
  /\ fiber[x] = "running"
  /\ fiber' = [fiber EXCEPT ![x] = "done"]
  /\ UNCHANGED <<owner, queue, cacheVars, call, historyVars>>

OpenPauses(x) == {p \in paused : owner[p] = x}

Orders(S) == {s \in [1..Cardinality(S) -> S] : \A i, j \in DOMAIN s : s[i] = s[j] => i = j}

\* Slip: the watcher drops the pauses without recording how they ended.
CleanupForgets(x) ==
  /\ fiber[x] = "done"
  /\ fiber' = [fiber EXCEPT ![x] = "cleaned"]
  /\ paused' = paused \ OpenPauses(x)
  /\ UNCHANGED <<owner, queue, pending, recorded, outcome, call, historyVars>>

\* The watcher of an ended fiber drops the pauses that are still open and
\* records the end of the run as their outcome.
Cleanup(x) ==
  /\ fiber[x] = "done"
  /\ fiber' = [fiber EXCEPT ![x] = "cleaned"]
  /\ paused' = paused \ OpenPauses(x)
  /\ \E ids \in Orders(OpenPauses(x)) : Record(ids, Ended(x))
  /\ UNCHANGED <<owner, queue, pending, call, historyVars>>

-----------------------------------------------------------------------------
(* Callers                                                                 *)

\* The exit of awaitCompletionOrPause; that of a resume is recorded and given
\* to its duplicates.
Settle(c, o) ==
  LET p == call[c].id
  IN IF p = NoPause
     THEN UNCHANGED <<pending, recorded, outcome>>
     ELSE Record(<<p>>, o) /\ pending' = pending \ {p}

\* Slip: only a pause wakes the caller, not the end of the run (the race of
\* the regression test, which waited for the first success).
SeeEndNever(c) ==
  /\ call[c].at = "race"
  /\ FALSE
  /\ UNCHANGED vars

\* The code ended.
SeeEnd(c) ==
  LET x == call[c].run
  IN /\ call[c].at = "race"
     /\ fiber[x] \in {"done", "cleaned"}
     /\ Settle(c, Ended(x))
     /\ Reply(c, call[c].id, Ended(x))
     /\ UNCHANGED <<runVars, paused, given>>

\* Slip: the caller takes all the queue for one pause.
SeePauseDropsRest(c) ==
  LET x == call[c].run
      next == Head(queue[x])
  IN /\ call[c].at = "race"
     /\ queue[x] # <<>>
     /\ queue' = [queue EXCEPT ![x] = <<>>]
     /\ Settle(c, PausedAt(next))
     /\ Reply(c, call[c].id, PausedAt(next))
     /\ UNCHANGED <<fiber, owner, paused, given>>

\* The next pause arrived.
SeePause(c) ==
  LET x == call[c].run
      next == Head(queue[x])
  IN /\ call[c].at = "race"
     /\ queue[x] # <<>>
     /\ queue' = [queue EXCEPT ![x] = Tail(@)]
     /\ Settle(c, PausedAt(next))
     /\ Reply(c, call[c].id, PausedAt(next))
     /\ UNCHANGED <<fiber, owner, paused, given>>

\* A settled identifier is answered again, one in flight is joined, an open
\* one is given the response, any other is missing.
Lookup(c, p) ==
  \/ /\ Replayable(p)
     /\ Reply(c, p, outcome[p])
     /\ UNCHANGED <<paused, pending, given>>
  \/ /\ ~Replayable(p) /\ p \in pending
     /\ call' = [call EXCEPT ![c] = Joined(p)]
     /\ UNCHANGED <<paused, pending, told, given, replies>>
  \/ /\ ~Replayable(p) /\ p \notin pending /\ p \in paused
     /\ paused' = paused \ {p}
     /\ pending' = pending \cup {p}
     /\ given' = [given EXCEPT ![p] = @ + 1]
     /\ call' = [call EXCEPT ![c] = Racing(owner[p], p)]
     /\ UNCHANGED <<told, replies>>
  \/ /\ ~Replayable(p) /\ p \notin pending /\ p \notin paused
     /\ Reply(c, p, Missing)
     /\ UNCHANGED <<paused, pending, given>>

\* Slip: a pause stays listed while its resume is in flight, and duplicates in
\* flight are not looked for.
ResumeAgain(c, p) ==
  /\ call[c] = Idle
  /\ p \in told
  /\ \/ /\ p \in paused
        /\ pending' = pending \cup {p}
        /\ given' = [given EXCEPT ![p] = @ + 1]
        /\ call' = [call EXCEPT ![c] = Racing(owner[p], p)]
        /\ UNCHANGED <<paused, told, replies>>
     \/ /\ p \notin paused
        /\ Lookup(c, p)
  /\ UNCHANGED <<runVars, recorded, outcome>>

\* Slip: a resume in flight is not registered.
ResumeUnregistered(c, p) ==
  /\ call[c] = Idle
  /\ p \in told
  /\ \/ /\ p \in paused
        /\ paused' = paused \ {p}
        /\ given' = [given EXCEPT ![p] = @ + 1]
        /\ call' = [call EXCEPT ![c] = Racing(owner[p], p)]
        /\ UNCHANGED <<pending, told, replies>>
     \/ /\ p \notin paused
        /\ Lookup(c, p)
  /\ UNCHANGED <<runVars, recorded, outcome>>

\* Clients resume what they were told of, first or again.
Resume(c, p) ==
  /\ call[c] = Idle
  /\ p \in told
  /\ Lookup(c, p)
  /\ UNCHANGED <<runVars, recorded, outcome>>

\* The inflight Deferred of a duplicate is done.
SeeInflight(c) ==
  LET p == call[c].id
  IN /\ call[c].at = "join"
     /\ outcome[p] # NoOutcome
     /\ Reply(c, p, outcome[p])
     /\ UNCHANGED <<runVars, cacheVars, given>>

\* The client went away.  onExit still records a resume's exit, which is then
\* the interruption.
Interrupt(c) ==
  /\ c \in Interruptible
  /\ call[c] # Idle
  /\ IF call[c].at = "race"
     THEN Settle(c, Interrupted)
     ELSE UNCHANGED <<pending, recorded, outcome>>
  /\ call' = [call EXCEPT ![c] = Idle]
  /\ UNCHANGED <<runVars, paused, historyVars>>

-----------------------------------------------------------------------------
Engine(c) == SeeEnd(c) \/ SeePause(c) \/ SeeInflight(c)

Sandbox ==
  \E x \in Runs : End(x) \/ Cleanup(x) \/ \E p \in Pauses : Elicit(x, p)

Next ==
  \/ Sandbox
  \/ \E c \in Callers :
       \/ Engine(c) \/ Interrupt(c)
       \/ \E x \in Runs : Execute(c, x)
       \/ \E p \in Pauses : Resume(c, p)

Spec == Init /\ [][Next]_vars

\* A fiber that can run runs; nothing is assumed of the code or of the clients.
FairSpec ==
  /\ Spec
  /\ \A c \in Callers : WF_vars(Engine(c))
  /\ \A x \in Runs : WF_vars(Cleanup(x))
=============================================================================
