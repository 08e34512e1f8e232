-------------------------- MODULE EngineProperties --------------------------
(* What pausing and resuming executions promises.                           *)
EXTENDS ExecutionEngine

\* What a caller can wait for.
Calls == {Idle} \cup {Racing(x, p) : x \in Runs, p \in Pauses \cup {NoPause}}
                \cup {Joined(p) : p \in Pauses}

\* Types of the runs, the engine's maps, the callers and the histories.
TypeOK ==
  /\ fiber \in [Runs -> {"unborn", "running", "done", "cleaned"}]
  /\ owner \in [Pauses -> Runs \cup {NoRun}]
  /\ queue \in [Runs -> Seq(Pauses)]
  /\ paused \subseteq Pauses /\ pending \subseteq Pauses /\ told \subseteq Pauses
  /\ recorded \in Seq(Pauses)
  /\ outcome \in [Pauses -> Outcome \cup {NoOutcome}]
  /\ call \in [Callers -> Calls]
  /\ given \in [Pauses -> Nat]
  /\ replies \in [Pauses -> SUBSET (Outcome \cup {Missing})]

-----------------------------------------------------------------------------
Opened(p) == owner[p] # NoRun
Settled(p) == outcome[p] # NoOutcome

\* Every pause is in exactly one place: open, being resumed by exactly one
\* caller, or settled with its outcome recorded once.  None gets lost between
\* the maps, however calls, duplicates, interruptions and ends interleave.
Accounted ==
  /\ \A p \in Pauses : Opened(p) <=> p \in paused \/ p \in pending \/ Settled(p)
  /\ paused \cap pending = {}
  /\ \A p \in paused \cup pending : ~Settled(p)
  /\ \A p \in pending : Cardinality({c \in Callers : call[c] = Racing(owner[p], p)}) = 1
  /\ \A i, j \in DOMAIN recorded : recorded[i] = recorded[j] => i = j
  /\ \A p \in Pauses : Settled(p) <=> \E i \in DOMAIN recorded : recorded[i] = p

\* "No paused execution" is only answered for an execution that has settled and
\* whose outcome has rolled out of the cache, never for one that is open or in
\* flight.
MissingIsSettled ==
  [][\A p \in Pauses : Missing \in replies'[p] \ replies[p] => Settled(p) /\ ~Replayable(p)]_vars

\* An open pause of a running execution can be reached: some client has its
\* identifier, or it waits in the queue and somebody can get it from there, who
\* waits on that run now or has the identifier of another open pause to resume.
PausesAreReachable ==
  \A p \in paused : LET x == owner[p] IN fiber[x] = "running" =>
    \/ p \in told
    \/ /\ \E i \in DOMAIN queue[x] : queue[x][i] = p
       /\ \/ \E c \in Callers : call[c].at = "race" /\ call[c].run = x
          \/ \E q \in told \cap paused : owner[q] = x

-----------------------------------------------------------------------------
\* Once the code has ended, by itself or by failing, nobody waits for it any
\* more, not even as the duplicate of a resume, and no pause of it stays listed.
EndReleasesAll ==
  \A x \in Runs : fiber[x] = "done" ~>
    /\ \A c \in Callers : call[c].at # "idle" => call[c].run # x
    /\ \A c \in Callers : call[c].at = "join" => owner[call[c].id] # x
    /\ \A p \in paused \cup pending : owner[p] # x

-----------------------------------------------------------------------------
\* Where each pause is, and the answers its clients got.
PauseState ==
  [p \in Pauses |-> IF ~Opened(p) THEN "unborn"
                   ELSE IF Settled(p) THEN "settled"
                   ELSE IF p \in pending THEN "taken" ELSE "open"]

AnswersSeen == [p \in Pauses |-> replies[p] \ {Missing}]

Ledger == INSTANCE ResumeOnce WITH
  Ids <- Pauses, Answers <- Outcome, NoAnswer <- NoOutcome,
  state <- PauseState, answer <- outcome, seen <- AnswersSeen

\* The maps, queues and caches implement the ledger of module ResumeOnce: each
\* identifier is taken once and answered with one outcome for ever.
ImplementsLedger == Ledger!Spec
=============================================================================
