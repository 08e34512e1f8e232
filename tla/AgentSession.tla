----------------------------- MODULE AgentSession -----------------------------
(***************************************************************************)
(* A session of the coding agent: callers of prompt, abort and clearQueue  *)
(* around one Agent (packages/coding-agent/src/core/agent-session.ts).     *)
(*                                                                         *)
(* A prompt is queued while a run is active, and prepared and run          *)
(* otherwise; who runs it decides at the end of the run whether to retry   *)
(* a failed reply, to go on with what was queued meanwhile, or to return.  *)
(* Nothing locks the session: between the check and the run, and while a   *)
(* retry waits, another caller may start a run of its own.                 *)
(***************************************************************************)
EXTENDS AgentLoop

CONSTANTS
  Callers,     \* concurrent calls of prompt
  NoCaller,    \* no caller
  MaxRetries   \* retry settings: maxRetries

ASSUME SessionAssumption == NoCaller \notin Callers /\ MaxRetries \in Nat

VARIABLES
  call,       \* where each call of prompt is
  held,       \* the message a call is preparing
  attempts,   \* _retryAttempt
  retrier,    \* whose sleep _retryAbortController aborts
  fate        \* history: what became of each message

sessionVars == <<call, held, attempts, retrier, fate>>
vars == <<agentVars, sessionVars>>

NoMsg == 0

Steps == {"idle", "prepare", "run", "post", "sleep"}

\* refused: an error before acceptance.  rejected: an error after acceptance, and no
\* run.  cleared: given back by clearQueue.  dropped: the run that took it threw.
Fates == {"new", "held", "accepted", "refused", "rejected", "cleared", "dropped"}

Init ==
  /\ AgentInit
  /\ call = [c \in Callers |-> "idle"]
  /\ held = [c \in Callers |-> NoMsg]
  /\ attempts = 0
  /\ retrier = NoCaller
  /\ fate = [m \in Msgs |-> "new"]

Goto(c, step) == call' = [call EXCEPT ![c] = step]

SeqSet(s) == {s[i] : i \in DOMAIN s}

\* Every message of a set that was accepted ends like this.
Ends(ms, how) == fate' = [m \in Msgs |-> IF m \in ms THEN how ELSE fate[m]]

IsNew(m) == fate[m] = "new" /\ \A k \in 1..(m - 1) : fate[k] # "new"

HasQueuedMessages == steering # <<>> \/ followUps # <<>>

-----------------------------------------------------------------------------
(* prompt                                                                  *)

\* isStreaming: the message is queued, or refused if the caller did not say how.
PromptStreaming(c, m) ==
  /\ call[c] = "idle" /\ IsNew(m)
  /\ pc # "idle"
  /\ \/ steering' = Append(steering, m) /\ Ends({m}, "accepted") /\ UNCHANGED followUps
     \/ followUps' = Append(followUps, m) /\ Ends({m}, "accepted") /\ UNCHANGED steering
     \/ Ends({m}, "refused") /\ UNCHANGED queueVars
  /\ UNCHANGED <<transcript, loopVars, aborted, thrown, call, held, attempts, retrier>>

\* Otherwise it is prepared: model, credentials, extensions, over several awaits.
PromptIdle(c, m) ==
  /\ call[c] = "idle" /\ IsNew(m)
  /\ pc = "idle"
  /\ Goto(c, "prepare")
  /\ held' = [held EXCEPT ![c] = m]
  /\ Ends({m}, "held")
  /\ UNCHANGED <<agentVars, attempts, retrier>>

\* Accepted, the message starts a run; if another call started one meanwhile,
\* Agent.prompt throws.
StartRun(c) ==
  /\ call[c] = "prepare"
  /\ held' = [held EXCEPT ![c] = NoMsg]
  /\ \/ /\ RunPrompts(<<held[c]>>, FALSE)
        /\ Ends({held[c]}, "accepted")
        /\ Goto(c, "run")
     \/ /\ pc # "idle"
        /\ Ends({held[c]}, "rejected")
        /\ Goto(c, "idle")
        /\ UNCHANGED <<context, inbox, skip, pc>>
  /\ UNCHANGED <<transcript, queueVars, batch, more, aborted, thrown, attempts, retrier>>

\* The preparation fails.
RefusePrompt(c) ==
  /\ call[c] = "prepare"
  /\ Goto(c, "idle")
  /\ held' = [held EXCEPT ![c] = NoMsg]
  /\ Ends({held[c]}, "refused")
  /\ UNCHANGED <<agentVars, attempts, retrier>>

-----------------------------------------------------------------------------
(* After a run                                                             *)

LastReply == SelectLastInSeq(transcript, LAMBDA e : e.role = "assistant")

\* Slip: one retry too many.
RetryLaterAgain(c) ==
  /\ attempts <= MaxRetries
  /\ attempts' = attempts + 1
  /\ transcript' = IF Last(transcript).role = "assistant" THEN Front(transcript) ELSE transcript
  /\ retrier' = c
  /\ Goto(c, "sleep")

\* _prepareRetry: the failed reply leaves the transcript, the call sleeps.
RetryLater(c) ==
  /\ attempts < MaxRetries
  /\ attempts' = attempts + 1
  /\ transcript' = IF Last(transcript).role = "assistant" THEN Front(transcript) ELSE transcript
  /\ retrier' = c
  /\ Goto(c, "sleep")

\* finishRun, then _handlePostAgentRun: a failed reply that is retryable is retried.
Return(c) ==
  /\ call[c] = "run" /\ pc \in {"end", "failed"}
  /\ FinishRun
  /\ LET failed == transcript[LastReply].stop = "error"
     IN \/ failed /\ RetryLater(c)
        \/ /\ Goto(c, "post")
           /\ attempts' = IF failed THEN 0 ELSE attempts
           /\ UNCHANGED <<transcript, retrier>>
  /\ UNCHANGED <<queueVars, thrown, held, fate>>

\* A listener throws again while the failure is reported: the call rejects, and
\* nobody looks at the queues.
RunRejects(c) ==
  /\ call[c] = "run" /\ pc = "failed"
  /\ FinishRun
  /\ Goto(c, "idle")
  /\ transcript' \in {transcript, Front(transcript)}
  /\ UNCHANGED <<queueVars, thrown, held, attempts, retrier, fate>>

\* Agent.continue, or its error.
GoOn(c) ==
  /\ IF CannotContinue
     THEN Goto(c, "idle") /\ UNCHANGED <<context, inbox, skip, pc, queueVars>>
     ELSE Goto(c, "run") /\ ContinueFrom
  /\ UNCHANGED <<transcript, batch, more, aborted, thrown, held, attempts, fate>>

\* Slip: the queues are trusted to be empty when a run ends.
AfterRunReturns(c) ==
  /\ call[c] = "post"
  /\ Goto(c, "idle")
  /\ UNCHANGED <<agentVars, held, attempts, retrier, fate>>

\* What was queued too late for the run is continued with, else the call returns.
AfterRun(c) ==
  /\ call[c] = "post"
  /\ \/ HasQueuedMessages /\ GoOn(c)
     \/ ~HasQueuedMessages /\ Goto(c, "idle") /\ UNCHANGED <<agentVars, held, attempts, fate>>
  /\ UNCHANGED retrier

\* The backoff is over.
Wake(c) ==
  /\ call[c] = "sleep"
  /\ retrier' = NoCaller
  /\ GoOn(c)

-----------------------------------------------------------------------------
(* Other calls, and the loop                                               *)

\* A retry that sleeps is cancelled, and the run's signal aborted.
Abort ==
  /\ pc # "idle" \/ retrier # NoCaller
  /\ aborted' = (pc # "idle")
  /\ IF retrier = NoCaller
     THEN UNCHANGED <<call, attempts, retrier>>
     ELSE Goto(retrier, "post") /\ attempts' = 0 /\ retrier' = NoCaller
  /\ UNCHANGED <<transcript, queueVars, loopVars, thrown, held, fate>>

\* The queues are given back to the user.
ClearQueue ==
  /\ HasQueuedMessages
  /\ Ends(SeqSet(steering) \cup SeqSet(followUps), "cleared")
  /\ steering' = <<>> /\ followUps' = <<>>
  /\ UNCHANGED <<transcript, loopVars, aborted, thrown, call, held, attempts, retrier>>

\* A reply that did not fail ends the series of retries.
ReplyEnds(stop, n) ==
  /\ Reply(stop, n)
  /\ attempts' = IF stop = "error" THEN attempts ELSE 0
  /\ UNCHANGED <<call, held, retrier, fate>>

RunThrows ==
  /\ Throw
  /\ Ends(SeqSet(inbox), "dropped")
  /\ attempts' = IF aborted THEN 0 ELSE attempts
  /\ UNCHANGED <<call, held, retrier>>

Step == LoopStep /\ UNCHANGED sessionVars

SettleTool == (\E i \in batch.running : Settle(i)) /\ UNCHANGED sessionVars

ModelReplies == \E stop \in Stops, n \in 0..MaxCalls : ReplyEnds(stop, n)

Next ==
  \/ \E c \in Callers, m \in Msgs : PromptStreaming(c, m) \/ PromptIdle(c, m)
  \/ \E c \in Callers : StartRun(c) \/ RefusePrompt(c)
  \/ \E c \in Callers : Return(c) \/ RunRejects(c) \/ AfterRun(c) \/ Wake(c)
  \/ Abort \/ ClearQueue
  \/ ModelReplies \/ SettleTool \/ RunThrows \/ Step

Spec == Init /\ [][Next]_vars

\* Listeners return.  A request and a tool may take for ever, but both honour the
\* signal.
FairSpec ==
  /\ Spec
  /\ WF_vars(Step)
  /\ WF_vars(aborted /\ (ModelReplies \/ SettleTool))
  /\ WF_vars(\E c \in Callers : Return(c))
=============================================================================
