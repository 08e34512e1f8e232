------------------------------- MODULE AgentLoop -------------------------------
(***************************************************************************)
(* The agent loop (packages/agent): one run of an Agent.                   *)
(*                                                                         *)
(* A run emits its prompts, then takes turns: it injects queued messages,  *)
(* asks the model, and answers the tool calls of the reply.  Every emitted *)
(* event is awaited, so between two of its steps a message may be queued,  *)
(* or the run aborted.  The agent's transcript grows with the events; the  *)
(* context the model is asked with is a copy the loop keeps by itself.     *)
(***************************************************************************)
EXTENDS Naturals, Sequences, SequencesExt

CONSTANTS
  MaxMsgs,    \* bound of the model: messages of the users
  MaxCalls,   \* bound of the model: tool calls of one reply
  MaxTurns,   \* bound of the model: replies that may call tools
  MaxThrows   \* bound of the model: runs that throw

ASSUME AgentBounds == MaxMsgs \in Nat /\ MaxCalls \in Nat /\ MaxTurns \in Nat /\ MaxThrows \in Nat

VARIABLES
  transcript,  \* _state.messages
  context,     \* currentContext.messages of the run
  steering,    \* steeringQueue
  followUps,   \* followUpQueue
  pc,          \* where the run is
  inbox,       \* the prompts or pendingMessages that are still to be emitted
  batch,       \* the tool calls being answered
  more,        \* hasMoreToolCalls
  aborted,     \* the run's signal is aborted
  skip,        \* skipInitialSteeringPoll
  thrown       \* runs that threw so far

queueVars == <<steering, followUps>>
loopVars == <<context, pc, inbox, batch, more, skip>>
agentVars == <<transcript, queueVars, loopVars, aborted, thrown>>

\* The users' messages, numbered in the order in which they are sent.
Msgs == 1..MaxMsgs

User(m) == [role |-> "user", msg |-> m]

Assistant(stop, n) == [role |-> "assistant", stop |-> stop, calls |-> n]

Result(i) == [role |-> "toolResult", call |-> i]

\* Stop reasons the loop tells apart; "toolUse" is a "stop" with calls.
Stops == {"stop", "length", "error", "aborted"}

NoBatch == [calls |-> 0, mode |-> "parallel", next |-> 1, told |-> 0, running |-> {}, yes |-> {}]

AgentInit ==
  /\ transcript = <<>> /\ context = <<>>
  /\ steering = <<>> /\ followUps = <<>>
  /\ pc = "idle"
  /\ inbox = <<>>
  /\ batch = NoBatch
  /\ more = FALSE
  /\ aborted = FALSE
  /\ skip = FALSE
  /\ thrown = 0

\* What the run adds to its context and, with message_end, to the transcript.
Add(entry) ==
  /\ transcript' = Append(transcript, entry)
  /\ context' = Append(context, entry)

\* Slip: the batch is taken, and the queue is left as it was.
DrainedCopy(queue) ==
  {[taken |-> queue, rest |-> queue]}
    \cup (IF queue = <<>> THEN {} ELSE {[taken |-> <<Head(queue)>>, rest |-> Tail(queue)]})

\* PendingMessageQueue.drain: all that is queued, or one message at a time.  The
\* mode may be changed at any time.
Drained(queue) ==
  {[taken |-> queue, rest |-> <<>>]}
    \cup (IF queue = <<>> THEN {} ELSE {[taken |-> <<Head(queue)>>, rest |-> Tail(queue)]})

-----------------------------------------------------------------------------
(* Starting a run                                                          *)

\* Slip: the context is only the transcript so far.
RunPromptsLate(prompts, noPoll) ==
  /\ pc = "idle"
  /\ context' = transcript
  /\ inbox' = prompts
  /\ skip' = noPoll
  /\ pc' = "prompt"

\* runAgentLoop: the prompts are in the context at once.
RunPrompts(prompts, noPoll) ==
  /\ pc = "idle"
  /\ context' = transcript \o [i \in DOMAIN prompts |-> User(prompts[i])]
  /\ inbox' = prompts
  /\ skip' = noPoll
  /\ pc' = "prompt"

\* Agent.continue: after a reply only queued messages can go on, the steering ones
\* first; after anything else the model is asked again.
ContinueFrom ==
  IF Last(transcript).role # "assistant"
  THEN RunPrompts(<<>>, FALSE) /\ UNCHANGED queueVars
  ELSE IF steering # <<>>
  THEN \E d \in Drained(steering) :
         steering' = d.rest /\ RunPrompts(d.taken, TRUE) /\ UNCHANGED followUps
  ELSE /\ followUps # <<>>
       /\ \E d \in Drained(followUps) :
            followUps' = d.rest /\ RunPrompts(d.taken, FALSE) /\ UNCHANGED steering

\* Agent.continue throws: a run is active, or there is nothing to go on with.
CannotContinue ==
  \/ pc # "idle"
  \/ transcript = <<>>
  \/ Last(transcript).role = "assistant" /\ steering = <<>> /\ followUps = <<>>

EmitPrompt ==
  /\ pc = "prompt" /\ inbox # <<>>
  /\ transcript' = Append(transcript, User(Head(inbox)))
  /\ inbox' = Tail(inbox)
  /\ UNCHANGED <<context, pc, batch, more, skip, queueVars, aborted, thrown>>

\* The first poll for steering messages.
FirstPoll ==
  /\ pc = "prompt" /\ inbox = <<>>
  /\ \E d \in Drained(steering) :
       /\ inbox' = IF skip THEN <<>> ELSE d.taken
       /\ steering' = IF skip THEN steering ELSE d.rest
  /\ skip' = FALSE
  /\ pc' = "inject"
  /\ UNCHANGED <<transcript, context, batch, more, followUps, aborted, thrown>>

-----------------------------------------------------------------------------
(* A turn                                                                  *)

Inject ==
  /\ pc = "inject" /\ inbox # <<>>
  /\ Add(User(Head(inbox)))
  /\ inbox' = Tail(inbox)
  /\ UNCHANGED <<pc, batch, more, skip, queueVars, aborted, thrown>>

\* The request is sent; with an aborted signal it can only be cancelled.
Ask ==
  /\ pc = "inject" /\ inbox = <<>>
  /\ pc' = IF aborted THEN "cancelled" ELSE "stream"
  /\ UNCHANGED <<transcript, context, inbox, batch, more, skip, queueVars, aborted, thrown>>

\* The model may call tools.
MayCall == Len(SelectSeq(transcript, LAMBDA e : e.role = "assistant")) < MaxTurns

\* The reply's last event.  One that failed ends the run; the calls of a truncated
\* one are answered without being prepared; tools run one by one or together.
Reply(stop, n) ==
  /\ pc \in {"stream", "cancelled"}
  /\ pc = "cancelled" => stop = "aborted"
  /\ stop = "aborted" => aborted
  /\ n > 0 => MayCall /\ stop \in {"stop", "length"}
  /\ Add(Assistant(stop, n))
  /\ IF n = 0
     THEN /\ pc' = IF stop \in {"error", "aborted"} THEN "end" ELSE "turn"
          /\ UNCHANGED batch
     ELSE /\ pc' = IF stop = "length" THEN "execute" ELSE "preflight"
          /\ \E mode \in {"sequential", "parallel"} :
               batch' = [NoBatch EXCEPT !.calls = n,
                                        !.mode = IF stop = "length" THEN "parallel" ELSE mode,
                                        !.next = IF stop = "length" THEN n + 1 ELSE 1]
  /\ more' = FALSE
  /\ UNCHANGED <<inbox, skip, queueVars, aborted, thrown>>

-----------------------------------------------------------------------------
(* Tool calls                                                              *)

\* Slip: the last call is left out.
AnotherCallButLast == batch.next < batch.calls /\ ~aborted

\* The batch has another call to prepare.
AnotherCall == batch.next <= batch.calls /\ ~aborted

\* prepareToolCall: the next call is accepted, or refused with an error result
\* (unknown, invalid, blocked, or the run is aborted).
Prepare ==
  /\ pc = "preflight"
  /\ \E started \in (IF aborted THEN {{}} ELSE {{}, {batch.next}}) :
       batch' = [batch EXCEPT !.next = @ + 1, !.running = @ \cup started]
  /\ pc' = IF batch.mode = "parallel" THEN "check" ELSE "execute"
  /\ UNCHANGED <<transcript, context, inbox, more, skip, queueVars, aborted, thrown>>

\* Parallel calls are all prepared before the first is executed.
NextSibling ==
  /\ pc = "check"
  /\ pc' = IF AnotherCall THEN "preflight" ELSE "execute"
  /\ UNCHANGED <<transcript, context, inbox, batch, more, skip, queueVars, aborted, thrown>>

\* A tool returns, possibly asking to terminate, or throws.
Settle(i) ==
  /\ pc = "execute" /\ i \in batch.running
  /\ \E t \in {{}, {i}} :
       batch' = [batch EXCEPT !.running = @ \ {i}, !.yes = @ \cup t]
  /\ UNCHANGED <<transcript, context, pc, inbox, more, skip, queueVars, aborted, thrown>>

\* Slip: parallel results wait for every call of the reply.
ReportAll ==
  /\ pc = "execute" /\ batch.running = {}
  /\ batch.told + 1 < batch.next
  /\ batch.mode = "parallel" => batch.next > batch.calls
  /\ transcript' = Append(transcript, Result(batch.told + 1))
  /\ batch' = [batch EXCEPT !.told = @ + 1]
  /\ UNCHANGED <<context, pc, inbox, more, skip, queueVars, aborted, thrown>>

\* The results of what was prepared are emitted in the order of the calls, when
\* all of it has settled.
Report ==
  /\ pc = "execute" /\ batch.running = {}
  /\ batch.told + 1 < batch.next
  /\ transcript' = Append(transcript, Result(batch.told + 1))
  /\ batch' = [batch EXCEPT !.told = @ + 1]
  /\ UNCHANGED <<context, pc, inbox, more, skip, queueVars, aborted, thrown>>

\* A sequential batch goes on with its next call; else the results go into the
\* context.  Only a batch whose every result asks for it terminates the run.
Reported ==
  /\ pc = "execute" /\ batch.running = {}
  /\ batch.told + 1 = batch.next
  /\ IF batch.mode = "sequential" /\ AnotherCall
     THEN pc' = "preflight" /\ UNCHANGED <<context, batch, more>>
     ELSE /\ context' = context \o [i \in 1..batch.told |-> Result(i)]
          /\ more' = (batch.yes # 1..batch.told)
          /\ batch' = NoBatch
          /\ pc' = "turn"
  /\ UNCHANGED <<transcript, inbox, skip, queueVars, aborted, thrown>>

-----------------------------------------------------------------------------
(* The end of a turn and of a run                                          *)

\* Steering messages are taken after every turn, follow-ups when the run would
\* stop.
NextTurn ==
  /\ pc = "turn"
  /\ \E d \in Drained(steering) :
       /\ steering' = d.rest
       /\ IF more \/ d.taken # <<>>
          THEN inbox' = d.taken /\ pc' = "inject" /\ UNCHANGED followUps
          ELSE \E f \in Drained(followUps) :
                 /\ followUps' = f.rest
                 /\ inbox' = f.taken
                 /\ pc' = IF f.taken = <<>> THEN "end" ELSE "inject"
  /\ UNCHANGED <<transcript, context, batch, more, skip, aborted, thrown>>

\* handleRunFailure: a listener, or the start of a request, threw.  What was still
\* to be injected is dropped, and a failed reply is emitted for the run.
Throw ==
  /\ pc \notin {"idle", "failed"}
  /\ thrown < MaxThrows
  /\ thrown' = thrown + 1
  /\ transcript' = Append(transcript, Assistant(IF aborted THEN "aborted" ELSE "error", 0))
  /\ inbox' = <<>>
  /\ pc' = "failed"
  /\ UNCHANGED <<context, batch, more, skip, queueVars, aborted>>

\* finishRun, and what the loop's locals are worth without a run.
FinishRun ==
  /\ pc' = "idle"
  /\ aborted' = FALSE
  /\ context' = <<>> /\ inbox' = <<>>
  /\ batch' = NoBatch
  /\ more' = FALSE /\ skip' = FALSE

LoopStep ==
  \/ EmitPrompt \/ FirstPoll
  \/ Inject \/ Ask
  \/ Prepare \/ NextSibling \/ Report \/ Reported
  \/ NextTurn
=============================================================================
