--------------------------- MODULE AgentProperties ---------------------------
(* What a session and its agent loop promise.                               *)
EXTENDS AgentSession

InTranscript(m) == {i \in DOMAIN transcript : transcript[i] = User(m)}

Copies(m, s) == {i \in DOMAIN s : s[i] = m}

\* Types of the agent's and the session's state; the retries of a failed reply stay
\* within maxRetries, whoever starts runs meanwhile.
TypeOK ==
  /\ transcript \in Seq([role : {"user"}, msg : Msgs]
                        \cup [role : {"assistant"}, stop : Stops, calls : 0..MaxCalls]
                        \cup [role : {"toolResult"}, call : 1..MaxCalls])
  /\ steering \in Seq(Msgs) /\ followUps \in Seq(Msgs) /\ inbox \in Seq(Msgs)
  /\ pc \in {"idle", "prompt", "inject", "stream", "cancelled", "preflight", "check",
             "execute", "turn", "end", "failed"}
  /\ batch \in [calls : 0..MaxCalls, mode : {"sequential", "parallel"},
                next : 1..MaxCalls + 1, told : 0..MaxCalls,
                running : SUBSET (1..MaxCalls), yes : SUBSET (1..MaxCalls)]
  /\ more \in BOOLEAN /\ aborted \in BOOLEAN /\ skip \in BOOLEAN
  /\ thrown \in 0..MaxThrows
  /\ call \in [Callers -> Steps]
  /\ held \in [Callers -> Msgs \cup {NoMsg}]
  /\ attempts \in 0..MaxRetries
  /\ retrier \in Callers \cup {NoCaller}
  /\ fate \in [Msgs -> Fates]

\* An accepted message is in exactly one place, once: queued, taken by the run, or
\* in the transcript, whatever mode the queues are drained in and whoever continues
\* or retries; a message that ended otherwise is in none of the queues.
DeliveredOnce ==
  \A m \in Msgs :
    LET waiting == Cardinality(Copies(m, steering)) + Cardinality(Copies(m, followUps))
                     + Cardinality(Copies(m, inbox))
        there == Cardinality(InTranscript(m))
    IN waiting + there = IF fate[m] = "accepted" THEN 1 ELSE 0

\* What the model is asked with is the transcript: the copy the loop grows by itself
\* and the agent's transcript agree at every request, after prompts, injected
\* messages, batches of results, continuations and dropped failures.
ContextIsTranscript == pc \in {"stream", "cancelled"} => context = transcript

\* A result follows the reply whose call it answers, after the results of the calls
\* before it, and nothing comes between; a run that was not aborted takes its next
\* turn with every call answered.
CallsAnswered ==
  /\ \A i \in DOMAIN transcript : transcript[i].role = "toolResult" =>
       LET n == transcript[i].call
       IN /\ i > n
          /\ \A k \in 1..(n - 1) : transcript[i - k] = Result(n - k)
          /\ transcript[i - n].role = "assistant" /\ transcript[i - n].calls >= n
  /\ pc = "turn" /\ ~aborted => Len(transcript) = LastReply + transcript[LastReply].calls

\* A session whose callers have all returned has nothing left in its queues: what is
\* queued during the last events of a run, an aborted one or a failed one, is gone on
\* with, unless the run threw.
NothingLeftQueued ==
  (\A c \in Callers : call[c] = "idle") /\ thrown = 0 => ~HasQueuedMessages

\* An aborted run ends, whatever its request and its tools were waiting for.
AbortEnds == aborted ~> ~aborted

-----------------------------------------------------------------------------
\* docs/rpc.md says of the prompt command: "Failures after acceptance are reported
\* through the normal event and message stream".  Of two prompts prepared at the same
\* time both are accepted, and one disappears without an event.
AcceptedIsSeen ==
  \A m \in Msgs : fate[m] \in {"accepted", "rejected"} =>
    m \in SeqSet(steering) \cup SeqSet(followUps) \cup SeqSet(inbox) \/ InTranscript(m) # {}
=============================================================================
