-------------------------- MODULE BrowserProperties --------------------------
(* What approving paused executions in the browser promises.                *)
EXTENDS BrowserApproval

\* The model may only ask: a paused tool call is given a response only after a
\* human decided on that very pause, whatever calls, duplicates, timeouts and
\* wake-ups come before.
OnlyHumanDecides == \A p \in Pauses : given[p] > 0 => p \in decided

\* A recorded decision is kept until a resume uses it: no timeout, no duplicate
\* call that is woken for nothing and no second request loses it while the
\* execution still waits for it.
DecisionKept == decided \cap paused \subseteq responses

-----------------------------------------------------------------------------
\* browser-approval-store.ts says of recordResponse: "Record a human's decision,
\* waking any in-flight `waitForResponse`."  A call whose Deferred a duplicate
\* removed when it timed out is not woken.
WakesEveryWaiter == \A c \in Callers : Waiting(c) /\ tool[c].id \in responses => tool[c].on \in woken
=============================================================================
