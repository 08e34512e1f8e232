--------------------------- MODULE BrowserApproval ---------------------------
(***************************************************************************)
(* Browser approval of paused executions (elicitation_mode=browser).       *)
(*                                                                         *)
(* The model may only ask: its resume tool waits until a human's decision  *)
(* on the pause is recorded, or a timeout, and resumes the engine with     *)
(* that decision.  The human's request first checks that the execution is  *)
(* paused, then reads its body, then records the decision and wakes the    *)
(* tool.  Both meet in the in-process approval store, which keeps the      *)
(* decision and one Deferred per waiting identifier.                       *)
(***************************************************************************)
EXTENDS ExecutionEngine

CONSTANTS
  Humans,       \* concurrent approval requests
  MaxDeferreds  \* bound of the model: Deferreds made, and decisions taken

ASSUME MaxDeferredsAssumption == MaxDeferreds \in Nat

VARIABLES
  responses,  \* pauses with a recorded decision that nobody has taken
  waiters,    \* the Deferred of each waiting pause, 0 for none
  made,       \* how many Deferreds there are
  woken,      \* the Deferreds that are done
  tool,       \* the pause each resume tool call waits for, and its Deferred
  human,      \* the pause whose approval each request is reading
  decided     \* history: pauses a human decided on

storeVars == <<responses, waiters, made, woken>>
approvalVars == <<storeVars, tool, human, decided>>
browserVars == <<vars, approvalVars>>

NoWait == [id |-> NoPause, on |-> 0]

Waiting(c) == tool[c] # NoWait

BrowserInit ==
  /\ Init
  /\ responses = {}
  /\ waiters = [p \in Pauses |-> 0]
  /\ made = 0
  /\ woken = {}
  /\ tool = [c \in Callers |-> NoWait]
  /\ human = [h \in Humans |-> NoPause]
  /\ decided = {}

-----------------------------------------------------------------------------
(* The resume tool                                                         *)

\* The taken decision is what the engine is resumed with.
TakeAndResume(c, p) ==
  /\ p \in responses
  /\ responses' = responses \ {p}
  /\ Resume(c, p)

\* waitFor: a decision that is there is taken at once, else a Deferred is
\* awaited, the one that is there or a new one.
CallResume(c, p) ==
  /\ call[c] = Idle /\ ~Waiting(c)
  /\ p \in told
  /\ \/ /\ TakeAndResume(c, p)
        /\ UNCHANGED <<waiters, made, woken, tool>>
     \/ /\ p \notin responses
        /\ waiters[p] = 0 => made < MaxDeferreds
        /\ LET d == IF waiters[p] = 0 THEN made + 1 ELSE waiters[p]
           IN /\ waiters' = [waiters EXCEPT ![p] = d]
              /\ tool' = [tool EXCEPT ![c] = [id |-> p, on |-> d]]
              /\ made' = IF waiters[p] = 0 THEN d ELSE made
        /\ UNCHANGED <<vars, responses, woken>>
  /\ UNCHANGED <<human, decided>>

\* ensuring: whoever stops waiting removes its Deferred, even if others await
\* it too.
StopWaiting(c) ==
  LET p == tool[c].id
  IN /\ waiters' = IF waiters[p] = tool[c].on THEN [waiters EXCEPT ![p] = 0] ELSE waiters
     /\ tool' = [tool EXCEPT ![c] = NoWait]

\* Woken, the tool resumes with the decision, unless a duplicate took it and it
\* asks for approval again.
Wake(c) ==
  /\ Waiting(c) /\ tool[c].on \in woken
  /\ \/ TakeAndResume(c, tool[c].id)
     \/ /\ tool[c].id \notin responses
        /\ UNCHANGED <<vars, responses>>
  /\ StopWaiting(c)
  /\ UNCHANGED <<made, woken, human, decided>>

\* Slip: a tool that stops waiting drops what is recorded.
TimeOutForgets(c) ==
  /\ Waiting(c)
  /\ StopWaiting(c)
  /\ responses' = responses \ {tool[c].id}
  /\ UNCHANGED <<vars, made, woken, human, decided>>

\* Slip: a tool that stops waiting resumes all the same.
TimeOutResumes(c) ==
  /\ Waiting(c)
  /\ Resume(c, tool[c].id)
  /\ StopWaiting(c)
  /\ UNCHANGED <<responses, made, woken, human, decided>>

\* BROWSER_APPROVAL_WAIT_TIMEOUT_MS: the model is told to ask the user again.
TimeOut(c) ==
  /\ Waiting(c)
  /\ StopWaiting(c)
  /\ UNCHANGED <<vars, responses, made, woken, human, decided>>

-----------------------------------------------------------------------------
(* The human's request                                                     *)

\* handleApprovalRequest: the execution must be paused; then the body is read.
OpenApproval(h, p) ==
  /\ human[h] = NoPause
  /\ p \in told \cap paused
  /\ human' = [human EXCEPT ![h] = p]
  /\ UNCHANGED <<vars, storeVars, tool, decided>>

\* The body does not decode: the request is answered 400 and nothing recorded.
Abandon(h) ==
  /\ human[h] # NoPause
  /\ human' = [human EXCEPT ![h] = NoPause]
  /\ UNCHANGED <<vars, storeVars, tool, decided>>

\* The body decoded: the decision is recorded, and its waiter is woken.
Approve(h) ==
  LET p == human[h]
  IN /\ p # NoPause
     /\ human' = [human EXCEPT ![h] = NoPause]
     /\ responses' = responses \cup {p}
     /\ woken' = IF waiters[p] # 0 THEN woken \cup {waiters[p]} ELSE woken
     /\ decided' = decided \cup {p}
     /\ UNCHANGED <<vars, waiters, made, tool>>

-----------------------------------------------------------------------------
(* Specification                                                           *)

\* A tool call that waits for a decision takes no other step.
EngineStep ==
  /\ \/ Sandbox
     \/ \E c \in Callers :
          \/ Engine(c)
          \/ ~Waiting(c) /\ \E x \in Runs : Execute(c, x)
  /\ UNCHANGED approvalVars

Tool(c) == (\E p \in Pauses : CallResume(c, p)) \/ Wake(c) \/ TimeOut(c)

Human(h) == (\E p \in Pauses : OpenApproval(h, p)) \/ Abandon(h) \/ Approve(h)

BrowserNext ==
  \/ EngineStep
  \/ \E c \in Callers : Tool(c)
  \/ \E h \in Humans : Human(h)

BrowserSpec == BrowserInit /\ [][BrowserNext]_browserVars
=============================================================================
