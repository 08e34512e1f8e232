------------------------ MODULE OrchestratorProperties ------------------------
(* What the orchestrator keeps, however its operations interleave.          *)
EXTENDS Orchestrator

\* A live instance whose child is gone is on its way out: the exit handler, a stop or
\* the spawn that failed is at work and will drop it.  None stays listed as live that
\* can serve nothing.
NoZombie == \A i \in live : child[i] = "exited" => Ending(i)

\* Nobody waits for an answer of a child that has exited, although requests are sent
\* by streams that outlive a stop and children exit between a request and its answer.
NobodyAwaitsTheDead ==
  \A c \in Actors : op[c].at \in {"state", "command", "sync"} => child[op[c].of] # "exited"

\* What outlives an instance has one of two reasons: its registration crossed its end
\* or another registration, or a request to Radius or the process failed.  Otherwise
\* no registration, heartbeat, child or record of a running instance is left.
Idling(i) == ~Registering(i) /\ ~Ending(i) /\ \A c \in Actors : op[c].of = i => op[c].at = "stream"

LeftoversExplained ==
  \A i \in Instances :
    child[i] # "none" /\ i \notin live /\ Idling(i) /\ i \notin crossed \cup failed =>
      /\ pis[i] = {} /\ heart[i] = NoHeart
      /\ child[i] = "exited"
      /\ file[i].status \in {"none", "stopped", "error"}

\* Once recovery is through, the records say "starting" or "online" of live instances
\* only, and all live instances are recorded but those recovery wrote over.
RecordsTruthful ==
  phase \in {"serving", "stopping"} =>
    \A i \in Instances :
      /\ file[i].status \in {"starting", "online"} => i \in live \cup crossed
      /\ i \in live => file[i] # NoRecord \/ i \in failed

\* The presence of an instance that is online never dies silently: its heartbeat is
\* armed or in flight, whatever Radius answers.
HeartbeatKept ==
  phase \in {"recovering", "registering", "serving"} =>
    \A i \in live : mem[i].status = "online" => heart[i].armed \/ beat[i] # NoBeat

-----------------------------------------------------------------------------
\* What a shutdown awaits comes: Radius answers or fails, a child that was signalled
\* exits (rpc-mode.ts exits on SIGTERM), and the server goes on.
ShutdownStep ==
  \/ Microtask
  \/ Disconnected(Main) \/ NotDisconnected(Main) \/ StopPresence \/ Leave
  \/ \E i \in Instances : StopNext(i) \/ (op[Main].of = i /\ child[i] = "signalled" /\ Exit(i))

FairSpec == Spec /\ WF_vars(Next /\ ShutdownStep)

\* A shutdown ends, unless it is one that failed and hangs: nothing it awaits is kept
\* from it by the requests, renewals and exits that go on meanwhile.
ShutdownEnds == phase = "stopping" ~> phase \in {"down", "hung"}
=============================================================================
