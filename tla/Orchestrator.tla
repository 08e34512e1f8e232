----------------------------- MODULE Orchestrator -----------------------------
(***************************************************************************)
(* The orchestrator: one server process that keeps agent processes for its *)
(* clients (packages/orchestrator/src).                                    *)
(*                                                                         *)
(* An instance is a child process, an entry of the map of live instances,  *)
(* a record in instances.json and, at the Radius service, a registration   *)
(* kept by heartbeats.  Spawning, stopping, an exit of the child, a        *)
(* renewal of the registration, recovery and shutdown each touch all of    *)
(* them over several awaits, and nothing orders them.                      *)
(*                                                                         *)
(* An action is what the server does between two awaits, or what a child,  *)
(* Radius or the operating system does.  A step that the code takes in a   *)
(* microtask is taken before anything else (Microtask).                    *)
(***************************************************************************)
EXTENDS Naturals, FiniteSets

CONSTANTS
  MaxInstances,  \* bound of the model: instances, numbered in the order of their spawns
  Old,           \* those of them that an earlier process left behind when it died
  Clients,       \* concurrent IPC requests
  Main,          \* the shutdown of the server, which stops instances too
  MaxPis,        \* bound of the model: registrations Radius gives out
  MaxStarts      \* bound of the model: starts of the server process

ASSUME BoundsAssumption == MaxInstances \in Nat /\ MaxPis \in Nat /\ MaxStarts \in Nat
ASSUME OldAssumption == \E n \in 0..MaxInstances : Old = 1..n /\ n <= MaxPis
ASSUME MainAssumption == Main \notin Clients

VARIABLES
  phase, starts, \* of the server process
  undone, snap,  \* instances recovery or shutdown has still to do; what recovery loaded
  machine,       \* machine.json
  file,          \* instances.json
  live,          \* liveInstances
  mem,           \* live.record, also of an instance that is no longer in the map
  res,           \* live.resources
  bound,         \* instances whose exit listener is attached
  child,         \* the child processes
  pis, minted,   \* registrations at Radius, of each instance; how many there were
  heart,         \* piHeartbeatStates
  beat, ring,    \* heartbeats and renewals awaited; what reRegisterMachineAndPis has left
  op,            \* what each request awaits
  leaving,       \* the registration that an instance's exit handler is disconnecting
  crossed, failed  \* history: see the end of the module

procVars == <<phase, starts, undone, snap, machine>>
liveVars == <<file, live, mem, res, bound, child>>
radiusVars == <<pis, minted, heart, beat, ring>>
taskVars == <<op, leaving>>
vars == <<procVars, liveVars, radiusVars, taskVars, crossed, failed>>

Instances == 1..MaxInstances
Actors == Clients \cup {Main}
MachineLoop == 0
Beats == Instances \cup {MachineLoop}

Statuses == {"starting", "online", "stopping", "stopped", "error"}
NoPi == 0
Records == [status : Statuses, pi : 0..MaxPis]
NoRecord == [status |-> "none", pi |-> NoPi]
NoResources == [rpc |-> FALSE, pi |-> NoPi]
NoHeart == [pi |-> NoPi, armed |-> FALSE]

\* A request of a client: what it awaits, for which instance, why ("spawn", "stop",
\* "rpc"), the registration it is disconnecting and whether it then has a child to
\* dispose of.
Idle == [at |-> "idle", of |-> 0, why |-> "none", pi |-> NoPi, rpc |-> FALSE]
Doing(at, i, why) == [Idle EXCEPT !.at = at, !.of = i, !.why = why]
Disconnecting(i, why, pi, rpc) == [Doing("disconnect", i, why) EXCEPT !.pi = pi, !.rpc = rpc]

\* A heartbeat or renewal: the registration, or the record its renewal writes back.
NoBeat == [at |-> "idle", of |-> 0, rec |-> NoRecord]

Nothing == [i \in Instances |-> NoRecord]

\* An earlier process, if there was one, registered the machine and died with its
\* instances online.
Init ==
  /\ phase = "down" /\ starts = 0 /\ undone = {} /\ snap = Nothing
  /\ machine = (Old # {})
  /\ file = [i \in Instances |-> IF i \in Old THEN [status |-> "online", pi |-> i] ELSE NoRecord]
  /\ live = {} /\ bound = {}
  /\ mem = Nothing
  /\ res = [i \in Instances |-> NoResources]
  /\ child = [i \in Instances |-> IF i \in Old THEN "exited" ELSE "none"]
  /\ pis = [i \in Instances |-> IF i \in Old THEN {i} ELSE {}]
  /\ minted = Cardinality(Old)
  /\ heart = [i \in Instances |-> NoHeart]
  /\ beat = [b \in Beats |-> NoBeat] /\ ring = {}
  /\ op = [c \in Actors |-> Idle] /\ leaving = [i \in Instances |-> NoPi]
  /\ crossed = {} /\ failed = Old

-----------------------------------------------------------------------------
(* Records and children                                                    *)

WithStatus(r, s) == [r EXCEPT !.status = s]
WithPi(r, pi) == [r EXCEPT !.pi = pi]

\* upsertInstance of a live record.
SetRecord(i, r) ==
  /\ mem' = [mem EXCEPT ![i] = r]
  /\ file' = [file EXCEPT ![i] = r]

\* rejectAllPending: a spawn is rejected, a command of a stream answered with an error.
RejectPending(i) ==
  [c \in Actors |->
    IF op[c].of # i THEN op[c]
    ELSE IF op[c].at = "state" THEN Doing("rejected", i, "spawn")
    ELSE IF op[c].at \in {"command", "sync"} THEN Doing("stream", i, "rpc")
    ELSE op[c]]

\* The end of stopInstance, which removes the record, and of failSpawn, which keeps it.
Finish(i, why, r, f) ==
  /\ mem' = [mem EXCEPT ![i] = WithStatus(r, "stopped")]
  /\ file' = [f EXCEPT ![i] = IF why = "stop" THEN NoRecord ELSE WithStatus(r, "stopped")]
  /\ live' = live \ {i}

\* Slip: the child is waited for without having been signalled.
DisposeUnsignalled(c, i, why, rpc, r, f) ==
  /\ res' = [res EXCEPT ![i] = IF rpc THEN NoResources ELSE [@ EXCEPT !.pi = NoPi]]
  /\ UNCHANGED child
  /\ \/ /\ rpc /\ child[i] # "exited"
        /\ op' = [RejectPending(i) EXCEPT ![c] = Doing("dispose", i, why)]
        /\ mem' = [mem EXCEPT ![i] = r]
        /\ file' = f
        /\ UNCHANGED live
     \/ /\ ~rpc \/ child[i] = "exited"
        /\ op' = [op EXCEPT ![c] = Idle]
        /\ Finish(i, why, r, f)

\* dispose of a child, if the instance still has one: its requests are rejected, it
\* is signalled, and its exit awaited.
Dispose(c, i, why, rpc, r, f) ==
  /\ res' = [res EXCEPT ![i] = IF rpc THEN NoResources ELSE [@ EXCEPT !.pi = NoPi]]
  /\ \/ /\ rpc /\ child[i] # "exited"
        /\ child' = [child EXCEPT ![i] = "signalled"]
        /\ op' = [RejectPending(i) EXCEPT ![c] = Doing("dispose", i, why)]
        /\ mem' = [mem EXCEPT ![i] = r]
        /\ file' = f
        /\ UNCHANGED live
     \/ /\ ~rpc \/ child[i] = "exited"
        /\ op' = [op EXCEPT ![c] = Idle]
        /\ Finish(i, why, r, f)
        /\ UNCHANGED child

\* cleanupAcquiredResources up to its first await.
Cleanup(c, i, why, r, f) ==
  /\ bound' = bound \ {i}
  /\ heart' = IF res[i].pi # NoPi THEN [heart EXCEPT ![i] = NoHeart] ELSE heart
  /\ \/ /\ res[i].pi # NoPi /\ r.pi # NoPi
        /\ op' = [op EXCEPT ![c] = Disconnecting(i, why, r.pi, res[i].rpc)]
        /\ mem' = [mem EXCEPT ![i] = r]
        /\ file' = f
        /\ UNCHANGED <<live, res, child>>
     \/ /\ res[i].pi = NoPi \/ r.pi = NoPi
        /\ Dispose(c, i, why, res[i].rpc, r, f)

-----------------------------------------------------------------------------
(* Heartbeats and registrations at Radius                                  *)

\* startPiHeartbeat.
StartHeart(i, pi) == heart' = [heart EXCEPT ![i] = [pi |-> pi, armed |-> TRUE]]

\* schedulePiHeartbeat: nothing if the state has been deleted meanwhile.
ArmHeart(i) ==
  heart' = IF heart[i] # NoHeart THEN [heart EXCEPT ![i].armed = TRUE] ELSE heart

\* Radius gives out a registration.
Mint(i) ==
  /\ minted < MaxPis
  /\ minted' = minted + 1
  /\ pis' = [pis EXCEPT ![i] = @ \cup {minted + 1}]

\* A request to register fails; it may have been applied all the same.
RegisterFails(i) ==
  \/ Mint(i) /\ failed' = failed \cup {i}
  \/ UNCHANGED <<pis, minted, failed>>

\* The request to disconnect a registration is answered; 404 is as good as 200.
Unregister(i, pi) == pis' = [pis EXCEPT ![i] = @ \ {pi}]

\* It fails, applied or not.
UnregisterFails(i, pi) ==
  /\ Unregister(i, pi) \/ UNCHANGED pis
  /\ failed' = failed \cup {i}

\* The timer of a heartbeat.
HeartFires(i) ==
  /\ heart[i].armed /\ beat[i] = NoBeat
  /\ heart' = [heart EXCEPT ![i].armed = FALSE]
  /\ beat' = [beat EXCEPT ![i] = [at |-> "beat", of |-> i, rec |-> [status |-> "none", pi |-> heart[i].pi]]]
  /\ UNCHANGED <<procVars, liveVars, pis, minted, ring, taskVars, failed>>

\* It is answered, fails, or is not found for the first or second time.
HeartAnswered(i) ==
  /\ beat[i].at = "beat"
  /\ beat' = [beat EXCEPT ![i] = NoBeat]
  /\ ArmHeart(i)
  /\ UNCHANGED <<procVars, liveVars, pis, minted, ring, taskVars, failed>>

\* reRegisterPi: a live instance is registered with its record as it is now; of any
\* other the heartbeat ends.
Renew(b, i) ==
  \/ /\ i \in live
     /\ beat' = [beat EXCEPT ![b] = [at |-> "renew", of |-> i, rec |-> mem[i]]]
     /\ UNCHANGED heart
  \/ /\ i \notin live
     /\ beat' = [beat EXCEPT ![b] = NoBeat]
     /\ heart' = [heart EXCEPT ![i] = NoHeart]

\* It is not found for the third time: Radius has dropped the registration.
HeartLost(i) ==
  /\ beat[i].at = "beat"
  /\ phase # "recovering"
  /\ Unregister(i, beat[i].rec.pi)
  /\ Renew(i, i)
  /\ UNCHANGED <<procVars, liveVars, minted, ring, taskVars, failed>>

\* registerPi of a renewal is answered: updateInstance writes the record back.
Renewed(b) ==
  LET i == beat[b].of
      r == WithPi(beat[b].rec, minted + 1)
  IN /\ beat[b].at = "renew"
     /\ Mint(i)
     /\ StartHeart(i, minted + 1)
     /\ beat' = [beat EXCEPT ![b] = NoBeat]
     /\ mem' = IF i \in live THEN [mem EXCEPT ![i] = r] ELSE mem
     /\ res' = IF i \in live THEN [res EXCEPT ![i].pi = r.pi] ELSE res
     /\ file' = [file EXCEPT ![i] = r]
     /\ UNCHANGED <<procVars, live, bound, child, ring, taskVars, failed>>

\* Slip: a renewal that fails ends the heartbeat.
NotRenewedStops(b) ==
  LET i == beat[b].of
  IN /\ beat[b].at = "renew"
     /\ RegisterFails(i)
     /\ UNCHANGED heart
     /\ beat' = [beat EXCEPT ![b] = NoBeat]
     /\ UNCHANGED <<procVars, liveVars, ring, taskVars>>

\* It fails: the heartbeat goes on, that of a machine's loop never stopped.
NotRenewed(b) ==
  LET i == beat[b].of
  IN /\ beat[b].at = "renew"
     /\ RegisterFails(i)
     /\ IF b = MachineLoop THEN UNCHANGED heart ELSE ArmHeart(i)
     /\ beat' = [beat EXCEPT ![b] = NoBeat]
     /\ UNCHANGED <<procVars, liveVars, ring, taskVars>>

\* The machine itself was not found three times, with all that was registered under
\* it: it is registered again, and then each live instance.
MachineRenewed ==
  /\ phase \in {"serving", "stopping"}
  /\ beat[MachineLoop] = NoBeat /\ ring = {} /\ live # {}
  /\ pis' = [i \in Instances |-> {}]
  /\ ring' = live
  /\ UNCHANGED <<procVars, liveVars, minted, heart, beat, taskVars, failed>>

\* The next of them.
RenewNext(i) ==
  /\ i \in ring /\ beat[MachineLoop] = NoBeat
  /\ ring' = ring \ {i}
  /\ Renew(MachineLoop, i)
  /\ UNCHANGED <<procVars, liveVars, pis, minted, taskVars, failed>>

-----------------------------------------------------------------------------
(* Requests                                                                *)

Listening == phase \in {"recovering", "registering", "serving"}

\* spawnInstance up to its first await.
Spawn(c, i) ==
  LET r == [status |-> "starting", pi |-> NoPi]
  IN /\ Listening /\ c # Main /\ op[c] = Idle
     /\ child[i] = "none" /\ \A j \in 1..(i - 1) : child[j] # "none"
     /\ live' = live \cup {i}
     /\ SetRecord(i, r)
     /\ res' = [res EXCEPT ![i].rpc = TRUE]
     /\ bound' = bound \cup {i}
     /\ child' = [child EXCEPT ![i] = "running"]
     /\ op' = [op EXCEPT ![c] = Doing("state", i, "spawn")]
     /\ UNCHANGED <<procVars, radiusVars, leaving, failed>>

Speaks(i) == child[i] \in {"running", "signalled"}

\* The child answers get_state; without a machine there is nothing to register with.
SpawnAnswered(c) ==
  LET i == op[c].of
  IN /\ op[c].at = "state" /\ Speaks(i)
     /\ SetRecord(i, mem[i])
     /\ op' = [op EXCEPT ![c] = Doing(IF machine THEN "register" ELSE "rejected", i, "spawn")]
     /\ UNCHANGED <<procVars, live, res, bound, child, radiusVars, leaving, failed>>

\* Radius registers it: the heartbeat starts and the instance is online, whatever
\* happened to it meanwhile.
SpawnRegistered(c) ==
  LET i == op[c].of
  IN /\ op[c].at = "register"
     /\ Mint(i)
     /\ StartHeart(i, minted + 1)
     /\ SetRecord(i, [status |-> "online", pi |-> minted + 1])
     /\ res' = [res EXCEPT ![i].pi = minted + 1]
     /\ op' = [op EXCEPT ![c] = Idle]
     /\ UNCHANGED <<procVars, live, bound, child, beat, ring, leaving, failed>>

SpawnNotRegistered(c) ==
  LET i == op[c].of
  IN /\ op[c].at = "register"
     /\ RegisterFails(i)
     /\ op' = [op EXCEPT ![c] = Doing("rejected", i, "spawn")]
     /\ UNCHANGED <<procVars, liveVars, heart, beat, ring, leaving>>

\* failSpawn.
FailSpawn(c) ==
  LET i == op[c].of
      r == WithStatus(mem[i], "error")
  IN /\ op[c].at = "rejected"
     /\ Cleanup(c, i, "spawn", r, [file EXCEPT ![i] = r])
     /\ UNCHANGED <<procVars, pis, minted, beat, ring, leaving, failed>>

\* stopInstance.
Stop(c, i) ==
  LET r == WithStatus(mem[i], "stopping")
  IN /\ op[c] = Idle /\ i \in live
     /\ Cleanup(c, i, "stop", r, [file EXCEPT ![i] = r])

StopRequest(c, i) ==
  /\ Listening /\ c # Main
  /\ Stop(c, i)
  /\ UNCHANGED <<procVars, pis, minted, beat, ring, leaving, failed>>

\* Slip: the child is not disposed of once Radius is told.
DisconnectedOnly(c) ==
  LET i == op[c].of
  IN /\ op[c].at = "disconnect"
     /\ Unregister(i, op[c].pi)
     /\ op' = [op EXCEPT ![c] = Idle]
     /\ Finish(i, op[c].why, WithPi(mem[i], NoPi), file)
     /\ UNCHANGED <<procVars, res, bound, child, minted, heart, beat, ring, leaving, failed>>

\* disconnectPi of a cleanup is answered.
Disconnected(c) ==
  LET i == op[c].of
  IN /\ op[c].at = "disconnect"
     /\ Unregister(i, op[c].pi)
     /\ Dispose(c, i, op[c].why, op[c].rpc, WithPi(mem[i], NoPi), file)
     /\ UNCHANGED <<procVars, bound, minted, heart, beat, ring, leaving, failed>>

\* It fails: the child is not disposed of, and the instance dropped all the same.  A
\* shutdown that throws so is awaited and rejected again by every handler of its own
\* rejection, and the process does nothing else any more.
NotDisconnected(c) ==
  LET i == op[c].of
  IN /\ op[c].at = "disconnect"
     /\ UnregisterFails(i, op[c].pi)
     /\ Finish(i, op[c].why, mem[i], file)
     /\ op' = [op EXCEPT ![c] = Idle]
     /\ phase' = IF c = Main THEN "hung" ELSE phase
     /\ UNCHANGED <<starts, undone, snap, machine, res, bound, child, minted, heart, beat, ring, leaving>>

\* The exit that a dispose awaits has come.
Disposed(c) ==
  LET i == op[c].of
  IN /\ op[c].at = "dispose" /\ child[i] = "exited"
     /\ Finish(i, op[c].why, mem[i], file)
     /\ op' = [op EXCEPT ![c] = Idle]
     /\ UNCHANGED <<procVars, res, bound, child, radiusVars, leaving, failed>>

\* handleRpc and openRpcStream: whoever has the handle keeps the child's process.
OpenStream(c, i) ==
  /\ Listening /\ c # Main /\ op[c] = Idle
  /\ i \in live /\ res[i].rpc
  /\ op' = [op EXCEPT ![c] = Doing("stream", i, "rpc")]
  /\ UNCHANGED <<procVars, liveVars, radiusVars, leaving, failed>>

\* Slip: send does not look whether the child has exited.
SendBlindly(c) ==
  /\ op[c].at = "stream"
  /\ op' = [op EXCEPT ![c].at = "command"]
  /\ UNCHANGED <<procVars, liveVars, radiusVars, leaving, failed>>

Send(c) ==
  /\ op[c].at = "stream" /\ Speaks(op[c].of)
  /\ op' = [op EXCEPT ![c].at = "command"]
  /\ UNCHANGED <<procVars, liveVars, radiusVars, leaving, failed>>

\* The command is answered; after some the record is refreshed, from the child if the
\* instance still has one (syncInstanceRecord).
Answered(c) ==
  LET i == op[c].of
  IN /\ op[c].at = "command" /\ Speaks(i)
     /\ \/ op' = [op EXCEPT ![c].at = "stream"] /\ UNCHANGED file
        \/ res[i].rpc /\ op' = [op EXCEPT ![c].at = "sync"] /\ UNCHANGED file
        \/ ~res[i].rpc /\ op' = [op EXCEPT ![c].at = "stream"] /\ file' = [file EXCEPT ![i] = mem[i]]
     /\ UNCHANGED <<procVars, live, mem, res, bound, child, radiusVars, leaving, failed>>

Synced(c) ==
  LET i == op[c].of
  IN /\ op[c].at = "sync" /\ Speaks(i)
     /\ op' = [op EXCEPT ![c].at = "stream"]
     /\ file' = [file EXCEPT ![i] = mem[i]]
     /\ UNCHANGED <<procVars, live, mem, res, bound, child, radiusVars, leaving, failed>>

CloseStream(c) ==
  /\ op[c].at = "stream"
  /\ op' = [op EXCEPT ![c] = Idle]
  /\ UNCHANGED <<procVars, liveVars, radiusVars, leaving, failed>>

-----------------------------------------------------------------------------
(* Children                                                                *)

\* handleUnexpectedRpcExit up to its first await.
UnexpectedExit(i) ==
  LET r == WithStatus(mem[i], "error")
  IN /\ SetRecord(i, r)
     /\ bound' = bound \ {i}
     /\ res' = [res EXCEPT ![i].rpc = FALSE]
     /\ heart' = IF res[i].pi # NoPi THEN [heart EXCEPT ![i] = NoHeart] ELSE heart
     /\ IF res[i].pi # NoPi /\ r.pi # NoPi
        THEN leaving' = [leaving EXCEPT ![i] = r.pi] /\ UNCHANGED live
        ELSE live' = live \ {i} /\ UNCHANGED leaving

\* Slip: an exit during a spawn is left to the spawn.
ExitDuringSpawnIgnored(i) ==
  /\ Speaks(i)
  /\ child' = [child EXCEPT ![i] = "exited"]
  /\ op' = RejectPending(i)
  /\ \/ /\ i \in bound /\ i \in live /\ mem[i].status \notin {"starting", "stopping", "stopped"}
        /\ UnexpectedExit(i)
     \/ /\ ~(i \in bound /\ i \in live /\ mem[i].status \notin {"starting", "stopping", "stopped"})
        /\ UNCHANGED <<file, live, mem, res, bound, heart, leaving>>
  /\ UNCHANGED <<procVars, pis, minted, beat, ring, failed>>

\* A child ends: by itself, on the signal, or because its input was closed.  What was
\* asked of it is rejected, then the exit listener is called if it is still attached.
Exit(i) ==
  /\ Speaks(i)
  /\ child' = [child EXCEPT ![i] = "exited"]
  /\ op' = RejectPending(i)
  /\ \/ /\ i \in bound /\ i \in live /\ mem[i].status \notin {"stopping", "stopped"}
        /\ UnexpectedExit(i)
     \/ /\ ~(i \in bound /\ i \in live /\ mem[i].status \notin {"stopping", "stopped"})
        /\ UNCHANGED <<file, live, mem, res, bound, heart, leaving>>
  /\ UNCHANGED <<procVars, pis, minted, beat, ring, failed>>

\* Radius answers the exit handler, or does not.
Left(i) ==
  /\ leaving[i] # NoPi
  /\ leaving' = [leaving EXCEPT ![i] = NoPi]
  /\ \/ /\ Unregister(i, leaving[i])
        /\ SetRecord(i, WithPi(mem[i], NoPi))
        /\ UNCHANGED failed
     \/ /\ UnregisterFails(i, leaving[i])
        /\ UNCHANGED <<mem, file>>
  /\ live' = live \ {i}
  /\ UNCHANGED <<procVars, res, bound, child, minted, heart, beat, ring, op>>

-----------------------------------------------------------------------------
(* The server process                                                      *)

Recovered(r) == IF r.status \in {"starting", "online"} THEN WithStatus(r, "stopped") ELSE r

\* serve: the IPC server listens, then recovery loads the records.
Start ==
  /\ phase = "down" /\ starts < MaxStarts
  /\ phase' = "recovering"
  /\ starts' = starts + 1
  /\ snap' = [i \in Instances |-> Recovered(file[i])]
  /\ undone' = {i \in Instances : file[i].pi # NoPi}
  /\ UNCHANGED <<machine, liveVars, radiusVars, taskVars, failed>>

\* Each registration of the last process is disconnected.
DisconnectOld(i) ==
  /\ phase = "recovering" /\ i \in undone
  /\ undone' = undone \ {i}
  /\ Unregister(i, snap[i].pi)
  /\ UNCHANGED <<phase, starts, snap, machine, liveVars, minted, heart, beat, ring, taskVars, failed>>

\* Slip: the records are saved as they were loaded.
SaveAsLoaded ==
  /\ phase = "recovering" /\ undone = {}
  /\ phase' = "registering"
  /\ failed' = failed \cup live
  /\ snap' = Nothing
  /\ UNCHANGED <<starts, undone, machine, liveVars, radiusVars, taskVars>>

\* Then all records are written, over what requests have stored meanwhile.
SaveRecovered ==
  /\ phase = "recovering" /\ undone = {}
  /\ phase' = "registering"
  /\ file' = snap
  /\ snap' = Nothing
  /\ failed' = failed \cup live
  /\ UNCHANGED <<starts, undone, machine, live, mem, res, bound, child, radiusVars, taskVars>>

\* radiusPresence.start.
MachineRegistered ==
  /\ phase = "registering"
  /\ phase' = "serving"
  /\ machine' = TRUE
  /\ UNCHANGED <<starts, undone, snap, liveVars, radiusVars, taskVars, failed>>

\* A signal: the server closes and the live instances are stopped one by one.
Shutdown ==
  /\ phase = "serving"
  /\ phase' = "stopping"
  /\ undone' = live
  /\ UNCHANGED <<starts, snap, machine, liveVars, radiusVars, taskVars, failed>>

StopNext(i) ==
  /\ phase = "stopping" /\ i \in undone
  /\ undone' = undone \ {i}
  /\ \/ Stop(Main, i)
     \/ /\ op[Main] = Idle /\ i \notin live
        /\ UNCHANGED <<liveVars, heart, op>>
  /\ UNCHANGED <<phase, starts, snap, machine, pis, minted, beat, ring, leaving, failed>>

\* radiusPresence.stop: heartbeats end and the machine is disconnected.
StopPresence ==
  /\ phase = "stopping" /\ undone = {} /\ op[Main] = Idle
  /\ heart' = [i \in Instances |-> NoHeart]
  /\ op' = [op EXCEPT ![Main] = Doing("machine", 0, "stop")]
  /\ UNCHANGED <<procVars, liveVars, pis, minted, beat, ring, leaving, failed>>

\* The process is gone, with all it kept in memory; its children end when their input
\* is closed (rpc-mode.ts).
Gone ==
  /\ phase' = "down" /\ undone' = {} /\ snap' = Nothing
  /\ live' = {} /\ bound' = {} /\ leaving' = [i \in Instances |-> NoPi] /\ ring' = {}
  /\ mem' = Nothing
  /\ res' = [i \in Instances |-> NoResources]
  /\ heart' = [i \in Instances |-> NoHeart]
  /\ beat' = [b \in Beats |-> NoBeat]
  /\ op' = [c \in Actors |-> Idle]
  /\ child' = [i \in Instances |-> IF child[i] = "none" THEN "none" ELSE "exited"]
  /\ failed' = failed \cup {i \in Instances : child[i] # "none"}
  /\ UNCHANGED <<starts, machine, file, pis, minted>>

\* Radius answers the machine's disconnect, and the process exits; or it does not.
Leave ==
  /\ op[Main].at = "machine"
  /\ \/ Gone
     \/ /\ phase' = "hung"
        /\ op' = [op EXCEPT ![Main] = Idle]
        /\ UNCHANGED <<starts, undone, snap, machine, liveVars, radiusVars, leaving, failed>>

\* The process dies, is killed, or ends because recovery or its registration failed.
Crash == phase # "down" /\ Gone

-----------------------------------------------------------------------------
\* What the server does before any other event reaches it.
Microtask ==
  \/ \E c \in Actors : FailSpawn(c) \/ Disposed(c)
  \/ SaveRecovered

MicrotaskDue ==
  \/ \E c \in Actors : op[c].at = "rejected" \/ (op[c].at = "dispose" /\ child[op[c].of] = "exited")
  \/ phase = "recovering" /\ undone = {}

Requests(c) ==
  \/ SpawnAnswered(c) \/ SpawnRegistered(c) \/ SpawnNotRegistered(c)
  \/ Disconnected(c) \/ NotDisconnected(c)
  \/ Send(c) \/ Answered(c) \/ Synced(c) \/ CloseStream(c)
  \/ \E i \in Instances : Spawn(c, i) \/ StopRequest(c, i) \/ OpenStream(c, i)

Radius ==
  \/ MachineRenewed
  \/ \E b \in Beats : Renewed(b) \/ NotRenewed(b)
  \/ \E i \in Instances : HeartFires(i) \/ HeartAnswered(i) \/ HeartLost(i) \/ RenewNext(i)

Server ==
  \/ MachineRegistered \/ Shutdown \/ StopPresence \/ Leave
  \/ \E i \in Instances : DisconnectOld(i) \/ StopNext(i) \/ Left(i)

Step ==
  \/ Start \/ Crash
  \/ /\ phase # "hung" /\ Microtask
  \/ /\ phase # "hung" /\ ~MicrotaskDue
     /\ \/ Radius \/ Server
        \/ \E i \in Instances : Exit(i)
        \/ \E c \in Actors : Requests(c)

\* An instance is being registered; it is being ended.
Registering(i) ==
  \/ \E c \in Actors : op[c].at = "register" /\ op[c].of = i
  \/ \E b \in Beats : beat[b].at = "renew" /\ beat[b].of = i

Ending(i) ==
  \/ leaving[i] # NoPi
  \/ \E c \in Actors : op[c].at \in {"rejected", "disconnect", "dispose"} /\ op[c].of = i

\* Instances whose registration crosses their end or another registration of theirs.
Crossing ==
  {i \in Instances : \/ Registering(i) /\ (Ending(i) \/ i \notin live)
                     \/ Cardinality(pis[i]) > 1}

\* crossed remembers them as long as the process lives; failed, in the actions, those for
\* which a request to Radius or the process failed, or whose record recovery wrote over.
Next == Step /\ crossed' = IF phase' = "down" THEN {} ELSE crossed \cup Crossing'

Spec == Init /\ [][Next]_vars
=============================================================================
