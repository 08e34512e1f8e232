-------------------------- MODULE OrchestratorProofs --------------------------
(* The orchestrator keeps its promises for any number of instances, clients, *)
(* registrations and starts.                                                 *)
EXTENDS OrchestratorProperties, FiniteSetTheorems, TLAPS

-----------------------------------------------------------------------------
(* The inductive invariant                                                 *)

Entry == [status : Statuses \cup {"none"}, pi : Nat]
Resources == [rpc : BOOLEAN, pi : Nat]
Heart == [pi : Nat, armed : BOOLEAN]
Awaits == {"state", "register", "rejected", "disconnect", "dispose", "stream", "command", "sync"}
Op == [at : Awaits \cup {"idle", "machine"}, of : Nat, why : {"none", "spawn", "stop", "rpc"},
       pi : Nat, rpc : BOOLEAN]
Beat == [at : {"idle", "beat", "renew"}, of : Nat, rec : Entry]

Types ==
  /\ undone \subseteq Instances /\ live \subseteq Instances /\ bound \subseteq Instances
  /\ ring \subseteq Instances /\ minted \in Nat
  /\ file \in [Instances -> Entry] /\ mem \in [Instances -> Entry] /\ snap \in [Instances -> Entry]
  /\ res \in [Instances -> Resources]
  /\ child \in [Instances -> {"none", "running", "signalled", "exited"}]
  /\ pis \in [Instances -> SUBSET (1 .. minted)]
  /\ heart \in [Instances -> Heart]
  /\ leaving \in [Instances -> Nat]
  /\ beat \in [Beats -> Beat]
  /\ \A b \in Beats : beat[b].at # "idle" => beat[b].of \in Instances /\ (b # MachineLoop => beat[b].of = b)
  /\ op \in [Actors -> Op]
  /\ \A c \in Actors : op[c].at \in Awaits => op[c].of \in Instances

\* Of an instance that has not been spawned there is nothing anywhere.
Unspawned ==
  /\ \A i \in Instances : child[i] = "none" =>
       /\ i \notin live /\ leaving[i] = NoPi /\ res[i] = NoResources
       /\ heart[i] = NoHeart /\ pis[i] = {} /\ file[i] = NoRecord /\ snap[i] = NoRecord
  /\ \A c \in Actors : op[c].at \in Awaits => child[op[c].of] # "none"
  /\ \A b \in Beats : beat[b].at = "renew" => child[beat[b].of] # "none"

Enders == {"rejected", "disconnect", "dispose"}

\* An instance that nobody is ending has its exit listener attached, and its child
\* has not exited.
Listened == \A i \in live : i \notin bound \/ child[i] = "exited" => Ending(i)

\* Whoever ends an instance has detached the listener, and until then no stop has begun
\* that a renewal could bring back.
StopDetaches ==
  /\ bound \subseteq live
  /\ \A c \in Actors : op[c].at \in {"disconnect", "dispose"} => op[c].of \notin bound
  /\ \A i \in Instances : leaving[i] # NoPi => i \notin bound /\ child[i] = "exited"
  /\ \A i \in bound : mem[i].status \notin {"stopping", "stopped"}
  /\ \A b \in Beats : beat[b].at = "renew" /\ beat[b].of \in bound =>
       beat[b].rec.status \notin {"stopping", "stopped"}

\* The heartbeat of an online instance has not been deleted.
HeartBeats ==
  /\ \A i \in Instances : heart[i].armed => heart[i].pi # NoPi
  /\ phase \in {"recovering", "registering", "serving"} =>
       \A i \in live : mem[i].status = "online" =>
         heart[i].pi # NoPi /\ (heart[i].armed \/ beat[i] # NoBeat)

\* While no process runs there is nothing in memory.
DownIsEmpty ==
  phase = "down" =>
    /\ live = {} /\ ring = {} /\ bound = {}
    /\ \A c \in Actors : op[c] = Idle
    /\ \A b \in Beats : beat[b] = NoBeat
    /\ \A i \in Instances : ~Speaks(i) /\ leaving[i] = NoPi /\ heart[i] = NoHeart /\ mem[i] = NoRecord

\* A registration awaited for an instance that is ending or has ended is remembered.
CrossingKnown ==
  \A i \in Instances : Registering(i) /\ (Ending(i) \/ i \notin live) => i \in crossed

Current == {"starting", "online"}

\* What is written as current is live, or its registration crossed its end; an exit
\* handler that waits has written otherwise, unless a registration crossed it.
CurrentIsLive ==
  /\ \A i \in Instances : mem[i].status \in Current => i \in live \cup crossed
  /\ \A i \in Instances : leaving[i] # NoPi =>
       i \in crossed \/ mem[i].status \notin Current
  /\ phase \in {"registering", "serving", "stopping"} =>
       \A i \in Instances :
         /\ file[i].status \in Current => i \in live \cup crossed
         /\ leaving[i] # NoPi => i \in crossed \/ file[i].status \notin Current
  /\ \A i \in Instances : snap[i].status \notin Current
  /\ \A i \in live : mem[i].status # "none" /\ (file[i] # NoRecord \/ i \in failed)
  /\ \A b \in Beats : beat[b].at = "renew" => beat[b].rec.status # "none"

OrchestratorInv ==
  /\ Types /\ Unspawned
  /\ NobodyAwaitsTheDead /\ Listened /\ StopDetaches
  /\ HeartBeats
  /\ DownIsEmpty /\ CrossingKnown /\ CurrentIsLive

-----------------------------------------------------------------------------
(* Records, requests and what is done to them                              *)

LEMMA Numbers ==
  /\ Instances \subseteq Nat /\ MachineLoop \notin Instances /\ Instances \subseteq Beats
  /\ MachineLoop \in Beats /\ \A b \in Beats : b = MachineLoop \/ b \in Instances
  /\ Clients \subseteq Actors /\ Main \in Actors
  BY BoundsAssumption DEF Instances, MachineLoop, Beats, Actors

LEMMA IdleIs == Idle \in Op /\ Idle.at = "idle" /\ Idle.of = 0
  BY DEF Idle, Op, NoPi

LEMMA DoingIs ==
  ASSUME NEW at \in Awaits \cup {"machine"}, NEW i \in Nat,
         NEW why \in {"none", "spawn", "stop", "rpc"}
  PROVE  /\ Doing(at, i, why) \in Op /\ Doing(at, i, why).at = at /\ Doing(at, i, why).of = i
         /\ Doing(at, i, why).why = why
  BY IdleIs DEF Doing, Op

LEMMA DisconnectingIs ==
  ASSUME NEW i \in Nat, NEW why \in {"spawn", "stop"}, NEW pi \in Nat, NEW rpc \in BOOLEAN
  PROVE  LET x == Disconnecting(i, why, pi, rpc)
         IN  x \in Op /\ x.at = "disconnect" /\ x.of = i /\ x.why = why /\ x.pi = pi /\ x.rpc = rpc
<1>1. "disconnect" \in Awaits
  BY DEF Awaits
<1>2. PICK d \in Op : d = Doing("disconnect", i, why) /\ d.at = "disconnect" /\ d.of = i /\ d.why = why
  BY <1>1, DoingIs
<1>3. Disconnecting(i, why, pi, rpc) = [d EXCEPT !.pi = pi, !.rpc = rpc]
  BY <1>2 DEF Disconnecting
<1>q. QED
  BY <1>2, <1>3 DEF Op

LEMMA EntryIs ==
  ASSUME NEW r \in Entry, NEW s \in Statuses, NEW pi \in Nat
  PROVE  /\ WithStatus(r, s) \in Entry /\ WithStatus(r, s).status = s /\ WithStatus(r, s).pi = r.pi
         /\ WithPi(r, pi) \in Entry /\ WithPi(r, pi).status = r.status /\ WithPi(r, pi).pi = pi
  BY DEF Entry, WithStatus, WithPi

LEMMA RecordIs ==
  ASSUME NEW s \in Statuses, NEW pi \in Nat
  PROVE  LET r == [status |-> s, pi |-> pi]
         IN  r \in Entry /\ r # NoRecord /\ r.status = s /\ r.pi = pi
  BY DEF Entry, NoRecord, Statuses

LEMMA NoneIs ==
  /\ NoRecord \in Entry /\ NoRecord.status = "none" /\ NoRecord.pi = NoPi
  /\ NoResources \in Resources /\ NoResources.pi = NoPi /\ NoResources.rpc = FALSE
  /\ NoHeart \in Heart /\ NoHeart.pi = NoPi /\ NoHeart.armed = FALSE
  /\ NoBeat \in Beat /\ NoBeat.at = "idle" /\ NoPi \in Nat
  /\ Nothing \in [Instances -> Entry] /\ \A i \in Instances : Nothing[i] = NoRecord
  BY DEF NoRecord, Entry, NoResources, Resources, NoHeart, Heart, NoBeat, Beat, NoPi, Nothing

\* What is asked of a child is rejected: a spawn fails, a stream goes on.
Pending == {"state", "command", "sync"}

LEMMA Rejecting ==
  ASSUME Types, NEW i \in Instances
  PROVE  /\ RejectPending(i) \in [Actors -> Op]
         /\ \A c \in Actors :
              \/ /\ op[c].of = i /\ op[c].at \in Pending /\ RejectPending(i)[c].of = i
                 /\ RejectPending(i)[c].at \in {"rejected", "stream"}
              \/ ~(op[c].of = i /\ op[c].at \in Pending) /\ RejectPending(i)[c] = op[c]
<1>1. i \in Nat
  BY Numbers
<1>2. /\ Doing("rejected", i, "spawn") \in Op /\ Doing("rejected", i, "spawn").of = i
      /\ Doing("rejected", i, "spawn").at = "rejected"
      /\ Doing("stream", i, "rpc") \in Op /\ Doing("stream", i, "rpc").of = i
      /\ Doing("stream", i, "rpc").at = "stream"
  BY <1>1, DoingIs DEF Awaits
<1>q. QED
  BY <1>2 DEF RejectPending, Types, Pending

\* One request goes on; those of others stay where they are.
LEMMA OneMoves ==
  ASSUME Types, NEW c \in Actors, NEW x \in Op, op' = [op EXCEPT ![c] = x]
  PROVE  op' \in [Actors -> Op] /\ op'[c] = x /\ \A d \in Actors : d # c => op'[d] = op[d]
  BY DEF Types

\* What crosses is remembered as long as the process lives.
Crosses == crossed' = IF phase' = "down" THEN {} ELSE crossed \cup Crossing'

LEMMA Remembered ==
  ASSUME Crosses, phase' # "down"
  PROVE  /\ DownIsEmpty' /\ CrossingKnown' /\ crossed \subseteq crossed'
         /\ \A i \in Instances : Cardinality(pis'[i]) > 1 => i \in crossed'
  BY DEF Crosses, DownIsEmpty, CrossingKnown, Crossing

-----------------------------------------------------------------------------
(* Heartbeats and renewals                                                 *)

\* Who ends an instance and who awaits its child is as before.
LEMMA Aside ==
  ASSUME OrchestratorInv, UNCHANGED <<live, bound, child, op, leaving>>
  PROVE  NobodyAwaitsTheDead' /\ Listened'
  BY DEF OrchestratorInv, NobodyAwaitsTheDead, Listened, Ending

LEMMA BeatIs ==
  ASSUME NEW at \in {"beat", "renew"}, NEW i \in Instances, NEW r \in Entry
  PROVE  \E x \in Beat : /\ x = [at |-> at, of |-> i, rec |-> r]
                        /\ x # NoBeat /\ x.at = at /\ x.of = i /\ x.rec = r
<1> DEFINE x == [at |-> at, of |-> i, rec |-> r]
<1>1. x \in Beat /\ x # NoBeat /\ x.at = at /\ x.of = i /\ x.rec = r
  BY Numbers DEF Beat, NoBeat
<1> HIDE DEF x
<1>q. QED
  BY <1>1, Zenon DEF x

LEMMA PiIs ==
  ASSUME NEW pi \in Nat
  PROVE  LET r == [status |-> "none", pi |-> pi] IN r \in Entry /\ r.pi = pi
  BY DEF Entry

LEMMA StepHeartFires ==
  ASSUME OrchestratorInv, Crosses, phase # "down", NEW i \in Instances, HeartFires(i)
  PROVE  OrchestratorInv'
<1> USE DEF OrchestratorInv
<1>1. /\ heart[i].armed /\ heart' = [heart EXCEPT ![i].armed = FALSE]
      /\ UNCHANGED <<procVars, liveVars, pis, minted, ring, taskVars, failed>>
  BY DEF HeartFires
<1>2. PICK r \in Entry : beat' = [beat EXCEPT ![i] = [at |-> "beat", of |-> i, rec |-> r]]
  <2>1. heart[i].pi \in Nat
    BY DEF Types, Heart
  <2>q. QED
    BY <2>1, PiIs DEF HeartFires
<1>3. PICK x \in Beat : /\ beat' = [beat EXCEPT ![i] = x]
                        /\ x # NoBeat /\ x.at = "beat" /\ x.of = i
  <2>1. \E x \in Beat : /\ x = [at |-> "beat", of |-> i, rec |-> r]
                       /\ x # NoBeat /\ x.at = "beat" /\ x.of = i
    BY BeatIs
  <2>q. QED
    BY <1>2, <2>1
<1>4. /\ heart' \in [Instances -> Heart] /\ heart'[i].pi = heart[i].pi /\ heart'[i].armed = FALSE
      /\ \A j \in Instances : j # i => heart'[j] = heart[j]
  BY <1>1 DEF Types, Heart
<1>5. /\ beat' \in [Beats -> Beat] /\ beat'[i] = x
      /\ \A b \in Beats : b # i => beat'[b] = beat[b]
  BY <1>3, Numbers DEF Types
<1>6. Types'
  BY <1>1, <1>3, <1>4, <1>5 DEF Types, procVars, liveVars, taskVars
<1>7. DownIsEmpty' /\ CrossingKnown' /\ crossed \subseteq crossed'
  BY <1>1, Remembered DEF procVars
<1>8. NobodyAwaitsTheDead' /\ Listened'
  BY <1>1, Aside DEF liveVars, taskVars
<1>9. Unspawned'
  BY <1>1, <1>3, <1>4, <1>5, NoneIs DEF Unspawned, procVars, liveVars, taskVars
<1>10. StopDetaches'
  BY <1>1, <1>3, <1>5 DEF StopDetaches, liveVars, taskVars
<1>11. HeartBeats'
  BY <1>1, <1>3, <1>4, <1>5 DEF HeartBeats, Types, procVars, liveVars
<1>12. CurrentIsLive'
  BY <1>1, <1>3, <1>5, <1>7 DEF CurrentIsLive, procVars, liveVars, taskVars
<1>q. QED
  BY <1>6, <1>7, <1>8, <1>9, <1>10, <1>11, <1>12

LEMMA HeartIs ==
  ASSUME NEW h \in Heart, h # NoHeart
  PROVE  h.armed \/ h.pi # NoPi
<1>1. ASSUME ~h.armed, h.pi = NoPi PROVE h = NoHeart
  BY <1>1 DEF Heart, NoHeart
<1>q. QED
  BY <1>1

LEMMA Arming ==
  ASSUME Types, NEW i \in Instances, ArmHeart(i)
  PROVE  /\ heart' \in [Instances -> Heart]
         /\ heart'[i].pi = heart[i].pi
         /\ IF heart[i] = NoHeart THEN heart'[i] = NoHeart ELSE heart'[i].armed
         /\ \A j \in Instances : j # i => heart'[j] = heart[j]
<1>1. CASE heart[i] = NoHeart
  BY <1>1 DEF ArmHeart, Types
<1>2. CASE heart[i] # NoHeart
  <2>1. heart' = [heart EXCEPT ![i].armed = TRUE]
    BY <1>2 DEF ArmHeart
  <2>q. QED
    BY <1>2, <2>1 DEF Types, Heart
<1>q. QED
  BY <1>1, <1>2

LEMMA StepHeartAnswered ==
  ASSUME OrchestratorInv, Crosses, phase # "down", NEW i \in Instances, HeartAnswered(i)
  PROVE  OrchestratorInv'
<1> USE DEF OrchestratorInv
<1>1. /\ ArmHeart(i) /\ beat' = [beat EXCEPT ![i] = NoBeat]
      /\ UNCHANGED <<procVars, liveVars, pis, minted, ring, taskVars, failed>>
  BY DEF HeartAnswered
<1>2. /\ beat' \in [Beats -> Beat] /\ beat'[i] = NoBeat
      /\ \A b \in Beats : b # i => beat'[b] = beat[b]
  BY <1>1, Numbers, NoneIs DEF Types
<1>3. /\ heart' \in [Instances -> Heart] /\ heart'[i].pi = heart[i].pi
      /\ IF heart[i] = NoHeart THEN heart'[i] = NoHeart ELSE heart'[i].armed
      /\ \A j \in Instances : j # i => heart'[j] = heart[j]
  BY <1>1, Arming
<1>4. heart[i] # NoHeart => heart[i].pi # NoPi
  BY HeartIs DEF Types, HeartBeats
<1>5. Types'
  BY <1>1, <1>2, <1>3, NoneIs DEF Types, procVars, liveVars, taskVars
<1>6. DownIsEmpty' /\ CrossingKnown' /\ crossed \subseteq crossed'
  BY <1>1, Remembered DEF procVars
<1>7. NobodyAwaitsTheDead' /\ Listened'
  BY <1>1, Aside DEF liveVars, taskVars
<1>8. Unspawned'
  BY <1>1, <1>2, <1>3, NoneIs DEF Unspawned, procVars, liveVars, taskVars
<1>9. StopDetaches'
  BY <1>1, <1>2, NoneIs DEF StopDetaches, liveVars, taskVars
<1>10. HeartBeats'
  BY <1>1, <1>2, <1>3, <1>4, NoneIs, Numbers DEF HeartBeats, Types, procVars, liveVars
<1>11. CurrentIsLive'
  BY <1>1, <1>2, <1>6, NoneIs DEF CurrentIsLive, procVars, liveVars, taskVars
<1>q. QED
  BY <1>5, <1>6, <1>7, <1>8, <1>9, <1>10, <1>11

\* A renewal begins, or finds that its instance is no longer there.
LEMMA StepRenew ==
  ASSUME OrchestratorInv, Crosses, phase # "down", NEW i \in Instances, NEW b \in Beats,
         b = MachineLoop \/ b = i, Renew(b, i), ring' \subseteq ring,
         pis' \in [Instances -> SUBSET (1 .. minted)], \A j \in Instances : pis'[j] \subseteq pis[j],
         UNCHANGED <<procVars, liveVars, minted, taskVars, failed>>
  PROVE  OrchestratorInv'
<1> USE DEF OrchestratorInv
<1>1. PICK x \in Beat : /\ beat' = [beat EXCEPT ![b] = x]
                        /\ \/ /\ i \in live /\ x # NoBeat /\ x.at = "renew" /\ x.of = i /\ x.rec = mem[i]
                              /\ heart' = heart
                           \/ /\ i \notin live /\ x = NoBeat /\ heart' = [heart EXCEPT ![i] = NoHeart]
  <2>1. CASE i \in live
    <3>1. mem[i] \in Entry
      BY DEF Types
    <3>2. \E x \in Beat : /\ x = [at |-> "renew", of |-> i, rec |-> mem[i]]
                          /\ x # NoBeat /\ x.at = "renew" /\ x.of = i /\ x.rec = mem[i]
      BY <3>1, BeatIs
    <3>3. beat' = [beat EXCEPT ![b] = [at |-> "renew", of |-> i, rec |-> mem[i]]] /\ heart' = heart
      BY <2>1 DEF Renew
    <3>q. QED
      BY <2>1, <3>2, <3>3
  <2>2. CASE i \notin live
    BY <2>2, NoneIs DEF Renew
  <2>q. QED
    BY <2>1, <2>2
<1>2. /\ beat' \in [Beats -> Beat] /\ beat'[b] = x
      /\ \A a \in Beats : a # b => beat'[a] = beat[a]
  BY <1>1 DEF Types
<1>3. /\ heart' \in [Instances -> Heart] /\ \A j \in Instances : heart'[j] = heart[j] \/ heart'[j] = NoHeart
      /\ \A j \in live : heart'[j] = heart[j]
  BY <1>1, NoneIs DEF Types
<1>4. Types'
  BY <1>1, <1>2, <1>3, NoneIs, Numbers DEF Types, procVars, liveVars, taskVars
<1>5. DownIsEmpty' /\ CrossingKnown' /\ crossed \subseteq crossed'
  BY Remembered DEF procVars
<1>6. NobodyAwaitsTheDead' /\ Listened'
  BY Aside DEF liveVars, taskVars
<1>7. Unspawned'
  <2>1. i \in live => child[i] # "none"
    BY DEF Unspawned
  <2>q. QED
    BY <1>1, <1>2, <1>3, <2>1, NoneIs DEF Unspawned, procVars, liveVars, taskVars
<1>8. StopDetaches'
  BY <1>1, <1>2, NoneIs DEF StopDetaches, liveVars, taskVars
<1>9. HeartBeats'
  BY <1>1, <1>2, <1>3, NoneIs, Numbers DEF HeartBeats, Types, procVars, liveVars
<1>10. CurrentIsLive'
  BY <1>1, <1>2, <1>5, NoneIs DEF CurrentIsLive, procVars, liveVars, taskVars
<1>q. QED
  BY <1>4, <1>5, <1>6, <1>7, <1>8, <1>9, <1>10

\* A registration ends at Radius.
LEMMA Unregistering ==
  ASSUME Types, NEW i \in Instances, NEW pi, Unregister(i, pi)
  PROVE  /\ pis' \in [Instances -> SUBSET (1 .. minted)]
         /\ pis'[i] = pis[i] \ {pi} /\ \A j \in Instances : j # i => pis'[j] = pis[j]
         /\ \A j \in Instances : pis'[j] \subseteq pis[j]
  BY DEF Unregister, Types

LEMMA StepHeartLost ==
  ASSUME OrchestratorInv, Crosses, phase # "down", NEW i \in Instances,
         HeartLost(i) \/ RenewNext(i)
  PROVE  OrchestratorInv'
<1>1. CASE HeartLost(i)
  <2>1. /\ pis' \in [Instances -> SUBSET (1 .. minted)] /\ \A j \in Instances : pis'[j] \subseteq pis[j]
    BY <1>1, Unregistering DEF HeartLost, OrchestratorInv
  <2>q. QED
    BY <1>1, <2>1, StepRenew, Numbers DEF HeartLost
<1>2. CASE RenewNext(i)
  <2>1. pis' \in [Instances -> SUBSET (1 .. minted)] /\ ring' \subseteq ring
    BY <1>2 DEF RenewNext, OrchestratorInv, Types
  <2>q. QED
    BY <1>2, <2>1, StepRenew, Numbers DEF RenewNext
<1>q. QED
  BY <1>1, <1>2

LEMMA StepMachineRenewed ==
  ASSUME OrchestratorInv, Crosses, phase # "down", MachineRenewed
  PROVE  OrchestratorInv'
<1> USE DEF OrchestratorInv
<1>1. /\ pis' = [i \in Instances |-> {}] /\ ring' = live
      /\ UNCHANGED <<procVars, liveVars, minted, heart, beat, taskVars, failed>>
  BY DEF MachineRenewed
<1>2. Types'
  BY <1>1 DEF Types, procVars, liveVars, taskVars
<1>3. DownIsEmpty' /\ CrossingKnown' /\ crossed \subseteq crossed'
  BY <1>1, Remembered DEF procVars
<1>4. NobodyAwaitsTheDead' /\ Listened'
  BY <1>1, Aside DEF liveVars, taskVars
<1>5. Unspawned' /\ StopDetaches' /\ HeartBeats'
  BY <1>1 DEF Unspawned, procVars, StopDetaches, HeartBeats, procVars, liveVars, taskVars
<1>6. CurrentIsLive'
  BY <1>1, <1>3 DEF CurrentIsLive, procVars, liveVars, taskVars
<1>q. QED
  BY <1>2, <1>3, <1>4, <1>5, <1>6

\* Radius gives out a registration that nobody had.
LEMMA Minting ==
  ASSUME Types, NEW i \in Instances, Mint(i)
  PROVE  /\ minted' = minted + 1 /\ minted' \in Nat /\ minted' # NoPi /\ minted' \notin pis[i]
         /\ pis' \in [Instances -> SUBSET (1 .. minted')]
         /\ pis'[i] = pis[i] \cup {minted'} /\ \A j \in Instances : j # i => pis'[j] = pis[j]
<1>1. minted' = minted + 1 /\ pis' = [pis EXCEPT ![i] = @ \cup {minted + 1}] /\ minted \in Nat
  BY DEF Mint, Types
<1>2. minted' \in Nat /\ minted' # NoPi
  BY <1>1 DEF NoPi
<1>3. \A S \in SUBSET (1 .. minted) : S \in SUBSET (1 .. minted') /\ minted' \notin S
  BY <1>1
<1>4. minted' \in 1 .. minted'
  BY <1>1
<1>5. pis \in [Instances -> SUBSET (1 .. minted)]
  BY DEF Types
<1>6. pis' \in [Instances -> SUBSET (1 .. minted')]
  <2>1. pis[i] \in SUBSET (1 .. minted') /\ pis[i] \cup {minted + 1} \in SUBSET (1 .. minted')
    BY <1>1, <1>3, <1>4, <1>5
  <2>2. pis \in [Instances -> SUBSET (1 .. minted')]
    BY <1>3, <1>5
  <2>q. QED
    BY <1>1, <2>1, <2>2
<1>q. QED
  BY <1>1, <1>2, <1>3, <1>5, <1>6

LEMMA RegisterFailing ==
  ASSUME Types, NEW i \in Instances, RegisterFails(i)
  PROVE  /\ minted' \in Nat /\ pis' \in [Instances -> SUBSET (1 .. minted')]
         /\ \A j \in Instances : j # i => pis'[j] = pis[j]
         /\ failed \subseteq failed' /\ (i \in failed' \/ pis' = pis)
<1>1. CASE Mint(i) /\ failed' = failed \cup {i}
  BY <1>1, Minting
<1>2. CASE UNCHANGED <<pis, minted, failed>>
  BY <1>2 DEF Types
<1>q. QED
  BY <1>1, <1>2 DEF RegisterFails

LEMMA Starting ==
  ASSUME Types, NEW i \in Instances, NEW pi \in Nat, StartHeart(i, pi)
  PROVE  /\ heart' \in [Instances -> Heart] /\ heart'[i].pi = pi /\ heart'[i].armed
         /\ \A j \in Instances : j # i => heart'[j] = heart[j]
<1>1. [pi |-> pi, armed |-> TRUE] \in Heart
  BY DEF Heart
<1>q. QED
  BY <1>1 DEF StartHeart, Types

LEMMA StepNotRenewed ==
  ASSUME OrchestratorInv, Crosses, phase # "down", NEW b \in Beats, NotRenewed(b)
  PROVE  OrchestratorInv'
<1> USE DEF OrchestratorInv
<1>1. PICK i \in Instances : i = beat[b].of /\ (b # MachineLoop => b = i)
  BY DEF NotRenewed, Types
<1>2. /\ beat[b].at = "renew" /\ RegisterFails(i) /\ beat' = [beat EXCEPT ![b] = NoBeat]
      /\ IF b = MachineLoop THEN UNCHANGED heart ELSE ArmHeart(i)
      /\ UNCHANGED <<procVars, liveVars, ring, taskVars>>
  BY <1>1 DEF NotRenewed
<1>3. /\ minted' \in Nat /\ pis' \in [Instances -> SUBSET (1 .. minted')]
      /\ \A j \in Instances : j # i => pis'[j] = pis[j]
      /\ failed \subseteq failed'
  BY <1>2, RegisterFailing
<1>4. /\ beat' \in [Beats -> Beat] /\ beat'[b] = NoBeat
      /\ \A a \in Beats : a # b => beat'[a] = beat[a]
  BY <1>2, NoneIs DEF Types
<1>5. /\ heart' \in [Instances -> Heart] /\ heart'[i].pi = heart[i].pi
      /\ heart[i].armed => heart'[i].armed
      /\ b = i => IF heart[i] = NoHeart THEN heart'[i] = NoHeart ELSE heart'[i].armed
      /\ \A j \in Instances : j # i => heart'[j] = heart[j]
      /\ heart[i] = NoHeart => heart'[i] = NoHeart
  <2>1. CASE b = MachineLoop
    BY <1>2, <2>1, Numbers DEF Types
  <2>2. CASE b # MachineLoop
    BY <1>2, <2>2, Arming, NoneIs
  <2>q. QED
    BY <2>1, <2>2
<1>6. heart[i] # NoHeart => heart[i].pi # NoPi
  BY HeartIs DEF Types, HeartBeats
<1>7. Types'
  BY <1>2, <1>3, <1>4, <1>5, NoneIs DEF Types, procVars, liveVars, taskVars
<1>8. DownIsEmpty' /\ CrossingKnown' /\ crossed \subseteq crossed'
  BY <1>2, Remembered DEF procVars
<1>9. NobodyAwaitsTheDead' /\ Listened'
  BY <1>2, Aside DEF liveVars, taskVars
<1>10. Unspawned'
  <2>1. child[i] # "none"
    BY <1>1, <1>2 DEF Unspawned
  <2>q. QED
    BY <1>2, <1>3, <1>4, <1>5, <2>1, NoneIs DEF Unspawned, procVars, liveVars, taskVars
<1>11. StopDetaches'
  BY <1>2, <1>4, NoneIs DEF StopDetaches, liveVars, taskVars
<1>12. HeartBeats'
  <2>1. \A j \in Instances : heart'[j].armed => heart'[j].pi # NoPi
    BY <1>5, <1>6, NoneIs DEF HeartBeats
  <2>2. ASSUME NEW j \in live, heart[j].pi # NoPi, heart[j].armed \/ beat[j] # NoBeat
        PROVE  heart'[j].pi # NoPi /\ (heart'[j].armed \/ beat'[j] # NoBeat)
    <3>1. j \in Instances /\ j \in Beats /\ (b # MachineLoop => b = i) /\ j # MachineLoop
      BY <1>1, Numbers DEF Types
    <3>2. CASE j = b
      BY <1>1, <1>5, <2>2, <3>1, <3>2, NoneIs
    <3>3. CASE j # b
      BY <1>4, <1>5, <2>2, <3>1, <3>3
    <3>q. QED
      BY <3>2, <3>3
  <2>q. QED
    BY <1>2, <2>1, <2>2 DEF HeartBeats, procVars, liveVars
<1>13. CurrentIsLive'
  BY <1>2, <1>3, <1>4, <1>8, NoneIs DEF CurrentIsLive, procVars, liveVars, taskVars
<1>q. QED
  BY <1>7, <1>8, <1>9, <1>10, <1>11, <1>12, <1>13

LEMMA StepRenewed ==
  ASSUME OrchestratorInv, Crosses, phase # "down", NEW b \in Beats, Renewed(b)
  PROVE  OrchestratorInv'
<1> USE DEF OrchestratorInv
<1>1. PICK i \in Instances, r \in Entry :
        /\ i = beat[b].of /\ (b # MachineLoop => b = i) /\ beat[b].at = "renew"
        /\ r = WithPi(beat[b].rec, minted + 1) /\ r.pi = minted + 1 /\ r.status = beat[b].rec.status
  <2>1. beat[b].rec \in Entry /\ minted + 1 \in Nat /\ "error" \in Statuses
    BY DEF Types, Beat, Statuses
  <2>2. beat[b].at = "renew" /\ beat[b].of \in Instances /\ (b # MachineLoop => b = beat[b].of)
    BY DEF Renewed, Types
  <2>q. QED
    BY <2>1, <2>2, EntryIs
<1>2. /\ Mint(i) /\ StartHeart(i, minted + 1) /\ beat' = [beat EXCEPT ![b] = NoBeat]
      /\ mem' = IF i \in live THEN [mem EXCEPT ![i] = r] ELSE mem
      /\ res' = IF i \in live THEN [res EXCEPT ![i].pi = r.pi] ELSE res
      /\ file' = [file EXCEPT ![i] = r]
      /\ UNCHANGED <<procVars, live, bound, child, ring, taskVars, failed>>
  BY <1>1 DEF Renewed
<1>3. /\ minted' = minted + 1 /\ minted' \in Nat /\ minted' # NoPi
      /\ pis' \in [Instances -> SUBSET (1 .. minted')]
      /\ \A j \in Instances : j # i => pis'[j] = pis[j]
  BY <1>2, Minting
<1>4. /\ beat' \in [Beats -> Beat] /\ beat'[b] = NoBeat
      /\ \A a \in Beats : a # b => beat'[a] = beat[a]
  BY <1>2, NoneIs DEF Types
<1>5. /\ heart' \in [Instances -> Heart] /\ heart'[i].pi # NoPi /\ heart'[i].armed
      /\ \A j \in Instances : j # i => heart'[j] = heart[j]
  BY <1>2, <1>3, Starting
<1>6. /\ mem' \in [Instances -> Entry] /\ (i \in live => mem'[i] = r) /\ (i \notin live => mem' = mem)
      /\ \A j \in Instances : j # i => mem'[j] = mem[j]
      /\ file' \in [Instances -> Entry] /\ file'[i] = r
      /\ \A j \in Instances : j # i => file'[j] = file[j]
  BY <1>2 DEF Types
<1>7. res' \in [Instances -> Resources] /\ \A j \in Instances : j # i => res'[j] = res[j]
  <2>1. r.pi \in Nat
    BY DEF Entry
  <2>q. QED
    BY <1>2, <2>1 DEF Types, Resources
<1>8. Types'
  BY <1>2, <1>3, <1>4, <1>5, <1>6, <1>7, NoneIs DEF Types, procVars, taskVars
<1>9. DownIsEmpty' /\ CrossingKnown' /\ crossed \subseteq crossed'
  BY <1>2, Remembered DEF procVars
<1>10. NobodyAwaitsTheDead' /\ Listened'
  BY <1>2, Aside DEF taskVars
<1>11. Unspawned'
  <2>1. child[i] # "none"
    BY <1>1 DEF Unspawned
  <2>q. QED
    BY <1>2, <1>3, <1>4, <1>5, <1>6, <1>7, <2>1, NoneIs DEF Unspawned, procVars, taskVars
<1>12. StopDetaches'
  <2>1. i \in bound => r.status \notin {"stopping", "stopped"}
    BY <1>1 DEF StopDetaches
  <2>q. QED
    BY <1>2, <1>4, <1>6, <2>1, NoneIs DEF StopDetaches, Types, taskVars
<1>13. HeartBeats'
  <2>1. \A j \in Instances : heart'[j].armed => heart'[j].pi # NoPi
    BY <1>5 DEF HeartBeats
  <2>2. ASSUME NEW j \in live, j # i PROVE mem'[j] = mem[j] /\ heart'[j] = heart[j] /\ beat'[j] = beat[j]
    BY <1>1, <1>4, <1>5, <1>6, <2>2, Numbers DEF Types
  <2>q. QED
    BY <1>2, <1>5, <2>1, <2>2 DEF HeartBeats, procVars
<1>14. CurrentIsLive'
  <2>1. (i \in live /\ leaving[i] = NoPi) \/ i \in crossed
    BY <1>1 DEF CrossingKnown, Registering, Ending
  <2>2. r.status # "none" /\ r # NoRecord
    BY <1>1, NoneIs DEF CurrentIsLive
  <2>q. QED
    BY <1>2, <1>4, <1>6, <1>9, <2>1, <2>2, NoneIs DEF CurrentIsLive, procVars, taskVars
<1>q. QED
  BY <1>8, <1>9, <1>10, <1>11, <1>12, <1>13, <1>14

-----------------------------------------------------------------------------
(* The server process                                                      *)

LEMMA StepStart ==
  ASSUME OrchestratorInv, Crosses, Start
  PROVE  OrchestratorInv'
<1> USE DEF OrchestratorInv
<1>1. /\ phase = "down" /\ phase' = "recovering"
      /\ snap' = [i \in Instances |-> Recovered(file[i])]
      /\ undone' = {i \in Instances : file[i].pi # NoPi}
      /\ UNCHANGED <<machine, liveVars, radiusVars, taskVars, failed>>
  BY DEF Start
<1>2. \A r \in Entry : Recovered(r) \in Entry /\ Recovered(r).status \notin Current
  BY EntryIs DEF Recovered, Current, Statuses
<1>3. Types'
  BY <1>1, <1>2 DEF Types, liveVars, radiusVars, taskVars
<1>4. DownIsEmpty' /\ CrossingKnown' /\ crossed \subseteq crossed'
  BY <1>1, Remembered
<1>5. NobodyAwaitsTheDead' /\ Listened'
  BY <1>1, Aside DEF liveVars, taskVars
<1>6. Unspawned' /\ StopDetaches'
  <2>1. Recovered(NoRecord) = NoRecord
    BY NoneIs DEF Recovered
  <2>q. QED
    BY <1>1, <2>1 DEF Unspawned, StopDetaches, liveVars, radiusVars, taskVars
<1>7. HeartBeats'
  BY <1>1 DEF HeartBeats, DownIsEmpty, liveVars, radiusVars
<1>8. CurrentIsLive'
  BY <1>1, <1>2, <1>4 DEF CurrentIsLive, Types, liveVars, radiusVars, taskVars
<1>q. QED
  BY <1>3, <1>4, <1>5, <1>6, <1>7, <1>8

LEMMA StepRecovery ==
  ASSUME OrchestratorInv, Crosses, phase # "down",
         (\E i \in Instances : DisconnectOld(i)) \/ SaveRecovered
  PROVE  OrchestratorInv'
<1> USE DEF OrchestratorInv
<1>1. /\ phase' # "down" /\ undone' \subseteq Instances
      /\ UNCHANGED <<starts, machine, live, mem, res, bound, child, minted, heart, beat, ring, taskVars>>
  BY DEF DisconnectOld, SaveRecovered, liveVars, radiusVars, Types
<1>2. DownIsEmpty' /\ CrossingKnown' /\ crossed \subseteq crossed'
  BY <1>1, Remembered
<1>3. NobodyAwaitsTheDead' /\ Listened' /\ StopDetaches'
  BY <1>1, Aside DEF StopDetaches, taskVars
<1>4. ASSUME NEW i \in Instances, DisconnectOld(i) PROVE OrchestratorInv'
  <2>1. UNCHANGED <<phase, snap, file, failed>>
    BY <1>4 DEF DisconnectOld, liveVars
  <2>2. pis' \in [Instances -> SUBSET (1 .. minted)] /\ \A j \in Instances : pis'[j] \subseteq pis[j]
    BY <1>4, Unregistering DEF DisconnectOld
  <2>3. Types' /\ Unspawned'
    BY <1>1, <2>1, <2>2 DEF Types, Unspawned, taskVars
  <2>4. HeartBeats' /\ CurrentIsLive'
    BY <1>1, <1>2, <2>1 DEF HeartBeats, CurrentIsLive, taskVars
  <2>q. QED
    BY <1>2, <1>3, <2>3, <2>4
<1>5. ASSUME SaveRecovered PROVE OrchestratorInv'
  <2>1. /\ phase = "recovering" /\ phase' = "registering" /\ file' = snap /\ snap' = Nothing
        /\ failed' = failed \cup live /\ pis' = pis
    BY <1>5 DEF SaveRecovered, radiusVars
  <2>2. Types'
    BY <1>1, <2>1, NoneIs DEF Types, taskVars
  <2>3. \A i \in Instances : child[i] = "none" => snap[i] = NoRecord
    BY DEF Unspawned
  <2>4. Unspawned'
    BY <1>1, <2>1, <2>3, NoneIs DEF Unspawned, taskVars
  <2>5. HeartBeats' /\ CurrentIsLive'
    BY <1>1, <1>2, <2>1, NoneIs DEF HeartBeats, CurrentIsLive, Current, taskVars
  <2>q. QED
    BY <1>2, <1>3, <2>2, <2>4, <2>5
<1>q. QED
  BY <1>4, <1>5

\* The process moves on; nothing else does.
LEMMA StepPhase ==
  ASSUME OrchestratorInv, Crosses, phase # "down",
         \/ MachineRegistered \/ Shutdown
         \/ /\ phase = "stopping" /\ undone' \subseteq undone
            /\ UNCHANGED <<phase, starts, snap, machine, liveVars, radiusVars, taskVars, failed>>
  PROVE  OrchestratorInv'
<1> USE DEF OrchestratorInv
<1>1. /\ undone' \subseteq Instances /\ phase' # "down" /\ phase' # "recovering"
      /\ phase' = "registering" => phase = "registering"
      /\ phase' = "serving" => phase \in {"registering", "serving"}
      /\ phase' = "stopping" => phase \in {"serving", "stopping"}
      /\ UNCHANGED <<snap, liveVars, radiusVars, taskVars, failed>>
  BY DEF MachineRegistered, Shutdown, Types
<1>2. Types'
  BY <1>1 DEF Types, liveVars, radiusVars, taskVars
<1>3. DownIsEmpty' /\ CrossingKnown' /\ crossed \subseteq crossed'
  BY <1>1, Remembered
<1>4. NobodyAwaitsTheDead' /\ Listened'
  BY <1>1, Aside DEF liveVars, taskVars
<1>5. Unspawned' /\ StopDetaches' /\ HeartBeats'
  BY <1>1 DEF Unspawned, StopDetaches, HeartBeats, liveVars, radiusVars, taskVars
<1>6. CurrentIsLive'
  BY <1>1, <1>3 DEF CurrentIsLive, liveVars, radiusVars, taskVars
<1>q. QED
  BY <1>2, <1>3, <1>4, <1>5, <1>6

-----------------------------------------------------------------------------
(* Requests                                                                *)

LEMMA AtIs ==
  ASSUME NEW x \in Op, NEW at \in Awaits
  PROVE  /\ [x EXCEPT !.at = at] \in Op /\ [x EXCEPT !.at = at].at = at
         /\ [x EXCEPT !.at = at].of = x.of
  BY DEF Op

\* A request goes on that ends nothing, with a record written as it is or none.
LEMMA StepTalk ==
  ASSUME OrchestratorInv, Crosses, phase # "down", NEW c \in Actors, NEW x \in Op,
         op' = [op EXCEPT ![c] = x],
         op[c].at \notin Enders, x.at \notin {"disconnect", "dispose"},
         x.at \in Awaits => x.of \in Instances /\ child[x.of] # "none",
         x.at \in Pending => child[x.of] # "exited",
         file' = file \/ \E i \in Instances : child[i] # "none" /\ file' = [file EXCEPT ![i] = mem[i]],
         heart' = heart \/ (phase = "stopping" /\ heart' = [i \in Instances |-> NoHeart]),
         phase' = phase \/ phase' = "hung",
         UNCHANGED <<starts, undone, snap, machine, live, mem, res, bound, child, pis, minted,
                     beat, ring, leaving, failed>>
  PROVE  OrchestratorInv'
<1> USE DEF OrchestratorInv
<1>1. op' \in [Actors -> Op] /\ op'[c] = x /\ \A d \in Actors : d # c => op'[d] = op[d]
  BY OneMoves
<1>2. /\ file' \in [Instances -> Entry]
      /\ \A i \in Instances : file'[i] = file[i] \/ (child[i] # "none" /\ file'[i] = mem[i])
  BY DEF Types
<1>3. heart' \in [Instances -> Heart] /\ \A i \in Instances : heart'[i] = heart[i] \/ heart'[i] = NoHeart
  BY NoneIs DEF Types
<1>4. Types'
  BY <1>1, <1>2, <1>3 DEF Types
<1>5. DownIsEmpty' /\ CrossingKnown' /\ crossed \subseteq crossed'
  BY Remembered
<1>6. NobodyAwaitsTheDead'
  BY <1>1 DEF NobodyAwaitsTheDead, Pending
<1>7. Listened'
  <2>1. \A i \in Instances : Ending(i) => Ending(i)'
    BY <1>1 DEF Ending, Enders
  <2>q. QED
    BY <2>1 DEF Listened, Types
<1>8. Unspawned'
  BY <1>1, <1>2, <1>3 DEF Unspawned
<1>9. StopDetaches'
  BY <1>1 DEF StopDetaches
<1>10. HeartBeats'
  BY <1>3, NoneIs DEF HeartBeats
<1>11. CurrentIsLive'
  <2>1. \A i \in live : file'[i] # NoRecord \/ i \in failed'
    BY <1>2, NoneIs DEF CurrentIsLive, Types
  <2>q. QED
    BY <1>2, <1>5, <2>1 DEF CurrentIsLive
<1>q. QED
  BY <1>4, <1>5, <1>6, <1>7, <1>8, <1>9, <1>10, <1>11

LEMMA StepStream ==
  ASSUME OrchestratorInv, Crosses, phase # "down", NEW c \in Actors,
         \/ Send(c) \/ Answered(c) \/ Synced(c) \/ CloseStream(c)
         \/ \E i \in Instances : OpenStream(c, i)
  PROVE  OrchestratorInv'
<1> USE DEF OrchestratorInv
<1>1. ASSUME NEW at \in {"stream", "command", "sync"}, op' = [op EXCEPT ![c].at = at],
             op[c].at \in {"stream", "command", "sync"}, Speaks(op[c].of),
             file' = file \/ file' = [file EXCEPT ![op[c].of] = mem[op[c].of]],
             UNCHANGED <<procVars, live, mem, res, bound, child, radiusVars, leaving, failed>>
      PROVE  OrchestratorInv'
  <2>1. op[c] \in Op /\ at \in Awaits /\ op[c].at \in Awaits
    BY <1>1 DEF Types, Awaits
  <2>2. PICK x \in Op : x = [op[c] EXCEPT !.at = at] /\ x.at = at /\ x.of = op[c].of
    BY <2>1, AtIs
  <2>3. op' = [op EXCEPT ![c] = x]
    BY <1>1, <2>2
  <2>4. op[c].of \in Instances /\ child[op[c].of] \notin {"none", "exited"}
    BY <1>1, <2>1 DEF Types, Speaks
  <2>5. op[c].at \notin Enders /\ x.at \notin {"disconnect", "dispose"}
    BY <1>1, <2>2 DEF Enders
  <2>6. file' = file \/ \E i \in Instances : child[i] # "none" /\ file' = [file EXCEPT ![i] = mem[i]]
    BY <1>1, <2>4
  <2>7. UNCHANGED <<phase, starts, undone, snap, machine, live, mem, res, bound, child, pis, minted,
                    heart, beat, ring, leaving, failed>>
    BY <1>1 DEF procVars, radiusVars
  <2>q. QED
    BY <2>2, <2>3, <2>4, <2>5, <2>6, <2>7, StepTalk
<1>2. ASSUME Send(c) \/ Synced(c) \/ Answered(c) PROVE OrchestratorInv'
  BY <1>1, <1>2 DEF Send, Synced, Answered, liveVars
<1>3. ASSUME CloseStream(c) PROVE OrchestratorInv'
  <2>1. /\ op[c].at \notin Enders /\ op' = [op EXCEPT ![c] = Idle]
        /\ UNCHANGED <<phase, starts, undone, snap, machine, file, live, mem, res, bound, child, pis,
                       minted, heart, beat, ring, leaving, failed>>
    BY <1>3 DEF CloseStream, Enders, procVars, liveVars, radiusVars
  <2>2. Idle \in Op /\ Idle.at \notin Awaits \cup Pending
    BY IdleIs DEF Awaits, Pending
  <2>q. QED
    BY <2>1, <2>2, StepTalk, IdleIs
<1>4. ASSUME NEW i \in Instances, OpenStream(c, i) PROVE OrchestratorInv'
  <2>1. i \in Nat /\ "stream" \in Awaits \cup {"machine"}
    BY Numbers DEF Awaits
  <2>2. PICK x \in Op : x = Doing("stream", i, "rpc") /\ x.at = "stream" /\ x.of = i
    BY <2>1, DoingIs
  <2>3. child[i] # "none"
    BY <1>4 DEF OpenStream, Unspawned
  <2>4. /\ op[c].at \notin Enders /\ op' = [op EXCEPT ![c] = x]
        /\ UNCHANGED <<phase, starts, undone, snap, machine, file, live, mem, res, bound, child, pis,
                       minted, heart, beat, ring, leaving, failed>>
    BY <1>4, <2>2, IdleIs DEF OpenStream, Enders, procVars, liveVars, radiusVars
  <2>5. x.at \notin Pending \cup {"disconnect", "dispose"}
    BY <2>2 DEF Pending
  <2>q. QED
    BY <2>2, <2>3, <2>4, <2>5, StepTalk
<1>q. QED
  BY <1>2, <1>3, <1>4

LEMMA StepSpawnAnswered ==
  ASSUME OrchestratorInv, Crosses, phase # "down", NEW c \in Actors, SpawnAnswered(c)
  PROVE  OrchestratorInv'
<1> USE DEF OrchestratorInv
<1>1. PICK i \in Instances : i = op[c].of /\ child[i] # "none"
  BY DEF SpawnAnswered, Types, Awaits, Speaks
<1>2. PICK at \in {"register", "rejected"} : op' = [op EXCEPT ![c] = Doing(at, i, "spawn")]
  BY <1>1 DEF SpawnAnswered
<1>3. i \in Nat /\ at \in Awaits
  BY Numbers DEF Awaits
<1>4. PICK x \in Op : x = Doing(at, i, "spawn") /\ x.at = at /\ x.of = i
  BY <1>3, DoingIs
<1>5. /\ op[c].at = "state" /\ mem' = mem /\ file' = [file EXCEPT ![i] = mem[i]]
      /\ UNCHANGED <<procVars, live, res, bound, child, radiusVars, leaving, failed>>
  BY <1>1 DEF SpawnAnswered, SetRecord, Types
<1>q. QED
  BY <1>1, <1>2, <1>4, <1>5, StepTalk DEF Enders, Pending, procVars, radiusVars

LEMMA StepLeaving ==
  ASSUME OrchestratorInv, Crosses, phase # "down", StopPresence \/ Leave, phase' # "down"
  PROVE  OrchestratorInv'
<1> USE DEF OrchestratorInv
<1>1. CASE StopPresence
  <2>1. PICK x \in Op : x = Doing("machine", 0, "stop") /\ x.at = "machine"
    BY DoingIs
  <2>q. QED
    BY <1>1, <2>1, StepTalk, IdleIs, Numbers
       DEF StopPresence, Enders, Pending, Awaits, procVars, liveVars
<1>2. CASE Leave
  BY <1>2, StepTalk, IdleIs, Numbers DEF Leave, Gone, Enders, Pending, Awaits, liveVars, radiusVars
<1>q. QED
  BY <1>1, <1>2

LEMMA StepSpawn ==
  ASSUME OrchestratorInv, Crosses, phase # "down", NEW c \in Actors, NEW i \in Instances, Spawn(c, i)
  PROVE  OrchestratorInv'
<1> USE DEF OrchestratorInv
<1>1. PICK r \in Entry : r = [status |-> "starting", pi |-> NoPi] /\ r.status = "starting" /\ r # NoRecord
  <2>1. NoPi \in Nat /\ "starting" \in Statuses
    BY DEF NoPi, Statuses
  <2>q. QED
    BY <2>1, RecordIs
<1>2. /\ op[c] = Idle /\ child[i] = "none"
      /\ live' = live \cup {i} /\ bound' = bound \cup {i}
      /\ mem' = [mem EXCEPT ![i] = r] /\ file' = [file EXCEPT ![i] = r]
      /\ res' = [res EXCEPT ![i].rpc = TRUE]
      /\ child' = [child EXCEPT ![i] = "running"]
      /\ UNCHANGED <<procVars, radiusVars, leaving, failed>>
  BY <1>1 DEF Spawn, SetRecord
<1>3. PICK x \in Op : op' = [op EXCEPT ![c] = x] /\ x.at = "state" /\ x.of = i
  <2>1. i \in Nat /\ "state" \in Awaits
    BY Numbers DEF Awaits
  <2>2. PICK x \in Op : x = Doing("state", i, "spawn") /\ x.at = "state" /\ x.of = i
    BY <2>1, DoingIs
  <2>q. QED
    BY <2>2 DEF Spawn
<1>4. op' \in [Actors -> Op] /\ op'[c] = x /\ \A d \in Actors : d # c => op'[d] = op[d]
  BY <1>3, OneMoves
<1>5. \A d \in Actors : op[d].at \in Awaits => op[d].of # i
  BY <1>2 DEF Unspawned
<1>6. /\ mem' \in [Instances -> Entry] /\ mem'[i] = r /\ file' \in [Instances -> Entry] /\ file'[i] = r
      /\ child' \in [Instances -> {"none", "running", "signalled", "exited"}] /\ child'[i] = "running"
      /\ \A j \in Instances : j # i => mem'[j] = mem[j] /\ file'[j] = file[j] /\ child'[j] = child[j]
  BY <1>2 DEF Types
<1>7. res' \in [Instances -> Resources] /\ \A j \in Instances : j # i => res'[j] = res[j]
  BY <1>2 DEF Types, Resources
<1>8. Types'
  BY <1>2, <1>3, <1>4, <1>6, <1>7 DEF Types, procVars, radiusVars
<1>9. DownIsEmpty' /\ CrossingKnown' /\ crossed \subseteq crossed'
  BY <1>2, Remembered DEF procVars
<1>10. NobodyAwaitsTheDead'
  BY <1>3, <1>4, <1>5, <1>6 DEF NobodyAwaitsTheDead, Types, Awaits
<1>11. Listened'
  <2>1. \A j \in Instances : Ending(j) => Ending(j)'
    BY <1>2, <1>4, IdleIs DEF Ending
  <2>q. QED
    BY <1>2, <1>6, <2>1 DEF Listened, Types
<1>12. Unspawned'
  BY <1>2, <1>3, <1>4, <1>6, <1>7 DEF Unspawned, Types, procVars, radiusVars
<1>13. StopDetaches'
  <2>1. \A b \in Beats : beat[b].at = "renew" => beat[b].of # i
    BY <1>2 DEF Unspawned
  <2>2. leaving[i] = NoPi
    BY <1>2 DEF Unspawned
  <2>3. \A d \in Actors : op'[d].at \in {"disconnect", "dispose"} => op'[d] = op[d] /\ op[d].of # i
    BY <1>3, <1>4, <1>5 DEF Awaits
  <2>q. QED
    BY <1>1, <1>2, <1>6, <2>1, <2>2, <2>3 DEF StopDetaches, Types, radiusVars
<1>14. HeartBeats'
  BY <1>1, <1>2, <1>6 DEF HeartBeats, Types, procVars, radiusVars
<1>15. CurrentIsLive'
  <2>1. leaving[i] = NoPi
    BY <1>2 DEF Unspawned
  <2>q. QED
    BY <1>1, <1>2, <1>6, <1>9, <2>1 DEF CurrentIsLive, Types, procVars, radiusVars
<1>q. QED
  BY <1>8, <1>9, <1>10, <1>11, <1>12, <1>13, <1>14, <1>15

LEMMA StepSpawnRegistered ==
  ASSUME OrchestratorInv, Crosses, phase # "down", NEW c \in Actors, SpawnRegistered(c)
  PROVE  OrchestratorInv'
<1> USE DEF OrchestratorInv
<1>1. PICK i \in Instances : i = op[c].of /\ op[c].at = "register" /\ child[i] # "none"
  BY DEF SpawnRegistered, Types, Awaits, Unspawned
<1>2. minted + 1 \in Nat /\ "online" \in Statuses
  BY DEF Types, Statuses
<1>3. PICK r \in Entry : r = [status |-> "online", pi |-> minted + 1] /\ r.status = "online" /\ r # NoRecord
  BY <1>2, RecordIs
<1>4. /\ Mint(i) /\ StartHeart(i, minted + 1)
      /\ mem' = [mem EXCEPT ![i] = r] /\ file' = [file EXCEPT ![i] = r]
      /\ res' = [res EXCEPT ![i].pi = minted + 1]
      /\ op' = [op EXCEPT ![c] = Idle]
      /\ UNCHANGED <<procVars, live, bound, child, beat, ring, leaving, failed>>
  BY <1>1, <1>3 DEF SpawnRegistered, SetRecord
<1>5. /\ minted' = minted + 1 /\ minted' \in Nat /\ minted' # NoPi
      /\ pis' \in [Instances -> SUBSET (1 .. minted')]
      /\ \A j \in Instances : j # i => pis'[j] = pis[j]
  BY <1>4, Minting
<1>6. /\ heart' \in [Instances -> Heart] /\ heart'[i].pi # NoPi /\ heart'[i].armed
      /\ \A j \in Instances : j # i => heart'[j] = heart[j]
  BY <1>4, <1>5, Starting
<1>7. op' \in [Actors -> Op] /\ op'[c] = Idle /\ \A d \in Actors : d # c => op'[d] = op[d]
  BY <1>4, OneMoves, IdleIs
<1>8. /\ mem' \in [Instances -> Entry] /\ mem'[i] = r /\ file' \in [Instances -> Entry] /\ file'[i] = r
      /\ \A j \in Instances : j # i => mem'[j] = mem[j] /\ file'[j] = file[j]
  BY <1>4 DEF Types
<1>9. res' \in [Instances -> Resources] /\ \A j \in Instances : j # i => res'[j] = res[j]
  BY <1>2, <1>4 DEF Types, Resources
<1>10. Types'
  BY <1>4, <1>5, <1>6, <1>7, <1>8, <1>9, IdleIs DEF Types, Awaits, procVars
<1>11. DownIsEmpty' /\ CrossingKnown' /\ crossed \subseteq crossed'
  BY <1>4, Remembered DEF procVars
<1>12. NobodyAwaitsTheDead'
  BY <1>4, <1>7, IdleIs DEF NobodyAwaitsTheDead
<1>13. Listened'
  <2>1. \A j \in Instances : Ending(j) => Ending(j)'
    BY <1>1, <1>4, <1>7 DEF Ending
  <2>q. QED
    BY <1>4, <2>1 DEF Listened, Types
<1>14. Unspawned'
  BY <1>1, <1>4, <1>5, <1>6, <1>7, <1>8, <1>9, IdleIs DEF Unspawned, Awaits, procVars
<1>15. StopDetaches'
  BY <1>3, <1>4, <1>7, <1>8, IdleIs DEF StopDetaches, Types
<1>16. HeartBeats'
  BY <1>4, <1>6, <1>8 DEF HeartBeats, Types, procVars
<1>17. CurrentIsLive'
  <2>1. (i \in live /\ leaving[i] = NoPi) \/ i \in crossed
    BY <1>1 DEF CrossingKnown, Registering, Ending
  <2>q. QED
    BY <1>3, <1>4, <1>8, <1>11, <2>1 DEF CurrentIsLive, Types, procVars
<1>q. QED
  BY <1>10, <1>11, <1>12, <1>13, <1>14, <1>15, <1>16, <1>17

LEMMA StepSpawnNotRegistered ==
  ASSUME OrchestratorInv, Crosses, phase # "down", NEW c \in Actors, SpawnNotRegistered(c)
  PROVE  OrchestratorInv'
<1> USE DEF OrchestratorInv
<1>1. PICK i \in Instances : i = op[c].of /\ op[c].at = "register" /\ child[i] # "none"
  BY DEF SpawnNotRegistered, Types, Awaits, Unspawned
<1>2. /\ RegisterFails(i) /\ op' = [op EXCEPT ![c] = Doing("rejected", i, "spawn")]
      /\ UNCHANGED <<procVars, liveVars, heart, beat, ring, leaving>>
  BY <1>1 DEF SpawnNotRegistered
<1>3. PICK x \in Op : op' = [op EXCEPT ![c] = x] /\ x.at = "rejected" /\ x.of = i
  <2>1. i \in Nat /\ "rejected" \in Awaits
    BY Numbers DEF Awaits
  <2>2. PICK x \in Op : x = Doing("rejected", i, "spawn") /\ x.at = "rejected" /\ x.of = i
    BY <2>1, DoingIs
  <2>q. QED
    BY <1>2, <2>2
<1>4. op' \in [Actors -> Op] /\ op'[c] = x /\ \A d \in Actors : d # c => op'[d] = op[d]
  BY <1>3, OneMoves
<1>5. /\ minted' \in Nat /\ pis' \in [Instances -> SUBSET (1 .. minted')]
      /\ \A j \in Instances : j # i => pis'[j] = pis[j]
      /\ failed \subseteq failed'
  BY <1>2, RegisterFailing
<1>6. Types'
  BY <1>2, <1>3, <1>4, <1>5 DEF Types, procVars, liveVars
<1>7. DownIsEmpty' /\ CrossingKnown' /\ crossed \subseteq crossed'
  BY <1>2, Remembered DEF procVars
<1>8. NobodyAwaitsTheDead' /\ StopDetaches'
  BY <1>2, <1>3, <1>4 DEF NobodyAwaitsTheDead, StopDetaches, liveVars
<1>9. Listened'
  <2>1. \A j \in Instances : Ending(j) => Ending(j)'
    BY <1>1, <1>2, <1>4 DEF Ending
  <2>q. QED
    BY <1>2, <2>1 DEF Listened, Types, liveVars
<1>10. Unspawned'
  BY <1>1, <1>2, <1>3, <1>4, <1>5 DEF Unspawned, procVars, liveVars
<1>11. HeartBeats'
  BY <1>2 DEF HeartBeats, procVars, liveVars
<1>12. CurrentIsLive'
  BY <1>2, <1>5, <1>7 DEF CurrentIsLive, procVars, liveVars
<1>q. QED
  BY <1>6, <1>7, <1>8, <1>9, <1>10, <1>11, <1>12

LEMMA StepGone ==
  ASSUME OrchestratorInv, Crosses, Gone
  PROVE  OrchestratorInv'
<1> USE DEF OrchestratorInv
<1>1. /\ phase' = "down" /\ undone' = {} /\ snap' = Nothing /\ mem' = Nothing
      /\ live' = {} /\ bound' = {} /\ ring' = {}
      /\ leaving' = [i \in Instances |-> NoPi] /\ res' = [i \in Instances |-> NoResources]
      /\ heart' = [i \in Instances |-> NoHeart] /\ beat' = [b \in Beats |-> NoBeat]
      /\ op' = [c \in Actors |-> Idle]
      /\ child' = [i \in Instances |-> IF child[i] = "none" THEN "none" ELSE "exited"]
      /\ failed' = failed \cup {i \in Instances : child[i] # "none"}
      /\ UNCHANGED <<starts, machine, file, pis, minted>>
  BY DEF Gone
<1>2. Types'
  BY <1>1, NoneIs, IdleIs DEF Types, Awaits
<1>3. /\ \A c \in Actors : op'[c].at = "idle" /\ op'[c] = Idle
      /\ \A b \in Beats : beat'[b].at = "idle" /\ beat'[b] = NoBeat
  BY <1>1, IdleIs, NoneIs
<1>4. DownIsEmpty'
  BY <1>1, <1>3, NoneIs DEF DownIsEmpty, Speaks
<1>5. CrossingKnown'
  BY <1>3 DEF CrossingKnown, Registering
<1>6. NobodyAwaitsTheDead' /\ Listened'
  BY <1>1, <1>3 DEF NobodyAwaitsTheDead, Listened
<1>7. Unspawned'
  BY <1>1, <1>3, NoneIs DEF Unspawned, Awaits
<1>8. StopDetaches' /\ HeartBeats'
  BY <1>1, <1>3, NoneIs DEF StopDetaches, HeartBeats
<1>9. CurrentIsLive'
  BY <1>1, <1>3, NoneIs DEF CurrentIsLive, Current
<1>q. QED
  BY <1>2, <1>4, <1>5, <1>6, <1>7, <1>8, <1>9

-----------------------------------------------------------------------------
(* How an instance ends                                                    *)

\* What somebody who is ending an instance may do to it: it is detached, its child is
\* signalled if it has not exited, what was asked of the child is rejected, and it is
\* either still being ended by the same request or no longer live and written so.
Ends(c, i) ==
  /\ bound' \subseteq bound /\ bound \subseteq bound' \cup {i} /\ i \notin bound'
  /\ live' = live \/ live' = live \ {i}
  /\ child' \in [Instances -> {"none", "running", "signalled", "exited"}]
  /\ child'[i] = child[i] \/ (child[i] # "exited" /\ child'[i] = "signalled")
  /\ op' \in [Actors -> Op]
  /\ \A d \in Actors : d # c =>
       \/ op'[d] = op[d]
       \/ /\ op[d].of = i /\ op[d].at \in Pending
          /\ op'[d].of = i /\ op'[d].at \in {"rejected", "stream"}
  /\ \/ op'[c].at \in {"disconnect", "dispose"} /\ op'[c].of = i /\ live' = live
     \/ op'[c] = Idle /\ live' = live \ {i}
  /\ mem' \in [Instances -> Entry] /\ file' \in [Instances -> Entry]
  /\ res' \in [Instances -> Resources] /\ heart' \in [Instances -> Heart]
  /\ \A j \in Instances : j # i =>
       /\ child'[j] = child[j] /\ mem'[j] = mem[j] /\ file'[j] = file[j]
       /\ res'[j] = res[j] /\ heart'[j] = heart[j]
  /\ heart'[i] = heart[i] \/ heart'[i] = NoHeart
  /\ \/ live' = live /\ mem'[i].status = mem[i].status /\ file'[i] = file[i] /\ heart' = heart
     \/ live' = live /\ mem'[i].status \in {"stopping", "error"} /\ file'[i] = mem'[i]
     \/ live' = live \ {i} /\ mem'[i].status = "stopped" /\ file'[i].status \in {"none", "stopped"}

LEMMA StepEnds ==
  ASSUME OrchestratorInv, Crosses, phase # "down", NEW c \in Actors, NEW i \in Instances,
         child[i] # "none", op[c].at \in Enders => op[c].of = i, Ends(c, i),
         phase' = phase \/ phase' = "hung",
         pis' \in [Instances -> SUBSET (1 .. minted)], \A j \in Instances : pis'[j] \subseteq pis[j],
         failed \subseteq failed', undone' \subseteq undone,
         UNCHANGED <<starts, snap, machine, minted, beat, ring, leaving>>
  PROVE  OrchestratorInv'
<1> USE DEF OrchestratorInv
<1>1. Types'
  BY IdleIs DEF Ends, Types, Pending, Awaits
<1>2. DownIsEmpty' /\ CrossingKnown' /\ crossed \subseteq crossed'
  BY Remembered
<1>3. Unspawned'
  BY IdleIs DEF Ends, Unspawned, Types, Awaits, Pending
<1>4. NobodyAwaitsTheDead'
  BY IdleIs DEF Ends, NobodyAwaitsTheDead, Types, Awaits, Pending
<1>5. Listened'
  <2>1. \A j \in Instances : j # i /\ Ending(j) => Ending(j)'
    BY DEF Ends, Ending, Pending, Enders
  <2>2. i \in live' => Ending(i)'
    BY DEF Ends, Ending
  <2>q. QED
    BY <2>1, <2>2 DEF Ends, Listened, Types
<1>6. StopDetaches'
  <2>1. bound' \subseteq bound /\ i \notin bound' /\ bound' \subseteq live'
    BY DEF Ends, StopDetaches
  <2>2. \A d \in Actors : op'[d].at \in {"disconnect", "dispose"} => op'[d].of \notin bound'
    BY <2>1, IdleIs DEF Ends, StopDetaches
  <2>3. \A j \in Instances : leaving[j] # NoPi => child'[j] = "exited"
    BY DEF Ends, StopDetaches
  <2>4. \A j \in bound' : mem'[j] = mem[j]
    BY <2>1 DEF Ends, Types
  <2>q. QED
    BY <2>1, <2>2, <2>3, <2>4 DEF StopDetaches
<1>7. HeartBeats'
  BY NoneIs DEF Ends, HeartBeats, Types
<1>8. CurrentIsLive'
  <2>1. /\ \A j \in Instances : j # i => mem'[j] = mem[j] /\ file'[j] = file[j] /\ (j \in live' <=> j \in live)
        /\ \/ mem'[i].status = mem[i].status /\ file'[i] = file[i] /\ live' = live
           \/ mem'[i].status \in {"stopping", "error"} /\ file'[i] = mem'[i]
           \/ i \notin live' /\ mem'[i].status = "stopped" /\ file'[i].status \in {"none", "stopped"}
    BY DEF Ends
  <2>2. /\ \A j \in Instances : mem'[j].status \in Current => j \in live' \cup crossed'
        /\ \A j \in Instances : leaving[j] # NoPi => j \in crossed' \/ mem'[j].status \notin Current
    BY <1>2, <2>1 DEF CurrentIsLive, Current
  <2>3. phase' \in {"registering", "serving", "stopping"} =>
          \A j \in Instances :
            /\ file'[j].status \in Current => j \in live' \cup crossed'
            /\ leaving[j] # NoPi => j \in crossed' \/ file'[j].status \notin Current
    BY <1>2, <2>1 DEF CurrentIsLive, Current
  <2>4. \A j \in live' : mem'[j].status # "none" /\ (file'[j] # NoRecord \/ j \in failed')
    BY <2>1, NoneIs DEF Ends, CurrentIsLive, Types
  <2>q. QED
    BY <2>2, <2>3, <2>4 DEF CurrentIsLive
<1>q. QED
  BY <1>1, <1>2, <1>3, <1>4, <1>5, <1>6, <1>7, <1>8

LEMMA Finishing ==
  ASSUME Types, NEW i \in Instances, NEW why, NEW r \in Entry, NEW f \in [Instances -> Entry],
         Finish(i, why, r, f)
  PROVE  /\ mem' \in [Instances -> Entry] /\ mem'[i].status = "stopped" /\ mem'[i].pi = r.pi
         /\ file' \in [Instances -> Entry] /\ file'[i].status \in {"none", "stopped"}
         /\ \A j \in Instances : j # i => mem'[j] = mem[j] /\ file'[j] = f[j]
         /\ live' = live \ {i}
<1>1. PICK s \in Entry : s = WithStatus(r, "stopped") /\ s.status = "stopped" /\ s.pi = r.pi
  BY EntryIs, NoneIs DEF Statuses
<1>2. PICK t \in Entry : t.status \in {"none", "stopped"} /\ file' = [f EXCEPT ![i] = t]
  <2>1. CASE why = "stop"
    BY <2>1, NoneIs DEF Finish
  <2>2. CASE why # "stop"
    BY <1>1, <2>2 DEF Finish
  <2>q. QED
    BY <2>1, <2>2
<1>q. QED
  BY <1>1, <1>2 DEF Finish, Types

LEMMA WithoutPi ==
  ASSUME NEW s \in Resources
  PROVE  LET t == [s EXCEPT !.pi = NoPi] IN t \in Resources /\ t.pi = NoPi /\ t.rpc = s.rpc
  BY NoneIs DEF Resources

LEMMA Disposing ==
  ASSUME Types, NEW c \in Actors, NEW i \in Instances, child[i] # "none",
         NEW why \in {"none", "spawn", "stop", "rpc"}, NEW rpc \in BOOLEAN,
         NEW r \in Entry, NEW f \in [Instances -> Entry], Dispose(c, i, why, rpc, r, f)
  PROVE  /\ res' \in [Instances -> Resources] /\ \A j \in Instances : j # i => res'[j] = res[j]
         /\ res'[i].pi = NoPi /\ (rpc => ~res'[i].rpc) /\ (~rpc => res'[i].rpc = res[i].rpc)
         /\ child' \in [Instances -> {"none", "running", "signalled", "exited"}]
         /\ mem' \in [Instances -> Entry] /\ file' \in [Instances -> Entry] /\ op' \in [Actors -> Op]
         /\ mem'[i].pi = r.pi
         /\ \A j \in Instances : j # i => child'[j] = child[j] /\ mem'[j] = mem[j] /\ file'[j] = f[j]
         /\ \/ /\ rpc /\ child[i] # "exited" /\ child'[i] = "signalled"
               /\ op'[c].at = "dispose" /\ op'[c].of = i
               /\ \A d \in Actors : d # c =>
                    \/ op'[d] = op[d]
                    \/ /\ op[d].of = i /\ op[d].at \in Pending
                       /\ op'[d].of = i /\ op'[d].at \in {"rejected", "stream"}
               /\ mem'[i] = r /\ file'[i] = f[i] /\ live' = live
            \/ /\ ~rpc \/ child[i] = "exited"
               /\ child'[i] = child[i]
               /\ op'[c] = Idle /\ \A d \in Actors : d # c => op'[d] = op[d]
               /\ mem'[i].status = "stopped" /\ file'[i].status \in {"none", "stopped"}
               /\ live' = live \ {i}
<1>1. PICK s \in Resources : /\ res' = [res EXCEPT ![i] = s]
                             /\ s.pi = NoPi /\ (rpc => ~s.rpc) /\ (~rpc => s.rpc = res[i].rpc)
  <2>1. CASE rpc
    BY <2>1, NoneIs DEF Dispose
  <2>2. CASE ~rpc
    <3>1. res[i] \in Resources
      BY DEF Types
    <3>2. PICK s \in Resources : s = [res[i] EXCEPT !.pi = NoPi] /\ s.pi = NoPi /\ s.rpc = res[i].rpc
      BY <3>1, WithoutPi
    <3>q. QED
      BY <2>2, <3>2 DEF Dispose
  <2>q. QED
    BY <2>1, <2>2
<1>2. /\ res' \in [Instances -> Resources] /\ \A j \in Instances : j # i => res'[j] = res[j]
      /\ res'[i] = s
  BY <1>1 DEF Types
<1>3. CASE rpc /\ child[i] # "exited"
  <2>1. /\ child' = [child EXCEPT ![i] = "signalled"]
        /\ op' = [RejectPending(i) EXCEPT ![c] = Doing("dispose", i, why)]
        /\ mem' = [mem EXCEPT ![i] = r] /\ file' = f /\ live' = live
    BY <1>3 DEF Dispose
  <2>2. i \in Nat /\ "dispose" \in Awaits
    BY Numbers DEF Awaits
  <2>3. PICK x \in Op : x = Doing("dispose", i, why) /\ x.at = "dispose" /\ x.of = i
    BY <2>2, DoingIs
  <2>4. /\ op' \in [Actors -> Op] /\ op'[c] = x
        /\ \A d \in Actors : d # c => op'[d] = RejectPending(i)[d]
    BY <2>1, <2>3, Rejecting
  <2>5. /\ child' \in [Instances -> {"none", "running", "signalled", "exited"}] /\ child'[i] = "signalled"
        /\ mem' \in [Instances -> Entry] /\ mem'[i] = r
        /\ \A j \in Instances : j # i => child'[j] = child[j] /\ mem'[j] = mem[j]
    BY <2>1 DEF Types
  <2>6. \A d \in Actors : d # c =>
                    \/ op'[d] = op[d]
                    \/ /\ op[d].of = i /\ op[d].at \in Pending
                       /\ op'[d].of = i /\ op'[d].at \in {"rejected", "stream"}
    BY <2>4, Rejecting
  <2>q. QED
    BY <1>1, <1>2, <1>3, <2>1, <2>3, <2>4, <2>5, <2>6
<1>4. CASE ~rpc \/ child[i] = "exited"
  <2>1. /\ child' = child /\ op' = [op EXCEPT ![c] = Idle] /\ Finish(i, why, r, f)
    BY <1>4 DEF Dispose
  <2>2. op' \in [Actors -> Op] /\ op'[c] = Idle /\ \A d \in Actors : d # c => op'[d] = op[d]
    BY <2>1, OneMoves, IdleIs
  <2>3. /\ mem' \in [Instances -> Entry] /\ mem'[i].status = "stopped" /\ mem'[i].pi = r.pi
        /\ file' \in [Instances -> Entry] /\ file'[i].status \in {"none", "stopped"}
        /\ \A j \in Instances : j # i => mem'[j] = mem[j] /\ file'[j] = f[j]
        /\ live' = live \ {i}
    BY <2>1, Finishing
  <2>q. QED
    BY <1>1, <1>2, <1>4, <2>1, <2>2, <2>3 DEF Types
<1>q. QED
  BY <1>3, <1>4

\* A stop, and a spawn that failed, begin to end an instance.
LEMMA Cleaning ==
  ASSUME Types, NEW c \in Actors, NEW i \in Instances, child[i] # "none",
         NEW why \in {"spawn", "stop"}, NEW r \in Entry, r.status \in {"stopping", "error"},
         Cleanup(c, i, why, r, [file EXCEPT ![i] = r])
  PROVE  Ends(c, i)
<1> DEFINE f == [file EXCEPT ![i] = r]
<1>1. f \in [Instances -> Entry] /\ f[i] = r /\ \A j \in Instances : j # i => f[j] = file[j]
  BY DEF Types
<1>2. bound' = bound \ {i}
  BY DEF Cleanup
<1>3. /\ heart' \in [Instances -> Heart] /\ \A j \in Instances : j # i => heart'[j] = heart[j]
      /\ heart'[i] = heart[i] \/ heart'[i] = NoHeart
  BY NoneIs DEF Cleanup, Types
<1>4. CASE res[i].pi # NoPi /\ r.pi # NoPi
  <2>1. /\ op' = [op EXCEPT ![c] = Disconnecting(i, why, r.pi, res[i].rpc)]
        /\ mem' = [mem EXCEPT ![i] = r] /\ file' = f /\ UNCHANGED <<live, res, child>>
    BY <1>4 DEF Cleanup
  <2>2. i \in Nat /\ r.pi \in Nat /\ res[i].rpc \in BOOLEAN
    BY Numbers DEF Types, Entry, Resources
  <2>3. PICK x \in Op : /\ x = Disconnecting(i, why, r.pi, res[i].rpc)
                        /\ x.at = "disconnect" /\ x.of = i
    BY <2>2, DisconnectingIs
  <2>4. op' \in [Actors -> Op] /\ op'[c] = x /\ \A d \in Actors : d # c => op'[d] = op[d]
    BY <2>1, <2>3, OneMoves
  <2>5. /\ mem' \in [Instances -> Entry] /\ mem'[i] = r
        /\ \A j \in Instances : j # i => mem'[j] = mem[j]
    BY <2>1 DEF Types
  <2>q. QED
    BY <1>1, <1>2, <1>3, <2>1, <2>3, <2>4, <2>5 DEF Ends, Types
<1>5. CASE res[i].pi = NoPi \/ r.pi = NoPi
  <2> HIDE DEF f
  <2>1. Dispose(c, i, why, res[i].rpc, r, f)
    BY <1>5 DEF Cleanup, f
  <2>2. res[i].rpc \in BOOLEAN
    BY DEF Types, Resources
  <2>q. QED
    BY <1>1, <1>2, <1>3, <2>1, <2>2, Disposing DEF Ends
<1>q. QED
  BY <1>4, <1>5

LEMMA StepStop ==
  ASSUME OrchestratorInv, Crosses, phase # "down", NEW c \in Actors, NEW i \in Instances, Stop(c, i),
         undone' \subseteq undone, UNCHANGED <<phase, starts, snap, machine, pis, minted, beat, ring, leaving, failed>>
  PROVE  OrchestratorInv'
<1> USE DEF OrchestratorInv
<1>1. PICK r \in Entry : r = WithStatus(mem[i], "stopping") /\ r.status = "stopping"
  <2>1. mem[i] \in Entry /\ "stopping" \in Statuses
    BY DEF Types, Statuses
  <2>q. QED
    BY <2>1, EntryIs, NoneIs
<1>2. op[c] = Idle /\ child[i] # "none" /\ Cleanup(c, i, "stop", r, [file EXCEPT ![i] = r])
  BY <1>1 DEF Stop, Unspawned
<1>3. Ends(c, i)
  BY <1>1, <1>2, Cleaning
<1>4. pis' \in [Instances -> SUBSET (1 .. minted)] /\ op[c].at \notin Enders
  BY <1>2, IdleIs DEF Types, Enders
<1>q. QED
  BY <1>2, <1>3, <1>4, StepEnds

LEMMA StepFailSpawn ==
  ASSUME OrchestratorInv, Crosses, phase # "down", NEW c \in Actors, FailSpawn(c)
  PROVE  OrchestratorInv'
<1> USE DEF OrchestratorInv
<1>1. PICK i \in Instances : i = op[c].of /\ child[i] # "none"
  BY DEF FailSpawn, Types, Unspawned, Awaits
<1>2. PICK r \in Entry : r = WithStatus(mem[i], "error") /\ r.status = "error"
  <2>1. mem[i] \in Entry /\ "error" \in Statuses
    BY DEF Types, Statuses
  <2>q. QED
    BY <2>1, EntryIs, NoneIs
<1>3. /\ Cleanup(c, i, "spawn", r, [file EXCEPT ![i] = r])
      /\ UNCHANGED <<procVars, pis, minted, beat, ring, leaving, failed>>
  BY <1>1, <1>2 DEF FailSpawn
<1>4. Ends(c, i)
  BY <1>1, <1>2, <1>3, Cleaning
<1>5. pis' \in [Instances -> SUBSET (1 .. minted)]
  BY <1>3 DEF Types
<1>q. QED
  BY <1>1, <1>3, <1>4, <1>5, StepEnds DEF procVars

\* The request that ends an instance has heard from Radius, or from the child.
LEMMA StepEnded ==
  ASSUME OrchestratorInv, Crosses, phase # "down", NEW c \in Actors,
         Disconnected(c) \/ NotDisconnected(c) \/ Disposed(c)
  PROVE  OrchestratorInv'
<1> USE DEF OrchestratorInv
<1>1. PICK i \in Instances : i = op[c].of /\ child[i] # "none" /\ i \notin bound
  BY DEF Disconnected, NotDisconnected, Disposed, Types, Unspawned, StopDetaches, Awaits
<1>2. mem[i] \in Entry /\ file \in [Instances -> Entry]
  BY DEF Types
<1>3. ASSUME NEW why, Finish(i, why, mem[i], file), op' = [op EXCEPT ![c] = Idle],
             UNCHANGED <<res, bound, child, heart>>
      PROVE  Ends(c, i)
  <2>1. op' \in [Actors -> Op] /\ op'[c] = Idle /\ \A d \in Actors : d # c => op'[d] = op[d]
    BY <1>3, OneMoves, IdleIs
  <2>2. /\ mem' \in [Instances -> Entry] /\ mem'[i].status = "stopped"
        /\ file' \in [Instances -> Entry] /\ file'[i].status \in {"none", "stopped"}
        /\ \A j \in Instances : j # i => mem'[j] = mem[j] /\ file'[j] = file[j]
        /\ live' = live \ {i}
    BY <1>2, <1>3, Finishing
  <2>q. QED
    BY <1>1, <1>3, <2>1, <2>2 DEF Ends, Types
<1>4. CASE Disposed(c)
  <2>1. Ends(c, i)
    BY <1>1, <1>3, <1>4 DEF Disposed, radiusVars
  <2>2. pis' \in [Instances -> SUBSET (1 .. minted)] /\ pis' = pis
    BY <1>4 DEF Disposed, radiusVars, Types
  <2>q. QED
    BY <1>1, <1>4, <2>1, <2>2, StepEnds DEF Disposed, procVars, radiusVars
<1>5. CASE NotDisconnected(c)
  <2>1. Ends(c, i)
    BY <1>1, <1>3, <1>5 DEF NotDisconnected
  <2>2. /\ pis' \in [Instances -> SUBSET (1 .. minted)] /\ \A j \in Instances : pis'[j] \subseteq pis[j]
        /\ failed \subseteq failed'
    BY <1>1, <1>5, Unregistering DEF NotDisconnected, UnregisterFails, Types
  <2>q. QED
    BY <1>1, <1>5, <2>1, <2>2, StepEnds DEF NotDisconnected
<1>6. CASE Disconnected(c)
  <2>1. /\ op[c].at = "disconnect" /\ Unregister(i, op[c].pi)
        /\ Dispose(c, i, op[c].why, op[c].rpc, WithPi(mem[i], NoPi), file)
        /\ UNCHANGED <<procVars, bound, minted, heart, beat, ring, leaving, failed>>
    BY <1>1, <1>6 DEF Disconnected
  <2>2. PICK r \in Entry : r = WithPi(mem[i], NoPi) /\ r.status = mem[i].status
    <3>1. "error" \in Statuses
      BY DEF Statuses
    <3>q. QED
      BY <1>2, <3>1, EntryIs, NoneIs
  <2>3. op[c].why \in {"none", "spawn", "stop", "rpc"} /\ op[c].rpc \in BOOLEAN
    BY DEF Types, Op
  <2>4. Ends(c, i)
    BY <1>1, <1>2, <2>1, <2>2, <2>3, Disposing DEF Ends, Types
  <2>5. /\ pis' \in [Instances -> SUBSET (1 .. minted)] /\ \A j \in Instances : pis'[j] \subseteq pis[j]
    BY <2>1, Unregistering
  <2>q. QED
    BY <1>1, <2>1, <2>4, <2>5, StepEnds DEF procVars
<1>q. QED
  BY <1>4, <1>5, <1>6

-----------------------------------------------------------------------------
(* Children                                                                *)

\* What an exit does: what was asked of the child is rejected; if its listener is still
\* attached the exit handler writes an error and leaves Radius, or drops the instance.
Exits(i) ==
  /\ child[i] \in {"running", "signalled"} /\ child' = [child EXCEPT ![i] = "exited"]
  /\ op' = RejectPending(i)
  /\ UNCHANGED <<procVars, pis, minted, beat, ring, failed>>
  /\ \/ i \notin bound /\ UNCHANGED <<file, live, mem, res, bound, heart, leaving>>
     \/ /\ i \in bound /\ bound' = bound \ {i}
        /\ mem' \in [Instances -> Entry] /\ file' \in [Instances -> Entry]
        /\ res' \in [Instances -> Resources] /\ heart' \in [Instances -> Heart]
        /\ mem'[i].status = "error" /\ mem'[i].pi = mem[i].pi /\ file'[i] = mem'[i]
        /\ heart'[i] = IF res[i].pi # NoPi THEN NoHeart ELSE heart[i]
        /\ \A j \in Instances : j # i =>
             mem'[j] = mem[j] /\ file'[j] = file[j] /\ res'[j] = res[j] /\ heart'[j] = heart[j]
        /\ \/ /\ res[i].pi # NoPi /\ mem[i].pi # NoPi
              /\ leaving' = [leaving EXCEPT ![i] = mem[i].pi] /\ live' = live
           \/ /\ res[i].pi = NoPi \/ mem[i].pi = NoPi
              /\ live' = live \ {i} /\ leaving' = leaving

LEMMA Exiting ==
  ASSUME OrchestratorInv, NEW i \in Instances, Exit(i)
  PROVE  Exits(i)
<1> USE DEF OrchestratorInv
<1>1. /\ child[i] \in {"running", "signalled"} /\ child' = [child EXCEPT ![i] = "exited"]
      /\ op' = RejectPending(i) /\ UNCHANGED <<procVars, pis, minted, beat, ring, failed>>
  BY DEF Exit, Speaks
<1>2. CASE i \notin bound
  BY <1>1, <1>2 DEF Exit, Exits
<1>3. CASE i \in bound
  <2>1. UnexpectedExit(i)
    BY <1>3 DEF Exit, StopDetaches
  <2>2. PICK r \in Entry : r = WithStatus(mem[i], "error") /\ r.status = "error" /\ r.pi = mem[i].pi
    <3>1. mem[i] \in Entry /\ "error" \in Statuses
      BY DEF Types, Statuses
    <3>q. QED
      BY <3>1, EntryIs, NoneIs
  <2>3. /\ mem' = [mem EXCEPT ![i] = r] /\ file' = [file EXCEPT ![i] = r]
        /\ bound' = bound \ {i} /\ res' = [res EXCEPT ![i].rpc = FALSE]
        /\ heart' = IF res[i].pi # NoPi THEN [heart EXCEPT ![i] = NoHeart] ELSE heart
        /\ IF res[i].pi # NoPi /\ r.pi # NoPi
           THEN leaving' = [leaving EXCEPT ![i] = r.pi] /\ UNCHANGED live
           ELSE live' = live \ {i} /\ UNCHANGED leaving
    BY <2>1, <2>2 DEF UnexpectedExit, SetRecord
  <2>4. /\ mem' \in [Instances -> Entry] /\ mem'[i] = r /\ file' \in [Instances -> Entry] /\ file'[i] = r
        /\ \A j \in Instances : j # i => mem'[j] = mem[j] /\ file'[j] = file[j]
    BY <2>3 DEF Types
  <2>5. res' \in [Instances -> Resources] /\ \A j \in Instances : j # i => res'[j] = res[j]
    BY <2>3 DEF Types, Resources
  <2>6. /\ heart' \in [Instances -> Heart] /\ \A j \in Instances : j # i => heart'[j] = heart[j]
        /\ heart'[i] = IF res[i].pi # NoPi THEN NoHeart ELSE heart[i]
    BY <2>3, NoneIs DEF Types
  <2>q. QED
    BY <1>1, <1>3, <2>2, <2>3, <2>4, <2>5, <2>6 DEF Exits
<1>q. QED
  BY <1>2, <1>3

LEMMA StepExit ==
  ASSUME OrchestratorInv, Crosses, phase # "down", NEW i \in Instances, Exit(i)
  PROVE  OrchestratorInv'
<1> USE DEF OrchestratorInv
<1>1. Exits(i)
  BY Exiting
<1>2. /\ op' \in [Actors -> Op]
      /\ \A c \in Actors :
           \/ /\ op[c].of = i /\ op[c].at \in Pending /\ op'[c].of = i
              /\ op'[c].at \in {"rejected", "stream"}
           \/ ~(op[c].of = i /\ op[c].at \in Pending) /\ op'[c] = op[c]
  BY <1>1, Rejecting DEF Exits
<1>3. /\ child' \in [Instances -> {"none", "running", "signalled", "exited"}]
      /\ child'[i] = "exited" /\ \A j \in Instances : j # i => child'[j] = child[j]
  BY <1>1 DEF Exits, Types
<1>4. /\ live' \subseteq live /\ bound' = bound \ {i} /\ \A j \in live : j # i => j \in live'
      /\ leaving' \in [Instances -> Nat] /\ \A j \in Instances : j # i => leaving'[j] = leaving[j]
      /\ i \in live' => leaving'[i] # NoPi \/ (i \notin bound /\ leaving' = leaving /\ live' = live)
  BY <1>1 DEF Exits, Types, Entry
<1>5. /\ mem' \in [Instances -> Entry] /\ file' \in [Instances -> Entry]
      /\ res' \in [Instances -> Resources] /\ heart' \in [Instances -> Heart]
      /\ \A j \in Instances : j # i =>
           mem'[j] = mem[j] /\ file'[j] = file[j] /\ res'[j] = res[j] /\ heart'[j] = heart[j]
      /\ \/ UNCHANGED <<file, live, mem, heart, leaving>>
         \/ /\ mem'[i].status = "error" /\ file'[i] = mem'[i]
            /\ heart'[i] = heart[i] \/ heart'[i] = NoHeart
  BY <1>1 DEF Exits, Types
<1>6. Types'
  BY <1>1, <1>2, <1>3, <1>4, <1>5 DEF Exits, Types, procVars, Awaits, Pending
<1>7. DownIsEmpty' /\ CrossingKnown' /\ crossed \subseteq crossed'
  BY <1>1, Remembered DEF Exits, procVars
<1>8. NobodyAwaitsTheDead'
  BY <1>2, <1>3 DEF NobodyAwaitsTheDead, Types, Pending, Awaits
<1>9. Listened'
  <2>1. \A j \in Instances : j # i /\ Ending(j) => Ending(j)'
    BY <1>2, <1>4 DEF Ending, Pending
  <2>2. i \in live' => Ending(i)'
    <3>1. CASE leaving'[i] # NoPi
      BY <3>1 DEF Ending
    <3>2. CASE i \in live /\ i \notin bound /\ leaving' = leaving
      <4>1. Ending(i)
        BY <3>2 DEF Listened
      <4>q. QED
        BY <1>2, <3>2, <4>1 DEF Ending, Pending
    <3>q. QED
      BY <1>4, <3>1, <3>2
  <2>q. QED
    BY <1>3, <1>4, <2>1, <2>2 DEF Listened, Types
<1>10. Unspawned'
  BY <1>1, <1>2, <1>3, <1>4, <1>5 DEF Exits, Unspawned, Types, Awaits, Pending, procVars
<1>11. StopDetaches'
  <2>1. bound' \subseteq live'
    BY <1>4 DEF StopDetaches
  <2>2. \A c \in Actors : op'[c].at \in {"disconnect", "dispose"} => op'[c].of \notin bound'
    BY <1>2, <1>4 DEF StopDetaches
  <2>3. \A j \in Instances : leaving'[j] # NoPi => j \notin bound' /\ child'[j] = "exited"
    BY <1>3, <1>4 DEF StopDetaches
  <2>4. beat' = beat
    BY <1>1 DEF Exits
  <2>q. QED
    BY <1>4, <1>5, <2>1, <2>2, <2>3, <2>4 DEF StopDetaches, Types
<1>12. HeartBeats'
  <2>1. phase' = phase /\ beat' = beat
    BY <1>1 DEF Exits, procVars
  <2>2. \A j \in Instances : heart'[j].armed => heart'[j].pi # NoPi
    BY <1>5, NoneIs DEF HeartBeats
  <2>3. ASSUME NEW j \in live', mem'[j].status = "online" PROVE j \in live /\ mem[j] = mem'[j] /\ heart'[j] = heart[j]
    BY <1>4, <1>5, <2>3 DEF Types
  <2>q. QED
    BY <2>1, <2>2, <2>3 DEF HeartBeats
<1>13. CurrentIsLive'
  <2>1. UNCHANGED <<phase, snap, beat, failed>> /\ live' \subseteq Instances
    BY <1>1, <1>4 DEF Exits, procVars, Types
  <2>2. \A j \in Instances :
          \/ /\ mem'[j] = mem[j] /\ file'[j] = file[j] /\ leaving'[j] = leaving[j]
             /\ j \in live' <=> j \in live
          \/ mem'[j].status = "error" /\ file'[j] = mem'[j]
    BY <1>4, <1>5
  <2>q. QED
    BY <1>7, <2>1, <2>2, NoneIs DEF CurrentIsLive, Current
<1>q. QED
  BY <1>6, <1>7, <1>8, <1>9, <1>10, <1>11, <1>12, <1>13

LEMMA StepLeft ==
  ASSUME OrchestratorInv, Crosses, phase # "down", NEW i \in Instances, Left(i)
  PROVE  OrchestratorInv'
<1> USE DEF OrchestratorInv
<1>1. /\ leaving[i] # NoPi /\ leaving' = [leaving EXCEPT ![i] = NoPi] /\ live' = live \ {i}
      /\ UNCHANGED <<procVars, res, bound, child, minted, heart, beat, ring, op>>
  BY DEF Left
<1>2. /\ mem' \in [Instances -> Entry] /\ file' \in [Instances -> Entry]
      /\ \A j \in Instances : j # i => mem'[j] = mem[j] /\ file'[j] = file[j]
      /\ mem'[i].status = mem[i].status /\ (file'[i] = file[i] \/ file'[i] = mem'[i])
      /\ failed \subseteq failed'
  <2>1. PICK r \in Entry : r = WithPi(mem[i], NoPi) /\ r.status = mem[i].status
    <3>1. mem[i] \in Entry /\ "error" \in Statuses
      BY DEF Types, Statuses
    <3>q. QED
      BY <3>1, EntryIs, NoneIs
  <2>2. CASE SetRecord(i, r) /\ UNCHANGED failed
    BY <2>1, <2>2 DEF SetRecord, Types
  <2>3. CASE UnregisterFails(i, leaving[i]) /\ UNCHANGED <<mem, file>>
    BY <2>3 DEF UnregisterFails, Types
  <2>q. QED
    BY <2>1, <2>2, <2>3 DEF Left
<1>3. pis' \in [Instances -> SUBSET (1 .. minted)] /\ \A j \in Instances : pis'[j] \subseteq pis[j]
  <2>1. Unregister(i, leaving[i]) \/ UNCHANGED pis
    BY DEF Left, UnregisterFails
  <2>q. QED
    BY <2>1, Unregistering DEF Types
<1>4. /\ leaving' \in [Instances -> Nat] /\ leaving'[i] = NoPi
      /\ \A j \in Instances : j # i => leaving'[j] = leaving[j]
  BY <1>1, NoneIs DEF Types
<1>5. child[i] # "none" /\ i \notin bound
  BY <1>1 DEF Unspawned, StopDetaches
<1>6. Types'
  BY <1>1, <1>2, <1>3, <1>4 DEF Types, procVars
<1>7. DownIsEmpty' /\ CrossingKnown' /\ crossed \subseteq crossed'
  BY <1>1, Remembered DEF procVars
<1>8. NobodyAwaitsTheDead'
  BY <1>1 DEF NobodyAwaitsTheDead
<1>9. Listened'
  BY <1>1, <1>4 DEF Listened, Ending, Types
<1>10. Unspawned'
  BY <1>1, <1>2, <1>3, <1>4, <1>5 DEF Unspawned, procVars
<1>11. StopDetaches'
  BY <1>1, <1>2, <1>4, <1>5 DEF StopDetaches, Types
<1>12. HeartBeats'
  BY <1>1, <1>2 DEF HeartBeats, procVars, Types
<1>13. CurrentIsLive'
  BY <1>1, <1>2, <1>4, <1>7 DEF CurrentIsLive, procVars, Types
<1>q. QED
  BY <1>6, <1>7, <1>8, <1>9, <1>10, <1>11, <1>12, <1>13

-----------------------------------------------------------------------------
(* Theorems                                                                *)

LEMMA OrchestratorInit == ASSUME Init PROVE OrchestratorInv
<1>1. PICK n \in 0 .. MaxInstances : Old = 1 .. n /\ n <= MaxPis
  BY OldAssumption
<1>2. n \in Nat /\ Old \subseteq Instances /\ Cardinality(Old) = n
  <2>1. n \in Nat /\ n <= MaxInstances
    BY <1>1, BoundsAssumption
  <2>2. Cardinality(1 .. n) = n
    BY <2>1, FS_Interval
  <2>q. QED
    BY <1>1, <2>1, <2>2, BoundsAssumption DEF Instances
<1>3. \A i \in Old : i \in 1 .. n /\ i \in Nat
  BY <1>1, <1>2
<1>4. \A i \in Nat : LET r == [status |-> "online", pi |-> i]
                     IN  r \in Entry /\ r # NoRecord /\ r.status = "online"
  BY DEF Entry, Statuses, NoRecord
<1>5. Types
  <2>1. minted \in Nat /\ minted = n
    BY <1>2 DEF Init
  <2>2. file \in [Instances -> Entry]
    BY <1>3, <1>4, NoneIs DEF Init
  <2>3. pis \in [Instances -> SUBSET (1 .. minted)]
    BY <1>3, <2>1 DEF Init
  <2>4. op \in [Actors -> Op] /\ \A c \in Actors : op[c].at = "idle"
    BY IdleIs DEF Init
  <2>5. beat \in [Beats -> Beat] /\ \A b \in Beats : beat[b].at = "idle"
    BY NoneIs DEF Init
  <2>6. /\ undone = {} /\ live = {} /\ bound = {} /\ ring = {} /\ mem = Nothing /\ snap = Nothing
        /\ res \in [Instances -> Resources] /\ heart \in [Instances -> Heart]
        /\ leaving \in [Instances -> Nat]
        /\ child \in [Instances -> {"none", "running", "signalled", "exited"}]
    BY NoneIs DEF Init
  <2>q. QED
    BY <2>1, <2>2, <2>3, <2>4, <2>5, <2>6, NoneIs DEF Types, Awaits
<1>6. \A c \in Actors : op[c].at = "idle" /\ op[c] = Idle
  BY IdleIs DEF Init
<1>7. \A b \in Beats : beat[b].at = "idle" /\ beat[b] = NoBeat
  BY NoneIs DEF Init
<1>8. /\ live = {} /\ bound = {} /\ ring = {} /\ phase = "down"
      /\ \A i \in Instances : /\ mem[i] = NoRecord /\ snap[i] = NoRecord /\ res[i] = NoResources
                              /\ heart[i] = NoHeart /\ leaving[i] = NoPi /\ child[i] \in {"none", "exited"}
                              /\ child[i] = "none" => pis[i] = {} /\ file[i] = NoRecord
  BY NoneIs DEF Init
<1>9. Unspawned /\ NobodyAwaitsTheDead
  BY <1>6, <1>7, <1>8 DEF Unspawned, NobodyAwaitsTheDead, Awaits
<1>10. Listened /\ StopDetaches /\ HeartBeats /\ DownIsEmpty
  BY <1>6, <1>7, <1>8, NoneIs DEF Listened, StopDetaches, HeartBeats, DownIsEmpty, Speaks
<1>11. CrossingKnown /\ CurrentIsLive
  BY <1>6, <1>7, <1>8, NoneIs DEF CrossingKnown, Registering, CurrentIsLive, Current
<1>q. QED
  BY <1>5, <1>9, <1>10, <1>11 DEF OrchestratorInv

\* A server process that is down does nothing but start.
LEMMA DownStarts ==
  ASSUME OrchestratorInv, Step, phase = "down"
  PROVE  Start
<1> USE DEF OrchestratorInv
<1>1. /\ live = {} /\ ring = {} /\ bound = {}
      /\ \A c \in Actors : op[c].at = "idle"
      /\ \A b \in Beats : beat[b].at = "idle"
      /\ \A i \in Instances : ~Speaks(i) /\ leaving[i] = NoPi /\ ~heart[i].armed
  BY NoneIs, IdleIs DEF DownIsEmpty
<1>2. ~Crash /\ ~Microtask /\ ~Server
  BY <1>1, Numbers DEF Crash, Microtask, FailSpawn, Disposed, SaveRecovered, Server, MachineRegistered,
     Shutdown, StopPresence, Leave, DisconnectOld, StopNext, Left
<1>3. ~Radius
  BY <1>1, Numbers DEF Radius, MachineRenewed, Renewed, NotRenewed, HeartFires, HeartAnswered, HeartLost, RenewNext
<1>4. \A i \in Instances : ~Exit(i)
  BY <1>1 DEF Exit
<1>5. \A c \in Actors : ~Requests(c)
  BY <1>1 DEF Requests, SpawnAnswered, SpawnRegistered, SpawnNotRegistered, Disconnected,
     NotDisconnected, Send, Answered, Synced, CloseStream, Spawn, StopRequest, OpenStream, Listening
<1>q. QED
  BY <1>2, <1>3, <1>4, <1>5 DEF Step

LEMMA StepRequests ==
  ASSUME OrchestratorInv, Crosses, phase # "down", NEW c \in Actors, Requests(c)
  PROVE  OrchestratorInv'
<1>1. ASSUME NEW i \in Instances, StopRequest(c, i) PROVE OrchestratorInv'
  <2>1. undone' \subseteq undone
    BY <1>1 DEF StopRequest, procVars
  <2>q. QED
    BY <1>1, <2>1, StepStop DEF StopRequest, procVars
<1>2. ASSUME NEW i \in Instances, Spawn(c, i) PROVE OrchestratorInv'
  BY <1>2, StepSpawn
<1>3. CASE SpawnAnswered(c) \/ SpawnRegistered(c) \/ SpawnNotRegistered(c)
  BY <1>3, StepSpawnAnswered, StepSpawnRegistered, StepSpawnNotRegistered
<1>4. CASE Disconnected(c) \/ NotDisconnected(c)
  BY <1>4, StepEnded
<1>5. CASE Send(c) \/ Answered(c) \/ Synced(c) \/ CloseStream(c) \/ \E i \in Instances : OpenStream(c, i)
  BY <1>5, StepStream
<1>q. QED
  BY <1>1, <1>2, <1>3, <1>4, <1>5 DEF Requests

LEMMA StepServer ==
  ASSUME OrchestratorInv, Crosses, phase # "down", phase' # "down", Server
  PROVE  OrchestratorInv'
<1>1. ASSUME NEW i \in Instances, StopNext(i) PROVE OrchestratorInv'
  <2>1. undone' \subseteq undone /\ phase = "stopping" /\ Main \in Actors
    BY <1>1, Numbers DEF StopNext
  <2>2. CASE Stop(Main, i)
    BY <1>1, <2>1, <2>2, StepStop DEF StopNext
  <2>3. CASE UNCHANGED <<liveVars, heart, op>>
    BY <1>1, <2>1, <2>3, StepPhase DEF StopNext, radiusVars, taskVars
  <2>q. QED
    BY <1>1, <2>2, <2>3 DEF StopNext
<1>2. ASSUME NEW i \in Instances, DisconnectOld(i) \/ Left(i) PROVE OrchestratorInv'
  BY <1>2, StepRecovery, StepLeft
<1>3. CASE MachineRegistered \/ Shutdown
  BY <1>3, StepPhase
<1>4. CASE StopPresence \/ Leave
  BY <1>4, StepLeaving
<1>q. QED
  BY <1>1, <1>2, <1>3, <1>4 DEF Server

LEMMA StepRadius ==
  ASSUME OrchestratorInv, Crosses, phase # "down", Radius
  PROVE  OrchestratorInv'
<1>1. ASSUME NEW b \in Beats, Renewed(b) \/ NotRenewed(b) PROVE OrchestratorInv'
  BY <1>1, StepRenewed, StepNotRenewed
<1>2. ASSUME NEW i \in Instances, HeartFires(i) \/ HeartAnswered(i) PROVE OrchestratorInv'
  BY <1>2, StepHeartFires, StepHeartAnswered
<1>3. ASSUME NEW i \in Instances, HeartLost(i) \/ RenewNext(i) PROVE OrchestratorInv'
  BY <1>3, StepHeartLost
<1>4. CASE MachineRenewed
  BY <1>4, StepMachineRenewed
<1>q. QED
  BY <1>1, <1>2, <1>3, <1>4 DEF Radius

LEMMA OrchestratorNext ==
  ASSUME OrchestratorInv, [Next]_vars
  PROVE  OrchestratorInv'
<1>1. CASE UNCHANGED vars
  <2>1. UNCHANGED <<phase, undone, snap, file, live, mem, res, bound, child, pis, minted, heart, beat,
                    ring, op, leaving, crossed, failed>>
    BY <1>1 DEF vars, procVars, liveVars, radiusVars, taskVars
  <2>2. Types' /\ Unspawned' /\ NobodyAwaitsTheDead' /\ Listened' /\ StopDetaches' /\ HeartBeats'
    BY <2>1 DEF OrchestratorInv, Types, Unspawned, NobodyAwaitsTheDead, Listened, Ending, StopDetaches, HeartBeats
  <2>3. DownIsEmpty' /\ CrossingKnown' /\ CurrentIsLive'
    BY <2>1 DEF OrchestratorInv, DownIsEmpty, Speaks, CrossingKnown, Registering, Ending, CurrentIsLive
  <2>q. QED
    BY <2>2, <2>3 DEF OrchestratorInv
<1>2. CASE Next
  <2>1. Step /\ Crosses
    BY <1>2 DEF Next, Crosses
  <2>2. CASE phase = "down"
    BY <2>1, <2>2, DownStarts, StepStart
  <2>3. CASE Gone
    BY <2>1, <2>3, StepGone
  <2>4. CASE phase # "down" /\ ~Gone
    <3>1. ~Start /\ ~Crash
      BY <2>4 DEF Start, Crash
    <3>2. ASSUME NEW c \in Actors, FailSpawn(c) \/ Disposed(c) PROVE OrchestratorInv'
      BY <2>1, <2>4, <3>2, StepFailSpawn, StepEnded
    <3>3. CASE Microtask
      BY <2>1, <2>4, <3>2, <3>3, StepRecovery DEF Microtask
    <3>4. ASSUME NEW i \in Instances, Exit(i) PROVE OrchestratorInv'
      BY <2>1, <2>4, <3>4, StepExit
    <3>5. CASE Server
      <4>1. phase' # "down"
        BY <2>4, <3>5 DEF Server, MachineRegistered, Shutdown, StopPresence, Leave, DisconnectOld,
           StopNext, Left, procVars
      <4>q. QED
        BY <2>1, <2>4, <3>5, <4>1, StepServer
    <3>6. CASE Radius
      BY <2>1, <2>4, <3>6, StepRadius
    <3>7. ASSUME NEW c \in Actors, Requests(c) PROVE OrchestratorInv'
      BY <2>1, <2>4, <3>7, StepRequests
    <3>q. QED
      BY <2>1, <3>1, <3>3, <3>4, <3>5, <3>6, <3>7 DEF Step
  <2>q. QED
    BY <2>2, <2>3, <2>4
<1>q. QED
  BY <1>1, <1>2

LEMMA OrchestratorInvariant == Spec => []OrchestratorInv
  BY OrchestratorInit, OrchestratorNext, PTL DEF Spec

\* No instance stays listed as live whose child is gone, unless somebody is ending it
\* (NoZombie).
THEOREM NoZombieAlways == Spec => []NoZombie
<1>1. OrchestratorInv => NoZombie
  BY DEF OrchestratorInv, Listened, NoZombie
<1>q. QED
  BY <1>1, OrchestratorInvariant, PTL

\* Nobody waits for an answer of a child that has exited.
THEOREM NobodyAwaitsTheDeadAlways == Spec => []NobodyAwaitsTheDead
<1>1. OrchestratorInv => NobodyAwaitsTheDead
  BY DEF OrchestratorInv
<1>q. QED
  BY <1>1, OrchestratorInvariant, PTL

\* The presence of an online instance never dies silently.
THEOREM HeartbeatKeptAlways == Spec => []HeartbeatKept
<1>1. OrchestratorInv => HeartbeatKept
  BY DEF OrchestratorInv, HeartBeats, HeartbeatKept
<1>q. QED
  BY <1>1, OrchestratorInvariant, PTL

\* Once recovery is through, the records say "starting" or "online" of live instances
\* only, and all live instances are recorded but those recovery wrote over.
THEOREM RecordsTruthfulAlways == Spec => []RecordsTruthful
<1>1. OrchestratorInv => RecordsTruthful
  BY DEF OrchestratorInv, CurrentIsLive, Current, RecordsTruthful
<1>q. QED
  BY <1>1, OrchestratorInvariant, PTL

-----------------------------------------------------------------------------
(* What is left of an instance                                             *)

Over == {"none", "stopped", "error"}

\* A request is disconnecting the instance or disposing of its child.
Closing(i) == \E c \in Actors : op[c].at \in {"disconnect", "dispose"} /\ op[c].of = i

\* A child that runs has its handle with the instance, and one that was signalled is
\* waited for.
ChildOwned(i) ==
  /\ child[i] = "running" =>
       /\ res[i].rpc /\ i \in live \cup failed
       /\ \A c \in Actors : op[c].at = "disconnect" /\ op[c].of = i => op[c].rpc
  /\ child[i] = "signalled" => \E c \in Actors : op[c].at = "dispose" /\ op[c].of = i

\* While the listener is attached the only registration is the one on record; after
\* that somebody is disconnecting what there is.
Registered(i) ==
  /\ heart[i] # NoHeart => i \in bound /\ res[i].pi # NoPi
  /\ i \in bound => res[i].pi = mem[i].pi /\ pis[i] \subseteq {mem[i].pi}
  /\ i \notin bound => \A p \in pis[i] :
       leaving[i] = p \/ \E c \in Actors : op[c].at = "disconnect" /\ op[c].of = i /\ op[c].pi = p

\* What has ended is written as ended, or will be by who is still at it.
Written(i) ==
  /\ i \notin live \/ leaving[i] # NoPi => mem[i].status \in Over \/ Closing(i)
  /\ i \notin live => file[i].status \in Over \/ Closing(i)

Tidy(i) ==
  /\ ChildOwned(i)
  /\ i \notin crossed \cup failed => Registered(i) /\ Written(i)
  /\ i \notin failed => snap[i].status \in Over

TidyInv ==
  /\ \A i \in Instances : Tidy(i)
  /\ phase = "down" => crossed = {}

\* A step that leaves an instance as it is, or takes from what there is of it.
Kept(i) ==
  /\ child'[i] = child[i] /\ res'[i] = res[i] /\ mem'[i] = mem[i] /\ leaving'[i] = leaving[i]
  /\ pis'[i] \subseteq pis[i]
  /\ heart'[i] # NoHeart => heart[i] # NoHeart
  /\ i \in bound' <=> i \in bound
  /\ i \in live' <=> i \in live
  /\ file'[i] = file[i] \/ file'[i] = mem[i]
  /\ snap'[i] = snap[i] \/ snap'[i] = NoRecord
  /\ \A c \in Actors :
       (op[c].of = i /\ op[c].at \in {"disconnect", "dispose"})
         \/ (op'[c].of = i /\ op'[c].at \in {"disconnect", "dispose"}) => op'[c] = op[c]

LEMMA KeptIsTidy ==
  ASSUME NEW i \in Instances, Tidy(i), Kept(i), crossed \subseteq crossed', failed \subseteq failed'
  PROVE  Tidy(i)'
<1>1. ChildOwned(i)'
  BY DEF Tidy, Kept, ChildOwned
<1>2. Closing(i) => Closing(i)'
  BY DEF Kept, Closing
<1>3. ASSUME i \notin crossed' \cup failed' PROVE Registered(i)' /\ Written(i)'
  <2>1. Registered(i) /\ Written(i)
    BY <1>3 DEF Tidy
  <2>2. Registered(i)'
    BY <2>1 DEF Kept, Registered
  <2>3. Written(i)'
    BY <1>2, <2>1 DEF Kept, Written
  <2>q. QED
    BY <2>2, <2>3
<1>4. i \notin failed' => snap'[i].status \in Over
  BY NoneIs DEF Tidy, Kept, Over
<1>q. QED
  BY <1>1, <1>3, <1>4 DEF Tidy

LEMMA AllTidy ==
  ASSUME OrchestratorInv, TidyInv, Crosses, phase' # "down", failed \subseteq failed',
         \A i \in Instances : Kept(i)
  PROVE  TidyInv'
<1>1. crossed \subseteq crossed'
  BY Remembered
<1>q. QED
  BY <1>1, KeptIsTidy DEF TidyInv

\* The same when one instance is not left as it is.
LEMMA OthersTidy ==
  ASSUME OrchestratorInv, TidyInv, Crosses, phase' # "down", failed \subseteq failed',
         NEW i \in Instances, \A j \in Instances : j # i => Kept(j), Tidy(i)'
  PROVE  TidyInv'
<1>1. crossed \subseteq crossed'
  BY Remembered
<1>q. QED
  BY <1>1, KeptIsTidy DEF TidyInv

LEMMA TidyRadius ==
  ASSUME OrchestratorInv, TidyInv, Crosses, phase # "down",
         \/ MachineRenewed \/ \E b \in Beats : NotRenewed(b)
         \/ \E i \in Instances : HeartFires(i) \/ HeartAnswered(i) \/ HeartLost(i) \/ RenewNext(i)
  PROVE  TidyInv'
<1> USE DEF OrchestratorInv
<1>1. /\ phase' # "down"
      /\ UNCHANGED <<snap, file, live, mem, res, bound, child, op, leaving>>
  BY DEF MachineRenewed, NotRenewed, HeartFires, HeartAnswered, HeartLost, RenewNext, procVars, liveVars, taskVars
<1>2. ASSUME NEW i \in Instances, heart'[i] # NoHeart => heart[i] # NoHeart, pis'[i] \subseteq pis[i]
      PROVE  Kept(i)
  BY <1>1, <1>2 DEF Kept
<1>3. CASE MachineRenewed
  <2>1. failed' = failed /\ \A i \in Instances : Kept(i)
    BY <1>2, <1>3 DEF MachineRenewed
  <2>q. QED
    BY <1>1, <2>1, AllTidy
<1>4. ASSUME NEW i \in Instances, HeartFires(i) \/ HeartAnswered(i) \/ HeartLost(i) \/ RenewNext(i)
      PROVE  TidyInv'
  <2>1. \A j \in Instances : pis'[j] \subseteq pis[j]
    BY <1>4, Unregistering DEF HeartFires, HeartAnswered, HeartLost, RenewNext
  <2>2. \A j \in Instances : heart'[j] # NoHeart => heart[j] # NoHeart
    <3>1. CASE HeartFires(i)
      BY <3>1, NoneIs DEF HeartFires, Types
    <3>2. CASE HeartAnswered(i)
      BY <3>2, Arming DEF HeartAnswered
    <3>3. CASE HeartLost(i) \/ RenewNext(i)
      BY <3>3 DEF HeartLost, RenewNext, Renew, Types
    <3>q. QED
      BY <1>4, <3>1, <3>2, <3>3
  <2>3. failed' = failed
    BY <1>4 DEF HeartFires, HeartAnswered, HeartLost, RenewNext
  <2>4. \A j \in Instances : Kept(j)
    BY <1>2, <2>1, <2>2
  <2>q. QED
    BY <1>1, <2>3, <2>4, AllTidy
<1>5. ASSUME NEW b \in Beats, NotRenewed(b) PROVE TidyInv'
  <2>1. PICK i \in Instances : i = beat[b].of /\ RegisterFails(i) /\ (heart' = heart \/ ArmHeart(i))
    BY <1>5 DEF NotRenewed, Types
  <2>2. /\ \A j \in Instances : j # i => pis'[j] = pis[j]
        /\ failed \subseteq failed' /\ (i \in failed' \/ pis' = pis)
    BY <2>1, RegisterFailing
  <2>3. \A j \in Instances : heart'[j] # NoHeart => heart[j] # NoHeart
    BY <2>1, Arming
  <2>4. \A j \in Instances : j # i => Kept(j)
    BY <1>2, <2>2, <2>3
  <2>5. Tidy(i)'
    <3>1. CASE pis' = pis
      <4>1. Kept(i) /\ crossed \subseteq crossed'
        BY <1>1, <1>2, <2>3, <3>1, Remembered
      <4>q. QED
        BY <2>2, <4>1, KeptIsTidy DEF TidyInv
    <3>2. CASE i \in failed'
      BY <1>1, <2>2, <3>2 DEF TidyInv, Tidy, ChildOwned
    <3>q. QED
      BY <2>2, <3>1, <3>2
  <2>q. QED
    BY <1>1, <2>2, <2>4, <2>5, OthersTidy
<1>q. QED
  BY <1>3, <1>4, <1>5

\* Requests that end nothing.
LEMMA TidyTalk ==
  ASSUME OrchestratorInv, TidyInv, Crosses, phase # "down", NEW c \in Actors, NEW x \in Op,
         op' = [op EXCEPT ![c] = x],
         op[c].at \notin {"disconnect", "dispose"}, x.at \notin {"disconnect", "dispose"},
         file' = file \/ \E i \in Instances : file' = [file EXCEPT ![i] = mem[i]],
         heart' = heart \/ heart' = [i \in Instances |-> NoHeart],
         phase' # "down", failed' = failed,
         UNCHANGED <<snap, live, mem, res, bound, child, pis, leaving>>
  PROVE  TidyInv'
<1>1. op' \in [Actors -> Op] /\ op'[c] = x /\ \A d \in Actors : d # c => op'[d] = op[d]
  BY OneMoves DEF OrchestratorInv
<1>2. \A i \in Instances : file'[i] = file[i] \/ file'[i] = mem[i]
  BY DEF OrchestratorInv, Types
<1>3. \A i \in Instances : heart'[i] # NoHeart => heart[i] # NoHeart
  OBVIOUS
<1>4. \A i \in Instances : Kept(i)
  BY <1>1, <1>2, <1>3 DEF Kept
<1>q. QED
  BY <1>4, AllTidy

LEMMA TidyRequests ==
  ASSUME OrchestratorInv, TidyInv, Crosses, phase # "down", phase' # "down", NEW c \in Actors,
         \/ Send(c) \/ Answered(c) \/ Synced(c) \/ CloseStream(c) \/ SpawnAnswered(c)
         \/ StopPresence \/ Leave
         \/ \E i \in Instances : OpenStream(c, i)
  PROVE  TidyInv'
<1> USE DEF OrchestratorInv
<1>1. ASSUME NEW at \in {"stream", "command", "sync"}, op' = [op EXCEPT ![c].at = at],
             op[c].at \in {"stream", "command", "sync"},
             file' = file \/ file' = [file EXCEPT ![op[c].of] = mem[op[c].of]],
             UNCHANGED <<procVars, live, mem, res, bound, child, radiusVars, leaving, failed>>
      PROVE  TidyInv'
  <2>1. op[c] \in Op /\ at \in Awaits /\ op[c].of \in Instances
    BY <1>1 DEF Types, Awaits
  <2>2. PICK x \in Op : x = [op[c] EXCEPT !.at = at] /\ x.at = at /\ x.of = op[c].of
    BY <2>1, AtIs
  <2>3. op' = [op EXCEPT ![c] = x]
    BY <1>1, <2>2
  <2>q. QED
    BY <1>1, <2>1, <2>2, <2>3, TidyTalk DEF procVars, radiusVars
<1>2. ASSUME Send(c) \/ Synced(c) \/ Answered(c) PROVE TidyInv'
  BY <1>1, <1>2 DEF Send, Synced, Answered, liveVars
<1>3. ASSUME CloseStream(c) PROVE TidyInv'
  BY <1>3, TidyTalk, IdleIs DEF CloseStream, procVars, liveVars, radiusVars
<1>4. ASSUME NEW i \in Instances, OpenStream(c, i) PROVE TidyInv'
  <2>1. i \in Nat /\ "stream" \in Awaits \cup {"machine"}
    BY Numbers DEF Awaits
  <2>2. PICK x \in Op : x = Doing("stream", i, "rpc") /\ x.at = "stream" /\ x.of = i
    BY <2>1, DoingIs
  <2>q. QED
    BY <1>4, <2>2, TidyTalk, IdleIs DEF OpenStream, procVars, liveVars, radiusVars
<1>5. ASSUME SpawnAnswered(c) PROVE TidyInv'
  <2>1. PICK i \in Instances : i = op[c].of
    BY <1>5 DEF SpawnAnswered, Types, Awaits
  <2>2. PICK at \in {"register", "rejected"} : op' = [op EXCEPT ![c] = Doing(at, i, "spawn")]
    BY <1>5, <2>1 DEF SpawnAnswered
  <2>3. i \in Nat /\ at \in Awaits
    BY Numbers DEF Awaits
  <2>4. PICK x \in Op : x = Doing(at, i, "spawn") /\ x.at = at
    BY <2>3, DoingIs
  <2>5. /\ op[c].at = "state" /\ mem' = mem /\ file' = [file EXCEPT ![i] = mem[i]]
        /\ UNCHANGED <<procVars, live, res, bound, child, radiusVars, leaving, failed>>
    BY <1>5, <2>1 DEF SpawnAnswered, SetRecord, Types
  <2>q. QED
    BY <2>2, <2>4, <2>5, TidyTalk DEF procVars, radiusVars
<1>6. ASSUME StopPresence PROVE TidyInv'
  <2>1. PICK x \in Op : x = Doing("machine", 0, "stop") /\ x.at = "machine"
    BY DoingIs
  <2>q. QED
    BY <1>6, <2>1, TidyTalk, IdleIs, Numbers DEF StopPresence, procVars, liveVars
<1>7. ASSUME Leave PROVE TidyInv'
  BY <1>7, TidyTalk, IdleIs, Numbers DEF Leave, Gone, liveVars, radiusVars
<1>q. QED
  BY <1>2, <1>3, <1>4, <1>5, <1>6, <1>7

LEMMA TidyProcess ==
  ASSUME OrchestratorInv, TidyInv, Crosses, phase # "down" \/ Start,
         \/ Start \/ SaveRecovered \/ MachineRegistered \/ Shutdown
         \/ \E i \in Instances : DisconnectOld(i)
         \/ /\ phase' = phase /\ UNCHANGED <<snap, liveVars, radiusVars, taskVars, failed>>
  PROVE  TidyInv'
<1> USE DEF OrchestratorInv
<1>1. /\ phase' # "down" /\ failed \subseteq failed'
      /\ UNCHANGED <<live, mem, res, bound, child, heart, op, leaving>>
  BY DEF Start, SaveRecovered, MachineRegistered, Shutdown, DisconnectOld, liveVars, radiusVars, taskVars
<1>2. CASE Start
  <2>1. \A r \in Entry : r.status \in Over => Recovered(r).status \in Over
    BY EntryIs DEF Recovered, Over
  <2>2. \A i \in Instances : i \notin failed => file[i].status \in Over
    BY <1>2, IdleIs DEF Start, TidyInv, Tidy, Written, Closing, DownIsEmpty
  <2>3. /\ \A i \in Instances : i \notin failed => snap'[i].status \in Over
        /\ failed' = failed /\ pis' = pis /\ file' = file
    BY <1>2, <2>1, <2>2 DEF Start, Types, radiusVars, liveVars
  <2>4. crossed \subseteq crossed'
    BY <1>1, Remembered
  <2>5. \A i \in Instances : Tidy(i)'
    BY <1>1, <2>3, <2>4 DEF TidyInv, Tidy, ChildOwned, Registered, Written, Closing
  <2>q. QED
    BY <1>1, <2>5 DEF TidyInv
<1>3. CASE SaveRecovered
  <2>1. file' = snap /\ snap' = Nothing /\ failed' = failed \cup live /\ pis' = pis
    BY <1>3 DEF SaveRecovered, radiusVars
  <2>2. crossed \subseteq crossed'
    BY <1>1, Remembered
  <2>3. \A i \in Instances : Tidy(i)'
    BY <1>1, <2>1, <2>2, NoneIs DEF TidyInv, Tidy, ChildOwned, Registered, Written, Closing, Over
  <2>q. QED
    BY <1>1, <2>3 DEF TidyInv
<1>4. CASE \/ MachineRegistered \/ Shutdown \/ \E i \in Instances : DisconnectOld(i)
           \/ /\ phase' = phase /\ UNCHANGED <<snap, liveVars, radiusVars, taskVars, failed>>
  <2>1. /\ UNCHANGED <<file, snap, failed>> /\ \A j \in Instances : pis'[j] \subseteq pis[j]
    BY <1>4, Unregistering DEF MachineRegistered, Shutdown, DisconnectOld, liveVars, radiusVars
  <2>2. \A i \in Instances : Kept(i)
    BY <1>1, <2>1 DEF Kept
  <2>q. QED
    BY <1>1, <2>2, AllTidy
<1>q. QED
  BY <1>2, <1>3, <1>4

\* Two registrations of one instance at a time are a crossing.
LEMMA TwoCross ==
  ASSUME Crosses, phase' # "down", NEW i \in Instances, i \notin crossed',
         NEW p, NEW S, S \subseteq {p}, NEW q, q \notin S, pis'[i] = S \cup {q}
  PROVE  pis'[i] = {q}
<1>1. CASE S = {}
  BY <1>1
<1>2. CASE S = {p}
  <2>1. p # q /\ pis'[i] = {p, q}
    BY <1>2
  <2>2. IsFiniteSet({p}) /\ Cardinality({p}) = 1
    BY FS_Singleton
  <2>3. Cardinality({p} \cup {q}) = 2
    BY <2>1, <2>2, FS_AddElement
  <2>4. Cardinality(pis'[i]) > 1
    <3>1. {p, q} = {p} \cup {q}
      OBVIOUS
    <3>2. Cardinality(pis'[i]) = 2
      BY <2>1, <2>3, <3>1
    <3>q. QED
      BY <3>2
  <2>q. QED
    BY <2>4, Remembered
<1>q. QED
  BY <1>1, <1>2

\* A new registration of an instance is the only one, is on record, and its heartbeat
\* has started, or something crossed.
LEMMA TidyRegistered ==
  ASSUME OrchestratorInv, TidyInv, Crosses, phase' # "down", NEW i \in Instances, Registering(i),
         Mint(i), res'[i].rpc = res[i].rpc,
         i \in live => res'[i].pi = minted' /\ mem'[i].pi = minted',
         \A c \in Actors :
           (op[c].of = i /\ op[c].at \in {"disconnect", "dispose"})
             \/ (op'[c].of = i /\ op'[c].at \in {"disconnect", "dispose"}) => op'[c] = op[c],
         UNCHANGED <<snap, live, bound, child, leaving, failed>>
  PROVE  Tidy(i)'
<1> USE DEF OrchestratorInv
<1>1. ChildOwned(i)'
  BY DEF TidyInv, Tidy, ChildOwned
<1>2. ASSUME i \notin crossed' \cup failed PROVE Registered(i)' /\ Written(i)'
  <2>1. i \notin crossed
    BY <1>2, Remembered
  <2>2. i \in live /\ ~Ending(i)
    BY <2>1 DEF CrossingKnown
  <2>3. i \in bound /\ leaving[i] = NoPi
    BY <2>2 DEF Listened, Ending
  <2>4. pis[i] \subseteq {mem[i].pi}
    BY <1>2, <2>1, <2>3 DEF TidyInv, Tidy, Registered
  <2>5. /\ minted' # NoPi /\ minted' \notin pis[i] /\ pis'[i] = pis[i] \cup {minted'}
    BY Minting
  <2>6. pis'[i] = {minted'}
    <3> DEFINE S == pis[i]
               p == mem[i].pi
               q == minted'
    <3>1. S \subseteq {p} /\ q \notin S /\ pis'[i] = S \cup {q} /\ i \notin crossed'
      BY <1>2, <2>4, <2>5
    <3> HIDE DEF S, p, q
    <3>2. pis'[i] = {q}
      BY <3>1, TwoCross
    <3>q. QED
      BY <3>2 DEF q
  <2>q. QED
    BY <2>2, <2>3, <2>5, <2>6 DEF Registered, Written
<1>q. QED
  BY <1>1, <1>2 DEF TidyInv, Tidy

LEMMA TidyRenewed ==
  ASSUME OrchestratorInv, TidyInv, Crosses, phase # "down", NEW b \in Beats, Renewed(b)
  PROVE  TidyInv'
<1> USE DEF OrchestratorInv
<1>1. PICK i \in Instances, r \in Entry :
        /\ i = beat[b].of /\ beat[b].at = "renew"
        /\ r = WithPi(beat[b].rec, minted + 1) /\ r.pi = minted + 1
  <2>1. beat[b].rec \in Entry /\ minted + 1 \in Nat /\ "error" \in Statuses
    BY DEF Types, Beat, Statuses
  <2>2. beat[b].at = "renew" /\ beat[b].of \in Instances
    BY DEF Renewed, Types
  <2>q. QED
    BY <2>1, <2>2, EntryIs
<1>2. /\ Mint(i) /\ StartHeart(i, minted + 1)
      /\ mem' = IF i \in live THEN [mem EXCEPT ![i] = r] ELSE mem
      /\ res' = IF i \in live THEN [res EXCEPT ![i].pi = r.pi] ELSE res
      /\ file' = [file EXCEPT ![i] = r]
      /\ UNCHANGED <<procVars, live, bound, child, ring, taskVars, failed>>
  BY <1>1 DEF Renewed
<1>3. minted' = minted + 1 /\ \A j \in Instances : j # i => pis'[j] = pis[j]
  BY <1>2, Minting
<1>4. \A j \in Instances : j # i => mem'[j] = mem[j] /\ res'[j] = res[j] /\ file'[j] = file[j] /\ heart'[j] = heart[j]
  BY <1>2 DEF Types, StartHeart
<1>5. \A j \in Instances : j # i => Kept(j)
  BY <1>2, <1>3, <1>4 DEF Kept, procVars, taskVars
<1>6. /\ res'[i].rpc = res[i].rpc
      /\ i \in live => res'[i].pi = minted' /\ mem'[i].pi = minted'
  BY <1>1, <1>2, <1>3 DEF Types, Resources
<1>7. Tidy(i)'
  BY <1>1, <1>2, <1>6, TidyRegistered DEF Registering, procVars, taskVars
<1>q. QED
  BY <1>2, <1>5, <1>7, OthersTidy DEF procVars

LEMMA TidySpawns ==
  ASSUME OrchestratorInv, TidyInv, Crosses, phase # "down", NEW c \in Actors,
         SpawnRegistered(c) \/ SpawnNotRegistered(c)
  PROVE  TidyInv'
<1> USE DEF OrchestratorInv
<1>1. PICK i \in Instances : i = op[c].of /\ op[c].at = "register"
  BY DEF SpawnRegistered, SpawnNotRegistered, Types, Awaits
<1>2. phase' # "down"
  BY DEF SpawnRegistered, SpawnNotRegistered, procVars
<1>3. CASE SpawnRegistered(c)
  <2>1. minted + 1 \in Nat /\ "online" \in Statuses
    BY DEF Types, Statuses
  <2>2. PICK r \in Entry : r = [status |-> "online", pi |-> minted + 1] /\ r.pi = minted + 1
    BY <2>1, RecordIs
  <2>3. /\ Mint(i) /\ StartHeart(i, minted + 1)
        /\ mem' = [mem EXCEPT ![i] = r] /\ file' = [file EXCEPT ![i] = r]
        /\ res' = [res EXCEPT ![i].pi = minted + 1]
        /\ op' = [op EXCEPT ![c] = Idle]
        /\ UNCHANGED <<procVars, live, bound, child, beat, ring, leaving, failed>>
    BY <1>1, <1>3, <2>2 DEF SpawnRegistered, SetRecord
  <2>4. minted' = minted + 1 /\ \A j \in Instances : j # i => pis'[j] = pis[j]
    BY <2>3, Minting
  <2>5. \A d \in Actors : (d # c => op'[d] = op[d]) /\ op'[c] = Idle
    BY <2>3, OneMoves, IdleIs
  <2>6. \A j \in Instances : j # i => mem'[j] = mem[j] /\ res'[j] = res[j] /\ file'[j] = file[j] /\ heart'[j] = heart[j]
    BY <2>3 DEF Types, StartHeart
  <2>7. \A j \in Instances : j # i => Kept(j)
    BY <1>1, <2>3, <2>4, <2>5, <2>6, IdleIs DEF Kept, procVars
  <2>8. res'[i].rpc = res[i].rpc /\ res'[i].pi = minted' /\ mem'[i].pi = minted'
    BY <2>2, <2>3, <2>4 DEF Types, Resources
  <2>9. Tidy(i)'
    BY <1>1, <1>2, <2>3, <2>5, <2>8, IdleIs, TidyRegistered DEF Registering, procVars
  <2>q. QED
    BY <1>2, <2>3, <2>7, <2>9, OthersTidy
<1>4. CASE SpawnNotRegistered(c)
  <2>1. /\ RegisterFails(i) /\ op' = [op EXCEPT ![c] = Doing("rejected", i, "spawn")]
        /\ UNCHANGED <<procVars, liveVars, heart, beat, ring, leaving>>
    BY <1>1, <1>4 DEF SpawnNotRegistered
  <2>2. i \in Nat /\ "rejected" \in Awaits
    BY Numbers DEF Awaits
  <2>3. PICK x \in Op : x = Doing("rejected", i, "spawn") /\ x.at = "rejected"
    BY <2>2, DoingIs
  <2>4. op'[c] = x /\ \A d \in Actors : d # c => op'[d] = op[d]
    BY <2>1, <2>3, OneMoves
  <2>5. /\ \A j \in Instances : j # i => pis'[j] = pis[j]
        /\ failed \subseteq failed' /\ (i \in failed' \/ pis' = pis)
    BY <2>1, RegisterFailing
  <2>6. \A j \in Instances : j # i \/ pis' = pis => Kept(j)
    BY <1>1, <2>1, <2>3, <2>4, <2>5 DEF Kept, procVars, liveVars
  <2>7. Tidy(i)'
    <3>1. CASE pis' = pis
      BY <1>2, <2>5, <2>6, <3>1, KeptIsTidy, Remembered DEF TidyInv
    <3>2. CASE i \in failed'
      BY <1>1, <2>1, <2>3, <2>4, <2>5, <3>2 DEF TidyInv, Tidy, ChildOwned, liveVars
    <3>q. QED
      BY <2>5, <3>1, <3>2
  <2>q. QED
    BY <1>2, <2>5, <2>6, <2>7, OthersTidy
<1>q. QED
  BY <1>3, <1>4

LEMMA TidySpawn ==
  ASSUME OrchestratorInv, TidyInv, Crosses, phase # "down", NEW c \in Actors, NEW i \in Instances, Spawn(c, i)
  PROVE  TidyInv'
<1> USE DEF OrchestratorInv
<1>1. PICK r \in Entry : r = [status |-> "starting", pi |-> NoPi] /\ r.pi = NoPi
  <2>1. NoPi \in Nat /\ "starting" \in Statuses
    BY DEF NoPi, Statuses
  <2>q. QED
    BY <2>1, RecordIs
<1>2. /\ op[c] = Idle /\ child[i] = "none"
      /\ live' = live \cup {i} /\ bound' = bound \cup {i}
      /\ mem' = [mem EXCEPT ![i] = r] /\ file' = [file EXCEPT ![i] = r]
      /\ res' = [res EXCEPT ![i].rpc = TRUE]
      /\ child' = [child EXCEPT ![i] = "running"]
      /\ UNCHANGED <<procVars, radiusVars, leaving, failed>>
  BY <1>1 DEF Spawn, SetRecord
<1>3. i \in Nat /\ "state" \in Awaits
  BY Numbers DEF Awaits
<1>4. PICK x \in Op : x = Doing("state", i, "spawn") /\ x.at = "state" /\ x.of = i
  BY <1>3, DoingIs
<1>5. op' = [op EXCEPT ![c] = x]
  BY <1>4 DEF Spawn
<1>6. op' \in [Actors -> Op] /\ op'[c] = x /\ \A d \in Actors : d # c => op'[d] = op[d]
  BY <1>5, OneMoves
<1>7. \A j \in Instances : j # i => mem'[j] = mem[j] /\ res'[j] = res[j] /\ file'[j] = file[j] /\ child'[j] = child[j]
  BY <1>2 DEF Types
<1>8. \A j \in Instances : j # i => Kept(j)
  BY <1>2, <1>4, <1>6, <1>7, IdleIs DEF Kept, procVars, radiusVars
<1>9. /\ child'[i] = "running" /\ mem'[i] = r /\ res'[i].rpc /\ res'[i].pi = NoPi
      /\ heart'[i] = NoHeart /\ pis'[i] = {} /\ leaving'[i] = NoPi /\ snap'[i] = NoRecord
  BY <1>2, NoneIs DEF Types, Resources, Unspawned, procVars, radiusVars
<1>10. \A d \in Actors : op'[d].at = "disconnect" => op'[d].of # i
  BY <1>2, <1>4, <1>6 DEF Unspawned, Awaits
<1>11. Tidy(i)'
  BY <1>1, <1>2, <1>9, <1>10, NoneIs DEF Tidy, ChildOwned, Registered, Written, Over
<1>q. QED
  BY <1>2, <1>8, <1>11, OthersTidy DEF procVars

LEMMA TidyGone ==
  ASSUME OrchestratorInv, TidyInv, Crosses, Gone
  PROVE  TidyInv'
<1> USE DEF OrchestratorInv
<1>1. /\ phase' = "down" /\ snap' = Nothing /\ mem' = Nothing /\ live' = {} /\ bound' = {}
      /\ leaving' = [i \in Instances |-> NoPi] /\ heart' = [i \in Instances |-> NoHeart]
      /\ op' = [c \in Actors |-> Idle]
      /\ child' = [i \in Instances |-> IF child[i] = "none" THEN "none" ELSE "exited"]
      /\ failed' = failed \cup {i \in Instances : child[i] # "none"}
      /\ UNCHANGED <<file, pis>>
  BY DEF Gone
<1>2. crossed' = {}
  BY <1>1 DEF Crosses
<1>3. ASSUME NEW i \in Instances PROVE Tidy(i)'
  <2>1. ChildOwned(i)'
    BY <1>1 DEF ChildOwned, Types
  <2>2. snap'[i].status \in Over /\ mem'[i].status \in Over /\ leaving'[i] = NoPi /\ heart'[i] = NoHeart
    BY <1>1, NoneIs DEF Over
  <2>3. ASSUME i \notin failed' PROVE Registered(i)' /\ Written(i)'
    <3>1. file[i] = NoRecord /\ pis[i] = {}
      BY <1>1, <2>3 DEF Unspawned
    <3>2. Registered(i)'
      BY <1>1, <2>2, <3>1 DEF Registered
    <3>3. Written(i)'
      BY <1>1, <2>2, <3>1, NoneIs DEF Written, Over
    <3>q. QED
      BY <3>2, <3>3
  <2>q. QED
    BY <2>1, <2>2, <2>3 DEF Tidy
<1>q. QED
  BY <1>2, <1>3 DEF TidyInv

\* While the listener is attached an instance that neither crossed nor failed has no
\* registration but the one on record, and none if that is none.
LEMMA OnRecord ==
  ASSUME OrchestratorInv, TidyInv, NEW i \in Instances, i \notin crossed \cup failed, i \in bound
  PROVE  /\ res[i].pi = mem[i].pi /\ pis[i] \subseteq {mem[i].pi}
         /\ mem[i].pi = NoPi => pis[i] = {} /\ heart[i] = NoHeart
<1>1. Registered(i) /\ pis[i] \subseteq 1 .. minted
  BY DEF TidyInv, Tidy, OrchestratorInv, Types
<1>2. NoPi \notin pis[i]
  BY <1>1 DEF NoPi, OrchestratorInv, Types
<1>q. QED
  BY <1>1, <1>2 DEF Registered

LEMMA EndsKeeps ==
  ASSUME OrchestratorInv, NEW c \in Actors, NEW i \in Instances, Ends(c, i),
         op[c].at \in Enders => op[c].of = i, UNCHANGED <<snap, leaving>>,
         \A j \in Instances : j # i => pis'[j] = pis[j]
  PROVE  \A j \in Instances : j # i => Kept(j)
<1>1. ASSUME NEW j \in Instances, j # i, NEW d \in Actors,
             \/ op[d].of = j /\ op[d].at \in {"disconnect", "dispose"}
             \/ op'[d].of = j /\ op'[d].at \in {"disconnect", "dispose"}
      PROVE  op'[d] = op[d]
  BY <1>1, IdleIs DEF Ends, Enders, Pending
<1>2. ASSUME NEW j \in Instances, j # i
      PROVE  /\ child'[j] = child[j] /\ res'[j] = res[j] /\ mem'[j] = mem[j] /\ heart'[j] = heart[j]
             /\ file'[j] = file[j] /\ (j \in bound' <=> j \in bound) /\ (j \in live' <=> j \in live)
  BY <1>2 DEF Ends
<1>q. QED
  BY <1>1, <1>2 DEF Kept

\* A stop, and a spawn that failed, begin to end an instance.
LEMMA TidyCleaning ==
  ASSUME OrchestratorInv, TidyInv, Crosses, phase' # "down", NEW c \in Actors, NEW i \in Instances,
         child[i] # "none", op[c].at \notin {"disconnect", "dispose"}, op[c].at \in Enders => op[c].of = i,
         NEW why \in {"spawn", "stop"}, NEW r \in Entry, r.status \in {"stopping", "error"},
         r.pi = mem[i].pi, Cleanup(c, i, why, r, [file EXCEPT ![i] = r]),
         UNCHANGED <<snap, pis, leaving, failed>>
  PROVE  TidyInv'
<1> USE DEF OrchestratorInv
<1>1. \A j \in Instances : j # i => Kept(j)
  BY Cleaning, EndsKeeps
<1>2. /\ ChildOwned(i) /\ crossed \subseteq crossed'
      /\ i \notin crossed \cup failed => Registered(i)
      /\ i \notin failed => snap[i].status \in Over
  BY Remembered DEF TidyInv, Tidy
<1>3. /\ i \notin bound'
      /\ i \notin crossed \cup failed => heart'[i] = NoHeart
  BY <1>2 DEF Cleanup, Types, Registered
<1>4. CASE res[i].pi # NoPi /\ r.pi # NoPi
  <2>1. /\ op' = [op EXCEPT ![c] = Disconnecting(i, why, r.pi, res[i].rpc)]
        /\ UNCHANGED <<live, res, child>>
    BY <1>4 DEF Cleanup
  <2>2. i \in Nat /\ r.pi \in Nat /\ res[i].rpc \in BOOLEAN
    BY Numbers DEF Types, Entry, Resources
  <2>3. PICK x \in Op : /\ x = Disconnecting(i, why, r.pi, res[i].rpc)
                        /\ x.at = "disconnect" /\ x.of = i /\ x.pi = r.pi /\ x.rpc = res[i].rpc
    BY <2>2, DisconnectingIs
  <2>4. op'[c] = x /\ \A d \in Actors : d # c => op'[d] = op[d]
    BY <2>1, <2>3, OneMoves
  <2>5. ChildOwned(i)'
    BY <1>2, <2>1, <2>3, <2>4 DEF ChildOwned
  <2>6. ASSUME i \notin crossed' \cup failed PROVE Registered(i)'
    <3>1. i \in bound => pis[i] \subseteq {r.pi}
      BY <1>2, <2>6, OnRecord
    <3>q. QED
      BY <1>2, <1>3, <2>3, <2>4, <2>6, <3>1 DEF Registered
  <2>7. Written(i)'
    BY <2>3, <2>4 DEF Written, Closing
  <2>8. Tidy(i)'
    BY <1>2, <2>5, <2>6, <2>7 DEF Tidy
  <2>q. QED
    BY <1>1, <2>8, OthersTidy
<1>5. CASE res[i].pi = NoPi \/ r.pi = NoPi
  <2> DEFINE f == [file EXCEPT ![i] = r]
  <2>1. f \in [Instances -> Entry]
    BY DEF Types
  <2> HIDE DEF f
  <2>2. Dispose(c, i, why, res[i].rpc, r, f) /\ res[i].rpc \in BOOLEAN
    BY <1>5 DEF Cleanup, f, Types, Resources
  <2>3. /\ \A d \in Actors : d # c /\ op[d].at \notin Pending => op'[d] = op[d]
        /\ \/ child'[i] = "signalled" /\ op'[c].at = "dispose" /\ op'[c].of = i
           \/ /\ ~res[i].rpc \/ child[i] = "exited"
              /\ child'[i] = child[i]
              /\ mem'[i].status = "stopped" /\ file'[i].status \in {"none", "stopped"}
    BY <2>1, <2>2, Disposing
  <2>4. ChildOwned(i)'
    BY <1>2, <2>3 DEF ChildOwned, Pending
  <2>5. ASSUME i \notin crossed' \cup failed PROVE Registered(i)'
    <3>1. i \in bound => pis[i] = {}
      BY <1>2, <1>5, <2>5, OnRecord
    <3>q. QED
      BY <1>2, <1>3, <2>3, <2>5, <3>1 DEF Registered, Pending
  <2>6. Written(i)'
    BY <2>3 DEF Written, Closing, Over
  <2>7. Tidy(i)'
    BY <1>2, <2>4, <2>5, <2>6 DEF Tidy
  <2>q. QED
    BY <1>1, <2>7, OthersTidy
<1>q. QED
  BY <1>4, <1>5

LEMMA TidyStop ==
  ASSUME OrchestratorInv, TidyInv, Crosses, phase' # "down", NEW c \in Actors, NEW i \in Instances,
         Stop(c, i), UNCHANGED <<snap, pis, leaving, failed>>
  PROVE  TidyInv'
<1> USE DEF OrchestratorInv
<1>1. PICK r \in Entry : r = WithStatus(mem[i], "stopping") /\ r.status = "stopping" /\ r.pi = mem[i].pi
  <2>1. mem[i] \in Entry /\ "stopping" \in Statuses
    BY DEF Types, Statuses
  <2>q. QED
    BY <2>1, EntryIs, NoneIs
<1>2. op[c] = Idle /\ child[i] # "none" /\ Cleanup(c, i, "stop", r, [file EXCEPT ![i] = r])
  BY <1>1 DEF Stop, Unspawned
<1>q. QED
  BY <1>1, <1>2, TidyCleaning, IdleIs DEF Enders

LEMMA TidyFailSpawn ==
  ASSUME OrchestratorInv, TidyInv, Crosses, phase # "down", NEW c \in Actors, FailSpawn(c)
  PROVE  TidyInv'
<1> USE DEF OrchestratorInv
<1>1. PICK i \in Instances : i = op[c].of /\ op[c].at = "rejected" /\ child[i] # "none"
  BY DEF FailSpawn, Types, Unspawned, Awaits
<1>2. PICK r \in Entry : r = WithStatus(mem[i], "error") /\ r.status = "error" /\ r.pi = mem[i].pi
  <2>1. mem[i] \in Entry /\ "error" \in Statuses
    BY DEF Types, Statuses
  <2>q. QED
    BY <2>1, EntryIs, NoneIs
<1>3. /\ Cleanup(c, i, "spawn", r, [file EXCEPT ![i] = r])
      /\ UNCHANGED <<procVars, pis, minted, beat, ring, leaving, failed>>
  BY <1>1, <1>2 DEF FailSpawn
<1>q. QED
  BY <1>1, <1>2, <1>3, TidyCleaning DEF procVars

\* The request that ends an instance has heard from Radius, or from the child.
LEMMA TidyEnded ==
  ASSUME OrchestratorInv, TidyInv, Crosses, phase # "down", NEW c \in Actors,
         Disconnected(c) \/ NotDisconnected(c) \/ Disposed(c)
  PROVE  TidyInv'
<1> USE DEF OrchestratorInv
<1>1. PICK i \in Instances : /\ i = op[c].of /\ child[i] # "none" /\ i \notin bound
                             /\ op[c].at \in {"disconnect", "dispose"}
  BY DEF Disconnected, NotDisconnected, Disposed, Types, Unspawned, StopDetaches, Awaits
<1>2. mem[i] \in Entry /\ file \in [Instances -> Entry] /\ phase' # "down"
  BY DEF Types, Disconnected, NotDisconnected, Disposed, procVars
<1>3. /\ ChildOwned(i) /\ crossed \subseteq crossed'
      /\ i \notin crossed \cup failed => Registered(i)
      /\ i \notin failed => snap[i].status \in Over
  BY <1>2, Remembered DEF TidyInv, Tidy
<1>4. ASSUME NEW why, Finish(i, why, mem[i], file), op' = [op EXCEPT ![c] = Idle]
      PROVE  /\ op'[c] = Idle /\ \A d \in Actors : d # c => op'[d] = op[d]
             /\ mem'[i].status \in Over /\ file'[i].status \in Over
             /\ \A j \in Instances : j # i => /\ mem'[j] = mem[j] /\ file'[j] = file[j]
                                              /\ j \in live' <=> j \in live
  <2>1. op'[c] = Idle /\ \A d \in Actors : d # c => op'[d] = op[d]
    BY <1>4, OneMoves, IdleIs
  <2>2. /\ mem'[i].status = "stopped" /\ file'[i].status \in {"none", "stopped"}
        /\ \A j \in Instances : j # i => mem'[j] = mem[j] /\ file'[j] = file[j]
        /\ live' = live \ {i}
    <3>1. PICK r \in Entry : r = mem[i] /\ Finish(i, why, r, file)
      BY <1>2, <1>4
    <3>q. QED
      BY <1>2, <3>1, Finishing
  <2>q. QED
    BY <2>1, <2>2 DEF Over
<1>5. CASE Disposed(c)
  <2>1. /\ op[c].at = "dispose" /\ child[i] = "exited"
        /\ Finish(i, op[c].why, mem[i], file) /\ op' = [op EXCEPT ![c] = Idle]
        /\ UNCHANGED <<snap, res, bound, child, pis, heart, leaving, failed>>
    BY <1>1, <1>5 DEF Disposed, procVars, radiusVars
  <2>2. /\ op'[c] = Idle /\ \A d \in Actors : d # c => op'[d] = op[d]
        /\ mem'[i].status \in Over /\ file'[i].status \in Over
        /\ \A j \in Instances : j # i => /\ mem'[j] = mem[j] /\ file'[j] = file[j]
                                         /\ j \in live' <=> j \in live
    BY <1>4, <2>1
  <2>3. \A j \in Instances : j # i => Kept(j)
    BY <1>1, <2>1, <2>2, IdleIs DEF Kept
  <2>4. ChildOwned(i)' /\ Written(i)'
    BY <2>1, <2>2 DEF ChildOwned, Written
  <2>5. Registered(i) => Registered(i)'
    BY <1>1, <2>1, <2>2 DEF Registered
  <2>6. Tidy(i)'
    BY <1>3, <2>1, <2>4, <2>5 DEF Tidy
  <2>q. QED
    BY <1>2, <2>1, <2>3, <2>6, OthersTidy
<1>6. CASE NotDisconnected(c)
  <2>1. /\ op[c].at = "disconnect" /\ UnregisterFails(i, op[c].pi)
        /\ Finish(i, op[c].why, mem[i], file) /\ op' = [op EXCEPT ![c] = Idle]
        /\ UNCHANGED <<snap, res, bound, child, heart, leaving>>
    BY <1>1, <1>6 DEF NotDisconnected
  <2>2. /\ op'[c] = Idle /\ \A d \in Actors : d # c => op'[d] = op[d]
        /\ \A j \in Instances : j # i => /\ mem'[j] = mem[j] /\ file'[j] = file[j]
                                         /\ j \in live' <=> j \in live
    BY <1>4, <2>1
  <2>3. /\ \A j \in Instances : pis'[j] \subseteq pis[j]
        /\ failed \subseteq failed' /\ i \in failed'
    BY <2>1, Unregistering DEF UnregisterFails
  <2>4. \A j \in Instances : j # i => Kept(j)
    BY <1>1, <2>1, <2>2, <2>3, IdleIs DEF Kept
  <2>5. ChildOwned(i)'
    BY <1>3, <2>1, <2>2, <2>3, IdleIs DEF ChildOwned
  <2>6. Tidy(i)'
    BY <2>3, <2>5 DEF Tidy
  <2>q. QED
    BY <1>2, <2>3, <2>4, <2>6, OthersTidy
<1>7. CASE Disconnected(c)
  <2>1. /\ op[c].at = "disconnect" /\ Unregister(i, op[c].pi)
        /\ Dispose(c, i, op[c].why, op[c].rpc, WithPi(mem[i], NoPi), file)
        /\ UNCHANGED <<procVars, bound, minted, heart, beat, ring, leaving, failed>>
    BY <1>1, <1>7 DEF Disconnected
  <2>2. PICK r \in Entry : r = WithPi(mem[i], NoPi)
    <3>1. "error" \in Statuses
      BY DEF Statuses
    <3>q. QED
      BY <1>2, <3>1, EntryIs, NoneIs
  <2>3. op[c].why \in {"none", "spawn", "stop", "rpc"} /\ op[c].rpc \in BOOLEAN
    BY DEF Types, Op
  <2>4. /\ \A d \in Actors : d # c /\ op[d].at \notin Pending => op'[d] = op[d]
        /\ \A d \in Actors : d # c => op'[d] = op[d] \/ op'[d].at \in {"rejected", "stream"}
        /\ \/ child'[i] = "signalled" /\ op'[c].at = "dispose" /\ op'[c].of = i /\ live' = live
           \/ /\ ~op[c].rpc \/ child[i] = "exited"
              /\ child'[i] = child[i] /\ op'[c] = Idle /\ live' = live \ {i}
              /\ mem'[i].status \in Over /\ file'[i].status \in Over
        /\ \A j \in Instances : j # i =>
             child'[j] = child[j] /\ mem'[j] = mem[j] /\ file'[j] = file[j] /\ res'[j] = res[j]
    BY <1>1, <1>2, <2>1, <2>2, <2>3, Disposing DEF Over
  <2>5. pis'[i] = pis[i] \ {op[c].pi} /\ \A j \in Instances : j # i => pis'[j] = pis[j]
    BY <2>1, Unregistering
  <2>6. \A j \in Instances : j # i => Kept(j)
    <3>1. ASSUME NEW j \in Instances, j # i, NEW d \in Actors,
                 \/ op[d].of = j /\ op[d].at \in {"disconnect", "dispose"}
                 \/ op'[d].of = j /\ op'[d].at \in {"disconnect", "dispose"}
          PROVE  op'[d] = op[d]
      BY <1>1, <2>4, <3>1, IdleIs DEF Pending
    <3>q. QED
      BY <2>1, <2>4, <2>5, <3>1 DEF Kept, procVars
  <2>7. ChildOwned(i)'
    <3>1. CASE child'[i] = "signalled" /\ op'[c].at = "dispose" /\ op'[c].of = i
      BY <3>1 DEF ChildOwned
    <3>2. CASE (~op[c].rpc \/ child[i] = "exited") /\ child'[i] = child[i]
      <4>1. child[i] # "running"
        BY <1>1, <1>3, <2>1, <3>2 DEF ChildOwned
      <4>q. QED
        BY <1>3, <2>1, <2>4, <3>2, <4>1 DEF ChildOwned, Pending
    <3>q. QED
      BY <2>4, <3>1, <3>2
  <2>8. Registered(i) => Registered(i)'
    <3>1. \A d \in Actors : op[d].at = "disconnect" /\ op[d].pi # op[c].pi => op'[d] = op[d]
      BY <2>4 DEF Pending
    <3>q. QED
      BY <1>1, <2>1, <2>5, <3>1 DEF Registered
  <2>9. Written(i)'
    BY <2>4 DEF Written, Closing
  <2>10. Tidy(i)'
    BY <1>3, <2>1, <2>7, <2>8, <2>9 DEF Tidy, procVars
  <2>q. QED
    BY <1>2, <2>1, <2>6, <2>10, OthersTidy
<1>q. QED
  BY <1>5, <1>6, <1>7

LEMMA TidyExit ==
  ASSUME OrchestratorInv, TidyInv, Crosses, phase # "down", NEW i \in Instances, Exit(i)
  PROVE  TidyInv'
<1> USE DEF OrchestratorInv
<1>1. Exits(i)
  BY Exiting
<1>2. \A c \in Actors :
        \/ op[c].at \in Pending /\ op'[c].at \in {"rejected", "stream"}
        \/ op'[c] = op[c]
  BY <1>1, Rejecting DEF Exits
<1>3. /\ child'[i] = "exited" /\ \A j \in Instances : j # i => child'[j] = child[j]
      /\ UNCHANGED <<snap, pis, failed>> /\ phase' # "down"
  BY <1>1 DEF Exits, Types, procVars
<1>4. \A j \in Instances : j # i =>
        /\ mem'[j] = mem[j] /\ file'[j] = file[j] /\ res'[j] = res[j] /\ heart'[j] = heart[j]
        /\ leaving'[j] = leaving[j] /\ (j \in bound' <=> j \in bound) /\ (j \in live' <=> j \in live)
  BY <1>1 DEF Exits, Types
<1>5. \A c \in Actors : op[c].at \in {"disconnect", "dispose"} \/ op'[c].at \in {"disconnect", "dispose"}
        => op'[c] = op[c]
  BY <1>2 DEF Pending
<1>6. \A j \in Instances : j # i => Kept(j)
  BY <1>3, <1>4, <1>5 DEF Kept
<1>7. ChildOwned(i)' /\ crossed \subseteq crossed' /\ (i \notin failed => snap'[i].status \in Over)
  BY <1>3, Remembered DEF ChildOwned, TidyInv, Tidy
<1>8. ASSUME i \notin crossed' \cup failed PROVE Registered(i)' /\ Written(i)'
  <2>1. Registered(i) /\ Written(i) /\ i \notin crossed \cup failed
    BY <1>7, <1>8 DEF TidyInv, Tidy
  <2>2. CASE i \notin bound
    <3>1. UNCHANGED <<file, live, mem, res, bound, heart, leaving, pis>>
      BY <1>1, <2>2 DEF Exits
    <3>2. Closing(i) => Closing(i)'
      BY <1>5 DEF Closing
    <3>q. QED
      BY <1>5, <2>1, <2>2, <3>1, <3>2 DEF Registered, Written
  <2>3. CASE i \in bound
    <3>1. /\ i \notin bound' /\ heart'[i] = IF res[i].pi # NoPi THEN NoHeart ELSE heart[i]
          /\ mem'[i].status \in Over /\ file'[i].status \in Over
          /\ leaving'[i] = mem[i].pi \/ mem[i].pi = NoPi \/ res[i].pi = NoPi
      BY <1>1, <2>3 DEF Exits, Over, Types
    <3>2. /\ res[i].pi = mem[i].pi /\ pis'[i] \subseteq {mem[i].pi}
          /\ mem[i].pi = NoPi => pis'[i] = {} /\ heart[i] = NoHeart
      BY <1>3, <2>1, <2>3, OnRecord
    <3>3. heart'[i] = NoHeart /\ \A p \in pis'[i] : leaving'[i] = p
      BY <3>1, <3>2
    <3>q. QED
      BY <3>1, <3>3 DEF Registered, Written
  <2>q. QED
    BY <2>2, <2>3
<1>9. Tidy(i)'
  BY <1>3, <1>7, <1>8 DEF Tidy
<1>q. QED
  BY <1>3, <1>6, <1>9, OthersTidy

LEMMA TidyLeft ==
  ASSUME OrchestratorInv, TidyInv, Crosses, phase # "down", NEW i \in Instances, Left(i)
  PROVE  TidyInv'
<1> USE DEF OrchestratorInv
<1>1. /\ leaving[i] # NoPi /\ leaving' = [leaving EXCEPT ![i] = NoPi] /\ live' = live \ {i}
      /\ UNCHANGED <<procVars, res, bound, child, minted, heart, beat, ring, op>>
  BY DEF Left
<1>2. i \notin bound /\ child[i] = "exited" /\ leaving'[i] = NoPi
  BY <1>1 DEF StopDetaches, Types
<1>3. /\ \A j \in Instances : j # i => mem'[j] = mem[j] /\ file'[j] = file[j] /\ pis'[j] = pis[j]
      /\ failed \subseteq failed'
      /\ \/ i \in failed'
         \/ /\ pis'[i] = pis[i] \ {leaving[i]}
            /\ mem'[i].status = mem[i].status /\ file'[i] = mem'[i] /\ failed' = failed
  <2>1. PICK r \in Entry : r = WithPi(mem[i], NoPi) /\ r.status = mem[i].status
    <3>1. mem[i] \in Entry /\ "error" \in Statuses
      BY DEF Types, Statuses
    <3>q. QED
      BY <3>1, EntryIs, NoneIs
  <2>2. CASE Unregister(i, leaving[i]) /\ SetRecord(i, r) /\ UNCHANGED failed
    <3>1. pis'[i] = pis[i] \ {leaving[i]} /\ \A j \in Instances : j # i => pis'[j] = pis[j]
      BY <2>2, Unregistering
    <3>q. QED
      BY <2>1, <2>2, <3>1 DEF SetRecord, Types
  <2>3. CASE UnregisterFails(i, leaving[i]) /\ UNCHANGED <<mem, file>>
    <3>1. \A j \in Instances : j # i => pis'[j] = pis[j]
      BY <2>3, Unregistering DEF UnregisterFails
    <3>q. QED
      BY <2>3, <3>1 DEF UnregisterFails
  <2>q. QED
    BY <2>1, <2>2, <2>3 DEF Left
<1>4. \A j \in Instances : j # i => leaving'[j] = leaving[j] /\ (j \in live' <=> j \in live)
  BY <1>1 DEF Types
<1>5. \A j \in Instances : j # i => Kept(j)
  BY <1>1, <1>3, <1>4 DEF Kept, procVars
<1>6. phase' # "down" /\ crossed \subseteq crossed'
  BY <1>1, Remembered DEF procVars
<1>7. ASSUME i \notin crossed' \cup failed' PROVE Registered(i)' /\ Written(i)' /\ snap'[i].status \in Over
  <2>1. Registered(i) /\ Written(i) /\ snap[i].status \in Over
    BY <1>3, <1>6, <1>7 DEF TidyInv, Tidy
  <2>2. Registered(i)'
    BY <1>1, <1>2, <1>3, <1>7, <2>1 DEF Registered
  <2>3. Closing(i) <=> Closing(i)'
    BY <1>1 DEF Closing
  <2>q. QED
    BY <1>1, <1>3, <1>7, <2>1, <2>2, <2>3 DEF Written, procVars
<1>8. i \notin failed' => snap'[i].status \in Over
  BY <1>1, <1>3 DEF TidyInv, Tidy, procVars
<1>9. Tidy(i)'
  BY <1>1, <1>2, <1>7, <1>8 DEF Tidy, ChildOwned
<1>q. QED
  BY <1>3, <1>5, <1>6, <1>9, OthersTidy

LEMMA TidyInit == ASSUME Init PROVE TidyInv
<1>1. /\ \A c \in Actors : op[c].at = "idle"
      /\ \A i \in Instances : i \notin Old =>
           file[i] = NoRecord /\ child[i] = "none" /\ pis[i] = {} /\ heart[i] = NoHeart
      /\ \A i \in Instances : /\ mem[i] = NoRecord /\ snap[i] = NoRecord
                              /\ child[i] \in {"none", "exited"} /\ leaving[i] = NoPi
      /\ bound = {} /\ live = {} /\ crossed = {} /\ failed = Old
  BY IdleIs, NoneIs DEF Init
<1>2. ASSUME NEW i \in Instances PROVE Tidy(i)
  BY <1>1, NoneIs DEF Tidy, ChildOwned, Registered, Written, Over
<1>q. QED
  BY <1>1, <1>2 DEF TidyInv

LEMMA TidyNext ==
  ASSUME OrchestratorInv, TidyInv, [Next]_vars
  PROVE  TidyInv'
<1>1. CASE UNCHANGED vars
  <2>1. UNCHANGED <<phase, snap, file, live, mem, res, bound, child, pis, heart, op, leaving, crossed, failed>>
    BY <1>1 DEF vars, procVars, liveVars, radiusVars, taskVars
  <2>2. \A i \in Instances : Tidy(i) => Tidy(i)'
    BY <2>1 DEF Tidy, ChildOwned, Registered, Written, Closing
  <2>q. QED
    BY <2>1, <2>2 DEF TidyInv
<1>2. CASE Next
  <2>1. Step /\ Crosses
    BY <1>2 DEF Next, Crosses
  <2>2. CASE phase = "down"
    BY <2>1, <2>2, DownStarts, TidyProcess
  <2>3. CASE Gone
    BY <2>1, <2>3, TidyGone
  <2>4. CASE phase # "down" /\ ~Gone
    <3>1. ~Start /\ ~Crash
      BY <2>4 DEF Start, Crash
    <3>2. ASSUME NEW c \in Actors, FailSpawn(c) \/ Disposed(c) PROVE TidyInv'
      BY <2>1, <2>4, <3>2, TidyFailSpawn, TidyEnded
    <3>3. CASE Microtask
      BY <2>1, <2>4, <3>2, <3>3, TidyProcess DEF Microtask
    <3>4. ASSUME NEW i \in Instances, Exit(i) PROVE TidyInv'
      BY <2>1, <2>4, <3>4, TidyExit
    <3>5. CASE Server
      <4>1. phase' # "down" /\ Main \in Actors
        BY <2>4, <3>5, Numbers DEF Server, MachineRegistered, Shutdown, StopPresence, Leave,
           DisconnectOld, StopNext, Left, procVars
      <4>2. ASSUME NEW i \in Instances, StopNext(i) PROVE TidyInv'
        <5>1. CASE Stop(Main, i)
          BY <2>1, <4>1, <4>2, <5>1, TidyStop DEF StopNext
        <5>2. CASE UNCHANGED <<liveVars, heart, op>>
          BY <2>1, <2>4, <4>2, <5>2, TidyProcess DEF StopNext, radiusVars, taskVars
        <5>q. QED
          BY <4>2, <5>1, <5>2 DEF StopNext
      <4>3. ASSUME NEW i \in Instances, DisconnectOld(i) \/ Left(i) PROVE TidyInv'
        BY <2>1, <2>4, <4>3, TidyProcess, TidyLeft
      <4>4. CASE MachineRegistered \/ Shutdown
        BY <2>1, <2>4, <4>4, TidyProcess
      <4>5. CASE StopPresence \/ Leave
        BY <2>1, <2>4, <4>1, <4>5, TidyRequests
      <4>q. QED
        BY <3>5, <4>2, <4>3, <4>4, <4>5 DEF Server
    <3>6. CASE Radius
      <4>1. ASSUME NEW b \in Beats, Renewed(b) \/ NotRenewed(b) PROVE TidyInv'
        BY <2>1, <2>4, <4>1, TidyRenewed, TidyRadius
      <4>2. CASE MachineRenewed \/ \E i \in Instances : HeartFires(i) \/ HeartAnswered(i) \/ HeartLost(i) \/ RenewNext(i)
        BY <2>1, <2>4, <4>2, TidyRadius
      <4>q. QED
        BY <3>6, <4>1, <4>2 DEF Radius
    <3>7. ASSUME NEW c \in Actors, Requests(c) PROVE TidyInv'
      <4>1. CASE \/ Send(c) \/ Answered(c) \/ Synced(c) \/ CloseStream(c) \/ SpawnAnswered(c)
                 \/ \E i \in Instances : OpenStream(c, i)
        <5>1. phase' # "down"
          BY <2>4, <4>1 DEF Send, Answered, Synced, CloseStream, SpawnAnswered, OpenStream, procVars
        <5>q. QED
          BY <2>1, <2>4, <4>1, <5>1, TidyRequests
      <4>2. ASSUME NEW i \in Instances, StopRequest(c, i) PROVE TidyInv'
        BY <2>1, <2>4, <4>2, TidyStop DEF StopRequest, procVars
      <4>3. ASSUME NEW i \in Instances, Spawn(c, i) PROVE TidyInv'
        BY <2>1, <2>4, <4>3, TidySpawn
      <4>4. CASE SpawnRegistered(c) \/ SpawnNotRegistered(c)
        BY <2>1, <2>4, <4>4, TidySpawns
      <4>5. CASE Disconnected(c) \/ NotDisconnected(c)
        BY <2>1, <2>4, <4>5, TidyEnded
      <4>q. QED
        BY <3>7, <4>1, <4>2, <4>3, <4>4, <4>5 DEF Requests
    <3>q. QED
      BY <2>1, <3>1, <3>3, <3>4, <3>5, <3>6, <3>7 DEF Step
  <2>q. QED
    BY <2>2, <2>3, <2>4
<1>q. QED
  BY <1>1, <1>2

LEMMA TidyInvariant == Spec => [](OrchestratorInv /\ TidyInv)
  BY OrchestratorInit, OrchestratorNext, TidyInit, TidyNext, PTL DEF Spec

\* What outlives an instance has its registration crossed or a request failed; else
\* no registration, heartbeat, child or record of a running instance is left of it
\* (LeftoversExplained).
THEOREM LeftoversExplainedAlways == Spec => []LeftoversExplained
<1>1. OrchestratorInv /\ TidyInv => LeftoversExplained
  <2> SUFFICES ASSUME OrchestratorInv, TidyInv, NEW i \in Instances, child[i] # "none",
                      i \notin live, Idling(i), i \notin crossed \cup failed
               PROVE  /\ pis[i] = {} /\ heart[i] = NoHeart
                      /\ child[i] = "exited"
                      /\ file[i].status \in {"none", "stopped", "error"}
    BY DEF LeftoversExplained
  <2>1. ChildOwned(i) /\ Registered(i) /\ Written(i)
    BY DEF TidyInv, Tidy
  <2>2. /\ leaving[i] = NoPi /\ ~Closing(i) /\ i \notin bound
        /\ ~\E c \in Actors : op[c].at \in {"disconnect", "dispose"} /\ op[c].of = i
    BY DEF Idling, Ending, Closing, OrchestratorInv, StopDetaches
  <2>3. heart[i] = NoHeart /\ file[i].status \in Over
    BY <2>1, <2>2 DEF Registered, Written
  <2>4. pis[i] = {}
    <3>1. pis[i] \subseteq 1 .. minted /\ minted \in Nat
      BY DEF OrchestratorInv, Types
    <3>2. NoPi \notin pis[i]
      BY <3>1 DEF NoPi
    <3>q. QED
      BY <2>1, <2>2, <3>2 DEF Registered
  <2>5. child[i] = "exited"
    BY <2>1, <2>2 DEF ChildOwned, OrchestratorInv, Types
  <2>q. QED
    BY <2>3, <2>4, <2>5 DEF Over
<1>q. QED
  BY <1>1, TidyInvariant, PTL
=============================================================================
