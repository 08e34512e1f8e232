---------------------------- MODULE EngineProofs ----------------------------
(* Theorems about pausing and resuming, and about approval in the browser,  *)
(* for all values of the constants.                                         *)
EXTENDS EngineProperties, BrowserProperties, FiniteSetTheorems, SequenceTheorems, TLAPS

\* What callers and clients hold belongs together with the maps: a race for a
\* pause is the only one and its pause is in flight; what is queued or told was
\* opened; a pause that settled a resume was told of; and what was answered is
\* the outcome, which exists by then.
CallsKnown ==
  /\ \A c \in Callers : call[c].at = "race" /\ call[c].id # NoPause =>
       call[c].id \in pending /\ owner[call[c].id] = call[c].run
  /\ \A c, d \in Callers : call[c].at = "race" /\ call[d].at = "race"
                           /\ call[c].id = call[d].id /\ call[c].id # NoPause => c = d
  /\ \A p \in pending : \E c \in Callers : call[c] = Racing(owner[p], p)

IdsKnown ==
  /\ \A p \in told : Opened(p)
  /\ \A x \in Runs : \A i \in DOMAIN queue[x] : owner[queue[x][i]] = x
  /\ \A p \in Pauses : outcome[p].kind = "paused" => outcome[p].id \in told

AnswersKnown ==
  \A p \in Pauses : /\ replies[p] \subseteq {outcome[p], Missing}
                    /\ replies[p] # {} => Settled(p)

\* The identifiers recorded are those that settled, each once.
RecordedOnce ==
  /\ \A i, j \in DOMAIN recorded : recorded[i] = recorded[j] => i = j
  /\ \A p \in Pauses : Settled(p) <=> \E i \in DOMAIN recorded : recorded[i] = p

\* Accounted without the cardinality, which CallsKnown stands for.
Places ==
  /\ \A p \in Pauses : Opened(p) <=> p \in paused \/ p \in pending \/ Settled(p)
  /\ paused \cap pending = {}
  /\ \A p \in paused \cup pending : ~Settled(p)

\* The inductive invariant.
EngineInv ==
  /\ TypeOK
  /\ IsFiniteSet(paused)
  /\ Places /\ RecordedOnce /\ CallsKnown /\ IdsKnown /\ AnswersKnown

-----------------------------------------------------------------------------
(* What the operators do                                                    *)

\* Recording identifiers that have not settled settles exactly these.
LEMMA Records ==
  ASSUME TypeOK, RecordedOnce,
         NEW ids \in Seq(Pauses), NEW o \in Outcome, Record(ids, o),
         \A i, j \in DOMAIN ids : ids[i] = ids[j] => i = j,
         \A i \in DOMAIN ids : ~Settled(ids[i])
  PROVE  /\ recorded' \in Seq(Pauses)
         /\ outcome' \in [Pauses -> Outcome \cup {NoOutcome}]
         /\ \A p \in Pauses : Settled(p)' <=> Settled(p) \/ \E i \in DOMAIN ids : ids[i] = p
         /\ \A p \in Pauses : outcome'[p] = outcome[p] \/ ~Settled(p)
         /\ RecordedOnce'
<1>1. /\ recorded \in Seq(Pauses) /\ recorded' = recorded \o ids
      /\ outcome' = [p \in Pauses |-> IF \E i \in DOMAIN ids : ids[i] = p THEN o ELSE outcome[p]]
  BY DEF TypeOK, Record
<1>2. /\ recorded' \in Seq(Pauses)
      /\ Len(recorded') = Len(recorded) + Len(ids)
      /\ \A i \in 1 .. Len(recorded) + Len(ids) : recorded'[i] =
           IF i <= Len(recorded) THEN recorded[i] ELSE ids[i - Len(recorded)]
  BY <1>1, ConcatProperties
<1>3. /\ Len(recorded) \in Nat /\ DOMAIN recorded = 1 .. Len(recorded)
      /\ Len(ids) \in Nat /\ DOMAIN ids = 1 .. Len(ids)
      /\ DOMAIN recorded' = 1 .. Len(recorded) + Len(ids)
  BY <1>1, <1>2, LenProperties
<1>4. o # NoOutcome
  BY DEF Outcome, NoOutcome, Ended, PausedAt, Interrupted
<1>5. \A p \in Pauses : Settled(p)' <=> Settled(p) \/ \E i \in DOMAIN ids : ids[i] = p
  BY <1>1, <1>4 DEF Settled
<1>6. outcome' \in [Pauses -> Outcome \cup {NoOutcome}]
  BY <1>1 DEF TypeOK
<1>7. \A p : (\E i \in DOMAIN recorded' : recorded'[i] = p) <=>
               \/ \E i \in DOMAIN recorded : recorded[i] = p
               \/ \E i \in DOMAIN ids : ids[i] = p
  <2>1. ASSUME NEW i \in DOMAIN ids PROVE recorded'[i + Len(recorded)] = ids[i]
                                         /\ i + Len(recorded) \in DOMAIN recorded'
    BY <1>2, <1>3, <2>1
  <2>2. ASSUME NEW i \in DOMAIN recorded PROVE recorded'[i] = recorded[i] /\ i \in DOMAIN recorded'
    BY <1>2, <1>3, <2>2
  <2>3. ASSUME NEW i \in DOMAIN recorded', i > Len(recorded)
        PROVE  i - Len(recorded) \in DOMAIN ids /\ recorded'[i] = ids[i - Len(recorded)]
    BY <1>2, <1>3, <2>3
  <2>4. ASSUME NEW i \in DOMAIN recorded', ~(i > Len(recorded))
        PROVE  i \in DOMAIN recorded /\ recorded'[i] = recorded[i]
    BY <1>2, <1>3, <2>4
  <2>q. QED
    BY <2>1, <2>2, <2>3, <2>4
<1>8. ASSUME NEW i \in DOMAIN recorded', NEW j \in DOMAIN recorded', recorded'[i] = recorded'[j]
      PROVE  i = j
  <2>1. ASSUME NEW k \in DOMAIN recorded, NEW l \in DOMAIN ids PROVE recorded[k] # ids[l]
    <3>1. recorded[k] \in Pauses /\ Settled(recorded[k])
      BY <1>1, <1>3, <2>1 DEF RecordedOnce
    <3>q. QED
      BY <3>1, <2>1
  <2>2. /\ i > Len(recorded) => i - Len(recorded) \in DOMAIN ids
                                /\ recorded'[i] = ids[i - Len(recorded)]
        /\ j > Len(recorded) => j - Len(recorded) \in DOMAIN ids
                                /\ recorded'[j] = ids[j - Len(recorded)]
        /\ i <= Len(recorded) => i \in DOMAIN recorded /\ recorded'[i] = recorded[i]
        /\ j <= Len(recorded) => j \in DOMAIN recorded /\ recorded'[j] = recorded[j]
        /\ i \in Nat /\ j \in Nat
    BY <1>2, <1>3, <1>8
  <2>3. CASE i <= Len(recorded) /\ j <= Len(recorded)
    BY <2>2, <2>3, <1>8 DEF RecordedOnce
  <2>4. CASE i > Len(recorded) /\ j > Len(recorded)
    <3>1. i - Len(recorded) = j - Len(recorded)
      BY <2>2, <2>4, <1>8
    <3>q. QED
      BY <3>1, <2>2, <1>3
  <2>5. CASE (i > Len(recorded)) # (j > Len(recorded))
    BY <2>1, <2>2, <2>5, <1>3, <1>8
  <2>q. QED
    BY <2>2, <2>3, <2>4, <2>5, <1>3
<1>9. RecordedOnce'
  BY <1>5, <1>7, <1>8 DEF RecordedOnce
<1>10. \A p \in Pauses : outcome'[p] = outcome[p] \/ ~Settled(p)
  BY <1>1
<1>q. QED
  BY <1>2, <1>5, <1>6, <1>9, <1>10

\* A finite set in some order: each of its elements comes, once.
LEMMA OrdersCover ==
  ASSUME NEW S, IsFiniteSet(S), NEW ids \in Orders(S)
  PROVE  /\ ids \in Seq(S)
         /\ \A i, j \in DOMAIN ids : ids[i] = ids[j] => i = j
         /\ \A p : p \in S <=> \E i \in DOMAIN ids : ids[i] = p
<1>1. /\ Cardinality(S) \in Nat /\ ids \in [1 .. Cardinality(S) -> S]
      /\ \A i, j \in DOMAIN ids : ids[i] = ids[j] => i = j
  BY FS_CardinalityType DEF Orders
<1>2. ids \in Injection(1 .. Cardinality(S), S)
  BY <1>1 DEF Injection, IsInjective
<1>3. Cardinality(1 .. Cardinality(S)) = Cardinality(S)
  BY <1>1, FS_Interval
<1>4. ids \in Surjection(1 .. Cardinality(S), S)
  BY <1>2, <1>3, FS_Injection
<1>5. \A p \in S : \E i \in DOMAIN ids : ids[i] = p
  BY <1>1, <1>4 DEF Surjection
<1>6. ids \in Seq(S)
  BY <1>1, IsASeq
<1>q. QED
  BY <1>1, <1>5, <1>6

\* What a caller can wait for.
LEMMA CallTypes ==
  /\ Idle \in Calls
  /\ \A x \in Runs, p \in Pauses \cup {NoPause} : Racing(x, p) \in Calls
  /\ \A p \in Pauses : Joined(p) \in Calls
<1>1. Idle \in Calls
  BY DEF Calls
<1>2. \A x \in Runs, p \in Pauses \cup {NoPause} : Racing(x, p) \in Calls
  BY DEF Calls
<1>3. \A p \in Pauses : Joined(p) \in Calls
  BY DEF Calls
<1>q. QED
  BY <1>1, <1>2, <1>3

LEMMA CallKinds ==
  ASSUME TypeOK, NEW c \in Callers
  PROVE  /\ call[c].at = "race" =>
              /\ call[c] = Racing(call[c].run, call[c].id)
              /\ call[c].run \in Runs /\ call[c].id \in Pauses \cup {NoPause}
         /\ call[c].at = "join" => call[c] = Joined(call[c].id) /\ call[c].id \in Pauses
         /\ call[c] = Idle <=> call[c].at = "idle"
         /\ call[c].at \in {"idle", "race", "join"}
<1>1. \/ call[c] = Idle
      \/ \E x \in Runs, p \in Pauses \cup {NoPause} : call[c] = Racing(x, p)
      \/ \E p \in Pauses : call[c] = Joined(p)
  BY DEF TypeOK, Calls
<1>2. CASE call[c] = Idle
  BY <1>2 DEF Idle
<1>3. CASE \E x \in Runs, p \in Pauses \cup {NoPause} : call[c] = Racing(x, p)
  BY <1>3 DEF Idle, Racing
<1>4. CASE \E p \in Pauses : call[c] = Joined(p)
  BY <1>4 DEF Idle, Joined
<1>q. QED
  BY <1>1, <1>2, <1>3, <1>4

\* The exit of a race: the pause that the caller resumed, if any, was in flight
\* for it alone and is settled now.
LEMMA Settling ==
  ASSUME EngineInv, NEW c \in Callers, call[c].at = "race", NEW o \in Outcome,
         Settle(c, o), call' = [call EXCEPT ![c] = Idle],
         UNCHANGED <<owner, paused>>
  PROVE  /\ call' \in [Callers -> Calls]
         /\ pending' \subseteq Pauses
         /\ recorded' \in Seq(Pauses)
         /\ outcome' \in [Pauses -> Outcome \cup {NoOutcome}]
         /\ Places' /\ RecordedOnce' /\ CallsKnown'
         /\ \A p \in Pauses : outcome'[p] = outcome[p] \/ ~Settled(p)
         /\ call[c].id = NoPause => UNCHANGED <<pending, outcome>>
         /\ call[c].id # NoPause =>
              /\ call[c].id \in pending
              /\ pending' = pending \ {call[c].id}
              /\ outcome' = [outcome EXCEPT ![call[c].id] = o]
<1> DEFINE p == call[c].id
<1>1. TypeOK /\ Places /\ RecordedOnce /\ CallsKnown
  BY DEF EngineInv
<1>2. call' \in [Callers -> Calls]
  BY <1>1, CallTypes DEF TypeOK
<1>3. \A d \in Callers : call'[d] = IF d = c THEN Idle ELSE call[d]
  BY <1>1 DEF TypeOK
<1>4. CASE p = NoPause
  <2>1. UNCHANGED <<pending, recorded, outcome>>
    BY <1>4 DEF Settle
  <2>2. Places' /\ RecordedOnce'
    BY <1>1, <2>1 DEF Places, RecordedOnce, Opened, Settled
  <2>3. CallsKnown'
    <3>1. \A q \in pending : call[c] # Racing(owner[q], q)
      BY <1>1, <1>4, NoneAssumption DEF TypeOK, Racing
    <3>2. \A d \in Callers : call'[d].at = "race" => call'[d] = call[d]
      BY <1>3 DEF Idle
    <3>3. \A q \in pending : \E d \in Callers : call'[d] = Racing(owner[q], q)
      BY <1>1, <1>3, <3>1 DEF CallsKnown
    <3>q. QED
      BY <1>1, <2>1, <3>2, <3>3 DEF CallsKnown
  <2>q. QED
    BY <1>1, <1>2, <1>4, <2>1, <2>2, <2>3 DEF TypeOK
<1>5. CASE p # NoPause
  <2>1. /\ p \in pending /\ p \in Pauses /\ owner[p] = call[c].run
        /\ ~Settled(p) /\ p \notin paused /\ Opened(p)
    BY <1>1, <1>5 DEF CallsKnown, TypeOK, Places
  <2>2. Record(<<p>>, o) /\ pending' = pending \ {p}
    BY <1>5 DEF Settle
  <2>3. /\ <<p>> \in Seq(Pauses) /\ DOMAIN <<p>> = {1} /\ <<p>>[1] = p
    BY <2>1
  <2>5. outcome' = [outcome EXCEPT ![p] = o]
    <3>1. \A q : (\E i \in DOMAIN <<p>> : <<p>>[i] = q) <=> q = p
      BY <2>3
    <3> HIDE DEF p
    <3> DEFINE ids == <<p>>
    <3>2. Record(ids, o) /\ \A q : (\E i \in DOMAIN ids : ids[i] = q) <=> q = p
      BY <2>2, <3>1
    <3> HIDE DEF ids
    <3>3. outcome' = [q \in Pauses |-> IF q = p THEN o ELSE outcome[q]]
      BY <3>2 DEF Record
    <3>4. outcome \in [Pauses -> Outcome \cup {NoOutcome}]
      BY <1>1 DEF TypeOK
    <3>q. QED
      BY <3>3, <3>4
  <2>4. /\ recorded' \in Seq(Pauses) /\ RecordedOnce'
        /\ outcome' \in [Pauses -> Outcome \cup {NoOutcome}]
        /\ \A q \in Pauses : Settled(q)' <=> Settled(q) \/ q = p
        /\ \A q \in Pauses : outcome'[q] = outcome[q] \/ ~Settled(q)
    <3>1. /\ \A i, j \in DOMAIN <<p>> : <<p>>[i] = <<p>>[j] => i = j
          /\ \A i \in DOMAIN <<p>> : ~Settled(<<p>>[i])
          /\ \A q : (\E i \in DOMAIN <<p>> : <<p>>[i] = q) <=> q = p
      BY <2>1, <2>3
    <3> HIDE DEF p
    <3> DEFINE ids == <<p>>
    <3>2. /\ ids \in Seq(Pauses) /\ Record(ids, o)
          /\ \A i, j \in DOMAIN ids : ids[i] = ids[j] => i = j
          /\ \A i \in DOMAIN ids : ~Settled(ids[i])
          /\ \A q : (\E i \in DOMAIN ids : ids[i] = q) <=> q = p
      BY <2>2, <2>3, <3>1
    <3> HIDE DEF ids
    <3>3. /\ recorded' \in Seq(Pauses) /\ RecordedOnce'
          /\ outcome' \in [Pauses -> Outcome \cup {NoOutcome}]
          /\ \A q \in Pauses : Settled(q)' <=> Settled(q) \/ \E i \in DOMAIN ids : ids[i] = q
          /\ \A q \in Pauses : outcome'[q] = outcome[q] \/ ~Settled(q)
      BY <1>1, <3>2, Records
    <3>q. QED
      BY <3>2, <3>3
  <2>6. Places'
    BY <1>1, <2>1, <2>2, <2>4 DEF Places, Opened, TypeOK
  <2>7. CallsKnown'
    <3>1. \A d \in Callers : call'[d].at = "race" => d # c /\ call'[d] = call[d]
      BY <1>3 DEF Idle
    <3>2. \A d \in Callers : call'[d].at = "race" => call[d].id # p
      BY <1>1, <1>5, <3>1 DEF CallsKnown
    <3>3. ASSUME NEW q \in pending' PROVE \E d \in Callers : call'[d] = Racing(owner[q], q)
      <4>1. q \in pending /\ q # p
        BY <2>2
      <4>2. PICK d \in Callers : call[d] = Racing(owner[q], q)
        BY <1>1, <4>1 DEF CallsKnown
      <4>3. d # c
        BY <4>1, <4>2 DEF Racing
      <4>q. QED
        BY <1>3, <4>2, <4>3
    <3>q. QED
      BY <1>1, <2>2, <3>1, <3>2, <3>3 DEF CallsKnown
  <2>q. QED
    BY <1>1, <1>2, <1>5, <2>1, <2>2, <2>4, <2>5, <2>6, <2>7 DEF TypeOK
<1>q. QED
  BY <1>4, <1>5

-----------------------------------------------------------------------------
(* Every action keeps the invariant                                         *)

LEMMA InitInv == ASSUME Init PROVE EngineInv
<1> USE DEF Init
<1>1. TypeOK
  BY NoneAssumption, CallTypes DEF TypeOK
<1>2. IsFiniteSet(paused)
  BY FS_EmptySet
<1>3. Places /\ RecordedOnce
  BY DEF Places, RecordedOnce, Opened, Settled
<1>4. CallsKnown /\ IdsKnown /\ AnswersKnown
  BY DEF CallsKnown, IdsKnown, AnswersKnown, Idle, NoOutcome
<1>q. QED
  BY <1>1, <1>2, <1>3, <1>4 DEF EngineInv

LEMMA StepExecute ==
  ASSUME EngineInv, NEW c \in Callers, NEW x \in Runs, Execute(c, x)
  PROVE  EngineInv'
<1> USE DEF EngineInv
<1>1. /\ call' = [call EXCEPT ![c] = Racing(x, NoPause)] /\ call[c] = Idle
      /\ fiber' = [fiber EXCEPT ![x] = "running"]
      /\ UNCHANGED <<owner, queue, paused, pending, recorded, outcome, told, given, replies>>
  BY DEF Execute, cacheVars, historyVars
<1>2. TypeOK'
  <2>1. Racing(x, NoPause) \in Calls
    BY CallTypes
  <2>q. QED
    BY <1>1, <2>1 DEF TypeOK
<1>3. Places' /\ RecordedOnce' /\ IsFiniteSet(paused)'
  BY <1>1 DEF Places, RecordedOnce, Opened, Settled
<1>4. CallsKnown'
  <2>1. \A d \in Callers : call'[d] = IF d = c THEN Racing(x, NoPause) ELSE call[d]
    BY <1>1 DEF TypeOK
  <2>2. Racing(x, NoPause).id = NoPause
    BY DEF Racing
  <2>3. \A q \in pending : call[c] # Racing(owner[q], q)
    BY <1>1 DEF Racing, Idle
  <2>q. QED
    BY <1>1, <2>1, <2>2, <2>3 DEF CallsKnown
<1>5. IdsKnown' /\ AnswersKnown'
  BY <1>1 DEF IdsKnown, AnswersKnown, Opened, Settled
<1>q. QED
  BY <1>2, <1>3, <1>4, <1>5

LEMMA StepElicit ==
  ASSUME EngineInv, NEW x \in Runs, NEW p \in Pauses, Elicit(x, p)
  PROVE  EngineInv'
<1> USE DEF EngineInv
<1>1. /\ owner[p] = NoRun /\ owner' = [owner EXCEPT ![p] = x]
      /\ paused' = paused \cup {p}
      /\ queue' = [queue EXCEPT ![x] = Append(@, p)]
      /\ UNCHANGED <<fiber, pending, recorded, outcome, call, told, given, replies>>
  BY DEF Elicit, historyVars
<1>2. /\ Append(queue[x], p) \in Seq(Pauses)
      /\ \A i \in DOMAIN Append(queue[x], p) :
           \/ Append(queue[x], p)[i] = p
           \/ i \in DOMAIN queue[x] /\ Append(queue[x], p)[i] = queue[x][i]
  <2>1. queue[x] \in Seq(Pauses)
    BY DEF TypeOK
  <2>q. QED
    BY <2>1, AppendProperties, LenProperties
<1>3. TypeOK'
  BY <1>1, <1>2 DEF TypeOK
<1>4. ~Opened(p) /\ p \notin paused /\ p \notin pending /\ ~Settled(p)
  BY <1>1 DEF Opened, Places
<1>5. \A q \in Pauses : owner'[q] = IF q = p THEN x ELSE owner[q]
  BY <1>1 DEF TypeOK
<1>6. IsFiniteSet(paused)'
  BY <1>1, FS_AddElement
<1>7. Places' /\ RecordedOnce'
  <2>1. \A q \in Pauses : Opened(q)' <=> Opened(q) \/ q = p
    BY <1>4, <1>5, NoneAssumption DEF Opened
  <2>q. QED
    BY <1>1, <1>4, <2>1 DEF Places, RecordedOnce, Settled
<1>8. CallsKnown'
  <2>1. \A q \in pending : q # p /\ owner'[q] = owner[q]
    BY <1>4, <1>5 DEF TypeOK
  <2>q. QED
    BY <1>1, <2>1 DEF CallsKnown
<1>9. IdsKnown'
  <2>1. \A q \in told : Opened(q)'
    BY <1>4, <1>5 DEF IdsKnown, Opened, TypeOK
  <2>2. ASSUME NEW y \in Runs, NEW i \in DOMAIN queue'[y] PROVE owner'[queue'[y][i]] = y
    <3>1. CASE y = x /\ queue'[x][i] = p
      BY <1>5, <3>1
    <3>2. CASE ~(y = x /\ queue'[x][i] = p)
      <4>1. i \in DOMAIN queue[y] /\ queue'[y][i] = queue[y][i]
        BY <1>1, <1>2, <2>2, <3>2 DEF TypeOK
      <4>2. owner[queue[y][i]] = y /\ queue[y][i] \in Pauses
        BY <4>1 DEF IdsKnown, TypeOK
      <4>q. QED
        BY <1>1, <1>5, <4>1, <4>2, NoneAssumption
    <3>q. QED
      BY <3>1, <3>2
  <2>q. QED
    BY <1>1, <2>1, <2>2 DEF IdsKnown
<1>10. AnswersKnown'
  BY <1>1 DEF AnswersKnown, Settled
<1>q. QED
  BY <1>3, <1>6, <1>7, <1>8, <1>9, <1>10

LEMMA StepEnd ==
  ASSUME EngineInv, NEW x \in Runs, End(x)
  PROVE  EngineInv'
<1> USE DEF EngineInv
<1>1. /\ fiber' = [fiber EXCEPT ![x] = "done"]
      /\ UNCHANGED <<owner, queue, paused, pending, recorded, outcome, call, told, given, replies>>
  BY DEF End, cacheVars, historyVars
<1>2. TypeOK'
  BY <1>1 DEF TypeOK
<1>3. Places' /\ RecordedOnce' /\ IsFiniteSet(paused)'
  BY <1>1 DEF Places, RecordedOnce, Opened, Settled
<1>4. CallsKnown' /\ IdsKnown' /\ AnswersKnown'
  BY <1>1 DEF CallsKnown, IdsKnown, AnswersKnown, Opened, Settled
<1>q. QED
  BY <1>2, <1>3, <1>4

\* What a cleanup does to the places: the open pauses of the run settle.
LEMMA CleanupSettles ==
  ASSUME EngineInv, NEW x \in Runs, Cleanup(x)
  PROVE  /\ recorded' \in Seq(Pauses) /\ RecordedOnce'
         /\ outcome' \in [Pauses -> Outcome \cup {NoOutcome}]
         /\ \A p \in Pauses : Settled(p)' <=> Settled(p) \/ p \in OpenPauses(x)
         /\ \A p \in Pauses : outcome'[p] = IF p \in OpenPauses(x) THEN Ended(x) ELSE outcome[p]
<1> USE DEF EngineInv
<1> DEFINE S == OpenPauses(x)
<1>1. S \subseteq Pauses /\ IsFiniteSet(S) /\ \A p \in S : ~Settled(p)
  <2>1. S \subseteq paused
    BY DEF OpenPauses
  <2>q. QED
    BY <2>1, FS_Subset DEF TypeOK, Places
<1>2. PICK ids \in Orders(S) : Record(ids, Ended(x))
  BY DEF Cleanup
<1> HIDE DEF S
<1>3. /\ ids \in Seq(S)
      /\ \A i, j \in DOMAIN ids : ids[i] = ids[j] => i = j
      /\ \A p : p \in S <=> \E i \in DOMAIN ids : ids[i] = p
  BY <1>1, OrdersCover
<1>4. ids \in Seq(Pauses) /\ \A i \in DOMAIN ids : ~Settled(ids[i])
  BY <1>1, <1>3, SeqMonotonic
<1>5. Ended(x) \in Outcome
  BY DEF Outcome
<1>6. /\ recorded' \in Seq(Pauses) /\ RecordedOnce'
      /\ outcome' \in [Pauses -> Outcome \cup {NoOutcome}]
      /\ \A p \in Pauses : Settled(p)' <=> Settled(p) \/ p \in S
  BY <1>2, <1>3, <1>4, <1>5, Records
<1>7. \A p \in Pauses : outcome'[p] = IF p \in S THEN Ended(x) ELSE outcome[p]
  BY <1>2, <1>3 DEF Record
<1>q. QED
  BY <1>6, <1>7 DEF S

LEMMA StepCleanup ==
  ASSUME EngineInv, NEW x \in Runs, Cleanup(x)
  PROVE  EngineInv'
<1> USE DEF EngineInv
<1>1. /\ fiber' = [fiber EXCEPT ![x] = "cleaned"]
      /\ paused' = paused \ OpenPauses(x) /\ OpenPauses(x) \subseteq paused
      /\ UNCHANGED <<owner, queue, pending, call, told, given, replies>>
  BY DEF Cleanup, historyVars, OpenPauses
<1>2. /\ recorded' \in Seq(Pauses) /\ RecordedOnce'
      /\ outcome' \in [Pauses -> Outcome \cup {NoOutcome}]
      /\ \A p \in Pauses : Settled(p)' <=> Settled(p) \/ p \in OpenPauses(x)
      /\ \A p \in Pauses : p \notin OpenPauses(x) => outcome'[p] = outcome[p]
  BY CleanupSettles
<1>3. TypeOK'
  BY <1>1, <1>2 DEF TypeOK
<1>4. IsFiniteSet(paused)'
  BY <1>1, FS_Subset
<1>5. Places'
  BY <1>1, <1>2 DEF Places, Opened, TypeOK
<1>6. CallsKnown'
  BY <1>1 DEF CallsKnown
<1>8. IdsKnown'
  <2>1. Ended(x).kind # "paused"
    BY DEF Ended
  <2>2. \A p \in Pauses : outcome'[p] = IF p \in OpenPauses(x) THEN Ended(x) ELSE outcome[p]
    BY CleanupSettles
  <2>q. QED
    BY <1>1, <2>1, <2>2 DEF IdsKnown, Opened
<1>7. AnswersKnown'
  <2>1. \A p \in OpenPauses(x) : replies[p] = {}
    BY <1>1 DEF AnswersKnown, Places, TypeOK
  <2>q. QED
    BY <1>1, <1>2, <2>1 DEF AnswersKnown
<1>q. QED
  BY <1>2, <1>3, <1>4, <1>5, <1>6, <1>7, <1>8

\* What settles a pause or answers a resume: a kind, and the pause it names.
LEMMA OutcomeKinds ==
  /\ \A o \in Outcome : o.kind = "paused" => o.id \in Pauses /\ o = PausedAt(o.id)
  /\ \A x \in Runs : Ended(x) \in Outcome /\ Ended(x).kind = "ended"
  /\ \A p \in Pauses : PausedAt(p) \in Outcome /\ PausedAt(p).kind = "paused" /\ PausedAt(p).id = p
  /\ Interrupted \in Outcome /\ Interrupted.kind = "interrupted"
  /\ Missing \notin Outcome /\ NoOutcome \notin Outcome /\ Missing # NoOutcome
  /\ Missing.kind # "paused" /\ NoOutcome.kind # "paused"
<1>1. \A o \in Outcome : o.kind = "paused" => o.id \in Pauses /\ o = PausedAt(o.id)
  BY DEF Outcome, Ended, PausedAt, Interrupted
<1>2. \A x \in Runs : Ended(x) \in Outcome /\ Ended(x).kind = "ended"
  <2>1. \A x \in Runs : Ended(x) \in Outcome
    BY DEF Outcome
  <2>q. QED
    BY <2>1 DEF Ended
<1>3. \A p \in Pauses : PausedAt(p) \in Outcome /\ PausedAt(p).kind = "paused" /\ PausedAt(p).id = p
  <2>1. \A p \in Pauses : PausedAt(p) \in Outcome
    BY DEF Outcome
  <2>q. QED
    BY <2>1 DEF PausedAt
<1>4. Interrupted \in Outcome /\ Interrupted.kind = "interrupted"
  <2>1. Interrupted \in Outcome
    BY DEF Outcome
  <2>q. QED
    BY <2>1 DEF Interrupted
<1>5. \A o \in Outcome : o.kind \in {"ended", "paused", "interrupted"}
  BY DEF Outcome, Ended, PausedAt, Interrupted
<1>6. Missing.kind = "missing" /\ NoOutcome.kind = "none"
  BY DEF Missing, NoOutcome
<1>q. QED
  BY <1>1, <1>2, <1>3, <1>4, <1>5, <1>6

\* A resume, or the call that started the run, sees the run's end or its next
\* pause, or is interrupted: it settles its pause, tells its caller of o or
\* tells nobody.
LEMMA StepSettle ==
  ASSUME EngineInv, NEW c \in Callers, call[c].at = "race", NEW o \in Outcome,
         Settle(c, o),
         \/ Reply(c, call[c].id, o)
         \/ /\ call' = [call EXCEPT ![c] = Idle] /\ UNCHANGED <<told, replies>>
            /\ o.kind # "paused",
         o.kind = "paused" => Opened(o.id),
         UNCHANGED <<fiber, owner, paused, given>>,
         queue' \in [Runs -> Seq(Pauses)],
         \A x \in Runs : \A i \in DOMAIN queue'[x] : owner[queue'[x][i]] = x
  PROVE  EngineInv'
<1> USE DEF EngineInv
<1> DEFINE p == call[c].id
<1>1. call' = [call EXCEPT ![c] = Idle]
  BY DEF Reply
<1>2. /\ call' \in [Callers -> Calls] /\ pending' \subseteq Pauses
      /\ recorded' \in Seq(Pauses) /\ outcome' \in [Pauses -> Outcome \cup {NoOutcome}]
      /\ Places' /\ RecordedOnce' /\ CallsKnown'
      /\ \A q \in Pauses : outcome'[q] = outcome[q] \/ ~Settled(q)
      /\ p = NoPause => UNCHANGED <<pending, outcome>>
      /\ p # NoPause => p \in pending /\ outcome' = [outcome EXCEPT ![p] = o]
  BY <1>1, Settling
<1>3. /\ told' \subseteq Pauses /\ told \subseteq told'
      /\ \A q \in told' : Opened(q)
      /\ o.kind = "paused" => o.id \in told'
  BY OutcomeKinds DEF Reply, IdsKnown, TypeOK
<1>4. \/ replies' = replies
      \/ p # NoPause /\ replies' = [replies EXCEPT ![p] = @ \cup {o}]
  BY DEF Reply
<1>5. p # NoPause => p \in Pauses /\ replies[p] = {} /\ ~Settled(p)
  BY <1>2 DEF TypeOK, Places, AnswersKnown
<1>6. TypeOK'
  <2>1. replies' \in [Pauses -> SUBSET (Outcome \cup {Missing})]
    <3>1. replies \in [Pauses -> SUBSET (Outcome \cup {Missing})]
      BY DEF TypeOK
    <3>2. CASE replies' = replies
      BY <3>1, <3>2
    <3>3. CASE p # NoPause /\ replies' = [replies EXCEPT ![p] = @ \cup {o}]
      <4>1. p \in Pauses /\ replies[p] \cup {o} \in SUBSET (Outcome \cup {Missing})
        BY <1>5, <3>1, <3>3
      <4> HIDE DEF p
      <4>q. QED
        BY <3>1, <3>3, <4>1
    <3>q. QED
      BY <1>4, <3>2, <3>3
  <2>q. QED
    BY <1>2, <1>3, <2>1 DEF TypeOK
<1>7. IdsKnown'
  <2>1. \A q \in Pauses : outcome'[q].kind = "paused" => outcome'[q].id \in told'
    BY <1>2, <1>3 DEF IdsKnown, TypeOK
  <2>q. QED
    BY <1>3, <2>1 DEF IdsKnown, Opened
<1>8. AnswersKnown'
  <2>1. CASE p = NoPause
    BY <1>2, <1>4, <2>1 DEF AnswersKnown, Settled
  <2>2. CASE p # NoPause
    <3>1. \A q \in Pauses : outcome'[q] = IF q = p THEN o ELSE outcome[q]
      BY <1>2, <2>2 DEF TypeOK
    <3>2. \A q \in Pauses : q # p => replies'[q] = replies[q]
      BY <1>4 DEF TypeOK
    <3>3. replies'[p] \in {{}, {o}}
      BY <1>4, <1>5, <2>2 DEF TypeOK
    <3>q. QED
      BY <3>1, <3>2, <3>3, OutcomeKinds DEF AnswersKnown, Settled
  <2>q. QED
    BY <2>1, <2>2
<1>q. QED
  BY <1>2, <1>6, <1>7, <1>8

LEMMA StepSeeEnd ==
  ASSUME EngineInv, NEW c \in Callers, SeeEnd(c)
  PROVE  EngineInv'
<1> DEFINE o == Ended(call[c].run)
<1>1. /\ call[c].at = "race" /\ Settle(c, o) /\ Reply(c, call[c].id, o)
      /\ UNCHANGED <<fiber, owner, queue, paused, given>>
  BY DEF SeeEnd, runVars
<1>2. o \in Outcome /\ o.kind # "paused"
  BY <1>1, CallKinds, OutcomeKinds DEF EngineInv
<1>3. queue' \in [Runs -> Seq(Pauses)]
      /\ \A x \in Runs : \A i \in DOMAIN queue'[x] : owner[queue'[x][i]] = x
  BY <1>1 DEF EngineInv, TypeOK, IdsKnown
<1> HIDE DEF o
<1>q. QED
  BY <1>1, <1>2, <1>3, StepSettle

\* The pause that a caller sees is one of the run's own.
LEMMA NextPause ==
  ASSUME EngineInv, NEW c \in Callers, SeePause(c)
  PROVE  LET x == call[c].run
             next == Head(queue[x])
         IN  /\ x \in Runs /\ next \in Pauses /\ owner[next] = x
             /\ queue[x] \in Seq(Pauses) /\ queue[x] # <<>> /\ next = queue[x][1]
             /\ queue' = [queue EXCEPT ![x] = Tail(@)]
             /\ Tail(queue[x]) \in Seq(Pauses)
             /\ Len(Tail(queue[x])) = Len(queue[x]) - 1
             /\ \A i \in DOMAIN Tail(queue[x]) :
                  i + 1 \in DOMAIN queue[x] /\ Tail(queue[x])[i] = queue[x][i + 1]
<1> DEFINE x == call[c].run
<1>1. /\ x \in Runs /\ queue[x] # <<>> /\ queue[x] \in Seq(Pauses)
      /\ queue' = [queue EXCEPT ![x] = Tail(@)]
  BY CallKinds DEF EngineInv, SeePause, TypeOK
<1> HIDE DEF x
<1>2. /\ Tail(queue[x]) \in Seq(Pauses) /\ Head(queue[x]) \in Pauses
      /\ Len(Tail(queue[x])) = Len(queue[x]) - 1
      /\ \A i \in 1 .. Len(Tail(queue[x])) : Tail(queue[x])[i] = queue[x][i + 1]
  BY <1>1, HeadTailProperties
<1>3. /\ Len(queue[x]) \in Nat \ {0} /\ DOMAIN queue[x] = 1 .. Len(queue[x])
      /\ DOMAIN Tail(queue[x]) = 1 .. Len(queue[x]) - 1
  BY <1>1, <1>2, LenProperties, EmptySeq
<1>4. Head(queue[x]) = queue[x][1]
  BY <1>1
<1>5. owner[Head(queue[x])] = x
  BY <1>1, <1>3, <1>4 DEF EngineInv, IdsKnown
<1>6. \A i \in DOMAIN Tail(queue[x]) :
        i + 1 \in DOMAIN queue[x] /\ Tail(queue[x])[i] = queue[x][i + 1]
  BY <1>2, <1>3
<1>q. QED
  BY <1>1, <1>2, <1>4, <1>5, <1>6 DEF x

LEMMA StepSeePause ==
  ASSUME EngineInv, NEW c \in Callers, SeePause(c)
  PROVE  EngineInv'
<1> DEFINE x == call[c].run
           next == Head(queue[x])
           o == PausedAt(next)
<1>1. /\ call[c].at = "race" /\ Settle(c, o) /\ Reply(c, call[c].id, o)
      /\ UNCHANGED <<fiber, owner, paused, given>>
  BY DEF SeePause
<1>2. /\ x \in Runs /\ next \in Pauses /\ owner[next] = x
      /\ queue' = [queue EXCEPT ![x] = Tail(@)]
      /\ Tail(queue[x]) \in Seq(Pauses)
      /\ \A i \in DOMAIN Tail(queue[x]) :
           i + 1 \in DOMAIN queue[x] /\ Tail(queue[x])[i] = queue[x][i + 1]
  BY NextPause
<1> HIDE DEF x, next
<1>3. o \in Outcome /\ (o.kind = "paused" => Opened(o.id))
  BY <1>2, OutcomeKinds, NoneAssumption DEF Opened
<1>4. queue' \in [Runs -> Seq(Pauses)]
  BY <1>2 DEF EngineInv, TypeOK
<1>5. ASSUME NEW y \in Runs, NEW i \in DOMAIN queue'[y] PROVE owner[queue'[y][i]] = y
  BY <1>2, <1>5 DEF EngineInv, TypeOK, IdsKnown
<1> HIDE DEF o
<1>q. QED
  BY <1>1, <1>3, <1>4, <1>5, StepSettle

LEMMA StepInterrupt ==
  ASSUME EngineInv, NEW c \in Callers, Interrupt(c)
  PROVE  EngineInv'
<1>1. /\ call' = [call EXCEPT ![c] = Idle]
      /\ UNCHANGED <<fiber, owner, queue, paused, told, given, replies>>
  BY DEF Interrupt, runVars, historyVars
<1>2. CASE call[c].at = "race"
  <2>1. Settle(c, Interrupted)
    BY <1>2 DEF Interrupt
  <2>2. Interrupted \in Outcome /\ Interrupted.kind # "paused"
    BY OutcomeKinds
  <2>3. queue' \in [Runs -> Seq(Pauses)]
        /\ \A x \in Runs : \A i \in DOMAIN queue'[x] : owner[queue'[x][i]] = x
    BY <1>1 DEF EngineInv, TypeOK, IdsKnown
  <2>q. QED
    BY <1>1, <1>2, <2>1, <2>2, <2>3, StepSettle
<1>3. CASE call[c].at # "race"
  <2>1. UNCHANGED <<pending, recorded, outcome>>
    BY <1>3 DEF Interrupt
  <2>2. TypeOK'
    BY <1>1, <2>1, CallTypes DEF EngineInv, TypeOK
  <2>3. CallsKnown'
    <3>1. \A d \in Callers : call'[d] = IF d = c THEN Idle ELSE call[d]
      BY <1>1 DEF EngineInv, TypeOK
    <3>2. Idle.at # "race" /\ \A q \in pending : Racing(owner[q], q).at = "race"
      BY DEF Idle, Racing
    <3>q. QED
      BY <1>1, <1>3, <2>1, <3>1, <3>2 DEF EngineInv, CallsKnown
  <2>4. Places' /\ RecordedOnce' /\ IsFiniteSet(paused)'
    BY <1>1, <2>1 DEF EngineInv, Places, RecordedOnce, Opened, Settled
  <2>5. IdsKnown' /\ AnswersKnown'
    BY <1>1, <2>1 DEF EngineInv, IdsKnown, AnswersKnown, Opened, Settled
  <2>q. QED
    BY <2>2, <2>3, <2>4, <2>5 DEF EngineInv
<1>q. QED
  BY <1>2, <1>3

\* A caller that does not race is answered and every map stays as it is.
LEMMA StepAnswered ==
  ASSUME EngineInv, NEW c \in Callers, call[c].at # "race",
         NEW p \in Pauses, NEW o,
         o = Missing \/ o = outcome[p], Settled(p),
         Reply(c, p, o),
         UNCHANGED <<fiber, owner, queue, paused, pending, recorded, outcome, given>>
  PROVE  EngineInv' /\ told' = told
<1> USE DEF EngineInv
<1>1. /\ call' = [call EXCEPT ![c] = Idle]
      /\ replies' = [replies EXCEPT ![p] = @ \cup {o}]
  BY NoneAssumption DEF Reply
<1>2. o \in Outcome \cup {Missing} /\ (o.kind = "paused" => o.id \in told)
  BY OutcomeKinds DEF TypeOK, Settled, IdsKnown
<1>3. told' = told
  BY <1>2 DEF Reply
<1>4. TypeOK'
  BY <1>1, <1>2, <1>3, CallTypes DEF TypeOK
<1>5. CallsKnown'
  <2>1. \A d \in Callers : call'[d] = IF d = c THEN Idle ELSE call[d]
    BY <1>1 DEF TypeOK
  <2>2. Idle.at # "race" /\ \A q \in pending : Racing(owner[q], q).at = "race"
    BY DEF Idle, Racing
  <2>q. QED
    BY <1>1, <2>1, <2>2 DEF CallsKnown
<1>6. Places' /\ RecordedOnce' /\ IsFiniteSet(paused)'
  BY DEF Places, RecordedOnce, Opened, Settled
<1>7. IdsKnown'
  BY <1>3 DEF IdsKnown, Opened
<1>8. AnswersKnown'
  <2>1. \A q \in Pauses : replies'[q] \subseteq replies[q] \cup (IF q = p THEN {o} ELSE {})
    BY <1>1 DEF TypeOK
  <2>q. QED
    BY <2>1 DEF AnswersKnown, Settled
<1>q. QED
  BY <1>3, <1>4, <1>5, <1>6, <1>7, <1>8

\* The first resume of an open pause takes it.
LEMMA StepTake ==
  ASSUME EngineInv, NEW c \in Callers, call[c] = Idle, NEW p \in paused,
         paused' = paused \ {p}, pending' = pending \cup {p},
         given' = [given EXCEPT ![p] = @ + 1],
         call' = [call EXCEPT ![c] = Racing(owner[p], p)],
         UNCHANGED <<fiber, owner, queue, recorded, outcome, told, replies>>
  PROVE  EngineInv'
<1> USE DEF EngineInv
<1>1. p \in Pauses /\ owner[p] \in Runs /\ p \notin pending
  BY DEF TypeOK, Places, Opened
<1>2. \A d \in Callers : call'[d] = IF d = c THEN Racing(owner[p], p) ELSE call[d]
  BY DEF TypeOK
<1>3. TypeOK'
  <2>1. call' \in [Callers -> Calls]
    BY <1>1, CallTypes DEF TypeOK
  <2>2. given' \in [Pauses -> Nat]
    BY <1>1 DEF TypeOK
  <2>q. QED
    BY <1>1, <2>1, <2>2 DEF TypeOK
<1>4. IsFiniteSet(paused)'
  BY FS_RemoveElement
<1>5. Places' /\ RecordedOnce'
  BY <1>1 DEF Places, RecordedOnce, Opened, Settled
<1>6. CallsKnown'
  <2>1. /\ Racing(owner[p], p).id = p /\ Racing(owner[p], p).run = owner[p]
        /\ Racing(owner[p], p).at = "race" /\ Idle.at # "race"
        /\ \A q \in pending : Racing(owner[q], q).at = "race"
    BY DEF Racing, Idle
  <2>2. \A d \in Callers : call[d].at = "race" => call[d].id # p
    BY <1>1, NoneAssumption DEF CallsKnown
  <2>3. ASSUME NEW d \in Callers, call'[d].at = "race", call'[d].id # NoPause
        PROVE  call'[d].id \in pending' /\ owner[call'[d].id] = call'[d].run
    BY <1>2, <2>1, <2>3 DEF CallsKnown
  <2>4. ASSUME NEW d \in Callers, NEW e \in Callers,
               call'[d].at = "race", call'[e].at = "race", call'[d].id = call'[e].id,
               call'[d].id # NoPause
        PROVE  d = e
    BY <1>2, <2>1, <2>2, <2>4 DEF CallsKnown
  <2>5. ASSUME NEW q \in pending' PROVE \E d \in Callers : call'[d] = Racing(owner[q], q)
    <3>1. CASE q = p
      BY <1>2, <3>1
    <3>2. CASE q # p
      <4>1. PICK d \in Callers : call[d] = Racing(owner[q], q)
        BY <3>2 DEF CallsKnown
      <4>2. d # c
        BY <3>2, <4>1, <2>1
      <4>q. QED
        BY <1>2, <4>1, <4>2
    <3>q. QED
      BY <3>1, <3>2
  <2>q. QED
    BY <2>3, <2>4, <2>5 DEF CallsKnown
<1>7. IdsKnown' /\ AnswersKnown'
  BY DEF IdsKnown, AnswersKnown, Opened, Settled
<1>q. QED
  BY <1>3, <1>4, <1>5, <1>6, <1>7

\* What remembers an outcome has settled.
LEMMA ReplayableSettled ==
  ASSUME RecordedOnce, NEW p \in Pauses, Replayable(p)
  PROVE  Settled(p)
  BY DEF RecordedOnce, Replayable, Last

\* What is neither open nor in flight, and was told of, has settled.
LEMMA ToldPlace ==
  ASSUME EngineInv, NEW p \in told, p \notin paused, p \notin pending
  PROVE  Settled(p)
  BY DEF EngineInv, TypeOK, IdsKnown, Places

LEMMA StepResume ==
  ASSUME EngineInv, NEW c \in Callers, NEW p \in Pauses, Resume(c, p)
  PROVE  EngineInv' /\ told' = told
<1>1. /\ call[c] = Idle /\ p \in told /\ call[c].at # "race"
      /\ UNCHANGED <<fiber, owner, queue, recorded, outcome>>
  BY DEF Resume, runVars, Idle
<1>2. CASE Replayable(p) /\ Reply(c, p, outcome[p]) /\ UNCHANGED <<paused, pending, given>>
  <2>1. Settled(p)
    BY <1>2, ReplayableSettled DEF EngineInv
  <2> DEFINE o == outcome[p]
  <2>2. o = outcome[p] /\ Reply(c, p, o)
    BY <1>2
  <2> HIDE DEF o
  <2>q. QED
    BY <1>1, <1>2, <2>1, <2>2, StepAnswered
<1>3. CASE p \in pending /\ call' = [call EXCEPT ![c] = Joined(p)]
           /\ UNCHANGED <<paused, pending, told, given, replies>>
  <2>1. TypeOK'
    BY <1>1, <1>3, CallTypes DEF EngineInv, TypeOK
  <2>2. CallsKnown'
    <3>1. \A d \in Callers : call'[d] = IF d = c THEN Joined(p) ELSE call[d]
      BY <1>3 DEF EngineInv, TypeOK
    <3>2. Joined(p).at # "race" /\ \A q \in pending : Racing(owner[q], q).at = "race"
      BY DEF Joined, Racing
    <3>q. QED
      BY <1>1, <1>3, <3>1, <3>2 DEF EngineInv, CallsKnown
  <2>3. Places' /\ RecordedOnce' /\ IsFiniteSet(paused)'
    BY <1>1, <1>3 DEF EngineInv, Places, RecordedOnce, Opened, Settled
  <2>4. IdsKnown' /\ AnswersKnown'
    BY <1>1, <1>3 DEF EngineInv, IdsKnown, AnswersKnown, Opened, Settled
  <2>q. QED
    BY <1>3, <2>1, <2>2, <2>3, <2>4 DEF EngineInv
<1>4. CASE /\ p \in paused /\ paused' = paused \ {p} /\ pending' = pending \cup {p}
           /\ given' = [given EXCEPT ![p] = @ + 1]
           /\ call' = [call EXCEPT ![c] = Racing(owner[p], p)]
           /\ UNCHANGED <<told, replies>>
  BY <1>1, <1>4, StepTake
<1>5. CASE /\ p \notin pending /\ p \notin paused /\ Reply(c, p, Missing)
           /\ UNCHANGED <<paused, pending, given>>
  <2>1. Settled(p)
    BY <1>1, <1>5, ToldPlace
  <2> DEFINE o == Missing
  <2>2. o = Missing /\ Reply(c, p, o)
    BY <1>5
  <2> HIDE DEF o
  <2>q. QED
    BY <1>1, <1>5, <2>1, <2>2, StepAnswered
<1>q. QED
  BY <1>2, <1>3, <1>4, <1>5 DEF Resume, Lookup

LEMMA StepSeeInflight ==
  ASSUME EngineInv, NEW c \in Callers, SeeInflight(c)
  PROVE  EngineInv' /\ told' = told
<1> DEFINE p == call[c].id
           o == outcome[p]
<1>1. /\ call[c].at = "join" /\ Settled(p) /\ Reply(c, p, o)
      /\ UNCHANGED <<fiber, owner, queue, paused, pending, recorded, outcome, given>>
  BY DEF SeeInflight, Settled, runVars, cacheVars
<1>2. p \in Pauses /\ o = outcome[p]
  BY <1>1, CallKinds DEF EngineInv
<1> HIDE DEF p, o
<1>q. QED
  BY <1>1, <1>2, StepAnswered

\* Every step keeps the invariant.
LEMMA EngineStepInv ==
  ASSUME EngineInv, [Next]_vars
  PROVE  EngineInv'
<1>1. CASE Sandbox
  BY <1>1, StepEnd, StepCleanup, StepElicit DEF Sandbox
<1>2. ASSUME NEW c \in Callers,
             Engine(c) \/ Interrupt(c) \/ (\E x \in Runs : Execute(c, x))
                       \/ (\E p \in Pauses : Resume(c, p))
      PROVE  EngineInv'
  BY <1>2, StepSeeEnd, StepSeePause, StepSeeInflight, StepInterrupt, StepExecute, StepResume
  DEF Engine
<1>3. CASE UNCHANGED vars
  <2>1. UNCHANGED <<fiber, owner, queue, paused, pending, recorded, outcome, call,
                    told, given, replies>>
    BY <1>3 DEF vars, runVars, cacheVars, historyVars
  <2>2. TypeOK'
    BY <2>1 DEF EngineInv, TypeOK
  <2>3. Places' /\ RecordedOnce' /\ IsFiniteSet(paused)'
    BY <2>1 DEF EngineInv, Places, RecordedOnce, Opened, Settled
  <2>4. CallsKnown' /\ IdsKnown' /\ AnswersKnown'
    BY <2>1 DEF EngineInv, CallsKnown, IdsKnown, AnswersKnown, Opened, Settled
  <2>q. QED
    BY <2>2, <2>3, <2>4 DEF EngineInv
<1>q. QED
  BY <1>1, <1>2, <1>3 DEF Next

-----------------------------------------------------------------------------
(* Theorems                                                                 *)

\* The invariant as a whole.
THEOREM EngineInvariant == Spec => []EngineInv
<1>1. Init => EngineInv
  BY InitInv
<1>2. EngineInv /\ [Next]_vars => EngineInv'
  BY EngineStepInv
<1>q. QED
  BY <1>1, <1>2, PTL DEF Spec

\* The runs, maps, callers and histories keep their types.
THEOREM EngineTypes == Spec => []TypeOK
<1>1. EngineInv => TypeOK
  BY DEF EngineInv
<1>q. QED
  BY <1>1, EngineInvariant, PTL

\* Every identifier a run opened is open, in flight for exactly one caller, or
\* settled with one recorded outcome, and never two of these.
THEOREM EngineAccounts == Spec => []Accounted
<1>1. ASSUME EngineInv PROVE Accounted
  <2>1. ASSUME NEW p \in pending
        PROVE  Cardinality({c \in Callers : call[c] = Racing(owner[p], p)}) = 1
    <3>1. PICK c \in Callers : call[c] = Racing(owner[p], p)
      BY <1>1 DEF EngineInv, CallsKnown
    <3>2. p # NoPause
      BY <1>1, NoneAssumption DEF EngineInv, TypeOK
    <3>3. /\ Racing(owner[p], p).at = "race" /\ Racing(owner[p], p).id = p
      BY DEF Racing
    <3>4. {d \in Callers : call[d] = Racing(owner[p], p)} = {c}
      BY <1>1, <3>1, <3>2, <3>3 DEF EngineInv, CallsKnown
    <3>q. QED
      BY <3>4, FS_Singleton
  <2>q. QED
    BY <1>1, <2>1 DEF EngineInv, Places, RecordedOnce, Accounted
<1>q. QED
  BY <1>1, EngineInvariant, PTL

-----------------------------------------------------------------------------
(* What is answered "no paused execution"                                   *)

\* Only a resume answers so, of a pause that has rolled out of the cache.
LEMMA MissingStep ==
  ASSUME EngineInv, Next, NEW p \in Pauses, Missing \in replies'[p] \ replies[p]
  PROVE  Settled(p) /\ ~Replayable(p)
<1>1. \A c \in Callers : call[c].at = "race" => Ended(call[c].run) # Missing
  BY CallKinds, OutcomeKinds DEF EngineInv
<1>2. \A q \in Pauses : PausedAt(q) # Missing /\ outcome[q] # Missing
  BY OutcomeKinds DEF EngineInv, TypeOK
<1>3. ASSUME NEW c \in Callers, NEW q, NEW o, Reply(c, q, o) PROVE o = Missing
  BY <1>3 DEF Reply, EngineInv, TypeOK
<1>4. replies' # replies
  OBVIOUS
<1>5. ASSUME Sandbox PROVE FALSE
  BY <1>4, <1>5 DEF Sandbox, End, Cleanup, Elicit, historyVars
<1>6. ASSUME NEW c \in Callers, SeeEnd(c) \/ SeePause(c) \/ SeeInflight(c) PROVE FALSE
  <2>1. CASE SeeEnd(c)
    BY <1>1, <1>3, <2>1 DEF SeeEnd
  <2>2. CASE SeePause(c)
    BY <1>2, <1>3, <2>2, NextPause DEF SeePause
  <2>3. CASE SeeInflight(c)
    BY <1>2, <1>3, <2>3, CallKinds DEF SeeInflight, EngineInv
  <2>q. QED
    BY <1>6, <2>1, <2>2, <2>3
<1>7. ASSUME NEW c \in Callers, Interrupt(c) \/ \E x \in Runs : Execute(c, x) PROVE FALSE
  BY <1>4, <1>7 DEF Interrupt, Execute, historyVars
<1>8. PICK c \in Callers, q \in Pauses : Resume(c, q)
  BY <1>5, <1>6, <1>7 DEF Next, Engine
<1>9. /\ q \in told /\ ~Replayable(q) /\ q \notin pending /\ q \notin paused
      /\ Reply(c, q, Missing)
  BY <1>2, <1>3, <1>4, <1>8 DEF Resume, Lookup
<1>10. p = q
  BY <1>9, NoneAssumption DEF Reply, EngineInv, TypeOK
<1>q. QED
  BY <1>9, <1>10, ToldPlace

\* A resume is answered "no paused execution" only when the pause has settled
\* and its outcome is no longer cached.
THEOREM EngineMissing == Spec => MissingIsSettled
<1>1. EngineInv /\ [Next]_vars =>
        [\A p \in Pauses : Missing \in replies'[p] \ replies[p] => Settled(p) /\ ~Replayable(p)]_vars
  BY MissingStep
<1>q. QED
  BY <1>1, EngineInvariant, PTL DEF Spec, MissingIsSettled

-----------------------------------------------------------------------------
(* The engine implements the ledger                                         *)

LEMMA LedgerInit == ASSUME Init PROVE Ledger!Init
  BY NoneAssumption DEF Init, Ledger!Init, PauseState, AnswersSeen, Opened, Settled

\* What keeps the owners, the outcomes and who is in flight keeps the states.
LEMMA SameState ==
  ASSUME UNCHANGED <<owner, outcome, pending>>
  PROVE  PauseState' = PauseState
  BY DEF PauseState, Opened, Settled

LEMMA LedgerOpen ==
  ASSUME EngineInv, NEW x \in Runs, NEW p \in Pauses, Elicit(x, p)
  PROVE  Ledger!Open(p)
<1>1. /\ owner[p] = NoRun /\ owner' = [owner EXCEPT ![p] = x]
      /\ UNCHANGED <<pending, outcome, replies>>
  BY DEF Elicit, historyVars
<1>2. ~Opened(p) /\ p \notin pending /\ ~Settled(p)
  BY <1>1 DEF EngineInv, Opened, Places
<1>3. \A q \in Pauses : owner'[q] = IF q = p THEN x ELSE owner[q]
  BY <1>1 DEF EngineInv, TypeOK
<1>4. PauseState[p] = "unborn" /\ PauseState' = [PauseState EXCEPT ![p] = "open"]
  BY <1>1, <1>2, <1>3, NoneAssumption DEF PauseState, Opened, Settled
<1>5. AnswersSeen' = AnswersSeen
  BY <1>1 DEF AnswersSeen
<1>q. QED
  BY <1>1, <1>4, <1>5 DEF Ledger!Open

LEMMA LedgerDrop ==
  ASSUME EngineInv, NEW x \in Runs, Cleanup(x)
  PROVE  Ledger!Drop
<1> DEFINE S == OpenPauses(x)
<1>1. UNCHANGED <<owner, pending, replies>>
  BY DEF Cleanup, historyVars
<1>2. /\ outcome' \in [Pauses -> Outcome \cup {NoOutcome}]
      /\ \A p \in Pauses : Settled(p)' <=> Settled(p) \/ p \in S
      /\ \A p \in Pauses : outcome'[p] = IF p \in S THEN Ended(x) ELSE outcome[p]
  BY CleanupSettles
<1>3. S \subseteq Pauses /\ \A p \in S : Opened(p) /\ ~Settled(p) /\ p \notin pending
  BY DEF EngineInv, TypeOK, Places, OpenPauses
<1> HIDE DEF S
<1>4. S \in SUBSET {p \in Pauses : PauseState[p] = "open"}
  BY <1>3 DEF PauseState
<1>5. PauseState' = [p \in Pauses |-> IF p \in S THEN "settled" ELSE PauseState[p]]
  BY <1>1, <1>2, <1>3 DEF PauseState, Opened
<1>6. outcome' = [p \in Pauses |-> IF p \in S THEN Ended(x) ELSE outcome[p]]
  BY <1>2
<1>7. AnswersSeen' = AnswersSeen
  BY <1>1 DEF AnswersSeen
<1>8. Ended(x) \in Outcome
  BY OutcomeKinds
<1>q. QED
  BY <1>4, <1>5, <1>6, <1>7, <1>8 DEF Ledger!Drop

\* The end of a race settles what it resumed, or changes nothing.
LEMMA LedgerSettle ==
  ASSUME EngineInv, NEW c \in Callers, call[c].at = "race", NEW o \in Outcome,
         Settle(c, o),
         \/ Reply(c, call[c].id, o)
         \/ call' = [call EXCEPT ![c] = Idle] /\ UNCHANGED <<told, replies>>,
         UNCHANGED <<owner, paused>>
  PROVE  \/ UNCHANGED <<PauseState, outcome, AnswersSeen>>
         \/ \E p \in Pauses : Ledger!Settle(p)
<1> DEFINE p == call[c].id
<1>1. call' = [call EXCEPT ![c] = Idle]
  BY DEF Reply
<1>2. /\ p = NoPause => UNCHANGED <<pending, outcome>>
      /\ p # NoPause => /\ p \in pending /\ pending' = pending \ {p}
                        /\ outcome' = [outcome EXCEPT ![p] = o]
  BY <1>1, Settling
<1>3. CASE p = NoPause
  <2>1. replies' = replies
    BY <1>3 DEF Reply
  <2>q. QED
    BY <1>2, <1>3, <2>1, SameState DEF AnswersSeen
<1>4. CASE p # NoPause
  <2>1. p \in Pauses /\ Opened(p) /\ ~Settled(p) /\ p \in pending /\ replies[p] = {}
    BY <1>2, <1>4 DEF EngineInv, TypeOK, Places, AnswersKnown
  <2>2. \A q \in Pauses : outcome'[q] = IF q = p THEN o ELSE outcome[q]
    BY <1>2, <1>4 DEF EngineInv, TypeOK
  <2>3. PauseState[p] = "taken"
    BY <2>1 DEF PauseState
  <2>4. PauseState' = [PauseState EXCEPT ![p] = "settled"]
    <3>1. \A q \in Pauses : /\ Opened(q)' <=> Opened(q)
                            /\ Settled(q)' <=> Settled(q) \/ q = p
                            /\ q \in pending' <=> q \in pending /\ q # p
      BY <1>2, <1>4, <2>2, OutcomeKinds DEF Opened, Settled
    <3> HIDE DEF p
    <3>q. QED
      BY <2>1, <3>1 DEF PauseState
  <2>5. AnswersSeen' \in {AnswersSeen, [AnswersSeen EXCEPT ![p] = {o}]}
    <3>1. replies' = replies \/ replies' = [replies EXCEPT ![p] = {o}]
      BY <2>1, <1>4 DEF Reply, EngineInv, TypeOK
    <3>2. CASE replies' = replies
      BY <3>2 DEF AnswersSeen
    <3>3. CASE replies' = [replies EXCEPT ![p] = {o}]
      <4>1. \A q \in Pauses : replies'[q] = IF q = p THEN {o} ELSE replies[q]
        BY <3>3 DEF EngineInv, TypeOK
      <4>2. {o} \ {Missing} = {o}
        BY OutcomeKinds
      <4>q. QED
        BY <2>1, <4>1, <4>2 DEF AnswersSeen
    <3>q. QED
      BY <3>1, <3>2, <3>3
  <2>6. Ledger!Settle(p)
    BY <1>2, <1>4, <2>3, <2>4, <2>5 DEF Ledger!Settle
  <2>q. QED
    BY <2>1, <2>6
<1>q. QED
  BY <1>3, <1>4

\* An answer from the caches, or none, is seen.
LEMMA LedgerSee ==
  ASSUME EngineInv, NEW c \in Callers, NEW p \in Pauses, NEW o,
         o = Missing \/ o = outcome[p], Settled(p), Reply(c, p, o),
         UNCHANGED <<owner, pending, outcome>>
  PROVE  UNCHANGED <<PauseState, outcome, AnswersSeen>> \/ Ledger!See(p)
<1>1. \A q \in Pauses : replies'[q] = IF q = p THEN replies[p] \cup {o} ELSE replies[q]
  BY NoneAssumption DEF Reply, EngineInv, TypeOK
<1>2. PauseState' = PauseState
  BY SameState
<1>3. CASE o = Missing
  BY <1>1, <1>2, <1>3 DEF AnswersSeen
<1>4. CASE o = outcome[p]
  <2>1. outcome[p] # Missing
    BY OutcomeKinds DEF EngineInv, TypeOK
  <2>2. AnswersSeen' = [AnswersSeen EXCEPT ![p] = @ \cup {outcome[p]}]
    BY <1>1, <1>4, <2>1 DEF AnswersSeen
  <2>3. PauseState[p] = "settled"
    BY DEF PauseState, EngineInv, Places
  <2>q. QED
    BY <1>2, <2>2, <2>3 DEF Ledger!See
<1>q. QED
  BY <1>3, <1>4

LEMMA LedgerResume ==
  ASSUME EngineInv, NEW c \in Callers, NEW p \in Pauses, Resume(c, p)
  PROVE  \/ UNCHANGED <<PauseState, outcome, AnswersSeen>>
         \/ Ledger!Take(p) \/ Ledger!See(p)
<1>1. p \in told /\ UNCHANGED <<owner, outcome>>
  BY DEF Resume, runVars
<1>2. CASE Replayable(p) /\ Reply(c, p, outcome[p]) /\ UNCHANGED pending
  <2>1. Settled(p)
    BY <1>2, ReplayableSettled DEF EngineInv
  <2> DEFINE o == outcome[p]
  <2>2. o = outcome[p] /\ Reply(c, p, o)
    BY <1>2
  <2> HIDE DEF o
  <2>q. QED
    BY <1>1, <1>2, <2>1, <2>2, LedgerSee
<1>3. CASE UNCHANGED <<pending, replies>>
  BY <1>1, <1>3, SameState DEF AnswersSeen
<1>4. CASE p \in paused /\ pending' = pending \cup {p} /\ UNCHANGED replies
  <2>1. Opened(p) /\ ~Settled(p) /\ p \notin pending
    BY <1>4 DEF EngineInv, TypeOK, Places
  <2>2. PauseState[p] = "open" /\ PauseState' = [PauseState EXCEPT ![p] = "taken"]
    BY <1>1, <1>4, <2>1 DEF PauseState, Opened, Settled
  <2>q. QED
    BY <1>1, <1>4, <2>2 DEF Ledger!Take, AnswersSeen
<1>5. CASE p \notin pending /\ p \notin paused /\ Reply(c, p, Missing) /\ UNCHANGED pending
  <2>1. Settled(p)
    BY <1>1, <1>5, ToldPlace
  <2> DEFINE o == Missing
  <2>2. o = Missing /\ Reply(c, p, o)
    BY <1>5
  <2> HIDE DEF o
  <2>q. QED
    BY <1>1, <1>5, <2>1, <2>2, LedgerSee
<1>q. QED
  BY <1>2, <1>3, <1>4, <1>5 DEF Resume, Lookup

\* Every step of the engine is a step of the ledger or leaves it alone.
LEMMA LedgerStep ==
  ASSUME EngineInv, [Next]_vars
  PROVE  [Ledger!Next]_(Ledger!ledgerVars)
<1> DEFINE Quiet == UNCHANGED <<PauseState, outcome, AnswersSeen>>
<1>1. CASE Sandbox
  <2>1. ASSUME NEW x \in Runs, NEW p \in Pauses, Elicit(x, p) PROVE Ledger!Next
    BY <2>1, LedgerOpen DEF Ledger!Next
  <2>2. ASSUME NEW x \in Runs, Cleanup(x) PROVE Ledger!Next
    BY <2>2, LedgerDrop DEF Ledger!Next
  <2>3. ASSUME NEW x \in Runs, End(x) PROVE Quiet
    BY <2>3, SameState DEF End, cacheVars, historyVars, AnswersSeen
  <2>q. QED
    BY <1>1, <2>1, <2>2, <2>3 DEF Sandbox, Ledger!ledgerVars
<1>2. ASSUME NEW c \in Callers, SeeEnd(c)
      PROVE  Quiet \/ \E p \in Pauses : Ledger!Settle(p)
  <2> DEFINE o == Ended(call[c].run)
  <2>1. /\ call[c].at = "race" /\ Settle(c, o) /\ Reply(c, call[c].id, o)
        /\ UNCHANGED <<owner, paused>>
    BY <1>2 DEF SeeEnd, runVars
  <2>2. o \in Outcome
    BY <2>1, CallKinds, OutcomeKinds DEF EngineInv
  <2> HIDE DEF o
  <2>q. QED
    BY <2>1, <2>2, LedgerSettle
<1>3. ASSUME NEW c \in Callers, SeePause(c)
      PROVE  Quiet \/ \E p \in Pauses : Ledger!Settle(p)
  <2> DEFINE o == PausedAt(Head(queue[call[c].run]))
  <2>1. /\ call[c].at = "race" /\ Settle(c, o) /\ Reply(c, call[c].id, o)
        /\ UNCHANGED <<owner, paused>>
    BY <1>3 DEF SeePause
  <2>2. o \in Outcome
    BY <1>3, NextPause, OutcomeKinds
  <2> HIDE DEF o
  <2>q. QED
    BY <2>1, <2>2, LedgerSettle
<1>4. ASSUME NEW c \in Callers, SeeInflight(c)
      PROVE  Quiet \/ \E p \in Pauses : Ledger!See(p)
  <2> DEFINE p == call[c].id
             o == outcome[p]
  <2>1. /\ call[c].at = "join" /\ Settled(p) /\ Reply(c, p, o) /\ o = outcome[p]
        /\ UNCHANGED <<owner, pending, outcome>>
    BY <1>4 DEF SeeInflight, Settled, runVars, cacheVars
  <2>2. p \in Pauses
    BY <2>1, CallKinds DEF EngineInv
  <2> HIDE DEF p, o
  <2>q. QED
    BY <2>1, <2>2, LedgerSee
<1>5. ASSUME NEW c \in Callers, Interrupt(c)
      PROVE  Quiet \/ \E p \in Pauses : Ledger!Settle(p)
  <2>1. /\ call' = [call EXCEPT ![c] = Idle]
        /\ UNCHANGED <<owner, paused, told, replies>>
    BY <1>5 DEF Interrupt, runVars, historyVars
  <2>2. CASE call[c].at = "race"
    <3>1. Settle(c, Interrupted) /\ Interrupted \in Outcome
      BY <1>5, <2>2, OutcomeKinds DEF Interrupt
    <3>q. QED
      BY <2>1, <2>2, <3>1, LedgerSettle
  <2>3. CASE call[c].at # "race"
    BY <1>5, <2>1, <2>3, SameState DEF Interrupt, AnswersSeen
  <2>q. QED
    BY <2>2, <2>3
<1>6. ASSUME NEW c \in Callers, NEW x \in Runs, Execute(c, x) PROVE Quiet
  BY <1>6, SameState DEF Execute, cacheVars, historyVars, AnswersSeen
<1>7. ASSUME NEW c \in Callers, NEW p \in Pauses, Resume(c, p)
      PROVE  Quiet \/ Ledger!Take(p) \/ Ledger!See(p)
  BY <1>7, LedgerResume
<1>8. ASSUME NEW c \in Callers,
             Engine(c) \/ Interrupt(c) \/ (\E x \in Runs : Execute(c, x))
                       \/ (\E p \in Pauses : Resume(c, p))
      PROVE  Ledger!Next \/ Quiet
  BY <1>2, <1>3, <1>4, <1>5, <1>6, <1>7, <1>8 DEF Engine, Ledger!Next
<1>9. CASE UNCHANGED vars
  BY <1>9, SameState DEF vars, runVars, cacheVars, historyVars, AnswersSeen, Ledger!ledgerVars
<1>q. QED
  BY <1>1, <1>8, <1>9 DEF Next, Ledger!ledgerVars

\* The engine's maps, queues and caches implement the ledger: whatever clients
\* repeat, duplicate or abandon, an identifier is taken once, settles with one
\* answer, and nobody is ever given another.
THEOREM EngineImplementsLedger == Spec => ImplementsLedger
<1>1. Init => Ledger!Init
  BY LedgerInit
<1>2. EngineInv /\ [Next]_vars => [Ledger!Next]_(Ledger!ledgerVars)
  BY LedgerStep
<1>q. QED
  BY <1>1, <1>2, EngineInvariant, PTL DEF Spec, ImplementsLedger, Ledger!Spec

-----------------------------------------------------------------------------
(* Who can reach an open pause                                              *)

\* Without interruptions: a queue holds each of its pauses once and none that
\* was told of; what is in flight or settled was told of, unless its run ended;
\* an open pause was told of or waits in the queue of its run; and somebody
\* waits on each running run or has an open pause of it to resume.
Reach ==
  /\ \A x \in Runs : \A i, j \in DOMAIN queue[x] : queue[x][i] = queue[x][j] => i = j
  /\ \A x \in Runs : \A i \in DOMAIN queue[x] : queue[x][i] \notin told
  /\ \A p \in Pauses : p \in pending \/ Settled(p) => p \in told \/ fiber[owner[p]] = "cleaned"
  /\ \A p \in paused : \/ p \in told
                       \/ \E i \in DOMAIN queue[owner[p]] : queue[owner[p]][i] = p
  /\ \A x \in Runs : fiber[x] = "running" =>
       \/ \E c \in Callers : call[c].at = "race" /\ call[c].run = x
       \/ \E q \in told \cap paused : owner[q] = x

LEMMA ReachSandbox ==
  ASSUME EngineInv, Reach, Sandbox
  PROVE  Reach'
<1>1. ASSUME NEW x \in Runs, End(x) PROVE Reach'
  <2>1. /\ fiber[x] = "running" /\ fiber' = [fiber EXCEPT ![x] = "done"]
        /\ UNCHANGED <<owner, queue, paused, pending, recorded, outcome, call, told>>
    BY <1>1 DEF End, cacheVars, historyVars
  <2>2. \A y \in Runs \cup {NoRun} : fiber[y] = "cleaned" => fiber'[y] = "cleaned"
    BY <2>1, NoneAssumption DEF EngineInv, TypeOK
  <2>3. \A y \in Runs : fiber'[y] = "running" => fiber[y] = "running"
    BY <2>1 DEF EngineInv, TypeOK
  <2>4. \A p \in Pauses : owner[p] \in Runs \cup {NoRun}
    BY DEF EngineInv, TypeOK
  <2>q. QED
    BY <2>1, <2>2, <2>3, <2>4 DEF Reach, Settled
<1>2. ASSUME NEW x \in Runs, Cleanup(x) PROVE Reach'
  <2>1. /\ fiber[x] = "done" /\ fiber' = [fiber EXCEPT ![x] = "cleaned"]
        /\ paused' = paused \ OpenPauses(x)
        /\ UNCHANGED <<owner, queue, pending, call, told>>
    BY <1>2 DEF Cleanup, historyVars
  <2>2. \A p \in Pauses : Settled(p)' <=> Settled(p) \/ p \in OpenPauses(x)
    BY <1>2, CleanupSettles
  <2>3. \A y \in Runs : /\ fiber[y] = "cleaned" => fiber'[y] = "cleaned"
                        /\ fiber'[y] = "running" => fiber[y] = "running" /\ y # x
    BY <2>1 DEF EngineInv, TypeOK
  <2>4. \A p \in Pauses : p \in pending \/ Settled(p)' => owner[p] \in Runs
    BY <2>2 DEF EngineInv, TypeOK, Places, Opened, OpenPauses
  <2>5. \A p \in Pauses : p \in pending' \/ Settled(p)' => p \in told' \/ fiber'[owner'[p]] = "cleaned"
    <3>1. \A p \in OpenPauses(x) : fiber'[owner[p]] = "cleaned"
      BY <2>1 DEF EngineInv, TypeOK, OpenPauses
    <3>q. QED
      BY <2>1, <2>2, <2>3, <2>4, <3>1 DEF Reach
  <2>6. \A y \in Runs : fiber'[y] = "running" =>
          \/ \E c \in Callers : call'[c].at = "race" /\ call'[c].run = y
          \/ \E q \in told' \cap paused' : owner'[q] = y
    BY <2>1, <2>3 DEF Reach, OpenPauses
  <2>q. QED
    BY <2>1, <2>5, <2>6 DEF Reach
<1>3. ASSUME NEW x \in Runs, NEW p \in Pauses, Elicit(x, p) PROVE Reach'
  <2>1. /\ fiber[x] = "running" /\ owner[p] = NoRun /\ owner' = [owner EXCEPT ![p] = x]
        /\ paused' = paused \cup {p}
        /\ queue' = [queue EXCEPT ![x] = Append(@, p)]
        /\ UNCHANGED <<fiber, pending, recorded, outcome, call, told>>
    BY <1>3 DEF Elicit, historyVars
  <2>2. ~Opened(p) /\ p \notin told /\ p \notin pending /\ ~Settled(p) /\ p \notin paused
    BY <2>1 DEF EngineInv, IdsKnown, Places, Opened
  <2>3. \A q \in Pauses : q # p => owner'[q] = owner[q]
    BY <2>1 DEF EngineInv, TypeOK
  <2>4. \A y \in Runs : \A i \in DOMAIN queue[y] : queue[y][i] \in Pauses \ {p}
    BY <2>1, NoneAssumption DEF EngineInv, TypeOK, IdsKnown
  <2> DEFINE longer == Append(queue[x], p)
  <2>5. /\ Len(queue[x]) \in Nat /\ DOMAIN queue[x] = 1 .. Len(queue[x])
        /\ DOMAIN longer = 1 .. Len(queue[x]) + 1
        /\ \A i \in DOMAIN queue[x] : longer[i] = queue[x][i]
        /\ longer[Len(queue[x]) + 1] = p
    <3>1. queue[x] \in Seq(Pauses)
      BY DEF EngineInv, TypeOK
    <3>q. QED
      BY <3>1, AppendProperties, LenProperties
  <2>6. \A y \in Runs : queue'[y] = IF y = x THEN longer ELSE queue[y]
    BY <2>1 DEF EngineInv, TypeOK
  <2> HIDE DEF longer
  <2>7. \A y \in Runs : \A i, j \in DOMAIN queue'[y] : queue'[y][i] = queue'[y][j] => i = j
    <3>1. \A i, j \in DOMAIN longer : longer[i] = longer[j] => i = j
      <4>1. \A i \in DOMAIN longer : i \in DOMAIN queue[x] \/ i = Len(queue[x]) + 1
        BY <2>5
      <4>q. QED
        BY <4>1, <2>4, <2>5 DEF Reach
    <3>q. QED
      BY <2>6, <3>1 DEF Reach
  <2>8. \A y \in Runs : \A i \in DOMAIN queue'[y] : queue'[y][i] \notin told
    <3>1. \A i \in DOMAIN longer : longer[i] \notin told
      <4>1. \A i \in DOMAIN longer : i \in DOMAIN queue[x] \/ i = Len(queue[x]) + 1
        BY <2>5
      <4>q. QED
        BY <4>1, <2>2, <2>5 DEF Reach
    <3>2. ASSUME NEW y \in Runs PROVE \A i \in DOMAIN queue'[y] : queue'[y][i] \notin told
      <4>1. CASE y = x
        BY <2>6, <3>1, <4>1
      <4>2. CASE y # x
        BY <2>6, <4>2 DEF Reach
      <4>q. QED
        BY <4>1, <4>2
    <3>q. QED
      BY <3>2
  <2>9. \A q \in Pauses : q \in pending' \/ Settled(q)' => q \in told' \/ fiber'[owner'[q]] = "cleaned"
    BY <2>1, <2>2, <2>3 DEF Reach, Settled
  <2>10. ASSUME NEW q \in paused'
         PROVE  \/ q \in told'
                \/ \E i \in DOMAIN queue'[owner'[q]] : queue'[owner'[q]][i] = q
    <3>1. CASE q = p
      <4>1. owner'[q] = x /\ Len(queue[x]) + 1 \in DOMAIN longer
        BY <2>1, <2>5, <3>1 DEF EngineInv, TypeOK
      <4>q. QED
        BY <2>5, <2>6, <3>1, <4>1
    <3>2. CASE q # p
      <4>1. q \in paused /\ q \in Pauses /\ owner'[q] = owner[q] /\ owner[q] \in Runs
        BY <2>1, <2>3, <3>2 DEF EngineInv, TypeOK, Places, Opened
      <4>2. CASE q \in told
        BY <2>1, <4>2
      <4>3. CASE \E i \in DOMAIN queue[owner[q]] : queue[owner[q]][i] = q
        <5>1. PICK i \in DOMAIN queue[owner[q]] : queue[owner[q]][i] = q
          BY <4>3
        <5>2. i \in DOMAIN queue'[owner[q]] /\ queue'[owner[q]][i] = q
          BY <2>5, <2>6, <4>1, <5>1
        <5>q. QED
          BY <4>1, <5>2
      <4>q. QED
        BY <4>1, <4>2, <4>3 DEF Reach
    <3>q. QED
      BY <3>1, <3>2
  <2>11. \A y \in Runs : fiber'[y] = "running" =>
          \/ \E c \in Callers : call'[c].at = "race" /\ call'[c].run = y
          \/ \E q \in told' \cap paused' : owner'[q] = y
    <3>1. \A q \in told \cap paused : owner'[q] = owner[q]
      BY <2>2, <2>3 DEF EngineInv, TypeOK
    <3>q. QED
      BY <2>1, <3>1 DEF Reach
  <2>q. QED
    BY <2>1, <2>7, <2>8, <2>9, <2>10, <2>11 DEF Reach
<1>q. QED
  BY <1>1, <1>2, <1>3 DEF Sandbox

LEMMA ReachExecute ==
  ASSUME EngineInv, Reach, NEW c \in Callers, NEW x \in Runs, Execute(c, x)
  PROVE  Reach'
<1>1. /\ call[c] = Idle /\ call' = [call EXCEPT ![c] = Racing(x, NoPause)]
      /\ fiber[x] = "unborn" /\ fiber' = [fiber EXCEPT ![x] = "running"]
      /\ UNCHANGED <<owner, queue, paused, pending, recorded, outcome, told>>
  BY DEF Execute, cacheVars, historyVars
<1>2. \A d \in Callers : call'[d] = IF d = c THEN Racing(x, NoPause) ELSE call[d]
  BY <1>1 DEF EngineInv, TypeOK
<1>3. /\ Racing(x, NoPause).at = "race" /\ Racing(x, NoPause).run = x
      /\ Idle.at # "race"
  BY DEF Racing, Idle
<1>4. \A y \in Runs : fiber'[y] = IF y = x THEN "running" ELSE fiber[y]
  BY <1>1 DEF EngineInv, TypeOK
<1>5. \A p \in Pauses : p \in pending \/ Settled(p) => owner[p] \in Runs
  BY DEF EngineInv, TypeOK, Places, Opened
<1>6. \A p \in Pauses : p \in pending' \/ Settled(p)' => p \in told' \/ fiber'[owner'[p]] = "cleaned"
  BY <1>1, <1>4, <1>5 DEF Reach, Settled
<1>7. \A y \in Runs : fiber'[y] = "running" =>
        \/ \E d \in Callers : call'[d].at = "race" /\ call'[d].run = y
        \/ \E q \in told' \cap paused' : owner'[q] = y
  BY <1>1, <1>2, <1>3, <1>4 DEF Reach
<1>q. QED
  BY <1>1, <1>6, <1>7 DEF Reach

\* A caller that does not wait on a run is answered, or joins.
LEMMA ReachAnswered ==
  ASSUME EngineInv, Reach, NEW c \in Callers, call[c].at # "race", NEW k,
         call' = [call EXCEPT ![c] = k], told' = told,
         UNCHANGED <<fiber, owner, queue, paused, pending, outcome>>
  PROVE  Reach'
<1>1. \A d \in Callers : call[d].at = "race" => call'[d] = call[d]
  BY DEF EngineInv, TypeOK
<1>2. \A x \in Runs : fiber'[x] = "running" =>
       \/ \E d \in Callers : call'[d].at = "race" /\ call'[d].run = x
       \/ \E q \in told' \cap paused' : owner'[q] = x
  BY <1>1 DEF Reach
<1>q. QED
  BY <1>2 DEF Reach, Settled

LEMMA ReachResume ==
  ASSUME EngineInv, Reach, NEW c \in Callers, NEW p \in Pauses, Resume(c, p)
  PROVE  Reach'
<1>1. /\ call[c] = Idle /\ call[c].at # "race" /\ p \in told /\ told' = told
      /\ UNCHANGED <<fiber, owner, queue, outcome>>
  BY StepResume DEF Resume, runVars, Idle
<1>2. CASE UNCHANGED <<paused, pending>> /\ \E k : call' = [call EXCEPT ![c] = k]
  BY <1>1, <1>2, ReachAnswered
<1>3. CASE /\ p \in paused /\ paused' = paused \ {p} /\ pending' = pending \cup {p}
           /\ call' = [call EXCEPT ![c] = Racing(owner[p], p)]
  <2>1. \A d \in Callers : call'[d] = IF d = c THEN Racing(owner[p], p) ELSE call[d]
    BY <1>3 DEF EngineInv, TypeOK
  <2>2. /\ Racing(owner[p], p).at = "race" /\ Racing(owner[p], p).run = owner[p]
    BY DEF Racing
  <2>3. \A x \in Runs : fiber'[x] = "running" =>
       \/ \E d \in Callers : call'[d].at = "race" /\ call'[d].run = x
       \/ \E q \in told' \cap paused' : owner'[q] = x
    BY <1>1, <1>3, <2>1, <2>2 DEF Reach
  <2>q. QED
    BY <1>1, <1>3, <2>3 DEF Reach, Settled
<1>q. QED
  BY <1>2, <1>3 DEF Resume, Lookup, Reply

LEMMA ReachSeeEnd ==
  ASSUME EngineInv, Reach, NEW c \in Callers, SeeEnd(c)
  PROVE  Reach'
<1> DEFINE x == call[c].run
<1>1. /\ call[c].at = "race" /\ x \in Runs /\ fiber[x] \in {"done", "cleaned"}
      /\ Settle(c, Ended(x)) /\ call' = [call EXCEPT ![c] = Idle] /\ told' = told
      /\ UNCHANGED <<fiber, owner, queue, paused>>
  BY CallKinds, OutcomeKinds DEF EngineInv, SeeEnd, Reply, runVars
<1>2. \A d \in Callers : d # c => call'[d] = call[d]
  BY <1>1 DEF EngineInv, TypeOK
<1>3. Ended(x) \in Outcome
  BY <1>1, OutcomeKinds
<1>4. /\ pending' \subseteq pending
      /\ \A p \in Pauses : Settled(p)' => Settled(p) \/ p \in pending
  <2>1. /\ call[c].id = NoPause => UNCHANGED <<pending, outcome>>
        /\ call[c].id # NoPause =>
              /\ call[c].id \in pending /\ pending' = pending \ {call[c].id}
              /\ outcome' = [outcome EXCEPT ![call[c].id] = Ended(x)]
    BY <1>1, <1>3, Settling
  <2>q. QED
    BY <2>1 DEF Settled, EngineInv, TypeOK
<1>5. \A y \in Runs : fiber'[y] = "running" =>
       \/ \E d \in Callers : call'[d].at = "race" /\ call'[d].run = y
       \/ \E q \in told' \cap paused' : owner'[q] = y
  BY <1>1, <1>2 DEF Reach
<1>q. QED
  BY <1>1, <1>4, <1>5 DEF Reach

LEMMA ReachSeePause ==
  ASSUME EngineInv, Reach, NEW c \in Callers, SeePause(c)
  PROVE  Reach'
<1> DEFINE x == call[c].run
           next == Head(queue[x])
<1>1. /\ call[c].at = "race" /\ Settle(c, PausedAt(next))
      /\ call' = [call EXCEPT ![c] = Idle]
      /\ UNCHANGED <<fiber, owner, paused>>
  BY DEF SeePause, Reply
<1>2. /\ x \in Runs /\ next \in Pauses /\ owner[next] = x
      /\ queue[x] \in Seq(Pauses) /\ queue[x] # <<>> /\ next = queue[x][1]
      /\ queue' = [queue EXCEPT ![x] = Tail(@)]
      /\ \A i \in DOMAIN Tail(queue[x]) :
           i + 1 \in DOMAIN queue[x] /\ Tail(queue[x])[i] = queue[x][i + 1]
      /\ Tail(queue[x]) \in Seq(Pauses) /\ Len(Tail(queue[x])) = Len(queue[x]) - 1
  BY NextPause
<1>3. told' = told \cup {next}
  BY <1>2, OutcomeKinds DEF SeePause, Reply
<1>4. /\ pending' \subseteq pending
      /\ \A p \in Pauses : Settled(p)' => Settled(p) \/ p \in pending
  <2>1. PausedAt(next) \in Outcome
    BY <1>2, OutcomeKinds
  <2>2. /\ call[c].id = NoPause => UNCHANGED <<pending, outcome>>
        /\ call[c].id # NoPause =>
              /\ call[c].id \in pending /\ pending' = pending \ {call[c].id}
              /\ outcome' = [outcome EXCEPT ![call[c].id] = PausedAt(next)]
    BY <1>1, <2>1, Settling
  <2>q. QED
    BY <2>2 DEF Settled, EngineInv, TypeOK
<1> DEFINE rest == Tail(queue[x])
<1>5. /\ Len(queue[x]) \in Nat /\ Len(queue[x]) > 0 /\ DOMAIN queue[x] = 1 .. Len(queue[x])
      /\ DOMAIN rest = 1 .. Len(queue[x]) - 1
  BY <1>2, LenProperties, EmptySeq
<1>6. \A y \in Runs : queue'[y] = IF y = x THEN rest ELSE queue[y]
  BY <1>2 DEF EngineInv, TypeOK
<1>7. \A i \in DOMAIN rest : i + 1 \in DOMAIN queue[x] /\ rest[i] = queue[x][i + 1]
  BY <1>2
<1>8. \A d \in Callers : d # c => call'[d] = call[d]
  BY <1>1 DEF EngineInv, TypeOK
<1> HIDE DEF x, next, rest
<1>9. \A y \in Runs : \A i, j \in DOMAIN queue'[y] : queue'[y][i] = queue'[y][j] => i = j
  <2>1. ASSUME NEW i \in DOMAIN rest, NEW j \in DOMAIN rest, rest[i] = rest[j] PROVE i = j
    <3>1. i + 1 = j + 1 /\ i \in Int /\ j \in Int
      BY <1>2, <1>5, <1>7, <2>1 DEF Reach
    <3>q. QED
      BY <3>1
  <2>q. QED
    BY <1>6, <2>1 DEF Reach
<1>10. \A y \in Runs : \A i \in DOMAIN queue'[y] : queue'[y][i] \notin told'
  <2>1. ASSUME NEW i \in DOMAIN rest PROVE rest[i] \notin told'
    <3>1. i + 1 \in DOMAIN queue[x] /\ 1 \in DOMAIN queue[x] /\ i + 1 # 1
      BY <1>5, <1>7, <2>1
    <3>q. QED
      BY <1>2, <1>3, <1>7, <2>1, <3>1 DEF Reach
  <2>2. ASSUME NEW y \in Runs \ {x}, NEW i \in DOMAIN queue[y] PROVE queue[y][i] \notin told'
    <3>1. owner[queue[y][i]] = y
      BY <2>2 DEF EngineInv, IdsKnown
    <3>q. QED
      BY <1>2, <1>3, <2>2, <3>1 DEF Reach
  <2>q. QED
    BY <1>6, <2>1, <2>2
<1>11. ASSUME NEW p \in paused'
       PROVE  \/ p \in told'
              \/ \E i \in DOMAIN queue'[owner'[p]] : queue'[owner'[p]][i] = p
  <2>1. p \in paused /\ owner'[p] = owner[p] /\ owner[p] \in Runs
    BY <1>1, <1>11 DEF EngineInv, TypeOK, Places, Opened
  <2>2. CASE p \in told \/ p = next
    BY <1>3, <2>2
  <2>3. CASE p # next /\ \E i \in DOMAIN queue[owner[p]] : queue[owner[p]][i] = p
    <3>1. PICK i \in DOMAIN queue[owner[p]] : queue[owner[p]][i] = p
      BY <2>3
    <3>2. CASE owner[p] = x
      <4>1. i # 1 /\ i \in 1 .. Len(queue[x])
        BY <1>2, <1>5, <2>3, <3>1, <3>2
      <4>2. i - 1 \in DOMAIN rest /\ (i - 1) + 1 = i
        BY <1>5, <4>1
      <4>3. rest[i - 1] = p
        BY <1>7, <3>1, <3>2, <4>2
      <4>q. QED
        BY <1>6, <2>1, <3>2, <4>2, <4>3
    <3>3. CASE owner[p] # x
      BY <1>6, <2>1, <3>1, <3>3
    <3>q. QED
      BY <3>2, <3>3
  <2>q. QED
    BY <2>1, <2>2, <2>3 DEF Reach
<1>12. ASSUME NEW y \in Runs, fiber'[y] = "running"
       PROVE  \/ \E d \in Callers : call'[d].at = "race" /\ call'[d].run = y
              \/ \E q \in told' \cap paused' : owner'[q] = y
  <2>1. CASE y = x
    <3>1. 1 \in DOMAIN queue[x] /\ next \notin told
      BY <1>2, <1>5 DEF Reach
    <3>2. next \in paused
      BY <1>1, <1>2, <1>12, <2>1, <3>1, NoneAssumption DEF Reach, EngineInv, Places, Opened
    <3>q. QED
      BY <1>1, <1>2, <1>3, <2>1, <3>2
  <2>2. CASE y # x
    <3>1. fiber[y] = "running" /\ told \cap paused \subseteq told' \cap paused' /\ owner' = owner
      BY <1>1, <1>3, <1>12
    <3>2. call[c].run # y
      BY <2>2 DEF x
    <3>q. QED
      BY <1>8, <3>1, <3>2 DEF Reach
  <2>q. QED
    BY <2>1, <2>2
<1>13. \A p \in Pauses : p \in pending' \/ Settled(p)' => p \in told' \/ fiber'[owner'[p]] = "cleaned"
  BY <1>1, <1>3, <1>4 DEF Reach
<1>q. QED
  BY <1>9, <1>10, <1>11, <1>12, <1>13 DEF Reach

\* What gets a pause to its clients, in a step that is no interruption.
LEMMA ReachStep ==
  ASSUME EngineInv, Reach,
         \/ Sandbox
         \/ \E c \in Callers : \/ Engine(c) \/ \E x \in Runs : Execute(c, x)
                               \/ \E p \in Pauses : Resume(c, p)
         \/ UNCHANGED vars
  PROVE  Reach'
<1>1. ASSUME NEW c \in Callers, SeeInflight(c) PROVE Reach'
  <2>1. /\ call[c].at # "race" /\ told' = told /\ call' = [call EXCEPT ![c] = Idle]
        /\ UNCHANGED <<fiber, owner, queue, paused, pending, outcome>>
    BY <1>1, StepSeeInflight DEF SeeInflight, Reply, runVars, cacheVars
  <2>q. QED
    BY <2>1, ReachAnswered
<1>2. CASE UNCHANGED vars
  BY <1>2 DEF vars, runVars, cacheVars, historyVars, Reach, Settled
<1>q. QED
  BY <1>1, <1>2, ReachSandbox, ReachExecute, ReachResume, ReachSeeEnd, ReachSeePause DEF Engine

LEMMA ReachInit == ASSUME Init PROVE Reach
  BY DEF Init, Reach, Settled

LEMMA ReachImplies == ASSUME EngineInv, Reach PROVE PausesAreReachable
<1>1. ASSUME NEW p \in paused, fiber[owner[p]] = "running", p \notin told
      PROVE  /\ \E i \in DOMAIN queue[owner[p]] : queue[owner[p]][i] = p
             /\ \/ \E c \in Callers : call[c].at = "race" /\ call[c].run = owner[p]
                \/ \E q \in told \cap paused : owner[q] = owner[p]
  <2>1. owner[p] \in Runs
    BY <1>1 DEF EngineInv, TypeOK, Places, Opened
  <2>q. QED
    BY <1>1, <2>1 DEF Reach
<1>q. QED
  BY <1>1 DEF PausesAreReachable

\* Where no transport interrupts its calls, an open pause of a running run can
\* be reached: a client has its identifier, or it waits in the queue and
\* somebody can get it from there.
THEOREM EngineReachable ==
  ASSUME Interruptible = {}
  PROVE  Spec => []PausesAreReachable
<1>1. Init => EngineInv /\ Reach
  BY InitInv, ReachInit
<1>2. EngineInv /\ Reach /\ [Next]_vars => (EngineInv /\ Reach)'
  BY EngineStepInv, ReachStep DEF Next, Interrupt
<1>3. EngineInv /\ Reach => PausesAreReachable
  BY ReachImplies
<1>q. QED
  BY <1>1, <1>2, <1>3, PTL DEF Spec

-----------------------------------------------------------------------------
(* Approval in the browser only adds guards to the engine's steps, so the   *)
(* engine's own theorems hold under it as well.                             *)

\* The steps of the engine that approval leaves: no transport interrupts.
Uninterrupted ==
  \/ Sandbox
  \/ \E c \in Callers : \/ Engine(c) \/ \E x \in Runs : Execute(c, x)
                        \/ \E p \in Pauses : Resume(c, p)
  \/ UNCHANGED vars

\* Requests read and decisions are of pauses that a client was told of, and a
\* response that waits was decided by a human.
DecisionsKnown ==
  /\ human \in [Humans -> Pauses \cup {NoPause}]
  /\ \A h \in Humans : human[h] # NoPause => human[h] \in told
  /\ decided \subseteq told
  /\ responses \subseteq decided

\* The inductive invariant.
BrowserInv ==
  /\ EngineInv /\ Reach
  /\ DecisionsKnown /\ OnlyHumanDecides /\ DecisionKept

-----------------------------------------------------------------------------
(* What a step may do to the engine                                         *)

\* A step of the engine alone gives no response, and lists only pauses that
\* nobody was told of; it forgets nothing that was told.
LEMMA EngineAlone ==
  ASSUME EngineInv, EngineStep
  PROVE  /\ Uninterrupted /\ given' = given /\ told \subseteq told'
         /\ paused' \cap told \subseteq paused
         /\ UNCHANGED approvalVars
<1>1. Uninterrupted /\ UNCHANGED approvalVars
  BY DEF EngineStep, Uninterrupted
<1>2. ASSUME NEW x \in Runs, End(x) \/ Cleanup(x)
      PROVE  given' = given /\ told \subseteq told' /\ paused' \subseteq paused
  BY <1>2 DEF End, Cleanup, cacheVars, historyVars
<1>3. ASSUME NEW x \in Runs, NEW p \in Pauses, Elicit(x, p)
      PROVE  given' = given /\ told \subseteq told' /\ paused' \cap told \subseteq paused
  <2>1. given' = given /\ told' = told /\ paused' = paused \cup {p} /\ owner[p] = NoRun
    BY <1>3 DEF Elicit, historyVars
  <2>2. p \notin told
    BY <2>1 DEF EngineInv, IdsKnown, Opened
  <2>q. QED
    BY <2>1, <2>2
<1>4. ASSUME NEW c \in Callers, Engine(c) \/ \E x \in Runs : Execute(c, x)
      PROVE  given' = given /\ told \subseteq told' /\ paused' = paused
  BY <1>4 DEF Engine, SeeEnd, SeePause, SeeInflight, Execute, Reply, cacheVars, historyVars
<1>q. QED
  BY <1>1, <1>2, <1>3, <1>4 DEF EngineStep, Sandbox

\* A resume gives a response to its own pause at most, which is not open after.
LEMMA ResumeAlone ==
  ASSUME EngineInv, NEW c \in Callers, NEW p, Resume(c, p)
  PROVE  /\ p \in Pauses /\ Uninterrupted
         /\ told' = told /\ paused' \subseteq paused \ {p}
         /\ \A q \in Pauses : q # p => given'[q] = given[q]
<1>1. p \in told /\ p \in Pauses
  BY DEF Resume, EngineInv, TypeOK
<1>2. told' = told
  BY <1>1, StepResume
<1>3. paused' \subseteq paused \ {p}
  <2>1. CASE Replayable(p) /\ paused' = paused
    BY <1>1, <2>1, ReplayableSettled DEF EngineInv, Places
  <2>2. CASE p \in pending /\ paused' = paused
    BY <2>2 DEF EngineInv, Places
  <2>3. CASE paused' = paused \ {p}
    BY <2>3
  <2>4. CASE p \notin paused /\ paused' = paused
    BY <2>4
  <2>q. QED
    BY <2>1, <2>2, <2>3, <2>4 DEF Resume, Lookup
<1>4. \A q \in Pauses : q # p => given'[q] = given[q]
  BY DEF Resume, Lookup, EngineInv, TypeOK
<1>q. QED
  BY <1>1, <1>2, <1>3, <1>4 DEF Uninterrupted

\* The engine's invariants under any step that is no interruption.
LEMMA EngineKept ==
  ASSUME EngineInv, Reach, Uninterrupted
  PROVE  EngineInv' /\ Reach'
<1>1. [Next]_vars
  BY DEF Uninterrupted, Next
<1>q. QED
  BY <1>1, EngineStepInv, ReachStep DEF Uninterrupted

-----------------------------------------------------------------------------
(* Every step keeps the invariant                                           *)

LEMMA BrowserStart == ASSUME BrowserInit PROVE BrowserInv
<1>1. EngineInv /\ Reach
  BY InitInv, ReachInit DEF BrowserInit
<1>2. DecisionsKnown /\ DecisionKept
  BY DEF BrowserInit, DecisionsKnown, DecisionKept
<1>3. OnlyHumanDecides
  BY DEF BrowserInit, Init, OnlyHumanDecides
<1>q. QED
  BY <1>1, <1>2, <1>3 DEF BrowserInv

\* A tool call that takes a decision resumes with it.
LEMMA StepDecided ==
  ASSUME BrowserInv, NEW c \in Callers, NEW p, TakeAndResume(c, p),
         UNCHANGED <<human, decided>>
  PROVE  BrowserInv'
<1>1. /\ p \in responses /\ responses' = responses \ {p} /\ Resume(c, p) /\ EngineInv
      /\ Reach
  BY DEF TakeAndResume, BrowserInv
<1>2. /\ p \in Pauses /\ Uninterrupted
      /\ told' = told /\ paused' \subseteq paused \ {p}
      /\ \A q \in Pauses : q # p => given'[q] = given[q]
  BY <1>1, ResumeAlone
<1>3. EngineInv' /\ Reach'
  BY <1>1, <1>2, EngineKept
<1>4. DecisionsKnown'
  BY <1>1, <1>2 DEF BrowserInv, DecisionsKnown
<1>5. OnlyHumanDecides'
  BY <1>1, <1>2 DEF BrowserInv, DecisionsKnown, OnlyHumanDecides
<1>6. DecisionKept'
  BY <1>1, <1>2 DEF BrowserInv, DecisionKept
<1>q. QED
  BY <1>3, <1>4, <1>5, <1>6 DEF BrowserInv

\* A step of neither the engine nor of who decides.
LEMMA StepAside ==
  ASSUME BrowserInv, UNCHANGED <<vars, responses, human, decided>>
  PROVE  BrowserInv'
<1>1. EngineInv' /\ Reach'
  BY EngineKept DEF BrowserInv, Uninterrupted
<1>2. UNCHANGED <<told, given, paused>>
  BY DEF vars, cacheVars, historyVars
<1>3. DecisionsKnown' /\ OnlyHumanDecides' /\ DecisionKept'
  BY <1>2 DEF BrowserInv, DecisionsKnown, OnlyHumanDecides, DecisionKept
<1>q. QED
  BY <1>1, <1>3 DEF BrowserInv

LEMMA StepTool ==
  ASSUME BrowserInv, NEW c \in Callers, Tool(c)
  PROVE  BrowserInv'
<1>1. ASSUME NEW p \in Pauses, CallResume(c, p) PROVE BrowserInv'
  BY <1>1, StepDecided, StepAside DEF CallResume
<1>2. CASE Wake(c)
  BY <1>2, StepDecided, StepAside DEF Wake
<1>3. CASE TimeOut(c)
  BY <1>3, StepAside DEF TimeOut
<1>q. QED
  BY <1>1, <1>2, <1>3 DEF Tool

LEMMA StepHuman ==
  ASSUME BrowserInv, NEW h \in Humans, Human(h)
  PROVE  BrowserInv'
<1>1. UNCHANGED vars
  BY DEF Human, OpenApproval, Abandon, Approve
<1>2. EngineInv' /\ Reach' /\ UNCHANGED <<told, given, paused>>
  BY <1>1, EngineKept DEF BrowserInv, Uninterrupted, vars, cacheVars, historyVars
<1>3. ASSUME NEW p \in Pauses, OpenApproval(h, p) PROVE BrowserInv'
  <2>1. /\ p \in told /\ human' = [human EXCEPT ![h] = p]
        /\ UNCHANGED <<responses, decided>>
    BY <1>3 DEF OpenApproval, storeVars
  <2>2. DecisionsKnown' /\ OnlyHumanDecides' /\ DecisionKept'
    BY <1>2, <2>1 DEF BrowserInv, DecisionsKnown, OnlyHumanDecides, DecisionKept
  <2>q. QED
    BY <1>2, <2>2 DEF BrowserInv
<1>4. CASE Abandon(h)
  <2>1. /\ human' = [human EXCEPT ![h] = NoPause] /\ UNCHANGED <<responses, decided>>
    BY <1>4 DEF Abandon, storeVars
  <2>2. DecisionsKnown' /\ OnlyHumanDecides' /\ DecisionKept'
    BY <1>2, <2>1 DEF BrowserInv, DecisionsKnown, OnlyHumanDecides, DecisionKept
  <2>q. QED
    BY <1>2, <2>2 DEF BrowserInv
<1>5. CASE Approve(h)
  <2>1. /\ human[h] # NoPause /\ human' = [human EXCEPT ![h] = NoPause]
        /\ responses' = responses \cup {human[h]} /\ decided' = decided \cup {human[h]}
    BY <1>5 DEF Approve
  <2>2. human[h] \in told
    BY <2>1 DEF BrowserInv, DecisionsKnown
  <2>3. DecisionsKnown' /\ OnlyHumanDecides' /\ DecisionKept'
    BY <1>2, <2>1, <2>2 DEF BrowserInv, DecisionsKnown, OnlyHumanDecides, DecisionKept
  <2>q. QED
    BY <1>2, <2>3 DEF BrowserInv
<1>q. QED
  BY <1>3, <1>4, <1>5 DEF Human

LEMMA BrowserStep ==
  ASSUME BrowserInv, [BrowserNext]_browserVars
  PROVE  BrowserInv'
<1>1. CASE EngineStep
  <2>1. /\ Uninterrupted /\ given' = given /\ told \subseteq told'
        /\ paused' \cap told \subseteq paused
        /\ UNCHANGED <<responses, human, decided>>
    BY <1>1, EngineAlone DEF BrowserInv, approvalVars, storeVars
  <2>2. EngineInv' /\ Reach'
    BY <2>1, EngineKept DEF BrowserInv
  <2>3. DecisionsKnown' /\ OnlyHumanDecides' /\ DecisionKept'
    BY <2>1 DEF BrowserInv, DecisionsKnown, OnlyHumanDecides, DecisionKept
  <2>q. QED
    BY <2>2, <2>3 DEF BrowserInv
<1>2. CASE UNCHANGED browserVars
  BY <1>2, StepAside DEF browserVars, approvalVars, storeVars
<1>q. QED
  BY <1>1, <1>2, StepTool, StepHuman DEF BrowserNext

-----------------------------------------------------------------------------
(* Theorems                                                                 *)

\* The invariant as a whole; the engine's is part of it.
THEOREM BrowserInvariant == BrowserSpec => []BrowserInv
<1>1. BrowserInit => BrowserInv
  BY BrowserStart
<1>2. BrowserInv /\ [BrowserNext]_browserVars => BrowserInv'
  BY BrowserStep
<1>q. QED
  BY <1>1, <1>2, PTL DEF BrowserSpec

\* A paused tool call is given a response only after a human decided on that
\* very pause, however many calls, duplicates, timeouts and wake-ups there are.
THEOREM BrowserHumanDecides == BrowserSpec => []OnlyHumanDecides
<1>1. BrowserInv => OnlyHumanDecides
  BY DEF BrowserInv
<1>q. QED
  BY <1>1, BrowserInvariant, PTL

\* A decision stays recorded for as long as the execution waits for it.
THEOREM BrowserKeepsDecisions == BrowserSpec => []DecisionKept
<1>1. BrowserInv => DecisionKept
  BY DEF BrowserInv
<1>q. QED
  BY <1>1, BrowserInvariant, PTL

\* Browser approval has no transport that interrupts, and so every open pause
\* of a running execution can be reached.
THEOREM BrowserReachable == BrowserSpec => []PausesAreReachable
<1>1. BrowserInv => PausesAreReachable
  BY ReachImplies DEF BrowserInv
<1>q. QED
  BY <1>1, BrowserInvariant, PTL

\* Approval only restricts the engine: what is proved of the engine's
\* specification holds of a server that approves in the browser.
THEOREM BrowserRefinesEngine == BrowserSpec => Spec
<1>1. BrowserInit => Init
  BY DEF BrowserInit
<1>2. BrowserInv /\ [BrowserNext]_browserVars => [Next]_vars
  <2> SUFFICES ASSUME BrowserInv, [BrowserNext]_browserVars PROVE [Next]_vars
    OBVIOUS
  <2>1. ASSUME Uninterrupted PROVE [Next]_vars
    BY <2>1 DEF Uninterrupted, Next
  <2>2. CASE EngineStep
    BY <2>1, <2>2, EngineAlone DEF BrowserInv
  <2>3. ASSUME NEW c \in Callers, NEW p, TakeAndResume(c, p) PROVE [Next]_vars
    BY <2>1, <2>3, ResumeAlone DEF BrowserInv, TakeAndResume
  <2>4. ASSUME NEW c \in Callers, Tool(c) PROVE [Next]_vars
    BY <2>3, <2>4 DEF Tool, CallResume, Wake, TimeOut
  <2>5. ASSUME NEW h \in Humans, Human(h) PROVE [Next]_vars
    BY <2>5 DEF Human, OpenApproval, Abandon, Approve
  <2>6. CASE UNCHANGED browserVars
    BY <2>6 DEF browserVars
  <2>q. QED
    BY <2>2, <2>4, <2>5, <2>6 DEF BrowserNext
<1>q. QED
  BY <1>1, <1>2, BrowserInvariant, PTL DEF BrowserSpec, Spec

=============================================================================
