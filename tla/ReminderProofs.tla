--------------------------- MODULE ReminderProofs ---------------------------
(* What the operator knows of the providers, and what an acknowledgement    *)
(* says of a row.                                                           *)
EXTENDS MeetingReminders, RowProofs

-----------------------------------------------------------------------------
(* The inductive invariant of provider health                              *)

HealthRow == [failure  : Kinds \cup {"none", "unknown"},
              fresh    : BOOLEAN,
              notified : {"none", "recent", "old"},
              pending  : BOOLEAN]

HealthTypes ==
  /\ health \in [ProviderSet -> HealthRow]
  /\ previous \in [ProviderSet -> HealthRow]
  /\ heard \in [ProviderSet -> Kinds \cup {"nothing", "recovered"}]
  /\ at \in DOMAIN Providers

\* Two health rows that differ in what only time has changed.
Alike(g, h) ==
  /\ g.failure = h.failure /\ g.pending = h.pending
  /\ g.notified = "none" <=> h.notified = "none"

Watching == {"check", "resume", "alert", "alerting", "alerted"}

\* The health rows a check has read before anything else are the present ones
\* for every provider it still has to look at: it has become their only writer.
ReadIsPresent ==
  pc \in Watching =>
    \A n \in DOMAIN Providers :
      n > at \/ (n = at /\ pc = "check") => Alike(previous[Providers[n]], health[Providers[n]])

\* Between the notification and its record the operator has heard the truth.
JustHeard ==
  pc = "alerted" =>
    heard[Provider] = IF Failing(health[Provider]) THEN health[Provider].failure ELSE "recovered"

HealthInv == HealthTypes /\ ReadIsPresent /\ JustHeard /\ IncidentHeard

\* One provider's part of IncidentHeard.
Heard(h, said) ==
  /\ Failing(h) /\ h.notified # "none" => said = h.failure
  /\ ~Failing(h) /\ said \in Kinds => h.pending

-----------------------------------------------------------------------------
(* Facts about the sequence of providers                                   *)

LEMMA ProviderFacts ==
  /\ DOMAIN Providers = 1 .. Len(Providers) /\ Len(Providers) \in Nat
  /\ 1 \in DOMAIN Providers
  /\ \A n \in DOMAIN Providers : Providers[n] \in ProviderSet /\ n \in Nat
  /\ \A n \in DOMAIN Providers : n < Len(Providers) => n + 1 \in DOMAIN Providers
<1>1. DOMAIN Providers = 1 .. Len(Providers) /\ Len(Providers) \in Nat
  BY ReminderAssumption
<1>2. Len(Providers) # 0
  BY ReminderAssumption
<1>q. QED
  BY <1>1, <1>2 DEF ProviderSet

LEMMA HealthFacts ==
  /\ NoHealth \in HealthRow
  /\ [p \in ProviderSet |-> NoHealth] \in [ProviderSet -> HealthRow]
  /\ "auth" \in Kinds
  /\ Kinds \cap {"none", "unknown", "nothing", "recovered"} = {}
  /\ \A h \in HealthRow : h.failure \in Kinds \cup {"none", "unknown"}
<1>1. NoHealth \in HealthRow
  BY DEF NoHealth, HealthRow
<1>q. QED
  BY <1>1, ReminderAssumption DEF HealthRow

\* IncidentHeard is a statement about each provider alone.
LEMMA HeardEach ==
  IncidentHeard <=> \A p \in ProviderSet : Heard(health[p], heard[p])
BY DEF IncidentHeard, Heard

\* A check changes what is owed to the operator only in his favour.
LEMMA CheckedHeard ==
  ASSUME NEW g \in HealthRow, NEW h \in HealthRow, Alike(g, h),
         NEW said, Heard(h, said), NEW failure \in Kinds \cup {"none"}
  PROVE  Checked(g, failure) \in HealthRow /\ Heard(Checked(g, failure), said)
<1>1. /\ Checked(g, failure) \in HealthRow
      /\ Checked(g, failure).failure = failure
      /\ Checked(g, failure).notified = IF g.failure = failure THEN g.notified ELSE "none"
      /\ Checked(g, failure).pending = (failure = "none" /\ (Failing(g) \/ g.pending))
  BY DEF Checked, HealthRow, Failing
<1>q. QED
  BY <1>1, HealthFacts DEF Alike, Heard, Failing, HealthRow

-----------------------------------------------------------------------------
(* Steps that change no health row and tell nothing about a provider       *)

HealthAside ==
  /\ UNCHANGED <<health, heard>>
  /\ at' \in DOMAIN Providers
  /\ previous' \in [ProviderSet -> HealthRow]
  /\ \/ pc' \notin Watching
     \/ pc' = pc /\ at' = at /\ previous' = previous
     \/ pc' = "check" /\ previous' = health

LEMMA HealthAsideKeeps == HealthInv /\ HealthAside => HealthInv'
<1> SUFFICES ASSUME HealthInv, HealthAside PROVE HealthInv'
  OBVIOUS
<1> USE DEF HealthInv, HealthAside
<1>1. HealthTypes'
  BY DEF HealthTypes, ProviderSet
<1>2. ReadIsPresent'
  <2>1. CASE pc' \notin Watching
    BY <2>1 DEF ReadIsPresent
  <2>2. CASE pc' = pc /\ at' = at /\ previous' = previous
    BY <2>2 DEF ReadIsPresent, Alike
  <2>3. CASE pc' = "check" /\ previous' = health
    BY <2>3 DEF ReadIsPresent, Alike
  <2>q. QED
    BY <2>1, <2>2, <2>3
<1>3. JustHeard'
  BY DEF JustHeard, Provider, Watching, Failing
<1>4. IncidentHeard'
  BY DEF IncidentHeard, Failing
<1>q. QED
  BY <1>1, <1>2, <1>3, <1>4

LEMMA RestsAside ==
  ASSUME HealthInv, NEW l \in {"idle", "down"}, Rests(l), UNCHANGED <<health, heard>>
  PROVE  HealthAside
BY ProviderFacts, HealthFacts DEF HealthAside, Rests, Goto, Watching

LEMMA StartsAside ==
  ASSUME HealthInv, NEW reason, StartCheck(reason, health), UNCHANGED <<health, heard>>
  PROVE  HealthAside
BY ProviderFacts DEF HealthAside, StartCheck, Goto, HealthInv, HealthTypes

\* What reviewers, scans and time do to rows.
LEMMA RowsAside ==
  ASSUME HealthInv, UNCHANGED <<health, heard, pc, checkVars>>
  PROVE  HealthAside
BY DEF HealthAside, HealthInv, HealthTypes, checkVars

LEMMA TableStepsAside ==
  ASSUME HealthInv, NEW i \in Items,
         \/ SourceChanged(i) \/ ApproveItem(i) \/ RejectItem(i) \/ ArchiveItem(i)
         \/ RestoreItem(i) \/ Ages(i) \/ RetryDue(i)
  PROVE  HealthAside
<1>1. UNCHANGED <<health, heard, pc, checkVars>>
  BY Zenon DEF SourceChanged, ApproveItem, RejectItem, ArchiveItem, RestoreItem, Ages,
               RetryDue, Edit
<1>q. QED
  BY <1>1, RowsAside

\* A cycle begins, is given up, or goes through its rows.
LEMMA CycleStepsAside ==
  ASSUME HealthInv,
         \/ BeginCycle \/ Reconnected \/ Crash \/ Restart \/ ReadDue \/ EndCycle
         \/ \E i \in Items : Resume(i)
  PROVE  HealthAside
<1>1. CASE BeginCycle \/ Reconnected
  BY <1>1, StartsAside DEF BeginCycle, Reconnected
<1>2. CASE Crash \/ EndCycle
  BY <1>2, RestsAside DEF Crash, EndCycle
<1>3. CASE Restart \/ ReadDue
  BY <1>3 DEF Restart, ReadDue, HealthAside, HealthInv, HealthTypes, checkVars, Goto, Watching
<1>4. ASSUME NEW i \in Items, Resume(i) PROVE HealthAside
  BY <1>4, RowsAside DEF Resume
<1>q. QED
  BY <1>1, <1>2, <1>3, <1>4

LEMMA NoticeStepsAside ==
  ASSUME HealthInv, NEW kind \in Audience,
         Notice(kind) \/ NoticeDelivered(kind) \/ NoticeFails(kind) \/ MarkNotified(kind)
  PROVE  HealthAside
<1> USE DEF Audience
<1>1. ASSUME AfterNotice(kind), UNCHANGED <<health, heard>> PROVE HealthAside
  <2>1. CASE kind = "review" \/ ready
    BY <1>1, <2>1 DEF AfterNotice, HealthAside, HealthInv, HealthTypes, checkVars, Goto, Watching
  <2>2. CASE kind # "review" /\ ~ready
    BY <1>1, <2>2, RestsAside DEF AfterNotice
  <2>q. QED
    BY <2>1, <2>2
<1>2. ASSUME NEW l, l \notin Watching, Goto(l), UNCHANGED <<health, heard, checkVars>>
      PROVE  HealthAside
  BY <1>2 DEF HealthAside, HealthInv, HealthTypes, checkVars, Goto
<1>3. CASE Notice(kind)
  BY <1>1, <1>2, <1>3 DEF Notice, Sending, Watching
<1>4. CASE NoticeDelivered(kind)
  BY <1>2, <1>4 DEF NoticeDelivered, Acking, Watching
<1>5. CASE NoticeFails(kind) \/ MarkNotified(kind)
  BY <1>1, <1>5 DEF NoticeFails, MarkNotified
<1>q. QED
  BY <1>3, <1>4, <1>5

LEMMA AttemptsAside ==
  ASSUME HealthInv, NEW i \in Items, Attempt(i) \/ AttemptExact(i)
  PROVE  HealthAside
<1>0. UNCHANGED <<health, heard>>
  BY DEF Attempt, AttemptExact
<1>1. CASE UNCHANGED <<pc, checkVars>>
  BY <1>0, <1>1, RowsAside
<1>2. CASE StartCheck("cycle", health)
  BY <1>0, <1>2, StartsAside
<1>3. CASE Lost(i)
  BY <1>0, <1>3, RestsAside DEF Lost
<1>4. CASE \E n \in DOMAIN Providers : Goto("refused") /\ at' = n /\ UNCHANGED previous
  BY <1>0, <1>4 DEF HealthAside, Goto, Watching, HealthInv, HealthTypes
<1>5. CASE Attempt(i)
  BY <1>1, <1>2, <1>3, <1>4, <1>5, Zenon DEF Attempt
<1>6. CASE AttemptExact(i)
  BY <1>1, <1>3, <1>6, Zenon DEF AttemptExact
<1>q. QED
  BY <1>5, <1>6

-----------------------------------------------------------------------------
(* Steps of a check                                                        *)

\* The check goes on to the next provider, whose health row nobody has written.
LEMMA NextProviderKeeps ==
  ASSUME HealthInv, pc \in {"alert", "alerting", "alerted"}, NextProvider,
         health' \in [ProviderSet -> HealthRow],
         heard' \in [ProviderSet -> Kinds \cup {"nothing", "recovered"}],
         IncidentHeard',
         \A n \in DOMAIN Providers : n > at => health'[Providers[n]] = health[Providers[n]]
  PROVE  HealthInv'
<1> USE ProviderFacts DEF HealthInv
<1>1. CASE at < Len(Providers)
  <2>1. pc' = "check" /\ at' = at + 1 /\ previous' = previous /\ at + 1 \in DOMAIN Providers
    BY <1>1 DEF NextProvider, Goto, HealthTypes
  <2>2. HealthTypes'
    BY <2>1 DEF HealthTypes, ProviderSet
  <2>3. ReadIsPresent'
    BY <2>1 DEF ReadIsPresent, Watching, Alike, HealthTypes
  <2>q. QED
    BY <2>1, <2>2, <2>3 DEF JustHeard
<1>2. CASE ~(at < Len(Providers))
  <2>1. pc' \notin Watching /\ at' \in DOMAIN Providers
        /\ previous' \in [ProviderSet -> HealthRow]
    BY <1>2, HealthFacts DEF NextProvider, Goto, Rests, Watching
  <2>2. HealthTypes'
    BY <2>1 DEF HealthTypes, ProviderSet
  <2>q. QED
    BY <2>1, <2>2 DEF JustHeard, ReadIsPresent, Watching
<1>q. QED
  BY <1>1, <1>2

\* A provider has a result: everything else is as it was read.
LEMMA AfterResultKeeps ==
  ASSUME HealthInv, pc = "check", NEW h \in HealthRow, AfterResult(h),
         health' = [health EXCEPT ![Provider] = h], Heard(h, heard[Provider])
  PROVE  HealthInv'
<1> USE ProviderFacts DEF HealthInv
<1>1. Provider \in ProviderSet
  BY DEF Provider, HealthTypes
<1>2. /\ pc' \in {"alert", "resume"} /\ UNCHANGED <<heard, at>>
      /\ previous' = [previous EXCEPT ![Provider] = NoHealth]
  BY DEF AfterResult, Goto
<1>3. HealthTypes'
  BY <1>1, <1>2, HealthFacts DEF HealthTypes, ProviderSet
<1>4. ReadIsPresent'
  <2>1. \A n \in DOMAIN Providers : n > at => Providers[n] # Provider
    BY ReminderAssumption DEF Provider, HealthTypes
  <2>2. \A n \in DOMAIN Providers : n > at => /\ previous'[Providers[n]] = previous[Providers[n]]
                                              /\ health'[Providers[n]] = health[Providers[n]]
    BY <1>2, <2>1 DEF HealthTypes
  <2>3. \A n \in DOMAIN Providers : n > at => Alike(previous[Providers[n]], health[Providers[n]])
    BY DEF ReadIsPresent, Watching
  <2>q. QED
    BY <1>2, <2>2, <2>3 DEF ReadIsPresent, Alike, HealthTypes
<1>5. IncidentHeard'
  <2>1. \A p \in ProviderSet : Heard(health[p], heard[p])
    BY HeardEach
  <2>2. \A p \in ProviderSet : health'[p] = IF p = Provider THEN h ELSE health[p]
    BY <1>1 DEF HealthTypes
  <2>3. \A p \in ProviderSet : Heard(health'[p], heard'[p])
    BY <1>2, <2>1, <2>2
  <2>q. QED
    BY <2>3 DEF IncidentHeard, Heard, ProviderSet
<1>q. QED
  BY <1>2, <1>3, <1>4, <1>5 DEF JustHeard

LEMMA ResultSteps ==
  ASSUME HealthInv, CheckedRecently \/ Preflight
  PROVE  HealthInv'
<1> USE ProviderFacts DEF HealthInv
<1> DEFINE prior == previous[Provider]
<1>1. /\ pc = "check" /\ Provider \in ProviderSet /\ prior \in HealthRow
      /\ health[Provider] \in HealthRow
  BY DEF CheckedRecently, Preflight, HealthTypes, Provider
<1>2. Alike(prior, health[Provider])
  BY <1>1 DEF ReadIsPresent, Watching, Provider, HealthTypes
<1>3. Heard(health[Provider], heard[Provider])
  BY <1>1, HeardEach
<1>4. CASE CheckedRecently
  <2>1. UNCHANGED <<health, heard, at>> /\ pc' \in {"alert", "resume"}
        /\ previous' = [previous EXCEPT ![Provider] = NoHealth]
    BY <1>4 DEF CheckedRecently, AfterResult, Goto
  <2>2. HealthTypes'
    BY <1>1, <2>1, HealthFacts DEF HealthTypes, ProviderSet
  <2>3. \A n \in DOMAIN Providers : n > at => Providers[n] # Provider
    BY ReminderAssumption DEF Provider, HealthTypes
  <2>4. ReadIsPresent'
    BY <1>1, <2>1, <2>3 DEF ReadIsPresent, Watching, Alike, HealthTypes
  <2>5. IncidentHeard'
    BY <2>1 DEF IncidentHeard, Failing
  <2>q. QED
    BY <2>1, <2>2, <2>4, <2>5 DEF JustHeard
<1>5. CASE Preflight
  <2>1. PICK failure \in Kinds \cup {"none"} :
          LET h == Checked(prior, failure)
          IN health' = [health EXCEPT ![Provider] = h] /\ AfterResult(h)
    BY <1>5 DEF Preflight
  <2>2. Checked(prior, failure) \in HealthRow /\ Heard(Checked(prior, failure), heard[Provider])
    BY <1>1, <1>2, <1>3, CheckedHeard
  <2>q. QED
    BY <1>1, <2>1, <2>2, AfterResultKeeps
<1>q. QED
  BY <1>4, <1>5

\* The bound of an interval passes: the row is as it was otherwise.
LEMMA HealthAgesKeeps ==
  ASSUME HealthInv, NEW p \in ProviderSet, HealthAges(p)
  PROVE  HealthInv'
<1> USE DEF HealthInv
<1>1. UNCHANGED <<heard, pc, at, previous>>
  BY DEF HealthAges, checkVars
<1>a. PICK h \in HealthRow : health' = [health EXCEPT ![p] = h] /\ Alike(health[p], h)
  <2>1. health[p] \in HealthRow
    BY DEF HealthTypes
  <2>2. CASE health' = [health EXCEPT ![p] = [@ EXCEPT !.fresh = FALSE]]
    <3>1. [health[p] EXCEPT !.fresh = FALSE] \in HealthRow
          /\ Alike(health[p], [health[p] EXCEPT !.fresh = FALSE])
      BY <2>1 DEF HealthRow, Alike
    <3>q. QED
      BY <2>2, <3>1
  <2>3. CASE /\ health[p].notified = "recent"
             /\ health' = [health EXCEPT ![p] = [@ EXCEPT !.notified = "old"]]
    <3>1. [health[p] EXCEPT !.notified = "old"] \in HealthRow
          /\ Alike(health[p], [health[p] EXCEPT !.notified = "old"])
      BY <2>1, <2>3 DEF HealthRow, Alike
    <3>q. QED
      BY <2>3, <3>1
  <2>q. QED
    BY <2>2, <2>3 DEF HealthAges
<1>2. health' \in [ProviderSet -> HealthRow]
  BY <1>a DEF HealthTypes
<1>3. \A q \in ProviderSet : Alike(health[q], health'[q])
  BY <1>a DEF HealthTypes, Alike
<1>4. HealthTypes'
  BY <1>1, <1>2 DEF HealthTypes, ProviderSet
<1>5. ReadIsPresent'
  BY <1>1, <1>3, ProviderFacts DEF ReadIsPresent, Alike
<1>6. JustHeard'
  BY <1>1, <1>3, ProviderFacts DEF JustHeard, Provider, Failing, Alike, HealthTypes
<1>7. IncidentHeard'
  BY <1>1, <1>3 DEF IncidentHeard, Failing, Alike, ProviderSet
<1>q. QED
  BY <1>4, <1>5, <1>6, <1>7

\* The notification says what the health row says.
LEMMA HearsKeeps ==
  ASSUME HealthInv, NEW p \in ProviderSet, Hears(p), UNCHANGED health
  PROVE  /\ heard' \in [ProviderSet -> Kinds \cup {"nothing", "recovered"}]
         /\ IncidentHeard'
         /\ heard'[p] = IF Failing(health[p]) THEN health[p].failure ELSE "recovered"
<1> USE DEF HealthInv
<1>1. heard' = [heard EXCEPT ![p] = IF Failing(health[p]) THEN health[p].failure ELSE "recovered"]
  BY DEF Hears
<1>2. heard' \in [ProviderSet -> Kinds \cup {"nothing", "recovered"}]
  BY <1>1 DEF HealthTypes, Failing
<1>3. \A q \in ProviderSet : Heard(health[q], heard'[q])
  BY <1>1, HeardEach, HealthFacts DEF Heard, HealthTypes
<1>q. QED
  BY <1>1, <1>2, <1>3 DEF IncidentHeard, Heard, HealthTypes, Failing

LEMMA AlertSteps ==
  ASSUME HealthInv,
         \/ Alert \/ AlertFails \/ RecordAlert \/ ResumeDone
         \/ \E p \in ProviderSet : AlertDelivered(p)
  PROVE  HealthInv'
<1> USE DEF HealthInv
<1>1. Provider \in ProviderSet
  BY ProviderFacts DEF Provider, HealthTypes
<1>2. ASSUME UNCHANGED <<health, heard>>
      PROVE  /\ health' \in [ProviderSet -> HealthRow]
             /\ heard' \in [ProviderSet -> Kinds \cup {"nothing", "recovered"}]
             /\ IncidentHeard'
  BY <1>2 DEF HealthTypes, IncidentHeard, Failing
<1>3. ASSUME UNCHANGED <<health, heard, checkVars>>, pc' \in {"alert", "alerting"},
             pc \in {"alert", "resume"}
      PROVE  HealthInv'
  <2>1. HealthTypes'
    BY <1>3 DEF HealthTypes, checkVars, ProviderSet
  <2>2. ReadIsPresent'
    BY <1>3, ProviderFacts DEF ReadIsPresent, Watching, checkVars, HealthTypes, Alike
  <2>q. QED
    BY <1>2, <1>3, <2>1, <2>2 DEF JustHeard
<1>4. CASE Alert
  <2>1. CASE AlertDue(health[Provider])
    BY <1>3, <1>4, <2>1 DEF Alert, Goto
  <2>2. CASE ~AlertDue(health[Provider])
    BY <1>2, <1>4, <2>2, NextProviderKeeps DEF Alert
  <2>q. QED
    BY <2>1, <2>2
<1>5. CASE ResumeDone
  BY <1>3, <1>5 DEF ResumeDone, Goto
<1>6. CASE AlertFails
  <2>1. CASE UNCHANGED heard
    BY <1>2, <1>6, <2>1, NextProviderKeeps DEF AlertFails
  <2>2. CASE Hears(Provider)
    BY <1>1, <1>6, <2>2, HearsKeeps, NextProviderKeeps DEF AlertFails, HealthTypes
  <2>q. QED
    BY <1>6, <2>1, <2>2 DEF AlertFails
<1>7. CASE RecordAlert
  <2>1. /\ pc = "alerted" /\ NextProvider /\ UNCHANGED heard
        /\ health' = [health EXCEPT ![Provider] = [@ EXCEPT !.notified = "recent",
                                                            !.pending = FALSE]]
    BY <1>7 DEF RecordAlert
  <2>2. /\ health'[Provider].failure = health[Provider].failure
        /\ health'[Provider].pending = FALSE
        /\ health'[Provider] \in HealthRow
        /\ \A p \in ProviderSet \ {Provider} : health'[p] = health[p]
        /\ health' \in [ProviderSet -> HealthRow]
    <3> DEFINE h == [health[Provider] EXCEPT !.notified = "recent", !.pending = FALSE]
    <3>1. /\ h \in HealthRow /\ h.pending = FALSE
          /\ h.failure = health[Provider].failure
      <4>1. health[Provider] \in HealthRow
        BY <1>1 DEF HealthTypes
      <4>q. QED
        BY <4>1 DEF HealthRow
    <3>2. health' = [health EXCEPT ![Provider] = h]
      BY <2>1
    <3> HIDE DEF h
    <3>q. QED
      BY <1>1, <3>1, <3>2 DEF HealthTypes
  <2>3. IncidentHeard'
    <3>1. \A p \in ProviderSet : Heard(health[p], heard[p])
      BY HeardEach
    <3>2. Heard(health'[Provider], heard'[Provider])
      BY <1>1, <2>1, <2>2, HealthFacts DEF Heard, JustHeard, Failing
    <3>3. \A p \in ProviderSet : Heard(health'[p], heard'[p])
      BY <2>1, <2>2, <3>1, <3>2
    <3>q. QED
      BY <3>3 DEF IncidentHeard, Heard, Failing, ProviderSet
  <2>4. \A n \in DOMAIN Providers : n > at => health'[Providers[n]] = health[Providers[n]]
    BY <2>2, ProviderFacts, ReminderAssumption DEF Provider, HealthTypes
  <2>q. QED
    BY <2>1, <2>2, <2>3, <2>4, NextProviderKeeps DEF HealthTypes
<1>8. ASSUME NEW p \in ProviderSet, AlertDelivered(p) PROVE HealthInv'
  <2>1. /\ pc = "alerting" /\ pc' = "alerted" /\ p = Provider /\ Hears(p)
        /\ UNCHANGED <<health, at, previous>>
    BY <1>8 DEF AlertDelivered, Goto, checkVars
  <2>2. /\ heard' \in [ProviderSet -> Kinds \cup {"nothing", "recovered"}]
        /\ IncidentHeard'
        /\ heard'[p] = IF Failing(health[p]) THEN health[p].failure ELSE "recovered"
    BY <2>1, HearsKeeps
  <2>3. HealthTypes'
    BY <2>1, <2>2 DEF HealthTypes, ProviderSet
  <2>4. ReadIsPresent'
    BY <2>1, ProviderFacts DEF ReadIsPresent, Watching, Alike, HealthTypes
  <2>5. JustHeard'
    BY <2>1, <2>2 DEF JustHeard, Provider, Failing
  <2>q. QED
    BY <2>2, <2>3, <2>4, <2>5
<1>q. QED
  BY <1>4, <1>5, <1>6, <1>7, <1>8

LEMMA RefusedSteps ==
  ASSUME HealthInv, NEW p \in ProviderSet, RecordAuthFailure(p)
  PROVE  HealthInv'
<1> USE DEF HealthInv
<1> DEFINE now == [failure |-> "auth", fresh |-> TRUE, pending |-> FALSE,
                   notified |-> IF health[p].failure = "auth" THEN health[p].notified ELSE "none"]
<1>1. /\ health' = [health EXCEPT ![p] = now] /\ previous' = health'
      /\ pc' = "check" /\ at' = 1 /\ UNCHANGED heard
  BY DEF RecordAuthFailure, StartCheck, Goto
<1>2. now \in HealthRow /\ Heard(now, heard[p])
  BY HealthFacts, HeardEach DEF HealthRow, HealthTypes, Heard, Failing
<1>3. health' \in [ProviderSet -> HealthRow]
  BY <1>1, <1>2 DEF HealthTypes
<1>4. HealthTypes'
  BY <1>1, <1>3, ProviderFacts DEF HealthTypes, ProviderSet
<1>5. ReadIsPresent'
  BY <1>1 DEF ReadIsPresent, Alike
<1>6. IncidentHeard'
  <2>1. \A q \in ProviderSet : Heard(health'[q], heard'[q])
    BY <1>1, <1>2, HeardEach DEF HealthTypes
  <2>q. QED
    BY <2>1 DEF IncidentHeard, Heard, Failing, ProviderSet
<1>q. QED
  BY <1>1, <1>4, <1>5, <1>6 DEF JustHeard

-----------------------------------------------------------------------------
(* The first theorem                                                       *)

LEMMA HealthStarts == Init => HealthInv
<1> SUFFICES ASSUME Init PROVE HealthInv
  OBVIOUS
<1>1. HealthTypes
  BY ProviderFacts, HealthFacts DEF Init, HealthTypes
<1>2. IncidentHeard
  BY HealthFacts DEF Init, IncidentHeard, NoHealth, Failing
<1>q. QED
  BY <1>1, <1>2 DEF Init, HealthInv, ReadIsPresent, JustHeard, Watching

LEMMA HealthSteps == HealthInv /\ [Next]_vars => HealthInv'
<1> SUFFICES ASSUME HealthInv, [Next]_vars PROVE HealthInv'
  OBVIOUS
<1>1. CASE UNCHANGED vars
  BY <1>1, RowsAside, HealthAsideKeeps DEF vars
<1>2. CASE Work
  BY <1>2, CycleStepsAside, NoticeStepsAside, AttemptsAside, HealthAsideKeeps,
     ResultSteps, AlertSteps, RefusedSteps DEF Work
<1>3. CASE BeginCycle \/ Reconnected \/ Crash
  BY <1>3, CycleStepsAside, HealthAsideKeeps
<1>4. CASE \E p \in ProviderSet : HealthAges(p)
  BY <1>4, HealthAgesKeeps
<1>5. CASE \E i \in Items : \/ SourceChanged(i) \/ ApproveItem(i) \/ RejectItem(i)
                            \/ ArchiveItem(i) \/ RestoreItem(i) \/ Ages(i) \/ RetryDue(i)
  BY <1>5, TableStepsAside, HealthAsideKeeps
<1>6. CASE \E i \in Items : AttemptExact(i)
  BY <1>6, AttemptsAside, HealthAsideKeeps
<1>q. QED
  BY <1>1, <1>2, <1>3, <1>4, <1>5, <1>6 DEF Next

\* What the health table says was told, was told; a failure the operator has
\* heard of is still there or its recovery is owed.  The check relies on health
\* rows it has read before its preflights and notifications.
THEOREM ReminderIncidents == Spec => []IncidentHeard
<1>1. HealthInv => IncidentHeard
  BY DEF HealthInv
<1>q. QED
  BY <1>1, HealthStarts, HealthSteps, PTL DEF Spec

-----------------------------------------------------------------------------
(* The inductive invariant of the reminders                                *)

Marks == {"none", "recent", "old"}
Stages == {"none", "source"} \cup ProviderSet
Acks == {"ackReview", "ackError"}

TableTypes ==
  /\ rows \in [Items -> Row]
  /\ stage \in [Items -> Stages]
  /\ mark \in [Items -> Marks]

\* A row comes back to the queue with a failure only to be tried again: the same
\* failure a second time is no new need.
QueuedToRetry ==
  \A i \in Items : rows[i].status = "approved" => rows[i].failure \in {"none", "transient"}

\* Before the acknowledgement: what nobody has written since was told.
JustTold ==
  \A kind \in Audience : pc = Acking(kind) => Counted(kind) \ written \subseteq told

ReminderInv ==
  /\ TableTypes /\ QueuedToRetry
  /\ changed \subseteq written
  /\ JustTold
  /\ AcknowledgedWasTold

\* A row is written; whoever keeps its acknowledgement keeps its need.
LEMMA WriteKeeps ==
  ASSUME ReminderInv, NEW i \in Items, NEW r \in Row, NEW s \in Stages, NEW m \in Marks,
         Write(i, r, s, m),
         r.status = "approved" => r.failure \in {"none", "transient"},
         NeedsAttention(r) /\ m # "none" => i \in told /\ Need(r, s) = Need(rows[i], stage[i]),
         pc' \notin Acks \/ UNCHANGED <<pc, snap, todo>>
  PROVE  ReminderInv'
<1> USE DEF ReminderInv
<1>1. /\ rows' = [rows EXCEPT ![i] = r] /\ stage' = [stage EXCEPT ![i] = s]
      /\ mark' = [mark EXCEPT ![i] = m]
      /\ told \ {i} \subseteq told' /\ (Need(r, s) = Need(rows[i], stage[i]) => told' = told)
  BY DEF Write
<1>2. /\ changed' \subseteq written' /\ written \subseteq written'
      /\ pc \in Reminding => i \in written'
  BY DEF Write
<1>3. TableTypes'
  BY <1>1 DEF TableTypes, Stages, ProviderSet
<1>4. QueuedToRetry'
  BY <1>1 DEF QueuedToRetry, TableTypes
<1>5. JustTold'
  <2>1. CASE pc' \notin Acks
    BY <2>1 DEF JustTold, Audience, Acking, Acks
  <2>2. CASE UNCHANGED <<pc, snap, todo>>
    BY <1>1, <1>2, <2>2 DEF JustTold, Audience, Acking, Counted, Reminding
  <2>q. QED
    BY <2>1, <2>2
<1>6. AcknowledgedWasTold'
  <2>1. ASSUME NEW j \in Items, NeedsAttention(rows[j])', mark'[j] # "none" PROVE j \in told'
    <3>1. CASE j = i
      BY <1>1, <2>1, <3>1 DEF TableTypes, NeedsAttention
    <3>2. CASE j # i
      BY <1>1, <2>1, <3>2 DEF TableTypes, NeedsAttention, AcknowledgedWasTold
    <3>q. QED
      BY <3>1, <3>2
  <2>q. QED
    BY <2>1 DEF AcknowledgedWasTold
<1>q. QED
  BY <1>2, <1>3, <1>4, <1>5, <1>6

\* No row is written: the worker lists, tells or forgets.
LEMMA UnwrittenKeeps ==
  ASSUME ReminderInv, UNCHANGED <<rows, stage, mark>>, told \subseteq told',
         \/ changed' = {} \/ UNCHANGED <<written, changed>>,
         \/ pc' \notin Acks \/ UNCHANGED <<pc, listVars>>
  PROVE  ReminderInv'
<1> USE DEF ReminderInv
<1>1. TableTypes' /\ QueuedToRetry' /\ AcknowledgedWasTold'
  BY DEF TableTypes, Stages, ProviderSet, QueuedToRetry, AcknowledgedWasTold, NeedsAttention
<1>2. JustTold'
  <2>1. CASE pc' \notin Acks
    BY <2>1 DEF JustTold, Audience, Acking, Acks
  <2>2. CASE UNCHANGED <<pc, listVars>>
    BY <2>2 DEF JustTold, Audience, Acking, Counted, listVars
  <2>q. QED
    BY <2>1, <2>2
<1>q. QED
  BY <1>1, <1>2

-----------------------------------------------------------------------------
(* The row steps                                                           *)

LEMMA EditKeeps ==
  ASSUME ReminderInv, NEW i \in Items, NEW r \in Row, NEW s \in Stages, NEW m \in Marks,
         Edit(i, r, s, m),
         r.status = "approved" => r.failure \in {"none", "transient"},
         NeedsAttention(r) => m = "none"
  PROVE  ReminderInv'
BY WriteKeeps DEF Edit

LEMMA TableSteps ==
  ASSUME ReminderInv, NEW i \in Items,
         \/ SourceChanged(i) \/ ApproveItem(i) \/ RejectItem(i) \/ ArchiveItem(i)
         \/ RestoreItem(i)
  PROVE  ReminderInv'
<1> DEFINE r == rows[i]
<1>1. /\ r \in Row /\ stage[i] \in Stages /\ mark[i] \in Marks
      /\ "none" \in Stages /\ "none" \in Marks /\ "none" \in Failure
      /\ r.source \in MaybeRev /\ Revisions \subseteq MaybeRev
  BY DEF ReminderInv, TableTypes, Stages, Marks, Failure, Row, MaybeRev
<1>2. /\ Reject(r).status = "rejected" /\ Archive(r).status = "archived"
      /\ Restore(r).status = "pending_review"
      /\ Approve(r, r.source).failure = "none"
      /\ Reject(r) \in Row /\ Archive(r) \in Row /\ Restore(r) \in Row
      /\ Approve(r, r.source) \in Row
      /\ Approve(r, r.source).status = "approved"
  BY <1>1, RowFields, RowOperations
<1>3. ASSUME NEW rev \in Revisions, rev # r.source
      PROVE  /\ Upserted(r, rev) \in Row
             /\ Upserted(r, rev).status = "pending_review"
  <2>1. Upserted(r, rev) \in Row
    BY <1>1, RowOperations
  <2>2. Settled(r) \in Row /\ NoRow \in Row
    BY <1>1 DEF Settled, NoRow, Row, Status, Failure, MaybeRev
  <2>3. CASE r.status = "absent"
    <3>1. Upserted(r, rev) = [NoRow EXCEPT !.status = "pending_review", !.source = rev]
      BY <2>3 DEF Upserted
    <3>q. QED
      BY <2>1, <2>2, <3>1 DEF Row
  <2>4. CASE r.status # "absent"
    <3>1. Upserted(r, rev) = [Settled(r) EXCEPT !.status = "pending_review", !.source = rev,
                                !.approved = NoRev, !.docRev = NoRev]
      BY <1>3, <2>4 DEF Upserted
    <3>q. QED
      BY <2>1, <2>2, <3>1 DEF Row
  <2>q. QED
    BY <2>3, <2>4
<1> HIDE DEF r
<1>4. CASE SourceChanged(i)
  <2>1. PICK rev \in Revisions \ {r.source} : Edit(i, Upserted(r, rev), "none", "none")
    BY <1>4 DEF SourceChanged, r
  <2>q. QED
    BY <1>1, <1>3, <2>1, EditKeeps
<1>5. CASE ApproveItem(i)
  <2>1. Edit(i, Approve(r, r.source), "none", "none")
    BY <1>5 DEF ApproveItem, r
  <2>q. QED
    BY <1>1, <1>2, <2>1, EditKeeps
<1>6. CASE RejectItem(i)
  <2>1. Edit(i, Reject(r), stage[i], mark[i])
    BY <1>6 DEF RejectItem, r
  <2>q. QED
    BY <1>1, <1>2, <2>1, EditKeeps DEF NeedsAttention
<1>7. CASE ArchiveItem(i)
  <2>1. Edit(i, Archive(r), "none", mark[i])
    BY <1>7 DEF ArchiveItem, r
  <2>q. QED
    BY <1>1, <1>2, <2>1, EditKeeps DEF NeedsAttention
<1>8. CASE RestoreItem(i)
  <2>1. Edit(i, Restore(r), stage[i], "none")
    BY <1>8 DEF RestoreItem, r
  <2>q. QED
    BY <1>1, <1>2, <2>1, EditKeeps
<1>q. QED
  BY <1>4, <1>5, <1>6, <1>7, <1>8

\* Neither time that passes nor a retry that becomes due is a new need.
LEMMA TimeSteps ==
  ASSUME ReminderInv, NEW i \in Items, Ages(i) \/ RetryDue(i)
  PROVE  ReminderInv'
<1> USE DEF ReminderInv
<1>1. UNCHANGED <<stage, told, pc, listVars>>
  BY DEF Ages, RetryDue
<1>2. \A j \in Items : /\ rows'[j].status = rows[j].status
                       /\ rows'[j].failure = rows[j].failure
  <2>1. CASE Ages(i)
    BY <2>1 DEF Ages
  <2>2. CASE RetryDue(i)
    <3>1. rows' = [rows EXCEPT ![i] = [rows[i] EXCEPT !.waiting = FALSE]]
      BY <2>2 DEF RetryDue
    <3>2. /\ [rows[i] EXCEPT !.waiting = FALSE].status = rows[i].status
          /\ [rows[i] EXCEPT !.waiting = FALSE].failure = rows[i].failure
      BY DEF TableTypes, Row
    <3>q. QED
      BY <3>1, <3>2 DEF TableTypes
  <2>q. QED
    BY <2>1, <2>2
<1>3. \A j \in Items : mark'[j] # "none" => mark[j] # "none"
  BY DEF Ages, RetryDue, TableTypes
<1>4. TableTypes'
  <2>1. rows' \in [Items -> Row]
    <3>1. [rows[i] EXCEPT !.waiting = FALSE] \in Row
      <4>1. rows[i] \in Row
        BY DEF TableTypes
      <4>q. QED
        BY <4>1 DEF Row
    <3>q. QED
      BY <3>1 DEF Ages, RetryDue, TableTypes
  <2>2. mark' \in [Items -> Marks]
    BY DEF Ages, RetryDue, TableTypes, Marks
  <2>q. QED
    BY <1>1, <2>1, <2>2 DEF TableTypes, Stages, ProviderSet
<1>5. QueuedToRetry'
  BY <1>2 DEF QueuedToRetry
<1>6. JustTold'
  BY <1>1 DEF JustTold, Audience, Acking, Counted, listVars
<1>7. AcknowledgedWasTold'
  BY <1>1, <1>2, <1>3 DEF AcknowledgedWasTold, NeedsAttention
<1>q. QED
  BY <1>1, <1>4, <1>5, <1>6, <1>7 DEF listVars

-----------------------------------------------------------------------------
(* The worker's steps                                                      *)

\* Where the worker goes when it has nothing to acknowledge.
LEMMA ControlLists ==
  /\ \A l : Rests(l) => changed' = {} /\ pc' = l
  /\ \A reason, h : StartCheck(reason, h) => changed' = {} /\ pc' = "check"
  /\ NextProvider => changed' = {} /\ pc' \in {"check", "idle", "due"}
  /\ \A kind : AfterNotice(kind) => /\ pc' \in {"error", "claim", "idle"}
                                    /\ changed' = {} \/ UNCHANGED <<written, changed>>
<1>1. \A l : Rests(l) => changed' = {} /\ pc' = l
  BY DEF Rests, Unlist, Goto
<1>2. \A reason, h : StartCheck(reason, h) => changed' = {} /\ pc' = "check"
  BY DEF StartCheck, Unlist, Goto
<1>3. NextProvider => changed' = {} /\ pc' \in {"check", "idle", "due"}
  BY <1>1 DEF NextProvider, Unlist, Goto
<1>4. ASSUME NEW kind, AfterNotice(kind)
      PROVE  /\ pc' \in {"error", "claim", "idle"}
             /\ changed' = {} \/ UNCHANGED <<written, changed>>
  BY <1>1, <1>4 DEF AfterNotice, Unlist, Goto, listVars
<1>q. QED
  BY <1>1, <1>2, <1>3, <1>4

LEMMA QuietSteps ==
  ASSUME ReminderInv,
         \/ BeginCycle \/ Reconnected \/ Crash \/ Restart \/ CheckedRecently \/ Preflight
         \/ ResumeDone \/ Alert \/ AlertFails \/ RecordAlert \/ ReadDue \/ EndCycle
         \/ \E p \in ProviderSet : AlertDelivered(p) \/ RecordAuthFailure(p) \/ HealthAges(p)
  PROVE  ReminderInv'
<1>1. UNCHANGED <<rows, stage, mark>> /\ told \subseteq told'
  <2>1. CASE \/ BeginCycle \/ Reconnected \/ Crash \/ Restart \/ ResumeDone \/ Alert
             \/ AlertFails \/ RecordAlert \/ ReadDue \/ EndCycle
    BY <2>1 DEF BeginCycle, Reconnected, Crash, Restart, ResumeDone, Alert,
                AlertFails, RecordAlert, ReadDue, EndCycle, tableVars
  <2>2. CASE CheckedRecently \/ Preflight
    BY <2>2 DEF CheckedRecently, Preflight, AfterResult, tableVars
  <2>3. CASE \E p \in ProviderSet : AlertDelivered(p) \/ RecordAuthFailure(p) \/ HealthAges(p)
    BY <2>3 DEF AlertDelivered, RecordAuthFailure, HealthAges, tableVars
  <2>q. QED
    BY <2>1, <2>2, <2>3
<1>2. /\ changed' = {} \/ UNCHANGED <<written, changed>>
      /\ pc' \notin Acks \/ UNCHANGED <<pc, listVars>>
  <2>1. CASE BeginCycle \/ Reconnected
    BY <2>1, ControlLists DEF BeginCycle, Reconnected, Acks
  <2>2. CASE Crash \/ EndCycle
    BY <2>2, ControlLists DEF Crash, EndCycle, Acks
  <2>3. CASE Restart \/ ReadDue \/ ResumeDone
    BY <2>3 DEF Restart, ReadDue, ResumeDone, Goto, Unlist, Acks, listVars
  <2>4. CASE CheckedRecently \/ Preflight
    BY <2>4 DEF CheckedRecently, Preflight, AfterResult, Goto, Acks, listVars
  <2>5. CASE Alert \/ AlertFails \/ RecordAlert
    BY <2>5, ControlLists DEF Alert, AlertFails, RecordAlert, Goto, Acks, listVars
  <2>6. ASSUME NEW p \in ProviderSet, AlertDelivered(p) \/ HealthAges(p)
        PROVE  /\ changed' = {} \/ UNCHANGED <<written, changed>>
               /\ pc' \notin Acks \/ UNCHANGED <<pc, listVars>>
    BY <2>6 DEF AlertDelivered, HealthAges, Goto, Acks, listVars
  <2>7. ASSUME NEW p \in ProviderSet, RecordAuthFailure(p)
        PROVE  changed' = {} /\ pc' \notin Acks
    BY <2>7, ControlLists DEF RecordAuthFailure, Acks
  <2>q. QED
    BY <2>1, <2>2, <2>3, <2>4, <2>5, <2>6, <2>7
<1>q. QED
  BY <1>1, <1>2, UnwrittenKeeps

\* What is acknowledged was told, and nobody has written it since.
LEMMA NoticeSteps ==
  ASSUME ReminderInv, NEW kind \in Audience,
         Notice(kind) \/ NoticeDelivered(kind) \/ NoticeFails(kind) \/ MarkNotified(kind)
  PROVE  ReminderInv'
<1> USE DEF ReminderInv
<1>1. CASE Notice(kind)
  <2>1. /\ changed' = {} \/ UNCHANGED <<written, changed>>
        /\ pc' \notin Acks
    BY <1>1, ControlLists DEF Notice, Goto, Sending, Acks, listVars
  <2>q. QED
    BY <1>1, <2>1, UnwrittenKeeps DEF Notice, tableVars
<1>2. CASE NoticeFails(kind)
  <2>1. told \subseteq told'
    BY <1>2 DEF NoticeFails, Told
  <2>q. QED
    BY <1>2, <2>1, UnwrittenKeeps, ControlLists DEF NoticeFails, Acks
<1>3. CASE NoticeDelivered(kind)
  <2>1. /\ UNCHANGED <<rows, stage, mark, snap, todo, written, changed>>
        /\ told' = told \cup (Counted(kind) \ changed) /\ pc' = Acking(kind)
    BY <1>3 DEF NoticeDelivered, Told, Goto, listVars
  <2>2. TableTypes' /\ QueuedToRetry' /\ AcknowledgedWasTold'
    BY <2>1 DEF TableTypes, Stages, ProviderSet, QueuedToRetry, AcknowledgedWasTold,
                NeedsAttention
  <2>3. JustTold'
    BY <2>1 DEF JustTold, Audience, Acking, Counted
  <2>q. QED
    BY <2>1, <2>2, <2>3
<1>4. CASE MarkNotified(kind)
  <2>1. /\ UNCHANGED <<rows, stage, told>> /\ pc = Acking(kind)
        /\ mark' = [i \in Items |-> IF i \in Counted(kind) /\ StillCounted(i)
                                    THEN "recent" ELSE mark[i]]
        /\ (pc' \notin Acks /\ changed' = {}) \/ UNCHANGED <<written, changed>>
    BY <1>4, ControlLists DEF MarkNotified, Acks
  <2>2. TableTypes'
    BY <2>1 DEF TableTypes, Stages, Marks, ProviderSet
  <2>3. AcknowledgedWasTold'
    <3>1. \A i \in Items : i \in Counted(kind) /\ StillCounted(i) => i \in told
      BY <2>1 DEF JustTold, StillCounted
    <3>q. QED
      BY <2>1, <3>1 DEF AcknowledgedWasTold, NeedsAttention
  <2>4. JustTold' /\ QueuedToRetry'
    BY <1>4, <2>1, ControlLists DEF JustTold, QueuedToRetry, Acks, Audience, Acking, MarkNotified
  <2>5. changed' \subseteq written'
    BY <1>4, ControlLists DEF MarkNotified
  <2>q. QED
    BY <2>2, <2>3, <2>4, <2>5
<1>q. QED
  BY <1>1, <1>2, <1>3, <1>4

LEMMA ResumeSteps ==
  ASSUME ReminderInv, NEW i \in Items, Resume(i)
  PROVE  ReminderInv'
<1> DEFINE r == rows[i]
<1>1. /\ r \in Row /\ stage[i] \in Stages /\ mark[i] \in Marks
      /\ "none" \in Stages /\ "none" \in Marks /\ "none" \in Failure
      /\ r.source \in MaybeRev /\ Revisions \subseteq MaybeRev
  BY DEF ReminderInv, TableTypes, Stages, Marks, Failure, Row, MaybeRev
<1>2. pc = "resume" /\ pc' = "resume" /\ pc' \notin Acks
  BY DEF Resume, Acks
<1>3. CASE UNCHANGED <<tableVars, written, changed>>
  BY <1>2, <1>3, UnwrittenKeeps DEF tableVars
<1>4. ASSUME NEW rev \in Revisions, rev # r.source, Write(i, Upserted(r, rev), "none", "none")
      PROVE  ReminderInv'
  <2>1. Upserted(r, rev) \in Row
    BY <1>1, RowOperations
  <2>2. Upserted(r, rev).status = "approved" => Upserted(r, rev).failure \in {"none", "transient"}
    BY <1>1, ScanFields DEF ReminderInv, QueuedToRetry
  <2>q. QED
    BY <1>1, <1>2, <1>4, <2>1, <2>2, WriteKeeps
<1>5. CASE Write(i, ResumeAuth(r), "none", "none")
  <2>1. ResumeAuth(r) \in Row /\ ResumeAuth(r).failure = "none"
    BY <1>1, RowOperations, RowFields
  <2>q. QED
    BY <1>1, <1>2, <1>5, <2>1, WriteKeeps
<1>q. QED
  BY <1>3, <1>4, <1>5 DEF Resume

\* The same failure again is the same need; any other is told anew.
LEMMA FailureKeeps ==
  ASSUME ReminderInv, NEW i \in Items, Attemptable(i), NEW s \in Stages, NEW code \in Failure,
         code # "none", FailedAs(i, s, code), pc' \notin Acks
  PROVE  ReminderInv'
<1> DEFINE r == MarkFailure(Claim(rows[i]), code)
           m == MarkAfter(i, s, code)
<1>1. /\ rows[i] \in Row /\ mark[i] \in Marks /\ "none" \in Marks
      /\ Claim(rows[i]) \in Row /\ r \in Row
      /\ r.failure = code /\ r.source = rows[i].source
  <2>1. rows[i] \in Row /\ mark[i] \in Marks /\ rows[i].source \in MaybeRev
    BY DEF ReminderInv, TableTypes, Row
  <2>2. Claim(rows[i]) \in Row /\ Claim(rows[i]).source = rows[i].source
    BY <2>1, RowOperations, RowFields
  <2>q. QED
    BY <2>1, <2>2, RowOperations, RowFields DEF Marks
<1>2. r.status = IF code = "transient" THEN "approved" ELSE "blocked"
  BY <1>1 DEF MarkFailure, Row, Status
<1>3. m \in Marks
  BY <1>1 DEF MarkAfter
<1>4. rows[i].status = "approved"
  BY DEF Attemptable, Claimable, Accepts, AcceptedIn
<1>5. m # "none" => i \in told /\ Need(r, s) = Need(rows[i], stage[i])
  <2>1. SUFFICES ASSUME m # "none" PROVE i \in told /\ Need(r, s) = Need(rows[i], stage[i])
    OBVIOUS
  <2>2. stage[i] = s /\ rows[i].failure = code /\ mark[i] # "none"
    BY <2>1 DEF MarkAfter
  <2>3. code = "transient" /\ NeedsAttention(rows[i])
    BY <1>4, <2>2 DEF ReminderInv, QueuedToRetry, NeedsAttention
  <2>4. i \in told
    BY <2>2, <2>3 DEF ReminderInv, AcknowledgedWasTold
  <2>q. QED
    BY <1>1, <1>2, <1>4, <2>2, <2>3, <2>4 DEF Need, NeedsAttention
<1>6. Write(i, r, s, m)
  BY DEF FailedAs
<1> HIDE DEF r, m
<1>q. QED
  BY <1>1, <1>2, <1>3, <1>5, <1>6, WriteKeeps

LEMMA AttemptSteps ==
  ASSUME ReminderInv, NEW i \in Items, Attempt(i) \/ AttemptExact(i)
  PROVE  ReminderInv'
<1>1. Attemptable(i) /\ pc \notin Acks
  BY DEF Attempt, AttemptExact, Acks
<1>2. /\ rows[i] \in Row /\ stage[i] \in Stages /\ mark[i] \in Marks
      /\ "none" \in Stages /\ "none" \in Failure
  BY DEF ReminderInv, TableTypes, Stages, Failure
<1>3. Claim(rows[i]) \in Row /\ Claim(rows[i]).status = "publishing"
      /\ MarkPublished(Claim(rows[i])) \in Row
      /\ MarkPublished(Claim(rows[i])).status = "published"
  <2>1. Claim(rows[i]) \in Row /\ Claim(rows[i]).status = "publishing" /\ NoRev \in MaybeRev
    BY <1>2, RowOperations, RowFields DEF MaybeRev
  <2>q. QED
    BY <1>2, <2>1, RowOperations, RowFields
<1>4. CASE Write(i, MarkPublished(Claim(rows[i])), "none", mark[i]) /\ pc' \notin Acks
  BY <1>2, <1>3, <1>4, WriteKeeps DEF NeedsAttention
<1>5. CASE Lost(i)
  <2>1. pc' \notin Acks
    BY <1>5, ControlLists DEF Lost, Acks
  <2>2. CASE Write(i, Claim(rows[i]), stage[i], mark[i])
    BY <1>2, <1>3, <2>1, <2>2, WriteKeeps DEF NeedsAttention
  <2>3. ASSUME NEW p \in ProviderSet, FailedAs(i, p, "uncertain") PROVE ReminderInv'
    BY <1>1, <2>1, <2>3, FailureKeeps DEF Stages, Failure
  <2>q. QED
    BY <1>5, <2>2, <2>3 DEF Lost
<1>6. CASE FailedAs(i, "source", "source") /\ pc' \notin Acks
  BY <1>1, <1>6, FailureKeeps DEF Stages, Failure
<1>7. ASSUME NEW p \in ProviderSet, NEW code \in ProviderFailure, FailedAs(i, p, code),
             pc' \notin Acks
      PROVE  ReminderInv'
  BY <1>1, <1>7, FailureKeeps DEF Stages, Failure, ProviderFailure
<1>8. CASE Attempt(i)
  <2>1. ASSUME UNCHANGED pc \/ StartCheck("cycle", health) \/ Goto("refused")
        PROVE  pc' \notin Acks
    BY <1>1, <2>1, ControlLists DEF Goto, Acks
  <2>2. ASSUME NEW n \in DOMAIN Providers, NEW code \in ProviderFailure,
               FailedAs(i, Providers[n], code), Goto("refused") \/ StartCheck("cycle", health)
        PROVE  ReminderInv'
    BY <1>7, <2>1, <2>2, ProviderFacts
  <2>q. QED
    BY <1>4, <1>5, <1>6, <1>8, <2>1, <2>2, Zenon DEF Attempt
<1>9. CASE AttemptExact(i)
  <2>1. UNCHANGED pc => pc' \notin Acks
    BY <1>1
  <2>q. QED
    BY <1>4, <1>5, <1>6, <1>7, <1>9, <2>1, Zenon DEF AttemptExact
<1>q. QED
  BY <1>8, <1>9

-----------------------------------------------------------------------------
(* The second theorem                                                      *)

LEMMA ReminderStarts == Init => ReminderInv
<1> SUFFICES ASSUME Init PROVE ReminderInv
  OBVIOUS
<1>1. NoRow \in Row /\ NoRow.status = "absent"
  BY DEF NoRow, Row, MaybeRev, Status, Failure
<1>2. TableTypes /\ QueuedToRetry /\ AcknowledgedWasTold
  BY <1>1 DEF Init, TableTypes, NoRows, Stages, Marks, QueuedToRetry, AcknowledgedWasTold
<1>q. QED
  BY <1>2 DEF Init, ReminderInv, JustTold, Audience, Acking

LEMMA ReminderSteps == ReminderInv /\ [Next]_vars => ReminderInv'
<1> SUFFICES ASSUME ReminderInv, [Next]_vars PROVE ReminderInv'
  OBVIOUS
<1>1. CASE UNCHANGED vars
  BY <1>1, UnwrittenKeeps DEF vars, tableVars, listVars
<1>2. CASE Work
  BY <1>2, QuietSteps, NoticeSteps, ResumeSteps, AttemptSteps DEF Work
<1>3. CASE \/ BeginCycle \/ Reconnected \/ Crash
           \/ \E p \in ProviderSet : HealthAges(p)
  BY <1>3, QuietSteps
<1>4. CASE \E i \in Items : \/ SourceChanged(i) \/ ApproveItem(i) \/ RejectItem(i)
                            \/ ArchiveItem(i) \/ RestoreItem(i)
  BY <1>4, TableSteps
<1>5. CASE \E i \in Items : Ages(i) \/ RetryDue(i) \/ AttemptExact(i)
  BY <1>5, TimeSteps, AttemptSteps
<1>q. QED
  BY <1>1, <1>2, <1>3, <1>4, <1>5 DEF Next

\* A row is acknowledged only if the operator was told of the need it has now:
\* markNotified writes what was counted and has not been written since, and
\* markFailure keeps an acknowledgement only for the same failure.
THEOREM ReminderAcknowledged == Spec => []AcknowledgedWasTold
<1>1. ReminderInv => AcknowledgedWasTold
  BY DEF ReminderInv
<1>q. QED
  BY <1>1, ReminderStarts, ReminderSteps, PTL DEF Spec
=============================================================================
