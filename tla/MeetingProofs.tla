---------------------------- MODULE MeetingProofs ----------------------------
(* Theorems about MeetingPublication for all values of its constants.       *)
EXTENDS MeetingInvariant, RowProofs, TLAPS

-----------------------------------------------------------------------------
(* Type correctness                                                         *)

\* A worker that forgets its job is typed, whatever happens to the rows.
LEMMA ResetTypes ==
  ASSUME TypeInv, NEW w \in Workers, NEW at \in {"down", "idle", "health", "claim"},
         Reset(w, at), UNCHANGED <<fileVars, providerVars, reviewVars>>,
         rows' \in [Items -> Row]
  PROVE  TypeOK' /\ Local'
<1>1. NoRow \in Row
  BY DEF NoRow, Row, MaybeRev, Status, Failure
<1>2. TypeOK'
  BY <1>1 DEF TypeInv, TypeOK, Reset, fileVars, providerVars, reviewVars, WorkerPc,
     Scanning, MaybeRev, Failure
<1>3. Local'
  BY DEF TypeInv, TypeOK, Local, Reset, fileVars, providerVars, reviewVars, Holds,
     Publishing, Waiting, Rev
<1>q. QED
  BY <1>2, <1>3

LEMMA ScanTypes ==
  ASSUME TypeInv, NEW w \in Workers
  PROVE  /\ BeginCycle(w) => TypeInv'
         /\ ScanArchive(w) => TypeInv'
         /\ (\E i \in Items : ScanUpsert(w, i)) => TypeInv'
         /\ ScanDone(w) => TypeInv'
<1> USE DEF TypeInv
<1>1. ASSUME BeginCycle(w) PROVE TypeInv'
  <2>1. TypeOK'
    BY <1>1 DEF BeginCycle, TypeOK, fileVars, providerVars, reviewVars, WorkerPc, Scanning
  <2>2. Local'
    BY <1>1 DEF BeginCycle, TypeOK, Local, fileVars, providerVars, reviewVars, WorkerPc, Holds, Publishing, Waiting, Rev, MaybeRev
  <2>3. (\A i \in Items : RowSane(rows[i]))'
    BY <1>1 DEF BeginCycle
  <2>q. QED BY <2>1, <2>2, <2>3
<1>2. ASSUME ScanArchive(w) PROVE TypeInv'
  <2>0. PICK X \in SUBSET {i \in Items : seen[w][i] = NoRev} :
       rows' = [i \in Items |-> IF i \in X THEN ArchivedByScan(rows[i])
                                                  ELSE rows[i]]
    BY <1>2 DEF ScanArchive
  <2>1. TypeOK'
    <3>1. rows' \in [Items -> Row]
      BY <2>0, RowOperations DEF TypeOK, MaybeRev, Failure
    <3>2. QED
      BY <1>2, <3>1 DEF ScanArchive, TypeOK, fileVars, providerVars, reviewVars, WorkerPc, Scanning
  <2>2. Local'
    BY <1>2 DEF ScanArchive, TypeOK, Local, fileVars, providerVars, reviewVars, WorkerPc, Holds, Publishing, Waiting, Rev, MaybeRev
  <2>3. (\A i \in Items : RowSane(rows[i]))'
    BY <2>0, SaneOperations DEF TypeOK, MaybeRev, Failure
  <2>q. QED BY <2>1, <2>2, <2>3
<1>3. ASSUME NEW i \in Items, ScanUpsert(w, i) PROVE TypeInv'
  <2>0. Upserted(rows[i], seen[w][i]) \in Row /\ RowSane(Upserted(rows[i], seen[w][i]))
    BY RowOperations, SaneOperations DEF TypeOK, Failure
  <2>1. TypeOK'
    BY <1>3, <2>0 DEF ScanUpsert, UpdateRow, TypeOK, fileVars, providerVars, reviewVars
  <2>2. Local'
    BY <1>3 DEF ScanUpsert, TypeOK, Local, fileVars, providerVars, reviewVars, Holds, Rev
  <2>3. (\A j \in Items : RowSane(rows[j]))'
    BY <1>3, <2>0 DEF ScanUpsert, UpdateRow, TypeOK
  <2>q. QED BY <2>1, <2>2, <2>3
<1>4. ASSUME ScanDone(w) PROVE TypeInv'
  <2>1. /\ rows' = rows /\ Reset(w, "health")
        /\ UNCHANGED <<fileVars, providerVars, reviewVars>>
    BY <1>4 DEF ScanDone
  <2>q. QED
    BY <2>1, ResetTypes DEF TypeOK
<1>q. QED
  BY <1>1, <1>2, <1>3, <1>4

LEMMA CycleTypes ==
  ASSUME TypeInv, NEW w \in Workers
  PROVE  /\ Refused(w) \/ EndCycle(w) \/ NothingExact(w) \/ Crash(w) => TypeInv'
         /\ Restart(w) \/ HealthChecked(w) => TypeInv'
         /\ (\E i \in Items : SelectBlocked(w, i) \/ BeginExact(w, i)) => TypeInv'
         /\ ResumeBlocked(w) => TypeInv'
<1> USE DEF TypeInv
<1>1. ASSUME Refused(w) \/ EndCycle(w) \/ NothingExact(w) \/ Crash(w) PROVE TypeInv'
  <2>1. /\ rows' = rows /\ UNCHANGED <<fileVars, providerVars, reviewVars>>
        /\ Reset(w, "down") \/ Reset(w, "idle")
    BY <1>1 DEF Refused, EndCycle, NothingExact, Crash
  <2>q. QED
    BY <2>1, ResetTypes DEF TypeOK
<1>2. ASSUME Restart(w) \/ HealthChecked(w) PROVE TypeInv'
  <2>1. TypeOK'
    BY <1>2 DEF Restart, HealthChecked, TypeOK, fileVars, providerVars, reviewVars,
       WorkerPc, Scanning
  <2>2. Local'
    <3>1. PICK at \in {"idle", "claim"} : pc' = [pc EXCEPT ![w] = at]
      BY <1>2 DEF Restart, HealthChecked
    <3>2. UNCHANGED <<seen, todo, job, claim, reviewVars>>
      BY <1>2 DEF Restart, HealthChecked
    <3>q. QED
      BY <3>1, <3>2 DEF TypeOK, Local, reviewVars, Holds, Publishing, Waiting, Rev
  <2>3. (\A j \in Items : RowSane(rows[j]))'
    BY <1>2 DEF Restart, HealthChecked
  <2>q. QED
    BY <2>1, <2>2, <2>3
<1>3. ASSUME NEW i \in Items, SelectBlocked(w, i) \/ BeginExact(w, i) PROVE TypeInv'
  <2>0. seen' \in [Workers -> [Items -> MaybeRev]]
    <3>1. [j \in Items |-> IF j = i THEN note[i] ELSE NoRev] \in [Items -> MaybeRev]
      BY DEF TypeOK, MaybeRev
    <3>q. QED
      BY <1>3, <3>1 DEF SelectBlocked, BeginExact, TypeOK
  <2>1. TypeOK'
    <3>1. CASE SelectBlocked(w, i)
      BY <2>0, <3>1 DEF SelectBlocked, TypeOK, fileVars, providerVars, reviewVars,
         WorkerPc, Scanning
    <3>2. CASE BeginExact(w, i)
      BY <2>0, <3>2 DEF BeginExact, TypeOK, fileVars, providerVars, reviewVars,
         WorkerPc, Scanning
    <3>q. QED
      BY <1>3, <3>1, <3>2
  <2>2. note[i] \in Revisions
    BY <1>3 DEF SelectBlocked, BeginExact, TypeOK, MaybeRev, RowSane
  <2>3. Local'
    BY <1>3, <2>2 DEF SelectBlocked, BeginExact, TypeOK, Local, fileVars, providerVars,
       reviewVars, Holds, Publishing, Waiting, Rev
  <2>4. (\A j \in Items : RowSane(rows[j]))'
    BY <1>3 DEF SelectBlocked, BeginExact
  <2>q. QED
    BY <2>1, <2>3, <2>4
<1>4. ASSUME ResumeBlocked(w) PROVE TypeInv'
  <2> DEFINE i == job[w]
  <2>1. i \in Items /\ rows[i] \in Row /\ RowSane(rows[i]) /\ seen[w][i] \in MaybeRev
    BY <1>4 DEF ResumeBlocked, TypeOK, Local, MaybeRev
  <2>2. /\ Upserted(rows[i], seen[w][i]) \in Row
        /\ RowSane(Upserted(rows[i], seen[w][i]))
        /\ ResumeAuth(rows[i]) \in Row
        /\ Resumable(rows[i], claim[w]) => RowSane(ResumeAuth(rows[i]))
    BY <2>1, RowOperations, SaneOperations DEF Failure, Resumable
  <2>3. \/ rows' = [rows EXCEPT ![i] = Upserted(rows[i], seen[w][i])]
        \/ /\ rows' = [rows EXCEPT ![i] = ResumeAuth(rows[i])]
           /\ Resumable(rows[i], claim[w])
        \/ rows' = rows
    BY <1>4 DEF ResumeBlocked, UpdateRow
  <2>4. rows' \in [Items -> Row] /\ (\A j \in Items : RowSane(rows[j]))'
    BY <2>1, <2>2, <2>3 DEF TypeOK
  <2>5. Reset(w, "health") /\ UNCHANGED <<fileVars, providerVars, reviewVars>>
    BY <1>4 DEF ResumeBlocked
  <2>q. QED
    BY <2>4, <2>5, ResetTypes
<1>q. QED
  BY <1>1, <1>2, <1>3, <1>4

LEMMA ClaimTypes ==
  ASSUME TypeInv, NEW w \in Workers,
         (\E i \in Items : ClaimNext(w, i)) \/ ClaimExact(w)
  PROVE  TypeInv'
<1> USE DEF TypeInv
<1>1. PICK i \in Items : TakeClaim(w, i) /\ MayWrite
                         /\ seen' \in [Workers -> [Items -> MaybeRev]]
                         /\ \A x \in Workers \ {w} : seen'[x] = seen[x]
  <2>1. ASSUME NEW i \in Items, ClaimNext(w, i)
        PROVE  /\ TakeClaim(w, i) /\ MayWrite
               /\ seen' \in [Workers -> [Items -> MaybeRev]]
               /\ \A x \in Workers \ {w} : seen'[x] = seen[x]
    BY <2>1 DEF ClaimNext, TypeOK
  <2>2. ASSUME ClaimExact(w)
        PROVE  /\ job[w] \in Items /\ TakeClaim(w, job[w]) /\ MayWrite
               /\ seen' \in [Workers -> [Items -> MaybeRev]]
               /\ \A x \in Workers \ {w} : seen'[x] = seen[x]
    <3>1. [j \in Items |-> NoRev] \in [Items -> MaybeRev]
      BY DEF MaybeRev
    <3>2. job[w] \in Items
      BY <2>2 DEF ClaimExact, Local
    <3>q. QED
      BY <2>2, <3>1, <3>2 DEF ClaimExact, TypeOK
  <2>q. QED
    BY <2>1, <2>2
<1>2. /\ rows[i] \in Row /\ RowSane(rows[i]) /\ rows[i].status = "approved"
      /\ rows[i].failure # "uncertain"
  BY <1>1 DEF TakeClaim, Claimable, Accepts, AcceptedIn, TypeOK, MayWrite,
     NoUncertainty, Uncertain
<1>3. /\ Claim(rows[i]) \in Row /\ RowSane(Claim(rows[i]))
      /\ Claim(rows[i]).approved \in Revisions
  <2>1. rows[i].approved # NoRev /\ rows[i].approved \in MaybeRev
    BY <1>2 DEF RowSane, Row
  <2>q. QED
    BY <1>2, <2>1, RowOperations, SaneOperations, RowFields DEF MaybeRev, Failure
<1>4. TypeOK'
  BY <1>1, <1>3 DEF TakeClaim, UpdateRow, TypeOK, fileVars, providerVars, reviewVars,
     WorkerPc, Publishing
<1>5. Local'
  BY <1>1, <1>3 DEF TakeClaim, TypeOK, Local, fileVars, providerVars, reviewVars,
     Holds, Publishing, Waiting, Rev
<1>6. (\A j \in Items : RowSane(rows[j]))'
  BY <1>1, <1>2, <1>3 DEF TakeClaim, UpdateRow, TypeOK
<1>q. QED
  BY <1>4, <1>5, <1>6

\* The worker moves on under its claim, sends a request, or fails.
LEMMA MoveTypes ==
  ASSUME TypeInv, NEW w \in Workers,
         ReadNote(w) \/ EnterProvider(w) \/ ReadFails(w) \/ LookedUp(w)
           \/ WriteCreated(w) \/ ShareWritten(w) \/ Announce(w) \/ GiveUp(w)
  PROVE  TypeInv'
<1> USE DEF TypeInv
<1>1. /\ Holds(w)
      /\ UNCHANGED <<fileVars, rows, drive, channel, seen, todo, job, claim, reviewVars>>
  BY DEF ReadNote, EnterProvider, ReadFails, LookedUp, WriteCreated, ShareWritten,
     Announce, GiveUp, Holds, Publishing, Waiting, OnlyMoves, Send, providerVars
<1>2. PICK next \in Publishing : pc' = [pc EXCEPT ![w] = next]
  BY DEF ReadNote, EnterProvider, ReadFails, LookedUp, WriteCreated, ShareWritten,
     Announce, GiveUp, Publishing, Waiting, Send, Goto, Fail
<1>3. outcome' \in [Workers -> Failure]
  BY DEF ReadNote, EnterProvider, ReadFails, LookedUp, WriteCreated, ShareWritten,
     Announce, GiveUp, Send, Fail, TypeOK, Failure
<1>4. wire' \subseteq Request
  <2>1. \A kind \in Waiting : RequestOf(w, kind) \in Request
    BY <1>1 DEF RequestOf, Request, Local, TypeOK, Row
  <2>2. wire' = wire \/ \E kind \in Waiting : wire' = wire \cup {RequestOf(w, kind)}
    BY DEF ReadNote, EnterProvider, ReadFails, LookedUp, WriteCreated, ShareWritten,
       Announce, GiveUp, Send, OnlyMoves, providerVars, Waiting
  <2>q. QED
    BY <2>1, <2>2 DEF TypeOK
<1>5. TypeOK'
  BY <1>1, <1>2, <1>3, <1>4 DEF TypeOK, fileVars, reviewVars, WorkerPc
<1>6. Local'
  BY <1>1, <1>2 DEF Local, TypeOK, fileVars, reviewVars, Holds, Rev, Publishing, Waiting
<1>7. (\A j \in Items : RowSane(rows[j]))'
  BY <1>1
<1>q. QED
  BY <1>5, <1>6, <1>7

\* The worker records a checkpoint, the publication or the failure.
LEMMA RecordTypes ==
  ASSUME TypeInv, NEW w \in Workers,
         LostClaim(w) \/ RecordGoogle(w) \/ RecordDiscord(w) \/ Publish(w)
           \/ RecordFailure(w)
  PROVE  TypeInv'
<1> USE DEF TypeInv
<1> DEFINE i == job[w]
<1>1. CASE LostClaim(w)
  BY <1>1, ResetTypes DEF LostClaim, TypeOK
<1>2. CASE RecordGoogle(w) \/ RecordDiscord(w)
  <2>1. /\ i \in Items /\ rows[i] \in Row /\ RowSane(rows[i])
        /\ rows[i].status # "absent"
    BY <1>2 DEF RecordGoogle, RecordDiscord, Local, TypeOK, Holds, Publishing, ClaimValid
  <2>2. PICK r \in {RecordDoc(rows[i]), RecordMessage(rows[i])} : rows' = [rows EXCEPT ![i] = r]
    BY <1>2 DEF RecordGoogle, RecordDiscord, UpdateRow
  <2>3. r \in Row /\ RowSane(r)
    <3>1. NoRev \in MaybeRev /\ "none" \in Failure
      BY DEF MaybeRev, Failure
    <3>q. QED
      BY <2>1, <2>2, <3>1, RowOperations, SaneOperations
  <2>4. PICK next \in {"discord", "publish"} : pc' = [pc EXCEPT ![w] = next]
    BY <1>2 DEF RecordGoogle, RecordDiscord, Goto
  <2>5. Holds(w) /\ UNCHANGED <<fileVars, providerVars, seen, todo, job, claim, outcome, reviewVars>>
    BY <1>2 DEF RecordGoogle, RecordDiscord, Holds, Publishing
  <2>6. TypeOK'
    BY <2>1, <2>2, <2>3, <2>4, <2>5 DEF TypeOK, fileVars, providerVars, reviewVars,
       WorkerPc, Publishing
  <2>7. Local'
    BY <2>4, <2>5 DEF Local, TypeOK, fileVars, providerVars, reviewVars, Holds,
       Publishing, Waiting, Rev
  <2>8. (\A j \in Items : RowSane(rows[j]))'
    BY <2>1, <2>2, <2>3 DEF TypeOK
  <2>q. QED
    BY <2>6, <2>7, <2>8
<1>3. CASE Publish(w) \/ RecordFailure(w)
  <2>1. i \in Items /\ rows[i] \in Row /\ RowSane(rows[i]) /\ outcome[w] \in Failure
    BY <1>3 DEF Publish, RecordFailure, Local, TypeOK, Holds, Publishing
  <2>2. rows[i].approved # NoRev
    BY <1>3, <2>1 DEF Publish, RecordFailure, ClaimValid
  <2>3. PICK r \in {MarkPublished(rows[i]), MarkFailure(rows[i], outcome[w])} :
          rows' = [rows EXCEPT ![i] = r]
    BY <1>3 DEF Publish, RecordFailure, UpdateRow
  <2>4. r \in Row /\ RowSane(r)
    <3>1. NoRev \in MaybeRev
      BY DEF MaybeRev
    <3>q. QED
      BY <2>1, <2>2, <2>3, <3>1, RowOperations, SaneOperations
  <2>5. rows' \in [Items -> Row] /\ (\A j \in Items : RowSane(rows[j]))'
    BY <2>1, <2>3, <2>4 DEF TypeOK
  <2>6. PICK at \in {"down", "idle", "health", "claim"} : Reset(w, at)
    BY <1>3 DEF Publish, RecordFailure
  <2>7. UNCHANGED <<fileVars, providerVars, reviewVars>>
    BY <1>3 DEF Publish, RecordFailure
  <2>q. QED
    BY <2>5, <2>6, <2>7, ResetTypes
<1>q. QED
  BY <1>1, <1>2, <1>3

\* A provider applies or refuses a request.
LEMMA ProviderTypes ==
  ASSUME TypeInv, NEW q \in wire, Apply(q) \/ Refuse(q)
  PROVE  TypeInv'
<1> USE DEF TypeInv
<1>1. /\ q.worker \in Workers /\ q.kind \in Waiting /\ q.item \in Items /\ q.rev \in Revisions
      /\ drive[q.item] \in Drive /\ channel[q.item] \in Channel
  BY DEF TypeOK, Request
<1>2. /\ UNCHANGED <<fileVars, rows, seen, todo, job, claim, reviewVars>>
      /\ wire' \subseteq Request
      /\ outcome' \in [Workers -> Failure]
  BY DEF Apply, Refuse, Fail, TypeOK, Failure
<1>3. pc' = pc \/ (Awaits(q) /\ \E next \in Publishing : pc' = [pc EXCEPT ![q.worker] = next])
  BY <1>1 DEF Apply, Refuse, Fail, Goto, Publishing, Replied, Waiting
<1>4. drive' \in [Items -> Drive] /\ channel' \in [Items -> Channel]
  <2>1. CASE Refuse(q)
    BY <2>1 DEF Refuse, TypeOK
  <2>2. CASE Apply(q)
    <3>1. Effect(q)
      BY <2>2 DEF Apply
    <3>2. CASE q.kind = "create"
      <4>1. drive' = [drive EXCEPT ![q.item].copies = drive[q.item].copies + 1] /\ channel' = channel
        BY <3>1, <3>2 DEF Effect
      <4>2. \A n \in Nat : [drive EXCEPT ![q.item].copies = n] \in [Items -> Drive]
        BY <1>1 DEF TypeOK, Drive
      <4>3. drive[q.item].copies + 1 \in Nat
        BY <1>1 DEF Drive
      <4>q. QED
        BY <4>1, <4>2, <4>3, Zenon DEF TypeOK
    <3>3. CASE q.kind = "write"
      <4>1. drive' = [drive EXCEPT ![q.item].text = q.rev] /\ channel' = channel
        BY <3>1, <3>3 DEF Effect
      <4>q. QED
        BY <1>1, <4>1 DEF TypeOK, Drive, MaybeRev
    <3>4. CASE q.kind = "share"
      <4>1. drive' = [drive EXCEPT ![q.item].shared = TRUE] /\ channel' = channel
        BY <3>1, <3>4 DEF Effect
      <4>q. QED
        BY <1>1, <4>1 DEF TypeOK, Drive
    <3>5. CASE q.kind = "post"
      <4>1. /\ channel' = [channel EXCEPT ![q.item] = [copies |-> channel[q.item].copies + 1, text |-> q.rev]]
            /\ drive' = drive
        BY <3>1, <3>5 DEF Effect
      <4>2. \A n \in Nat : [channel EXCEPT ![q.item] = [copies |-> n, text |-> q.rev]] \in [Items -> Channel]
        BY <1>1 DEF TypeOK, Channel, MaybeRev
      <4>3. channel[q.item].copies + 1 \in Nat
        BY <1>1 DEF Channel
      <4>q. QED
        BY <4>1, <4>2, <4>3, Zenon DEF TypeOK
    <3>6. CASE q.kind = "edit"
      <4>1. channel' = [channel EXCEPT ![q.item].text = q.rev] /\ drive' = drive
        BY <3>1, <3>6 DEF Effect
      <4>q. QED
        BY <1>1, <4>1 DEF TypeOK, Channel, MaybeRev
    <3>q. QED
      BY <1>1, <3>2, <3>3, <3>4, <3>5, <3>6 DEF Waiting
  <2>q. QED
    BY <2>1, <2>2
<1>5. TypeOK'
  <2>1. pc' \in [Workers -> WorkerPc]
    BY <1>1, <1>3 DEF TypeOK, WorkerPc
  <2>q. QED
    BY <1>2, <1>4, <2>1 DEF TypeOK, fileVars, reviewVars
<1>6. Local'
  BY <1>1, <1>2, <1>3 DEF Local, TypeOK, fileVars, reviewVars, Holds, Rev, Publishing,
     Waiting, Awaits
<1>7. (\A j \in Items : RowSane(rows[j]))'
  BY <1>2
<1>q. QED
  BY <1>5, <1>6, <1>7

\* A review request refreshes and decides on a row, or edits the note.
LEMMA ReviewTypes ==
  ASSUME TypeInv, NEW r \in Reviewers, Review(r)
  PROVE  TypeInv'
<1> USE DEF TypeInv
<1>0. NoForm \in Form
  BY DEF NoForm, Form, Operation, MaybeRev
<1>1. ASSUME NEW i \in Items, BeginReview(r, i) PROVE TypeInv'
  <2>1. note[i] \in Revisions
    BY <1>1 DEF BeginReview, TypeOK, MaybeRev
  <2>2. PICK op \in Operation, rev \in Revisions :
          form' = [form EXCEPT ![r] = [item |-> i, op |-> op, rev |-> rev, note |-> note[i]]]
    BY <1>1 DEF BeginReview
  <2>3. [item |-> i, op |-> op, rev |-> rev, note |-> note[i]] \in Form
    BY <2>1 DEF Form, MaybeRev
  <2>4. TypeOK'
    BY <1>1, <2>2, <2>3 DEF BeginReview, TypeOK, fileVars, providerVars, workerVars, ReviewPc
  <2>5. Local'
    BY <1>1, <2>1, <2>2 DEF BeginReview, Local, TypeOK, workerVars, Holds, Rev
  <2>6. (\A j \in Items : RowSane(rows[j]))'
    BY <1>1 DEF BeginReview
  <2>q. QED
    BY <2>4, <2>5, <2>6
<1>2. ASSUME RefreshRow(r) \/ CommitNote(r) \/ Decide(r) PROVE TypeInv'
  <2> DEFINE i == form[r].item
             row == rows[i]
             rev == form[r].rev
  <2>1. /\ i \in Items /\ rev \in Revisions /\ form[r].note \in Revisions
        /\ row \in Row /\ RowSane(row)
    BY <1>2 DEF RefreshRow, CommitNote, Decide, Local, TypeOK
  <2>2. /\ Upserted(row, form[r].note) \in Row /\ RowSane(Upserted(row, form[r].note))
        /\ Approve(row, rev) \in Row
        /\ row.source = rev => RowSane(Approve(row, rev))
        /\ Reject(row) \in Row
        /\ row.failure # "uncertain" => RowSane(Reject(row))
        /\ Archive(row) \in Row /\ RowSane(Archive(row))
    <3>1. form[r].note \in MaybeRev /\ rev \in MaybeRev /\ "none" \in Failure /\ rev # NoRev
      BY <2>1, RevisionAssumption DEF MaybeRev, Failure
    <3>q. QED
      BY <2>1, <3>1, RowOperations, SaneOperations
  <2>3. PICK new \in Row : RowSane(new) /\ rows' = [rows EXCEPT ![i] = new]
    <3>1. CASE RefreshRow(r) \/ CommitNote(r)
      BY <2>2, <3>1 DEF RefreshRow, CommitNote, UpdateRow
    <3>2. CASE Decide(r)
      <4>1. row.failure # "uncertain"
        BY <2>1, <3>2 DEF Decide, MayWrite, NoUncertainty, Uncertain
      <4>q. QED
        BY <2>2, <3>2, <4>1 DEF Decide, UpdateRow
    <3>q. QED
      BY <1>2, <3>1, <3>2
  <2>4. PICK next \in ReviewPc : rpc' = [rpc EXCEPT ![r] = next]
    BY <1>2 DEF RefreshRow, CommitNote, Decide, EndReview, ReviewPc
  <2>5. form' = form \/ (next = "idle" /\ form' = [form EXCEPT ![r] = NoForm])
    BY <1>2, <2>4 DEF RefreshRow, CommitNote, Decide, EndReview, TypeOK
  <2>6. rpc[r] # "idle" /\ UNCHANGED <<fileVars, providerVars, workerVars>>
    BY <1>2 DEF RefreshRow, CommitNote, Decide
  <2>7. everApproved' \subseteq Items \X Revisions
    BY <1>2, <2>1 DEF RefreshRow, CommitNote, Decide, TypeOK
  <2>8. rows' \in [Items -> Row] /\ (\A j \in Items : RowSane(rows[j]))'
    BY <2>1, <2>3 DEF TypeOK
  <2>9. TypeOK'
    BY <1>0, <2>4, <2>5, <2>6, <2>7, <2>8 DEF TypeOK, fileVars, providerVars, workerVars
  <2>10. Local'
    BY <2>4, <2>5, <2>6 DEF Local, TypeOK, workerVars, Holds, Rev
  <2>q. QED
    BY <2>8, <2>9, <2>10
<1>3. ASSUME ReplaceNote(r) PROVE TypeInv'
  <2>1. /\ form[r] \in Form /\ form[r].item \in Items /\ form[r].rev \in Revisions
    BY <1>3 DEF ReplaceNote, Local, TypeOK
  <2>2. PICK rev \in Revisions : /\ note' = [note EXCEPT ![form[r].item] = rev]
                                 /\ form' = [form EXCEPT ![r].note = rev]
    BY <1>3 DEF ReplaceNote
  <2>3. form' \in [Reviewers -> Form] /\ note' \in [Items -> MaybeRev]
    BY <2>1, <2>2 DEF TypeOK, Form, MaybeRev
  <2>4. TypeOK'
    BY <1>3, <2>3 DEF ReplaceNote, TypeOK, providerVars, workerVars, ReviewPc
  <2>5. Local'
    BY <1>3, <2>1, <2>2 DEF ReplaceNote, Local, TypeOK, workerVars, Holds, Rev, Form
  <2>6. (\A j \in Items : RowSane(rows[j]))'
    BY <1>3 DEF ReplaceNote
  <2>q. QED
    BY <2>4, <2>5, <2>6
<1>4. ASSUME AbortReview(r) PROVE TypeInv'
  <2>1. TypeOK'
    BY <1>0, <1>4 DEF AbortReview, EndReview, TypeOK, fileVars, providerVars, workerVars, ReviewPc
  <2>2. Local'
    BY <1>4 DEF AbortReview, EndReview, Local, TypeOK, workerVars, Holds, Rev
  <2>3. (\A j \in Items : RowSane(rows[j]))'
    BY <1>4 DEF AbortReview
  <2>q. QED
    BY <2>1, <2>2, <2>3
<1>q. QED
  BY <1>1, <1>2, <1>3, <1>4 DEF Review

\* A note is edited, time passes, or an archived item is restored.
LEMMA EnvironmentTypes ==
  ASSUME TypeInv, NEW i \in Items,
         EditNote(i) \/ RetryDue(i) \/ LeaseExpires(i) \/ RestoreItem(i)
  PROVE  TypeInv'
<1> USE DEF TypeInv
<1>1. CASE EditNote(i)
  <2>1. TypeOK'
    BY <1>1 DEF EditNote, TypeOK, providerVars, workerVars, reviewVars
  <2>2. Local'
    BY <1>1 DEF EditNote, Local, TypeOK, workerVars, reviewVars, Holds, Rev
  <2>q. QED
    BY <1>1, <2>1, <2>2 DEF EditNote
<1>2. CASE RetryDue(i) \/ LeaseExpires(i) \/ RestoreItem(i)
  <2>1. rows[i] \in Row /\ RowSane(rows[i])
    BY DEF TypeOK
  <2>2. PICK new \in Row : RowSane(new) /\ rows' = [rows EXCEPT ![i] = new]
    <3>1. CASE RestoreItem(i)
      <4>1. NoRev \in MaybeRev /\ "none" \in Failure
        BY DEF MaybeRev, Failure
      <4>2. rows[i].failure # "uncertain"
        BY <3>1 DEF RestoreItem, MayWrite, NoUncertainty, Uncertain
      <4>3. Restore(rows[i]) \in Row /\ RowSane(Restore(rows[i]))
        BY <2>1, <4>1, <4>2, RowOperations, SaneOperations
      <4>q. QED
        BY <3>1, <4>3 DEF RestoreItem, UpdateRow
    <3>2. CASE RetryDue(i) \/ LeaseExpires(i)
      <4>1. \A s \in {[rows[i] EXCEPT !.waiting = FALSE], [rows[i] EXCEPT !.lease = "expired"]} :
              s \in Row /\ RowSane(s)
        <5>1. /\ [rows[i] EXCEPT !.waiting = FALSE] \in Row
              /\ [rows[i] EXCEPT !.lease = "expired"] \in Row
          BY <2>1 DEF Row
        <5>2. RowSane([rows[i] EXCEPT !.waiting = FALSE])
          BY <2>1 DEF Row, RowSane
        <5>3. RowSane([rows[i] EXCEPT !.lease = "expired"])
          BY <2>1 DEF Row, RowSane
        <5>q. QED
          BY <5>1, <5>2, <5>3
      <4>q. QED
        BY <3>2, <4>1 DEF RetryDue, LeaseExpires, UpdateRow
    <3>q. QED
      BY <1>2, <3>1, <3>2
  <2>4. rows' \in [Items -> Row] /\ (\A j \in Items : RowSane(rows[j]))'
    BY <2>1, <2>2 DEF TypeOK
  <2>5. UNCHANGED <<fileVars, providerVars, workerVars, reviewVars>>
    BY <1>2 DEF RetryDue, LeaseExpires, RestoreItem
  <2>6. TypeOK'
    BY <2>4, <2>5 DEF TypeOK, fileVars, providerVars, workerVars, reviewVars
  <2>7. Local'
    BY <2>5 DEF Local, TypeOK, workerVars, reviewVars, Holds, Rev
  <2>q. QED
    BY <2>4, <2>6, <2>7
<1>q. QED
  BY <1>1, <1>2

LEMMA InitTypes == Init => TypeInv
<1> SUFFICES ASSUME Init PROVE TypeInv
  OBVIOUS
<1>1. NoRow \in Row /\ RowSane(NoRow)
  BY DEF NoRow, Row, RowSane, MaybeRev, Status, Failure
<1>2. NoDoc \in Drive /\ NoMessage \in Channel /\ NoForm \in Form
  BY DEF NoDoc, NoMessage, NoForm, Drive, Channel, Form, Operation, MaybeRev
<1>3. TypeOK
  BY <1>1, <1>2 DEF Init, TypeOK, WorkerPc, ReviewPc, MaybeRev, Failure
<1>4. Local
  BY DEF Init, Local, Holds, Publishing, Waiting
<1>5. \A i \in Items : RowSane(rows[i])
  BY <1>1 DEF Init
<1>q. QED
  BY <1>3, <1>4, <1>5 DEF TypeInv

LEMMA NextTypes == TypeInv /\ [Next]_vars => TypeInv'
<1> SUFFICES ASSUME TypeInv, [Next]_vars PROVE TypeInv'
  OBVIOUS
<1>1. ASSUME NEW w \in Workers, Publication(w) PROVE TypeInv'
  BY <1>1, MoveTypes, RecordTypes DEF Publication
<1>2. ASSUME NEW w \in Workers, Cycle(w) \/ Crash(w) \/ Restart(w) PROVE TypeInv'
  BY <1>2, ScanTypes, CycleTypes, ClaimTypes DEF Cycle
<1>3. ASSUME NEW r \in Reviewers, Review(r) PROVE TypeInv'
  BY <1>3, ReviewTypes
<1>4. ASSUME NEW q \in wire, Apply(q) \/ Refuse(q) PROVE TypeInv'
  BY <1>4, ProviderTypes
<1>5. ASSUME NEW i \in Items,
             EditNote(i) \/ RetryDue(i) \/ LeaseExpires(i) \/ RestoreItem(i)
      PROVE  TypeInv'
  BY <1>5, EnvironmentTypes
<1>6. CASE UNCHANGED vars
  BY <1>6 DEF TypeInv, TypeOK, Local, Holds, Rev, vars, fileVars, providerVars,
     workerVars, reviewVars
<1>q. QED
  BY <1>1, <1>2, <1>3, <1>4, <1>5, <1>6 DEF Next

\* Every variable keeps its type in every reachable state, for any number of
\* meetings, revisions, processes and review requests.
THEOREM TypeCorrect == Spec => []TypeOK
<1>1. TypeInv => TypeOK
  BY DEF TypeInv
<1>q. QED
  BY InitTypes, NextTypes, <1>1, PTL DEF Spec

-----------------------------------------------------------------------------
(* The claim discipline: one claimant, reviewed approvals, and a table that *)
(* stays as evidence after an uncertain or abandoned delivery.              *)

LEMMA EvidenceFields ==
  ASSUME NEW r \in Row, NEW s \in Row, Evidence(r) = Evidence(s)
  PROVE  /\ r.status = s.status /\ r.source = s.source /\ r.approved = s.approved
         /\ r.failure = s.failure /\ r.attempts = s.attempts
         /\ r.msg = s.msg /\ r.docRev = s.docRev
<1>1. \A t \in Row : /\ Evidence(t).status = t.status /\ Evidence(t).source = t.source
                     /\ Evidence(t).approved = t.approved
                     /\ Evidence(t).failure = t.failure
                     /\ Evidence(t).attempts = t.attempts
                     /\ Evidence(t).msg = t.msg /\ Evidence(t).docRev = t.docRev
  BY DEF Evidence, Row
<1>q. QED
  BY <1>1

\* Time is no evidence.
LEMMA TimeIsQuiet ==
  ASSUME NEW r \in Row
  PROVE  /\ Evidence([r EXCEPT !.waiting = FALSE]) = Evidence(r)
         /\ Evidence([r EXCEPT !.lease = "expired"]) = Evidence(r)
  BY DEF Evidence, Row

\* What the scans, the resumption and the reviewers do to a row rewrites it.
LEMMA RewriteOperations ==
  ASSUME NEW r \in Row, RowSane(r), r.failure # "uncertain", NEW rev \in MaybeRev
  PROVE  \A s \in {Upserted(r, rev), ArchivedByScan(r), Archive(r), Reject(r), Restore(r),
                   ResumeAuth(r)} : Rewrites(r, s)
<1>0. "none" \in Failure
  BY DEF Failure
<1>1. /\ Rewrites(r, Upserted(r, rev)) /\ Rewrites(r, ArchivedByScan(r))
  BY <1>0, ScanFields, RowRecords DEF Rewrites, Kept, RowSane
<1>2. /\ Rewrites(r, Archive(r)) /\ Rewrites(r, Reject(r)) /\ Rewrites(r, Restore(r))
      /\ Rewrites(r, ResumeAuth(r))
  BY <1>0, RowFields, RowRecords DEF Rewrites, Kept
<1>q. QED
  BY <1>1, <1>2

\* A transaction that only rewrites rows.
LEMMA RewritesAreWrites ==
  ASSUME TypeInv, ApprovalIsReviewed, MayWrite, NoNewClaim, everApproved' = everApproved,
         UNCHANGED providerVars, \A i \in Items : Rewrites(rows[i], rows'[i])
  PROVE  Write
<1>1. \A i \in Items : ~Open(i)'
  BY DEF Rewrites, Open, Uncertain, MayWrite, NoUncertainty
<1>2. \A i \in Items : rows'[i].approved \in {rows[i].approved, NoRev}
  BY DEF Rewrites
<1>3. \A i \in Items : Kept(rows[i], rows'[i])
  BY DEF Rewrites, Kept
<1>q. QED
  BY <1>1, <1>2, <1>3 DEF Write, Decided, ApprovalIsReviewed

\* The steps of a cycle write, take a claim, or leave everything to the side.
LEMMA CycleKinds ==
  ASSUME TypeInv, ApprovalIsReviewed, NEW w \in Workers, Cycle(w) \/ Crash(w) \/ Restart(w)
  PROVE  Aside \/ Write \/ \E i \in Items : Claiming(w, i)
<1> USE DEF TypeInv
<1>1. ASSUME NEW i \in Items, ClaimNext(w, i) PROVE Claiming(w, i)
  BY <1>1 DEF ClaimNext, TakeClaim, UpdateRow, Claiming, TypeOK, Holds, Publishing, reviewVars
<1>2. ASSUME ClaimExact(w) PROVE \E i \in Items : Claiming(w, i)
  BY <1>2 DEF ClaimExact, TakeClaim, UpdateRow, Claiming, TypeOK, Local, Holds, Publishing,
     reviewVars
<1>3. ASSUME \/ BeginCycle(w) \/ ScanDone(w) \/ Refused(w) \/ HealthChecked(w)
             \/ EndCycle(w) \/ NothingExact(w) \/ Crash(w) \/ Restart(w)
             \/ \E i \in Items : SelectBlocked(w, i) \/ BeginExact(w, i)
      PROVE Aside
  <2>1. UNCHANGED <<rows, everApproved, providerVars>>
    BY <1>3 DEF BeginCycle, ScanDone, Refused, HealthChecked, EndCycle, NothingExact, Crash,
       Restart, SelectBlocked, BeginExact, reviewVars
  <2>2. PICK at \in {"down", "idle", "archive", "health", "claim", "resume", "exact"} :
          pc' = [pc EXCEPT ![w] = at]
    BY <1>3 DEF BeginCycle, ScanDone, Refused, HealthChecked, EndCycle, NothingExact, Crash,
       Restart, SelectBlocked, BeginExact, Reset
  <2>3. \A x \in Workers \ {w} : /\ job'[x] = job[x] /\ claim'[x] = claim[x]
                                 /\ outcome'[x] = outcome[x]
    BY <1>3 DEF BeginCycle, ScanDone, Refused, HealthChecked, EndCycle, NothingExact, Crash,
       Restart, SelectBlocked, BeginExact, Reset, TypeOK
  <2>q. QED
    BY <2>1, <2>2, <2>3 DEF Aside, Quiet, NoNewClaim, NobodyMoves, Holds, TypeOK, Publishing,
       Waiting
<1>4. ASSUME ScanArchive(w) PROVE Write
  <2>1. PICK X \in SUBSET {i \in Items : seen[w][i] = NoRev} :
          rows' = [i \in Items |-> IF i \in X THEN ArchivedByScan(rows[i]) ELSE rows[i]]
    BY <1>4 DEF ScanArchive
  <2>2. MayWrite /\ everApproved' = everApproved /\ NoNewClaim /\ UNCHANGED providerVars
    BY <1>4 DEF ScanArchive, NoNewClaim, Holds, TypeOK, Publishing, Waiting, reviewVars
  <2>3. \A i \in Items : Rewrites(rows[i], ArchivedByScan(rows[i]))
    BY <2>2, RewriteOperations DEF TypeOK, MaybeRev, MayWrite, NoUncertainty, Uncertain
  <2>4. \A i \in Items : Rewrites(rows[i], rows'[i])
    BY <2>1, <2>3 DEF Rewrites
  <2>q. QED
    BY <2>2, <2>4, RewritesAreWrites
<1>5. ASSUME NEW i \in Items, ScanUpsert(w, i) PROVE Write \/ Aside
  <2>1. /\ rows' = [rows EXCEPT ![i] = Upserted(rows[i], seen[w][i])]
        /\ seen[w][i] \in MaybeRev /\ seen[w][i] # NoRev /\ rows[i] \in Row
        /\ RowSane(rows[i])
    BY <1>5, RevisionAssumption DEF ScanUpsert, UpdateRow, TypeOK, Local
  <2>2. /\ everApproved' = everApproved /\ NoNewClaim /\ NobodyMoves
        /\ UNCHANGED providerVars
    BY <1>5 DEF ScanUpsert, NoNewClaim, NobodyMoves, Holds, reviewVars
  <2>3. CASE rows[i].source = seen[w][i]
    <3>1. rows' = rows
      BY <2>1, <2>3 DEF Upserted, RowSane, TypeOK
    <3>q. QED
      BY <2>2, <3>1 DEF Quiet, Aside
  <2>4. CASE MayWrite
    <3>1. Rewrites(rows[i], Upserted(rows[i], seen[w][i]))
      BY <2>1, <2>4, RewriteOperations DEF MayWrite, NoUncertainty, Uncertain
    <3>2. \A j \in Items : Rewrites(rows[j], rows'[j])
      BY <2>1, <3>1 DEF TypeOK, Rewrites
    <3>q. QED
      BY <2>2, <2>4, <3>2, RewritesAreWrites
  <2>q. QED
    BY <1>5, <2>3, <2>4 DEF ScanUpsert
<1>6. ASSUME ResumeBlocked(w) PROVE Write
  <2> DEFINE i == job[w]
  <2>1. /\ i \in Items /\ rows[i] \in Row /\ RowSane(rows[i]) /\ seen[w][i] \in MaybeRev
        /\ MayWrite /\ everApproved' = everApproved /\ Reset(w, "health")
        /\ UNCHANGED providerVars
    BY <1>6 DEF ResumeBlocked, TypeOK, Local, reviewVars, MaybeRev
  <2>2. NoNewClaim
    BY <2>1 DEF Reset, NoNewClaim, Holds, TypeOK, Publishing, Waiting
  <2>3. \/ rows' = [rows EXCEPT ![i] = Upserted(rows[i], seen[w][i])]
        \/ rows' = [rows EXCEPT ![i] = ResumeAuth(rows[i])]
        \/ rows' = rows
    BY <1>6 DEF ResumeBlocked, UpdateRow
  <2>4. /\ Rewrites(rows[i], Upserted(rows[i], seen[w][i]))
        /\ Rewrites(rows[i], ResumeAuth(rows[i]))
    BY <2>1, RewriteOperations DEF MayWrite, NoUncertainty, Uncertain
  <2>5. \A j \in Items : Rewrites(rows[j], rows'[j])
    BY <2>1, <2>3, <2>4 DEF TypeOK, Rewrites
  <2>q. QED
    BY <2>1, <2>2, <2>5, RewritesAreWrites
<1>q. QED
  BY <1>1, <1>2, <1>3, <1>4, <1>5, <1>6 DEF Cycle

\* So do the requests of the reviewers, which take no claim.
LEMMA ReviewKinds ==
  ASSUME TypeInv, ApprovalIsReviewed, NEW r \in Reviewers, Review(r)
  PROVE  Aside \/ Write
<1> USE DEF TypeInv
<1> DEFINE i == form[r].item
           row == rows[i]
           rev == form[r].rev
<1>1. NoNewClaim /\ NobodyMoves /\ UNCHANGED providerVars
  BY DEF Review, BeginReview, RefreshRow, Decide, ReplaceNote, CommitNote, AbortReview,
     workerVars, NoNewClaim, NobodyMoves, Holds
<1>2. ASSUME (\E j \in Items : BeginReview(r, j)) \/ ReplaceNote(r) \/ AbortReview(r)
      PROVE  Aside
  BY <1>1, <1>2 DEF BeginReview, ReplaceNote, AbortReview, Aside, Quiet
<1>3. ASSUME RefreshRow(r) \/ CommitNote(r) PROVE Write
  <2>1. /\ i \in Items /\ row \in Row /\ RowSane(row) /\ form[r].note \in MaybeRev
        /\ MayWrite /\ everApproved' = everApproved
        /\ rows' = [rows EXCEPT ![i] = Upserted(row, form[r].note)]
    BY <1>3 DEF RefreshRow, CommitNote, UpdateRow, Local, TypeOK, MaybeRev
  <2>2. Rewrites(row, Upserted(row, form[r].note))
    BY <2>1, RewriteOperations DEF MayWrite, NoUncertainty, Uncertain
  <2>3. \A j \in Items : Rewrites(rows[j], rows'[j])
    BY <2>1, <2>2 DEF TypeOK, Rewrites
  <2>q. QED
    BY <1>1, <2>1, <2>3, RewritesAreWrites
<1>4. ASSUME Decide(r) PROVE Write
  <2>1. /\ i \in Items /\ row \in Row /\ RowSane(row) /\ rev \in Revisions
        /\ rev \in MaybeRev /\ MayWrite
        /\ NoRev \in MaybeRev /\ "none" \in Failure
    BY <1>4 DEF Decide, Local, TypeOK, MaybeRev, Failure
  <2>2. \A s : rows' = [rows EXCEPT ![i] = s] =>
                 rows'[i] = s /\ \A j \in Items \ {i} : rows'[j] = rows[j]
    BY <2>1 DEF TypeOK
  <2>3. ASSUME everApproved' = everApproved,
               \E s \in {Reject(row), Archive(row)} : rows' = [rows EXCEPT ![i] = s]
        PROVE  Write
    <3>1. Rewrites(row, Reject(row)) /\ Rewrites(row, Archive(row))
      BY <2>1, RewriteOperations DEF MayWrite, NoUncertainty, Uncertain
    <3>2. \A j \in Items : Rewrites(rows[j], rows'[j])
      BY <2>2, <2>3, <3>1 DEF Rewrites
    <3>q. QED
      BY <1>1, <2>1, <2>3, <3>2, RewritesAreWrites
  <2>4. ASSUME everApproved' = everApproved \cup {<<i, rev>>},
               rows' = [rows EXCEPT ![i] = Approve(row, rev)]
        PROVE  Write
    <3>1. /\ Approve(row, rev).status = "approved" /\ Approve(row, rev).approved = rev
          /\ Approve(row, rev).failure = "none"
          /\ Approve(row, rev).msg = row.msg /\ Approve(row, rev).docRev = row.docRev
      BY <2>1, RowFields, RowRecords
    <3>2. /\ rows'[i].status = "approved" /\ rows'[i].approved = rev
          /\ rows'[i].failure = "none"
          /\ rows'[i].msg = row.msg /\ rows'[i].docRev = row.docRev
          /\ \A j \in Items \ {i} : rows'[j] = rows[j]
      BY <2>2, <2>4, <3>1
    <3>3. \A j \in Items : ~Open(j)'
      BY <2>1, <3>2 DEF Open, Uncertain, MayWrite, NoUncertainty
    <3>4. \A j \in Items : rows'[j].approved # NoRev =>
                           <<j, rows'[j].approved>> \in everApproved'
      BY <2>1, <2>4, <3>2 DEF ApprovalIsReviewed
    <3>5. \A j \in Items : Kept(rows[j], rows'[j])
      BY <3>2 DEF Kept
    <3>6. Decided
      BY <2>1, <3>2 DEF Decided
    <3>q. QED
      BY <1>1, <2>1, <3>3, <3>4, <3>5, <3>6 DEF Write
  <2>q. QED
    BY <1>4, <2>3, <2>4 DEF Decide, UpdateRow
<1>q. QED
  BY <1>2, <1>3, <1>4 DEF Review

LEMMA EnvironmentKinds ==
  ASSUME TypeInv, ApprovalIsReviewed, NEW i \in Items,
         EditNote(i) \/ RetryDue(i) \/ LeaseExpires(i) \/ RestoreItem(i)
  PROVE  Aside \/ Write
<1> USE DEF TypeInv
<1>1. NoNewClaim /\ NobodyMoves /\ everApproved' = everApproved /\ UNCHANGED providerVars
  BY DEF EditNote, RetryDue, LeaseExpires, RestoreItem, workerVars, reviewVars,
     NoNewClaim, NobodyMoves, Holds
<1>2. CASE EditNote(i)
  BY <1>1, <1>2 DEF EditNote, Aside, Quiet
<1>3. CASE RetryDue(i) \/ LeaseExpires(i)
  BY <1>1, <1>3, TimeIsQuiet DEF RetryDue, LeaseExpires, UpdateRow, Aside, Quiet, TypeOK
<1>4. CASE RestoreItem(i)
  <2>1. /\ MayWrite /\ rows[i] \in Row /\ NoRev \in MaybeRev
        /\ rows' = [rows EXCEPT ![i] = Restore(rows[i])]
    BY <1>4 DEF RestoreItem, UpdateRow, TypeOK, MaybeRev
  <2>2. Rewrites(rows[i], Restore(rows[i]))
    BY <2>1, RewriteOperations DEF MayWrite, NoUncertainty, Uncertain
  <2>3. \A j \in Items : Rewrites(rows[j], rows'[j])
    BY <2>1, <2>2 DEF TypeOK, Rewrites
  <2>q. QED
    BY <1>1, <2>1, <2>3, RewritesAreWrites
<1>q. QED
  BY <1>2, <1>3, <1>4

LEMMA LostClaimAside ==
  ASSUME TypeInv, NEW w \in Workers, LostClaim(w)
  PROVE  Aside
<1>1. UNCHANGED <<rows, everApproved, providerVars>> /\ Reset(w, "down")
  BY DEF LostClaim, reviewVars
<1>q. QED
  BY <1>1 DEF Reset, TypeInv, TypeOK, Aside, Quiet, NoNewClaim, NobodyMoves, Holds,
     Publishing, Waiting

\* Every step is of one of the five kinds.
LEMMA StepKinds ==
  ASSUME TypeInv, ApprovalIsReviewed, [Next]_vars
  PROVE  StepKind
<1> USE DEF StepKind
<1>1. ASSUME NEW w \in Workers, Publication(w) PROVE StepKind
  <2> USE DEF TypeInv
  <2>1. ASSUME ReadNote(w) \/ EnterProvider(w) \/ ReadFails(w) \/ LookedUp(w)
               \/ WriteCreated(w) \/ ShareWritten(w) \/ Announce(w) \/ GiveUp(w)
        PROVE  Quiet
    <3>1. Holds(w) /\ UNCHANGED <<rows, job, claim, everApproved>>
      BY <2>1 DEF ReadNote, EnterProvider, ReadFails, LookedUp, WriteCreated, ShareWritten,
         Announce, GiveUp, OnlyMoves, Send, reviewVars, Holds, Publishing, Waiting
    <3>2. \A x \in Workers \ {w} : pc'[x] = pc[x]
      BY <2>1 DEF ReadNote, EnterProvider, ReadFails, LookedUp, WriteCreated, ShareWritten,
         Announce, GiveUp, Send, Goto, Fail, TypeOK
    <3>q. QED
      BY <3>1, <3>2 DEF Quiet, NoNewClaim, Holds
  <2>2. ASSUME LostClaim(w) PROVE Quiet
    BY <2>2, LostClaimAside DEF Aside
  <2>3. ASSUME RecordGoogle(w) \/ RecordDiscord(w) PROVE Checkpointing(w)
    <3>1. Holds(w) /\ MayRecord /\ UNCHANGED <<job, claim, everApproved>>
      BY <2>3 DEF RecordGoogle, RecordDiscord, Holds, Publishing, reviewVars
    <3>2. \A x \in Workers \ {w} : pc'[x] = pc[x]
      BY <2>3 DEF RecordGoogle, RecordDiscord, Goto, TypeOK
    <3>3. NoNewClaim
      BY <3>1, <3>2 DEF NoNewClaim, Holds
    <3>q. QED
      BY <2>3, <3>1, <3>3 DEF RecordGoogle, RecordDiscord, UpdateRow, Checkpointing
  <2>4. ASSUME Publish(w) \/ RecordFailure(w) PROVE Settling(w)
    <3>1. Holds(w) /\ MayRecord /\ UNCHANGED everApproved
      BY <2>4 DEF Publish, RecordFailure, Holds, Publishing, reviewVars
    <3>2. PICK at \in {"down", "idle", "health", "claim"} : Reset(w, at)
      BY <2>4 DEF Publish, RecordFailure
    <3>3. NoNewClaim /\ ~Holds(w)'
      BY <3>2 DEF Reset, TypeOK, NoNewClaim, Holds, Publishing, Waiting
    <3>q. QED
      BY <2>4, <3>1, <3>3 DEF Publish, RecordFailure, UpdateRow, Settling
  <2>q. QED
    BY <1>1, <2>1, <2>2, <2>3, <2>4 DEF Publication
<1>2. ASSUME NEW w \in Workers, Cycle(w) \/ Crash(w) \/ Restart(w) PROVE StepKind
  BY <1>2, CycleKinds DEF Aside
<1>3. ASSUME NEW r \in Reviewers, Review(r) PROVE StepKind
  BY <1>3, ReviewKinds DEF Aside
<1>4. ASSUME NEW q \in wire, Apply(q) \/ Refuse(q) PROVE Quiet
  <2>1. q.worker \in Workers /\ q.kind \in Waiting
    BY DEF TypeInv, TypeOK, Request
  <2>2. UNCHANGED <<rows, job, claim, everApproved>>
    BY <1>4 DEF Apply, Refuse, reviewVars
  <2>3. pc' = pc \/ (Awaits(q) /\ \E next \in Publishing : pc' = [pc EXCEPT ![q.worker] = next])
    BY <1>4, <2>1 DEF Apply, Refuse, Fail, Goto, Publishing, Replied, Waiting
  <2>q. QED
    BY <2>1, <2>2, <2>3 DEF Quiet, NoNewClaim, Holds, Awaits, TypeInv, TypeOK, Publishing
<1>5. ASSUME NEW i \in Items,
             EditNote(i) \/ RetryDue(i) \/ LeaseExpires(i) \/ RestoreItem(i)
      PROVE  StepKind
  BY <1>5, EnvironmentKinds DEF Aside
<1>6. CASE UNCHANGED vars
  BY <1>6 DEF vars, fileVars, workerVars, reviewVars, Quiet, NoNewClaim, Holds
<1>q. QED
  BY <1>1, <1>2, <1>3, <1>4, <1>5, <1>6 DEF Next

-----------------------------------------------------------------------------
(* The five kinds of step keep the claim discipline.                        *)

LEMMA QuietClaim ==
  ASSUME TypeInv, TypeInv', ClaimInv, Quiet
  PROVE  ClaimInv'
<1>1. \A i \in Items :
        /\ rows'[i].status = rows[i].status /\ rows'[i].source = rows[i].source
        /\ rows'[i].approved = rows[i].approved /\ rows'[i].failure = rows[i].failure
        /\ rows'[i].attempts = rows[i].attempts
  BY EvidenceFields DEF Quiet, TypeInv, TypeOK
<1>2. \A i, j \in Items : Open(i)' /\ Open(j)' => i = j
  BY <1>1 DEF ClaimInv, Open, Uncertain
<1>3. OneClaimant'
  <2>1. \A w \in Workers : Holds(w)' => job[w] \in Items /\ job'[w] = job[w]
    BY DEF Quiet, NoNewClaim, TypeInv, Local
  <2>q. QED
    BY <1>1, <2>1 DEF ClaimInv, OneClaimant, Quiet, NoNewClaim, Rev
<1>4. ApprovalIsReviewed'
  BY <1>1 DEF ClaimInv, ApprovalIsReviewed, Quiet
<1>q. QED
  BY <1>2, <1>3, <1>4 DEF ClaimInv

LEMMA WriteClaim ==
  ASSUME TypeInv, TypeInv', ClaimInv, Write
  PROVE  ClaimInv'
<1>1. \A w \in Workers : ~Holds(w)
  BY DEF Write, MayWrite, ClaimInv, OneClaimant, TypeInv, Local
<1>2. \A w \in Workers : ~Holds(w)'
  BY <1>1 DEF Write, NoNewClaim
<1>3. \A i \in Items : ~Open(i)' /\ rows'[i].status # "publishing"
  BY DEF Write, Open
<1>4. ApprovalIsReviewed'
  BY DEF Write, ApprovalIsReviewed, TypeInv, RowSane
<1>q. QED
  BY <1>2, <1>3, <1>4 DEF ClaimInv, OneClaimant

LEMMA ClaimingClaim ==
  ASSUME TypeInv, TypeInv', ClaimInv, NEW w \in Workers, NEW i \in Items, Claiming(w, i)
  PROVE  ClaimInv'
<1>1. \A x \in Workers : ~Holds(x)
  BY DEF Claiming, MayWrite, ClaimInv, OneClaimant, TypeInv, Local
<1>2. \A x \in Workers : Holds(x)' => x = w
  BY <1>1 DEF Claiming
<1>3. /\ rows'[i] = Claim(rows[i])
      /\ \A j \in Items \ {i} : rows'[j] = rows[j]
  BY DEF Claiming, TypeInv, TypeOK
<1>4. /\ Claim(rows[i]).status = "publishing"
      /\ Claim(rows[i]).approved = rows[i].approved
      /\ Claim(rows[i]).source = rows[i].source
  <2>1. NoRev \in MaybeRev /\ "none" \in Failure /\ rows[i] \in Row
    BY DEF MaybeRev, Failure, TypeInv, TypeOK
  <2>q. QED
    BY <2>1, RowFields
<1>5. \A j, k \in Items : Open(j)' /\ Open(k)' => j = k
  BY <1>3 DEF Claiming, MayWrite, NoUncertainty, Open, Uncertain
<1>6. OneClaimant'
  <2>1. \A j \in Items : rows'[j].status = "publishing" => j = i
    BY <1>3 DEF Claiming, MayWrite
  <2>2. /\ job'[w] = i /\ rows'[job'[w]].status = "publishing"
        /\ rows'[job'[w]].attempts = claim'[w].attempts
        /\ rows'[job'[w]].approved = Rev(w)'
    BY <1>3, <1>4 DEF Claiming, Rev
  <2>q. QED
    BY <1>2, <2>1, <2>2 DEF OneClaimant
<1>7. ApprovalIsReviewed'
  BY <1>3, <1>4 DEF Claiming, ClaimInv, ApprovalIsReviewed
<1>q. QED
  BY <1>5, <1>6, <1>7 DEF ClaimInv

LEMMA CheckpointClaim ==
  ASSUME TypeInv, TypeInv', ClaimInv, NEW w \in Workers, Checkpointing(w)
  PROVE  ClaimInv'
<1> DEFINE i == job[w]
<1>1. /\ i \in Items /\ rows[i] \in Row /\ NoRev \in MaybeRev /\ "none" \in Failure
  BY DEF Checkpointing, TypeInv, TypeOK, Local, MaybeRev, Failure
<1>2. \A s \in {RecordDoc(rows[i]), RecordMessage(rows[i])} :
        /\ s.status = rows[i].status /\ s.source = rows[i].source
        /\ s.approved = rows[i].approved /\ s.failure = rows[i].failure
        /\ s.attempts = rows[i].attempts
  BY <1>1, RowFields
<1>3. \A j \in Items :
        /\ rows'[j].status = rows[j].status /\ rows'[j].source = rows[j].source
        /\ rows'[j].approved = rows[j].approved /\ rows'[j].failure = rows[j].failure
        /\ rows'[j].attempts = rows[j].attempts
  <2>1. PICK s \in {RecordDoc(rows[i]), RecordMessage(rows[i])} :
          rows' = [rows EXCEPT ![i] = s]
    BY DEF Checkpointing
  <2>2. rows'[i] = s /\ \A j \in Items \ {i} : rows'[j] = rows[j]
    BY <1>1, <2>1 DEF TypeInv, TypeOK
  <2>q. QED
    BY <1>2, <2>2
<1>4. \A j, k \in Items : Open(j)' /\ Open(k)' => j = k
  BY <1>3 DEF ClaimInv, Open, Uncertain
<1>5. OneClaimant'
  <2>1. \A x \in Workers : Holds(x)' => job[x] \in Items /\ job'[x] = job[x]
    BY DEF Checkpointing, NoNewClaim, TypeInv, Local
  <2>q. QED
    BY <1>3, <2>1 DEF ClaimInv, OneClaimant, Checkpointing, NoNewClaim, Rev
<1>6. ApprovalIsReviewed'
  BY <1>3 DEF ClaimInv, ApprovalIsReviewed, Checkpointing
<1>q. QED
  BY <1>4, <1>5, <1>6 DEF ClaimInv

LEMMA SettlingClaim ==
  ASSUME TypeInv, TypeInv', ClaimInv, NEW w \in Workers, Settling(w)
  PROVE  ClaimInv'
<1> DEFINE i == job[w]
<1>1. /\ i \in Items /\ rows[i] \in Row /\ NoRev \in MaybeRev /\ outcome[w] \in Failure
  BY DEF Settling, TypeInv, TypeOK, Local, MaybeRev
<1>2. \A s \in {MarkPublished(rows[i]), MarkFailure(rows[i], outcome[w])} :
        /\ s.status # "publishing" /\ s.source = rows[i].source
        /\ s.approved = rows[i].approved
  BY <1>1, RowFields
<1>3. /\ rows'[i].status # "publishing" /\ rows'[i].source = rows[i].source
      /\ rows'[i].approved = rows[i].approved
      /\ \A j \in Items \ {i} : rows'[j] = rows[j]
  <2>1. PICK s \in {MarkPublished(rows[i]), MarkFailure(rows[i], outcome[w])} :
          rows' = [rows EXCEPT ![i] = s]
    BY DEF Settling
  <2>2. rows'[i] = s /\ \A j \in Items \ {i} : rows'[j] = rows[j]
    BY <1>1, <2>1 DEF TypeInv, TypeOK
  <2>q. QED
    BY <1>2, <2>2
<1>4. rows[i].status = "publishing"
  BY DEF Settling, ClaimInv, OneClaimant
<1>5. \A j \in Items : Open(j)' => j = i
  BY <1>1, <1>3, <1>4 DEF ClaimInv, Open, Uncertain
<1>6. \A x \in Workers : ~Holds(x)'
  BY DEF Settling, NoNewClaim, ClaimInv, OneClaimant
<1>7. \A j \in Items : rows'[j].status # "publishing"
  BY <1>3, <1>5 DEF Open
<1>8. ApprovalIsReviewed'
  BY <1>3 DEF ClaimInv, ApprovalIsReviewed, Settling
<1>q. QED
  BY <1>5, <1>6, <1>7, <1>8 DEF ClaimInv, OneClaimant

LEMMA InitClaim == Init => ClaimInv
  BY DEF Init, ClaimInv, OneClaimant, ApprovalIsReviewed, Open, Uncertain, Holds,
     Publishing, Waiting, NoRow

LEMMA NextClaim == TypeInv /\ TypeInv' /\ ClaimInv /\ [Next]_vars => ClaimInv'
<1> SUFFICES ASSUME TypeInv, TypeInv', ClaimInv, [Next]_vars PROVE ClaimInv'
  OBVIOUS
<1>1. StepKind
  BY StepKinds DEF ClaimInv
<1>q. QED
  BY <1>1, QuietClaim, WriteClaim, ClaimingClaim, CheckpointClaim, SettlingClaim DEF StepKind

\* In every reachable state, for any number of meetings, processes and review
\* requests: one row is being published, by one worker, under its own claim.
THEOREM OneClaimantAlways == Spec => []OneClaimant
<1>1. ClaimInv => OneClaimant
  BY DEF ClaimInv
<1>q. QED
  BY InitTypes, NextTypes, InitClaim, NextClaim, <1>1, PTL DEF Spec

\* In every reachable state each approval in the table is for the row's own
\* revision and was given by a reviewer.
THEOREM ApprovalsAreReviewed == Spec => []ApprovalIsReviewed
<1>1. ClaimInv => ApprovalIsReviewed
  BY DEF ClaimInv
<1>q. QED
  BY InitTypes, NextTypes, InitClaim, NextClaim, <1>1, PTL DEF Spec

-----------------------------------------------------------------------------
(* The table as evidence                                                    *)

\* While a delivery is uncertain, or a row is abandoned, only time passes.
LEMMA FrozenIsQuiet ==
  ASSUME TypeInv, ClaimInv, [Next]_vars, Frozen \/ \E i \in Items : Abandoned(i)
  PROVE  Quiet
<1>1. StepKind
  BY StepKinds DEF ClaimInv
<1>2. ~MayWrite
  BY DEF Frozen, Abandoned, MayWrite, NoUncertainty
<1>3. \A w \in Workers : Holds(w) => ~MayRecord
  <2>1. CASE Frozen
    BY <2>1 DEF Frozen, MayRecord, NoUncertainty
  <2>2. ASSUME NEW i \in Items, Abandoned(i), NEW w \in Workers, Holds(w) PROVE FALSE
    BY <2>2 DEF Abandoned, ClaimInv, OneClaimant, TypeInv, Local
  <2>q. QED
    BY <2>1, <2>2
<1>q. QED
  BY <1>1, <1>2, <1>3 DEF StepKind, Write, Claiming, Checkpointing, Settling

\* After an uncertain delivery no step of any process changes the table, but for
\* the passing of time.
THEOREM UncertaintyFreezesAlways == Spec => UncertaintyFreezes
<1>1. TypeInv /\ ClaimInv /\ [Next]_vars =>
        [Frozen => \A i \in Items : Evidence(rows'[i]) = Evidence(rows[i])]_vars
  BY FrozenIsQuiet DEF Quiet
<1>q. QED
  BY InitTypes, NextTypes, InitClaim, NextClaim, <1>1, PTL DEF Spec, UncertaintyFreezes

\* A row whose publisher died is never taken over, and nothing else is published
\* in its place.
THEOREM AbandonedStaysAlways == Spec => AbandonedStays
<1>1. TypeInv /\ ClaimInv /\ [Next]_vars =>
        [(\E i \in Items : Abandoned(i)) =>
           \A i \in Items : Evidence(rows'[i]) = Evidence(rows[i])]_vars
  BY FrozenIsQuiet DEF Quiet
<1>q. QED
  BY InitTypes, NextTypes, InitClaim, NextClaim, <1>1, PTL DEF Spec, AbandonedStays

-----------------------------------------------------------------------------
(* What is delivered, and what the table says of it                         *)

\* Documents and messages, field by field.
LEMMA DriveFields ==
  ASSUME NEW d \in Drive, NEW rev
  PROVE  d = [copies |-> 1, text |-> rev, shared |-> TRUE]
           <=> d.copies = 1 /\ d.text = rev /\ d.shared
  BY DEF Drive

LEMMA ChannelFields ==
  ASSUME NEW c \in Channel, NEW rev
  PROVE  c = [copies |-> 1, text |-> rev] <=> c.copies = 1 /\ c.text = rev
  BY DEF Channel

\* Whoever holds a claim publishes the only open item, alone.
LEMMA HolderIsAlone ==
  ASSUME TypeInv, ClaimInv, NEW w \in Workers, Holds(w)
  PROVE  /\ job[w] \in Items /\ Rev(w) \in Revisions /\ Rev(w) # NoRev
         /\ rows[job[w]].status = "publishing" /\ Open(job[w])
         /\ rows[job[w]].approved = Rev(w) /\ rows[job[w]].source = Rev(w)
         /\ \A x \in Workers : Holds(x) => x = w
         /\ \A j \in Items : Open(j) => j = job[w]
<1>1. job[w] \in Items /\ Rev(w) \in Revisions
  BY DEF TypeInv, Local
<1>2. rows[job[w]].status = "publishing" /\ rows[job[w]].approved = Rev(w)
  BY DEF ClaimInv, OneClaimant
<1>3. RowSane(rows[job[w]])
  BY <1>1 DEF TypeInv
<1>4. rows[job[w]].source = Rev(w)
  BY <1>1, <1>2, <1>3, RevisionAssumption DEF RowSane
<1>5. \A j \in Items : Open(j) => j = job[w]
  BY <1>1, <1>2 DEF ClaimInv, Open
<1>6. \A x \in Workers : Holds(x) => x = w
  BY DEF ClaimInv, OneClaimant
<1>q. QED
  BY <1>1, <1>2, <1>4, <1>5, <1>6, RevisionAssumption DEF Open

\* Nothing is under way and nobody publishes while a transaction may write.
LEMMA NothingUnderWay ==
  ASSUME TypeInv, ClaimInv, DeliveryInv, MayWrite
  PROVE  /\ wire = {}
         /\ \A w \in Workers : ~Holds(w)
         /\ \A i \in Items : ~Open(i) /\ (channel[i].copies = 1 => rows[i].msg)
<1>1. \A i \in Items : ~Open(i)
  BY DEF MayWrite, NoUncertainty, Open
<1>2. \A w \in Workers : ~Holds(w)
  BY <1>1, HolderIsAlone
<1>3. \A q \in wire : q.item \in Items /\ Open(q.item)
  BY DEF DeliveryInv, Sent, TypeInv, TypeOK, Request
<1>4. \A i \in Items : channel[i].copies = 1 => rows[i].msg
  BY <1>1 DEF DeliveryInv, MessageRecorded
<1>q. QED
  BY <1>1, <1>2, <1>3, <1>4

LEMMA InitDelivery == Init => DeliveryInv
<1> SUFFICES ASSUME Init PROVE DeliveryInv
  OBVIOUS
<1>1. \A i \in Items : /\ rows[i].status = "absent" /\ rows[i].docRev = NoRev
                       /\ rows[i].msg = FALSE
                       /\ drive[i].copies = 0 /\ channel[i].copies = 0
  BY DEF Init, NoRow, NoDoc, NoMessage
<1>2. wire = {} /\ \A w \in Workers : ~Holds(w)
  BY DEF Init, Holds, Publishing, Waiting
<1>3. AtMostOneCopy
  BY <1>1, SMT DEF AtMostOneCopy
<1>4. MessageRecorded /\ CheckpointIsTrue /\ PublishedIsDelivered
  BY <1>1 DEF MessageRecorded, CheckpointIsTrue, PublishedIsDelivered
<1>q. QED
  BY <1>2, <1>3, <1>4 DEF DeliveryInv

LEMMA AsideDelivery ==
  ASSUME TypeInv, TypeInv', ClaimInv, DeliveryInv, Aside
  PROVE  DeliveryInv'
<1>1. \A i \in Items :
        /\ rows'[i].status = rows[i].status /\ rows'[i].source = rows[i].source
        /\ rows'[i].approved = rows[i].approved /\ rows'[i].failure = rows[i].failure
        /\ rows'[i].msg = rows[i].msg /\ rows'[i].docRev = rows[i].docRev
  BY EvidenceFields DEF Aside, Quiet, TypeInv, TypeOK
<1>2. \A i \in Items : Open(i)' <=> Open(i)
  BY <1>1 DEF Open, Uncertain
<1>3. wire' = wire /\ drive' = drive /\ channel' = channel
  BY DEF Aside, providerVars
<1>4. \A w \in Workers : Holds(w)' =>
        /\ Holds(w) /\ job[w] \in Items
        /\ pc'[w] = pc[w] /\ job'[w] = job[w] /\ claim'[w] = claim[w]
        /\ outcome'[w] = outcome[w]
  BY DEF Aside, Quiet, NoNewClaim, NobodyMoves, TypeInv, Local
<1>5. \A q \in wire' : Sent(q)'
  BY <1>1, <1>2, <1>3 DEF DeliveryInv, Sent, Delivered, TypeInv, TypeOK, Request
<1>6. ASSUME NEW w \in Workers, Holds(w)' PROVE UnderWay(w)' /\ AtPlace(w)'
  <2>1. UnderWay(w) /\ AtPlace(w)
    BY <1>4, <1>6 DEF DeliveryInv
  <2>2. UnderWay(w)'
    BY <1>3, <1>4, <1>6, <2>1 DEF UnderWay, RequestOf, Rev, Doubtful
  <2>3. AtPlace(w)'
    BY <1>1, <1>3, <1>4, <1>6, <2>1 DEF AtPlace, Delivered, Announced, Rev
  <2>q. QED
    BY <2>2, <2>3
<1>7. MessageRecorded'
  BY <1>1, <1>2, <1>3, <1>4 DEF DeliveryInv, MessageRecorded, Doubtful
<1>8. AtMostOneCopy' /\ CheckpointIsTrue' /\ PublishedIsDelivered'
  BY <1>1, <1>3 DEF DeliveryInv, AtMostOneCopy, CheckpointIsTrue, PublishedIsDelivered
<1>q. QED
  BY <1>3, <1>5, <1>6, <1>7, <1>8 DEF DeliveryInv

LEMMA WriteDelivery ==
  ASSUME TypeInv, TypeInv', ClaimInv, DeliveryInv, Write
  PROVE  DeliveryInv'
<1>1. /\ wire = {} /\ \A w \in Workers : ~Holds(w)
      /\ \A i \in Items : channel[i].copies = 1 => rows[i].msg
  BY NothingUnderWay DEF Write
<1>2. wire' = wire /\ drive' = drive /\ channel' = channel
  BY DEF Write, providerVars
<1>3. \A w \in Workers : ~Holds(w)'
  BY <1>1 DEF Write, NoNewClaim
<1>4. \A i \in Items : Kept(rows[i], rows'[i])
  BY DEF Write
<1>5. MessageRecorded'
  BY <1>1, <1>2, <1>4 DEF DeliveryInv, MessageRecorded, Kept
<1>6. CheckpointIsTrue'
  BY <1>2, <1>4 DEF DeliveryInv, CheckpointIsTrue, Kept
<1>7. PublishedIsDelivered'
  BY <1>2, <1>4 DEF DeliveryInv, PublishedIsDelivered, Kept
<1>8. AtMostOneCopy'
  BY <1>2 DEF DeliveryInv, AtMostOneCopy
<1>q. QED
  BY <1>1, <1>2, <1>3, <1>5, <1>6, <1>7, <1>8 DEF DeliveryInv

LEMMA ClaimingDelivery ==
  ASSUME TypeInv, TypeInv', ClaimInv, DeliveryInv, NEW w \in Workers, NEW i \in Items,
         Claiming(w, i)
  PROVE  DeliveryInv'
<1>1. /\ wire = {} /\ \A x \in Workers : ~Holds(x)
      /\ \A j \in Items : channel[j].copies = 1 => rows[j].msg
  BY NothingUnderWay DEF Claiming
<1>2. wire' = wire /\ drive' = drive /\ channel' = channel
  BY DEF Claiming, providerVars
<1>3. /\ rows'[i] = Claim(rows[i]) /\ \A j \in Items \ {i} : rows'[j] = rows[j]
      /\ pc'[w] = "read" /\ job'[w] = i /\ claim'[w] = Claim(rows[i])
  BY DEF Claiming, TypeInv, TypeOK
<1>4. /\ Claim(rows[i]).status = "publishing" /\ Claim(rows[i]).msg = rows[i].msg
      /\ Claim(rows[i]).docRev = rows[i].docRev
  <2>1. NoRev \in MaybeRev /\ "none" \in Failure /\ rows[i] \in Row
    BY DEF MaybeRev, Failure, TypeInv, TypeOK
  <2>q. QED
    BY <2>1, RowFields, RowRecords
<1>5. \A x \in Workers : Holds(x)' => x = w
  BY <1>1 DEF Claiming
<1>6. UnderWay(w)' /\ AtPlace(w)'
  BY <1>1, <1>2, <1>3 DEF UnderWay, AtPlace, Waiting
<1>7. MessageRecorded'
  BY <1>1, <1>2, <1>3, <1>4 DEF DeliveryInv, MessageRecorded
<1>8. CheckpointIsTrue'
  BY <1>2, <1>3, <1>4 DEF DeliveryInv, CheckpointIsTrue
<1>9. PublishedIsDelivered' /\ AtMostOneCopy'
  BY <1>2, <1>3, <1>4 DEF DeliveryInv, PublishedIsDelivered, AtMostOneCopy
<1>q. QED
  BY <1>1, <1>2, <1>5, <1>6, <1>7, <1>8, <1>9 DEF DeliveryInv

\* A worker moves on under its claim while rows and providers stay: what must
\* be shown is that it may be where it gets to.
LEMMA MoveDelivery ==
  ASSUME TypeInv, ClaimInv, DeliveryInv, NEW w \in Workers, Holds(w),
         NEW next \in Publishing, pc' = [pc EXCEPT ![w] = next],
         UNCHANGED <<rows, drive, channel, job, claim>>,
         \A q, r \in wire' : q = r, \A q \in wire' : Sent(q),
         UnderWay(w)', AtPlace(w)',
         ~rows[job[w]].msg /\ channel[job[w]].copies = 1 =>
            next \in {"post", "recordDiscord"} \/ Doubtful(w)'
  PROVE  DeliveryInv'
<1>1. \A x \in Workers : Holds(x)' => x = w
  BY HolderIsAlone DEF Holds, TypeInv, TypeOK
<1>2. \A i \in Items : Open(i)' <=> Open(i)
  BY DEF Open, Uncertain
<1>3. \A q \in wire' : Sent(q)'
  BY DEF Sent, Delivered, Open, Uncertain
<1>4. MessageRecorded'
  <2>1. pc'[w] = next
    BY DEF TypeInv, TypeOK
  <2>q. QED
    BY <1>1, <1>2, <2>1 DEF DeliveryInv, MessageRecorded
<1>5. AtMostOneCopy' /\ CheckpointIsTrue' /\ PublishedIsDelivered'
  BY DEF DeliveryInv, AtMostOneCopy, CheckpointIsTrue, PublishedIsDelivered
<1>q. QED
  BY <1>1, <1>3, <1>4, <1>5 DEF DeliveryInv

\* The worker goes on, or fails without a doubt, and nothing is sent.
LEMMA StepDelivery ==
  ASSUME TypeInv, ClaimInv, DeliveryInv, NEW w \in Workers,
         ReadNote(w) \/ EnterProvider(w) \/ ReadFails(w)
  PROVE  DeliveryInv'
<1> DEFINE i == job[w]
<1>1. /\ Holds(w) /\ UNCHANGED <<rows, drive, channel, wire, job, claim>>
      /\ pc[w] \in {"read", "google", "discord", "lookup", "created", "written", "access"}
  BY DEF ReadNote, EnterProvider, ReadFails, OnlyMoves, providerVars, Holds, Publishing
<1>2. /\ i \in Items /\ rows[i].status = "publishing" /\ Rev(w) # NoRev
      /\ UnderWay(w) /\ AtPlace(w)
  BY <1>1, HolderIsAlone DEF DeliveryInv
<1>3. wire = {}
  BY <1>1, <1>2 DEF UnderWay, Waiting, Doubtful
<1>4. ~(~rows[i].msg /\ channel[i].copies = 1)
  BY <1>1, <1>2 DEF DeliveryInv, MessageRecorded, Doubtful
<1>5. PICK next \in {"fail", "google", "discord", "lookup", "access"} :
        /\ pc' = [pc EXCEPT ![w] = next]
        /\ next = "discord" => Delivered(i, Rev(w))
        /\ next = "access" => Delivered(i, Rev(w))
  <2>1. CASE ReadNote(w)
    <3>1. claim[w].docRev = Rev(w) => Delivered(i, Rev(w))
      BY <1>2, <2>1 DEF AtPlace, ReadNote, DeliveryInv, CheckpointIsTrue, Delivered
    <3>2. \/ pc' = [pc EXCEPT ![w] = "fail"] \/ pc' = [pc EXCEPT ![w] = "google"]
          \/ pc' = [pc EXCEPT ![w] = "discord"] /\ claim[w].docRev = Rev(w)
      BY <2>1 DEF ReadNote, Fail, Goto
    <3>q. QED
      BY <3>1, <3>2
  <2>2. CASE EnterProvider(w)
    BY <1>2, <2>2 DEF EnterProvider, Goto, AtPlace
  <2>3. CASE ReadFails(w)
    BY <2>3 DEF ReadFails, Fail, Goto
  <2>q. QED
    BY <2>1, <2>2, <2>3
<1>6. pc'[w] = next /\ next \in Publishing
  BY <1>5 DEF TypeInv, TypeOK, Publishing
<1>7. UnderWay(w)'
  BY <1>1, <1>3, <1>6 DEF UnderWay, Waiting
<1>8. AtPlace(w)'
  BY <1>1, <1>5, <1>6 DEF AtPlace, Delivered, Rev
<1>q. QED
  BY <1>1, <1>3, <1>4, <1>5, <1>6, <1>7, <1>8, MoveDelivery

\* A worker that gives up waiting does not know what becomes of its request.
LEMMA GiveUpDelivery ==
  ASSUME TypeInv, ClaimInv, DeliveryInv, NEW w \in Workers, GiveUp(w)
  PROVE  DeliveryInv'
<1>1. Holds(w) /\ UNCHANGED <<rows, drive, channel, wire, job, claim>>
  BY DEF GiveUp, OnlyMoves, providerVars, Holds, Publishing
<1>2. /\ pc' = [pc EXCEPT ![w] = "fail"] /\ pc'[w] = "fail" /\ outcome'[w] = "uncertain"
      /\ "fail" \in Publishing
  BY DEF GiveUp, Fail, Goto, TypeInv, TypeOK, Publishing
<1>3. Doubtful(w)'
  BY <1>2 DEF Doubtful
<1>4. UnderWay(w)' /\ AtPlace(w)'
  BY <1>2, <1>3 DEF UnderWay, AtPlace, Waiting
<1>5. /\ \A q, r \in wire' : q = r
      /\ \A q \in wire' : Sent(q)
  BY <1>1 DEF DeliveryInv
<1>q. QED
  BY <1>1, <1>2, <1>3, <1>4, <1>5, MoveDelivery

\* A request is sent when nothing is under way, to providers that are as it
\* expects them.
LEMMA SendDelivery ==
  ASSUME TypeInv, ClaimInv, DeliveryInv, NEW w \in Workers,
         LookedUp(w) \/ WriteCreated(w) \/ ShareWritten(w) \/ Announce(w)
  PROVE  DeliveryInv'
<1> DEFINE i == job[w]
<1>1. /\ Holds(w) /\ UNCHANGED <<rows, drive, channel, job, claim>>
      /\ pc[w] \in {"lookup", "created", "written", "access"}
  BY DEF LookedUp, WriteCreated, ShareWritten, Announce, OnlyMoves, Send, providerVars,
     Holds, Publishing
<1>2. /\ i \in Items /\ Open(i) /\ rows[i].approved = Rev(w)
      /\ UnderWay(w) /\ AtPlace(w)
  BY <1>1, HolderIsAlone DEF DeliveryInv
<1>3. wire = {}
  BY <1>1, <1>2 DEF UnderWay, Waiting, Doubtful
<1>4. ~(~rows[i].msg /\ channel[i].copies = 1)
  BY <1>1, <1>2 DEF DeliveryInv, MessageRecorded, Doubtful
<1>5. /\ drive[i] \in Drive /\ channel[i] \in Channel
      /\ drive[i].copies \in {0, 1} /\ channel[i].copies \in {0, 1}
      /\ rows[i].msg => channel[i].copies = 1
  <2>1. /\ drive[i] \in Drive /\ channel[i] \in Channel
        /\ drive[i].copies <= 1 /\ channel[i].copies <= 1
    BY <1>2 DEF TypeInv, TypeOK, DeliveryInv, AtMostOneCopy
  <2>2. /\ drive[i].copies \in Nat /\ channel[i].copies \in Nat
    BY <2>1 DEF Drive, Channel
  <2>3. \A n \in Nat : n <= 1 => n \in {0, 1}
    BY SMT
  <2>q. QED
    BY <1>2, <2>1, <2>2, <2>3 DEF DeliveryInv, MessageRecorded
<1>6. ASSUME NEW kind \in Waiting, Send(w, kind), AtPlace(w)',
             kind = "create" => drive[i].copies = 0,
             kind \in {"write", "share"} => drive[i].copies = 1,
             kind = "share" => drive[i].text = Rev(w),
             kind \in {"post", "edit"} => Delivered(i, Rev(w)),
             kind = "post" => channel[i].copies = 0,
             kind = "edit" => channel[i].copies = 1
      PROVE  DeliveryInv'
  <2>1. /\ pc' = [pc EXCEPT ![w] = kind] /\ pc'[w] = kind /\ kind \in Publishing
        /\ wire' = {RequestOf(w, kind)}
    BY <1>3, <1>6 DEF Send, Goto, TypeInv, TypeOK, Publishing
  <2>2. Sent(RequestOf(w, kind))
    BY <1>2, <1>6 DEF Sent, RequestOf
  <2>3. UnderWay(w)'
    BY <1>1, <1>6, <2>1 DEF UnderWay, RequestOf, Rev
  <2>q. QED
    BY <1>1, <1>4, <1>6, <2>1, <2>2, <2>3, MoveDelivery
<1>7. CASE LookedUp(w)
  <2>1. PICK kind \in {"create", "write"} :
          /\ Send(w, kind)
          /\ kind = "create" => drive[i].copies = 0
          /\ kind = "write" => drive[i].copies = 1
    BY <1>5, <1>7 DEF LookedUp
  <2>2. pc'[w] = kind
    BY <2>1 DEF Send, Goto, TypeInv, TypeOK
  <2>3. AtPlace(w)'
    BY <1>1, <2>1, <2>2 DEF AtPlace
  <2>q. QED
    BY <1>6, <2>1, <2>3 DEF Waiting
<1>8. CASE WriteCreated(w)
  <2>1. Send(w, "write") /\ drive[i].copies = 1
    BY <1>2, <1>8 DEF WriteCreated, AtPlace
  <2>2. pc'[w] = "write"
    BY <2>1 DEF Send, Goto, TypeInv, TypeOK
  <2>3. AtPlace(w)'
    BY <1>1, <2>1, <2>2 DEF AtPlace
  <2>q. QED
    BY <1>6, <2>1, <2>3 DEF Waiting
<1>9. CASE ShareWritten(w)
  <2>0. drive[i].copies = 1 /\ drive[i].text = Rev(w)
    BY <1>2, <1>9 DEF ShareWritten, AtPlace
  <2>1. CASE ~drive[i].shared
    <3>1. Send(w, "share")
      BY <1>9, <2>1 DEF ShareWritten
    <3>2. pc'[w] = "share"
      BY <3>1 DEF Send, Goto, TypeInv, TypeOK
    <3>3. AtPlace(w)'
      BY <1>1, <2>0, <3>2 DEF AtPlace, Rev
    <3>q. QED
      BY <1>6, <2>0, <3>1, <3>3 DEF Waiting
  <2>2. CASE drive[i].shared
    <3>1. /\ pc' = [pc EXCEPT ![w] = "recordGoogle"] /\ pc'[w] = "recordGoogle"
          /\ "recordGoogle" \in Publishing /\ wire' = wire
      BY <1>9, <2>2 DEF ShareWritten, Goto, OnlyMoves, providerVars, TypeInv, TypeOK,
         Publishing
    <3>2. Delivered(i, Rev(w))
      BY <1>5, <2>0, <2>2, DriveFields DEF Delivered
    <3>3. UnderWay(w)' /\ AtPlace(w)'
      BY <1>1, <1>3, <3>1, <3>2 DEF UnderWay, AtPlace, Delivered, Rev, Waiting
    <3>q. QED
      BY <1>1, <1>3, <1>4, <3>1, <3>3, MoveDelivery
  <2>q. QED
    BY <2>1, <2>2
<1>10. CASE Announce(w)
  <2>0. Delivered(i, Rev(w))
    BY <1>2, <1>10 DEF Announce, AtPlace
  <2>1. PICK kind \in {"post", "edit"} :
          /\ Send(w, kind)
          /\ kind = "post" => channel[i].copies = 0
          /\ kind = "edit" => channel[i].copies = 1
    BY <1>4, <1>5, <1>10 DEF Announce
  <2>2. pc'[w] = kind
    BY <2>1 DEF Send, Goto, TypeInv, TypeOK
  <2>3. AtPlace(w)'
    BY <1>1, <2>0, <2>1, <2>2 DEF AtPlace, Delivered, Rev
  <2>q. QED
    BY <1>6, <2>0, <2>1, <2>3 DEF Waiting
<1>q. QED
  BY <1>7, <1>8, <1>9, <1>10

\* A checkpoint is stored in the row of the claim and says what is there.
LEMMA CheckpointDelivery ==
  ASSUME TypeInv, TypeInv', ClaimInv, DeliveryInv, NEW w \in Workers, Holds(w),
         pc[w] \notin Waiting \cup {"fail"}, NEW s \in Row,
         rows' = [rows EXCEPT ![job[w]] = s],
         s.status = rows[job[w]].status, s.source = rows[job[w]].source,
         s.approved = rows[job[w]].approved, s.failure = rows[job[w]].failure,
         NEW next \in Publishing \ Waiting, pc' = [pc EXCEPT ![w] = next],
         UNCHANGED <<drive, channel, wire, job, claim>>, AtPlace(w)',
         s.docRev # NoRev => Delivered(job[w], s.docRev),
         s.msg => channel[job[w]].copies = 1,
         channel[job[w]].copies = 1 => s.msg
  PROVE  DeliveryInv'
<1> DEFINE i == job[w]
<1>1. /\ i \in Items /\ rows[i].status = "publishing" /\ UnderWay(w)
      /\ \A x \in Workers : Holds(x) => x = w
  BY HolderIsAlone DEF DeliveryInv
<1>2. wire = {}
  BY <1>1 DEF UnderWay, Doubtful
<1>3. rows'[i] = s /\ \A j \in Items \ {i} : rows'[j] = rows[j]
  BY <1>1 DEF TypeInv, TypeOK
<1>4. pc'[w] = next /\ \A x \in Workers : Holds(x)' => x = w
  BY <1>1 DEF Holds, TypeInv, TypeOK
<1>5. UnderWay(w)'
  BY <1>2, <1>4 DEF UnderWay
<1>6. MessageRecorded'
  <2>1. \A j \in Items \ {i} : Open(j)' <=> Open(j)
    BY <1>3 DEF Open, Uncertain
  <2>2. \A j \in Items \ {i} : ~Open(j)
    BY HolderIsAlone
  <2>3. ASSUME NEW j \in Items \ {i}
        PROVE  /\ rows'[j].msg => channel'[j].copies = 1
               /\ channel'[j].copies = 1 => rows'[j].msg
    BY <1>3, <2>2 DEF DeliveryInv, MessageRecorded
  <2>4. /\ rows'[i].msg => channel'[i].copies = 1
        /\ channel'[i].copies = 1 => rows'[i].msg
    BY <1>3
  <2>q. QED
    BY <2>3, <2>4 DEF MessageRecorded
<1>7. CheckpointIsTrue'
  BY <1>3 DEF DeliveryInv, CheckpointIsTrue, Delivered
<1>8. PublishedIsDelivered' /\ AtMostOneCopy'
  BY <1>1, <1>3 DEF DeliveryInv, PublishedIsDelivered, AtMostOneCopy
<1>q. QED
  BY <1>2, <1>4, <1>5, <1>6, <1>7, <1>8 DEF DeliveryInv

LEMMA RecordDelivery ==
  ASSUME TypeInv, TypeInv', ClaimInv, DeliveryInv, NEW w \in Workers,
         RecordGoogle(w) \/ RecordDiscord(w)
  PROVE  DeliveryInv'
<1> DEFINE i == job[w]
<1>1. /\ Holds(w) /\ UNCHANGED <<drive, channel, wire, job, claim>>
      /\ pc[w] \in {"recordGoogle", "recordDiscord"}
  BY DEF RecordGoogle, RecordDiscord, providerVars, Holds, Publishing
<1>2. /\ i \in Items /\ rows[i] \in Row /\ rows[i].source = Rev(w) /\ AtPlace(w)
      /\ NoRev \in MaybeRev /\ "none" \in Failure
  BY <1>1, HolderIsAlone DEF DeliveryInv, TypeInv, TypeOK, MaybeRev, Failure
<1>3. Delivered(i, Rev(w))
  BY <1>1, <1>2 DEF AtPlace
<1>4. \A s \in {RecordDoc(rows[i]), RecordMessage(rows[i])} :
        /\ s \in Row
        /\ s.status = rows[i].status /\ s.source = rows[i].source
        /\ s.approved = rows[i].approved /\ s.failure = rows[i].failure
  <2>1. RecordDoc(rows[i]) \in Row /\ RecordMessage(rows[i]) \in Row
    BY <1>2, RowOperations
  <2>q. QED
    BY <1>2, <2>1, RowFields
<1>5. pc[w] \notin Waiting \cup {"fail"} /\ {"discord", "publish"} \subseteq Publishing \ Waiting
  BY <1>1 DEF Publishing, Waiting
<1>6. CASE RecordGoogle(w)
  <2> DEFINE s == RecordDoc(rows[i])
  <2>1. /\ rows' = [rows EXCEPT ![i] = s] /\ pc' = [pc EXCEPT ![w] = "discord"]
        /\ pc'[w] = "discord" /\ pc[w] = "recordGoogle"
    BY <1>6 DEF RecordGoogle, UpdateRow, Goto, TypeInv, TypeOK
  <2>2. s.msg = rows[i].msg /\ s.docRev = Rev(w)
    BY <1>2, RowRecords
  <2>3. s.msg => channel[i].copies = 1
    BY <1>2, <2>2 DEF DeliveryInv, MessageRecorded
  <2>4. channel[i].copies = 1 => s.msg
    BY <1>1, <1>2, <2>1, <2>2 DEF DeliveryInv, MessageRecorded, Doubtful
  <2>5. AtPlace(w)'
    BY <1>1, <1>3, <2>1 DEF AtPlace, Delivered, Rev
  <2>q. QED
    BY <1>1, <1>3, <1>4, <1>5, <2>1, <2>2, <2>3, <2>4, <2>5, CheckpointDelivery
<1>7. CASE RecordDiscord(w)
  <2> DEFINE s == RecordMessage(rows[i])
  <2>1. /\ rows' = [rows EXCEPT ![i] = s] /\ pc' = [pc EXCEPT ![w] = "publish"]
        /\ pc'[w] = "publish" /\ pc[w] = "recordDiscord"
    BY <1>7 DEF RecordDiscord, UpdateRow, Goto, TypeInv, TypeOK
  <2>2. s.msg /\ s.docRev = rows[i].docRev
    BY <1>2, RowRecords
  <2>3. s.docRev # NoRev => Delivered(i, s.docRev)
    BY <1>2, <2>2 DEF DeliveryInv, CheckpointIsTrue, Delivered
  <2>4. Announced(i, Rev(w)) /\ channel[i].copies = 1
    BY <1>2, <2>1 DEF AtPlace, Announced
  <2>5. AtPlace(w)'
    BY <1>1, <1>3, <2>1, <2>4 DEF AtPlace, Delivered, Announced, Rev
  <2>q. QED
    BY <1>1, <1>4, <1>5, <2>1, <2>2, <2>3, <2>4, <2>5, CheckpointDelivery
<1>q. QED
  BY <1>6, <1>7

\* The outcome is stored in the row of the claim, which is let go.
LEMMA OutcomeDelivery ==
  ASSUME TypeInv, TypeInv', ClaimInv, DeliveryInv, NEW w \in Workers, Holds(w),
         NEW i \in Items, i = job[w],
         NEW s \in Row, rows' = [rows EXCEPT ![i] = s],
         s.approved = rows[i].approved,
         s.msg = rows[i].msg, s.docRev = rows[i].docRev,
         \A x \in Workers : ~Holds(x)', UNCHANGED <<drive, channel, wire>>,
         wire # {} => s.failure = "uncertain",
         channel[i].copies = 1 => s.msg \/ s.failure = "uncertain",
         s.status = "published" => /\ Delivered(i, s.source)
                                   /\ Announced(i, s.source)
                                   /\ s.approved = s.source
  PROVE  DeliveryInv'
<1>1. \A j \in Items : Open(j) => j = i
  BY HolderIsAlone
<1>2. rows'[i] = s /\ \A j \in Items \ {i} : rows'[j] = rows[j]
  BY <1>1 DEF TypeInv, TypeOK
<1>3. \A q \in wire' : Sent(q)'
  <2>1. \A q \in wire : q.item = i /\ Sent(q)
    BY <1>1 DEF DeliveryInv, Sent, TypeInv, TypeOK, Request
  <2>2. ASSUME NEW q \in wire PROVE Sent(q)'
    <3>1. Open(i)'
      BY <1>2 DEF Open, Uncertain
    <3>q. QED
      BY <1>2, <2>1, <3>1 DEF Sent, Delivered
  <2>q. QED
    BY <2>2
<1>4. MessageRecorded'
  <2>1. ASSUME NEW j \in Items \ {i}
        PROVE  /\ rows'[j].msg => channel'[j].copies = 1
               /\ channel'[j].copies = 1 => rows'[j].msg
    BY <1>1, <1>2 DEF DeliveryInv, MessageRecorded
  <2>2. /\ rows'[i].msg => channel'[i].copies = 1
        /\ channel'[i].copies = 1 => rows'[i].msg \/ Open(i)'
    BY <1>1, <1>2 DEF DeliveryInv, MessageRecorded, Open, Uncertain
  <2>q. QED
    BY <2>1, <2>2 DEF MessageRecorded
<1>5. CheckpointIsTrue'
  BY <1>1, <1>2 DEF DeliveryInv, CheckpointIsTrue
<1>6. PublishedIsDelivered'
  <2>1. ASSUME NEW j \in Items \ {i}, rows'[j].status = "published"
        PROVE  /\ drive[j] = [copies |-> 1, text |-> rows'[j].source, shared |-> TRUE]
               /\ channel[j] = [copies |-> 1, text |-> rows'[j].source]
               /\ rows'[j].approved = rows'[j].source
    BY <1>2, <2>1 DEF DeliveryInv, PublishedIsDelivered
  <2>2. ASSUME rows'[i].status = "published"
        PROVE  /\ drive[i] = [copies |-> 1, text |-> rows'[i].source, shared |-> TRUE]
               /\ channel[i] = [copies |-> 1, text |-> rows'[i].source]
               /\ rows'[i].approved = rows'[i].source
    BY <1>2, <2>2 DEF Delivered, Announced
  <2>q. QED
    BY <2>1, <2>2 DEF PublishedIsDelivered
<1>7. AtMostOneCopy'
  BY DEF DeliveryInv, AtMostOneCopy
<1>q. QED
  BY <1>3, <1>4, <1>5, <1>6, <1>7 DEF DeliveryInv

LEMMA SettlingDelivery ==
  ASSUME TypeInv, TypeInv', ClaimInv, DeliveryInv, NEW w \in Workers,
         Publish(w) \/ RecordFailure(w)
  PROVE  DeliveryInv'
<1> DEFINE i == job[w]
<1>1. /\ Holds(w) /\ UNCHANGED <<drive, channel, wire>>
  BY DEF Publish, RecordFailure, providerVars, Holds, Publishing
<1>2. /\ i \in Items /\ rows[i] \in Row /\ outcome[w] \in Failure
      /\ rows[i].source = Rev(w) /\ rows[i].approved = Rev(w)
      /\ UnderWay(w) /\ AtPlace(w) /\ NoRev \in MaybeRev
      /\ \A x \in Workers : Holds(x) => x = w
  BY <1>1, HolderIsAlone DEF DeliveryInv, TypeInv, TypeOK, MaybeRev
<1>3. \A x \in Workers : ~Holds(x)'
  <2>1. PICK at \in {"down", "idle", "health", "claim"} : Reset(w, at)
    BY DEF Publish, RecordFailure
  <2>q. QED
    BY <1>2, <2>1 DEF Reset, TypeInv, TypeOK, Holds, Publishing, Waiting
<1>4. CASE Publish(w)
  <2> DEFINE s == MarkPublished(rows[i])
  <2>1. rows' = [rows EXCEPT ![i] = s] /\ pc[w] = "publish"
    BY <1>4 DEF Publish, UpdateRow
  <2>2. /\ s \in Row /\ s.source = rows[i].source /\ s.approved = rows[i].approved
        /\ s.msg = rows[i].msg /\ s.docRev = rows[i].docRev
    <3>1. s \in Row
      BY <1>2, RowOperations
    <3>q. QED
      BY <1>2, <3>1, RowFields, RowRecords
  <2>3. wire = {}
    BY <1>2, <2>1 DEF UnderWay, Waiting, Doubtful
  <2>4. Delivered(i, Rev(w)) /\ Announced(i, Rev(w))
    BY <1>2, <2>1 DEF AtPlace
  <2>5. channel[i].copies = 1 => rows[i].msg
    BY <1>1, <1>2, <2>1 DEF DeliveryInv, MessageRecorded, Doubtful
  <2>q. QED
    BY <1>1, <1>2, <1>3, <2>1, <2>2, <2>3, <2>4, <2>5, OutcomeDelivery
<1>5. CASE RecordFailure(w)
  <2> DEFINE s == MarkFailure(rows[i], outcome[w])
  <2>1. rows' = [rows EXCEPT ![i] = s] /\ pc[w] = "fail"
    BY <1>5 DEF RecordFailure, UpdateRow
  <2>2. /\ s \in Row /\ s.approved = rows[i].approved
        /\ s.status # "published" /\ s.failure = outcome[w]
        /\ s.msg = rows[i].msg /\ s.docRev = rows[i].docRev
    <3>1. s \in Row
      BY <1>2, RowOperations
    <3>2. /\ s.approved = rows[i].approved /\ s.status \in {"approved", "blocked"}
          /\ s.failure = outcome[w]
      BY <1>2, RowFields
    <3>3. s.msg = rows[i].msg /\ s.docRev = rows[i].docRev
      BY <1>2, RowRecords
    <3>q. QED
      BY <3>1, <3>2, <3>3
  <2>3. wire # {} => s.failure = "uncertain"
    BY <1>2, <2>1, <2>2 DEF UnderWay, Waiting, Doubtful
  <2>4. channel[i].copies = 1 => s.msg \/ s.failure = "uncertain"
    BY <1>1, <1>2, <2>1, <2>2 DEF DeliveryInv, MessageRecorded, Doubtful
  <2>q. QED
    BY <1>1, <1>2, <1>3, <2>1, <2>2, <2>3, <2>4, OutcomeDelivery
<1>q. QED
  BY <1>4, <1>5

\* What a request does to the providers as it expects them.
LEMMA Effects ==
  ASSUME TypeInv, NEW q \in wire, Sent(q), Effect(q)
  PROVE  /\ \A j \in Items \ {q.item} : drive'[j] = drive[j] /\ channel'[j] = channel[j]
         /\ drive'[q.item].copies = 1
         /\ drive'[q.item].text = IF q.kind = "write" THEN q.rev ELSE drive[q.item].text
         /\ drive'[q.item].shared = IF q.kind = "share" THEN TRUE ELSE drive[q.item].shared
         /\ IF q.kind \in {"post", "edit"}
            THEN channel'[q.item].copies = 1 /\ channel'[q.item].text = q.rev
            ELSE channel'[q.item] = channel[q.item]
         /\ q.kind \in {"post", "edit"} => drive'[q.item] = drive[q.item]
<1> DEFINE i == q.item
<1>1. /\ i \in Items /\ q.kind \in Waiting /\ drive[i] \in Drive /\ channel[i] \in Channel
  BY DEF TypeInv, TypeOK, Request
<1>2. CASE q.kind = "create"
  <2>1. /\ drive' = [drive EXCEPT ![i].copies = drive[i].copies + 1] /\ channel' = channel
    BY <1>2 DEF Effect
  <2>2. drive[i].copies + 1 = 1
    BY <1>2, SMT DEF Sent
  <2>3. drive' = [drive EXCEPT ![i].copies = 1]
    BY <2>1, <2>2, Zenon
  <2>q. QED
    BY <1>1, <1>2, <2>1, <2>3 DEF TypeInv, TypeOK, Drive
<1>3. CASE q.kind = "write"
  <2>1. drive' = [drive EXCEPT ![i].text = q.rev] /\ channel' = channel
    BY <1>3 DEF Effect
  <2>q. QED
    BY <1>1, <1>3, <2>1 DEF Sent, TypeInv, TypeOK, Drive
<1>4. CASE q.kind = "share"
  <2>1. drive' = [drive EXCEPT ![i].shared = TRUE] /\ channel' = channel
    BY <1>4 DEF Effect
  <2>q. QED
    BY <1>1, <1>4, <2>1 DEF Sent, TypeInv, TypeOK, Drive
<1>5. CASE q.kind = "post"
  <2>0. drive[i].copies = 1
    BY <1>5 DEF Sent, Delivered
  <2>1. /\ channel' = [channel EXCEPT ![i] = [copies |-> channel[i].copies + 1, text |-> q.rev]]
        /\ drive' = drive
    BY <1>5 DEF Effect
  <2>2. channel[i].copies + 1 = 1
    BY <1>5, SMT DEF Sent
  <2>3. channel' = [channel EXCEPT ![i] = [copies |-> 1, text |-> q.rev]]
    BY <2>1, <2>2, Zenon
  <2>q. QED
    BY <1>1, <1>5, <2>0, <2>1, <2>3 DEF TypeInv, TypeOK
<1>6. CASE q.kind = "edit"
  <2>0. drive[i].copies = 1 /\ channel[i].copies = 1
    BY <1>6 DEF Sent, Delivered
  <2>1. channel' = [channel EXCEPT ![i].text = q.rev] /\ drive' = drive
    BY <1>6 DEF Effect
  <2>q. QED
    BY <1>1, <1>6, <2>0, <2>1 DEF TypeInv, TypeOK, Channel
<1>q. QED
  BY <1>1, <1>2, <1>3, <1>4, <1>5, <1>6 DEF Waiting

\* A request that is answered is the only one, and belongs to the open item; its
\* sender waits for it, does not know, or is gone.
LEMMA AnswerFacts ==
  ASSUME TypeInv, ClaimInv, DeliveryInv, NEW q \in wire, wire' = wire \ {q}
  PROVE  /\ wire' = {} /\ Sent(q)
         /\ q.item \in Items /\ q.worker \in Workers /\ q.kind \in Waiting
         /\ rows[q.item].status # "published"
         /\ rows[q.item].docRev # NoRev => rows[q.item].docRev = q.rev
         /\ \A w \in Workers : Holds(w) =>
              /\ job[w] = q.item /\ Rev(w) = q.rev
              /\ \/ Doubtful(w) /\ ~Awaits(q)
                 \/ pc[w] = q.kind /\ q.worker = w
         /\ Awaits(q) => Holds(q.worker)
<1>1. wire' = {} /\ Sent(q)
  BY DEF DeliveryInv
<1>2. /\ q.item \in Items /\ q.worker \in Workers /\ q.kind \in Waiting /\ q.rev \in Revisions
  BY DEF TypeInv, TypeOK, Request
<1>3. RowSane(rows[q.item]) /\ Open(q.item) /\ rows[q.item].approved = q.rev
  BY <1>1, <1>2 DEF TypeInv, Sent
<1>4. rows[q.item].status # "published"
  BY <1>3 DEF RowSane, Open, Uncertain
<1>5. rows[q.item].docRev # NoRev => rows[q.item].docRev = q.rev
  BY <1>2, <1>3, RevisionAssumption DEF RowSane
<1>6. Awaits(q) => Holds(q.worker)
  BY <1>2 DEF Awaits, Holds, Publishing
<1>7. ASSUME NEW w \in Workers, Holds(w)
      PROVE  /\ job[w] = q.item /\ Rev(w) = q.rev
             /\ \/ Doubtful(w) /\ ~Awaits(q)
                \/ pc[w] = q.kind /\ q.worker = w
  <2>1. /\ job[w] = q.item /\ Rev(w) = q.rev
        /\ \A x \in Workers : Holds(x) => x = w
    BY <1>2, <1>3, <1>7, HolderIsAlone
  <2>2. UnderWay(w)
    BY <1>7 DEF DeliveryInv
  <2>3. CASE pc[w] \in Waiting
    BY <2>1, <2>2, <2>3 DEF UnderWay, RequestOf
  <2>4. CASE pc[w] \notin Waiting
    <3>1. Doubtful(w)
      BY <2>2, <2>4 DEF UnderWay
    <3>2. ~Awaits(q)
      BY <1>2, <1>6, <2>1, <2>4 DEF Awaits
    <3>q. QED
      BY <2>1, <3>1, <3>2
  <2>q. QED
    BY <2>3, <2>4
<1>q. QED
  BY <1>1, <1>2, <1>4, <1>5, <1>6, <1>7

LEMMA RefuseDelivery ==
  ASSUME TypeInv, ClaimInv, DeliveryInv, NEW q \in wire, Refuse(q)
  PROVE  DeliveryInv'
<1>1. wire' = wire \ {q} /\ UNCHANGED <<rows, drive, channel, job, claim>>
  BY DEF Refuse
<1>2. /\ wire' = {} /\ Sent(q)
      /\ q.item \in Items /\ q.worker \in Workers /\ q.kind \in Waiting
      /\ \A w \in Workers : Holds(w) =>
              /\ job[w] = q.item /\ Rev(w) = q.rev
              /\ \/ Doubtful(w) /\ ~Awaits(q)
                 \/ pc[w] = q.kind /\ q.worker = w
      /\ Awaits(q) => Holds(q.worker)
  BY <1>1, AnswerFacts
<1>3. CASE Awaits(q)
  <2> DEFINE w == q.worker
  <2>1. /\ w \in Workers /\ Holds(w) /\ job[w] = q.item /\ pc[w] = q.kind
        /\ pc' = [pc EXCEPT ![w] = "fail"] /\ pc'[w] = "fail" /\ "fail" \in Publishing
    BY <1>2, <1>3 DEF Refuse, Fail, Goto, TypeInv, TypeOK, Publishing, Awaits
  <2>2. UnderWay(w)' /\ AtPlace(w)'
    BY <1>2, <2>1 DEF UnderWay, AtPlace, Waiting
  <2>3. ~(~rows[job[w]].msg /\ channel[job[w]].copies = 1)
    <3>1. CASE q.kind = "post"
      BY <1>2, <2>1, <3>1 DEF Sent
    <3>2. CASE q.kind # "post"
      BY <1>2, <2>1, <3>2 DEF DeliveryInv, MessageRecorded, Doubtful, Waiting
    <3>q. QED
      BY <3>1, <3>2
  <2> HIDE DEF w
  <2>q. QED
    BY <1>1, <1>2, <2>1, <2>2, <2>3, MoveDelivery
<1>4. CASE ~Awaits(q)
  <2>1. UNCHANGED <<pc, outcome>>
    BY <1>4 DEF Refuse
  <2>2. ASSUME NEW w \in Workers, Holds(w)' PROVE UnderWay(w)' /\ AtPlace(w)'
    <3>1. Holds(w)
      BY <2>1, <2>2 DEF Holds
    <3>2. AtPlace(w)'
      BY <1>1, <2>1, <3>1 DEF DeliveryInv, AtPlace, Delivered, Announced, Rev
    <3>3. UnderWay(w)'
      BY <1>2 DEF UnderWay
    <3>q. QED
      BY <3>2, <3>3
  <2>3. MessageRecorded'
    BY <1>1, <2>1 DEF DeliveryInv, MessageRecorded, Open, Uncertain, Holds, Doubtful
  <2>4. AtMostOneCopy' /\ CheckpointIsTrue' /\ PublishedIsDelivered'
    BY <1>1 DEF DeliveryInv, AtMostOneCopy, CheckpointIsTrue, PublishedIsDelivered
  <2>q. QED
    BY <1>2, <2>2, <2>3, <2>4 DEF DeliveryInv
<1>q. QED
  BY <1>3, <1>4

LEMMA ApplyDelivery ==
  ASSUME TypeInv, TypeInv', ClaimInv, DeliveryInv, NEW q \in wire, Apply(q)
  PROVE  DeliveryInv'
<1>0. PICK i \in Items : i = q.item
  BY DEF TypeInv, TypeOK, Request
<1>1. wire' = wire \ {q} /\ UNCHANGED <<rows, job, claim, outcome>> /\ Effect(q)
  BY DEF Apply
<1>2. /\ wire' = {} /\ Sent(q) /\ q.worker \in Workers /\ q.kind \in Waiting
      /\ rows[i].status # "published"
      /\ rows[i].docRev # NoRev => rows[i].docRev = q.rev
      /\ \A w \in Workers : Holds(w) =>
              /\ job[w] = i /\ Rev(w) = q.rev
              /\ \/ Doubtful(w) /\ ~Awaits(q)
                 \/ pc[w] = q.kind /\ q.worker = w
      /\ Awaits(q) => Holds(q.worker)
  BY <1>0, <1>1, AnswerFacts
<1>3. /\ \A j \in Items \ {i} : drive'[j] = drive[j] /\ channel'[j] = channel[j]
      /\ drive'[i].copies = 1
      /\ drive'[i].text = IF q.kind = "write" THEN q.rev ELSE drive[i].text
      /\ drive'[i].shared = IF q.kind = "share" THEN TRUE ELSE drive[i].shared
      /\ IF q.kind \in {"post", "edit"}
         THEN channel'[i].copies = 1 /\ channel'[i].text = q.rev
         ELSE channel'[i] = channel[i]
      /\ q.kind \in {"post", "edit"} => drive'[i] = drive[i]
  BY <1>0, <1>1, <1>2, Effects
<1>4. drive'[i] \in Drive /\ channel'[i] \in Channel /\ drive[i] \in Drive
  BY DEF TypeInv, TypeOK
<1>5. /\ q.kind = "create" => drive[i].copies = 0
      /\ q.kind = "share" => drive[i].text = q.rev
      /\ q.kind \in {"post", "edit"} => Delivered(i, q.rev)
      /\ Open(i)
  BY <1>0, <1>2 DEF Sent
<1>6. ASSUME NEW w \in Workers, Holds(w)'
      PROVE  /\ Holds(w) /\ job[w] = i /\ Rev(w) = q.rev
             /\ \/ Doubtful(w) /\ pc'[w] = pc[w]
                \/ pc[w] = q.kind /\ pc'[w] \in {q.kind, Replied[q.kind]}
  <2>1. \/ pc' = pc
        \/ Awaits(q) /\ pc' = [pc EXCEPT ![q.worker] = Replied[q.kind]]
    BY DEF Apply, Goto
  <2>2. CASE pc' = pc
    BY <1>2, <1>6, <2>2 DEF Holds
  <2>3. CASE Awaits(q) /\ pc' = [pc EXCEPT ![q.worker] = Replied[q.kind]]
    <3>1. Holds(w)
      BY <1>2, <1>6, <2>3 DEF Holds, TypeInv, TypeOK
    <3>q. QED
      BY <1>2, <2>3, <3>1 DEF TypeInv, TypeOK
  <2>q. QED
    BY <2>1, <2>2, <2>3
<1>7. ASSUME NEW w \in Workers, Holds(w)' PROVE UnderWay(w)' /\ AtPlace(w)'
  <2>1. /\ job'[w] = i /\ Rev(w)' = q.rev
    BY <1>1, <1>6, <1>7 DEF Rev
  <2>2. UnderWay(w)'
    BY <1>2 DEF UnderWay
  <2>3. CASE pc'[w] = "fail"
    BY <2>2, <2>3 DEF AtPlace
  <2>4. CASE pc[w] = q.kind /\ pc'[w] \in {q.kind, Replied[q.kind]}
    <3>1. CASE q.kind = "create"
      <4>1. pc'[w] \in {"create", "created"}
        BY <2>4, <3>1 DEF Replied
      <4>q. QED
        BY <1>3, <2>1, <2>2, <4>1 DEF AtPlace
    <3>2. CASE q.kind = "write"
      <4>1. pc'[w] \in {"write", "written"}
        BY <2>4, <3>2 DEF Replied
      <4>q. QED
        BY <1>3, <2>1, <2>2, <3>2, <4>1 DEF AtPlace
    <3>3. CASE q.kind = "share"
      <4>1. pc'[w] \in {"share", "recordGoogle"}
        BY <2>4, <3>3 DEF Replied
      <4>2. /\ drive'[i].copies = 1 /\ drive'[i].text = q.rev /\ drive'[i].shared
        BY <1>3, <1>5, <3>3
      <4>3. drive'[i] = [copies |-> 1, text |-> q.rev, shared |-> TRUE]
        BY <1>4, <4>2, DriveFields
      <4>q. QED
        BY <2>1, <2>2, <4>1, <4>2, <4>3 DEF AtPlace, Delivered
    <3>4. CASE q.kind \in {"post", "edit"}
      <4>1. pc'[w] \in {"post", "edit", "recordDiscord"}
        BY <2>4, <3>4 DEF Replied
      <4>2. drive'[i] = [copies |-> 1, text |-> q.rev, shared |-> TRUE]
        BY <1>3, <1>5, <3>4 DEF Delivered
      <4>3. channel'[i] = [copies |-> 1, text |-> q.rev]
        BY <1>3, <1>4, <3>4, ChannelFields
      <4>q. QED
        BY <2>1, <2>2, <4>1, <4>2, <4>3 DEF AtPlace, Delivered, Announced
    <3>q. QED
      BY <1>2, <3>1, <3>2, <3>3, <3>4 DEF Waiting
  <2>q. QED
    BY <1>6, <1>7, <2>3, <2>4 DEF Doubtful
<1>8. MessageRecorded'
  <2>1. ASSUME NEW j \in Items \ {i}
        PROVE  /\ rows'[j].msg => channel'[j].copies = 1
               /\ channel'[j].copies = 1 => rows'[j].msg
    <3>1. ~Open(j)
      BY <1>5 DEF ClaimInv
    <3>q. QED
      BY <1>1, <1>3, <3>1 DEF DeliveryInv, MessageRecorded
  <2>2. rows'[i].msg => channel'[i].copies = 1
    BY <1>1, <1>3 DEF DeliveryInv, MessageRecorded
  <2>3. Open(i)'
    BY <1>1, <1>5 DEF Open, Uncertain
  <2>4. ASSUME ~rows'[i].msg, channel'[i].copies = 1, NEW w \in Workers, Holds(w)'
        PROVE  pc'[w] \in {"post", "recordDiscord"} \/ Doubtful(w)'
    <3>1. CASE Doubtful(w) /\ pc'[w] = pc[w]
      BY <1>1, <3>1 DEF Doubtful
    <3>2. CASE pc[w] = q.kind /\ pc'[w] \in {q.kind, Replied[q.kind]}
      <4>1. CASE q.kind = "post"
        BY <3>2, <4>1 DEF Replied
      <4>2. CASE q.kind = "edit"
        <5>1. channel[i].copies = 1
          BY <1>0, <1>2, <4>2 DEF Sent
        <5>2. pc[w] \in {"post", "recordDiscord"} \/ Doubtful(w)
          BY <1>1, <1>6, <2>4, <5>1 DEF DeliveryInv, MessageRecorded
        <5>q. QED
          BY <3>2, <4>2, <5>2 DEF Doubtful
      <4>3. CASE q.kind \notin {"post", "edit"}
        <5>1. channel[i].copies = 1
          BY <1>3, <2>4, <4>3
        <5>2. pc[w] \in {"post", "recordDiscord"} \/ Doubtful(w)
          BY <1>1, <1>6, <2>4, <5>1 DEF DeliveryInv, MessageRecorded
        <5>q. QED
          BY <1>2, <3>2, <4>3, <5>2 DEF Doubtful, Waiting
      <4>q. QED
        BY <4>1, <4>2, <4>3
    <3>q. QED
      BY <1>6, <2>4, <3>1, <3>2
  <2>q. QED
    BY <2>1, <2>2, <2>3, <2>4 DEF MessageRecorded
<1>9. AtMostOneCopy'
  <2>1. \A j \in Items \ {i} : drive'[j].copies <= 1 /\ channel'[j].copies <= 1
    BY <1>3 DEF DeliveryInv, AtMostOneCopy
  <2>2. channel[i].copies <= 1
    BY DEF DeliveryInv, AtMostOneCopy
  <2>3. drive'[i].copies <= 1
    BY <1>3, SMT
  <2>4. channel'[i].copies <= 1
    <3>1. channel'[i].copies = 1 \/ channel'[i].copies = channel[i].copies
      BY <1>3
    <3>q. QED
      BY <2>2, <3>1, SMT
  <2>q. QED
    BY <2>1, <2>3, <2>4 DEF AtMostOneCopy
<1>10. CheckpointIsTrue'
  <2>1. ASSUME NEW j \in Items, rows[j].docRev # NoRev
        PROVE  drive'[j] = [copies |-> 1, text |-> rows[j].docRev, shared |-> TRUE]
    <3>1. drive[j] = [copies |-> 1, text |-> rows[j].docRev, shared |-> TRUE]
      BY <2>1 DEF DeliveryInv, CheckpointIsTrue
    <3>2. CASE j # i
      BY <1>3, <3>1, <3>2
    <3>3. CASE j = i
      <4>1. drive[i].text = rows[i].docRev /\ drive[i].shared /\ rows[i].docRev = q.rev
        BY <1>2, <2>1, <3>1, <3>3
      <4>2. drive'[i].copies = 1 /\ drive'[i].text = rows[i].docRev /\ drive'[i].shared
        BY <1>3, <4>1
      <4>q. QED
        BY <1>4, <3>3, <4>2, DriveFields
    <3>q. QED
      BY <3>2, <3>3
  <2>q. QED
    BY <1>1, <2>1 DEF CheckpointIsTrue
<1>11. PublishedIsDelivered'
  BY <1>1, <1>2, <1>3 DEF DeliveryInv, PublishedIsDelivered
<1>q. QED
  BY <1>2, <1>7, <1>8, <1>9, <1>10, <1>11 DEF DeliveryInv

LEMMA NextDelivery ==
  TypeInv /\ TypeInv' /\ ClaimInv /\ DeliveryInv /\ [Next]_vars => DeliveryInv'
<1> SUFFICES ASSUME TypeInv, TypeInv', ClaimInv, DeliveryInv, [Next]_vars PROVE DeliveryInv'
  OBVIOUS
<1>0. ApprovalIsReviewed
  BY DEF ClaimInv
<1>1. ASSUME NEW w \in Workers, Publication(w) PROVE DeliveryInv'
  <2>1. CASE LostClaim(w)
    BY <2>1, LostClaimAside, AsideDelivery
  <2>2. CASE ReadNote(w) \/ EnterProvider(w) \/ ReadFails(w)
    BY <2>2, StepDelivery
  <2>3. CASE LookedUp(w) \/ WriteCreated(w) \/ ShareWritten(w) \/ Announce(w)
    BY <2>3, SendDelivery
  <2>4. CASE GiveUp(w)
    BY <2>4, GiveUpDelivery
  <2>5. CASE RecordGoogle(w) \/ RecordDiscord(w)
    BY <2>5, RecordDelivery
  <2>6. CASE Publish(w) \/ RecordFailure(w)
    BY <2>6, SettlingDelivery
  <2>q. QED
    BY <1>1, <2>1, <2>2, <2>3, <2>4, <2>5, <2>6 DEF Publication
<1>2. ASSUME NEW w \in Workers, Cycle(w) \/ Crash(w) \/ Restart(w) PROVE DeliveryInv'
  BY <1>0, <1>2, CycleKinds, AsideDelivery, WriteDelivery, ClaimingDelivery
<1>3. ASSUME NEW r \in Reviewers, Review(r) PROVE DeliveryInv'
  BY <1>0, <1>3, ReviewKinds, AsideDelivery, WriteDelivery
<1>4. ASSUME NEW q \in wire, Apply(q) \/ Refuse(q) PROVE DeliveryInv'
  BY <1>4, ApplyDelivery, RefuseDelivery
<1>5. ASSUME NEW i \in Items,
             EditNote(i) \/ RetryDue(i) \/ LeaseExpires(i) \/ RestoreItem(i)
      PROVE  DeliveryInv'
  BY <1>0, <1>5, EnvironmentKinds, AsideDelivery, WriteDelivery
<1>6. CASE UNCHANGED vars
  <2>1. Aside
    BY <1>6 DEF vars, fileVars, workerVars, reviewVars, Aside, Quiet, NoNewClaim,
       NobodyMoves, Holds
  <2>q. QED
    BY <2>1, AsideDelivery
<1>q. QED
  BY <1>1, <1>2, <1>3, <1>4, <1>5, <1>6 DEF Next

\* In every reachable state, for any number of meetings, processes and review
\* requests: no document and no message exists twice.
THEOREM AtMostOneCopyAlways == Spec => []AtMostOneCopy
<1>1. DeliveryInv => AtMostOneCopy
  BY DEF DeliveryInv
<1>q. QED
  BY InitTypes, NextTypes, InitClaim, NextClaim, InitDelivery, NextDelivery, <1>1, PTL DEF Spec

\* What the table calls published is delivered, in the approved revision.
THEOREM PublishedIsDeliveredAlways == Spec => []PublishedIsDelivered
<1>1. DeliveryInv => PublishedIsDelivered
  BY DEF DeliveryInv
<1>q. QED
  BY InitTypes, NextTypes, InitClaim, NextClaim, InitDelivery, NextDelivery, <1>1, PTL DEF Spec

\* A recorded document checkpoint is true, so that a retry may skip Google.
THEOREM CheckpointIsTrueAlways == Spec => []CheckpointIsTrue
<1>1. DeliveryInv => CheckpointIsTrue
  BY DEF DeliveryInv
<1>q. QED
  BY InitTypes, NextTypes, InitClaim, NextClaim, InitDelivery, NextDelivery, <1>1, PTL DEF Spec

\* Whatever a provider may still apply is approved, and its row cannot be decided
\* on before.
THEOREM OutstandingIsApprovedAlways == Spec => []OutstandingIsApproved
<1>1. DeliveryInv => OutstandingIsApproved
  BY DEF DeliveryInv, Sent, Open, OutstandingIsApproved
<1>q. QED
  BY InitTypes, NextTypes, InitClaim, NextClaim, InitDelivery, NextDelivery, <1>1, PTL DEF Spec

-----------------------------------------------------------------------------
(* What changes at the providers                                            *)

\* Document and message change only when a provider applies a request.
LEMMA ProviderSteps ==
  ASSUME [Next]_vars
  PROVE  \/ UNCHANGED <<drive, channel>>
         \/ \E q \in wire : Apply(q)
<1>1. ASSUME NEW w \in Workers, Publication(w) PROVE UNCHANGED <<drive, channel>>
  BY <1>1 DEF Publication, ReadNote, LostClaim, EnterProvider, ReadFails, LookedUp,
     WriteCreated, ShareWritten, Announce, GiveUp, RecordGoogle, RecordDiscord, Publish,
     RecordFailure, OnlyMoves, Send, providerVars
<1>2. ASSUME NEW w \in Workers, Cycle(w) \/ Crash(w) \/ Restart(w)
      PROVE  UNCHANGED <<drive, channel>>
  BY <1>2 DEF Cycle, BeginCycle, ScanArchive, ScanUpsert, ScanDone, Refused, SelectBlocked,
     ResumeBlocked, HealthChecked, ClaimNext, EndCycle, BeginExact, ClaimExact, NothingExact,
     TakeClaim, Crash, Restart, providerVars
<1>3. ASSUME NEW r \in Reviewers, Review(r) PROVE UNCHANGED <<drive, channel>>
  BY <1>3 DEF Review, BeginReview, RefreshRow, Decide, ReplaceNote, CommitNote, AbortReview,
     providerVars
<1>4. ASSUME NEW q \in wire, Refuse(q) PROVE UNCHANGED <<drive, channel>>
  BY <1>4 DEF Refuse
<1>5. ASSUME NEW i \in Items,
             EditNote(i) \/ RetryDue(i) \/ LeaseExpires(i) \/ RestoreItem(i)
      PROVE  UNCHANGED <<drive, channel>>
  BY <1>5 DEF EditNote, RetryDue, LeaseExpires, RestoreItem, providerVars
<1>6. CASE UNCHANGED vars
  BY <1>6 DEF vars, providerVars
<1>q. QED
  BY <1>1, <1>2, <1>3, <1>4, <1>5, <1>6 DEF Next

\* An applied request changes the text to the approved revision.
LEMMA AppliedTexts ==
  ASSUME TypeInv, DeliveryInv, NEW q \in wire, Apply(q), NEW i \in Items
  PROVE  /\ drive'[i].text # drive[i].text => drive'[i].text = rows[i].approved
         /\ channel'[i].text # channel[i].text => channel'[i].text = rows[i].approved
<1>1. Sent(q) /\ Effect(q)
  BY DEF DeliveryInv, Apply
<1>2. CASE i # q.item
  BY <1>1, <1>2, Effects
<1>3. CASE i = q.item
  BY <1>1, <1>3, Effects DEF Sent
<1>q. QED
  BY <1>2, <1>3

\* The texts change only to the revision that the row approves at that moment,
\* however late a request is applied.
THEOREM OnlyApprovedTextAlways == Spec => OnlyApprovedText
<1>1. TypeInv /\ DeliveryInv /\ [Next]_vars =>
        [\A i \in Items :
           /\ drive'[i].text # drive[i].text => drive'[i].text = rows[i].approved
           /\ channel'[i].text # channel[i].text => channel'[i].text = rows[i].approved]_vars
  BY ProviderSteps, AppliedTexts
<1>q. QED
  BY InitTypes, NextTypes, InitClaim, NextClaim, InitDelivery, NextDelivery, <1>1,
     PTL DEF Spec, OnlyApprovedText

-----------------------------------------------------------------------------
(* The approval gate                                                        *)

LEMMA GateInit == Init => Gate!Init
<1> SUFFICES ASSUME Init PROVE Gate!Init
  OBVIOUS
<1>1. \A i \in Items : /\ rows[i].approved = NoRev /\ rows[i].status = "absent"
                       /\ rows[i].failure = "none"
                       /\ drive[i].copies = 0 /\ drive[i].text = NoRev
  BY DEF Init, NoRow, NoDoc
<1>2. OpenItems = {} /\ LostItems = {}
  BY <1>1 DEF OpenItems, LostItems, Open, Uncertain
<1>3. Granted = [i \in Items |-> NoRev]
  BY <1>1 DEF Granted
<1>4. /\ Documents = [i \in Items |-> [copies |-> 0, text |-> NoRev]]
      /\ channel = [i \in Items |-> [copies |-> 0, text |-> NoRev]]
  BY <1>1 DEF Documents, Init, NoMessage
<1>q. QED
  BY <1>2, <1>3, <1>4 DEF Gate!Init, Gate!Nothing

\* The gate sees only approvals, statuses and failures of the rows.
LEMMA SameRows ==
  ASSUME \A i \in Items : /\ rows'[i].approved = rows[i].approved
                          /\ rows'[i].status = rows[i].status
                          /\ rows'[i].failure = rows[i].failure
  PROVE  UNCHANGED <<Granted, OpenItems, LostItems>>
  BY DEF Granted, OpenItems, LostItems, Open, Uncertain

\* What it says of the gate that no publication is open.
LEMMA NothingOpen ==
  ASSUME MayWrite
  PROVE  OpenItems = {} /\ LostItems = {}
  BY DEF MayWrite, NoUncertainty, OpenItems, LostItems, Open

LEMMA WriteGate ==
  ASSUME TypeInv, TypeInv', Write, UNCHANGED <<drive, channel>>
  PROVE  Gate!Withdraw \/ \E i \in Items : Gate!Grant(i)
<1>1. OpenItems = {} /\ LostItems = {}
  BY NothingOpen DEF Write
<1>2. OpenItems' = {} /\ LostItems' = {}
  BY DEF Write, OpenItems, LostItems, Open
<1>3. UNCHANGED <<Documents, channel>>
  BY DEF Documents
<1>4. CASE \A i \in Items : rows'[i].approved \in {rows[i].approved, NoRev}
  <2> DEFINE dropped == {i \in Items : rows'[i].approved # rows[i].approved}
  <2>1. dropped \in SUBSET Items
    OBVIOUS
  <2>2. \A i \in Items : rows'[i].approved = IF i \in dropped THEN NoRev ELSE Granted[i]
    BY <1>4 DEF Granted
  <2> HIDE DEF dropped
  <2>3. Granted' = [i \in Items |-> IF i \in dropped THEN NoRev ELSE Granted[i]]
    BY <2>2 DEF Granted
  <2>q. QED
    BY <1>1, <1>2, <1>3, <2>1, <2>3 DEF Gate!Withdraw
<1>5. ASSUME NEW i \in Items, rows'[i].approved \in Revisions,
             \A j \in Items \ {i} : rows'[j].approved = rows[j].approved
      PROVE  Gate!Grant(i)
  <2>1. PICK rev \in Revisions : rev = rows'[i].approved
    BY <1>5
  <2>2. Granted' = [Granted EXCEPT ![i] = rev]
    BY <1>5, <2>1 DEF Granted
  <2>q. QED
    BY <1>1, <1>2, <1>3, <2>2 DEF Gate!Grant
<1>q. QED
  BY <1>4, <1>5 DEF Write, Decided

LEMMA ClaimingGate ==
  ASSUME TypeInv, TypeInv', NEW w \in Workers, NEW i \in Items, Claiming(w, i),
         UNCHANGED <<drive, channel>>
  PROVE  Gate!Open(i)
<1>1. OpenItems = {} /\ LostItems = {}
  BY NothingOpen DEF Claiming
<1>2. /\ rows'[i] = Claim(rows[i]) /\ \A j \in Items \ {i} : rows'[j] = rows[j]
      /\ rows[i] \in Row /\ NoRev \in MaybeRev /\ "none" \in Failure
  BY DEF Claiming, TypeInv, TypeOK, MaybeRev, Failure
<1>3. /\ rows'[i].status = "publishing" /\ rows'[i].approved = rows[i].approved
      /\ rows'[i].failure = rows[i].failure
  BY <1>2, RowFields
<1>4. rows[i].approved # NoRev
  <2>1. RowSane(rows'[i])
    BY DEF TypeInv
  <2>q. QED
    BY <1>3, <2>1 DEF RowSane
<1>5. OpenItems' = {i} /\ LostItems' = {}
  BY <1>2, <1>3 DEF Claiming, MayWrite, NoUncertainty, OpenItems, LostItems, Open, Uncertain
<1>6. UNCHANGED <<Granted, Documents, channel>>
  BY <1>2, <1>3 DEF Granted, Documents
<1>7. Granted[i] # NoRev
  BY <1>4 DEF Granted
<1>q. QED
  BY <1>1, <1>5, <1>6, <1>7 DEF Gate!Open

LEMMA SettlingGate ==
  ASSUME TypeInv, ClaimInv, NEW w \in Workers, Settling(w), UNCHANGED <<drive, channel>>
  PROVE  Gate!Close \/ \E i \in Items : Gate!Lose(i)
<1>1. PICK i \in Items : i = job[w]
  BY HolderIsAlone DEF Settling
<1>2. /\ Open(i) /\ \A j \in Items : Open(j) => j = i
      /\ \A j \in Items : ~Uncertain(j)
  BY <1>1, HolderIsAlone DEF Settling, MayRecord, NoUncertainty
<1>3. OpenItems = {i} /\ LostItems = {}
  BY <1>2 DEF OpenItems, LostItems
<1>4. PICK s \in {MarkPublished(rows[i]), MarkFailure(rows[i], outcome[w])} :
        rows'[i] = s /\ \A j \in Items \ {i} : rows'[j] = rows[j]
  BY <1>1 DEF Settling, TypeInv, TypeOK
<1>5. s.status # "publishing" /\ s.approved = rows[i].approved
  <2>1. rows[i] \in Row /\ NoRev \in MaybeRev /\ outcome[w] \in Failure
    BY DEF TypeInv, TypeOK, MaybeRev
  <2>q. QED
    BY <1>4, <2>1, RowFields
<1>6. UNCHANGED <<Granted, Documents, channel>>
  BY <1>4, <1>5 DEF Granted, Documents
<1>7. CASE s.failure = "uncertain"
  <2>1. OpenItems' = {i} /\ LostItems' = {i}
    BY <1>2, <1>4, <1>7 DEF OpenItems, LostItems, Open, Uncertain
  <2>q. QED
    BY <1>3, <1>6, <2>1 DEF Gate!Lose
<1>8. CASE s.failure # "uncertain"
  <2>1. OpenItems' = {} /\ LostItems' = {}
    BY <1>2, <1>4, <1>5, <1>8 DEF OpenItems, LostItems, Open, Uncertain
  <2>q. QED
    BY <1>3, <1>6, <2>1 DEF Gate!Close
<1>q. QED
  BY <1>7, <1>8

LEMMA ApplyGate ==
  ASSUME TypeInv, TypeInv', DeliveryInv, NEW q \in wire, Apply(q)
  PROVE  \/ UNCHANGED <<Granted, OpenItems, LostItems, Documents, channel>>
         \/ \E i \in Items : \/ Gate!CreateDocument(i) \/ Gate!FillDocument(i)
                             \/ Gate!Announce(i)
<1>1. PICK i \in Items : i = q.item
  BY DEF TypeInv, TypeOK, Request
<1>2. Sent(q) /\ Effect(q) /\ rows' = rows
  BY DEF DeliveryInv, Apply
<1>3. /\ \A j \in Items \ {i} : drive'[j] = drive[j] /\ channel'[j] = channel[j]
      /\ drive'[i].copies = 1
      /\ drive'[i].text = IF q.kind = "write" THEN q.rev ELSE drive[i].text
      /\ IF q.kind \in {"post", "edit"}
         THEN channel'[i].copies = 1 /\ channel'[i].text = q.rev
         ELSE channel'[i] = channel[i]
      /\ q.kind \in {"post", "edit"} => drive'[i] = drive[i]
  BY <1>1, <1>2, Effects
<1>4. UNCHANGED <<Granted, OpenItems, LostItems>>
  BY <1>2 DEF Granted, OpenItems, LostItems, Open, Uncertain
<1>5. /\ i \in OpenItems /\ Granted[i] = q.rev /\ q.kind \in Waiting
      /\ q.kind = "create" => drive[i].copies = 0
      /\ q.kind \in {"write", "share"} => drive[i].copies = 1
      /\ q.kind \in {"post", "edit"} => Delivered(i, q.rev)
  BY <1>1, <1>2 DEF Sent, OpenItems, Granted, TypeInv, TypeOK, Request
<1>6. /\ channel \in [Items -> Channel] /\ channel' \in [Items -> Channel]
      /\ \A j \in Items : Documents[j] = [copies |-> drive[j].copies, text |-> drive[j].text]
  BY DEF TypeInv, TypeOK, Documents
<1>7. CASE q.kind = "create"
  <2>1. Documents' = [Documents EXCEPT ![i].copies = 1]
    BY <1>3, <1>7 DEF Documents
  <2>2. channel' = channel
    BY <1>3, <1>6, <1>7
  <2>3. Documents[i].copies = 0
    BY <1>1, <1>5, <1>7 DEF Documents
  <2>4. Gate!CreateDocument(i)
    BY <1>4, <1>5, <2>1, <2>2, <2>3 DEF Gate!CreateDocument
  <2>q. QED
    BY <2>4
<1>8. CASE q.kind = "write"
  <2>1. Documents' = [Documents EXCEPT ![i].text = Granted[i]]
    BY <1>3, <1>5, <1>8 DEF Documents
  <2>2. channel' = channel
    BY <1>3, <1>6, <1>8
  <2>3. Documents[i].copies = 1
    BY <1>1, <1>5, <1>8 DEF Documents
  <2>4. Gate!FillDocument(i)
    BY <1>4, <1>5, <2>1, <2>2, <2>3 DEF Gate!FillDocument
  <2>q. QED
    BY <2>4
<1>9. CASE q.kind = "share"
  <2>1. Documents' = Documents
    BY <1>3, <1>5, <1>9 DEF Documents
  <2>2. channel' = channel
    BY <1>3, <1>6, <1>9
  <2>q. QED
    BY <1>4, <2>1, <2>2
<1>10. CASE q.kind \in {"post", "edit"}
  <2>1. Documents' = Documents
    BY <1>3, <1>10 DEF Documents
  <2>2. Documents[i] = [copies |-> 1, text |-> Granted[i]]
    BY <1>5, <1>6, <1>10 DEF Delivered
  <2>3. channel'[i] = [copies |-> 1, text |-> Granted[i]]
    BY <1>3, <1>5, <1>6, <1>10, ChannelFields
  <2>4. channel' = [channel EXCEPT ![i] = [copies |-> 1, text |-> Granted[i]]]
    BY <1>3, <1>6, <2>3
  <2>5. Gate!Announce(i)
    BY <1>4, <1>5, <2>1, <2>2, <2>4 DEF Gate!Announce
  <2>q. QED
    BY <2>5
<1>q. QED
  BY <1>5, <1>7, <1>8, <1>9, <1>10 DEF Waiting

\* Every step of the store, the processes, the reviewers and the providers is a
\* step of the gate or leaves it alone.
LEMMA GateStep ==
  ASSUME TypeInv, TypeInv', ClaimInv, DeliveryInv, [Next]_vars
  PROVE  [Gate!Next]_(Gate!gateVars)
<1>1. CASE \E q \in wire : Apply(q)
  BY <1>1, ApplyGate DEF Gate!Next, Gate!gateVars
<1>2. CASE UNCHANGED <<drive, channel>>
  <2>1. StepKind
    BY StepKinds DEF ClaimInv
  <2>2. UNCHANGED <<Documents, channel>>
    BY <1>2 DEF Documents
  <2>3. CASE Quiet
    <3>1. \A i \in Items : /\ rows'[i].approved = rows[i].approved
                           /\ rows'[i].status = rows[i].status
                           /\ rows'[i].failure = rows[i].failure
      BY <2>3, EvidenceFields DEF Quiet, TypeInv, TypeOK
    <3>q. QED
      BY <2>2, <3>1, SameRows DEF Gate!gateVars
  <2>4. CASE Write
    BY <1>2, <2>4, WriteGate DEF Gate!Next
  <2>5. ASSUME NEW w \in Workers, NEW i \in Items, Claiming(w, i) PROVE Gate!Next
    BY <1>2, <2>5, ClaimingGate DEF Gate!Next
  <2>6. ASSUME NEW w \in Workers, Checkpointing(w) PROVE UNCHANGED <<Granted, OpenItems, LostItems>>
    <3>1. PICK i \in Items : i = job[w]
      BY <2>6, HolderIsAlone DEF Checkpointing
    <3>2. PICK s \in {RecordDoc(rows[i]), RecordMessage(rows[i])} :
            rows'[i] = s /\ \A j \in Items \ {i} : rows'[j] = rows[j]
      BY <2>6, <3>1 DEF Checkpointing, TypeInv, TypeOK
    <3>3. /\ s.approved = rows[i].approved /\ s.status = rows[i].status
          /\ s.failure = rows[i].failure
      <4>1. rows[i] \in Row /\ NoRev \in MaybeRev /\ "none" \in Failure
        BY DEF TypeInv, TypeOK, MaybeRev, Failure
      <4>q. QED
        BY <3>2, <4>1, RowFields
    <3>q. QED
      BY <3>2, <3>3, SameRows
  <2>7. ASSUME NEW w \in Workers, Settling(w) PROVE Gate!Next
    BY <1>2, <2>7, SettlingGate DEF Gate!Next
  <2>q. QED
    BY <2>1, <2>2, <2>3, <2>4, <2>5, <2>6, <2>7 DEF StepKind, Gate!gateVars
<1>q. QED
  BY <1>1, <1>2, ProviderSteps

\* The publication implements the approval gate, for any number of meetings,
\* processes, review requests and crashes: one publication open at a time, only
\* of the granted revision, the announcement once and after the document.
THEOREM PublicationImplementsGate == Spec => ImplementsGate
<1>1. TypeInv /\ TypeInv' /\ ClaimInv /\ DeliveryInv /\ [Next]_vars
        => [Gate!Next]_(Gate!gateVars)
  BY GateStep
<1>q. QED
  BY InitTypes, NextTypes, InitClaim, NextClaim, InitDelivery, NextDelivery, GateInit, <1>1,
     PTL DEF Spec, ImplementsGate, Gate!Spec
=============================================================================
