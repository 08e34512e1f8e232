------------------------------ MODULE RowProofs ------------------------------
(* Lemmas about the store operations on one row.                            *)
EXTENDS PublicationRows, TLAPS

\* Every store operation turns a row into a row.
LEMMA RowOperations ==
  ASSUME NEW r \in Row, NEW rev \in MaybeRev, NEW code \in Failure
  PROVE  /\ Upserted(r, rev) \in Row
         /\ Approve(r, rev) \in Row
         /\ Reject(r) \in Row
         /\ Archive(r) \in Row
         /\ Restore(r) \in Row
         /\ ArchivedByScan(r) \in Row
         /\ Claim(r) \in Row
         /\ RecordDoc(r) \in Row
         /\ RecordMessage(r) \in Row
         /\ MarkPublished(r) \in Row
         /\ MarkFailure(r, code) \in Row
         /\ ResumeAuth(r) \in Row
<1> USE DEF Row, Status, Failure, ProviderFailure
<1>0. NoRev \in MaybeRev
  BY DEF MaybeRev
<1>1. Settled(r) \in Row
  BY DEF Settled
<1>2. Archive(r) \in Row
  BY <1>0, <1>1 DEF Archive
<1>3. NoRow \in Row
  BY <1>0 DEF NoRow
<1>4. Upserted(r, rev) \in Row
  <2>1. [NoRow EXCEPT !.status = "pending_review", !.source = rev] \in Row
    BY <1>3
  <2>2. [Settled(r) EXCEPT !.status = "pending_review", !.source = rev,
                           !.approved = NoRev, !.docRev = NoRev] \in Row
    BY <1>0, <1>1
  <2>q. QED
    BY <2>1, <2>2 DEF Upserted
<1>5. Approve(r, rev) \in Row
  BY <1>1 DEF Approve
<1>6. Reject(r) \in Row /\ Restore(r) \in Row
  BY <1>0 DEF Reject, Restore
<1>7. ArchivedByScan(r) \in Row
  BY <1>2 DEF ArchivedByScan
<1>8. Claim(r) \in Row
  <2>1. \A n \in Nat : [r EXCEPT !.status = "publishing", !.lease = "live",
                                 !.attempts = n] \in Row
    OBVIOUS
  <2>2. r.attempts + 1 \in Nat
    BY SMT
  <2>q. QED
    BY <2>1, <2>2, Zenon DEF Claim
<1>9. RecordDoc(r) \in Row /\ RecordMessage(r) \in Row
  BY DEF RecordDoc, RecordMessage
<1>10. MarkPublished(r) \in Row /\ ResumeAuth(r) \in Row
  BY <1>1 DEF MarkPublished, ResumeAuth
<1>11. MarkFailure(r, code) \in Row
  BY DEF MarkFailure
<1>q. QED
  BY <1>2, <1>4, <1>5, <1>6, <1>7, <1>8, <1>9, <1>10, <1>11

\* The fields the meeting-level proofs look at, after every store operation.
LEMMA RowFields ==
  ASSUME NEW r \in Row, NEW rev \in MaybeRev, NEW code \in Failure
  PROVE  /\ Archive(r).status = "archived" /\ Archive(r).approved = NoRev
         /\ Archive(r).source = r.source /\ Archive(r).failure = "none"
         /\ Reject(r).status = "rejected" /\ Reject(r).approved = NoRev
         /\ Reject(r).source = r.source /\ Reject(r).failure = r.failure
         /\ Restore(r).status = "pending_review" /\ Restore(r).approved = r.approved
         /\ Restore(r).source = r.source /\ Restore(r).failure = r.failure
         /\ Approve(r, rev).status = "approved" /\ Approve(r, rev).approved = rev
         /\ Approve(r, rev).source = r.source /\ Approve(r, rev).failure = "none"
         /\ Claim(r).status = "publishing" /\ Claim(r).approved = r.approved
         /\ Claim(r).source = r.source /\ Claim(r).failure = r.failure
         /\ RecordDoc(r).status = r.status /\ RecordDoc(r).approved = r.approved
         /\ RecordDoc(r).source = r.source /\ RecordDoc(r).failure = r.failure
         /\ RecordDoc(r).attempts = r.attempts
         /\ RecordMessage(r).status = r.status
         /\ RecordMessage(r).approved = r.approved
         /\ RecordMessage(r).source = r.source
         /\ RecordMessage(r).failure = r.failure
         /\ RecordMessage(r).attempts = r.attempts
         /\ MarkPublished(r).status = "published"
         /\ MarkPublished(r).approved = r.approved
         /\ MarkPublished(r).source = r.source /\ MarkPublished(r).failure = "none"
         /\ MarkFailure(r, code).status \in {"approved", "blocked"}
         /\ MarkFailure(r, code).approved = r.approved
         /\ MarkFailure(r, code).source = r.source
         /\ MarkFailure(r, code).failure = code
         /\ ResumeAuth(r).status = "approved" /\ ResumeAuth(r).approved = r.approved
         /\ ResumeAuth(r).source = r.source /\ ResumeAuth(r).failure = "none"
<1> USE DEF Row
<1>1. /\ Settled(r) \in Row /\ Settled(r).failure = "none"
      /\ Settled(r).source = r.source /\ Settled(r).approved = r.approved
  BY DEF Settled, Status, Failure
<1>2. /\ Archive(r).status = "archived" /\ Archive(r).approved = NoRev
      /\ Archive(r).source = r.source /\ Archive(r).failure = "none"
  BY <1>1 DEF Archive
<1>3. /\ Reject(r).status = "rejected" /\ Reject(r).approved = NoRev
      /\ Reject(r).source = r.source /\ Reject(r).failure = r.failure
  BY DEF Reject
<1>4. /\ Restore(r).status = "pending_review" /\ Restore(r).approved = r.approved
      /\ Restore(r).source = r.source /\ Restore(r).failure = r.failure
  BY DEF Restore
<1>5. /\ Approve(r, rev).status = "approved" /\ Approve(r, rev).approved = rev
      /\ Approve(r, rev).source = r.source /\ Approve(r, rev).failure = "none"
  BY <1>1 DEF Approve
<1>6. /\ Claim(r).status = "publishing" /\ Claim(r).approved = r.approved
      /\ Claim(r).source = r.source /\ Claim(r).failure = r.failure
  BY DEF Claim
<1>7. /\ RecordDoc(r).status = r.status /\ RecordDoc(r).approved = r.approved
      /\ RecordDoc(r).source = r.source /\ RecordDoc(r).failure = r.failure
      /\ RecordDoc(r).attempts = r.attempts
  BY DEF RecordDoc
<1>8. /\ RecordMessage(r).status = r.status
      /\ RecordMessage(r).approved = r.approved
      /\ RecordMessage(r).source = r.source
      /\ RecordMessage(r).failure = r.failure
      /\ RecordMessage(r).attempts = r.attempts
  BY DEF RecordMessage
<1>9. /\ MarkPublished(r).status = "published"
      /\ MarkPublished(r).approved = r.approved
      /\ MarkPublished(r).source = r.source /\ MarkPublished(r).failure = "none"
  BY <1>1 DEF MarkPublished
<1>10. /\ MarkFailure(r, code).status \in {"approved", "blocked"}
       /\ MarkFailure(r, code).approved = r.approved
       /\ MarkFailure(r, code).source = r.source
       /\ MarkFailure(r, code).failure = code
  BY DEF MarkFailure
<1>11. /\ ResumeAuth(r).status = "approved" /\ ResumeAuth(r).approved = r.approved
       /\ ResumeAuth(r).source = r.source /\ ResumeAuth(r).failure = "none"
  BY <1>1 DEF ResumeAuth
<1>q. QED
  BY <1>2, <1>3, <1>4, <1>5, <1>6, <1>7, <1>8, <1>9, <1>10, <1>11

\* A scan or a refresh leaves a row alone or sends it back to review without an
\* approval; an excluded note leaves it alone or archives it.
LEMMA ScanFields ==
  ASSUME NEW r \in Row, NEW rev \in MaybeRev
  PROVE  /\ \/ Upserted(r, rev) = r
            \/ /\ Upserted(r, rev).status = "pending_review"
               /\ Upserted(r, rev).approved = NoRev
               /\ Upserted(r, rev).failure = "none"
         /\ \/ ArchivedByScan(r) = r
            \/ /\ ArchivedByScan(r).status = "archived"
               /\ ArchivedByScan(r).approved = NoRev
               /\ ArchivedByScan(r).failure = "none"
<1>1. Settled(r) \in Row /\ Settled(r).failure = "none"
  BY DEF Settled, Row, Status, Failure
<1>2. NoRow \in Row /\ NoRow.failure = "none" /\ NoRow.approved = NoRev
  BY DEF NoRow, Row, MaybeRev, Status, Failure
<1>3. CASE r.status = "absent"
  <2>1. Upserted(r, rev) = [NoRow EXCEPT !.status = "pending_review", !.source = rev]
    BY <1>3 DEF Upserted
  <2>2. /\ Upserted(r, rev).status = "pending_review"
        /\ Upserted(r, rev).approved = NoRev
        /\ Upserted(r, rev).failure = "none"
    BY <1>2, <2>1 DEF Row
  <2>q. QED
    BY <1>3, <2>2 DEF ArchivedByScan
<1>4. CASE r.status # "absent"
  <2>1. CASE r.source # rev
    <3>1. Upserted(r, rev) = [Settled(r) EXCEPT !.status = "pending_review",
                                !.source = rev, !.approved = NoRev, !.docRev = NoRev]
      BY <1>4, <2>1 DEF Upserted
    <3>2. /\ Upserted(r, rev).status = "pending_review"
          /\ Upserted(r, rev).approved = NoRev
          /\ Upserted(r, rev).failure = "none"
      BY <1>1, <3>1 DEF Row
    <3>q. QED
      BY <3>2, RowFields DEF ArchivedByScan, Failure
  <2>2. CASE r.source = rev
    BY <1>4, <2>2, RowFields DEF Upserted, ArchivedByScan, Failure
  <2>q. QED
    BY <2>1, <2>2
<1>q. QED
  BY <1>3, <1>4

\* The recorded message and the document checkpoint, after every operation.
LEMMA RowRecords ==
  ASSUME NEW r \in Row, NEW rev \in MaybeRev, NEW code \in Failure
  PROVE  /\ \A s \in {Approve(r, rev), Reject(r), Archive(r), Restore(r), Claim(r),
                      ResumeAuth(r), MarkPublished(r), MarkFailure(r, code),
                      ArchivedByScan(r)} :
              s.msg = r.msg /\ s.docRev = r.docRev
         /\ RecordDoc(r).msg = r.msg /\ RecordDoc(r).docRev = r.source
         /\ RecordMessage(r).msg /\ RecordMessage(r).docRev = r.docRev
         /\ (r.status = "absent" => ~r.msg) => Upserted(r, rev).msg = r.msg
         /\ Upserted(r, rev) # r => Upserted(r, rev).docRev = NoRev
<1>1. Settled(r) \in Row /\ Settled(r).msg = r.msg /\ Settled(r).docRev = r.docRev
  BY DEF Settled, Row, Status, Failure
<1>2. /\ NoRow \in Row /\ NoRow.msg = FALSE /\ NoRow.docRev = NoRev
  BY DEF NoRow, Row, MaybeRev, Status, Failure
<1>3. /\ Approve(r, rev).msg = r.msg /\ Approve(r, rev).docRev = r.docRev
      /\ Archive(r).msg = r.msg /\ Archive(r).docRev = r.docRev
      /\ ResumeAuth(r).msg = r.msg /\ ResumeAuth(r).docRev = r.docRev
      /\ MarkPublished(r).msg = r.msg /\ MarkPublished(r).docRev = r.docRev
  BY <1>1 DEF Approve, Archive, ResumeAuth, MarkPublished, Row
<1>4. /\ Reject(r).msg = r.msg /\ Reject(r).docRev = r.docRev
      /\ Restore(r).msg = r.msg /\ Restore(r).docRev = r.docRev
      /\ Claim(r).msg = r.msg /\ Claim(r).docRev = r.docRev
      /\ MarkFailure(r, code).msg = r.msg /\ MarkFailure(r, code).docRev = r.docRev
  BY DEF Reject, Restore, Claim, MarkFailure, Row
<1>5. ArchivedByScan(r).msg = r.msg /\ ArchivedByScan(r).docRev = r.docRev
  BY <1>3 DEF ArchivedByScan
<1>6. /\ RecordDoc(r).msg = r.msg /\ RecordDoc(r).docRev = r.source
      /\ RecordMessage(r).msg /\ RecordMessage(r).docRev = r.docRev
  BY DEF RecordDoc, RecordMessage, Row
<1>7. CASE r.status = "absent"
  <2>1. /\ Upserted(r, rev).docRev = NoRev /\ ~Upserted(r, rev).msg
        /\ Upserted(r, rev).msg \in BOOLEAN
    BY <1>2, <1>7 DEF Upserted, Row
  <2>2. r.msg \in BOOLEAN
    BY DEF Row
  <2>3. (r.status = "absent" => ~r.msg) => Upserted(r, rev).msg = r.msg
    BY <1>7, <2>1, <2>2
  <2>q. QED
    BY <1>3, <1>4, <1>5, <1>6, <2>1, <2>3
<1>8. CASE r.status # "absent" /\ r.source = rev
  <2>1. Upserted(r, rev) = r
    BY <1>8 DEF Upserted
  <2>q. QED
    BY <1>3, <1>4, <1>5, <1>6, <2>1
<1>9. CASE r.status # "absent" /\ r.source # rev
  <2>1. Upserted(r, rev) = [Settled(r) EXCEPT !.status = "pending_review",
                              !.source = rev, !.approved = NoRev, !.docRev = NoRev]
    BY <1>9 DEF Upserted
  <2>2. Upserted(r, rev).msg = r.msg /\ Upserted(r, rev).docRev = NoRev
    BY <1>1, <2>1 DEF Row
  <2>q. QED
    BY <1>3, <1>4, <1>5, <1>6, <2>2
<1>q. QED
  BY <1>7, <1>8, <1>9

\* The operations keep a row sane under the conditions their callers check.
LEMMA SaneOperations ==
  ASSUME NEW r \in Row, RowSane(r), NEW rev \in MaybeRev, NEW code \in Failure
  PROVE  /\ RowSane(Upserted(r, rev)) /\ RowSane(ArchivedByScan(r)) /\ RowSane(Archive(r))
         /\ r.failure # "uncertain" => RowSane(Reject(r)) /\ RowSane(Restore(r))
         /\ r.source = rev /\ rev # NoRev => RowSane(Approve(r, rev))
         /\ r.approved # NoRev => /\ RowSane(ResumeAuth(r))
                                 /\ RowSane(MarkPublished(r))
         /\ r.approved # NoRev => RowSane(MarkFailure(r, code))
         /\ r.approved # NoRev /\ r.failure # "uncertain" => RowSane(Claim(r))
         /\ RowSane(RecordDoc(r))
         /\ r.status # "absent" => RowSane(RecordMessage(r))
<1>1. /\ Upserted(r, rev).msg = r.msg
      /\ Upserted(r, rev) # r => Upserted(r, rev).docRev = NoRev
      /\ ArchivedByScan(r).msg = r.msg /\ ArchivedByScan(r).docRev = r.docRev
      /\ Archive(r).msg = r.msg /\ Archive(r).docRev = r.docRev
      /\ Reject(r).msg = r.msg /\ Reject(r).docRev = r.docRev
      /\ Restore(r).msg = r.msg /\ Restore(r).docRev = r.docRev
  BY RowRecords DEF RowSane
<1>2. /\ Approve(r, rev).docRev = r.docRev /\ Claim(r).docRev = r.docRev
      /\ ResumeAuth(r).docRev = r.docRev /\ MarkPublished(r).docRev = r.docRev
      /\ MarkFailure(r, code).docRev = r.docRev
      /\ RecordDoc(r).msg = r.msg /\ RecordDoc(r).docRev = r.source
      /\ RecordMessage(r).docRev = r.docRev
  BY RowRecords
<1>3. RowSane(Upserted(r, rev))
  BY <1>1, ScanFields DEF RowSane
<1>4. RowSane(ArchivedByScan(r)) /\ RowSane(Archive(r))
  BY <1>1, RowFields DEF RowSane, ArchivedByScan
<1>5. r.failure # "uncertain" => RowSane(Reject(r)) /\ RowSane(Restore(r))
  BY <1>1, RowFields DEF RowSane
<1>6. r.source = rev /\ rev # NoRev => RowSane(Approve(r, rev))
  BY <1>2, RowFields DEF RowSane
<1>7. r.approved # NoRev => RowSane(ResumeAuth(r)) /\ RowSane(MarkPublished(r))
  BY <1>2, RowFields DEF RowSane
<1>8. r.approved # NoRev => RowSane(MarkFailure(r, code))
  <2>1. code = "uncertain" => MarkFailure(r, code).status = "blocked"
    BY DEF MarkFailure, Row
  <2>q. QED
    BY <1>2, <2>1, RowFields DEF RowSane
<1>9. r.approved # NoRev /\ r.failure # "uncertain" => RowSane(Claim(r))
  BY <1>2, RowFields DEF RowSane
<1>10. /\ RowSane(RecordDoc(r))
       /\ r.status # "absent" => RowSane(RecordMessage(r))
  BY <1>2, RowFields DEF RowSane
<1>q. QED
  BY <1>3, <1>4, <1>5, <1>6, <1>7, <1>8, <1>9, <1>10
=============================================================================
