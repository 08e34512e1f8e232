--------------------------- MODULE CommunityProofs ---------------------------
(* The review service and the publisher of the community briefing keep      *)
(* their promises for any number of briefings, reviewers and publishers.    *)
EXTENDS CommunityProperties, TLAPS

-----------------------------------------------------------------------------
(* The inductive invariant of the review service                           *)

MaybeRev == Revisions \cup {NoRev}
Open == {"absent", "pending_review", "approved", "rejected"}
Closed == {"publishing", "published", "blocked"}
Pair == [briefing : MaybeRev, discord : MaybeRev]
Whole(rev) == [briefing |-> rev, discord |-> rev]

Row == [status : Open \cup Closed, draft : MaybeRev, approved : MaybeRev,
        leased : BOOLEAN, doc : BOOLEAN, message : BOOLEAN]

Mark == [phase : {"none", "generating", "committing", "finished"},
         by    : Reviewers \cup {NoOne}]

Task == [pc       : {"idle", "rewriting", "briefing", "discord", "row", "marker"},
         b        : Briefings \cup {NoOne},
         rev      : MaybeRev,
         action   : {"none", "save", "approve"},
         expected : SUBSET (MaybeRev \X (Open \cup Closed) \X MaybeRev \X Pair)]

ReviewTypes ==
  /\ row \in [Briefings -> Row]
  /\ files \in [Briefings -> Pair]
  /\ marker \in [Briefings -> Mark]
  /\ review \in [Reviewers -> Task]
  /\ \A v \in Reviewers : review[v].pc # "idle" => review[v].b \in Briefings

Writing == {"briefing", "discord", "row"}

\* Who replaces a pair holds the write lock, has put up the barrier, and the
\* briefing is not claimed: claims need the lock too.
WriterAlone(v) ==
  LET b == review[v].b
      pc == review[v].pc
  IN pc \in Writing =>
       /\ lock = v
       /\ marker[b] = [phase |-> "committing", by |-> v]
       /\ row[b].status \in Open
       /\ pc # "briefing" => files[b].briefing = review[v].rev
       /\ pc = "row" => files[b].discord = review[v].rev

\* Between the row and the marker: as long as the marker is its own, the pair it
\* has written is there.
WrittenIsWhole(v) ==
  LET b == review[v].b
  IN review[v].pc = "marker" /\ marker[b].by = v => files[b] = Whole(row[b].draft)

\* A revision that gives up never takes down somebody's barrier.
ReservesOnly(v) ==
  review[v].pc = "rewriting" /\ marker[review[v].b].by = v =>
    marker[review[v].b].phase # "committing"

ReviewInv ==
  /\ ReviewTypes
  /\ \A v \in Reviewers : WriterAlone(v) /\ WrittenIsWhole(v) /\ ReservesOnly(v)
  /\ TornPairIsMarked

-----------------------------------------------------------------------------
(* What the publisher does to a row                                        *)

LEMMA StatusFacts == Open \cap Closed = {} /\ "approved" \in Open /\ NoOne \notin Reviewers
BY CommunityAssumption DEF Open, Closed

\* A row moves on to its outcome, with the revisions it was approved with.
MovesOn(r, s) ==
  /\ s \in Row /\ s.draft = r.draft /\ s.approved = r.approved
  /\ \/ s.status = r.status
     \/ r.status = "approved" /\ s.status = "publishing"
     \/ r.status = "publishing" /\ s.status \in {"published", "blocked"}

LEMMA RowMoves ==
  ASSUME NEW r \in Row
  PROVE  /\ MovesOn(r, r)
         /\ MovesOn(r, [r EXCEPT !.doc = TRUE])
         /\ r.status = "approved" =>
              MovesOn(r, [r EXCEPT !.status = "publishing", !.leased = TRUE])
         /\ r.status = "publishing" =>
              /\ MovesOn(r, [r EXCEPT !.status = "published", !.message = TRUE, !.leased = FALSE])
              /\ MovesOn(r, [r EXCEPT !.status = "published", !.leased = FALSE, !.doc = TRUE,
                                      !.message = TRUE])
              /\ MovesOn(r, [r EXCEPT !.status = "blocked", !.leased = FALSE])
BY DEF MovesOn, Row, Open, Closed

\* A publisher, or the operator afterwards, moves rows on and does nothing else
\* to them; it does so only while nobody replaces a pair.
LEMMA PublisherRows ==
  ASSUME ReviewInv, Publish \/ Provider \/ Reconcile
  PROVE  /\ row' \in [Briefings -> Row]
         /\ \A b \in Briefings : MovesOn(row[b], row'[b])
         /\ row' = row \/ \A v \in Reviewers : review[v].pc \notin Writing
<1> USE DEF ReviewInv
<1>1. row \in [Briefings -> Row] /\ \A b \in Briefings : row[b] \in Row
  BY DEF ReviewTypes
<1>2. lock = NoOne => \A v \in Reviewers : review[v].pc \notin Writing
  BY StatusFacts DEF WriterAlone
<1>3. CASE row' = row
  BY <1>1, <1>3, RowMoves
<1>4. ASSUME NEW x, NEW s, row' = [row EXCEPT ![x] = s],
             x \in Briefings => MovesOn(row[x], s),
             \A v \in Reviewers : review[v].pc \notin Writing
      PROVE  /\ row' \in [Briefings -> Row]
             /\ \A b \in Briefings : MovesOn(row[b], row'[b])
  <2>1. x \in Briefings => s \in Row
    BY <1>4 DEF MovesOn
  <2>2. \A b \in Briefings : row'[b] = IF b = x THEN s ELSE row[b]
    BY <1>1, <1>4
  <2>3. \A b \in Briefings : MovesOn(row[b], row'[b])
    BY <1>1, <1>4, <2>2, RowMoves
  <2>q. QED
    BY <1>1, <1>4, <2>1, <2>3
<1>5. ASSUME NEW p \in Publishers, Claim(p) PROVE
         /\ row' \in [Briefings -> Row]
         /\ \A b \in Briefings : MovesOn(row[b], row'[b])
         /\ \A v \in Reviewers : review[v].pc \notin Writing
  <2> DEFINE x == pub[p].b
             s == [row[x] EXCEPT !.status = "publishing", !.leased = TRUE]
  <2>1. lock = NoOne /\ row[x].status = "approved" /\ row' = [row EXCEPT ![x] = s]
    BY <1>5 DEF Claim, Available
  <2>2. x \in Briefings => MovesOn(row[x], s)
    BY <1>1, <2>1, RowMoves
  <2> HIDE DEF x, s
  <2>q. QED
    BY <1>2, <1>4, <2>1, <2>2
<1>6. ASSUME NEW p \in Publishers, RecordGoogle(p) PROVE
         /\ row' \in [Briefings -> Row]
         /\ \A b \in Briefings : MovesOn(row[b], row'[b])
         /\ \A v \in Reviewers : review[v].pc \notin Writing
  <2> DEFINE x == pub[p].b
             s == [row[x] EXCEPT !.doc = TRUE]
  <2>1. lock = NoOne /\ row' = [row EXCEPT ![x] = s]
    BY <1>6 DEF RecordGoogle
  <2>2. x \in Briefings => MovesOn(row[x], s)
    BY <1>1, <2>1, RowMoves
  <2> HIDE DEF x, s
  <2>q. QED
    BY <1>2, <1>4, <2>1, <2>2
<1>7. ASSUME NEW p \in Publishers, MarkPublished(p) PROVE
         /\ row' \in [Briefings -> Row]
         /\ \A b \in Briefings : MovesOn(row[b], row'[b])
         /\ \A v \in Reviewers : review[v].pc \notin Writing
  <2> DEFINE x == pub[p].b
             s == [row[x] EXCEPT !.status = "published", !.message = TRUE, !.leased = FALSE]
  <2>1. lock = NoOne /\ row[x].status = "publishing" /\ row' = [row EXCEPT ![x] = s]
    BY <1>7 DEF MarkPublished, Owned
  <2>2. x \in Briefings => MovesOn(row[x], s)
    BY <1>1, <2>1, RowMoves
  <2> HIDE DEF x, s
  <2>q. QED
    BY <1>2, <1>4, <2>1, <2>2
<1>8. ASSUME NEW p \in Publishers, MarkFailure(p) PROVE
         /\ row' \in [Briefings -> Row]
         /\ \A b \in Briefings : MovesOn(row[b], row'[b])
         /\ \A v \in Reviewers : review[v].pc \notin Writing
  <2> DEFINE x == pub[p].b
             s == [row[x] EXCEPT !.status = "blocked", !.leased = FALSE]
  <2>1. lock = NoOne /\ row[x].status = "publishing" /\ row' = [row EXCEPT ![x] = s]
    BY <1>8 DEF MarkFailure, Owned
  <2>2. x \in Briefings => MovesOn(row[x], s)
    BY <1>1, <2>1, RowMoves
  <2> HIDE DEF x, s
  <2>q. QED
    BY <1>2, <1>4, <2>1, <2>2
<1>9. CASE Publish
  <2>1. PICK p \in Publishers :
          row' = row \/ Claim(p) \/ RecordGoogle(p) \/ MarkPublished(p) \/ MarkFailure(p)
    BY <1>9 DEF Publish, ClaimFails, Begin, ReadBriefing, ReadDiscord, Send, NotSent,
                Answered, Refused, GiveUp, NotRecorded, Complete, LeaseExpires, Interrupt
  <2>q. QED
    BY <1>3, <1>5, <1>6, <1>7, <1>8, <2>1
<1>10. CASE Provider
  BY <1>3, <1>10 DEF Provider, reviewVars
<1>11. CASE Reconcile
  <2>1. \A v \in Reviewers : review[v].pc \notin Writing
    BY <1>11 DEF Reconcile, Writing
  <2>2. CASE row' # row
    <3>1. PICK b \in Briefings :
            /\ row[b].status = "publishing"
            /\ row' = [row EXCEPT ![b] =
                 IF Delivered(b)
                   THEN [@ EXCEPT !.status = "published", !.leased = FALSE, !.doc = TRUE, !.message = TRUE]
                   ELSE [@ EXCEPT !.status = "blocked", !.leased = FALSE]]
      BY <1>11, <2>2 DEF Reconcile
    <3>2. /\ MovesOn(row[b], [row[b] EXCEPT !.status = "published", !.leased = FALSE,
                                            !.doc = TRUE, !.message = TRUE])
          /\ MovesOn(row[b], [row[b] EXCEPT !.status = "blocked", !.leased = FALSE])
      BY <1>1, <3>1, RowMoves
    <3>q. QED
      BY <1>4, <2>1, <3>1, <3>2
  <2>q. QED
    BY <1>3, <2>1, <2>2
<1>q. QED
  BY <1>9, <1>10, <1>11

\* The publisher's side leaves files, markers and reviewers as they are.
LEMMA PublisherKeepsReview ==
  ASSUME ReviewInv, Publish \/ Provider \/ Reconcile
  PROVE  ReviewInv'
<1> USE DEF ReviewInv
<1>1. UNCHANGED <<files, marker, lock, review>>
  BY DEF Publish, Provider, Reconcile, reviewVars
<1>2. /\ row' \in [Briefings -> Row]
      /\ \A b \in Briefings : row'[b].draft = row[b].draft
      /\ row' = row \/ \A v \in Reviewers : review[v].pc \notin Writing
  BY PublisherRows DEF MovesOn
<1>3. ReviewTypes'
  BY <1>1, <1>2 DEF ReviewTypes
<1>4. ASSUME NEW v \in Reviewers
      PROVE  WriterAlone(v)' /\ WrittenIsWhole(v)' /\ ReservesOnly(v)'
  <2>1. WriterAlone(v)'
    BY <1>1, <1>2 DEF WriterAlone
  <2>2. WrittenIsWhole(v)'
    BY <1>1, <1>2 DEF WrittenIsWhole, ReviewTypes
  <2>q. QED
    BY <1>1, <2>1, <2>2 DEF ReservesOnly
<1>5. TornPairIsMarked'
  BY <1>1, <1>2 DEF TornPairIsMarked
<1>q. QED
  BY <1>3, <1>4, <1>5

-----------------------------------------------------------------------------
(* The steps of the review service                                         *)

LEMMA BeginKeeps ==
  ASSUME ReviewInv, NEW v \in Reviewers, NEW b \in Briefings, NEW rev \in Revisions,
         NEW action \in {"save", "approve"}, BeginCommit(v, b, rev, action),
         row[b].status \in Open
  PROVE  ReviewInv'
<1> USE DEF ReviewInv
<1> DEFINE task == [NoReview EXCEPT !.pc = "briefing", !.b = b, !.rev = rev, !.action = action]
<1>1. /\ lock = NoOne /\ lock' = v /\ UNCHANGED <<row, files>>
      /\ marker' = [marker EXCEPT ![b] = [phase |-> "committing", by |-> v]]
      /\ review' = [review EXCEPT ![v] = task]
  BY DEF BeginCommit
<1>2. /\ task.pc = "briefing" /\ task.b = b /\ task \in Task
  BY DEF NoReview, Task, MaybeRev
<1>3. \A u \in Reviewers : review[u].pc \notin Writing
  BY <1>1, StatusFacts DEF WriterAlone
<1> HIDE DEF task
<1>4. ReviewTypes'
  BY <1>1, <1>2 DEF ReviewTypes, Mark
<1>5. ASSUME NEW u \in Reviewers
      PROVE  WriterAlone(u)' /\ WrittenIsWhole(u)' /\ ReservesOnly(u)'
  <2>1. CASE u = v
    BY <1>1, <1>2, <2>1 DEF WriterAlone, WrittenIsWhole, ReservesOnly, ReviewTypes
  <2>2. CASE u # v
    <3>1. review'[u] = review[u]
      BY <1>1, <2>2 DEF ReviewTypes
    <3>2. marker'[review[u].b].by = u => marker'[review[u].b] = marker[review[u].b]
      BY <1>1, <2>2 DEF ReviewTypes
    <3>3. WriterAlone(u)'
      BY <1>3, <3>1 DEF WriterAlone
    <3>4. WrittenIsWhole(u)'
      BY <1>1, <3>1, <3>2 DEF WrittenIsWhole
    <3>5. ReservesOnly(u)'
      BY <3>1, <3>2 DEF ReservesOnly
    <3>q. QED
      BY <3>3, <3>4, <3>5
  <2>q. QED
    BY <2>1, <2>2
<1>6. TornPairIsMarked'
  BY <1>1 DEF TornPairIsMarked, ReviewTypes
<1>q. QED
  BY <1>4, <1>5, <1>6

\* A reviewer ends, or goes from rewriting to nothing; a marker of its own that it
\* finishes is not somebody's barrier over a torn pair.
LEMMA EndKeeps ==
  ASSUME ReviewInv, NEW v \in Reviewers, review' = [review EXCEPT ![v] = NoReview],
         UNCHANGED <<row, files>>,
         \/ lock' = IF lock = v THEN NoOne ELSE lock
         \/ UNCHANGED lock /\ review[v].pc \notin Writing,
         \/ UNCHANGED marker
         \/ /\ lock = NoOne /\ review[v].pc \in {"rewriting", "marker"}
            /\ marker' = IF marker[review[v].b].by = v
                         THEN [marker EXCEPT ![review[v].b].phase = "finished"] ELSE marker
  PROVE  ReviewInv'
<1> USE DEF ReviewInv
<1>1. NoReview \in Task /\ NoReview.pc = "idle"
  BY DEF NoReview, Task, MaybeRev
<1>2. \A u \in Reviewers : u # v => review'[u] = review[u]
  BY DEF ReviewTypes
<1>3. review'[v].pc = "idle"
  BY <1>1 DEF ReviewTypes
<1> DEFINE b == review[v].b
<1>4. CASE UNCHANGED marker
  <2>1. ReviewTypes'
    BY <1>1, <1>4 DEF ReviewTypes
  <2>2. ASSUME NEW u \in Reviewers
        PROVE  WriterAlone(u)' /\ WrittenIsWhole(u)' /\ ReservesOnly(u)'
    BY <1>2, <1>3, <1>4 DEF WriterAlone, WrittenIsWhole, ReservesOnly, Writing
  <2>3. TornPairIsMarked'
    BY <1>4 DEF TornPairIsMarked
  <2>q. QED
    BY <2>1, <2>2, <2>3
<1>5. CASE /\ lock = NoOne /\ review[v].pc \in {"rewriting", "marker"} /\ marker[b].by = v
           /\ marker' = [marker EXCEPT ![b].phase = "finished"]
  <2>1. b \in Briefings
    BY <1>5 DEF ReviewTypes
  <2>2. /\ marker'[b].by = v /\ marker'[b].phase = "finished" /\ marker' \in [Briefings -> Mark]
        /\ \A c \in Briefings : c # b => marker'[c] = marker[c]
    BY <1>5, <2>1 DEF ReviewTypes, Mark
  <2>3. ReviewTypes'
    BY <1>1, <2>2 DEF ReviewTypes
  <2>4. files[b] = Whole(row[b].draft)
    <3>1. CASE review[v].pc = "marker"
      BY <1>5, <3>1 DEF WrittenIsWhole
    <3>2. CASE review[v].pc = "rewriting"
      BY <1>5, <2>1, <3>2 DEF ReservesOnly, TornPairIsMarked, Whole
    <3>q. QED
      BY <1>5, <3>1, <3>2
  <2>5. ASSUME NEW u \in Reviewers
        PROVE  WriterAlone(u)' /\ WrittenIsWhole(u)' /\ ReservesOnly(u)'
    <3>1. CASE u = v
      BY <1>3, <3>1 DEF WriterAlone, WrittenIsWhole, ReservesOnly, Writing
    <3>2. CASE u # v
      <4>1. review'[u] = review[u] /\ review[u].pc \notin Writing
        BY <1>2, <1>5, <3>2, StatusFacts DEF WriterAlone
      <4>2. review[u].pc # "idle" /\ marker'[review[u].b].by = u =>
              marker'[review[u].b] = marker[review[u].b]
        BY <2>1, <2>2, <3>2 DEF ReviewTypes
      <4>q. QED
        BY <4>1, <4>2 DEF WriterAlone, WrittenIsWhole, ReservesOnly
    <3>q. QED
      BY <3>1, <3>2
  <2>6. TornPairIsMarked'
    BY <2>2, <2>4 DEF TornPairIsMarked, Whole
  <2>q. QED
    BY <2>3, <2>5, <2>6
<1>q. QED
  BY <1>4, <1>5

LEMMA ReserveKeeps ==
  ASSUME ReviewInv, NEW v \in Reviewers, NEW b \in Briefings, Reserve(v, b)
  PROVE  ReviewInv'
<1> USE DEF ReviewInv
<1> DEFINE task == [NoReview EXCEPT !.pc = "rewriting", !.b = b, !.expected = Snapshot(b)]
<1>1. /\ lock = NoOne /\ UNCHANGED <<row, files, lock>>
      /\ marker[b].phase # "committing"
      /\ marker' = [marker EXCEPT ![b] = [phase |-> "generating", by |-> v]]
      /\ review' = [review EXCEPT ![v] = task]
  BY DEF Reserve
<1>2. /\ task.pc = "rewriting" /\ task.b = b /\ task \in Task
  <2>1. row[b] \in Row /\ files[b] \in Pair
    BY DEF ReviewTypes
  <2>2. Snapshot(b) \in SUBSET (MaybeRev \X (Open \cup Closed) \X MaybeRev \X Pair)
    BY <2>1 DEF Snapshot, Row
  <2>3. NoReview \in Task
    BY DEF NoReview, Task, MaybeRev
  <2>q. QED
    BY <2>2, <2>3 DEF Task
<1>3. \A u \in Reviewers : review[u].pc \notin Writing
  BY <1>1, StatusFacts DEF WriterAlone
<1> HIDE DEF task
<1>4. ReviewTypes'
  BY <1>1, <1>2 DEF ReviewTypes, Mark
<1>5. ASSUME NEW u \in Reviewers
      PROVE  WriterAlone(u)' /\ WrittenIsWhole(u)' /\ ReservesOnly(u)'
  <2>1. CASE u = v
    BY <1>1, <1>2, <2>1 DEF WriterAlone, WrittenIsWhole, ReservesOnly, ReviewTypes, Writing
  <2>2. CASE u # v
    <3>1. review'[u] = review[u]
      BY <1>1, <2>2 DEF ReviewTypes
    <3>2. marker'[review[u].b].by = u => marker'[review[u].b] = marker[review[u].b]
      BY <1>1, <2>2 DEF ReviewTypes
    <3>q. QED
      BY <1>1, <1>3, <3>1, <3>2 DEF WriterAlone, WrittenIsWhole, ReservesOnly
  <2>q. QED
    BY <2>1, <2>2
<1>6. TornPairIsMarked'
  BY <1>1 DEF TornPairIsMarked, ReviewTypes
<1>q. QED
  BY <1>4, <1>5, <1>6

\* The one reviewer that writes a pair works behind its barrier.
LEMMA WriteKeeps ==
  ASSUME ReviewInv, NEW v \in Reviewers, WriteBriefing(v) \/ WriteDiscord(v)
  PROVE  ReviewInv'
<1> USE DEF ReviewInv
<1> DEFINE b == review[v].b
<1>1. review[v] \in Task /\ b \in Briefings /\ files[b] \in Pair
  BY DEF WriteBriefing, WriteDiscord, ReviewTypes
<1>2. /\ review[v].pc \in Writing /\ lock = v /\ row[b].status \in Open
      /\ marker[b] = [phase |-> "committing", by |-> v]
      /\ review[v].pc = "discord" => files[b].briefing = review[v].rev
  BY DEF WriteBriefing, WriteDiscord, Writing, WriterAlone
<1>3. PICK q \in Pair, t \in Task :
        /\ files' = [files EXCEPT ![b] = q] /\ review' = [review EXCEPT ![v] = t]
        /\ t.b = b /\ t.rev = review[v].rev /\ t.pc \in {"discord", "row"}
        /\ q.briefing = t.rev
        /\ t.pc = "row" => q.discord = t.rev
  <2>1. CASE WriteBriefing(v)
    <3> DEFINE q == [files[b] EXCEPT !.briefing = review[v].rev]
               t == [review[v] EXCEPT !.pc = "discord"]
    <3>1. q \in Pair /\ q.briefing = review[v].rev
      BY <1>1 DEF Pair, Task
    <3>2. t \in Task /\ t.b = b /\ t.rev = review[v].rev /\ t.pc = "discord"
      BY <1>1 DEF Task
    <3>3. files' = [files EXCEPT ![b] = q] /\ review' = [review EXCEPT ![v] = t]
      BY <2>1 DEF WriteBriefing
    <3> HIDE DEF q, t
    <3>q. QED
      BY <3>1, <3>2, <3>3
  <2>2. CASE WriteDiscord(v)
    <3> DEFINE q == [files[b] EXCEPT !.discord = review[v].rev]
               t == [review[v] EXCEPT !.pc = "row"]
    <3>1. q \in Pair /\ q.discord = review[v].rev /\ q.briefing = review[v].rev
      BY <1>1, <1>2, <2>2 DEF Pair, Task, WriteDiscord
    <3>2. t \in Task /\ t.b = b /\ t.rev = review[v].rev /\ t.pc = "row"
      BY <1>1 DEF Task
    <3>3. files' = [files EXCEPT ![b] = q] /\ review' = [review EXCEPT ![v] = t]
      BY <2>2 DEF WriteDiscord
    <3> HIDE DEF q, t
    <3>q. QED
      BY <3>1, <3>2, <3>3
  <2>q. QED
    BY <2>1, <2>2
<1>4. UNCHANGED <<row, marker, lock>>
  BY DEF WriteBriefing, WriteDiscord
<1>5. ReviewTypes'
  BY <1>1, <1>3, <1>4 DEF ReviewTypes
<1>6. ASSUME NEW u \in Reviewers
      PROVE  WriterAlone(u)' /\ WrittenIsWhole(u)' /\ ReservesOnly(u)'
  <2>1. CASE u = v
    <3>1. review'[u] = t /\ files'[b] = q
      BY <1>1, <1>3, <2>1 DEF ReviewTypes
    <3>2. /\ lock' = v /\ marker'[b] = [phase |-> "committing", by |-> v]
          /\ row'[b].status \in Open
          /\ files'[b].briefing = t.rev
          /\ t.pc = "row" => files'[b].discord = t.rev
      BY <1>2, <1>3, <1>4, <3>1
    <3>3. review'[u].b = b /\ review'[u].pc = t.pc /\ review'[u].rev = t.rev
      BY <1>3, <3>1
    <3> HIDE DEF b
    <3>4. WriterAlone(u)'
      BY <2>1, <3>2, <3>3 DEF WriterAlone
    <3>q. QED
      BY <1>3, <3>1, <3>4 DEF WrittenIsWhole, ReservesOnly
  <2>2. CASE u # v
    <3>1. review'[u] = review[u] /\ review[u].pc \notin Writing
      BY <1>2, <1>3, <2>2 DEF ReviewTypes, WriterAlone
    <3>2. marker[review[u].b].by = u => review[u].b # b
      BY <1>2, <2>2
    <3>3. WrittenIsWhole(u)'
      BY <1>3, <1>4, <3>1, <3>2 DEF WrittenIsWhole, ReviewTypes
    <3>q. QED
      BY <1>4, <3>1, <3>3 DEF WriterAlone, ReservesOnly
  <2>q. QED
    BY <2>1, <2>2
<1>7. TornPairIsMarked'
  BY <1>1, <1>2, <1>3, <1>4 DEF TornPairIsMarked, ReviewTypes
<1>q. QED
  BY <1>5, <1>6, <1>7

\* What a review changes of a row: it never is a claim or its outcome.
Redrafted(r, s) == s.status \in Open /\ s.doc = r.doc /\ s.message = r.message

\* The row names the pair that has just been written.
LEMMA CommitKeeps ==
  ASSUME ReviewInv, NEW v \in Reviewers, CommitRow(v)
  PROVE  /\ ReviewInv'
         /\ \E s \in Row : Redrafted(row[review[v].b], s) /\ row' = [row EXCEPT ![review[v].b] = s]
<1> USE DEF ReviewInv
<1> DEFINE b == review[v].b
<1>1. /\ review[v] \in Task /\ b \in Briefings /\ row[b] \in Row /\ files[b] \in Pair
      /\ review[v].rev \in MaybeRev
  BY DEF CommitRow, ReviewTypes, Task
<1>2. /\ lock = v /\ marker[b] = [phase |-> "committing", by |-> v]
      /\ files[b] = Whole(review[v].rev)
  <2>1. /\ lock = v /\ marker[b] = [phase |-> "committing", by |-> v]
        /\ files[b].briefing = review[v].rev /\ files[b].discord = review[v].rev
    BY DEF CommitRow, WriterAlone, Writing
  <2>q. QED
    BY <1>1, <2>1 DEF Pair, Whole
<1>3. PICK s \in Row, t \in Task :
        /\ row' = [row EXCEPT ![b] = s] /\ review' = [review EXCEPT ![v] = t]
        /\ Redrafted(row[b], s) /\ s.draft = review[v].rev
        /\ t.b = b /\ t.pc = "marker"
  <2> DEFINE st == IF review[v].action = "approve" THEN "approved" ELSE "pending_review"
             ap == IF review[v].action = "approve" THEN review[v].rev ELSE NoRev
             s == [row[b] EXCEPT !.draft = review[v].rev, !.status = st, !.approved = ap]
             t == [review[v] EXCEPT !.pc = "marker"]
  <2>1. row' = [row EXCEPT ![b] = s] /\ review' = [review EXCEPT ![v] = t]
    BY DEF CommitRow
  <2>2. s \in Row /\ Redrafted(row[b], s) /\ s.draft = review[v].rev
    <3>1. st \in Open /\ ap \in MaybeRev
      BY <1>1 DEF Open, MaybeRev
    <3> HIDE DEF st, ap
    <3>2. /\ s \in Row /\ s.status = st /\ s.draft = review[v].rev
          /\ s.doc = row[b].doc /\ s.message = row[b].message
      BY <1>1, <3>1 DEF Row
    <3> HIDE DEF s
    <3>q. QED
      BY <3>1, <3>2 DEF Redrafted
  <2>3. t \in Task /\ t.b = b /\ t.pc = "marker"
    BY <1>1 DEF Task
  <2> HIDE DEF s, t
  <2>q. QED
    BY <2>1, <2>2, <2>3
<1>4. UNCHANGED <<files, marker>>
  BY DEF CommitRow
<1>5. ReviewTypes'
  BY <1>1, <1>3, <1>4 DEF ReviewTypes
<1>6. ASSUME NEW u \in Reviewers
      PROVE  WriterAlone(u)' /\ WrittenIsWhole(u)' /\ ReservesOnly(u)'
  <2>1. CASE u = v
    BY <1>1, <1>2, <1>3, <1>4, <2>1
       DEF WriterAlone, WrittenIsWhole, ReservesOnly, ReviewTypes, Writing
  <2>2. CASE u # v
    <3>1. review'[u] = review[u] /\ review[u].pc \notin Writing
      BY <1>2, <1>3, <2>2 DEF ReviewTypes, WriterAlone
    <3>2. marker[review[u].b].by = u => review[u].b # b
      BY <1>2, <2>2
    <3>3. WrittenIsWhole(u)'
      BY <1>3, <1>4, <3>1, <3>2 DEF WrittenIsWhole, ReviewTypes
    <3>q. QED
      BY <1>4, <3>1, <3>3 DEF WriterAlone, ReservesOnly
  <2>q. QED
    BY <2>1, <2>2
<1>7. TornPairIsMarked'
  BY <1>1, <1>2, <1>3, <1>4 DEF TornPairIsMarked, ReviewTypes
<1>q. QED
  BY <1>3, <1>5, <1>6, <1>7

LEMMA RejectKeeps ==
  ASSUME ReviewInv, NEW v \in Reviewers, NEW b \in Briefings, Reject(v, b)
  PROVE  /\ ReviewInv'
         /\ \E s \in Row : Redrafted(row[b], s) /\ row' = [row EXCEPT ![b] = s]
<1> USE DEF ReviewInv
<1> DEFINE s == [row[b] EXCEPT !.status = "rejected", !.approved = NoRev]
<1>1. /\ lock = NoOne /\ row' = [row EXCEPT ![b] = s] /\ row[b] \in Row
      /\ UNCHANGED <<files, marker, lock, review>>
  BY DEF Reject, ReviewTypes
<1>2. s \in Row /\ Redrafted(row[b], s) /\ s.draft = row[b].draft
  BY <1>1 DEF Row, MaybeRev, Open, Redrafted
<1> HIDE DEF s
<1>3. \A c \in Briefings : row'[c].draft = row[c].draft
  BY <1>1, <1>2 DEF ReviewTypes
<1>4. \A u \in Reviewers : review[u].pc \notin Writing
  BY <1>1, StatusFacts DEF WriterAlone
<1>5. ReviewTypes'
  BY <1>1, <1>2 DEF ReviewTypes
<1>6. ASSUME NEW u \in Reviewers
      PROVE  WriterAlone(u)' /\ WrittenIsWhole(u)' /\ ReservesOnly(u)'
  <2>1. WrittenIsWhole(u)'
    BY <1>1, <1>3 DEF WrittenIsWhole, ReviewTypes
  <2>q. QED
    BY <1>1, <1>4, <2>1 DEF WriterAlone, ReservesOnly
<1>7. TornPairIsMarked'
  BY <1>1, <1>3 DEF TornPairIsMarked
<1>q. QED
  BY <1>1, <1>2, <1>5, <1>6, <1>7

\* Every step of the review service, and what it leaves alone: the row and the
\* files of any briefing that is not open.
LEMMA ReviewKeeps ==
  ASSUME ReviewInv, Review
  PROVE  /\ ReviewInv'
         /\ row' = row \/ \E b \in Briefings, s \in Row :
              /\ row[b].status \in Open /\ Redrafted(row[b], s)
              /\ row' = [row EXCEPT ![b] = s]
         /\ \A b \in Briefings : row[b].status \notin Open => files'[b] = files[b]
<1> DEFINE Kept ==
             /\ ReviewInv'
             /\ row' = row \/ \E b \in Briefings, s \in Row :
                  /\ row[b].status \in Open /\ Redrafted(row[b], s)
                  /\ row' = [row EXCEPT ![b] = s]
             /\ \A b \in Briefings : row[b].status \notin Open => files'[b] = files[b]
<1>1. PICK v \in Reviewers :
        \/ \E b \in Briefings :
             \/ \E rev \in Revisions : Generate(v, b, rev) \/ ReviewPair(v, b, rev, "save")
                                       \/ ReviewPair(v, b, rev, "approve")
             \/ Reserve(v, b) \/ Reject(v, b)
        \/ CommitRevision(v) \/ FailRevision(v) \/ AbandonReview(v)
        \/ WriteBriefing(v) \/ WriteDiscord(v) \/ CommitRow(v) \/ CompleteMarker(v)
  BY DEF Review
<1>2. \A b \in Briefings : Reviewable(b) \/ row[b].status = "absent" => row[b].status \in Open
  BY DEF Reviewable, Open
<1>3. ASSUME NEW b \in Briefings, NEW rev \in Revisions, NEW action \in {"save", "approve"},
             row[b].status \in Open, BeginCommit(v, b, rev, action)
      PROVE  Kept
  BY <1>3, BeginKeeps DEF BeginCommit
<1>4. ASSUME NEW b \in Briefings, NEW rev \in Revisions,
             Generate(v, b, rev) \/ ReviewPair(v, b, rev, "save") \/ ReviewPair(v, b, rev, "approve")
      PROVE  Kept
  BY <1>2, <1>3, <1>4 DEF Generate, ReviewPair
<1>5. CASE CommitRevision(v)
  <2>1. /\ review[v].b \in Briefings /\ Reviewable(review[v].b)
        /\ \E rev \in Revisions : BeginCommit(v, review[v].b, rev, "save")
    BY <1>5 DEF CommitRevision, ReviewInv, ReviewTypes
  <2>q. QED
    BY <1>2, <1>3, <2>1
<1>6. ASSUME NEW b \in Briefings, Reserve(v, b) PROVE Kept
  BY <1>6, ReserveKeeps DEF Reserve
<1>7. ASSUME NEW b \in Briefings, Reject(v, b) PROVE Kept
  <2>1. row[b].status \in Open /\ UNCHANGED files
    BY <1>2, <1>7 DEF Reject
  <2>2. /\ ReviewInv'
        /\ \E s \in Row : Redrafted(row[b], s) /\ row' = [row EXCEPT ![b] = s]
    BY <1>7, RejectKeeps
  <2>q. QED
    BY <2>1, <2>2
<1>8. CASE FailRevision(v) \/ CompleteMarker(v) \/ AbandonReview(v)
  <2>1. UNCHANGED <<row, files>> /\ review' = [review EXCEPT ![v] = NoReview]
    BY <1>8 DEF FailRevision, CompleteMarker, AbandonReview
  <2>2. ReviewInv'
    <3>1. CASE FailRevision(v)
      <4>1. review[v].pc = "rewriting" /\ lock = NoOne /\ UNCHANGED lock
        BY <3>1 DEF FailRevision
      <4>2. \/ UNCHANGED marker
            \/ marker' = IF marker[review[v].b].by = v
                         THEN [marker EXCEPT ![review[v].b].phase = "finished"] ELSE marker
        BY <3>1 DEF FailRevision
      <4>q. QED
        BY <2>1, <4>1, <4>2, EndKeeps DEF Writing
    <3>2. CASE CompleteMarker(v)
      BY <3>2, EndKeeps DEF CompleteMarker, Writing
    <3>3. CASE AbandonReview(v)
      BY <3>3, EndKeeps DEF AbandonReview
    <3>q. QED
      BY <1>8, <3>1, <3>2, <3>3
  <2>q. QED
    BY <2>1, <2>2
<1>9. CASE WriteBriefing(v) \/ WriteDiscord(v)
  <2>1. /\ row[review[v].b].status \in Open /\ UNCHANGED row
        /\ \A b \in Briefings : b # review[v].b => files'[b] = files[b]
    BY <1>9 DEF WriteBriefing, WriteDiscord, ReviewInv, ReviewTypes, WriterAlone, Writing
  <2>q. QED
    BY <1>9, <2>1, WriteKeeps
<1>10. CASE CommitRow(v)
  <2>1. /\ review[v].b \in Briefings /\ row[review[v].b].status \in Open /\ UNCHANGED files
    BY <1>10 DEF CommitRow, ReviewInv, ReviewTypes, WriterAlone, Writing
  <2>2. /\ ReviewInv'
        /\ \E s \in Row : /\ Redrafted(row[review[v].b], s)
                         /\ row' = [row EXCEPT ![review[v].b] = s]
    BY <1>10, CommitKeeps
  <2>q. QED
    BY <2>1, <2>2
<1>q. QED
  BY <1>1, <1>4, <1>5, <1>6, <1>7, <1>8, <1>9, <1>10

LEMMA ReviewStarts == Init => ReviewInv
<1> SUFFICES ASSUME Init PROVE ReviewInv
  OBVIOUS
<1>1. NoRow \in Row /\ NoReview \in Task /\ Whole(NoRev) \in Pair
      /\ [phase |-> "none", by |-> NoOne] \in Mark
  BY DEF NoRow, Row, NoReview, Task, Whole, Pair, Mark, MaybeRev, Open
<1>2. ReviewTypes
  BY <1>1 DEF Init, ReviewTypes, Whole, NoReview
<1>3. TornPairIsMarked
  BY DEF Init, TornPairIsMarked, NoRow
<1>q. QED
  BY <1>2, <1>3 DEF Init, ReviewInv, WriterAlone, WrittenIsWhole, ReservesOnly, NoReview, Writing

LEMMA ReviewSteps == ReviewInv /\ [Next]_vars => ReviewInv'
<1> SUFFICES ASSUME ReviewInv, [Next]_vars PROVE ReviewInv'
  OBVIOUS
<1>1. CASE UNCHANGED vars
  BY <1>1 DEF vars, ReviewInv, ReviewTypes, WriterAlone, WrittenIsWhole, ReservesOnly,
              TornPairIsMarked
<1>q. QED
  BY <1>1, ReviewKeeps, PublisherKeepsReview DEF Next

\* No pair is torn without a marker, whenever a reviewer, a rewriting or the service
\* itself stops between the two files, the row and the marker.
THEOREM CommunityPairs == Spec => []TornPairIsMarked
<1>1. ReviewInv => TornPairIsMarked
  BY DEF ReviewInv
<1>q. QED
  BY <1>1, ReviewStarts, ReviewSteps, PTL DEF Spec

\* Once a briefing is claimed nothing a reviewer had begun before replaces it.
THEOREM CommunityFrozen == Spec => FrozenByClaim
<1>1. ReviewInv /\ [Next]_vars =>
        \A b \in Briefings :
          row[b].status \in {"publishing", "published", "blocked"} =>
            /\ files'[b] = files[b]
            /\ row'[b].draft = row[b].draft /\ row'[b].approved = row[b].approved
            /\ row'[b].status \in {row[b].status, "published", "blocked"}
            /\ row[b].status # "publishing" => row'[b].status = row[b].status
  <2> SUFFICES ASSUME ReviewInv, [Next]_vars, NEW b \in Briefings, row[b].status \in Closed
               PROVE  /\ files'[b] = files[b]
                      /\ row'[b].draft = row[b].draft /\ row'[b].approved = row[b].approved
                      /\ row'[b].status \in {row[b].status, "published", "blocked"}
                      /\ row[b].status # "publishing" => row'[b].status = row[b].status
    BY DEF Closed
  <2>1. row[b].status \notin Open
    BY StatusFacts
  <2>2. CASE UNCHANGED vars
    BY <2>2 DEF vars
  <2>3. CASE Review
    BY <2>1, <2>3, ReviewKeeps DEF ReviewInv, ReviewTypes
  <2>4. CASE Publish \/ Provider \/ Reconcile
    <3>1. UNCHANGED files
      BY <2>4 DEF Publish, Provider, Reconcile, reviewVars
    <3>2. MovesOn(row[b], row'[b]) /\ row[b].status # "approved"
      BY <2>1, <2>4, PublisherRows, StatusFacts
    <3>q. QED
      BY <3>1, <3>2 DEF MovesOn
  <2>q. QED
    BY <2>2, <2>3, <2>4 DEF Next
<1>q. QED
  BY <1>1, ReviewStarts, ReviewSteps, PTL DEF Spec, FrozenByClaim

-----------------------------------------------------------------------------
(* The inductive invariant of the publication                              *)

\* What the providers show of a briefing after so many of the four requests.
ShownDocument(rev, n) ==
  [copies |-> IF n >= 1 THEN 1 ELSE 0, text |-> IF n >= 2 THEN rev ELSE NoRev,
   shared |-> IF n >= 3 THEN TRUE ELSE FALSE]
ShownMessage(rev, n) ==
  [copies |-> IF n = 4 THEN 1 ELSE 0, text |-> IF n = 4 THEN rev ELSE NoRev]

Shown(b, n) ==
  /\ document[b] = ShownDocument(row[b].approved, n)
  /\ message[b] = ShownMessage(row[b].approved, n)

Place == [create |-> 0, fill |-> 1, share |-> 2, announce |-> 3]

Asked(b) == {r \in requests : r.b = b}

Requests == [b : Briefings, kind : Kinds, text : MaybeRev]
Documents == [copies : Nat, text : MaybeRev, shared : BOOLEAN]
Messages == [copies : Nat, text : MaybeRev]
Work == [pc       : Kinds \cup {"idle", "claim", "begin", "briefing", "discord", "google",
                                "published", "complete", "fail"},
         b        : Briefings \cup {NoOne},
         rev      : MaybeRev,
         briefing : MaybeRev,
         discord  : MaybeRev,
         waiting  : BOOLEAN,
         expired  : BOOLEAN]

PublicationTypes ==
  /\ pub \in [Publishers -> Work]
  /\ requests \subseteq Requests
  /\ document \in [Briefings -> Documents]
  /\ message \in [Briefings -> Messages]

Active(u) == u.pc \notin {"idle", "claim"}

RequestFor(u) == [b |-> u.b, kind |-> u.pc,
                  text |-> IF u.pc = "announce" THEN u.discord ELSE u.briefing]

\* Where a publisher is says what has become of its briefing so far.
OnCourse(u) ==
  /\ u.pc # "idle" => u.b \in Briefings
  /\ u.waiting => u.pc \in Kinds
  /\ Active(u) => /\ row[u.b].status \in Closed
                  /\ row[u.b].draft = u.rev /\ row[u.b].approved = u.rev
  /\ u.pc \in Kinds \cup {"google"} => u.briefing = u.rev /\ u.discord = u.rev
  /\ u.pc \in {"begin", "briefing", "discord"} => Shown(u.b, 0) /\ Asked(u.b) = {}
  /\ u.pc \in Kinds /\ ~u.waiting => Shown(u.b, Place[u.pc]) /\ Asked(u.b) = {}
  /\ u.pc \in Kinds /\ u.waiting =>
       \/ Asked(u.b) = {RequestFor(u)}
       \/ Asked(u.b) = {} /\ Shown(u.b, Place[u.pc] + 1)
  /\ u.pc = "google" => Shown(u.b, 3) /\ Asked(u.b) = {}
  /\ u.pc \in {"published", "complete"} => Shown(u.b, 4) /\ Asked(u.b) = {}

\* What the providers show is in order, a request that is still out is the next
\* one, and there is only one of them.
InOrder(b) ==
  /\ row[b].status \in Open => Shown(b, 0) /\ Asked(b) = {}
  /\ \E n \in 0 .. 4 : Shown(b, n)
  /\ \A r \in Asked(b) : r.text = row[b].approved /\ Shown(b, Place[r.kind])
  /\ \A r, s \in Asked(b) : r = s
  /\ row[b].doc => Shown(b, 3) \/ Shown(b, 4)
  /\ row[b].message \/ row[b].status = "published" => Shown(b, 4)

OnePublisher ==
  \A p, q \in Publishers :
    Active(pub[p]) /\ Active(pub[q]) /\ pub[p].b = pub[q].b => p = q

PublicationInv ==
  /\ PublicationTypes
  /\ \A p \in Publishers : OnCourse(pub[p])
  /\ \A b \in Briefings : InOrder(b)
  /\ OnePublisher

-----------------------------------------------------------------------------
(* Facts about what is shown                                               *)

LEMMA KindFacts ==
  /\ Kinds = {"create", "fill", "share", "announce"}
  /\ \A k \in Kinds : Place[k] \in 0 .. 3
  /\ Place["create"] = 0 /\ Place["fill"] = 1 /\ Place["share"] = 2 /\ Place["announce"] = 3
  /\ After["create"] = "fill" /\ After["fill"] = "share"
  /\ After["share"] = "google" /\ After["announce"] = "published"
BY DEF Kinds, After, Place

LEMMA ShownValues ==
  ASSUME NEW rev
  PROVE  /\ ShownDocument(rev, 0) = [copies |-> 0, text |-> NoRev, shared |-> FALSE]
         /\ ShownDocument(rev, 1) = [copies |-> 1, text |-> NoRev, shared |-> FALSE]
         /\ ShownDocument(rev, 2) = [copies |-> 1, text |-> rev, shared |-> FALSE]
         /\ ShownDocument(rev, 3) = [copies |-> 1, text |-> rev, shared |-> TRUE]
         /\ ShownDocument(rev, 4) = [copies |-> 1, text |-> rev, shared |-> TRUE]
         /\ ShownMessage(rev, 0) = [copies |-> 0, text |-> NoRev]
         /\ ShownMessage(rev, 1) = [copies |-> 0, text |-> NoRev]
         /\ ShownMessage(rev, 2) = [copies |-> 0, text |-> NoRev]
         /\ ShownMessage(rev, 3) = [copies |-> 0, text |-> NoRev]
         /\ ShownMessage(rev, 4) = [copies |-> 1, text |-> rev]
BY DEF ShownDocument, ShownMessage

\* No document that is shared is asked for once more, and none is asked for once
\* the message is there.
LEMMA ShownApart ==
  ASSUME NEW b, NEW m \in 0 .. 4, NEW n \in 0 .. 4, Shown(b, m), Shown(b, n)
  PROVE  /\ m >= 3 <=> n >= 3
         /\ m = 4 <=> n = 4
         /\ m = 0 <=> n = 0
BY DEF Shown, ShownDocument, ShownMessage

LEMMA NothingShown ==
  ASSUME NEW b, Shown(b, 0), UNCHANGED <<document, message>>
  PROVE  Shown(b, 0)'
BY DEF Shown, ShownDocument, ShownMessage

LEMMA DeliveredIsShown ==
  ASSUME NEW b PROVE Delivered(b) <=> Shown(b, 4)
BY ShownValues DEF Delivered, Shown

LEMMA SameDocument ==
  ASSUME NEW x \in Documents, NEW y \in Documents,
         x.copies = y.copies, x.text = y.text, x.shared <=> y.shared
  PROVE  x = y
BY DEF Documents

LEMMA DocumentCreated ==
  ASSUME NEW x \in Documents, NEW d, d = [x EXCEPT !.copies = @ + 1]
  PROVE  d \in Documents /\ d.copies = x.copies + 1 /\ d.text = x.text /\ d.shared = x.shared
BY DEF Documents

LEMMA DocumentFilled ==
  ASSUME NEW x \in Documents, NEW rev \in MaybeRev, NEW d, d = [x EXCEPT !.text = rev]
  PROVE  d \in Documents /\ d.copies = x.copies /\ d.text = rev /\ d.shared = x.shared
BY DEF Documents

LEMMA DocumentShared ==
  ASSUME NEW x \in Documents, NEW d, d = [x EXCEPT !.shared = TRUE]
  PROVE  d \in Documents /\ d.copies = x.copies /\ d.text = x.text /\ d.shared = TRUE
BY DEF Documents

LEMMA ShownFields ==
  ASSUME NEW rev \in MaybeRev
  PROVE  \A n \in 0 .. 4 :
           /\ ShownDocument(rev, n) \in Documents /\ ShownMessage(rev, n) \in Messages
           /\ ShownDocument(rev, n).copies = IF n >= 1 THEN 1 ELSE 0
           /\ ShownDocument(rev, n).text = IF n >= 2 THEN rev ELSE NoRev
           /\ ShownDocument(rev, n).shared <=> n >= 3
           /\ ShownMessage(rev, n).copies = IF n = 4 THEN 1 ELSE 0
           /\ ShownMessage(rev, n).text = IF n = 4 THEN rev ELSE NoRev
BY DEF ShownDocument, ShownMessage, Documents, Messages, MaybeRev

\* A provider carries a request out: one more step is there to be seen.
LEMMA EffectShows ==
  ASSUME PublicationTypes, NEW r \in Requests, Effect(r), UNCHANGED row,
         Shown(r.b, Place[r.kind]), r.text = row[r.b].approved
  PROVE  /\ document' \in [Briefings -> Documents] /\ message' \in [Briefings -> Messages]
         /\ \A c \in Briefings : c # r.b => document'[c] = document[c] /\ message'[c] = message[c]
         /\ Shown(r.b, Place[r.kind] + 1)'
<1> DEFINE b == r.b
           rev == row[r.b].approved
           n == Place[r.kind]
<1>1. b \in Briefings /\ r.kind \in Kinds /\ rev \in MaybeRev /\ r.text = rev /\ n \in 0 .. 3
  BY KindFacts DEF Requests
<1>2. /\ document \in [Briefings -> Documents] /\ message \in [Briefings -> Messages]
      /\ document[b] \in Documents /\ message[b] \in Messages
  BY <1>1 DEF PublicationTypes
<1>3. document[b] = ShownDocument(rev, n) /\ message[b] = ShownMessage(rev, n)
  BY DEF Shown
<1>a. ASSUME NEW d \in Documents, NEW m \in Messages,
             document' = [document EXCEPT ![b] = d], message' = [message EXCEPT ![b] = m],
             d = ShownDocument(rev, n + 1), m = ShownMessage(rev, n + 1)
      PROVE  /\ document' \in [Briefings -> Documents] /\ message' \in [Briefings -> Messages]
             /\ \A c \in Briefings : c # b => document'[c] = document[c] /\ message'[c] = message[c]
             /\ Shown(b, n + 1)'
  <2>1. document'[b] = d /\ message'[b] = m
    BY <1>1, <1>2, <1>a
  <2>2. Shown(b, n + 1)'
    BY <1>a, <2>1 DEF Shown
  <2>q. QED
    BY <1>2, <1>a, <2>2
<1>b. message = [message EXCEPT ![b] = message[b]] /\ document = [document EXCEPT ![b] = document[b]]
  BY <1>2
<1>c. \A k \in 0 .. 2 : ShownMessage(rev, k) = ShownMessage(rev, k + 1)
  BY DEF ShownMessage
<1>d. ShownDocument(rev, 3) = ShownDocument(rev, 4)
  BY DEF ShownDocument
<1>4. CASE r.kind = "create"
  <2> DEFINE d == [document[b] EXCEPT !.copies = @ + 1]
  <2>1. document' = [document EXCEPT ![b] = d] /\ message' = message
    BY <1>4 DEF Effect
  <2>2. n = 0
    BY <1>4, KindFacts
  <2>3. d \in Documents /\ d.copies = 1 /\ d.text = NoRev /\ ~d.shared
    <3>1. document[b].copies = 0 /\ document[b].text = NoRev /\ ~document[b].shared
      BY <1>1, <1>3, <2>2, ShownFields
    <3>q. QED
      BY <1>1, <1>2, <3>1, DocumentCreated
  <2> HIDE DEF d
  <2>4. d = ShownDocument(rev, n + 1)
    <3> DEFINE e == ShownDocument(rev, n + 1)
    <3>1. e \in Documents /\ e.copies = 1 /\ e.text = NoRev /\ ~e.shared
      BY <1>1, <2>2, ShownFields
    <3> HIDE DEF e
    <3>2. d = e
      BY <2>3, <3>1, SameDocument
    <3>q. QED
      BY <3>2 DEF e
  <2>5. message[b] = ShownMessage(rev, n + 1)
    BY <1>3, <1>c, <2>2
  <2>q. QED
    BY <1>2, <1>a, <1>b, <2>1, <2>2, <2>3, <2>4, <2>5
<1>5. CASE r.kind = "fill"
  <2> DEFINE d == [document[b] EXCEPT !.text = r.text]
  <2>1. document' = [document EXCEPT ![b] = d] /\ message' = message
    BY <1>5 DEF Effect
  <2>2. n = 1
    BY <1>5, KindFacts
  <2>3. d \in Documents /\ d.copies = 1 /\ d.text = rev /\ ~d.shared
    <3>1. document[b].copies = 1 /\ document[b].text = NoRev /\ ~document[b].shared
      BY <1>1, <1>3, <2>2, ShownFields
    <3>q. QED
      BY <1>1, <1>2, <3>1, DocumentFilled
  <2> HIDE DEF d
  <2>4. d = ShownDocument(rev, n + 1)
    <3> DEFINE e == ShownDocument(rev, n + 1)
    <3>1. e \in Documents /\ e.copies = 1 /\ e.text = rev /\ ~e.shared
      BY <1>1, <2>2, ShownFields
    <3> HIDE DEF e
    <3>2. d = e
      BY <2>3, <3>1, SameDocument
    <3>q. QED
      BY <3>2 DEF e
  <2>5. message[b] = ShownMessage(rev, n + 1)
    BY <1>3, <1>c, <2>2
  <2>q. QED
    BY <1>2, <1>a, <1>b, <2>1, <2>2, <2>3, <2>4, <2>5
<1>6. CASE r.kind = "share"
  <2> DEFINE d == [document[b] EXCEPT !.shared = TRUE]
  <2>1. document' = [document EXCEPT ![b] = d] /\ message' = message
    BY <1>6 DEF Effect
  <2>2. n = 2
    BY <1>6, KindFacts
  <2>3. d \in Documents /\ d.copies = 1 /\ d.text = rev /\ d.shared
    <3>1. document[b].copies = 1 /\ document[b].text = rev /\ ~document[b].shared
      BY <1>1, <1>3, <2>2, ShownFields
    <3>q. QED
      BY <1>1, <1>2, <3>1, DocumentShared
  <2> HIDE DEF d
  <2>4. d = ShownDocument(rev, n + 1)
    <3> DEFINE e == ShownDocument(rev, n + 1)
    <3>1. e \in Documents /\ e.copies = 1 /\ e.text = rev /\ e.shared
      BY <1>1, <2>2, ShownFields
    <3> HIDE DEF e
    <3>2. d = e
      BY <2>3, <3>1, SameDocument
    <3>q. QED
      BY <3>2 DEF e
  <2>5. message[b] = ShownMessage(rev, n + 1)
    BY <1>3, <1>c, <2>2
  <2>q. QED
    BY <1>2, <1>a, <1>b, <2>1, <2>2, <2>3, <2>4, <2>5
<1>7. CASE r.kind = "announce"
  <2> DEFINE m == [copies |-> message[b].copies + 1, text |-> r.text]
  <2>1. message' = [message EXCEPT ![b] = m] /\ document' = document
    BY <1>7 DEF Effect
  <2>2. n = 3
    BY <1>7, KindFacts
  <2>3. message[b].copies = 0
    BY <1>1, <1>3, <2>2, ShownFields
  <2>4. m \in Messages /\ m = ShownMessage(rev, n + 1)
    BY <1>1, <2>2, <2>3 DEF Messages, ShownMessage
  <2>5. document[b] = ShownDocument(rev, n + 1)
    BY <1>3, <1>d, <2>2
  <2> HIDE DEF m
  <2>q. QED
    BY <1>2, <1>a, <1>b, <2>1, <2>2, <2>4, <2>5
<1>q. QED
  BY <1>1, <1>4, <1>5, <1>6, <1>7, KindFacts

-----------------------------------------------------------------------------
(* One publisher's step is about its own briefing                          *)

\* Nothing that is said of these briefings has changed.
Same(b) ==
  /\ row'[b] = row[b] /\ document'[b] = document[b] /\ message'[b] = message[b]
  /\ Asked(b)' = Asked(b)

LEMMA SameShown ==
  ASSUME NEW b, Same(b) PROVE \A n : Shown(b, n)' <=> Shown(b, n)
BY DEF Same, Shown

LEMMA SameInOrder ==
  ASSUME NEW b, Same(b), InOrder(b) PROVE InOrder(b)'
<1>1. \A n : Shown(b, n)' <=> Shown(b, n)
  BY SameShown
<1>2. Asked(b)' = Asked(b) /\ row'[b] = row[b]
  BY DEF Same
<1>q. QED
  BY <1>1, <1>2 DEF InOrder

LEMMA SameOnCourse ==
  ASSUME NEW u, OnCourse(u), Active(u) => Same(u.b) PROVE OnCourse(u)'
<1>1. CASE Active(u)
  <2>1. \A n : Shown(u.b, n)' <=> Shown(u.b, n)
    BY <1>1, SameShown
  <2>2. Asked(u.b)' = Asked(u.b) /\ row'[u.b] = row[u.b]
    BY <1>1 DEF Same
  <2>q. QED
    BY <2>1, <2>2 DEF OnCourse, RequestFor, Active
<1>2. CASE ~Active(u)
  BY <1>2, KindFacts DEF OnCourse, Active
<1>q. QED
  BY <1>1, <1>2

\* A publisher goes on to u, and only briefing b is touched, which is its own.
LEMMA PublisherStep ==
  ASSUME PublicationInv, NEW p \in Publishers, NEW b \in Briefings, NEW u \in Work,
         pub' = [pub EXCEPT ![p] = u],
         requests' \subseteq Requests,
         document' \in [Briefings -> Documents], message' \in [Briefings -> Messages],
         \A c \in Briefings : c # b => Same(c),
         \A q \in Publishers : q # p /\ Active(pub[q]) => pub[q].b # b,
         Active(u) => u.b = b,
         OnCourse(u)', InOrder(b)'
  PROVE  PublicationInv'
<1> USE DEF PublicationInv
<1>1. PublicationTypes'
  BY DEF PublicationTypes
<1>2. \A q \in Publishers : pub'[q] = IF q = p THEN u ELSE pub[q]
  BY DEF PublicationTypes
<1>3. ASSUME NEW q \in Publishers PROVE OnCourse(pub[q])'
  <2>1. CASE q = p
    BY <1>2, <2>1
  <2>2. CASE q # p
    <3>1. OnCourse(pub[q]) /\ pub'[q] = pub[q]
      BY <1>2, <2>2
    <3>2. Active(pub[q]) => Same(pub[q].b)
      BY <2>2, <3>1 DEF OnCourse, Active
    <3>q. QED
      BY <3>1, <3>2, SameOnCourse
  <2>q. QED
    BY <2>1, <2>2
<1>4. ASSUME NEW c \in Briefings PROVE InOrder(c)'
  BY SameInOrder
<1>5. OnePublisher'
  BY <1>2 DEF OnePublisher, Active
<1>q. QED
  BY <1>1, <1>3, <1>4, <1>5

\* A publisher goes on to u, and the world stays as it is.
LEMMA PublisherMoves ==
  ASSUME PublicationInv, NEW p \in Publishers, NEW u \in Work,
         pub' = [pub EXCEPT ![p] = u], UNCHANGED <<row, requests, document, message>>,
         OnCourse(u), Active(u) => Active(pub[p]) /\ u.b = pub[p].b
  PROVE  PublicationInv'
<1> USE DEF PublicationInv
<1>1. PublicationTypes'
  BY DEF PublicationTypes
<1>2. \A q \in Publishers : pub'[q] = IF q = p THEN u ELSE pub[q]
  BY DEF PublicationTypes
<1>3. \A c : Same(c)
  BY DEF Same, Asked
<1>4. ASSUME NEW q \in Publishers PROVE OnCourse(pub[q])'
  <2>1. OnCourse(u)' /\ OnCourse(pub'[q])
    BY <1>2, <1>3, SameOnCourse
  <2>2. \A w : OnCourse(w) => OnCourse(w)'
    BY <1>3, SameOnCourse
  <2>q. QED
    BY <1>2, <2>1, <2>2
<1>5. ASSUME NEW c \in Briefings PROVE InOrder(c)'
  BY <1>3, SameInOrder
<1>6. OnePublisher'
  BY <1>2 DEF OnePublisher
<1>q. QED
  BY <1>1, <1>4, <1>5, <1>6

LEMMA Idle == NoPub \in Work /\ OnCourse(NoPub) /\ ~Active(NoPub)
BY KindFacts DEF NoPub, Work, OnCourse, Active, MaybeRev

\* The steps by which a publisher finds out, reads, gives up or is stopped.
LEMMA MovesKeep ==
  ASSUME PublicationInv, ReviewTypes, NEW p \in Publishers,
         \/ \E b \in Briefings : Authorize(p, b) /\ UNCHANGED row
         \/ ClaimFails(p) \/ Begin(p) \/ ReadBriefing(p) \/ ReadDiscord(p) \/ NotSent(p)
         \/ Answered(p) \/ GiveUp(p) \/ NotRecorded(p) \/ Complete(p) \/ LeaseExpires(p)
         \/ Interrupt(p)
  PROVE  PublicationInv'
<1> USE DEF PublicationInv
<1>1. /\ pub[p] \in Work /\ OnCourse(pub[p]) /\ pub \in [Publishers -> Work]
        /\ row \in [Briefings -> Row] /\ files \in [Briefings -> Pair]
  BY DEF PublicationTypes, ReviewTypes
<1>2. ASSUME NEW u \in Work, pub' = [pub EXCEPT ![p] = u], OnCourse(u),
             Active(u) => Active(pub[p]) /\ u.b = pub[p].b,
             UNCHANGED <<row, requests, document, message>>
      PROVE  PublicationInv'
  BY <1>2, PublisherMoves
<1>3. ASSUME NEW b \in Briefings, Authorize(p, b), UNCHANGED row PROVE PublicationInv'
  <2> DEFINE u == [NoPub EXCEPT !.pc = "claim", !.b = b, !.rev = row[b].draft]
  <2>1. u \in Work /\ u.pc = "claim" /\ u.b = b /\ ~u.waiting
    BY <1>1 DEF NoPub, Work, MaybeRev, Row
  <2>2. pub' = [pub EXCEPT ![p] = u] /\ UNCHANGED <<row, requests, document, message>>
    BY <1>3 DEF Authorize
  <2> HIDE DEF u
  <2>3. OnCourse(u) /\ ~Active(u)
    BY <2>1, KindFacts DEF OnCourse, Active
  <2>q. QED
    BY <1>2, <2>1, <2>2, <2>3
<1>4. CASE ClaimFails(p) \/ Complete(p) \/ Interrupt(p)
  BY <1>2, <1>4, Idle DEF ClaimFails, Complete, Interrupt
<1>5. CASE Begin(p)
  <2> DEFINE u == [pub[p] EXCEPT !.pc = "briefing"]
  <2>1. u \in Work /\ u.pc = "briefing" /\ u.b = pub[p].b /\ u.rev = pub[p].rev
        /\ u.waiting = pub[p].waiting
    BY <1>1 DEF Work
  <2>2. pub' = [pub EXCEPT ![p] = u] /\ UNCHANGED <<row, requests, document, message>>
        /\ pub[p].pc = "begin"
    BY <1>1, <1>5 DEF Begin, Goto
  <2> HIDE DEF u
  <2>3. OnCourse(u) /\ Active(u) /\ Active(pub[p])
    BY <1>1, <2>1, <2>2, KindFacts DEF OnCourse, Active
  <2>q. QED
    BY <1>2, <2>1, <2>2, <2>3
<1>6. CASE ReadBriefing(p)
  <2> DEFINE u == [pub[p] EXCEPT !.pc = "discord", !.briefing = files[pub[p].b].briefing]
  <2>1. pub[p].pc = "briefing" /\ files[pub[p].b].briefing \in MaybeRev
    BY <1>1, <1>6 DEF ReadBriefing, OnCourse, Pair
  <2>2. u \in Work /\ u.pc = "discord" /\ u.b = pub[p].b /\ u.rev = pub[p].rev
        /\ u.waiting = pub[p].waiting
    BY <1>1, <2>1 DEF Work
  <2>3. pub' = [pub EXCEPT ![p] = u] /\ UNCHANGED <<row, requests, document, message>>
    BY <1>1, <1>6 DEF ReadBriefing
  <2> HIDE DEF u
  <2>4. OnCourse(u) /\ Active(u) /\ Active(pub[p])
    BY <1>1, <2>1, <2>2, KindFacts DEF OnCourse, Active
  <2>q. QED
    BY <1>2, <2>2, <2>3, <2>4
<1>7. CASE ReadDiscord(p)
  <2> DEFINE discord == files[pub[p].b].discord
             pc == IF {pub[p].briefing, discord} = {pub[p].rev} THEN "create" ELSE "fail"
             u == [pub[p] EXCEPT !.discord = discord, !.pc = pc]
  <2>1. pub[p].pc = "discord" /\ discord \in MaybeRev
    BY <1>1, <1>7 DEF ReadDiscord, OnCourse, Pair
  <2>2. /\ pc \in {"create", "fail"}
        /\ pc = "create" => pub[p].briefing = pub[p].rev /\ discord = pub[p].rev
    OBVIOUS
  <2>3. pub' = [pub EXCEPT ![p] = u] /\ UNCHANGED <<row, requests, document, message>>
    BY <1>1, <1>7 DEF ReadDiscord
  <2> HIDE DEF pc, discord
  <2>4. u \in Work /\ u.pc = pc /\ u.b = pub[p].b /\ u.rev = pub[p].rev
        /\ u.waiting = pub[p].waiting /\ u.briefing = pub[p].briefing /\ u.discord = discord
    BY <1>1, <2>1, <2>2, KindFacts DEF Work
  <2> HIDE DEF u
  <2>5. OnCourse(u) /\ Active(u) /\ Active(pub[p])
    BY <1>1, <2>1, <2>2, <2>4, KindFacts DEF OnCourse, Active
  <2>q. QED
    BY <1>2, <2>3, <2>4, <2>5
<1>8. CASE NotSent(p) \/ GiveUp(p) \/ NotRecorded(p)
  <2> DEFINE u == [pub[p] EXCEPT !.pc = "fail", !.waiting = FALSE]
  <2>1. Active(pub[p])
    BY <1>1, <1>8, KindFacts DEF NotSent, GiveUp, NotRecorded, Active, OnCourse
  <2>2. u \in Work /\ u.pc = "fail" /\ u.b = pub[p].b /\ u.rev = pub[p].rev /\ ~u.waiting
    BY <1>1 DEF Work
  <2>3. pub' = [pub EXCEPT ![p] = u] /\ UNCHANGED <<row, requests, document, message>>
    BY <1>1, <1>8 DEF NotSent, GiveUp, NotRecorded, Fail
  <2> HIDE DEF u
  <2>4. OnCourse(u)
    BY <1>1, <2>1, <2>2, KindFacts DEF OnCourse, Active
  <2>q. QED
    BY <1>2, <2>1, <2>2, <2>3, <2>4
<1>9. CASE Answered(p)
  <2> DEFINE u == [pub[p] EXCEPT !.pc = After[@], !.waiting = FALSE]
  <2>1. pub[p].waiting /\ pub[p].pc \in Kinds /\ After[pub[p].pc] \in Kinds \cup {"google", "published"}
    BY <1>1, <1>9, KindFacts DEF Answered, OnCourse
  <2>2. u \in Work /\ u.pc = After[pub[p].pc] /\ u.b = pub[p].b /\ u.rev = pub[p].rev /\ ~u.waiting
        /\ u.briefing = pub[p].briefing /\ u.discord = pub[p].discord
    BY <1>1, <2>1 DEF Work
  <2>3. pub' = [pub EXCEPT ![p] = u] /\ UNCHANGED <<row, requests, document, message>>
    BY <1>1, <1>9 DEF Answered
  <2>4. RequestOf(p) \notin requests
    BY <1>9 DEF Answered
  <2>5. Asked(pub[p].b) = {} /\ Shown(pub[p].b, Place[pub[p].pc] + 1)
    BY <1>1, <2>1, <2>4 DEF OnCourse, RequestFor, RequestOf, Asked
  <2> HIDE DEF u
  <2>6. OnCourse(u) /\ Active(pub[p])
    <3>1. pub[p].b \in Briefings /\ Active(pub[p]) /\ pub[p].briefing = pub[p].rev
          /\ pub[p].discord = pub[p].rev
      BY <1>1, <2>1, KindFacts DEF OnCourse, Active
    <3>2. \/ pub[p].pc = "create" /\ u.pc = "fill" /\ Shown(pub[p].b, 1)
          \/ pub[p].pc = "fill" /\ u.pc = "share" /\ Shown(pub[p].b, 2)
          \/ pub[p].pc = "share" /\ u.pc = "google" /\ Shown(pub[p].b, 3)
          \/ pub[p].pc = "announce" /\ u.pc = "published" /\ Shown(pub[p].b, 4)
      BY <2>1, <2>2, <2>5, KindFacts
    <3>q. QED
      BY <1>1, <2>2, <2>5, <3>1, <3>2, KindFacts DEF OnCourse, Active
  <2>q. QED
    BY <1>2, <2>2, <2>3, <2>6
<1>10. CASE LeaseExpires(p)
  <2> DEFINE u == [pub[p] EXCEPT !.expired = TRUE]
  <2>1. u \in Work /\ u.pc = pub[p].pc /\ u.b = pub[p].b /\ u.rev = pub[p].rev
        /\ u.waiting = pub[p].waiting /\ u.briefing = pub[p].briefing /\ u.discord = pub[p].discord
    BY <1>1 DEF Work
  <2>2. pub' = [pub EXCEPT ![p] = u] /\ UNCHANGED <<row, requests, document, message>>
    BY <1>1, <1>10 DEF LeaseExpires
  <2> HIDE DEF u
  <2>3. OnCourse(u) /\ (Active(u) => Active(pub[p]))
    BY <1>1, <2>1 DEF OnCourse, Active, RequestFor
  <2>q. QED
    BY <1>2, <2>1, <2>2, <2>3
<1>q. QED
  BY <1>3, <1>4, <1>5, <1>6, <1>7, <1>8, <1>9, <1>10

\* A publisher at work is the only one at work on its briefing.
LEMMA Alone ==
  ASSUME PublicationInv, NEW p \in Publishers, Active(pub[p])
  PROVE  /\ pub[p] \in Work /\ OnCourse(pub[p]) /\ pub[p].b \in Briefings /\ InOrder(pub[p].b)
         /\ row[pub[p].b].status \in Closed
         /\ row[pub[p].b].draft = pub[p].rev /\ row[pub[p].b].approved = pub[p].rev
         /\ \A q \in Publishers : q # p /\ Active(pub[q]) => pub[q].b # pub[p].b
BY DEF PublicationInv, PublicationTypes, OnCourse, OnePublisher, Active

\* The next request goes out, with what was read of the approved pair.
LEMMA SendKeeps ==
  ASSUME PublicationInv, ReviewTypes, NEW p \in Publishers, Send(p)
  PROVE  PublicationInv'
<1>1. pub[p].pc \in Kinds /\ ~pub[p].waiting /\ Active(pub[p])
  BY KindFacts DEF Send, Active
<1>2. PICK b \in Briefings : b = pub[p].b
  BY <1>1, Alone
<1>3. pub[p] \in Work /\ OnCourse(pub[p]) /\ InOrder(b)
      /\ \A q \in Publishers : q # p /\ Active(pub[q]) => pub[q].b # b
  BY <1>1, <1>2, Alone
<1>4. PICK u \in Work : u = [pub[p] EXCEPT !.waiting = TRUE]
  BY <1>3 DEF Work
<1>5. u.pc = pub[p].pc /\ u.b = b /\ u.rev = pub[p].rev
      /\ u.waiting /\ u.briefing = pub[p].briefing /\ u.discord = pub[p].discord
  BY <1>2, <1>3, <1>4 DEF Work
<1>6. Shown(b, Place[u.pc]) /\ Asked(b) = {} /\ row[b].approved = u.rev /\ row[b].draft = u.rev
      /\ u.briefing = u.rev /\ u.discord = u.rev /\ row[b].status \in Closed
  BY <1>1, <1>2, <1>3, <1>5 DEF OnCourse
<1>7. PICK r : r = RequestFor(u)
  OBVIOUS
<1>8. r.b = b /\ r.kind = u.pc /\ r.text = row[b].approved /\ r \in Requests
  BY <1>1, <1>5, <1>6, <1>7 DEF RequestFor, Requests, Work
<1>9. RequestOf(p) = r
  BY <1>2, <1>5, <1>7 DEF RequestFor, RequestOf
<1>10. pub' = [pub EXCEPT ![p] = u] /\ requests' = requests \cup {r} /\ UNCHANGED <<row, document, message>>
  BY <1>4, <1>9 DEF Send
<1>11. Asked(b)' = {r}
  BY <1>6, <1>8, <1>10 DEF Asked
<1>12. \A c \in Briefings : c # b => Same(c)
  BY <1>8, <1>10 DEF Same, Asked
<1>13. \A c, n : Shown(c, n)' <=> Shown(c, n)
  BY <1>10 DEF Shown
<1>14. OnCourse(u)'
  BY <1>1, <1>5, <1>6, <1>7, <1>10, <1>11, KindFacts DEF OnCourse, Active, RequestFor
<1>15. InOrder(b)'
  BY <1>3, <1>6, <1>8, <1>10, <1>11, <1>13, StatusFacts DEF InOrder
<1>16. requests' \subseteq Requests
  BY <1>8, <1>10 DEF PublicationInv, PublicationTypes
<1>q. QED
  BY <1>3, <1>5, <1>10, <1>12, <1>14, <1>15, <1>16, PublisherStep
     DEF PublicationInv, PublicationTypes

\* A refused request is out of the way, and the publisher records its failure.
LEMMA RefusedKeeps ==
  ASSUME PublicationInv, ReviewTypes, NEW p \in Publishers, Refused(p)
  PROVE  PublicationInv'
<1>1. pub[p].waiting /\ Active(pub[p])
  BY KindFacts DEF Refused, Active, PublicationInv, OnCourse
<1>2. PICK b \in Briefings : b = pub[p].b
  BY <1>1, Alone
<1>3. pub[p] \in Work /\ InOrder(b)
      /\ row[b].status \in Closed /\ row[b].draft = pub[p].rev /\ row[b].approved = pub[p].rev
      /\ \A q \in Publishers : q # p /\ Active(pub[q]) => pub[q].b # b
  BY <1>1, <1>2, Alone
<1>4. PICK u \in Work : u = [pub[p] EXCEPT !.pc = "fail", !.waiting = FALSE]
  BY <1>3 DEF Work
<1>5. u.pc = "fail" /\ u.b = b /\ u.rev = pub[p].rev /\ ~u.waiting
  BY <1>2, <1>3, <1>4 DEF Work
<1>6. PICK r : r = RequestOf(p)
  OBVIOUS
<1>7. r.b = b
  BY <1>2, <1>6 DEF RequestOf
<1>8. pub' = [pub EXCEPT ![p] = u] /\ requests' = requests \ {r} /\ UNCHANGED <<row, document, message>>
  BY <1>4, <1>6 DEF Refused, Fail
<1>9. Asked(b)' \subseteq Asked(b)
  BY <1>8 DEF Asked
<1>10. \A c \in Briefings : c # b => Same(c)
  BY <1>7, <1>8 DEF Same, Asked
<1>11. \A c, n : Shown(c, n)' <=> Shown(c, n)
  BY <1>8 DEF Shown
<1>12. OnCourse(u)'
  BY <1>3, <1>5, <1>8, KindFacts DEF OnCourse, Active
<1>13. InOrder(b)'
  BY <1>3, <1>8, <1>9, <1>11 DEF InOrder
<1>q. QED
  BY <1>3, <1>5, <1>8, <1>10, <1>12, <1>13, PublisherStep
     DEF PublicationInv, PublicationTypes

\* The row of the publisher's own briefing changes, and what is shown does not.
LEMMA RowStep ==
  ASSUME PublicationInv, ReviewTypes, NEW p \in Publishers, NEW b \in Briefings, NEW u \in Work,
         NEW s \in Row,
         \A q \in Publishers : q # p /\ Active(pub[q]) => pub[q].b # b,
         pub' = [pub EXCEPT ![p] = u], row' = [row EXCEPT ![b] = s],
         UNCHANGED <<requests, document, message>>,
         s.status \in Closed, s.draft = row[b].draft, s.approved = row[b].approved,
         u.b = b \/ u = NoPub,
         u.pc \in {"begin", "announce", "complete", "idle"} /\ ~u.waiting,
         u.pc # "idle" => u.rev = s.draft /\ u.rev = s.approved,
         u.pc = "begin" => Shown(b, 0) /\ Asked(b) = {},
         u.pc = "announce" => u.briefing = u.rev /\ u.discord = u.rev /\ Shown(b, 3) /\ Asked(b) = {},
         u.pc = "complete" => Shown(b, 4) /\ Asked(b) = {},
         s.doc => row[b].doc \/ Shown(b, 3),
         s.message \/ s.status = "published" => row[b].message \/ Shown(b, 4)
  PROVE  PublicationInv'
<1>1. row'[b] = s /\ \A c \in Briefings : c # b => row'[c] = row[c]
  BY DEF ReviewTypes
<1>2. \A c \in Briefings : c # b => Same(c)
  BY <1>1 DEF Same, Asked
<1>3. \A n : Shown(b, n)' <=> Shown(b, n)
  BY <1>1 DEF Shown
<1>4. Asked(b)' = Asked(b)
  BY DEF Asked
<1>5. OnCourse(u)'
  <2>1. CASE u.pc = "idle"
    BY <2>1, KindFacts DEF OnCourse, Active
  <2>2. CASE u.pc # "idle"
    <3>1. u.b = b
      BY <2>2 DEF NoPub
    <3>q. QED
      BY <1>1, <1>3, <1>4, <2>2, <3>1, KindFacts DEF OnCourse, Active
  <2>q. QED
    BY <2>1, <2>2
<1>6. InOrder(b)'
  BY <1>1, <1>3, <1>4, StatusFacts DEF PublicationInv, InOrder
<1>7. Active(u) => u.b = b
  BY DEF NoPub, Active
<1>q. QED
  BY <1>2, <1>5, <1>6, <1>7, PublisherStep DEF PublicationInv, PublicationTypes

\* The approved briefing is claimed: nothing of it is shown yet, and nobody else
\* is at work on it.
LEMMA ClaimKeepsOrder ==
  ASSUME PublicationInv, ReviewTypes, NEW p \in Publishers, Claim(p)
  PROVE  PublicationInv'
<1> DEFINE b == pub[p].b
           u == [pub[p] EXCEPT !.pc = "begin"]
           s == [row[b] EXCEPT !.status = "publishing", !.leased = TRUE]
<1>1. pub[p] \in Work /\ OnCourse(pub[p]) /\ b \in Briefings /\ pub[p].pc = "claim" /\ ~pub[p].waiting
  BY KindFacts DEF Claim, PublicationInv, PublicationTypes, OnCourse
<1>2. row[b] \in Row /\ row[b].status = "approved" /\ row[b].draft = pub[p].rev
      /\ row[b].approved = pub[p].rev /\ InOrder(b)
  BY <1>1 DEF Claim, Available, ReviewTypes, PublicationInv
<1>3. s \in Row /\ s.status \in Closed /\ s.draft = row[b].draft /\ s.approved = row[b].approved
      /\ s.doc = row[b].doc /\ s.message = row[b].message /\ s.status = "publishing"
  BY <1>2 DEF Row, Closed
<1>4. u \in Work /\ u.pc = "begin" /\ u.b = b /\ u.rev = pub[p].rev /\ ~u.waiting
  BY <1>1 DEF Work
<1>5. row' = [row EXCEPT ![b] = s] /\ pub' = [pub EXCEPT ![p] = u]
      /\ UNCHANGED <<requests, document, message>>
  BY <1>1 DEF Claim, Goto, ReviewTypes, PublicationInv, PublicationTypes
<1>6. Shown(b, 0) /\ Asked(b) = {}
  BY <1>2, StatusFacts DEF InOrder
<1>7. \A q \in Publishers : q # p /\ Active(pub[q]) => pub[q].b # b
  BY <1>2, Alone, StatusFacts
<1> HIDE DEF s, u
<1>q. QED
  BY <1>1, <1>2, <1>3, <1>4, <1>5, <1>6, <1>7, RowStep

\* The receipts are recorded of what is there, the failure of what may be.
LEMMA RecordsKeep ==
  ASSUME PublicationInv, ReviewTypes, NEW p \in Publishers,
         RecordGoogle(p) \/ MarkPublished(p) \/ MarkFailure(p)
  PROVE  PublicationInv'
<1> DEFINE b == pub[p].b
<1>1. Active(pub[p]) /\ ~pub[p].waiting
  BY KindFacts DEF RecordGoogle, MarkPublished, MarkFailure, Active, PublicationInv, OnCourse
<1>2. /\ pub[p] \in Work /\ OnCourse(pub[p]) /\ b \in Briefings /\ InOrder(b)
      /\ row[b].status \in Closed /\ row[b].draft = pub[p].rev /\ row[b].approved = pub[p].rev
      /\ \A q \in Publishers : q # p /\ Active(pub[q]) => pub[q].b # b
  BY <1>1, Alone
<1>3. row[b] \in Row /\ row \in [Briefings -> Row] /\ pub \in [Publishers -> Work]
  BY <1>2 DEF ReviewTypes, PublicationInv, PublicationTypes
<1>a. ASSUME NEW u \in Work, NEW s \in Row,
             pub' = [pub EXCEPT ![p] = u], row' = [row EXCEPT ![b] = s],
             UNCHANGED <<requests, document, message>>,
             s.status \in Closed, s.draft = row[b].draft, s.approved = row[b].approved,
             u.b = b, u.rev = s.draft, u.rev = s.approved, ~u.waiting,
             \/ /\ u.pc = "announce" /\ u.briefing = u.rev /\ u.discord = u.rev /\ Shown(b, 3)
                /\ s.message = row[b].message /\ s.status # "published"
             \/ u.pc = "complete" /\ Shown(b, 4) /\ s.doc = row[b].doc,
             Asked(b) = {}
      PROVE  PublicationInv'
  <2>1. u.pc # "begin" /\ u.pc # "idle" /\ u.pc \in {"begin", "announce", "complete", "idle"}
    BY <1>a
  <2>2. u.pc = "announce" => u.briefing = u.rev /\ u.discord = u.rev /\ Shown(b, 3) /\ Asked(b) = {}
    BY <1>a
  <2>3. u.pc = "complete" => Shown(b, 4) /\ Asked(b) = {}
    BY <1>a
  <2>4. /\ s.doc => row[b].doc \/ Shown(b, 3)
        /\ s.message \/ s.status = "published" => row[b].message \/ Shown(b, 4)
    BY <1>a
  <2> HIDE DEF b
  <2>q. QED
    BY <1>2, <1>a, <2>1, <2>2, <2>3, <2>4, RowStep
<1>4. CASE RecordGoogle(p)
  <2> DEFINE u == [pub[p] EXCEPT !.pc = "announce"]
             s == [row[b] EXCEPT !.doc = TRUE]
  <2>1. u \in Work /\ u.pc = "announce" /\ u.b = b /\ u.rev = pub[p].rev /\ ~u.waiting
        /\ u.briefing = pub[p].briefing /\ u.discord = pub[p].discord
    BY <1>1, <1>2, KindFacts DEF Work
  <2>2. s \in Row /\ s.status = row[b].status /\ s.draft = row[b].draft
        /\ s.approved = row[b].approved /\ s.message = row[b].message
    BY <1>3 DEF Row
  <2>3. row' = [row EXCEPT ![b] = s] /\ pub' = [pub EXCEPT ![p] = u]
        /\ UNCHANGED <<requests, document, message>> /\ pub[p].pc = "google"
        /\ s.status = "publishing"
    BY <1>3, <1>4 DEF RecordGoogle, Goto, Owned
  <2>4. Shown(b, 3) /\ Asked(b) = {} /\ pub[p].briefing = pub[p].rev /\ pub[p].discord = pub[p].rev
    BY <1>2, <2>3 DEF OnCourse
  <2> HIDE DEF s, u
  <2>5. s.status \in Closed /\ s.status # "published" /\ u.rev = s.draft /\ u.rev = s.approved
    BY <1>2, <2>1, <2>2, <2>3
  <2>q. QED
    BY <1>2, <2>1, <2>2, <2>3, <2>4, <2>5, <1>a
<1>5. CASE MarkPublished(p)
  <2> DEFINE u == [pub[p] EXCEPT !.pc = "complete"]
             s == [row[b] EXCEPT !.status = "published", !.message = TRUE, !.leased = FALSE]
  <2>1. u \in Work /\ u.pc = "complete" /\ u.b = b /\ u.rev = pub[p].rev /\ ~u.waiting
    BY <1>1, <1>2 DEF Work
  <2>2. s \in Row /\ s.status \in Closed /\ s.draft = row[b].draft
        /\ s.approved = row[b].approved /\ s.doc = row[b].doc
    BY <1>3 DEF Row, Closed
  <2>3. row' = [row EXCEPT ![b] = s] /\ pub' = [pub EXCEPT ![p] = u]
        /\ UNCHANGED <<requests, document, message>> /\ pub[p].pc = "published"
    BY <1>3, <1>5 DEF MarkPublished, Goto
  <2>4. Shown(b, 4) /\ Asked(b) = {}
    BY <1>2, <2>3 DEF OnCourse
  <2> HIDE DEF s, u
  <2>5. u.rev = s.draft /\ u.rev = s.approved
    BY <1>2, <2>1, <2>2
  <2>q. QED
    BY <1>2, <2>1, <2>2, <2>3, <2>4, <2>5, <1>a
<1>6. CASE MarkFailure(p)
  <2> DEFINE s == [row[b] EXCEPT !.status = "blocked", !.leased = FALSE]
  <2>1. s \in Row /\ s.status \in Closed /\ s.draft = row[b].draft
        /\ s.approved = row[b].approved /\ s.doc = row[b].doc /\ s.message = row[b].message
        /\ s.status # "published"
    BY <1>3 DEF Row, Closed
  <2>2. row' = [row EXCEPT ![b] = s] /\ pub' = [pub EXCEPT ![p] = NoPub]
        /\ UNCHANGED <<requests, document, message>>
    BY <1>3, <1>6 DEF MarkFailure
  <2>3. NoPub.pc = "idle" /\ ~NoPub.waiting
    BY DEF NoPub
  <2> HIDE DEF s
  <2>q. QED
    BY <1>2, <2>1, <2>2, <2>3, Idle, RowStep
<1>q. QED
  BY <1>4, <1>5, <1>6

\* Whatever a provider does with a request it has accepted, and whenever, the next
\* thing is there to be seen, or nothing is.
LEMMA ProviderKeeps ==
  ASSUME PublicationInv, Provider
  PROVE  PublicationInv'
<1> USE DEF PublicationInv
<1>1. PICK r \in requests :
        /\ requests' = requests \ {r} /\ UNCHANGED <<row, pub>>
        /\ \/ Effect(r)
           \/ /\ \A p \in Publishers : pub[p].waiting => RequestOf(p) # r
              /\ UNCHANGED <<document, message>>
  BY DEF Provider, reviewVars
<1>2. PICK b \in Briefings : b = r.b
  BY DEF PublicationTypes, Requests
<1>3. /\ r \in Requests /\ r \in Asked(b) /\ InOrder(b) /\ r.kind \in Kinds
      /\ r.text = row[b].approved /\ Shown(b, Place[r.kind]) /\ Asked(b) = {r}
  BY <1>2 DEF PublicationTypes, Asked, InOrder, Requests
<1>4. Asked(b)' = {} /\ requests' \subseteq Requests
  BY <1>1, <1>3 DEF Asked, PublicationTypes
<1>5. \A c \in Briefings : c # b => Asked(c)' = Asked(c) /\ row'[c] = row[c]
  BY <1>1, <1>2 DEF Asked
<1>6. CASE Effect(r)
  <2>1. /\ document' \in [Briefings -> Documents] /\ message' \in [Briefings -> Messages]
        /\ \A c \in Briefings : c # b => document'[c] = document[c] /\ message'[c] = message[c]
        /\ Shown(b, Place[r.kind] + 1)'
    <3>1. Shown(r.b, Place[r.kind]) /\ r.text = row[r.b].approved
      BY <1>2, <1>3
    <3>2. /\ document' \in [Briefings -> Documents] /\ message' \in [Briefings -> Messages]
          /\ \A c \in Briefings : c # r.b => document'[c] = document[c] /\ message'[c] = message[c]
          /\ Shown(r.b, Place[r.kind] + 1)'
      BY <1>1, <1>3, <1>6, <3>1, EffectShows
    <3>q. QED
      BY <1>2, <3>2
  <2>2. \A c \in Briefings : c # b => Same(c)
    BY <1>5, <2>1 DEF Same
  <2>3. ASSUME NEW c \in Briefings PROVE InOrder(c)'
    <3>1. CASE c # b
      BY <2>2, <3>1, SameInOrder
    <3>2. CASE c = b
      <4>1. Place[r.kind] + 1 \in 0 .. 4 /\ Place[r.kind] \in 0 .. 3
        BY <1>3, KindFacts
      <4>2. row[b].doc => Place[r.kind] + 1 = 4
        <5>1. row[b].doc => Shown(b, 3) \/ Shown(b, 4)
          BY <1>3 DEF InOrder
        <5>q. QED
          BY <1>3, <4>1, <5>1, ShownApart
      <4>3. ~(row[b].message \/ row[b].status = "published")
        <5>1. row[b].message \/ row[b].status = "published" => Shown(b, 4)
          BY <1>3 DEF InOrder
        <5>q. QED
          BY <1>3, <4>1, <5>1, ShownApart
      <4>4. row[b].status \notin Open
        BY <1>3 DEF InOrder
      <4>5. row'[b] = row[b]
        BY <1>1
      <4>6. row'[b].doc => Shown(b, 4)'
        BY <2>1, <4>2, <4>5
      <4>7. InOrder(b)'
        BY <1>4, <2>1, <4>1, <4>3, <4>4, <4>5, <4>6 DEF InOrder
      <4>q. QED
        BY <3>2, <4>7
    <3>q. QED
      BY <3>1, <3>2
  <2>4. ASSUME NEW p \in Publishers PROVE OnCourse(pub[p])'
    <3>1. PICK u \in Work : u = pub[p] /\ OnCourse(u)
      BY DEF PublicationTypes
    <3> SUFFICES OnCourse(u)'
      BY <1>1, <3>1
    <3>2. CASE ~Active(u) \/ u.b # b
      <4>1. Active(u) => Same(u.b)
        BY <2>2, <3>1, <3>2 DEF OnCourse, Active
      <4>q. QED
        BY <3>1, <4>1, SameOnCourse
    <3>3. CASE Active(u) /\ u.b = b
      <4>1. u.pc \in Kinds /\ u.waiting => RequestFor(u) = r /\ Shown(b, Place[u.pc] + 1)'
        BY <1>3, <2>1, <3>1, <3>3 DEF OnCourse, RequestFor
      <4>2. u.pc \notin {"begin", "briefing", "discord", "google", "published", "complete"}
            /\ (u.pc \in Kinds => u.waiting)
        BY <1>3, <3>1, <3>3 DEF OnCourse
      <4>q. QED
        BY <1>1, <1>4, <3>1, <3>3, <4>1, <4>2, KindFacts DEF OnCourse, Active
    <3>q. QED
      BY <3>2, <3>3
  <2>5. PublicationTypes' /\ OnePublisher'
    BY <1>1, <1>4, <2>1 DEF PublicationTypes, OnePublisher
  <2>q. QED
    BY <2>3, <2>4, <2>5
<1>7. CASE /\ \A p \in Publishers : pub[p].waiting => RequestOf(p) # r
           /\ UNCHANGED <<document, message>>
  <2>1. \A c, n : Shown(c, n)' <=> Shown(c, n)
    BY <1>1, <1>7 DEF Shown
  <2>2. \A c \in Briefings : c # b => Same(c)
    BY <1>5, <1>7 DEF Same
  <2>3. ASSUME NEW c \in Briefings PROVE InOrder(c)'
    <3>1. CASE c # b
      BY <2>2, <3>1, SameInOrder
    <3>2. InOrder(b)'
      BY <1>1, <1>3, <1>4, <2>1 DEF InOrder
    <3>q. QED
      BY <3>1, <3>2
  <2>4. ASSUME NEW p \in Publishers PROVE OnCourse(pub[p])'
    <3>1. PICK u \in Work : u = pub[p] /\ OnCourse(u)
      BY DEF PublicationTypes
    <3> SUFFICES OnCourse(u)'
      BY <1>1, <3>1
    <3>2. CASE ~Active(u) \/ u.b # b
      <4>1. Active(u) => Same(u.b)
        BY <2>2, <3>1, <3>2 DEF OnCourse, Active
      <4>q. QED
        BY <3>1, <4>1, SameOnCourse
    <3>3. CASE Active(u) /\ u.b = b
      <4>1. ~(u.pc \in Kinds /\ u.waiting)
        BY <1>3, <1>7, <3>1, <3>3 DEF OnCourse, RequestFor, RequestOf
      <4>2. u.pc \notin {"begin", "briefing", "discord", "google", "published", "complete"}
            /\ (u.pc \in Kinds => u.waiting)
        BY <1>3, <3>1, <3>3 DEF OnCourse
      <4>q. QED
        BY <1>1, <1>4, <3>1, <3>3, <4>1, <4>2, KindFacts DEF OnCourse, Active
    <3>q. QED
      BY <3>2, <3>3
  <2>5. PublicationTypes' /\ OnePublisher'
    BY <1>1, <1>4, <1>7 DEF PublicationTypes, OnePublisher
  <2>q. QED
    BY <2>3, <2>4, <2>5
<1>q. QED
  BY <1>1, <1>6, <1>7

\* Rows change under no publisher at work: what is in order stays in order.
LEMMA RowsStep ==
  ASSUME PublicationInv, ReviewTypes, NEW b \in Briefings, NEW s \in Row,
         UNCHANGED <<pub, requests, document, message>>,
         row' = [row EXCEPT ![b] = s],
         \A p \in Publishers : Active(pub[p]) => pub[p].b # b,
         \A n \in 0 .. 4 : Shown(b, n) => Shown(b, n)',
         s.approved = row[b].approved \/ Asked(b) = {},
         s.status \in Open => Shown(b, 0) /\ Asked(b) = {},
         s.doc => row[b].doc \/ Shown(b, 4),
         s.message \/ s.status = "published" =>
           row[b].message \/ row[b].status = "published" \/ Shown(b, 4)
  PROVE  PublicationInv'
<1> USE DEF PublicationInv
<1>1. row'[b] = s /\ \A c \in Briefings : c # b => row'[c] = row[c]
  BY DEF ReviewTypes
<1>2. \A c \in Briefings : c # b => Same(c)
  BY <1>1 DEF Same, Asked
<1>3. Asked(b)' = Asked(b)
  BY DEF Asked
<1>4. InOrder(b)'
  <2>1. \A r \in Asked(b) : Place[r.kind] \in 0 .. 4
    BY KindFacts DEF Asked, PublicationTypes, Requests
  <2>q. QED
    BY <1>1, <1>3, <2>1 DEF InOrder
<1>5. \A c \in Briefings : InOrder(c)'
  BY <1>2, <1>4, SameInOrder
<1>6. ASSUME NEW p \in Publishers PROVE OnCourse(pub[p])'
  <2>1. PICK u \in Work : u = pub[p] /\ OnCourse(u)
    BY DEF PublicationTypes
  <2>2. Active(u) => Same(u.b)
    BY <1>2, <2>1 DEF OnCourse, Active
  <2>3. OnCourse(u)'
    BY <2>1, <2>2, SameOnCourse
  <2>q. QED
    BY <2>1, <2>3
<1>7. PublicationTypes' /\ OnePublisher'
  BY DEF PublicationTypes, OnePublisher
<1>q. QED
  BY <1>5, <1>6, <1>7

\* What an operator closes, nobody is at work on, and it is as certain as what is shown.
LEMMA ReconcileKeeps ==
  ASSUME PublicationInv, ReviewTypes, Reconcile
  PROVE  PublicationInv'
<1>1. CASE UNCHANGED row
  <2>1. UNCHANGED <<pub, requests, document, message>>
    BY DEF Reconcile
  <2>q. QED
    BY <1>1, <2>1 DEF PublicationInv, PublicationTypes, OnePublisher, OnCourse, InOrder, Shown,
                      Asked, Active
<1>2. CASE ~UNCHANGED row
  <2>1. PICK b \in Briefings :
          /\ row[b].status = "publishing"
          /\ row' = [row EXCEPT ![b] =
               IF Delivered(b)
                 THEN [@ EXCEPT !.status = "published", !.leased = FALSE, !.doc = TRUE, !.message = TRUE]
                 ELSE [@ EXCEPT !.status = "blocked", !.leased = FALSE]]
    BY <1>2 DEF Reconcile
  <2>2. UNCHANGED <<pub, requests, document, message>>
        /\ \A p \in Publishers : pub[p].pc = "idle"
    BY DEF Reconcile
  <2> DEFINE s == IF Delivered(b)
                    THEN [row[b] EXCEPT !.status = "published", !.leased = FALSE, !.doc = TRUE,
                                        !.message = TRUE]
                    ELSE [row[b] EXCEPT !.status = "blocked", !.leased = FALSE]
  <2>3. row[b] \in Row /\ row \in [Briefings -> Row]
    BY DEF ReviewTypes
  <2>4. row' = [row EXCEPT ![b] = s]
    BY <2>1, <2>3
  <2>5. /\ s \in Row /\ s.status \in Closed /\ s.approved = row[b].approved
        /\ ~Delivered(b) => /\ s.doc = row[b].doc /\ s.message = row[b].message
                            /\ s.status = "blocked"
    <3>1. CASE Delivered(b)
      <4>1. s = [row[b] EXCEPT !.status = "published", !.leased = FALSE, !.doc = TRUE, !.message = TRUE]
        BY <3>1
      <4> HIDE DEF s
      <4>2. s \in Row /\ s.status = "published" /\ s.approved = row[b].approved
        BY <2>3, <4>1 DEF Row, Closed
      <4>q. QED
        BY <3>1, <4>2 DEF Closed
    <3>2. CASE ~Delivered(b)
      BY <2>3, <3>2 DEF Row, Closed
    <3>q. QED
      BY <3>1, <3>2
  <2> HIDE DEF s
  <2>6. \A n \in 0 .. 4 : Shown(b, n) => Shown(b, n)'
    BY <2>2, <2>3, <2>4, <2>5 DEF Shown
  <2>7. Delivered(b) => Shown(b, 4)
    BY DeliveredIsShown
  <2>8. \A p \in Publishers : Active(pub[p]) => pub[p].b # b
    BY <2>2 DEF Active
  <2>9. s.status \notin Open
    BY <2>5, StatusFacts
  <2>q. QED
    BY <2>2, <2>4, <2>5, <2>6, <2>7, <2>8, <2>9, RowsStep
<1>q. QED
  BY <1>1, <1>2

\* Reviewers change what nobody publishes and nothing is shown of.
LEMMA ReviewKeepsOrder ==
  ASSUME PublicationInv, ReviewInv, Review
  PROVE  PublicationInv'
<1>1. UNCHANGED <<pub, requests, document, message>>
  BY DEF Review, publishVars
<1>2. CASE row' = row
  BY <1>1, <1>2 DEF PublicationInv, PublicationTypes, OnePublisher, OnCourse, InOrder, Shown,
                    Asked, Active
<1>3. ASSUME NEW b \in Briefings, NEW s \in Row, row[b].status \in Open, Redrafted(row[b], s),
             row' = [row EXCEPT ![b] = s]
      PROVE  PublicationInv'
  <2>1. ReviewTypes /\ row'[b] = s
    BY <1>3 DEF ReviewInv, ReviewTypes
  <2>2. Shown(b, 0) /\ Asked(b) = {} /\ InOrder(b)
    BY <1>3 DEF PublicationInv, InOrder
  <2>3. \A p \in Publishers : Active(pub[p]) => pub[p].b # b
    BY <1>3, Alone, StatusFacts
  <2>4. \A n \in 0 .. 4 : Shown(b, n) => Shown(b, n)'
    <3>1. Shown(b, 0)'
      BY <1>1, <2>2, NothingShown
    <3>q. QED
      BY <2>2, <3>1, ShownApart
  <2>q. QED
    BY <1>1, <1>3, <2>1, <2>2, <2>3, <2>4, RowsStep, StatusFacts DEF Redrafted, Closed, Open
<1>q. QED
  BY <1>2, <1>3, ReviewKeeps

LEMMA PublicationStarts == Init => PublicationInv
<1> SUFFICES ASSUME Init PROVE PublicationInv
  OBVIOUS
<1>1. PublicationTypes
  BY Idle DEF Init, PublicationTypes, Documents, Messages, MaybeRev
<1>2. \A p \in Publishers : OnCourse(pub[p])
  BY Idle DEF Init
<1>3. ASSUME NEW b \in Briefings PROVE InOrder(b)
  <2>1. Shown(b, 0)
    BY ShownValues DEF Init, Shown, NoRow
  <2>2. Asked(b) = {}
    BY DEF Init, Asked
  <2>3. ~row[b].doc /\ ~row[b].message /\ row[b].status = "absent"
    BY DEF Init, NoRow
  <2>q. QED
    BY <2>1, <2>2, <2>3 DEF InOrder
<1>4. OnePublisher
  BY Idle DEF Init, OnePublisher
<1>q. QED
  BY <1>1, <1>2, <1>3, <1>4 DEF PublicationInv

LEMMA PublicationSteps == ReviewInv /\ PublicationInv /\ [Next]_vars => PublicationInv'
<1> SUFFICES ASSUME ReviewInv, PublicationInv, [Next]_vars PROVE PublicationInv'
  OBVIOUS
<1>1. ReviewTypes
  BY DEF ReviewInv
<1>2. CASE UNCHANGED vars
  BY <1>2 DEF vars, PublicationInv, PublicationTypes, OnePublisher, OnCourse, InOrder, Shown,
              Asked, Active
<1>3. CASE Publish
  <2>1. PICK p \in Publishers :
       \/ \E b \in Briefings : Authorize(p, b) /\ UNCHANGED row
       \/ Claim(p) \/ ClaimFails(p) \/ Begin(p) \/ ReadBriefing(p) \/ ReadDiscord(p)
       \/ Send(p) \/ NotSent(p) \/ Answered(p) \/ Refused(p) \/ GiveUp(p)
       \/ RecordGoogle(p) \/ MarkPublished(p) \/ NotRecorded(p) \/ MarkFailure(p)
       \/ Complete(p) \/ LeaseExpires(p) \/ Interrupt(p)
    BY <1>3 DEF Publish
  <2>q. QED
    BY <1>1, <2>1, MovesKeep, SendKeeps, RefusedKeeps, ClaimKeepsOrder, RecordsKeep
<1>q. QED
  BY <1>1, <1>2, <1>3, ReviewKeepsOrder, ProviderKeeps, ReconcileKeeps DEF Next

\* Whatever reaches a provider, however late, is the approved pair, once and in
\* order; what a row says of it is true.
THEOREM CommunityPublishes == Spec => []PublishedAsApproved
<1>1. PublicationInv => PublishedAsApproved
  <2> SUFFICES ASSUME PublicationInv, NEW b \in Briefings
               PROVE  LET complete == document[b] = [copies |-> 1, text |-> row[b].approved,
                                                     shared |-> TRUE]
                      IN  /\ document[b].copies <= 1 /\ message[b].copies <= 1
                          /\ document[b].text \in {NoRev, row[b].approved}
                          /\ message[b].text \in {NoRev, row[b].approved}
                          /\ \A r \in requests : r.b = b => r.text = row[b].approved
                          /\ message[b].copies = 1 \/ row[b].doc => complete
                          /\ row[b].message \/ row[b].status = "published" => Delivered(b)
    BY DEF PublishedAsApproved
  <2>1. InOrder(b)
    BY DEF PublicationInv
  <2>2. PICK n \in 0 .. 4 : Shown(b, n)
    BY <2>1 DEF InOrder
  <2>3. row[b].doc \/ n = 4 => document[b] = [copies |-> 1, text |-> row[b].approved, shared |-> TRUE]
    BY <2>1, <2>2, ShownValues DEF InOrder, Shown
  <2>4. /\ document[b].copies <= 1 /\ message[b].copies <= 1
        /\ document[b].text \in {NoRev, row[b].approved}
        /\ message[b].text \in {NoRev, row[b].approved}
        /\ message[b].copies = 1 => n = 4
    BY <2>2 DEF Shown, ShownDocument, ShownMessage
  <2>5. \A r \in requests : r.b = b => r.text = row[b].approved
    BY <2>1 DEF InOrder, Asked
  <2>6. row[b].message \/ row[b].status = "published" => Delivered(b)
    BY <2>1, DeliveredIsShown DEF InOrder
  <2>q. QED
    BY <2>3, <2>4, <2>5, <2>6
<1>q. QED
  BY <1>1, ReviewStarts, ReviewSteps, PublicationStarts, PublicationSteps, PTL DEF Spec
=============================================================================
