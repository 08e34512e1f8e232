-------------------------- MODULE MeetingProperties --------------------------
(* What the publication of meeting notes promises.                          *)
EXTENDS MeetingPublication

Drive == [copies : Nat, text : MaybeRev, shared : BOOLEAN]
Channel == [copies : Nat, text : MaybeRev]

\* Types of every variable of the store, the providers, the service processes
\* and the review requests.
TypeOK ==
  /\ note \in [Items -> MaybeRev]
  /\ rows \in [Items -> Row]
  /\ drive \in [Items -> Drive]
  /\ channel \in [Items -> Channel]
  /\ wire \subseteq Request
  /\ pc \in [Workers -> WorkerPc]
  /\ seen \in [Workers -> [Items -> MaybeRev]]
  /\ todo \in [Workers -> SUBSET Items]
  /\ job \in [Workers -> Items \cup {NoItem}]
  /\ claim \in [Workers -> Row]
  /\ outcome \in [Workers -> Failure]
  /\ rpc \in [Reviewers -> ReviewPc]
  /\ form \in [Reviewers -> Form]
  /\ everApproved \subseteq Items \X Revisions

-----------------------------------------------------------------------------
Holds(w) == pc[w] \in Publishing

Frozen == \E i \in Items : Uncertain(i)

\* The row is being published and nobody is left who could finish it.
Abandoned(i) ==
  rows[i].status = "publishing" /\ \A w \in Workers : ~(Holds(w) /\ job[w] = i)

\* store.ts promises one claimant: at most one row is being published, its
\* worker still has exactly that claim, and no second worker publishes, however
\* leases expire and processes crash and restart.
OneClaimant ==
  /\ \A i, j \in Items :
       rows[i].status = "publishing" /\ rows[j].status = "publishing" => i = j
  /\ \A w \in Workers : Holds(w) =>
       /\ rows[job[w]].status = "publishing"
       /\ rows[job[w]].attempts = claim[w].attempts
       /\ rows[job[w]].approved = Rev(w)
  /\ \A w, x \in Workers : Holds(w) /\ Holds(x) => w = x

\* A document and a message are never created twice for one meeting, whatever
\* replies are lost, requests rejected halfway and publications retried.
AtMostOneCopy == \A i \in Items : drive[i].copies <= 1 /\ channel[i].copies <= 1

\* A row marked published is the truth about the providers: one shared document
\* and one message, both with the approved revision, also while later requests
\* of other items or late requests of dead workers are applied.
PublishedIsDelivered ==
  \A i \in Items : rows[i].status = "published" =>
    /\ drive[i] = [copies |-> 1, text |-> rows[i].source, shared |-> TRUE]
    /\ channel[i] = [copies |-> 1, text |-> rows[i].source]
    /\ rows[i].approved = rows[i].source

\* A recorded document checkpoint lets a retry skip Google: the document must
\* then hold that revision and be shared.
CheckpointIsTrue ==
  \A i \in Items : rows[i].docRev # NoRev =>
    drive[i] = [copies |-> 1, text |-> rows[i].docRev, shared |-> TRUE]

\* An approval in the table is for the row's own revision and was given by a
\* reviewer; refreshes, stale scans and automatic resumption never make one.
ApprovalIsReviewed ==
  \A i \in Items : rows[i].approved # NoRev =>
    /\ rows[i].approved = rows[i].source
    /\ <<i, rows[i].approved>> \in everApproved

\* A request that a provider may still apply is for the revision its row has
\* approved, and the row cannot be decided on before the request is settled.
OutstandingIsApproved ==
  \A q \in wire :
    /\ rows[q.item].approved = q.rev
    /\ rows[q.item].status = "publishing" \/ Uncertain(q.item)

-----------------------------------------------------------------------------
(* Action properties                                                       *)

\* Document and message change only to the revision that the row approves at
\* that very moment, even when a provider applies a request late.
OnlyApprovedText ==
  [][\A i \in Items :
       /\ drive'[i].text # drive[i].text => drive'[i].text = rows[i].approved
       /\ channel'[i].text # channel[i].text => channel'[i].text = rows[i].approved]_vars

\* After an uncertain delivery the table is evidence: no scan, review, claim,
\* retry or restarted process changes anything but the passing of time.
Evidence(r) == [r EXCEPT !.waiting = FALSE, !.lease = "none"]
UncertaintyFreezes ==
  [][Frozen => \A i \in Items : Evidence(rows'[i]) = Evidence(rows[i])]_vars

\* A row whose publisher died stays as the publisher left it, and so do all the
\* others: no later process takes it over or publishes something else.
AbandonedStays ==
  [][(\E i \in Items : Abandoned(i)) =>
       \A i \in Items : Evidence(rows'[i]) = Evidence(rows[i])]_vars

-----------------------------------------------------------------------------
(* Liveness                                                                *)

\* Every claim is resolved: published, put back, blocked, or abandoned by a
\* process that ended; a live worker never keeps a claim for ever.
ClaimResolved ==
  \A i \in Items :
    rows[i].status = "publishing" ~> (rows[i].status # "publishing" \/ Abandoned(i))

-----------------------------------------------------------------------------
(* The abstract specification                                              *)

\* A publication is open from the claim until its outcome is recorded.
Open(i) == rows[i].status = "publishing" \/ Uncertain(i)

Granted == [i \in Items |-> rows[i].approved]
OpenItems == {i \in Items : Open(i)}
LostItems == {i \in Items : Uncertain(i)}
Documents == [i \in Items |-> [copies |-> drive[i].copies, text |-> drive[i].text]]

Gate == INSTANCE ApprovalGate WITH
  granted <- Granted, open <- OpenItems, lost <- LostItems,
  document <- Documents, message <- channel

\* The store, the workers, the review requests and the two providers together
\* implement the approval gate of module ApprovalGate: one publication at a
\* time, only of the granted revision, the message after the document.
ImplementsGate == Gate!Spec

=============================================================================
