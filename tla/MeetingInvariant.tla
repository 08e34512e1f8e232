-------------------------- MODULE MeetingInvariant --------------------------
(* The inductive invariant behind the safety properties of                  *)
(* MeetingProperties, in parts that are proved one after the other.         *)
EXTENDS MeetingProperties

\* Types, and what the control states say of the local variables.
Local ==
  /\ \A w \in Workers :
       /\ Holds(w) => job[w] \in Items /\ Rev(w) \in Revisions
       /\ pc[w] \in {"resume", "exact"} => job[w] \in Items /\ seen[w][job[w]] \in Revisions
       /\ pc[w] = "upsert" => \A i \in todo[w] : seen[w][i] \in Revisions
       /\ pc[w] = "archive" => \A i \in todo[w] : seen[w][i] \in Revisions
  /\ \A r \in Reviewers : rpc[r] # "idle" =>
       form[r].item \in Items /\ form[r].rev \in Revisions /\ form[r].note \in Revisions

TypeInv == TypeOK /\ Local /\ \A i \in Items : RowSane(rows[i])

\* One publication is open at a time, and its worker has its claim.
ClaimInv ==
  /\ \A i, j \in Items : Open(i) /\ Open(j) => i = j
  /\ OneClaimant
  /\ ApprovalIsReviewed

-----------------------------------------------------------------------------
(* What the providers have and what is under way to them, while a           *)
(* publication is at a given place.                                         *)

Delivered(i, rev) == drive[i] = [copies |-> 1, text |-> rev, shared |-> TRUE]
Announced(i, rev) == channel[i] = [copies |-> 1, text |-> rev]

\* The worker does not know whether its last request will still be applied.
Doubtful(w) == pc[w] = "fail" /\ outcome[w] = "uncertain"

\* A request belongs to an open publication and to the revision it approves,
\* and the providers are still as its sender found them.
Sent(q) ==
  /\ Open(q.item)
  /\ rows[q.item].approved = q.rev
  /\ q.kind = "create" => drive[q.item].copies = 0
  /\ q.kind \in {"write", "share"} => drive[q.item].copies = 1
  /\ q.kind = "share" => drive[q.item].text = q.rev
  /\ q.kind \in {"post", "edit"} => Delivered(q.item, q.rev)
  /\ q.kind = "post" => channel[q.item].copies = 0
  /\ q.kind = "edit" => channel[q.item].copies = 1

\* Only a worker that waits, or gave up waiting, has a request under way.
UnderWay(w) ==
  /\ pc[w] \in Waiting => wire \subseteq {RequestOf(w, pc[w])}
  /\ pc[w] \notin Waiting => wire = {} \/ Doubtful(w)

\* What the worker has brought about when it gets to where it is.
AtPlace(w) ==
  /\ pc[w] = "read" => claim[w].docRev = rows[job[w]].docRev
  /\ pc[w] \in {"created", "write", "written", "share"} => drive[job[w]].copies = 1
  /\ pc[w] \in {"written", "share"} => drive[job[w]].text = Rev(w)
  /\ pc[w] \in {"recordGoogle", "discord", "access", "post", "edit", "recordDiscord",
                 "publish"} => Delivered(job[w], Rev(w))
  /\ pc[w] \in {"recordDiscord", "publish"} => Announced(job[w], Rev(w))

\* A message that the row does not record was posted by the publication that is
\* open: its worker is about to record it, does not know of it, or is gone.
MessageRecorded ==
  \A i \in Items :
    /\ rows[i].msg => channel[i].copies = 1
    /\ ~rows[i].msg /\ channel[i].copies = 1 =>
         /\ Open(i)
         /\ \A w \in Workers : Holds(w) /\ job[w] = i =>
              pc[w] \in {"post", "recordDiscord"} \/ Doubtful(w)

DeliveryInv ==
  /\ \A q, r \in wire : q = r
  /\ \A q \in wire : Sent(q)
  /\ \A w \in Workers : Holds(w) => UnderWay(w) /\ AtPlace(w)
  /\ MessageRecorded
  /\ AtMostOneCopy
  /\ CheckpointIsTrue
  /\ PublishedIsDelivered

-----------------------------------------------------------------------------
(* What a step does to the rows and the claims, seen from far enough away   *)
(* to leave out who takes it.                                               *)

\* Nobody starts to hold a claim.
NoNewClaim ==
  \A w \in Workers : Holds(w)' => Holds(w) /\ job'[w] = job[w] /\ claim'[w] = claim[w]

\* Whoever still holds a claim is where it was.
NobodyMoves ==
  \A w \in Workers : Holds(w)' => pc'[w] = pc[w] /\ outcome'[w] = outcome[w]

\* The rows stay, but for the passing of time.
Quiet ==
  /\ \A i \in Items : Evidence(rows'[i]) = Evidence(rows[i])
  /\ everApproved' = everApproved
  /\ NoNewClaim

\* A quiet step that no publication and no provider takes part in.
Aside == Quiet /\ NobodyMoves /\ UNCHANGED providerVars

\* What a row keeps when it is stored again outside a publication.
Kept(r, s) ==
  /\ s.msg = r.msg
  /\ s.docRev \in {r.docRev, NoRev}
  /\ s.status = "published" => s = r

\* A row is stored again outside a publication, without a new approval.
Rewrites(r, s) ==
  \/ s = r
  \/ /\ s.status \notin {"publishing", "published"}
     /\ s.failure # "uncertain"
     /\ s.approved \in {r.approved, NoRev}
     /\ Kept(r, s)

\* Approvals are withdrawn, or one is given.
Decided ==
  \/ \A i \in Items : rows'[i].approved \in {rows[i].approved, NoRev}
  \/ \E i \in Items : /\ rows'[i].approved \in Revisions
                       /\ \A j \in Items \ {i} : rows'[j].approved = rows[j].approved

\* A scan, a resumption or a review writes while no publication is open.
Write ==
  /\ MayWrite
  /\ \A i \in Items : ~Open(i)'
  /\ \A i \in Items : rows'[i].approved # NoRev =>
                       <<i, rows'[i].approved>> \in everApproved'
  /\ \A i \in Items : Kept(rows[i], rows'[i])
  /\ Decided
  /\ NoNewClaim
  /\ UNCHANGED providerVars

\* w takes the claim of i.
Claiming(w, i) ==
  /\ MayWrite
  /\ rows' = [rows EXCEPT ![i] = Claim(rows[i])]
  /\ everApproved' = everApproved
  /\ pc'[w] = "read" /\ job'[w] = i /\ claim'[w] = Claim(rows[i])
  /\ \A x \in Workers \ {w} : Holds(x)' => Holds(x)
  /\ UNCHANGED providerVars

\* w records a checkpoint.
Checkpointing(w) ==
  /\ Holds(w) /\ MayRecord
  /\ \E r \in {RecordDoc(rows[job[w]]), RecordMessage(rows[job[w]])} :
       rows' = [rows EXCEPT ![job[w]] = r]
  /\ everApproved' = everApproved
  /\ NoNewClaim

\* w records the outcome and lets go of the claim.
Settling(w) ==
  /\ Holds(w) /\ MayRecord /\ ~Holds(w)'
  /\ \E r \in {MarkPublished(rows[job[w]]), MarkFailure(rows[job[w]], outcome[w])} :
       rows' = [rows EXCEPT ![job[w]] = r]
  /\ everApproved' = everApproved
  /\ NoNewClaim

StepKind ==
  \/ Quiet \/ Write
  \/ \E w \in Workers : \/ \E i \in Items : Claiming(w, i)
                        \/ Checkpointing(w) \/ Settling(w)
=============================================================================
