-------------------------- MODULE CommunityProperties --------------------------
(***************************************************************************)
(* What the review service and the publisher owe a briefing together.      *)
(***************************************************************************)
EXTENDS CommunityBriefing

\* Once a briefing is claimed, and ever after, no review, revision or
\* regeneration replaces its files or its approval, whatever it had read or
\* begun before: the row only moves on to its outcome.
FrozenByClaim ==
  [][\A b \in Briefings :
       row[b].status \in {"publishing", "published", "blocked"} =>
         /\ files'[b] = files[b]
         /\ row'[b].draft = row[b].draft /\ row'[b].approved = row[b].approved
         /\ row'[b].status \in {row[b].status, "published", "blocked"}
         /\ row[b].status # "publishing" => row'[b].status = row[b].status]_vars

\* Whatever reaches a provider, however late, is the approved pair: at most one
\* document and one message, of that revision, the message only after a filled
\* and shared document; a recorded receipt and a published row are true.
PublishedAsApproved ==
  \A b \in Briefings :
    LET complete == document[b] = [copies |-> 1, text |-> row[b].approved, shared |-> TRUE] IN
    /\ document[b].copies <= 1 /\ message[b].copies <= 1
    /\ document[b].text \in {NoRev, row[b].approved}
    /\ message[b].text \in {NoRev, row[b].approved}
    /\ \A r \in requests : r.b = b => r.text = row[b].approved
    /\ message[b].copies = 1 \/ row[b].doc => complete
    /\ row[b].message \/ row[b].status = "published" => Delivered(b)

\* The files of a briefing are a whole pair, the one its row names, unless the
\* marker says that a replacement is under way or was cut short; so an approval
\* without a marker is an approval of what is on the disk.
TornPairIsMarked ==
  \A b \in Briefings :
    marker[b].phase # "committing" => files[b] = [briefing |-> row[b].draft, discord |-> row[b].draft]
=============================================================================
