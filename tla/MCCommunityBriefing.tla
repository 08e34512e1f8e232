-------------------------- MODULE MCCommunityBriefing --------------------------
(***************************************************************************)
(* Instances of CommunityBriefing for TLC.                                 *)
(***************************************************************************)
EXTENDS CommunityProperties, TLC

\* Nothing orders briefings, revisions, reviewers or publishers.
Interchangeable ==
  Permutations(Briefings) \cup Permutations(Revisions)
    \cup Permutations(Reviewers) \cup Permutations(Publishers)
=============================================================================
