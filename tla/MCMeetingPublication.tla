------------------------ MODULE MCMeetingPublication ------------------------
(* Instances of MeetingPublication for TLC.                                 *)
EXTENDS MeetingProperties, TLC

Symmetry == Permutations(Revisions) \cup Permutations(Workers) \cup Permutations(Reviewers)
=============================================================================
