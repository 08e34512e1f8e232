-------------------------- MODULE MCNoteReplacement --------------------------
(* Instances of NoteReplacement for TLC.                                    *)
EXTENDS NoteReplacement, TLC

Symmetry == Permutations(Writers) \cup Permutations(Texts)
=============================================================================
