-------------------------- MODULE MCBrowserApproval --------------------------
(* Instances of BrowserApproval for TLC.                                    *)
EXTENDS BrowserProperties, EngineProperties, TLC

Symmetry == Permutations(Callers) \cup Permutations(Humans)
=============================================================================
