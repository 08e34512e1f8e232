---------------------------- MODULE MCOrchestrator ----------------------------
(* Instances of Orchestrator for TLC.                                       *)
EXTENDS OrchestratorProperties, TLC

Symmetry == Permutations(Clients)
=============================================================================
