-------------------------- MODULE MCExecutionEngine --------------------------
(* Instances of ExecutionEngine for TLC.                                    *)
EXTENDS EngineProperties
=============================================================================
