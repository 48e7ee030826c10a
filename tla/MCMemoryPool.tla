---------------------------- MODULE MCMemoryPool ----------------------------
(* MemoryPool in the scenarios of PoolScenarios. *)
EXTENDS MemoryPool, PoolScenarios
=============================================================================
