------------------------------ MODULE MCMemory ------------------------------
(* What manages memory, one after the other in one run: a Buffer, the size classes,  *)
(* the allocators and their object pools.  `program` is the one that runs, and the   *)
(* variables of the others keep their initial values.                                *)
EXTENDS Buffer, SizeClass, ObjectPool, MemoryPool, PoolScenarios

CONSTANT a  \* Buffer

VARIABLE program

\* Buffer: writes of nothing, of one byte, and of a text that does not fit into
\* a new vector.
MCByte == {a, NL, Zero}
MCInputs == {<<>>, <<a>>, <<NL>>, <<a, NL, a>>}

ASSUME ObjectPoolAssumption == SizesFit

\* A program that does not run has one initial state, not several.
MCInit ==
  /\ program \in {"Buffer", "SizeClass", "MemoryPool", "ObjectPool"}
  /\ Init /\ FirstRequest /\ AllocInit /\ PoolInit
  /\ program # "MemoryPool" => config = CHOOSE s \in MCScenarios : s.lib = "Pool"
  /\ program # "SizeClass" => request = 1
  /\ program # "ObjectPool" =>
       pool = CHOOSE p \in [kind : Pools, size : TypeSizes] : TRUE

MCNext ==
  /\ UNCHANGED program
  /\ \/ program = "Buffer" /\ Next /\ UNCHANGED <<request, allocVars, poolVars>>
     \/ program = "SizeClass" /\ NextRequest /\ UNCHANGED <<vars, allocVars, poolVars>>
     \/ program = "MemoryPool" /\ AllocNext /\ UNCHANGED <<vars, request, poolVars>>
     \/ program = "ObjectPool" /\ PoolNext /\ UNCHANGED <<vars, request, allocVars>>

MCSpec == MCInit /\ [][MCNext]_<<program, vars, request, allocVars, poolVars>>

-----------------------------------------------------------------------------

\* What is allocated, from the pools and the object pools, shares no word with what is
\* in use (ConcurrentMalloc and New).
ImplementHeaps == AllocImplementsHeap /\ ImplementsHeap
=============================================================================
