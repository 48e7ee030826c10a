----------------------------- MODULE ObjectPool -----------------------------
(***************************************************************************)
(* The three object pools that the allocators are built on:                *)
(*   "Fixed"       src/Fixed_Memory_Pool/FixedSizePool.h                   *)
(*   "Concurrent"  src/ConcurrentMemoryPool/FixedMemoryPool.h              *)
(*   "Pool"        src/Pool/ObjectPool.h                                   *)
(* Each hands out objects of one type, cuts them off a chunk of memory and *)
(* keeps the deleted ones in a list whose links lie in the objects.  They  *)
(* differ in the size they compare, the size they cut and in what they     *)
(* have changed already when the system refuses a chunk.  Addresses are    *)
(* pairs of a chunk and an offset; chunk 0 is the null pointer.            *)
(***************************************************************************)
EXTENDS Integers, FiniteSets, Sequences

CONSTANTS
  Pools,      \* which of the pools
  TypeSizes,  \* what sizeof(T) may be
  Pointer,    \* sizeof(void*)
  ChunkSize,  \* what is asked of the system: 4 KB, and 8 KB in Pool
  MaxChunks,  \* bound on the chunks
  MaxHeld     \* bound on the objects in use

\* What the constants are: a chunk is full of pointers.
SizesFit ==
  /\ Pools \subseteq {"Fixed", "Concurrent", "Pool"}
  /\ TypeSizes \subseteq Nat \ {0}
  /\ Pointer \in Nat \ {0}
  /\ ChunkSize \in Nat
  /\ \E n \in 1 .. ChunkSize : ChunkSize = n * Pointer
  /\ MaxHeld \in Nat

VARIABLES
  pool,      \* the pool and the size of its objects
  chunk,     \* the chunks asked of the system so far
  memory,    \* _memory: the next address to cut
  remain,    \* _remain_size
  freeList,  \* _free_list, last deleted first
  objects,   \* the objects in use
  refused    \* whether the system has refused a chunk

poolVars == <<pool, chunk, memory, remain, freeList, objects, refused>>

-----------------------------------------------------------------------------

\* What an object needs: room for the list's link.
ObjSize == IF pool.size > Pointer THEN pool.size ELSE Pointer

\* Mutant of CutSize: the link is forgotten.
CutSizeOfType == pool.size

\* By how much _memory moves.  Pool's has computed obj_size and moves by sizeof(T).
CutSize == IF pool.kind = "Pool" THEN pool.size ELSE ObjSize

\* Mutant of Short: only an empty chunk is short.
ShortWhenEmpty == remain = 0

\* An int _remain_size is compared with a size_t, as which a negative one is huge.
\* Fixed's compares with sizeof(T).
Short ==
  /\ remain >= 0
  /\ remain < IF pool.kind = "Fixed" THEN pool.size ELSE ObjSize

\* The size asked of the system.
BlockSize ==
  IF pool.kind = "Concurrent" /\ ObjSize > ChunkSize THEN ObjSize ELSE ChunkSize

PoolInit ==
  /\ pool \in [kind : Pools, size : TypeSizes]
  /\ chunk = 0
  /\ memory = [chunk |-> 0, at |-> 0]
  /\ remain = 0
  /\ freeList = <<>>
  /\ objects = {}
  /\ refused = FALSE

\* The object is the last deleted one.
NewFromList ==
  /\ freeList # <<>>
  /\ objects' = objects \cup {Head(freeList)}
  /\ freeList' = Tail(freeList)
  /\ UNCHANGED <<pool, chunk, memory, remain, refused>>

\* It is cut off `rest` bytes that begin at `from`.
Cut(from, rest) ==
  /\ objects' = objects \cup {from}
  /\ memory' = [from EXCEPT !.at = @ + CutSize]
  /\ remain' = rest - CutSize
  /\ UNCHANGED <<pool, freeList, refused>>

NewFromChunk == freeList = <<>> /\ ~Short /\ Cut(memory, remain) /\ UNCHANGED chunk

\* What is left of the chunk before is never used.
NewFromSystem ==
  /\ freeList = <<>> /\ Short /\ chunk < MaxChunks
  /\ chunk' = chunk + 1
  /\ Cut([chunk |-> chunk + 1, at |-> 0], BlockSize)

\* New throws.  Fixed's and Pool's have set _remain_size by then, and kept _memory.
NewRefused ==
  /\ freeList = <<>> /\ Short /\ ~refused
  /\ refused' = TRUE
  /\ remain' = IF pool.kind = "Concurrent" THEN remain ELSE BlockSize
  /\ UNCHANGED <<pool, chunk, memory, freeList, objects>>

New == NewFromList \/ NewFromChunk \/ NewFromSystem \/ NewRefused

Delete ==
  \E o \in objects :
    /\ objects' = objects \ {o}
    /\ freeList' = <<o>> \o freeList
    /\ UNCHANGED <<pool, chunk, memory, remain, refused>>

PoolNext ==
  \/ Cardinality(objects) < MaxHeld /\ New
  \/ Delete

PoolSpec == PoolInit /\ [][PoolNext]_poolVars

-----------------------------------------------------------------------------

Inside(o) == o.chunk >= 1 /\ o.at + ObjSize <= BlockSize

(***************************************************************************)
(* Every object that New has given lies in a chunk that the system has     *)
(* given, and _remain_size is what is left of it.                          *)
(***************************************************************************)
ObjectsInside ==
  /\ \A o \in objects : Inside(o)
  /\ chunk >= 1 => remain = BlockSize - memory.at /\ remain >= 0

(***************************************************************************)
(* ObjectsInside in the pools that hold: Concurrent's in every case, even  *)
(* when a chunk was refused, the others of objects no longer than a chunk  *)
(* as long as none was.                                                    *)
(***************************************************************************)
SuitedObjectsInside ==
  pool.kind = "Concurrent" \/ (pool.size <= ChunkSize /\ ~refused) => ObjectsInside

\* An address as one number: chunks are further apart than all that can be cut off one.
Address(o) == o.chunk * (ObjSize * (MaxHeld + 1)) + o.at

\* Pool's objects shorter than a pointer overlap: Delete's link is written into the next.
AsHeld ==
  IF pool.kind = "Pool" /\ pool.size < Pointer THEN {}
  ELSE {[at |-> Address(o), size |-> ObjSize] : o \in objects}

H == INSTANCE Heap WITH held <- AsHeld

(***************************************************************************)
(* Objects in use share no byte, the bytes of the link included: New and   *)
(* Delete implement a heap of objects of one size.                         *)
(***************************************************************************)
ImplementsHeap == H!Spec
=============================================================================
