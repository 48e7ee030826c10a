-------------------------- MODULE ObjectPoolProofs --------------------------
(* The object pools, for every type and every size of pointers and chunks; and, *)
(* with the allocators that are built on them, that both are heaps.             *)
EXTENDS MCMemory, MemoryPoolProofs, Integers, FiniteSetTheorems, TLAPS

Addresses == [chunk : Nat, at : Nat]

Types ==
  /\ pool \in [kind : {"Fixed", "Concurrent", "Pool"}, size : Nat \ {0}]
  /\ chunk \in Nat
  /\ memory \in Addresses
  /\ remain \in Int
  /\ freeList \in Seq(Addresses)
  /\ objects \subseteq Addresses
  /\ refused \in BOOLEAN

Suited == pool.kind = "Concurrent" \/ (pool.size <= ChunkSize /\ ~refused)

\* What is deleted was given out before.
DeletedInside == \A i \in 1 .. Len(freeList) : Inside(freeList[i])

\* _memory and _remain_size describe the end of the last chunk.
RestKnown ==
  IF chunk = 0 THEN remain = 0
  ELSE memory.chunk >= 1 /\ remain >= 0 /\ remain = BlockSize - memory.at

\* Fixed's compares with sizeof(T) and cuts the size of a pointer: what is left is full
\* of pointers, too.
PointersLeft ==
  pool.kind = "Fixed" /\ pool.size < Pointer => \E n \in Nat : remain = n * Pointer

IInv ==
  /\ Types
  /\ Suited => (\A o \in objects : Inside(o)) /\ DeletedInside /\ RestKnown /\ PointersLeft

(***************************************************************************)
(* Multiples of a pointer: one that is not zero is a pointer at least, and *)
(* a pointer less is one again.                                            *)
(***************************************************************************)
LEMMA Multiples ==
  ASSUME NEW p \in Nat \ {0}, NEW n \in Nat
  PROVE  n = 0 \/ (n * p >= p /\ n * p - p = (n - 1) * p /\ n - 1 \in Nat)
<1>1. SUFFICES ASSUME n # 0
               PROVE  n * p >= p /\ n * p - p = (n - 1) * p /\ n - 1 \in Nat
  OBVIOUS
<1>2. PICK m \in Nat : n = m + 1
  <2>1. n - 1 \in Nat /\ n = (n - 1) + 1 BY <1>1
  <2> QED BY <2>1
<1>3. m * p \in Nat OBVIOUS
<1>4. n * p = m * p + p BY <1>2
<1>5. n - 1 = m BY <1>2
<1> QED BY <1>3, <1>4, <1>5

(***************************************************************************)
(* The sizes New computes are sizes.                                       *)
(***************************************************************************)
LEMMA Sizes ==
  ASSUME SizesFit, Types
  PROVE  /\ ObjSize \in Nat \ {0} /\ ObjSize >= Pointer /\ ObjSize >= pool.size
         /\ ChunkSize \in Nat /\ ChunkSize >= Pointer
         /\ BlockSize \in Nat
         /\ CutSize \in Nat \ {0} /\ CutSize <= ObjSize
         /\ Pointer \in Nat \ {0} /\ pool.size \in Nat \ {0}
<1>1. Pointer \in Nat \ {0} /\ pool.size \in Nat \ {0} BY DEF SizesFit, Types
<1>2. ObjSize \in Nat \ {0} /\ ObjSize >= Pointer /\ ObjSize >= pool.size
  BY <1>1 DEF ObjSize
<1>3. ChunkSize \in Nat /\ ChunkSize >= Pointer
  <2>1. PICK n \in 1 .. ChunkSize : ChunkSize = n * Pointer BY DEF SizesFit
  <2>2. n * Pointer >= Pointer BY <1>1, Multiples
  <2>3. n * Pointer \in Nat BY <1>1
  <2> QED BY <2>1, <2>2, <2>3
<1>4. BlockSize \in Nat BY <1>2, <1>3 DEF BlockSize
<1>5. CutSize \in Nat \ {0} /\ CutSize <= ObjSize BY <1>1, <1>2 DEF CutSize
<1> QED BY <1>1, <1>2, <1>3, <1>4, <1>5

(***************************************************************************)
(* A chunk is long enough for the object it is asked for.                  *)
(***************************************************************************)
LEMMA ChunkIsLongEnough ==
  ASSUME SizesFit, Types, Suited
  PROVE  BlockSize >= ObjSize
<1>1. CASE pool.kind = "Concurrent" BY <1>1, Sizes DEF BlockSize
<1>2. CASE pool.kind # "Concurrent" BY <1>2, Sizes DEF BlockSize, Suited, ObjSize
<1> QED BY <1>1, <1>2

(***************************************************************************)
(* If New does not ask for a chunk there is room for an object (the        *)
(* comparison of _remain_size).                                            *)
(***************************************************************************)
LEMMA RoomUnlessShort ==
  ASSUME SizesFit, IInv, Suited, ~Short
  PROVE  chunk # 0 /\ remain >= ObjSize
<1> USE Sizes DEF IInv
<1>1. remain \in Int /\ remain >= 0 /\ chunk \in Nat BY DEF Types, RestKnown
<1>2. remain >= ObjSize
  <2>1. CASE pool.kind # "Fixed" BY <2>1, <1>1 DEF Short
  <2>2. CASE pool.kind = "Fixed" /\ pool.size >= Pointer
    BY <2>2, <1>1 DEF Short, ObjSize
  <2>3. CASE pool.kind = "Fixed" /\ pool.size < Pointer
    <3>1. PICK n \in Nat : remain = n * Pointer BY <2>3 DEF PointersLeft
    <3>2. remain >= pool.size BY <2>3, <1>1 DEF Short
    <3>3. n # 0 BY <3>1, <3>2
    <3>4. n * Pointer >= Pointer BY <3>3, Multiples
    <3> QED BY <2>3, <3>1, <3>4 DEF ObjSize
  <2> QED BY <2>1, <2>2, <2>3
<1> QED BY <1>1, <1>2 DEF RestKnown

(***************************************************************************)
(* A new pool (the constructor) has no memory, and nothing left of it.     *)
(***************************************************************************)
LEMMA InitHolds == ASSUME SizesFit, PoolInit PROVE IInv
<1>1. Types
  <2>1. pool \in [kind : {"Fixed", "Concurrent", "Pool"}, size : Nat \ {0}]
    BY DEF SizesFit, PoolInit
  <2>2. memory \in Addresses BY DEF PoolInit, Addresses
  <2>3. freeList \in Seq(Addresses) BY DEF PoolInit
  <2>4. chunk \in Nat /\ remain \in Int /\ objects \subseteq Addresses BY DEF PoolInit
  <2>5. refused \in BOOLEAN BY DEF PoolInit
  <2> QED BY <2>1, <2>2, <2>3, <2>4, <2>5 DEF Types
<1>2. remain = 0 * Pointer BY Sizes, <1>1 DEF PoolInit
<1> QED BY <1>1, <1>2 DEF PoolInit, IInv, DeletedInside, RestKnown, PointersLeft

(***************************************************************************)
(* The part of a step that does not concern the memory.                    *)
(***************************************************************************)
LEMMA SameSizes ==
  ASSUME UNCHANGED pool
  PROVE  /\ ObjSize' = ObjSize /\ BlockSize' = BlockSize /\ CutSize' = CutSize
         /\ \A o \in Addresses : Inside(o)' <=> Inside(o)
BY DEF ObjSize, BlockSize, CutSize, Inside

(***************************************************************************)
(* Cutting an object off what is left, in a chunk that has room for it.    *)
(***************************************************************************)
LEMMA CutKeeps ==
  ASSUME SizesFit, IInv, Types', Suited, UNCHANGED <<pool, freeList>>,
         NEW from \in Addresses, NEW rest \in Nat,
         from.chunk >= 1, rest = BlockSize - from.at, rest >= ObjSize,
         pool.kind = "Fixed" /\ pool.size < Pointer => \E n \in Nat : rest = n * Pointer,
         objects' = objects \cup {from},
         memory' = [from EXCEPT !.at = @ + CutSize],
         remain' = rest - CutSize,
         chunk' # 0
  PROVE  (\A o \in objects' : Inside(o)') /\ DeletedInside' /\ RestKnown' /\ PointersLeft'
<1>1. /\ \A o \in objects : Inside(o)
      /\ DeletedInside /\ Types
  BY DEF IInv
<1>2. /\ objects \subseteq Addresses /\ freeList \in Seq(Addresses)
      /\ \A o \in Addresses : Inside(o)' <=> Inside(o)
      /\ BlockSize' = BlockSize
  BY <1>1, SameSizes DEF Types
<1>3. /\ ObjSize \in Nat \ {0} /\ BlockSize \in Nat /\ CutSize \in Nat \ {0}
      /\ CutSize <= ObjSize /\ from.at \in Nat /\ from.chunk \in Nat
  BY <1>1, Sizes DEF Addresses
<1>4. Inside(from) BY <1>3 DEF Inside
<1>5. \A o \in objects' : Inside(o)' BY <1>1, <1>2, <1>4
<1>6. DeletedInside'
  <2>1. \A i \in 1 .. Len(freeList) : freeList[i] \in Addresses BY <1>2
  <2> QED BY <1>1, <1>2, <2>1 DEF DeletedInside
<1>7. RestKnown'
  <2>1. memory'.chunk = from.chunk /\ memory'.at = from.at + CutSize BY DEF Addresses
  <2>2. remain' >= 0 /\ remain' = BlockSize' - memory'.at BY <1>2, <1>3, <2>1
  <2> QED BY <2>1, <2>2 DEF RestKnown
<1>8. PointersLeft'
  <2>1. SUFFICES ASSUME pool.kind = "Fixed", pool.size < Pointer
                 PROVE  \E n \in Nat : remain' = n * Pointer
    BY DEF PointersLeft
  <2>2. CutSize = Pointer BY <1>1, <2>1, Sizes DEF CutSize, ObjSize
  <2>3. PICK n \in Nat : rest = n * Pointer BY <2>1
  <2>4. n # 0 BY <1>1, <1>3, <2>3, Sizes
  <2>5. n * Pointer - Pointer = (n - 1) * Pointer /\ n - 1 \in Nat
    BY <1>1, <2>4, Multiples, Sizes
  <2> QED BY <2>2, <2>3, <2>5
<1> QED BY <1>5, <1>6, <1>7, <1>8

(***************************************************************************)
(* New moves _memory and _remain_size, and changes nothing else.           *)
(***************************************************************************)
LEMMA CutTypes ==
  ASSUME SizesFit, Types, NEW from \in Addresses, NEW rest \in Int, Cut(from, rest),
         chunk' \in Nat
  PROVE  Types'
<1>1. CutSize \in Nat BY Sizes
<1>2. memory' \in Addresses BY <1>1 DEF Cut, Addresses
<1>3. remain' \in Int BY <1>1 DEF Cut
<1>4. objects' \subseteq Addresses BY DEF Cut, Types
<1>5. UNCHANGED <<pool, freeList, refused>> BY DEF Cut
<1> QED BY <1>2, <1>3, <1>4, <1>5 DEF Types

(***************************************************************************)
(* New and Delete keep the types, and what is known of the memory.         *)
(***************************************************************************)
LEMMA StepKeeps == ASSUME SizesFit, IInv, [PoolNext]_poolVars PROVE IInv'
<1> DEFINE Good == (\A o \in objects : Inside(o)) /\ DeletedInside /\ RestKnown /\ PointersLeft
<1>t. Types BY DEF IInv
<1>a. \A i \in 1 .. Len(freeList) : freeList[i] \in Addresses BY <1>t DEF Types
<1>1. CASE NewFromList
  <2>1. /\ freeList \in Seq(Addresses) /\ freeList # <<>>
        /\ Head(freeList) = freeList[1] /\ 1 \in 1 .. Len(freeList)
        /\ Tail(freeList) \in Seq(Addresses) /\ Len(Tail(freeList)) = Len(freeList) - 1
        /\ \A i \in 1 .. Len(freeList) - 1 :
             Tail(freeList)[i] = freeList[i + 1] /\ i + 1 \in 1 .. Len(freeList)
    BY <1>1, <1>t DEF NewFromList, Types
  <2>2. Types'
    BY <1>1, <1>t, <1>a, <2>1 DEF NewFromList, Types
  <2>3. ASSUME Suited' PROVE Good'
    <3>1. Suited /\ Good BY <1>1, <2>3 DEF NewFromList, Suited, IInv
    <3>2. /\ \A o \in Addresses : Inside(o)' <=> Inside(o)
          /\ BlockSize' = BlockSize
      BY <1>1, SameSizes DEF NewFromList
    <3>3. \A o \in objects' : Inside(o)'
      BY <1>1, <1>t, <1>a, <2>1, <3>1, <3>2 DEF NewFromList, DeletedInside, Types
    <3>4. DeletedInside'
      BY <1>1, <1>a, <2>1, <3>1, <3>2 DEF NewFromList, DeletedInside
    <3>5. RestKnown' /\ PointersLeft'
      BY <1>1, <3>1, <3>2 DEF NewFromList, RestKnown, PointersLeft
    <3> QED BY <3>3, <3>4, <3>5
  <2> QED BY <2>2, <2>3 DEF IInv
<1>2. CASE NewFromChunk
  <2>1. Cut(memory, remain) /\ ~Short /\ UNCHANGED chunk BY <1>2 DEF NewFromChunk
  <2>2. Types'
    <3>1. memory \in Addresses /\ remain \in Int BY <1>t DEF Types
    <3>2. chunk' \in Nat BY <1>t, <2>1 DEF Types
    <3> QED BY <1>t, <2>1, <3>1, <3>2, CutTypes
  <2>3. ASSUME Suited' PROVE Good'
    <3>1. Suited /\ Good BY <2>1, <2>3 DEF Cut, Suited, IInv
    <3>2. chunk # 0 /\ remain >= ObjSize BY <2>1, <3>1, RoomUnlessShort
    <3>3. /\ memory.chunk >= 1 /\ remain \in Nat /\ remain = BlockSize - memory.at
          /\ memory \in Addresses
      BY <1>t, <3>1, <3>2 DEF RestKnown, Types
    <3>4. pool.kind = "Fixed" /\ pool.size < Pointer => \E n \in Nat : remain = n * Pointer
      BY <3>1 DEF PointersLeft
    <3> QED BY <2>1, <2>2, <3>1, <3>2, <3>3, <3>4, CutKeeps DEF Cut
  <2> QED BY <2>2, <2>3 DEF IInv
<1>3. CASE NewFromSystem
  <2> DEFINE from == [chunk |-> chunk + 1, at |-> 0]
  <2>1. Cut(from, BlockSize) /\ chunk' = chunk + 1 BY <1>3 DEF NewFromSystem
  <2>2. from \in Addresses /\ from.chunk = chunk + 1 /\ from.at = 0 /\ chunk \in Nat
    BY <1>t DEF Types, Addresses
  <2>3. BlockSize \in Nat /\ BlockSize = BlockSize - from.at /\ from.chunk >= 1
    BY <1>t, <2>2, Sizes
  <2> HIDE DEF from
  <2>4. Types'
    <3>1. chunk' \in Nat BY <2>1, <2>2
    <3> QED BY <1>t, <2>1, <2>2, <2>3, <3>1, CutTypes
  <2>5. ASSUME Suited' PROVE Good'
    <3>1. Suited BY <2>1, <2>5 DEF Cut, Suited
    <3>2. BlockSize >= ObjSize BY <1>t, <3>1, ChunkIsLongEnough
    <3>3. pool.kind = "Fixed" => \E n \in Nat : BlockSize = n * Pointer
      BY DEF BlockSize, SizesFit
    <3>4. chunk' # 0 BY <2>1, <2>2
    <3> QED BY <2>1, <2>2, <2>3, <2>4, <3>1, <3>2, <3>3, <3>4, CutKeeps DEF Cut
  <2> QED BY <2>4, <2>5 DEF IInv
<1>4. CASE NewRefused
  <2>1. Types' BY <1>4, <1>t, Sizes DEF NewRefused, Types
  <2>2. ASSUME Suited' PROVE Good'
    <3>1. pool.kind = "Concurrent" /\ Suited /\ Good
      BY <1>4, <2>2 DEF NewRefused, Suited, IInv
    <3>2. (\A o \in Addresses : Inside(o)' <=> Inside(o)) /\ BlockSize' = BlockSize
      BY <1>4, SameSizes DEF NewRefused
    <3> QED BY <1>4, <1>t, <1>a, <3>1, <3>2
            DEF NewRefused, DeletedInside, RestKnown, PointersLeft, Types
  <2> QED BY <2>1, <2>2 DEF IInv
<1>5. CASE Delete
  <2>1. PICK o \in objects :
          /\ objects' = objects \ {o}
          /\ freeList' = <<o>> \o freeList
          /\ UNCHANGED <<pool, chunk, memory, remain, refused>>
    BY <1>5 DEF Delete
  <2>2. /\ freeList' \in Seq(Addresses) /\ Len(freeList') = Len(freeList) + 1
        /\ Len(freeList) \in Nat
        /\ \A i \in 1 .. Len(freeList') :
             freeList'[i] = IF i = 1 THEN o ELSE freeList[i - 1]
    BY <1>t, <2>1 DEF Types
  <2>3. Types' BY <1>t, <2>1, <2>2 DEF Types
  <2>4. ASSUME Suited' PROVE Good'
    <3>1. Suited /\ Good BY <2>1, <2>4 DEF Suited, IInv
    <3>2. (\A x \in Addresses : Inside(x)' <=> Inside(x)) /\ BlockSize' = BlockSize
      BY <2>1, SameSizes
    <3>3. objects \subseteq Addresses BY <1>t DEF Types
    <3>4. \A x \in objects' : Inside(x)' BY <2>1, <3>1, <3>2, <3>3
    <3>5. DeletedInside'
      <4>1. SUFFICES ASSUME NEW i \in 1 .. Len(freeList') PROVE Inside(freeList[i])'
        BY DEF DeletedInside
      <4>2. CASE i = 1 BY <2>2, <3>1, <3>2, <3>3, <4>2
      <4>3. CASE i # 1
        <5>1. i - 1 \in 1 .. Len(freeList) BY <2>2, <4>3
        <5> QED BY <1>a, <2>2, <3>1, <3>2, <4>3, <5>1 DEF DeletedInside
      <4> QED BY <4>2, <4>3
    <3>6. RestKnown' /\ PointersLeft' BY <2>1, <3>1, <3>2 DEF RestKnown, PointersLeft
    <3> QED BY <3>4, <3>5, <3>6
  <2> QED BY <2>3, <2>4 DEF IInv
<1>6. CASE UNCHANGED poolVars
  <2>1. (\A o \in Addresses : Inside(o)' <=> Inside(o)) /\ BlockSize' = BlockSize
    BY <1>6, SameSizes DEF poolVars
  <2>2. objects \subseteq Addresses BY <1>t DEF Types
  <2> QED BY <1>6, <1>a, <2>1, <2>2
          DEF poolVars, IInv, Types, Suited, DeletedInside, RestKnown, PointersLeft
<1> QED BY <1>1, <1>2, <1>3, <1>4, <1>5, <1>6 DEF PoolNext, New

(***************************************************************************)
(* New of the three object pools gives memory that the system has given,   *)
(* for every size of the objects, of a pointer and of a chunk that is a    *)
(* multiple of it: always in ConcurrentMemoryPool's, in the other two for  *)
(* objects no longer than a chunk, as long as the system refuses none.     *)
(***************************************************************************)
THEOREM NewStaysInside == ASSUME SizesFit PROVE PoolSpec => []SuitedObjectsInside
<1>1. PoolInit => IInv BY InitHolds
<1>2. IInv /\ [PoolNext]_poolVars => IInv' BY StepKeeps
<1>3. IInv => SuitedObjectsInside
  BY Sizes DEF IInv, SuitedObjectsInside, ObjectsInside, Suited, RestKnown, Types
<1> QED BY <1>1, <1>2, <1>3, PTL DEF PoolSpec

-----------------------------------------------------------------------------

Deleted == {freeList[i] : i \in 1 .. Len(freeList)}

\* What has been cut off the chunks so far: New cuts nothing as long as _free_list has some.
CutOff == objects \cup Deleted
NumCut == Cardinality(objects) + Len(freeList)

\* Each is in use, or in the list once.
OnceOnly ==
  /\ IsFiniteSet(objects) /\ NumCut <= MaxHeld
  /\ \A i, j \in 1 .. Len(freeList) : freeList[i] = freeList[j] => i = j
  /\ objects \cap Deleted = {}

\* In one chunk they are as far apart as _memory was moved.
Beside(o, p) == o.chunk = p.chunk => o.at + CutSize <= p.at \/ p.at + CutSize <= o.at

\* _memory is behind all that was cut off its chunk, and none is further in it than all
\* together are long.
CutApart ==
  /\ memory.chunk <= chunk /\ memory.at <= NumCut * CutSize
  /\ \A o \in CutOff :
       /\ o.chunk <= chunk /\ o.at + CutSize <= NumCut * CutSize
       /\ o.chunk = memory.chunk => o.at + CutSize <= memory.at
  /\ \A o, p \in CutOff : o = p \/ Beside(o, p)

\* Both hold of a new pool.
LEMMA ApartInit == ASSUME SizesFit, PoolInit PROVE OnceOnly /\ CutApart
<1>1. Types /\ CutSize \in Nat
  BY InitHolds, Sizes DEF IInv
<1>2. Deleted = {} /\ CutOff = {} /\ NumCut = 0 /\ IsFiniteSet(objects)
  BY FS_EmptySet DEF PoolInit, Deleted, CutOff, NumCut
<1>3. memory.chunk = 0 /\ memory.at = 0 /\ chunk = 0 /\ Len(freeList) = 0 /\ objects = {}
  BY DEF PoolInit
<1> QED BY <1>1, <1>2, <1>3 DEF OnceOnly, CutApart, SizesFit

\* Where nothing is cut the distances stay.
LEMMA ApartSame ==
  ASSUME CutApart, UNCHANGED <<pool, chunk, memory>>, CutOff' = CutOff, NumCut' = NumCut
  PROVE CutApart'
<1>1. CutSize' = CutSize
  BY SameSizes
<1> QED BY <1>1 DEF CutApart, Beside

\* New from the list, and Delete: one object changes its place.
LEMMA ListKeeps ==
  ASSUME SizesFit, Types, OnceOnly, CutApart, NewFromList \/ Delete
  PROVE OnceOnly' /\ CutApart'
<1>1. freeList \in Seq(Addresses) /\ Len(freeList) \in Nat /\ Cardinality(objects) \in Nat
      /\ IsFiniteSet(objects)
  BY FS_CardinalityType DEF Types, OnceOnly
<1>2. CASE NewFromList
  <2> DEFINE o == freeList[1]
  <2>1. /\ freeList # <<>> /\ objects' = objects \cup {o} /\ Len(freeList) >= 1
        /\ Len(freeList') = Len(freeList) - 1
        /\ \A i \in 1 .. Len(freeList') : freeList'[i] = freeList[i + 1] /\ i + 1 \in 1 .. Len(freeList)
        /\ UNCHANGED <<pool, chunk, memory>>
    BY <1>1, <1>2 DEF NewFromList
  <2>2. o \in Deleted /\ o \notin objects
    BY <1>1, <2>1 DEF Deleted, OnceOnly
  <2>3. \A i \in 1 .. Len(freeList') : freeList'[i] # o
    BY <1>1, <2>1 DEF OnceOnly
  <2>4. Deleted' = Deleted \ {o}
    <3>1. ASSUME NEW x \in Deleted, x # o PROVE x \in Deleted'
      <4>1. PICK i \in 1 .. Len(freeList) : x = freeList[i]
        BY DEF Deleted
      <4>2. i - 1 \in 1 .. Len(freeList') /\ freeList'[i - 1] = x
        <5>1. i # 1 /\ i - 1 \in 1 .. Len(freeList')
          BY <1>1, <2>1, <3>1, <4>1
        <5>2. freeList'[i - 1] = freeList[(i - 1) + 1]
          BY <2>1, <5>1
        <5> QED BY <4>1, <5>1, <5>2
      <4> QED BY <4>2 DEF Deleted
    <3>2. \A x \in Deleted' : x \in Deleted /\ x # o
      BY <2>1, <2>3 DEF Deleted
    <3> QED BY <3>1, <3>2
  <2>5. IsFiniteSet(objects') /\ Cardinality(objects') = Cardinality(objects) + 1
    BY <1>1, <2>1, <2>2, FS_AddElement
  <2> HIDE DEF o
  <2>6. NumCut' = NumCut /\ CutOff' = CutOff
    BY <1>1, <2>1, <2>2, <2>4, <2>5 DEF NumCut, CutOff
  <2>7. OnceOnly'
    <3>1. \A i, j \in 1 .. Len(freeList') : freeList'[i] = freeList'[j] => i = j
      BY <1>1, <2>1 DEF OnceOnly
    <3>2. objects' \cap Deleted' = {}
      BY <2>1, <2>4 DEF OnceOnly
    <3> QED BY <2>5, <2>6, <3>1, <3>2 DEF OnceOnly
  <2> QED BY <2>1, <2>6, <2>7, ApartSame
<1>3. CASE Delete
  <2>1. PICK o \in objects : /\ objects' = objects \ {o} /\ freeList' = <<o>> \o freeList
                             /\ UNCHANGED <<pool, chunk, memory>>
    BY <1>3 DEF Delete
  <2>2. /\ Len(freeList') = Len(freeList) + 1 /\ o \in Addresses
        /\ \A i \in 1 .. Len(freeList') : freeList'[i] = IF i = 1 THEN o ELSE freeList[i - 1]
    BY <1>1, <2>1 DEF Types
  <2>3. \A i \in 1 .. Len(freeList) : freeList[i] # o
    BY <2>1 DEF OnceOnly, Deleted
  <2>4. Deleted' = Deleted \cup {o}
    <3>1. ASSUME NEW i \in 1 .. Len(freeList) PROVE freeList[i] \in Deleted'
      <4>1. i + 1 \in 1 .. Len(freeList') /\ freeList'[i + 1] = freeList[i]
        BY <1>1, <2>2
      <4> QED BY <4>1 DEF Deleted
    <3>2. o \in Deleted'
      <4>1. 1 \in 1 .. Len(freeList') /\ freeList'[1] = o
        BY <1>1, <2>2
      <4> QED BY <4>1 DEF Deleted
    <3>3. ASSUME NEW i \in 1 .. Len(freeList') PROVE freeList'[i] \in Deleted \cup {o}
      <4>1. CASE i = 1
        BY <2>2, <4>1
      <4>2. CASE i # 1
        <5>1. i - 1 \in 1 .. Len(freeList) /\ freeList'[i] = freeList[i - 1]
          BY <1>1, <2>2, <4>2
        <5> QED BY <5>1 DEF Deleted
      <4> QED BY <4>1, <4>2
    <3> QED BY <3>1, <3>2, <3>3 DEF Deleted
  <2>5. IsFiniteSet(objects') /\ Cardinality(objects') = Cardinality(objects) - 1
    BY <1>1, <2>1, FS_RemoveElement
  <2>6. NumCut' = NumCut /\ CutOff' = CutOff
    <3>1. NumCut' = NumCut
      BY <1>1, <2>2, <2>5 DEF NumCut
    <3>2. CutOff' = CutOff
      BY <2>1, <2>4 DEF CutOff
    <3> QED BY <3>1, <3>2
  <2>7. OnceOnly'
    <3>1. ASSUME NEW i \in 1 .. Len(freeList'), NEW j \in 1 .. Len(freeList'),
                 freeList'[i] = freeList'[j]
          PROVE i = j
      <4>1. i # 1 => i - 1 \in 1 .. Len(freeList) /\ freeList'[i] = freeList[i - 1]
        BY <1>1, <2>2
      <4>2. j # 1 => j - 1 \in 1 .. Len(freeList) /\ freeList'[j] = freeList[j - 1]
        BY <1>1, <2>2
      <4>3. (i = 1 => freeList'[i] = o) /\ (j = 1 => freeList'[j] = o)
        BY <2>2
      <4> QED BY <2>3, <3>1, <4>1, <4>2, <4>3 DEF OnceOnly
    <3>2. objects' \cap Deleted' = {}
      BY <2>1, <2>4 DEF OnceOnly
    <3> QED BY <2>5, <2>6, <3>1, <3>2 DEF OnceOnly
  <2> QED BY <2>1, <2>6, <2>7, ApartSame
<1> QED BY <1>2, <1>3

\* What is cut off next lies behind all that was.
LEMMA CutKeepsApart ==
  ASSUME SizesFit, Types, Types', OnceOnly, CutApart, Cardinality(objects) < MaxHeld, freeList = <<>>,
         NEW from \in Addresses, NEW rest, Cut(from, rest),
         from.at <= NumCut * CutSize, from.chunk <= chunk', chunk <= chunk', chunk' \in Nat,
         \A o \in CutOff : o.chunk = from.chunk => o.at + CutSize <= from.at
  PROVE OnceOnly' /\ CutApart'
<1> DEFINE n == CutSize
<1>1. /\ n \in Nat \ {0} /\ CutSize' = n /\ NumCut \in Nat /\ NumCut = Cardinality(objects)
      /\ MaxHeld \in Nat /\ Deleted = {} /\ CutOff = objects /\ chunk \in Nat
      /\ objects \subseteq Addresses /\ from.at \in Nat /\ from.chunk \in Nat
  <2>1. n \in Nat \ {0} /\ CutSize' = n
    BY Sizes, SameSizes DEF Cut
  <2>2. Cardinality(objects) \in Nat
    BY FS_CardinalityType DEF OnceOnly
  <2>3. Deleted = {} /\ CutOff = objects
    BY DEF Deleted, CutOff
  <2> QED BY <2>1, <2>2, <2>3 DEF Types, Addresses, NumCut, SizesFit
<1>2. from \notin objects
  <2>1. ASSUME from \in objects PROVE from.at + n <= from.at
    BY <1>1, <2>1
  <2> HIDE DEF n
  <2> QED BY <1>1, <2>1
<1>3. /\ objects' = objects \cup {from} /\ freeList' = <<>> /\ Deleted' = {} /\ CutOff' = objects \cup {from}
      /\ memory'.chunk = from.chunk /\ memory'.at = from.at + n
  <2>1. objects' = objects \cup {from} /\ freeList' = <<>>
    BY DEF Cut
  <2>2. memory'.chunk = from.chunk /\ memory'.at = from.at + n
    BY DEF Cut, Addresses
  <2> QED BY <2>1, <2>2 DEF Deleted, CutOff
<1>4. /\ IsFiniteSet(objects') /\ NumCut' = NumCut + 1
  <2>1. IsFiniteSet(objects') /\ Cardinality(objects') = Cardinality(objects) + 1
    BY <1>2, <1>3, FS_AddElement DEF OnceOnly
  <2> QED BY <1>1, <1>3, <2>1 DEF NumCut
<1>5. OnceOnly'
  <2>1. NumCut' <= MaxHeld
    BY <1>1, <1>4
  <2> QED BY <1>3, <1>4, <2>1 DEF OnceOnly
<1> HIDE DEF n
<1>6. NumCut * n \in Nat /\ NumCut' * n = NumCut * n + n
  BY <1>1, <1>4, SMTT(30)
<1> DEFINE l == NumCut * n
           m == NumCut' * n
<1>7. /\ l \in Nat /\ m = l + n /\ from.at <= l
      /\ \A o \in objects : /\ o.chunk \in Nat /\ o.at \in Nat /\ o.chunk <= chunk /\ o.at + n <= l
                            /\ o.chunk = from.chunk => o.at + n <= from.at
      /\ \A o, p \in objects : o = p \/ (o.chunk = p.chunk => o.at + n <= p.at \/ p.at + n <= o.at)
  BY <1>1, <1>6 DEF CutApart, Addresses, n, Beside
<1> HIDE DEF l, m
<1>8. \A o \in CutOff' : /\ o.chunk <= chunk' /\ o.at + n <= m
                         /\ o.chunk = memory'.chunk => o.at + n <= memory'.at
  BY <1>1, <1>3, <1>7
<1>9. \A o, p \in CutOff' : o = p \/ (o.chunk = p.chunk => o.at + n <= p.at \/ p.at + n <= o.at)
  BY <1>1, <1>3, <1>7
<1>10. memory'.chunk <= chunk' /\ memory'.at <= m
  BY <1>1, <1>3, <1>7
<1>11. CutApart'
  BY <1>1, <1>8, <1>9, <1>10 DEF CutApart, Beside, m, n
<1> QED BY <1>5, <1>11

\* New and Delete keep the distances, when a chunk is refused, too.
LEMMA ApartNext ==
  ASSUME SizesFit, Types, Types', OnceOnly, CutApart, [PoolNext]_poolVars
  PROVE OnceOnly' /\ CutApart'
<1>1. CASE NewFromList \/ Delete
  BY <1>1, ListKeeps
<1>2. CASE NewFromChunk /\ Cardinality(objects) < MaxHeld
  <2>1. Cut(memory, remain) /\ freeList = <<>> /\ chunk' = chunk
    BY <1>2 DEF NewFromChunk
  <2>2. memory \in Addresses /\ chunk \in Nat
    BY DEF Types
  <2>3. /\ memory.at <= NumCut * CutSize /\ memory.chunk <= chunk
        /\ \A o \in CutOff : o.chunk = memory.chunk => o.at + CutSize <= memory.at
    BY DEF CutApart
  <2> QED BY <1>2, <2>1, <2>2, <2>3, CutKeepsApart
<1>3. CASE NewFromSystem /\ Cardinality(objects) < MaxHeld
  <2> DEFINE from == [chunk |-> chunk + 1, at |-> 0]
  <2>1. Cut(from, BlockSize) /\ freeList = <<>> /\ chunk' = chunk + 1
    BY <1>3 DEF NewFromSystem
  <2>2. chunk \in Nat /\ from \in Addresses /\ from.chunk = chunk + 1 /\ from.at = 0
    BY DEF Types, Addresses
  <2>3. 0 <= NumCut * CutSize
    <3>1. CutSize \in Nat /\ NumCut \in Nat
      BY <2>1, Sizes, FS_CardinalityType DEF NumCut, OnceOnly
    <3> QED BY <3>1, SMTT(30)
  <2>4. \A o \in CutOff : o.chunk # chunk + 1
    <3>1. CutOff \subseteq Addresses /\ \A o \in CutOff : o.chunk <= chunk
      BY <2>1 DEF CutApart, CutOff, Deleted, Types
    <3> QED BY <2>2, <3>1 DEF Addresses
  <2> HIDE DEF from
  <2> QED BY <1>3, <2>1, <2>2, <2>3, <2>4, CutKeepsApart
<1>4. CASE NewRefused \/ UNCHANGED poolVars
  <2>1. UNCHANGED <<pool, chunk, memory, freeList, objects>>
    BY <1>4 DEF NewRefused, poolVars
  <2>2. CutOff' = CutOff /\ NumCut' = NumCut /\ OnceOnly'
    BY <2>1 DEF CutOff, NumCut, OnceOnly, Deleted
  <2> QED BY <2>1, <2>2, ApartSame
<1> QED BY <1>1, <1>2, <1>3, <1>4 DEF PoolNext, New

\* Two objects are as far apart as they are long, the link included.
ObjectsApart ==
  CutSize = ObjSize => \A o, p \in objects : o # p =>
    /\ Address(o) \in Nat /\ Address(p) \in Nat /\ ObjSize \in Nat \ {0}
    /\ Address(o) + ObjSize <= Address(p) \/ Address(p) + ObjSize <= Address(o)

\* That follows from the distances, chunks being far apart.
LEMMA AddressesApart == ASSUME SizesFit, Types, OnceOnly, CutApart PROVE ObjectsApart
<1>s. SUFFICES ASSUME CutSize = ObjSize, NEW o \in objects, NEW p \in objects, o # p
              PROVE /\ Address(o) \in Nat /\ Address(p) \in Nat /\ ObjSize \in Nat \ {0}
                    /\ Address(o) + ObjSize <= Address(p) \/ Address(p) + ObjSize <= Address(o)
  BY DEF ObjectsApart
<1> DEFINE n == ObjSize
           K == n * (MaxHeld + 1)
<1>1. /\ n \in Nat \ {0} /\ MaxHeld \in Nat /\ NumCut \in Nat /\ NumCut <= MaxHeld
      /\ o.chunk \in Nat /\ o.at \in Nat /\ p.chunk \in Nat /\ p.at \in Nat
  <2>1. n \in Nat \ {0} /\ MaxHeld \in Nat
    BY Sizes DEF SizesFit
  <2>2. NumCut \in Nat /\ NumCut <= MaxHeld
    <3>1. Cardinality(objects) \in Nat /\ Len(freeList) \in Nat
      BY FS_CardinalityType DEF OnceOnly, Types
    <3> QED BY <3>1 DEF OnceOnly, NumCut
  <2> QED BY <2>1, <2>2 DEF Types, Addresses
<1>2. /\ o.at + n <= NumCut * n /\ p.at + n <= NumCut * n
      /\ o.chunk = p.chunk => o.at + n <= p.at \/ p.at + n <= o.at
  BY <1>s DEF CutApart, CutOff, Beside
<1> HIDE DEF n
<1>3. K \in Nat /\ NumCut * n \in Nat /\ NumCut * n <= K
  <2>1. MaxHeld * n \in Nat /\ NumCut * n \in Nat /\ n * (MaxHeld + 1) = MaxHeld * n + n
    BY <1>1, SMTT(30)
  <2>2. NumCut * n <= MaxHeld * n
    BY <1>1, SMTT(30)
  <2> QED BY <1>1, <2>1, <2>2
<1> DEFINE l == NumCut * n
<1> HIDE DEF K, l
<1>4. o.chunk * K \in Nat /\ p.chunk * K \in Nat
  BY <1>1, <1>3, SMTT(30)
<1>5. ASSUME NEW x \in Nat, NEW y \in Nat, x < y PROVE x * K + K <= y * K
  <2>1. (x + 1) * K <= y * K
    BY <1>3, <1>5, SMTT(30)
  <2>2. (x + 1) * K = x * K + K
    BY <1>3, SMTT(30)
  <2> QED BY <2>1, <2>2
<1>6. /\ o.chunk < p.chunk => o.chunk * K + K <= p.chunk * K
      /\ p.chunk < o.chunk => p.chunk * K + K <= o.chunk * K
  BY <1>1, <1>5
<1> DEFINE u == o.chunk * K
           v == p.chunk * K
<1>7. u \in Nat /\ v \in Nat /\ (o.chunk = p.chunk => u = v)
      /\ (o.chunk < p.chunk => u + K <= v) /\ (p.chunk < o.chunk => v + K <= u)
  BY <1>4, <1>6
<1> HIDE DEF u, v
<1>8. /\ u + o.at \in Nat /\ v + p.at \in Nat
      /\ u + o.at + n <= v + p.at \/ v + p.at + n <= u + o.at
  BY <1>1, <1>2, <1>3, <1>7 DEF l
<1>9. Address(o) = u + o.at /\ Address(p) = v + p.at
  BY DEF Address, u, v, K, n
<1> QED BY <1>1, <1>8, <1>9 DEF n

\* So New and Delete give and take back what shares no byte with the others.
LEMMA HeapStep ==
  ASSUME SizesFit, Types, ObjectsApart, ObjectsApart', [PoolNext]_poolVars
  PROVE [H!Next]_AsHeld
<1>1. UNCHANGED pool
  BY DEF PoolNext, New, NewFromList, NewFromChunk, NewFromSystem, Cut, NewRefused, Delete, poolVars
<1> DEFINE B(o) == [at |-> Address(o), size |-> ObjSize]
<1>2. /\ CutSize' = CutSize /\ ObjSize' = ObjSize /\ \A o : Address(o)' = Address(o)
  BY <1>1 DEF CutSize, ObjSize, Address
<1>3. CASE pool.kind = "Pool" /\ pool.size < Pointer
  BY <1>1, <1>3 DEF AsHeld
<1>4. CASE ~(pool.kind = "Pool" /\ pool.size < Pointer)
  <2>1. CutSize = ObjSize
    BY <1>4, Sizes DEF CutSize, ObjSize, Types
  <2>2. AsHeld = {B(o) : o \in objects} /\ AsHeld' = {B(o) : o \in objects'}
    BY <1>1, <1>2, <1>4 DEF AsHeld
  <2>3. ASSUME NEW o \in objects, NEW p \in objects, o # p PROVE B(o) # B(p)
    <3>1. Address(o) # Address(p)
      BY <2>1, <2>3 DEF ObjectsApart
    <3> QED BY <3>1
  <2>4. ASSUME NEW o \in objects', NEW p \in objects', o # p
        PROVE B(o) # B(p) /\ H!Words(B(o)) \cap H!Words(B(p)) = {}
    <3> DEFINE x == Address(o)
               y == Address(p)
               n == ObjSize
    <3>1. x \in Nat /\ y \in Nat /\ n \in Nat \ {0} /\ (x + n <= y \/ y + n <= x)
      BY <1>2, <2>1, <2>4 DEF ObjectsApart
    <3>2. H!Words(B(o)) = x .. x + n - 1 /\ H!Words(B(p)) = y .. y + n - 1 /\ B(o).at = x /\ B(p).at = y
      BY DEF H!Words
    <3> HIDE DEF x, y, n, B
    <3>3. (x .. x + n - 1) \cap (y .. y + n - 1) = {} /\ x # y
      BY <3>1
    <3> QED BY <3>2, <3>3
  <2> HIDE DEF B
  <2>5. CASE objects' = objects
    BY <2>2, <2>5
  <2>6. ASSUME NEW o, o \notin objects, objects' = objects \cup {o} PROVE H!Malloc
    <3>1. AsHeld' = AsHeld \cup {B(o)} /\ B(o) \in AsHeld' \ AsHeld
      BY <2>2, <2>4, <2>6
    <3>2. \A b \in AsHeld : H!Words(b) \cap H!Words(B(o)) = {}
      BY <2>2, <2>4, <2>6
    <3> QED BY <3>1, <3>2 DEF H!Malloc
  <2>7. ASSUME NEW o \in objects, objects' = objects \ {o} PROVE H!Free
    <3>1. AsHeld' = AsHeld \ {B(o)} /\ B(o) \in AsHeld
      BY <2>2, <2>3, <2>7
    <3> QED BY <3>1 DEF H!Free
  <2>8. \/ objects' = objects
        \/ \E o : o \notin objects /\ objects' = objects \cup {o}
        \/ \E o \in objects : objects' = objects \ {o}
    BY DEF PoolNext, New, NewFromList, NewFromChunk, NewFromSystem, Cut, NewRefused, Delete, poolVars
  <2> QED BY <2>5, <2>6, <2>7, <2>8 DEF H!Next
<1> QED BY <1>3, <1>4

(***************************************************************************)
(* New and Delete implement a heap: an object that New gives shares no     *)
(* byte with any other in use, the link that Delete will write included,   *)
(* for every size of objects, pointers and chunks, and whether the system  *)
(* refuses a chunk or not.                                                 *)
(***************************************************************************)
THEOREM ObjectPoolsImplementHeap == ASSUME SizesFit PROVE PoolSpec => ImplementsHeap
<1> DEFINE ApartInv == Types /\ IInv /\ OnceOnly /\ CutApart
<1>1. PoolInit => ApartInv
  BY InitHolds, ApartInit DEF IInv
<1>2. ApartInv /\ [PoolNext]_poolVars => ApartInv'
  <2>1. SUFFICES ASSUME ApartInv, [PoolNext]_poolVars PROVE ApartInv'
    OBVIOUS
  <2>2. IInv' /\ Types'
    BY <2>1, StepKeeps DEF IInv
  <2> QED BY <2>1, <2>2, ApartNext
<1>3. ApartInv => Types /\ ObjectsApart
  BY AddressesApart
<1>4. Types /\ ObjectsApart /\ ObjectsApart' /\ [PoolNext]_poolVars => [H!Next]_AsHeld
  BY HeapStep
<1>5. PoolInit => H!Init
  BY DEF PoolInit, AsHeld, H!Init
<1> HIDE DEF ApartInv
<1> QED BY <1>1, <1>2, <1>3, <1>4, <1>5, PTL DEF PoolSpec, ImplementsHeap, H!Spec


(***************************************************************************)
(* What is allocated shares no word with what is in use, in the allocators *)
(* (ConcurrentMalloc, FreeMemory) and in the object pools below them (New, *)
(* Delete): for all threads, size classes and sizes, if the blocks of each *)
(* class divide the spans they are carved from.                            *)
(***************************************************************************)
THEOREM AllImplementHeaps == DividesSpans => (MCSpec => ImplementHeaps)
<1>1. ASSUME MCInit PROVE AllocInit /\ PoolInit
  BY <1>1 DEF MCInit
<1>2. ASSUME [MCNext]_<<program, vars, request, allocVars, poolVars>>
      PROVE [AllocNext]_allocVars /\ [PoolNext]_poolVars
  BY <1>2 DEF MCNext
<1>3. MCSpec => AllocSpec /\ PoolSpec
  BY <1>1, <1>2, PTL DEF MCSpec, AllocSpec, PoolSpec
<1>4. PoolSpec => ImplementsHeap
  BY ObjectPoolAssumption, ObjectPoolsImplementHeap
<1>5. DividesSpans => (AllocSpec => AllocImplementsHeap)
  BY AllocRefinesHeap
<1> QED BY <1>3, <1>4, <1>5 DEF ImplementHeaps

=============================================================================
