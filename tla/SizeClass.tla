----------------------------- MODULE SizeClass -----------------------------
(***************************************************************************)
(* SizeClass of src/ConcurrentMemoryPool/Common.h and of                   *)
(* src/Pool/Common.h: which block a request gets, which free list the      *)
(* block belongs to, and how many of them are moved at once.  Both round   *)
(* up alike; their lists and limits differ, and those of Pool have its     *)
(* name in front.  The state is a request size, which goes through all.    *)
(***************************************************************************)
EXTENDS Naturals

KB == 1024

MAX_BYTES == 512 * KB
PoolMAX_BYTES == 256 * KB

NFREE_LISTS == 208
PoolNFREE_LIST == 209
NPAGE_LISTS == 129
PageBytes == 8 * KB  \* 1 << PAGE_SHIFT

\* The largest request that has a free list.
Largest == 256 * KB

\* Mutant of Aligned: a multiple of align is rounded up as well.
AlignedPast(size, align) == (size \div align + 1) * align

\* (size + align - 1) & ~(align - 1), align being a power of two.
Aligned(size, align) == ((size + align - 1) \div align) * align

RoundUp(size) ==
  IF size <= 128 THEN Aligned(size, 8)
  ELSE IF size <= KB THEN Aligned(size, 16)
  ELSE IF size <= 8 * KB THEN Aligned(size, 128)
  ELSE IF size <= 64 * KB THEN Aligned(size, KB)
  ELSE Aligned(size, 8 * KB)

\* _Index, of sizes up to `bytes` in steps of `align`.
Step(bytes, align) == (bytes + align - 1) \div align - 1

\* Mutant of Index: the second group starts at a list of the first.
IndexOverlapping(bytes) ==
  IF bytes <= 128 THEN Step(bytes, 8)
  ELSE IF bytes <= KB THEN Step(bytes - 128, 16) + 15
  ELSE IF bytes <= 8 * KB THEN Step(bytes - KB, 128) + 16 + 56
  ELSE IF bytes <= 64 * KB THEN Step(bytes - 8 * KB, KB) + 16 + 56 + 56
  ELSE Step(bytes - 64 * KB, 8 * KB) + 16 + 56 + 56 + 56

Index(bytes) ==
  IF bytes <= 128 THEN Step(bytes, 8)
  ELSE IF bytes <= KB THEN Step(bytes - 128, 16) + 16
  ELSE IF bytes <= 8 * KB THEN Step(bytes - KB, 128) + 16 + 56
  ELSE IF bytes <= 64 * KB THEN Step(bytes - 8 * KB, KB) + 16 + 56 + 56
  ELSE Step(bytes - 64 * KB, 8 * KB) + 16 + 56 + 56 + 56

\* Mutant of PoolIndex: one list fewer in the second group.
PoolIndexShort(size) ==
  IF size <= 128 THEN Step(size, 8)
  ELSE IF size <= KB THEN Step(size, 16) + 16
  ELSE IF size <= 8 * KB THEN Step(size, 128) + 16 + 55
  ELSE IF size <= 64 * KB THEN Step(size, KB) + 16 + 55 + 56
  ELSE Step(size, 8 * KB) + 16 + 55 + 56 + 56

\* Pool counts the steps of a group from 0, not from where the group starts.
PoolIndex(size) ==
  IF size <= 128 THEN Step(size, 8)
  ELSE IF size <= KB THEN Step(size, 16) + 16
  ELSE IF size <= 8 * KB THEN Step(size, 128) + 16 + 56
  ELSE IF size <= 64 * KB THEN Step(size, KB) + 16 + 56 + 56
  ELSE Step(size, 8 * KB) + 16 + 56 + 56 + 56

\* At least two, at most 512.
Between2And512(nums) == IF nums < 2 THEN 2 ELSE IF nums > 512 THEN 512 ELSE nums

NumMoveSize(size) == Between2And512(MAX_BYTES \div size)

\* After the assertion that the size is less than MAX_BYTES.
NumsFromCentralCache(size) == Between2And512(PoolMAX_BYTES \div size)

\* Mutant of NumMovePage: rounded down.
NumMovePageDown(size) ==
  LET npage == (NumMoveSize(size) * size) \div PageBytes
  IN  IF npage = 0 THEN 1 ELSE npage

NumMovePage(size) ==
  LET npage == (NumMoveSize(size) * size + PageBytes - 1) \div PageBytes
  IN  IF npage = 0 THEN 1 ELSE npage

NumsFronPageCache(size) == (NumsFromCentralCache(size) * size + PageBytes - 1) \div PageBytes

-----------------------------------------------------------------------------

VARIABLE request  \* how many bytes are asked for

\* A walk from 1 meets every size; those from a whole number of KB meet them sooner.
FirstRequest == request = 1 \/ \E n \in 1 .. 255 : request = n * KB

NextRequest == request < Largest /\ request' = request + 1

RequestSpec == FirstRequest /\ [][NextRequest]_request

(***************************************************************************)
(* A block holds the request and a free list's link of 8 bytes, and wastes *)
(* at most 7 bytes, or a ninth of it (Common.h:187 says about a tenth).    *)
(***************************************************************************)
Fits(n) ==
  /\ RoundUp(n) >= n /\ RoundUp(n) % 8 = 0
  /\ RoundUp(n) - n <= 7 \/ 9 * (RoundUp(n) - n) <= RoundUp(n)

RequestFits == Fits(request)

(***************************************************************************)
(* DeAllocate finds the list Allocate took the block from: it knows the    *)
(* block's size only, Allocate the request's.  (Pool's Allocate and        *)
(* Deallocate both round up before they look for the list.)                *)
(***************************************************************************)
FoundAgain(n) == RoundUp(RoundUp(n)) = RoundUp(n) /\ Index(RoundUp(n)) = Index(n)

BlockFoundAgain == FoundAgain(request)

(***************************************************************************)
(* In ConcurrentMemoryPool there is a free list for each index, and a page *)
(* list for each span that is asked for; a new span holds the blocks that  *)
(* are moved at once.                                                      *)
(***************************************************************************)
Served(n) ==
  /\ Index(n) \in 0 .. NFREE_LISTS - 1
  /\ NumMovePage(RoundUp(n)) \in 1 .. NPAGE_LISTS - 1
  /\ NumMovePage(RoundUp(n)) * PageBytes >= NumMoveSize(RoundUp(n)) * RoundUp(n)

(***************************************************************************)
(* In Pool that is so of requests up to 200 KB, and of no others: the      *)
(* index of a longer block is behind the end of the lists, although Alloc  *)
(* and RoundUp take up to 256 KB.  Of these, the ones that round up to     *)
(* 256 KB also fail the assertion of NumsFromCentralCache.                 *)
(***************************************************************************)
PoolServed(n) ==
  LET block == RoundUp(n)
  IN  /\ PoolIndex(block) \in 0 .. PoolNFREE_LIST - 1 <=> n <= 200 * KB
      /\ block < PoolMAX_BYTES <=> n <= 248 * KB
      /\ NumsFronPageCache(block) \in 1 .. NPAGE_LISTS - 1
      /\ NumsFronPageCache(block) * PageBytes >= NumsFromCentralCache(block) * block

RequestServed == Served(request) /\ PoolServed(request)

(***************************************************************************)
(* The lists are separate: sizes of one list have one block size, and a    *)
(* larger size never has an earlier list.  ConcurrentMemoryPool leaves no  *)
(* list out; Pool leaves some out where a group starts.                    *)
(***************************************************************************)
ListsSeparate ==
  [][\/ /\ RoundUp(request') = RoundUp(request)
        /\ Index(request') = Index(request)
        /\ PoolIndex(RoundUp(request')) = PoolIndex(RoundUp(request))
     \/ /\ RoundUp(request') > RoundUp(request)
        /\ Index(request') = Index(request) + 1
        /\ PoolIndex(RoundUp(request')) > PoolIndex(RoundUp(request))]_request
=============================================================================
