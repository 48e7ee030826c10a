-------------------------- MODULE SizeClassProofs --------------------------
(* What SizeClass computes, for every request size that has a free list. *)
EXTENDS SizeClass, Integers, TLAPS

Sizes == {n \in Nat : 1 <= n /\ n <= Largest}

(***************************************************************************)
(* _RoundUp gives the next multiple of the alignment.                      *)
(***************************************************************************)
LEMMA AlignedIsNext ==
  ASSUME NEW n \in Nat, NEW a \in {8, 16, 128, 1024, 8192}
  PROVE  /\ Aligned(n, a) \in Nat
         /\ Aligned(n, a) >= n /\ Aligned(n, a) < n + a
         /\ Aligned(n, a) % a = 0
<1>1. CASE a = 8 BY <1>1 DEF Aligned
<1>2. CASE a = 16 BY <1>2 DEF Aligned
<1>3. CASE a = 128 BY <1>3 DEF Aligned
<1>4. CASE a = 1024 BY <1>4 DEF Aligned
<1>5. CASE a = 8192 BY <1>5 DEF Aligned
<1> QED BY <1>1, <1>2, <1>3, <1>4, <1>5

(***************************************************************************)
(* Every size has a list of its own group, with the group's alignment.     *)
(***************************************************************************)
LEMMA Groups ==
  ASSUME NEW n \in Sizes
  PROVE  /\ n \in Nat /\ n >= 1 /\ n <= 262144
         /\ \/ n <= 128 /\ RoundUp(n) = Aligned(n, 8)
            \/ n > 128 /\ n <= 1024 /\ RoundUp(n) = Aligned(n, 16)
            \/ n > 1024 /\ n <= 8192 /\ RoundUp(n) = Aligned(n, 128)
            \/ n > 8192 /\ n <= 65536 /\ RoundUp(n) = Aligned(n, 1024)
            \/ n > 65536 /\ RoundUp(n) = Aligned(n, 8192)
<1>1. Largest = 262144
  BY SMT DEF Largest, KB
<1>2. n \in Nat /\ n >= 1 /\ n <= 262144
  BY SMT, <1>1 DEF Sizes
<1>3. 8 * KB = 8192 /\ 64 * KB = 65536 /\ KB = 1024
  BY SMT DEF KB
<1> QED BY SMT, <1>2, <1>3 DEF RoundUp

(***************************************************************************)
(* The next multiple of 8 times the alignment is one of 8 too.             *)
(***************************************************************************)
LEMMA MultipleOf8 ==
  ASSUME NEW r \in Nat, NEW a \in {8, 16, 128, 1024, 8192}, r % a = 0
  PROVE  r % 8 = 0
<1>1. CASE a = 8 BY SMT, <1>1
<1>2. CASE a = 16 BY SMT, <1>2
<1>3. CASE a = 128 BY SMT, <1>3
<1>4. CASE a = 1024 BY SMT, <1>4
<1>5. CASE a = 8192 BY SMT, <1>5
<1> QED BY SMT, <1>1, <1>2, <1>3, <1>4, <1>5

(***************************************************************************)
(* A block holds the request, and wastes at most a ninth (or 7 bytes).     *)
(***************************************************************************)
THEOREM RoundUpFits ==
  ASSUME NEW n \in Sizes
  PROVE  Fits(n)
<1>1. n \in Nat /\ n >= 1 /\ n <= 262144
  BY SMT, Groups
<1>2. CASE n <= 128 /\ RoundUp(n) = Aligned(n, 8)
  BY SMT, <1>1, <1>2, AlignedIsNext DEF Fits
<1>3. CASE n > 128 /\ n <= 1024 /\ RoundUp(n) = Aligned(n, 16)
  <2> DEFINE r == RoundUp(n)
  <2>1. r \in Nat /\ r >= n /\ r < n + 16 /\ r % 16 = 0
    BY SMT, <1>1, <1>3, AlignedIsNext
  <2>2. r % 8 = 0
    BY SMT, <2>1, MultipleOf8
  <2>3. 9 * (r - n) <= r
    <3> HIDE DEF r
    <3> QED BY SMT, <1>1, <1>3, <2>1
  <2> QED BY SMT, <2>1, <2>2, <2>3 DEF Fits
<1>4. CASE n > 1024 /\ n <= 8192 /\ RoundUp(n) = Aligned(n, 128)
  <2> DEFINE r == RoundUp(n)
  <2>1. r \in Nat /\ r >= n /\ r < n + 128 /\ r % 128 = 0
    BY SMT, <1>1, <1>4, AlignedIsNext
  <2>2. r % 8 = 0
    BY SMT, <2>1, MultipleOf8
  <2>3. 9 * (r - n) <= r
    <3> HIDE DEF r
    <3> QED BY SMT, <1>1, <1>4, <2>1
  <2> QED BY SMT, <2>1, <2>2, <2>3 DEF Fits
<1>5. CASE n > 8192 /\ n <= 65536 /\ RoundUp(n) = Aligned(n, 1024)
  <2> DEFINE r == RoundUp(n)
  <2>1. r \in Nat /\ r >= n /\ r < n + 1024 /\ r % 1024 = 0
    BY SMT, <1>1, <1>5, AlignedIsNext
  <2>2. r % 8 = 0
    BY SMT, <2>1, MultipleOf8
  <2>3. 9 * (r - n) <= r
    <3> HIDE DEF r
    <3> QED BY SMT, <1>1, <1>5, <2>1
  <2> QED BY SMT, <2>1, <2>2, <2>3 DEF Fits
<1>6. CASE n > 65536 /\ RoundUp(n) = Aligned(n, 8192)
  <2> DEFINE r == RoundUp(n)
  <2>1. r \in Nat /\ r >= n /\ r < n + 8192 /\ r % 8192 = 0
    BY SMT, <1>1, <1>6, AlignedIsNext
  <2>2. r % 8 = 0
    BY SMT, <2>1, MultipleOf8
  <2>3. 9 * (r - n) <= r
    <3> HIDE DEF r
    <3> QED BY SMT, <1>1, <1>6, <2>1
  <2> QED BY SMT, <2>1, <2>2, <2>3 DEF Fits
<1> QED BY SMT, <1>2, <1>3, <1>4, <1>5, <1>6, Groups

(***************************************************************************)
(* The block's size as a function of the list's number, and conversely.    *)
(***************************************************************************)
LEMMA BlockOfList ==
  ASSUME NEW n \in Sizes
  PROVE  /\ n \in Nat /\ Index(n) \in Nat
         /\ \/ Index(n) <= 15 /\ RoundUp(n) = 8 * (Index(n) + 1)
            \/ Index(n) > 15 /\ Index(n) <= 71 /\ RoundUp(n) = 16 * (Index(n) - 7)
            \/ Index(n) > 71 /\ Index(n) <= 127 /\ RoundUp(n) = 128 * (Index(n) - 63)
            \/ Index(n) > 127 /\ Index(n) <= 183 /\ RoundUp(n) = 1024 * (Index(n) - 119)
            \/ Index(n) > 183 /\ Index(n) <= 207 /\ RoundUp(n) = 8192 * (Index(n) - 175)
<1>1. n \in Nat /\ n >= 1 /\ n <= 262144
  BY SMT, Groups
<1>2. 8 * KB = 8192 /\ 64 * KB = 65536 /\ KB = 1024
  BY SMT DEF KB
<1>3. CASE n <= 128
  <2>1. RoundUp(n) = ((n + 8 - 1) \div 8) * 8
    BY SMT, <1>1, <1>2, <1>3 DEF RoundUp, Aligned
  <2>2. Index(n) = ((n - 0 + 8 - 1) \div 8 - 1) + 0
    BY SMT, <1>1, <1>2, <1>3 DEF Index, Step
  <2>3. (n - 0 + 8 - 1) \div 8 = (n + 8 - 1) \div 8 - 0
    BY SMT, <1>1, <1>3
  <2> QED BY SMT, <1>1, <1>3, <2>1, <2>2, <2>3
<1>4. CASE n > 128 /\ n <= 1024
  <2>1. RoundUp(n) = ((n + 16 - 1) \div 16) * 16
    BY SMT, <1>1, <1>2, <1>4 DEF RoundUp, Aligned
  <2>2. Index(n) = ((n - 128 + 16 - 1) \div 16 - 1) + 16
    BY SMT, <1>1, <1>2, <1>4 DEF Index, Step
  <2>3. (n - 128 + 16 - 1) \div 16 = (n + 16 - 1) \div 16 - 8
    BY SMT, <1>1, <1>4
  <2> QED BY SMT, <1>1, <1>4, <2>1, <2>2, <2>3
<1>5. CASE n > 1024 /\ n <= 8192
  <2>1. RoundUp(n) = ((n + 128 - 1) \div 128) * 128
    BY SMT, <1>1, <1>2, <1>5 DEF RoundUp, Aligned
  <2>2. Index(n) = ((n - 1024 + 128 - 1) \div 128 - 1) + 72
    BY SMT, <1>1, <1>2, <1>5 DEF Index, Step
  <2>3. (n - 1024 + 128 - 1) \div 128 = (n + 128 - 1) \div 128 - 8
    BY SMT, <1>1, <1>5
  <2> QED BY SMT, <1>1, <1>5, <2>1, <2>2, <2>3
<1>6. CASE n > 8192 /\ n <= 65536
  <2>1. RoundUp(n) = ((n + 1024 - 1) \div 1024) * 1024
    BY SMT, <1>1, <1>2, <1>6 DEF RoundUp, Aligned
  <2>2. Index(n) = ((n - 8192 + 1024 - 1) \div 1024 - 1) + 128
    BY SMT, <1>1, <1>2, <1>6 DEF Index, Step
  <2>3. (n - 8192 + 1024 - 1) \div 1024 = (n + 1024 - 1) \div 1024 - 8
    BY SMT, <1>1, <1>6
  <2> QED BY SMT, <1>1, <1>6, <2>1, <2>2, <2>3
<1>7. CASE n > 65536 /\ n <= 262144
  <2>1. RoundUp(n) = ((n + 8192 - 1) \div 8192) * 8192
    BY SMT, <1>1, <1>2, <1>7 DEF RoundUp, Aligned
  <2>2. Index(n) = ((n - 65536 + 8192 - 1) \div 8192 - 1) + 184
    BY SMT, <1>1, <1>2, <1>7 DEF Index, Step
  <2>3. (n - 65536 + 8192 - 1) \div 8192 = (n + 8192 - 1) \div 8192 - 8
    BY SMT, <1>1, <1>7
  <2> QED BY SMT, <1>1, <1>7, <2>1, <2>2, <2>3
<1> QED BY SMT, <1>1, <1>3, <1>4, <1>5, <1>6, <1>7

(***************************************************************************)
(* A free list has blocks of one size, and lists of later numbers have     *)
(* longer ones: two requests share a list exactly if they get blocks of    *)
(* one size.  There are NFREE_LISTS lists.                                 *)
(***************************************************************************)
THEOREM ListsAreSizes ==
  ASSUME NEW m \in Sizes, NEW n \in Sizes
  PROVE  /\ Index(m) = Index(n) <=> RoundUp(m) = RoundUp(n)
         /\ Index(m) < Index(n) <=> RoundUp(m) < RoundUp(n)
         /\ Index(n) \in Nat /\ Index(n) < NFREE_LISTS
<1> DEFINE i == Index(m)  j == Index(n)  r == RoundUp(m)  q == RoundUp(n)
<1>1. /\ i \in Nat
      /\ \/ i <= 15 /\ r = 8 * (i + 1)
         \/ i > 15 /\ i <= 71 /\ r = 16 * (i - 7)
         \/ i > 71 /\ i <= 127 /\ r = 128 * (i - 63)
         \/ i > 127 /\ i <= 183 /\ r = 1024 * (i - 119)
         \/ i > 183 /\ i <= 207 /\ r = 8192 * (i - 175)
  BY SMT, BlockOfList
<1>2. /\ j \in Nat
      /\ \/ j <= 15 /\ q = 8 * (j + 1)
         \/ j > 15 /\ j <= 71 /\ q = 16 * (j - 7)
         \/ j > 71 /\ j <= 127 /\ q = 128 * (j - 63)
         \/ j > 127 /\ j <= 183 /\ q = 1024 * (j - 119)
         \/ j > 183 /\ j <= 207 /\ q = 8192 * (j - 175)
  BY SMT, BlockOfList
<1> HIDE DEF i, j, r, q
<1>3. (i = j <=> r = q) /\ (i < j <=> r < q) /\ j < 208
  BY SMT, <1>1, <1>2
<1> QED BY SMT, <1>2, <1>3 DEF i, j, r, q, NFREE_LISTS

(***************************************************************************)
(* A multiple of the alignment is not rounded up.                          *)
(***************************************************************************)
LEMMA AlignedAgain ==
  ASSUME NEW r \in Nat, NEW a \in {8, 16, 128, 1024, 8192}, r % a = 0
  PROVE  Aligned(r, a) = r
<1>1. CASE a = 8 BY SMT, <1>1 DEF Aligned
<1>2. CASE a = 16 BY SMT, <1>2 DEF Aligned
<1>3. CASE a = 128 BY SMT, <1>3 DEF Aligned
<1>4. CASE a = 1024 BY SMT, <1>4 DEF Aligned
<1>5. CASE a = 8192 BY SMT, <1>5 DEF Aligned
<1> QED BY SMT, <1>1, <1>2, <1>3, <1>4, <1>5

(***************************************************************************)
(* Rounding up does not leave the group, so it does nothing to a block's   *)
(* size.                                                                   *)
(***************************************************************************)
LEMMA RoundUpAgain ==
  ASSUME NEW n \in Sizes
  PROVE  RoundUp(n) \in Sizes /\ RoundUp(RoundUp(n)) = RoundUp(n)
<1> DEFINE r == RoundUp(n)
<1>1. n \in Nat /\ n >= 1 /\ n <= 262144
  BY SMT, Groups
<1>2. Largest = 262144
  BY SMT DEF Largest, KB
<1>3. ASSUME r \in Nat, r >= 1, r <= 262144
      PROVE  r \in Sizes
  BY SMT, <1>2, <1>3 DEF Sizes
<1>4. CASE n <= 128 /\ r = Aligned(n, 8)
  <2>1. r \in Nat /\ r >= n /\ r < n + 8 /\ r % 8 = 0
    BY SMT, <1>1, <1>4, AlignedIsNext
  <2>2. Aligned(r, 8) = r
    BY SMT, <2>1, AlignedAgain
  <2>3. r >= 1 /\ r <= 128
    <3> HIDE DEF r
    <3> QED BY SMT, <1>1, <1>4, <2>1
  <2>4. r \in Sizes
    BY SMT, <1>3, <2>1, <2>3
  <2>5. RoundUp(r) = Aligned(r, 8)
    <3> HIDE DEF r
    <3> QED BY SMT, <2>3, <2>4, Groups
  <2> QED BY <2>2, <2>4, <2>5
<1>5. CASE n > 128 /\ n <= 1024 /\ r = Aligned(n, 16)
  <2>1. r \in Nat /\ r >= n /\ r < n + 16 /\ r % 16 = 0
    BY SMT, <1>1, <1>5, AlignedIsNext
  <2>2. Aligned(r, 16) = r
    BY SMT, <2>1, AlignedAgain
  <2>3. r >= 1 /\ r > 128 /\ r <= 1024
    <3> HIDE DEF r
    <3> QED BY SMT, <1>1, <1>5, <2>1
  <2>4. r \in Sizes
    BY SMT, <1>3, <2>1, <2>3
  <2>5. RoundUp(r) = Aligned(r, 16)
    <3> HIDE DEF r
    <3> QED BY SMT, <2>3, <2>4, Groups
  <2> QED BY <2>2, <2>4, <2>5
<1>6. CASE n > 1024 /\ n <= 8192 /\ r = Aligned(n, 128)
  <2>1. r \in Nat /\ r >= n /\ r < n + 128 /\ r % 128 = 0
    BY SMT, <1>1, <1>6, AlignedIsNext
  <2>2. Aligned(r, 128) = r
    BY SMT, <2>1, AlignedAgain
  <2>3. r >= 1 /\ r > 1024 /\ r <= 8192
    <3> HIDE DEF r
    <3> QED BY SMT, <1>1, <1>6, <2>1
  <2>4. r \in Sizes
    BY SMT, <1>3, <2>1, <2>3
  <2>5. RoundUp(r) = Aligned(r, 128)
    <3> HIDE DEF r
    <3> QED BY SMT, <2>3, <2>4, Groups
  <2> QED BY <2>2, <2>4, <2>5
<1>7. CASE n > 8192 /\ n <= 65536 /\ r = Aligned(n, 1024)
  <2>1. r \in Nat /\ r >= n /\ r < n + 1024 /\ r % 1024 = 0
    BY SMT, <1>1, <1>7, AlignedIsNext
  <2>2. Aligned(r, 1024) = r
    BY SMT, <2>1, AlignedAgain
  <2>3. r >= 1 /\ r > 8192 /\ r <= 65536
    <3> HIDE DEF r
    <3> QED BY SMT, <1>1, <1>7, <2>1
  <2>4. r \in Sizes
    BY SMT, <1>3, <2>1, <2>3
  <2>5. RoundUp(r) = Aligned(r, 1024)
    <3> HIDE DEF r
    <3> QED BY SMT, <2>3, <2>4, Groups
  <2> QED BY <2>2, <2>4, <2>5
<1>8. CASE n > 65536 /\ n <= 262144 /\ r = Aligned(n, 8192)
  <2>1. r \in Nat /\ r >= n /\ r < n + 8192 /\ r % 8192 = 0
    BY SMT, <1>1, <1>8, AlignedIsNext
  <2>2. Aligned(r, 8192) = r
    BY SMT, <2>1, AlignedAgain
  <2>3. r >= 1 /\ r > 65536 /\ r <= 262144
    <3> HIDE DEF r
    <3> QED BY SMT, <1>1, <1>8, <2>1
  <2>4. r \in Sizes
    BY SMT, <1>3, <2>1, <2>3
  <2>5. RoundUp(r) = Aligned(r, 8192)
    <3> HIDE DEF r
    <3> QED BY SMT, <2>3, <2>4, Groups
  <2> QED BY <2>2, <2>4, <2>5
<1> QED BY SMT, <1>1, <1>4, <1>5, <1>6, <1>7, <1>8, Groups

(***************************************************************************)
(* DeAllocate, which knows the block's size, finds the list that Allocate, *)
(* which knew the request's, took the block from.                          *)
(***************************************************************************)
THEOREM ListFoundAgain ==
  ASSUME NEW n \in Sizes
  PROVE  FoundAgain(n)
BY SMT, RoundUpAgain, ListsAreSizes DEF FoundAgain

(***************************************************************************)
(* A size is in the list of the size before it, or in the next list.       *)
(***************************************************************************)
LEMMA NextSizeNextList ==
  ASSUME NEW n \in Sizes, n + 1 \in Sizes
  PROVE  Index(n + 1) = Index(n) \/ Index(n + 1) = Index(n) + 1
<1>1. n \in Nat /\ n >= 1 /\ n + 1 <= 262144
  BY SMT, Groups
<1>2. KB = 1024 /\ 8 * KB = 8192 /\ 64 * KB = 65536
  BY SMT DEF KB
<1>3. CASE n < 128 BY SMT, <1>1, <1>2, <1>3 DEF Index, Step
<1>4. CASE n = 128 BY SMT, <1>1, <1>2, <1>4 DEF Index, Step
<1>5. CASE n > 128 /\ n < 1024 BY SMT, <1>1, <1>2, <1>5 DEF Index, Step
<1>6. CASE n = 1024 BY SMT, <1>1, <1>2, <1>6 DEF Index, Step
<1>7. CASE n > 1024 /\ n < 8192 BY SMT, <1>1, <1>2, <1>7 DEF Index, Step
<1>8. CASE n = 8192 BY SMT, <1>1, <1>2, <1>8 DEF Index, Step
<1>9. CASE n > 8192 /\ n < 65536 BY SMT, <1>1, <1>2, <1>9 DEF Index, Step
<1>10. CASE n = 65536 BY SMT, <1>1, <1>2, <1>10 DEF Index, Step
<1>11. CASE n > 65536 BY SMT, <1>1, <1>2, <1>11 DEF Index, Step
<1> QED BY SMT, <1>1, <1>3, <1>4, <1>5, <1>6, <1>7, <1>8, <1>9, <1>10, <1>11

\* NumMoveSize or NumsFromCentralCache, whatever MAX_BYTES is, and the pages for so many bytes.
Batch(max, s) == Between2And512(max \div s)
SpanPages(bytes) == (bytes + 8192 - 1) \div 8192

(***************************************************************************)
(* How many blocks are moved at once: at least two, and of more than two   *)
(* no more bytes than the allocator's MAX_BYTES.                           *)
(***************************************************************************)
LEMMA BatchIsBounded ==
  ASSUME NEW max \in Nat, NEW s \in Nat, s >= 1
  PROVE  /\ Batch(max, s) \in Nat /\ Batch(max, s) >= 2
         /\ Batch(max, s) = 2 \/ Batch(max, s) * s <= max
<1> DEFINE q == max \div s  nums == Batch(max, s)
<1>1. q \in Nat /\ q * s <= max
  <2>1. q \in Int /\ max % s \in Nat /\ max = (s * q) + (max % s)
    BY SMT
  <2>2. s * q <= max /\ q \in Int
    <3> DEFINE r == max % s  e == s * q
    <3>1. q \in Int /\ r \in Nat /\ max = e + r BY <2>1
    <3>2. e \in Int
      <4> HIDE DEF q
      <4> QED BY SMT, <2>1
    <3> HIDE DEF q, r, e
    <3>3. e <= max BY SMT, <3>1, <3>2
    <3> QED BY <3>1, <3>3 DEF e
  <2>3. q >= 0
    BY SMT
  <2>4. s * q = q * s
    <3> HIDE DEF q
    <3> QED BY SMT, <2>1
  <2> QED BY SMT, <2>1, <2>2, <2>3, <2>4
<1>2. nums = IF q < 2 THEN 2 ELSE IF q > 512 THEN 512 ELSE q
  BY DEF Batch, Between2And512
<1> HIDE DEF q, nums
<1>3. CASE q > 512
  <2>1. PICK d \in Nat : q = 512 + d
    <3>1. q - 512 \in Nat /\ q = 512 + (q - 512) BY SMT, <1>1, <1>3
    <3> QED BY <3>1
  <2>2. q * s = 512 * s + d * s /\ d * s \in Nat
    BY SMT, <2>1
  <2>3. 512 * s <= max
    <3> DEFINE e == d * s
    <3>1. e \in Nat /\ q * s = 512 * s + e BY <2>2
    <3> HIDE DEF e
    <3> QED BY SMT, <1>1, <3>1
  <2>4. nums = 512
    BY SMT, <1>1, <1>2, <1>3
  <2> QED BY SMT, <2>3, <2>4 DEF nums
<1>4. CASE ~(q > 512)
  <2>1. CASE q < 2
    BY SMT, <1>2, <2>1 DEF nums
  <2>2. CASE q >= 2
    <3>1. nums = q
      BY SMT, <1>1, <1>2, <1>4, <2>2
    <3> QED BY SMT, <1>1, <2>2, <3>1 DEF nums
  <2> QED BY SMT, <1>1, <2>1, <2>2
<1> QED BY <1>3, <1>4

(***************************************************************************)
(* A span of the pages asked for holds what is moved at once, and the      *)
(* longest kept span has as many pages: 128.                               *)
(***************************************************************************)
LEMMA SpanHoldsBatch ==
  ASSUME NEW max \in Nat, max <= 524288, NEW s \in Nat, s >= 1, s <= 262144
  PROVE  /\ Batch(max, s) * s \in Nat
         /\ SpanPages(Batch(max, s) * s) \in 1 .. 128
         /\ SpanPages(Batch(max, s) * s) * 8192 >= Batch(max, s) * s
<1> DEFINE m == Batch(max, s)  b == m * s  p == SpanPages(b)
<1>1. m \in Nat /\ m >= 2 /\ (m = 2 \/ b <= max)
  BY SMT, BatchIsBounded
<1>2. b \in Nat
  <2> HIDE DEF m
  <2> QED BY SMT, <1>1
<1>3. b <= 1048576
  <2>1. CASE m = 2
    <3>1. b = 2 * s BY SMT, <2>1
    <3> HIDE DEF m, b
    <3> QED BY SMT, <3>1
  <2>2. CASE b <= max
    <3> HIDE DEF m, b
    <3> QED BY SMT, <1>2, <2>2
  <2> QED BY SMT, <1>1, <2>1, <2>2
<1>4. b >= 1
  <2>1. PICK d \in Nat : m = d + 2
    <3>1. m - 2 \in Nat /\ m = (m - 2) + 2
      <4> HIDE DEF m
      <4> QED BY SMT, <1>1
    <3> QED BY SMT, <3>1
  <2>2. b = d * s + 2 * s /\ d * s \in Nat
    <3> HIDE DEF m
    <3> QED BY SMT, <2>1
  <2>3. (d * s) + (2 * s) >= 1
    <3> DEFINE e == d * s
    <3>1. e \in Nat BY SMT, <2>2
    <3> HIDE DEF e
    <3> QED BY SMT, <3>1
  <2> QED BY SMT, <2>2, <2>3
<1>5. p \in 1 .. 128 /\ p * 8192 >= b
  <2> HIDE DEF b
  <2> QED BY SMT, <1>2, <1>3, <1>4 DEF SpanPages
<1> QED BY SMT, <1>2, <1>5

(***************************************************************************)
(* ConcurrentMemoryPool has a free list and a page list for every size,    *)
(* and a new span holds what is moved at once.                             *)
(***************************************************************************)
THEOREM SizeServed ==
  ASSUME NEW n \in Sizes
  PROVE  Served(n)
<1> DEFINE s == RoundUp(n)
           b == Batch(MAX_BYTES, s) * s
           p == SpanPages(b)
<1>1. s \in Nat /\ s >= 1 /\ s <= 262144
  BY SMT, RoundUpAgain, Groups
<1>2. MAX_BYTES \in Nat /\ MAX_BYTES <= 524288
  BY SMT DEF MAX_BYTES, KB
<1>3. b \in Nat /\ p \in 1 .. 128 /\ p * 8192 >= b
  <2> HIDE DEF s
  <2> QED BY SMT, <1>1, <1>2, SpanHoldsBatch
<1>4. PageBytes = 8192 /\ NPAGE_LISTS - 1 = 128
  BY SMT DEF PageBytes, KB, NPAGE_LISTS
<1>5. NumMovePage(s) = IF p = 0 THEN 1 ELSE p
  BY SMT, <1>4 DEF NumMovePage, NumMoveSize, Batch, SpanPages
<1>6. NumMovePage(s) = p
  <2> HIDE DEF p
  <2> QED BY SMT, <1>3, <1>5
<1>7. Index(n) \in 0 .. NFREE_LISTS - 1
  BY SMT, ListsAreSizes DEF NFREE_LISTS
<1>8. NumMoveSize(s) * s = b
  BY SMT DEF NumMoveSize, Batch
<1> QED BY SMT, <1>3, <1>4, <1>6, <1>7, <1>8 DEF Served

-----------------------------------------------------------------------------
(* The lists of Pool *)

(***************************************************************************)
(* The longest alignment is 8192.                                          *)
(***************************************************************************)
LEMMA RoundUpIsNext ==
  ASSUME NEW n \in Sizes
  PROVE  n \in Nat /\ RoundUp(n) \in Nat /\ RoundUp(n) >= n /\ RoundUp(n) < n + 8192
<1>1. n \in Nat
  BY SMT, Groups
<1>2. Aligned(n, 8) \in Nat /\ Aligned(n, 8) >= n /\ Aligned(n, 8) < n + 8
  BY SMT, <1>1, AlignedIsNext
<1>3. Aligned(n, 16) \in Nat /\ Aligned(n, 16) >= n /\ Aligned(n, 16) < n + 16
  BY SMT, <1>1, AlignedIsNext
<1>4. Aligned(n, 128) \in Nat /\ Aligned(n, 128) >= n /\ Aligned(n, 128) < n + 128
  BY SMT, <1>1, AlignedIsNext
<1>5. Aligned(n, 1024) \in Nat /\ Aligned(n, 1024) >= n /\ Aligned(n, 1024) < n + 1024
  BY SMT, <1>1, AlignedIsNext
<1>6. Aligned(n, 8192) \in Nat /\ Aligned(n, 8192) >= n /\ Aligned(n, 8192) < n + 8192
  BY SMT, <1>1, AlignedIsNext
<1> QED BY SMT, <1>1, <1>2, <1>3, <1>4, <1>5, <1>6, Groups

(***************************************************************************)
(* A block's size as a function of its list in Pool: the index counts from *)
(* 0 in every group, so it is 8 more than it need be in all but the first. *)
(***************************************************************************)
LEMMA BlockOfPoolList ==
  ASSUME NEW n \in Sizes
  PROVE  LET r == RoundUp(n)  p == PoolIndex(r)
         IN  /\ r \in Nat /\ p \in Nat /\ r >= n
             /\ \/ r <= 128 /\ r = 8 * (p + 1)
                \/ r > 128 /\ r <= 1024 /\ r = 16 * (p - 15)
                \/ r > 1024 /\ r <= 8192 /\ r = 128 * (p - 71)
                \/ r > 8192 /\ r <= 65536 /\ r = 1024 * (p - 127)
                \/ r > 65536 /\ r <= 262144 /\ r = 8192 * (p - 183) /\ r < n + 8192
<1> DEFINE r == RoundUp(n)  i == Index(n)  p == PoolIndex(r)
<1>1. /\ i \in Nat
      /\ \/ i <= 15 /\ r = 8 * (i + 1)
         \/ i > 15 /\ i <= 71 /\ r = 16 * (i - 7)
         \/ i > 71 /\ i <= 127 /\ r = 128 * (i - 63)
         \/ i > 127 /\ i <= 183 /\ r = 1024 * (i - 119)
         \/ i > 183 /\ i <= 207 /\ r = 8192 * (i - 175)
  BY SMT, BlockOfList
<1>2. p = PoolIndex(r)
  BY SMT
<1>3. n \in Nat /\ r \in Nat /\ r >= n /\ r < n + 8192
  BY RoundUpIsNext
<1>5. KB = 1024 /\ 8 * KB = 8192 /\ 64 * KB = 65536
  BY SMT DEF KB
<1> HIDE DEF r, i, p
<1>6. CASE i <= 15 /\ r = 8 * (i + 1)
  <2>1. r <= 128 /\ r >= 8
    BY SMT, <1>1, <1>6
  <2>2. p = (r + 8 - 1) \div 8 - 1
    BY SMT, <1>2, <1>3, <1>5, <2>1 DEF PoolIndex, Step
  <2>3. p = i
    BY SMT, <1>1, <1>6, <2>2
  <2> QED BY SMT, <1>1, <1>3, <1>6, <2>1, <2>3 DEF r, p
<1>7. CASE i > 15 /\ i <= 71 /\ r = 16 * (i - 7)
  <2>1. r > 128 /\ r <= 1024
    BY SMT, <1>1, <1>7
  <2>2. p = (r + 16 - 1) \div 16 - 1 + 16
    BY SMT, <1>2, <1>3, <1>5, <2>1 DEF PoolIndex, Step
  <2>3. p = i + 8
    BY SMT, <1>1, <1>7, <2>2
  <2>4. p \in Nat /\ r = 16 * (p - 15)
    BY SMT, <1>1, <1>7, <2>3
  <2> QED BY SMT, <1>3, <2>1, <2>4 DEF r, p
<1>8. CASE i > 71 /\ i <= 127 /\ r = 128 * (i - 63)
  <2>1. r > 1024 /\ r <= 8192
    BY SMT, <1>1, <1>8
  <2>2. p = (r + 128 - 1) \div 128 - 1 + 72
    BY SMT, <1>2, <1>3, <1>5, <2>1 DEF PoolIndex, Step
  <2>3. p = i + 8
    BY SMT, <1>1, <1>8, <2>2
  <2>4. p \in Nat /\ r = 128 * (p - 71)
    BY SMT, <1>1, <1>8, <2>3
  <2> QED BY SMT, <1>3, <2>1, <2>4 DEF r, p
<1>9. CASE i > 127 /\ i <= 183 /\ r = 1024 * (i - 119)
  <2>1. r > 8192 /\ r <= 65536
    BY SMT, <1>1, <1>9
  <2>2. p = (r + 1024 - 1) \div 1024 - 1 + 128
    BY SMT, <1>2, <1>3, <1>5, <2>1 DEF PoolIndex, Step
  <2>3. p = i + 8
    BY SMT, <1>1, <1>9, <2>2
  <2>4. p \in Nat /\ r = 1024 * (p - 127)
    BY SMT, <1>1, <1>9, <2>3
  <2> QED BY SMT, <1>3, <2>1, <2>4 DEF r, p
<1>10. CASE i > 183 /\ i <= 207 /\ r = 8192 * (i - 175)
  <2>1. r > 65536 /\ r <= 262144
    BY SMT, <1>1, <1>10
  <2>2. p = (r + 8192 - 1) \div 8192 - 1 + 184
    BY SMT, <1>2, <1>3, <1>5, <2>1 DEF PoolIndex, Step
  <2>3. p = i + 8
    BY SMT, <1>1, <1>10, <2>2
  <2>4. p \in Nat /\ r = 8192 * (p - 183) /\ r < n + 8192
    BY SMT, <1>1, <1>3, <1>10, <2>1, <2>3
  <2> QED BY SMT, <1>3, <2>1, <2>4 DEF r, p
<1> QED BY SMT, <1>1, <1>6, <1>7, <1>8, <1>9, <1>10

(***************************************************************************)
(* Pool has a list for requests up to 200 KB only: the longer ones, to     *)
(* 256 KB, have the indices 209 to 215.                                    *)
(***************************************************************************)
THEOREM PoolServesTo200KB ==
  ASSUME NEW n \in Sizes
  PROVE  PoolServed(n)
<1> DEFINE r == RoundUp(n)  i == PoolIndex(r)
           b == Batch(PoolMAX_BYTES, r) * r
           p == SpanPages(b)
<1>1. n \in Nat /\ n >= 1 /\ n <= 262144
  BY SMT, Groups
<1>2. /\ r \in Nat /\ i \in Nat /\ r >= n
      /\ \/ r <= 128 /\ r = 8 * (i + 1)
         \/ r > 128 /\ r <= 1024 /\ r = 16 * (i - 15)
         \/ r > 1024 /\ r <= 8192 /\ r = 128 * (i - 71)
         \/ r > 8192 /\ r <= 65536 /\ r = 1024 * (i - 127)
         \/ r > 65536 /\ r <= 262144 /\ r = 8192 * (i - 183) /\ r < n + 8192
  BY SMT, BlockOfPoolList
<1>3. PoolMAX_BYTES = 262144 /\ 200 * KB = 204800 /\ 248 * KB = 253952
  BY SMT DEF PoolMAX_BYTES, KB
<1>4. PageBytes = 8192 /\ NPAGE_LISTS - 1 = 128 /\ PoolNFREE_LIST - 1 = 208
  BY SMT DEF PageBytes, KB, NPAGE_LISTS, PoolNFREE_LIST
<1>5. b \in Nat /\ p \in 1 .. 128 /\ p * 8192 >= b
  <2>1. r \in Nat /\ r >= 1 /\ r <= 262144 /\ PoolMAX_BYTES \in Nat /\ PoolMAX_BYTES <= 524288
    <3> HIDE DEF r, i
    <3> QED BY SMT, <1>1, <1>2, <1>3
  <2> HIDE DEF r
  <2> QED BY SMT, <2>1, SpanHoldsBatch
<1>6. NumsFronPageCache(r) = p /\ NumsFromCentralCache(r) * r = b
  BY SMT, <1>4 DEF NumsFronPageCache, NumsFromCentralCache, Batch, SpanPages
<1>7. (i \in 0 .. 208 <=> n <= 204800) /\ (r < 262144 <=> n <= 253952)
  <2> HIDE DEF r, i
  <2> QED BY SMT, <1>1, <1>2
<1> QED BY SMT, <1>3, <1>4, <1>5, <1>6, <1>7 DEF PoolServed

(***************************************************************************)
(* Longer blocks have later lists, also in Pool.                           *)
(***************************************************************************)
LEMMA PoolListsAreOrdered ==
  ASSUME NEW m \in Sizes, NEW n \in Sizes, RoundUp(m) < RoundUp(n)
  PROVE  PoolIndex(RoundUp(m)) < PoolIndex(RoundUp(n))
<1> DEFINE r == RoundUp(m)  i == PoolIndex(r)  q == RoundUp(n)  j == PoolIndex(q)
<1>1. /\ r \in Nat /\ i \in Nat
      /\ \/ r <= 128 /\ r = 8 * (i + 1)
         \/ r > 128 /\ r <= 1024 /\ r = 16 * (i - 15)
         \/ r > 1024 /\ r <= 8192 /\ r = 128 * (i - 71)
         \/ r > 8192 /\ r <= 65536 /\ r = 1024 * (i - 127)
         \/ r > 65536 /\ r <= 262144 /\ r = 8192 * (i - 183)
  BY SMT, BlockOfPoolList
<1>2. /\ q \in Nat /\ j \in Nat
      /\ \/ q <= 128 /\ q = 8 * (j + 1)
         \/ q > 128 /\ q <= 1024 /\ q = 16 * (j - 15)
         \/ q > 1024 /\ q <= 8192 /\ q = 128 * (j - 71)
         \/ q > 8192 /\ q <= 65536 /\ q = 1024 * (j - 127)
         \/ q > 65536 /\ q <= 262144 /\ q = 8192 * (j - 183)
  BY SMT, BlockOfPoolList
<1>3. r < q
  BY SMT
<1> HIDE DEF r, i, q, j
<1>4. i < j
  BY SMT, <1>1, <1>2, <1>3
<1> QED BY SMT, <1>4 DEF r, i, q, j

-----------------------------------------------------------------------------

InSizes == request \in Sizes

(***************************************************************************)
(* The request walks through the sizes that have a free list.              *)
(***************************************************************************)
LEMMA RequestIsSize == RequestSpec => []InSizes
<1>1. Largest = 262144
  BY SMT DEF Largest, KB
<1>2. FirstRequest => InSizes
  BY SMT, <1>1 DEF FirstRequest, Sizes, InSizes, KB
<1>3. InSizes /\ [NextRequest]_request => InSizes'
  BY SMT, <1>1 DEF NextRequest, Sizes, InSizes
<1> QED BY <1>2, <1>3, PTL DEF RequestSpec

(***************************************************************************)
(* Allocate: each block given out is long enough, and not much too long.   *)
(***************************************************************************)
THEOREM EveryRequestFits == RequestSpec => []RequestFits
<1>1. InSizes => RequestFits
  BY RoundUpFits DEF RequestFits, InSizes
<1> QED BY <1>1, RequestIsSize, PTL

(***************************************************************************)
(* DeAllocate: each block goes back to the list it came from.              *)
(***************************************************************************)
THEOREM EveryBlockFoundAgain == RequestSpec => []BlockFoundAgain
<1>1. InSizes => BlockFoundAgain
  BY ListFoundAgain DEF BlockFoundAgain, InSizes
<1> QED BY <1>1, RequestIsSize, PTL

(***************************************************************************)
(* FetchRangeObj and NewSpan: each size has its lists in                   *)
(* ConcurrentMemoryPool, and in Pool each size up to 200 KB and no other.  *)
(***************************************************************************)
THEOREM EveryRequestServed == RequestSpec => []RequestServed
<1>1. InSizes => RequestServed
  BY SizeServed, PoolServesTo200KB DEF RequestServed, InSizes
<1> QED BY <1>1, RequestIsSize, PTL

(***************************************************************************)
(* Index and RoundUp: from one size to the next, the list and the block    *)
(* change together, list by list in ConcurrentMemoryPool.                  *)
(***************************************************************************)
THEOREM ListsAreSeparate == RequestSpec => ListsSeparate
<1> DEFINE i == Index(request)  r == RoundUp(request)  k == PoolIndex(RoundUp(request))
           A == \/ r' = r /\ i' = i /\ k' = k
                \/ r' > r /\ i' = i + 1 /\ k' > k
<1>1. InSizes /\ InSizes' /\ [NextRequest]_request => [A]_request
  <2>1. SUFFICES ASSUME InSizes, InSizes', NextRequest PROVE A
    OBVIOUS
  <2>2. request \in Sizes /\ request' \in Sizes /\ request' = request + 1
    BY <2>1 DEF InSizes, NextRequest
  <2>3. i' = i \/ i' = i + 1
    BY <2>2, NextSizeNextList
  <2>4. (i' = i => r' = r) /\ (i < i' => r < r') /\ i \in Nat /\ i' \in Nat
    BY <2>2, ListsAreSizes
  <2>5. r \in Nat /\ r' \in Nat
    BY <2>2, RoundUpAgain DEF Sizes
  <2>6. r' = r => k' = k
    OBVIOUS
  <2>7. r < r' => k < k'
    BY <2>2, PoolListsAreOrdered
  <2>8. k \in Nat /\ k' \in Nat
    BY <2>2, BlockOfPoolList
  <2> HIDE DEF i, r, k
  <2> QED BY SMT, <2>3, <2>4, <2>5, <2>6, <2>7, <2>8
<1>2. [A]_request => [\/ /\ RoundUp(request') = RoundUp(request)
                          /\ Index(request') = Index(request)
                          /\ PoolIndex(RoundUp(request')) = PoolIndex(RoundUp(request))
                       \/ /\ RoundUp(request') > RoundUp(request)
                          /\ Index(request') = Index(request) + 1
                          /\ PoolIndex(RoundUp(request')) > PoolIndex(RoundUp(request))]_request
  OBVIOUS
<1> QED BY <1>1, <1>2, RequestIsSize, PTL DEF RequestSpec, ListsSeparate
=============================================================================
