---------------------------- MODULE BufferProofs ----------------------------
(***************************************************************************)
(* Proofs about Buffer, for vectors, bytes and inputs of any size: it is   *)
(* type correct, a write never runs out of room, and it implements         *)
(* ByteQueue.                                                              *)
(***************************************************************************)
EXTENDS Buffer, SequenceTheorems, WellFoundedInduction, TLAPS

\* A function on 1..n is a sequence of length n.
LEMMA FunctionIsSeq ==
  ASSUME NEW S, NEW n \in Nat, NEW f \in [1 .. n -> S]
  PROVE  f \in Seq(S) /\ Len(f) = n
<1>1. f \in Seq(S)
  BY SeqDef
<1>2. 1 .. Len(f) = 1 .. n /\ Len(f) \in Nat
  BY <1>1, LenProperties
<1> QED BY <1>1, <1>2

\* The n elements behind the first r of a sequence.
LEMMA WindowProperties ==
  ASSUME NEW S, NEW d \in Seq(S), NEW r \in Nat, NEW n \in Nat, r + n <= Len(d)
  PROVE  /\ SubSeq(d, r + 1, r + n) \in Seq(S)
         /\ Len(SubSeq(d, r + 1, r + n)) = n
         /\ \A i \in 1 .. n : SubSeq(d, r + 1, r + n)[i] = d[r + i]
<1> DEFINE lo == r + 1
           hi == r + n
           w == SubSeq(d, lo, hi)
<1>1. lo \in Int /\ hi \in Int /\ hi - lo + 1 = n
  OBVIOUS
<1>2. \A i \in lo .. hi : d[i] \in S
  BY ElementOfSeq, LenProperties
<1> HIDE DEF lo, hi
<1>3. /\ w \in Seq(S)
      /\ Len(w) = IF lo <= hi THEN hi - lo + 1 ELSE 0
      /\ \A i \in 1 .. hi - lo + 1 : w[i] = d[lo + i - 1]
  BY <1>1, <1>2, SubSeqProperties
<1> HIDE DEF w
<1>4. Len(w) = n
  BY <1>1, <1>3
<1>5. ASSUME NEW i \in 1 .. n PROVE w[i] = d[r + i]
  <2>1. i \in 1 .. hi - lo + 1 /\ lo + i - 1 = r + i
    BY <1>1 DEF lo
  <2> QED BY <1>3, <2>1
<1> QED BY <1>3, <1>4, <1>5 DEF w, lo, hi

\* The readable bytes, counted and one by one.
LEMMA ContentsProperties ==
  ASSUME NEW b, IsBuffer(b)
  PROVE  /\ Contents(b) \in Seq(Byte)
         /\ Len(Contents(b)) = ReadableSize(b)
         /\ \A i \in 1 .. ReadableSize(b) : Contents(b)[i] = b.data[b.rd + i]
<1>1. b.data \in Seq(Byte) /\ b.rd \in Nat /\ b.wr \in Nat
  BY DEF IsBuffer
<1>2. \A i \in b.rd + 1 .. b.wr : b.data[i] \in Byte
  BY <1>1, ElementOfSeq DEF IsBuffer, Size
<1> QED BY <1>1, <1>2, SubSeqProperties DEF Contents, ReadableSize, IsBuffer

\* Two buffers that agree on their readable bytes have the same contents.
LEMMA SameContents ==
  ASSUME NEW b, IsBuffer(b), NEW c, IsBuffer(c),
         ReadableSize(c) = ReadableSize(b),
         \A i \in 1 .. ReadableSize(b) : c.data[c.rd + i] = b.data[b.rd + i]
  PROVE  Contents(c) = Contents(b)
BY ContentsProperties, SeqEqual

\* Moving the readable bytes to the front loses none of them.
LEMMA MoveToFrontCorrect ==
  ASSUME NEW b, IsBuffer(b)
  PROVE  /\ IsBuffer(MoveToFront(b))
         /\ Contents(MoveToFront(b)) = Contents(b)
         /\ GetAfterSpace(MoveToFront(b)) = GetFrontSpace(b) + GetAfterSpace(b)
<1> DEFINE c == MoveToFront(b)
<1>1. /\ b.data \in Seq(Byte) /\ b.rd \in Nat /\ b.wr \in Nat /\ Len(b.data) \in Nat
      /\ b.rd <= b.wr /\ b.wr <= Len(b.data)
  BY LenProperties DEF IsBuffer, Size
<1>2. \A i \in 1 .. Len(b.data) : b.data[i] \in Byte
  BY <1>1, ElementOfSeq
<1>3. c.data \in [1 .. Len(b.data) -> Byte]
  BY <1>1, <1>2 DEF MoveToFront, Size, ReadableSize
<1>4. c.data \in Seq(Byte) /\ Len(c.data) = Len(b.data)
  BY <1>1, <1>3, FunctionIsSeq
<1>5. c.rd = 0 /\ c.wr = b.wr - b.rd
  BY DEF MoveToFront, ReadableSize
<1>6. IsBuffer(c)
  BY <1>1, <1>4, <1>5 DEF IsBuffer, Size, MoveToFront
<1>7. \A i \in 1 .. b.wr - b.rd : c.data[c.rd + i] = b.data[b.rd + i]
  BY <1>1, <1>5 DEF MoveToFront, Size, ReadableSize
<1>8. Contents(c) = Contents(b)
  BY <1>1, <1>5, <1>6, <1>7, SameContents DEF ReadableSize
<1> QED BY <1>1, <1>4, <1>5, <1>6, <1>8 DEF GetAfterSpace, GetFrontSpace, Size

\* Resizing keeps the bytes and makes room for n more.
LEMMA ResizeCorrect ==
  ASSUME NEW b, IsBuffer(b), NEW n \in Nat
  PROVE  /\ IsBuffer(Resize(b, n))
         /\ Contents(Resize(b, n)) = Contents(b)
         /\ GetAfterSpace(Resize(b, n)) >= n
<1> DEFINE c == Resize(b, n)
<1>1. /\ b.data \in Seq(Byte) /\ b.rd \in Nat /\ b.wr \in Nat /\ Len(b.data) \in Nat
      /\ b.rd <= b.wr /\ b.wr <= Len(b.data)
  BY LenProperties DEF IsBuffer, Size
<1>2. \A i \in 1 .. Len(b.data) : b.data[i] \in Byte
  BY <1>1, ElementOfSeq
<1> DEFINE m == 2 * Len(b.data) + n
<1>3. /\ m \in Nat /\ m >= Len(b.data) /\ m - b.wr >= n
  BY <1>1
<1>4. /\ c.data = [i \in 1 .. m |-> IF i <= Len(b.data) THEN b.data[i] ELSE Zero]
      /\ c.rd = b.rd /\ c.wr = b.wr
  BY DEF Resize, Size
<1> HIDE DEF m, c
<1>5. c.data \in [1 .. m -> Byte]
  BY <1>1, <1>2, <1>3, <1>4, ByteAssumption
<1>6. c.data \in Seq(Byte) /\ Len(c.data) = m
  BY <1>3, <1>5, FunctionIsSeq
<1>a. c = [data |-> c.data, rd |-> c.rd, wr |-> c.wr]
  BY DEF c, Resize
<1>7. IsBuffer(c)
  <2> DEFINE d == c.data
  <2>1. c = [data |-> d, rd |-> b.rd, wr |-> b.wr]
    BY <1>4, <1>a
  <2> HIDE DEF d
  <2>2. c \in [data : Seq(Byte), rd : Nat, wr : Nat]
    BY <1>1, <1>6, <2>1 DEF d
  <2> QED BY <1>1, <1>3, <1>4, <1>6, <2>2 DEF IsBuffer, Size
<1>8. \A i \in 1 .. b.wr - b.rd : c.data[c.rd + i] = b.data[b.rd + i]
  BY <1>1, <1>3, <1>4
<1>9. Contents(c) = Contents(b)
  BY <1>1, <1>4, <1>7, <1>8, SameContents DEF ReadableSize
<1> QED BY <1>3, <1>4, <1>6, <1>7, <1>9 DEF GetAfterSpace, Size, c

\* What EnsureAmpleWriteableSpace promises: room for n bytes, nothing lost.
LEMMA EnsureCorrect ==
  ASSUME NEW b, IsBuffer(b), NEW n \in Nat
  PROVE  LET c == EnsureAmpleWriteableSpace(b, n)
         IN  /\ IsBuffer(c)
             /\ Contents(c) = Contents(b)
             /\ GetAfterSpace(c) >= n
BY MoveToFrontCorrect, ResizeCorrect DEF EnsureAmpleWriteableSpace

-----------------------------------------------------------------------------

\* Copying s behind the write offset, where there is room for it, leaves the
\* readable bytes alone and puts s behind them.
LEMMA CopyInCorrect ==
  ASSUME NEW b, IsBuffer(b), NEW s \in Seq(Byte), GetAfterSpace(b) >= Len(s)
  PROVE  LET c == CopyIn(b, s)
         IN  /\ IsBuffer(c) /\ c.rd = b.rd /\ c.wr = b.wr /\ Size(c) = Size(b)
             /\ Contents(c) = Contents(b)
             /\ \A i \in 1 .. Len(s) : c.data[b.wr + i] = s[i]
<1> DEFINE c == CopyIn(b, s)
<1>1. /\ b.data \in Seq(Byte) /\ b.rd \in Nat /\ b.wr \in Nat /\ Len(b.data) \in Nat
      /\ Len(s) \in Nat /\ b.rd <= b.wr /\ b.wr + Len(s) <= Len(b.data)
  BY LenProperties DEF IsBuffer, Size, GetAfterSpace
<1>2. /\ \A i \in 1 .. Len(b.data) : b.data[i] \in Byte
      /\ \A i \in 1 .. Len(s) : s[i] \in Byte
  BY <1>1, ElementOfSeq
<1> DEFINE d == [i \in 1 .. Len(b.data) |->
                   IF i \in b.wr + 1 .. b.wr + Len(s) THEN s[i - b.wr] ELSE b.data[i]]
<1>3. c = [data |-> d, rd |-> b.rd, wr |-> b.wr]
  BY DEF CopyIn, Size
<1>4. d \in [1 .. Len(b.data) -> Byte]
  BY <1>1, <1>2
<1>5. d \in Seq(Byte) /\ Len(d) = Len(b.data)
  BY <1>1, <1>4, FunctionIsSeq
<1>6. /\ \A i \in 1 .. Len(s) : d[b.wr + i] = s[i]
      /\ \A i \in 1 .. b.wr : d[i] = b.data[i]
  <2>1. ASSUME NEW i \in 1 .. Len(s) PROVE d[b.wr + i] = s[i]
    <3>1. b.wr + i \in 1 .. Len(b.data) /\ b.wr + i \in b.wr + 1 .. b.wr + Len(s)
      BY <1>1
    <3>2. (b.wr + i) - b.wr = i
      BY <1>1
    <3> QED BY <3>1, <3>2
  <2>2. ASSUME NEW i \in 1 .. b.wr PROVE d[i] = b.data[i]
    <3>1. i \in 1 .. Len(b.data) /\ i \notin b.wr + 1 .. b.wr + Len(s)
      BY <1>1
    <3> QED BY <3>1
  <2> QED BY <2>1, <2>2
<1> HIDE DEF d, c
<1>7. IsBuffer(c)
  BY <1>1, <1>3, <1>5 DEF IsBuffer, Size
<1>8. \A i \in 1 .. b.wr - b.rd : c.data[c.rd + i] = b.data[b.rd + i]
  <2> SUFFICES ASSUME NEW i \in 1 .. b.wr - b.rd PROVE d[b.rd + i] = b.data[b.rd + i]
    BY <1>3
  <2>1. b.rd + i \in 1 .. b.wr
    BY <1>1
  <2> QED BY <1>6, <2>1
<1>9. Contents(c) = Contents(b)
  BY <1>3, <1>7, <1>8, SameContents DEF ReadableSize
<1> QED BY <1>3, <1>5, <1>6, <1>7, <1>9 DEF c, Size

\* Moving the write offset over s appends s to the contents.
LEMMA ContentsExtended ==
  ASSUME NEW c, IsBuffer(c), NEW f, IsBuffer(f), NEW s \in Seq(Byte),
         f.data = c.data, f.rd = c.rd, f.wr = c.wr + Len(s),
         \A i \in 1 .. Len(s) : c.data[c.wr + i] = s[i]
  PROVE  Contents(f) = Contents(c) \o s
<1> DEFINE n == ReadableSize(c)
           p == Contents(c)
           q == Contents(f)
<1>1. c.wr \in Nat /\ c.rd \in Nat /\ c.rd <= c.wr /\ Len(s) \in Nat
  BY LenProperties DEF IsBuffer
<1>2. n \in Nat /\ c.rd + n = c.wr /\ ReadableSize(f) = n + Len(s)
  BY <1>1 DEF ReadableSize
<1>3. p \in Seq(Byte) /\ Len(p) = n /\ \A i \in 1 .. n : p[i] = c.data[c.rd + i]
  BY ContentsProperties
<1>4. /\ q \in Seq(Byte) /\ Len(q) = n + Len(s)
      /\ \A i \in 1 .. n + Len(s) : q[i] = c.data[c.rd + i]
  BY <1>2, ContentsProperties
<1> HIDE DEF n, p, q
<1>5. /\ p \o s \in Seq(Byte) /\ Len(p \o s) = n + Len(s)
      /\ \A i \in 1 .. n + Len(s) : (p \o s)[i] = IF i <= n THEN p[i] ELSE s[i - n]
  BY <1>3, ConcatProperties
<1>6. ASSUME NEW i \in 1 .. n + Len(s) PROVE q[i] = (p \o s)[i]
  <2>1. CASE i <= n
    <3>1. i \in 1 .. n
      BY <1>1, <1>2, <2>1
    <3>2. p[i] = c.data[c.rd + i]
      BY <1>3, <3>1
    <3> QED BY <1>4, <1>5, <2>1, <3>2
  <2>2. CASE ~(i <= n)
    <3> DEFINE j == i - n
    <3>1. j \in 1 .. Len(s) /\ c.rd + i = c.wr + j
      BY <1>1, <1>2, <2>2
    <3>2. c.data[c.rd + i] = s[j]
      BY <3>1
    <3> QED BY <1>4, <1>5, <2>2, <3>2
  <2> QED BY <2>1, <2>2
<1>7. q = p \o s
  BY <1>4, <1>5, <1>6, SeqEqual
<1> QED BY <1>7 DEF p, q

\* What MoveWriteOffset's assignment makes of the record.
LEMMA WithWriteOffset ==
  ASSUME NEW S, NEW r \in [data : S, rd : Nat, wr : Nat], NEW n
  PROVE  [r EXCEPT !.wr = @ + n] = [data |-> r.data, rd |-> r.rd, wr |-> r.wr + n]
OBVIOUS

\* A write finds room, and moving the write offset makes it readable.
LEMMA WriteToCorrect ==
  ASSUME NEW b, IsBuffer(b), NEW s \in Seq(Byte)
  PROVE  LET c == WriteTo(b, s)
         IN  /\ IsBuffer(c)
             /\ Contents(c) = Contents(b)
             /\ c.wr + Len(s) <= Size(c)
             /\ IsBuffer([c EXCEPT !.wr = @ + Len(s)])
             /\ Contents([c EXCEPT !.wr = @ + Len(s)]) = Contents(b) \o s
<1> DEFINE e == EnsureAmpleWriteableSpace(b, Len(s))
           c == WriteTo(b, s)
           f == [data |-> c.data, rd |-> c.rd, wr |-> c.wr + Len(s)]
<1>1. Len(s) \in Nat
  BY LenProperties
<1>2. IsBuffer(e) /\ Contents(e) = Contents(b) /\ GetAfterSpace(e) >= Len(s)
  BY <1>1, EnsureCorrect
<1>3. c = CopyIn(e, s)
  BY DEF WriteTo
<1> HIDE DEF e, c
<1>4. /\ IsBuffer(c) /\ c.rd = e.rd /\ c.wr = e.wr /\ Size(c) = Size(e)
      /\ Contents(c) = Contents(e)
      /\ \A i \in 1 .. Len(s) : c.data[e.wr + i] = s[i]
  BY <1>2, <1>3, CopyInCorrect
<1>5. /\ c.data \in Seq(Byte) /\ c.rd \in Nat /\ c.wr \in Nat /\ Len(c.data) \in Nat
      /\ c.rd <= c.wr /\ c.wr + Len(s) <= Len(c.data)
  BY <1>1, <1>2, <1>4, LenProperties DEF IsBuffer, Size, GetAfterSpace
<1>6. [c EXCEPT !.wr = @ + Len(s)] = f
  <2>1. c \in [data : Seq(Byte), rd : Nat, wr : Nat]
    BY <1>4 DEF IsBuffer
  <2> QED BY <2>1, WithWriteOffset
<1>7. IsBuffer(f)
  BY <1>1, <1>5 DEF IsBuffer, Size
<1>8. Contents(f) = Contents(c) \o s
  <2>1. f.data = c.data /\ f.rd = c.rd /\ f.wr = c.wr + Len(s)
    OBVIOUS
  <2> HIDE DEF f
  <2> QED BY <1>4, <1>7, <2>1, ContentsExtended
<1> QED BY <1>2, <1>4, <1>5, <1>6, <1>7, <1>8 DEF Size, c

-----------------------------------------------------------------------------

\* The bound on the readable bytes, which the writers keep.
BufferInv == TypeOK /\ ReadableSize(buf) <= MaxLen

\* Reading n bytes at the read offset reads the first n of the contents.
LEMMA ReadIsPrefix ==
  ASSUME NEW b, IsBuffer(b), NEW n \in 0 .. ReadableSize(b)
  PROVE  /\ SubSeq(b.data, b.rd + 1, b.rd + n) \in Seq(Byte)
         /\ SubSeq(b.data, b.rd + 1, b.rd + n) = SubSeq(Contents(b), 1, n)
<1> DEFINE p == SubSeq(b.data, b.rd + 1, b.rd + n)
           q == SubSeq(Contents(b), 1, n)
           m == ReadableSize(b)
<1>1. /\ b.data \in Seq(Byte) /\ b.rd \in Nat /\ b.wr \in Nat /\ n \in Nat
      /\ m \in Nat /\ b.rd + m = b.wr /\ b.wr <= Len(b.data) /\ Len(b.data) \in Nat
  BY LenProperties DEF IsBuffer, ReadableSize, Size
<1>2. n <= m /\ b.rd + n <= Len(b.data)
  BY <1>1
<1>3. /\ p \in Seq(Byte) /\ Len(p) = n
      /\ \A i \in 1 .. n : p[i] = b.data[b.rd + i]
  <2> DEFINE d == b.data
             r == b.rd
  <2>1. d \in Seq(Byte) /\ r \in Nat /\ n \in Nat /\ r + n <= Len(d)
    BY <1>1, <1>2
  <2> HIDE DEF d, r
  <2>2. /\ SubSeq(d, r + 1, r + n) \in Seq(Byte)
        /\ Len(SubSeq(d, r + 1, r + n)) = n
        /\ \A i \in 1 .. n : SubSeq(d, r + 1, r + n)[i] = d[r + i]
    BY <2>1, WindowProperties
  <2> QED BY <2>2 DEF d, r
<1>4. \A i \in 1 .. n : i \in 1 .. m
  BY <1>1
<1> HIDE DEF m
<1>5. /\ Contents(b) \in Seq(Byte) /\ Len(Contents(b)) = m
      /\ \A i \in 1 .. m : Contents(b)[i] = b.data[b.rd + i]
  BY ContentsProperties DEF m
<1>6. \A i \in 1 .. n : Contents(b)[i] \in Byte
  BY <1>4, <1>5, ElementOfSeq
<1>7. /\ q \in Seq(Byte) /\ Len(q) = n
      /\ \A i \in 1 .. n : q[i] = Contents(b)[i]
  BY <1>1, <1>6, SubSeqProperties
<1> HIDE DEF p, q
<1>8. p = q
  BY <1>3, <1>4, <1>5, <1>7, SeqEqual
<1> QED BY <1>3, <1>8 DEF p, q

\* Moving the read offset drops the first n of the contents.
LEMMA PopIsSuffix ==
  ASSUME NEW b, IsBuffer(b), NEW n \in 0 .. ReadableSize(b)
  PROVE  LET c == [b EXCEPT !.rd = @ + n]
         IN  /\ IsBuffer(c)
             /\ ReadableSize(c) = ReadableSize(b) - n
             /\ Contents(c) = SubSeq(Contents(b), n + 1, Len(Contents(b)))
<1> DEFINE c == [b EXCEPT !.rd = @ + n]
           m == ReadableSize(b)
           q == SubSeq(Contents(b), n + 1, m)
<1>1. /\ b.data \in Seq(Byte) /\ b.rd \in Nat /\ b.wr \in Nat /\ n \in Nat
      /\ m \in Nat /\ n <= m /\ b.rd + m = b.wr
  BY DEF IsBuffer, ReadableSize
<1>2. c = [data |-> b.data, rd |-> b.rd + n, wr |-> b.wr]
  BY DEF IsBuffer
<1>3. c.data = b.data /\ c.rd = b.rd + n /\ c.wr = b.wr
  BY <1>2
<1>4. IsBuffer(c)
  BY <1>1, <1>2 DEF IsBuffer, Size
<1> HIDE DEF c
<1>5. ReadableSize(c) = m - n
  BY <1>1, <1>3 DEF ReadableSize
<1>6. /\ Contents(c) \in Seq(Byte) /\ Len(Contents(c)) = m - n
      /\ \A i \in 1 .. m - n : Contents(c)[i] = b.data[b.rd + n + i]
  BY <1>3, <1>4, <1>5, ContentsProperties
<1>7. /\ Contents(b) \in Seq(Byte) /\ Len(Contents(b)) = m
      /\ \A i \in 1 .. m : Contents(b)[i] = b.data[b.rd + i]
  BY ContentsProperties
<1> HIDE DEF m
<1>8. \A i \in n + 1 .. m : Contents(b)[i] \in Byte
  BY <1>1, <1>7, ElementOfSeq
<1>9. /\ q \in Seq(Byte) /\ Len(q) = m - n
      /\ \A i \in 1 .. m - n : q[i] = Contents(b)[n + i]
  <2>1. /\ q \in Seq(Byte) /\ Len(q) = IF n + 1 <= m THEN m - (n + 1) + 1 ELSE 0
        /\ \A i \in 1 .. m - (n + 1) + 1 : q[i] = Contents(b)[n + 1 + i - 1]
    BY <1>1, <1>8, SubSeqProperties
  <2> QED BY <1>1, <2>1
<1> HIDE DEF q
<1>10. ASSUME NEW i \in 1 .. m - n PROVE Contents(c)[i] = q[i]
  <2>1. n + i \in 1 .. m /\ b.rd + n + i = b.rd + (n + i)
    BY <1>1
  <2> QED BY <1>6, <1>7, <1>9, <2>1
<1>11. Contents(c) = q
  BY <1>1, <1>6, <1>9, <1>10, SeqEqual
<1> QED BY <1>4, <1>5, <1>7, <1>11 DEF c, q, m

-----------------------------------------------------------------------------

\* An empty vector of default_size bytes.
LEMMA EmptyCorrect == IsBuffer(Empty) /\ Contents(Empty) = <<>> /\ ReadableSize(Empty) = 0
<1>1. Empty.data \in [1 .. DefaultSize -> Byte]
  BY ByteAssumption DEF Empty
<1>2. Empty.data \in Seq(Byte) /\ Len(Empty.data) = DefaultSize
  BY <1>1, SizeAssumption, FunctionIsSeq
<1>3. IsBuffer(Empty)
  BY <1>2, SizeAssumption DEF IsBuffer, Size, Empty
<1> QED BY <1>3, ContentsProperties, EmptySeq DEF Empty, ReadableSize

LEMMA LeastExists ==
  ASSUME NEW T, T \subseteq Nat, T # {}
  PROVE  \E x \in T : \A y \in T : x <= y
<1>1. PICK x \in T : \A y \in T : ~(<<y, x>> \in OpToRel(<, Nat))
  BY WFMin, NatLessThanWellFounded
<1>2. \A y \in T : ~(y < x)
  BY <1>1 DEF OpToRel
<1> QED BY <1>2

\* A line is no longer than what is readable, and ends at its first '\n'.
LEMMA LineLengthCorrect ==
  ASSUME NEW b, IsBuffer(b)
  PROVE  LET n == LineLength(b)
         IN  /\ n \in 0 .. ReadableSize(b)
             /\ n > 0 => /\ b.data[b.rd + n] = NL
                         /\ \A k \in 1 .. n - 1 : b.data[b.rd + k] # NL
<1> DEFINE m == ReadableSize(b)
           IsNL(n) == b.data[b.rd + n] = NL
<1>1. m \in Nat
  BY DEF IsBuffer, ReadableSize
<1>2. ASSUME NEW n \in 1 .. m, IsNL(n)
      PROVE  \E k \in 1 .. m : IsNL(k) /\ \A j \in 1 .. k - 1 : ~IsNL(j)
  <2> DEFINE S == {k \in 1 .. m : IsNL(k)}
  <2>1. PICK k \in S : \A j \in S : k <= j
    <3>1. n \in S /\ S \subseteq Nat
      BY <1>1, <1>2
    <3> HIDE DEF S
    <3> QED BY <3>1, LeastExists
  <2>2. ASSUME NEW j \in 1 .. k - 1 PROVE ~IsNL(j)
    <3>1. j \in 1 .. m /\ ~(k <= j)
      BY <1>1, <2>1
    <3> QED BY <2>1, <3>1
  <2> QED BY <2>1, <2>2
<1> QED BY <1>1, <1>2 DEF LineLength

-----------------------------------------------------------------------------

\* A buffer with nothing to read has empty contents.
LEMMA NothingReadable ==
  ASSUME NEW b, IsBuffer(b), b.rd = b.wr
  PROVE  Contents(b) = <<>> /\ ReadableSize(b) = 0
<1>1. ReadableSize(b) = 0
  BY DEF ReadableSize, IsBuffer
<1> QED BY <1>1, ContentsProperties, EmptySeq

\* What a step means for the byte queue, and that it keeps the invariant.
Simulated == BufferInv' /\ [Queue!Next]_<<Contents(buf), got>>

\* Write and WriteAndPush.
LEMMA WriteSimulated ==
  ASSUME BufferInv, NEW s \in Inputs, ReadableSize(buf) + Len(s) <= MaxLen,
         Write(s) \/ WriteAndPush(s)
  PROVE  Simulated /\ aborted' = aborted
<1> DEFINE c == WriteTo(buf, s)
           f == [c EXCEPT !.wr = @ + Len(s)]
<1>1. s \in Seq(Byte) /\ Len(s) \in Nat
  BY InputsAssumption, LenProperties
<1>2. IsBuffer(buf) /\ got \in Seq(Byte) /\ aborted \in BOOLEAN /\ MaxLen \in Nat
  BY SizeAssumption DEF BufferInv, TypeOK
<1>3. /\ IsBuffer(c) /\ Contents(c) = Contents(buf) /\ c.wr + Len(s) <= Size(c)
      /\ IsBuffer(f) /\ Contents(f) = Contents(buf) \o s
  BY <1>1, <1>2, WriteToCorrect
<1>4. Len(Contents(buf)) = ReadableSize(buf)
  BY <1>2, ContentsProperties
<1> HIDE DEF c, f
<1>5. CASE Write(s)
  <2>1. buf' = c /\ got' = got /\ aborted' = aborted
    BY <1>5 DEF Write, c
  <2>2. ReadableSize(buf') = ReadableSize(buf)
    BY <1>2, <1>3, <2>1, ContentsProperties
  <2> QED BY <1>2, <1>3, <2>1, <2>2 DEF BufferInv, TypeOK, Simulated
<1>6. CASE WriteAndPush(s)
  <2>1. buf' = f /\ got' = got /\ aborted' = aborted
    BY <1>3, <1>6 DEF WriteAndPush, c, f
  <2>2. ReadableSize(buf') = ReadableSize(buf) + Len(s)
    <3>1. ReadableSize(f) = Len(Contents(f))
      BY <1>3, ContentsProperties
    <3>2. Len(Contents(buf) \o s) = Len(Contents(buf)) + Len(s)
      BY <1>1, <1>2, ContentsProperties, ConcatProperties
    <3> QED BY <1>3, <1>4, <2>1, <3>1, <3>2
  <2>3. Queue!Write(s)
    BY <1>3, <1>4, <2>1 DEF Queue!Write
  <2> QED BY <1>2, <1>3, <2>1, <2>2, <2>3 DEF BufferInv, TypeOK, Simulated, Queue!Next
<1> QED BY <1>5, <1>6

\* What ReadAndPop returns is what it removes: the first n bytes.
LEMMA PopSimulated ==
  ASSUME BufferInv, NEW n \in Nat, ReadAndPop(n), n <= ReadableSize(buf), n > 0
  PROVE  /\ Queue!Pop(n) /\ got' \in Seq(Byte)
         /\ IsBuffer(buf') /\ ReadableSize(buf') = ReadableSize(buf) - n
<1>1. IsBuffer(buf) /\ ReadableSize(buf) \in Nat
  BY DEF BufferInv, TypeOK, IsBuffer, ReadableSize
<1>2. Len(Contents(buf)) = ReadableSize(buf) /\ n \in 0 .. ReadableSize(buf)
  BY <1>1, ContentsProperties
<1>3. buf' = [buf EXCEPT !.rd = @ + n] /\ got' = SubSeq(buf.data, buf.rd + 1, buf.rd + n)
  BY DEF ReadAndPop
<1>4. got' \in Seq(Byte) /\ got' = SubSeq(Contents(buf), 1, n)
  BY <1>1, <1>2, <1>3, ReadIsPrefix
<1>5. /\ IsBuffer(buf') /\ ReadableSize(buf') = ReadableSize(buf) - n
      /\ Contents(buf') = SubSeq(Contents(buf), n + 1, Len(Contents(buf)))
  <2> DEFINE c == [buf EXCEPT !.rd = @ + n]
  <2>1. /\ IsBuffer(c) /\ ReadableSize(c) = ReadableSize(buf) - n
        /\ Contents(c) = SubSeq(Contents(buf), n + 1, Len(Contents(buf)))
    BY <1>1, <1>2, PopIsSuffix
  <2>2. buf' = c
    BY <1>3
  <2> HIDE DEF c
  <2> QED BY <2>1, <2>2
<1> QED BY <1>1, <1>2, <1>4, <1>5 DEF Queue!Pop

\* Read and ReadAndPop of any length, so also GetLine and GetLineAndPop.
LEMMA ReadSimulated ==
  ASSUME BufferInv, NEW n \in Nat, Read(n) \/ ReadAndPop(n)
  PROVE  Simulated
<1>1. /\ IsBuffer(buf) /\ got \in Seq(Byte) /\ aborted \in BOOLEAN /\ MaxLen \in Nat
      /\ ReadableSize(buf) \in Nat /\ ReadableSize(buf) <= MaxLen
  BY SizeAssumption DEF BufferInv, TypeOK, IsBuffer, ReadableSize
<1>2. Len(Contents(buf)) = ReadableSize(buf)
  BY <1>1, ContentsProperties
<1>3. CASE Abort
  BY <1>1, <1>3 DEF Abort, BufferInv, TypeOK, Simulated
<1>4. CASE Read(n) /\ n <= ReadableSize(buf)
  <2>1. buf' = buf /\ aborted' = aborted
    BY <1>4 DEF Read
  <2>0. n \in 0 .. ReadableSize(buf)
    BY <1>1, <1>4
  <2>2. got' \in Seq(Byte) /\ got' = SubSeq(Contents(buf), 1, n)
    <3>1. got' = SubSeq(buf.data, buf.rd + 1, buf.rd + n)
      BY <1>4 DEF Read
    <3> QED BY <1>1, <2>0, <3>1, ReadIsPrefix
  <2>3. Queue!Peek(n) /\ n \in 0 .. MaxLen
    BY <1>1, <1>2, <1>4, <2>1, <2>2 DEF Queue!Peek
  <2> QED BY <1>1, <2>1, <2>2, <2>3 DEF BufferInv, TypeOK, Simulated, Queue!Next
<1>5. CASE ReadAndPop(n) /\ n <= ReadableSize(buf) /\ n > 0
  <2>1. aborted' = aborted
    BY <1>5 DEF ReadAndPop
  <2>2. /\ Queue!Pop(n) /\ got' \in Seq(Byte)
        /\ IsBuffer(buf') /\ ReadableSize(buf') = ReadableSize(buf) - n
    BY <1>5, PopSimulated
  <2>3. n \in 1 .. MaxLen /\ ReadableSize(buf') <= MaxLen
    BY <1>1, <1>5, <2>2
  <2> QED BY <1>1, <2>1, <2>2, <2>3 DEF BufferInv, TypeOK, Simulated, Queue!Next
<1> QED BY <1>3, <1>4, <1>5 DEF Read, ReadAndPop

\* clear and Swap with a new Buffer.
LEMMA ResetSimulated ==
  ASSUME BufferInv, clear \/ SwapWithNew
  PROVE  Simulated
<1>1. /\ IsBuffer(buf) /\ got \in Seq(Byte) /\ aborted \in BOOLEAN /\ MaxLen \in Nat
  BY SizeAssumption DEF BufferInv, TypeOK
<1>2. IsBuffer(buf') /\ buf'.rd = buf'.wr
  <2>1. CASE clear
    <3>1. buf' = [data |-> buf.data, rd |-> 0, wr |-> 0]
      BY <1>1, <2>1 DEF clear, IsBuffer
    <3>2. buf.data \in Seq(Byte) /\ 0 <= Len(buf.data)
      BY <1>1, LenProperties DEF IsBuffer
    <3> QED BY <3>1, <3>2 DEF IsBuffer, Size
  <2>2. CASE SwapWithNew
    BY <2>2, EmptyCorrect DEF SwapWithNew, Empty
  <2> QED BY <2>1, <2>2
<1>3. Contents(buf') = <<>> /\ ReadableSize(buf') = 0
  BY <1>2, NothingReadable
<1>4. got' = got /\ aborted' = aborted
  BY DEF clear, SwapWithNew
<1>5. Queue!Clear
  BY <1>3, <1>4 DEF Queue!Clear
<1> QED BY <1>1, <1>2, <1>3, <1>4, <1>5 DEF BufferInv, TypeOK, Simulated, Queue!Next

LEMMA StepSimulated == BufferInv /\ [Next]_vars => Simulated
<1> SUFFICES ASSUME BufferInv, [Next]_vars PROVE Simulated
  OBVIOUS
<1>1. LineLength(buf) \in Nat
  BY LineLengthCorrect DEF BufferInv, TypeOK, IsBuffer, ReadableSize
<1>2. CASE UNCHANGED vars
  BY <1>2 DEF vars, BufferInv, TypeOK, Simulated
<1>3. ASSUME NEW s \in Inputs, ReadableSize(buf) + Len(s) <= MaxLen,
             Write(s) \/ WriteAndPush(s)
      PROVE  Simulated
  BY <1>3, WriteSimulated
<1>4. ASSUME NEW n \in 0 .. MaxLen, Read(n) \/ ReadAndPop(n) PROVE Simulated
  BY <1>4, ReadSimulated, SizeAssumption
<1>5. CASE GetLine \/ GetLineAndPop
  BY <1>1, <1>5, ReadSimulated DEF GetLine, GetLineAndPop
<1>6. CASE clear \/ SwapWithNew
  BY <1>6, ResetSimulated
<1> QED BY <1>2, <1>3, <1>4, <1>5, <1>6 DEF Next

LEMMA InitSimulated == Init => BufferInv /\ Queue!Init
<1>1. <<>> \in Seq(Byte)
  BY EmptySeq
<1>2. Init => TypeOK /\ ReadableSize(buf) = 0 /\ Contents(buf) = <<>> /\ got = <<>>
  BY <1>1, EmptyCorrect DEF Init, TypeOK
<1> QED BY <1>2, SizeAssumption DEF BufferInv, Queue!Init

LEMMA Invariance == Spec => []BufferInv
<1>1. BufferInv /\ [Next]_vars => BufferInv'
  BY StepSimulated DEF Simulated
<1> QED BY <1>1, InitSimulated, PTL DEF Spec

(***************************************************************************)
(* The offsets of class Buffer stay ordered and inside its vector.         *)
(***************************************************************************)
THEOREM BufferTypeCorrect == Spec => []TypeOK
<1>1. BufferInv => TypeOK
  BY DEF BufferInv
<1> QED BY <1>1, Invariance, PTL

(***************************************************************************)
(* EnsureAmpleWriteableSpace always makes enough room: the assertion of    *)
(* MoveWriteOffset in WriteAndPush never fails.                            *)
(***************************************************************************)
THEOREM WriteNeverAborts == Spec => WritesNeverAbort
<1>1. BufferInv /\ [Next]_vars => [aborted' => \A s \in Inputs : ~WriteAndPush(s)]_vars
  <2> SUFFICES ASSUME BufferInv, Next, NEW s \in Inputs, WriteAndPush(s)
               PROVE  ~aborted'
    BY Zenon DEF vars
  <2>1. ~aborted
    BY DEF Next
  <2>2. s \in Seq(Byte) /\ IsBuffer(buf)
    BY InputsAssumption DEF BufferInv, TypeOK
  <2>3. WriteTo(buf, s).wr + Len(s) <= Size(WriteTo(buf, s))
    BY <2>2, WriteToCorrect
  <2> QED BY <2>1, <2>3 DEF WriteAndPush
<1> QED BY <1>1, Invariance, PTL DEF Spec, WritesNeverAbort

(***************************************************************************)
(* class Buffer is a queue of bytes whatever mix of writes, moves to the   *)
(* front, resizes and reads it goes through.                               *)
(***************************************************************************)
THEOREM BufferImplementsByteQueue == Spec => ImplementsByteQueue
<1>1. BufferInv /\ [Next]_vars => [Queue!Next]_Queue!queueVars
  BY StepSimulated DEF Simulated, Queue!queueVars
<1> QED BY <1>1, InitSimulated, Invariance, PTL DEF Spec, ImplementsByteQueue, Queue!Spec

(***************************************************************************)
(* GetLineAndPop takes the first line with its '\n', and nothing behind    *)
(* it, wherever in the vector the line lies; without a whole line the      *)
(* assertion of MoveReadOffset fails.                                      *)
(***************************************************************************)
THEOREM LinePopped == Spec => PopsOneLine
<1>1. BufferInv /\ [Next]_vars => [GetLineAndPop => aborted' \/ Queue!PopLine]_vars
  <2> SUFFICES ASSUME BufferInv, GetLineAndPop, ~aborted' PROVE Queue!PopLine
    OBVIOUS
  <2> DEFINE n == LineLength(buf)
  <2>1. IsBuffer(buf) /\ ReadableSize(buf) \in Nat
    BY DEF BufferInv, TypeOK, IsBuffer, ReadableSize
  <2>2. /\ n \in 0 .. ReadableSize(buf)
        /\ n > 0 => /\ buf.data[buf.rd + n] = NL
                    /\ \A k \in 1 .. n - 1 : buf.data[buf.rd + k] # NL
    BY <2>1, LineLengthCorrect
  <2> HIDE DEF n
  <2>3. ReadAndPop(n) /\ n <= ReadableSize(buf) /\ n > 0
    BY DEF GetLineAndPop, ReadAndPop, Abort, n
  <2>4. Queue!Pop(n)
    BY <2>2, <2>3, PopSimulated
  <2>5. /\ Len(Contents(buf)) = ReadableSize(buf)
        /\ \A k \in 1 .. ReadableSize(buf) : Contents(buf)[k] = buf.data[buf.rd + k]
    BY <2>1, ContentsProperties
  <2>6. Queue!IsFirstNewline(n) /\ n \in 1 .. Len(Contents(buf))
    BY <2>1, <2>2, <2>3, <2>5 DEF Queue!IsFirstNewline
  <2> QED BY <2>4, <2>6 DEF Queue!PopLine
<1> QED BY <1>1, Invariance, PTL DEF Spec, PopsOneLine
=============================================================================
