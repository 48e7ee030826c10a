------------------------------- MODULE Buffer -------------------------------
(***************************************************************************)
(* class Buffer of src/muduo/server.hpp: a vector with a read and a write  *)
(* offset.  A write that does not fit behind the write offset moves the    *)
(* readable bytes to the front if that makes room, and otherwise resizes   *)
(* the vector; nothing ever shrinks it.                                    *)
(*                                                                         *)
(* An assertion that fails ends the program: `aborted`.                    *)
(***************************************************************************)
EXTENDS Naturals, Sequences

CONSTANTS
  Byte,         \* the bytes
  NL,           \* '\n'
  Zero,         \* what resize() fills new elements with
  DefaultSize,  \* default_size, the size of a new vector
  Inputs,       \* the byte strings written in one call
  MaxLen        \* a bound on the readable bytes

ASSUME ByteAssumption == NL \in Byte /\ Zero \in Byte
ASSUME SizeAssumption == DefaultSize \in Nat /\ MaxLen \in Nat
ASSUME InputsAssumption == Inputs \subseteq Seq(Byte)

VARIABLES
  buf,      \* the object: [data, rd, wr] for _buffer, _read_idx, _write_idx
  got,      \* what the last read returned (a history variable)
  aborted   \* an assertion has failed

vars == <<buf, got, aborted>>

Size(b) == Len(b.data)
ReadableSize(b) == b.wr - b.rd
GetAfterSpace(b) == Size(b) - b.wr
GetFrontSpace(b) == b.rd

\* The readable bytes, [ReadIndex(), WriteIndex()).
Contents(b) == SubSeq(b.data, b.rd + 1, b.wr)

IsBuffer(b) ==
  /\ b \in [data : Seq(Byte), rd : Nat, wr : Nat]
  /\ b.rd <= b.wr
  /\ b.wr <= Size(b)

TypeOK == IsBuffer(buf) /\ got \in Seq(Byte) /\ aborted \in BOOLEAN

Empty == [data |-> [i \in 1 .. DefaultSize |-> Zero], rd |-> 0, wr |-> 0]

Init == buf = Empty /\ got = <<>> /\ aborted = FALSE

\* Mutant of MoveToFront: the bytes move, the write offset does not.
MoveToFrontKeepingWr(b) ==
  [data |-> [i \in 1 .. Size(b) |->
               IF i <= ReadableSize(b) THEN b.data[b.rd + i] ELSE b.data[i]],
   rd   |-> 0,
   wr   |-> b.wr]

\* std::copy of the readable bytes to the front; what is behind them stays.
MoveToFront(b) ==
  [data |-> [i \in 1 .. Size(b) |->
               IF i <= ReadableSize(b) THEN b.data[b.rd + i] ELSE b.data[i]],
   rd   |-> 0,
   wr   |-> ReadableSize(b)]

\* _buffer.resize(_buffer.size() * 2 + n)
Resize(b, n) ==
  [data |-> [i \in 1 .. 2 * Size(b) + n |->
               IF i <= Size(b) THEN b.data[i] ELSE Zero],
   rd   |-> b.rd,
   wr   |-> b.wr]

\* Mutant of EnsureAmpleWriteableSpace: the space before the read offset is
\* counted, but not reclaimed.
EnsureWithoutMove(b, n) ==
  IF GetFrontSpace(b) + GetAfterSpace(b) >= n THEN b ELSE Resize(b, n)

EnsureAmpleWriteableSpace(b, n) ==
  IF GetAfterSpace(b) >= n THEN b
  ELSE IF GetFrontSpace(b) + GetAfterSpace(b) >= n THEN MoveToFront(b)
  ELSE Resize(b, n)

\* std::copy(data, data + len, WriteIndex())
CopyIn(b, s) ==
  [data |-> [i \in 1 .. Size(b) |->
               IF i \in b.wr + 1 .. b.wr + Len(s) THEN s[i - b.wr] ELSE b.data[i]],
   rd   |-> b.rd,
   wr   |-> b.wr]

WriteTo(b, s) == CopyIn(EnsureAmpleWriteableSpace(b, Len(s)), s)

Abort == aborted' = TRUE /\ UNCHANGED <<buf, got>>

\* Write without moving the write offset: the bytes are not yet readable.
Write(s) ==
  /\ buf' = WriteTo(buf, s)
  /\ UNCHANGED <<got, aborted>>

\* Also WriteStringAndPush and WriteBufferAndPush.  MoveWriteOffset asserts
\* that the offset stays inside the vector.
WriteAndPush(s) ==
  LET b == WriteTo(buf, s)
  IN  IF b.wr + Len(s) <= Size(b)
      THEN /\ buf' = [b EXCEPT !.wr = @ + Len(s)]
           /\ UNCHANGED <<got, aborted>>
      ELSE Abort

\* Read, ReadString.
Read(n) ==
  IF n <= ReadableSize(buf)
  THEN /\ got' = SubSeq(buf.data, buf.rd + 1, buf.rd + n)
       /\ UNCHANGED <<buf, aborted>>
  ELSE Abort

\* Mutant of ReadAndPop: the assertion is compiled out (NDEBUG).
ReadAndPopUnchecked(n) ==
  /\ got' = SubSeq(buf.data, buf.rd + 1, buf.rd + n)
  /\ buf' = [buf EXCEPT !.rd = @ + n]
  /\ UNCHANGED aborted

\* ReadAndPop, ReadStringAndPop: MoveReadOffset also refuses to move by zero.
ReadAndPop(n) ==
  IF n <= ReadableSize(buf) /\ n > 0
  THEN /\ got' = SubSeq(buf.data, buf.rd + 1, buf.rd + n)
       /\ buf' = [buf EXCEPT !.rd = @ + n]
       /\ UNCHANGED aborted
  ELSE Abort

\* Mutant of LineLength: the '\n' itself is not counted.
LineLengthWithoutNL(b) ==
  IF \E n \in 1 .. ReadableSize(b) : b.data[b.rd + n] = NL
  THEN CHOOSE n \in 0 .. ReadableSize(b) - 1 :
         /\ b.data[b.rd + n + 1] = NL
         /\ \A k \in 1 .. n : b.data[b.rd + k] # NL
  ELSE 0

\* The length of the first line with its '\n' (FindCRLF), 0 if there is none.
LineLength(b) ==
  IF \E n \in 1 .. ReadableSize(b) : b.data[b.rd + n] = NL
  THEN CHOOSE n \in 1 .. ReadableSize(b) :
         /\ b.data[b.rd + n] = NL
         /\ \A k \in 1 .. n - 1 : b.data[b.rd + k] # NL
  ELSE 0

GetLine == Read(LineLength(buf))

\* Without a whole line this is MoveReadOffset(0), and the assertion fails.
GetLineAndPop == ReadAndPop(LineLength(buf))

clear ==
  /\ buf' = [buf EXCEPT !.rd = 0, !.wr = 0]
  /\ UNCHANGED <<got, aborted>>

\* Swap with a new Buffer.
SwapWithNew == buf' = Empty /\ UNCHANGED <<got, aborted>>

-----------------------------------------------------------------------------

Next ==
  /\ ~aborted
  /\ \/ \E s \in Inputs :
          /\ ReadableSize(buf) + Len(s) <= MaxLen
          /\ Write(s) \/ WriteAndPush(s)
     \/ \E n \in 0 .. MaxLen : Read(n) \/ ReadAndPop(n)
     \/ GetLine
     \/ GetLineAndPop
     \/ clear
     \/ SwapWithNew

Spec == Init /\ [][Next]_vars

-----------------------------------------------------------------------------

(***************************************************************************)
(* Every write finds its room: the assertion of MoveWriteOffset never      *)
(* fails after EnsureAmpleWriteableSpace.  (Reads do abort the program,    *)
(* when they ask for nothing or for more than there is.)                   *)
(***************************************************************************)
WritesNeverAbort ==
  [][aborted' => \A s \in Inputs : ~WriteAndPush(s)]_vars

(***************************************************************************)
(* The offsets, the move to the front and the resize are invisible: a      *)
(* Buffer is a queue of bytes.                                             *)
(***************************************************************************)
Queue == INSTANCE ByteQueue WITH queue <- Contents(buf)

ImplementsByteQueue == Queue!Spec

(***************************************************************************)
(* GetLineAndPop takes the first line, '\n' included, and nothing behind   *)
(* it ("获取一整行数据", server.hpp:210); without a whole line it aborts.    *)
(***************************************************************************)
PopsOneLine == [][GetLineAndPop => aborted' \/ Queue!PopLine]_vars
=============================================================================
