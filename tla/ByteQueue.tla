------------------------------ MODULE ByteQueue ------------------------------
(***************************************************************************)
(* What Connection relies on in its _in_buffer and _out_buffer: bytes come *)
(* out once, in the order they were written, and a line is everything up   *)
(* to and including the first '\n'.                                        *)
(***************************************************************************)
EXTENDS Naturals, Sequences

CONSTANTS
  Byte,     \* the bytes
  NL,       \* '\n', one of them
  Inputs,   \* the byte strings written in one call
  MaxLen    \* a bound on the bytes held

VARIABLES
  queue,    \* the bytes written and not yet read
  got       \* what the last read returned

queueVars == <<queue, got>>

Init == queue = <<>> /\ got = <<>>

Write(s) ==
  /\ Len(queue) + Len(s) <= MaxLen
  /\ queue' = queue \o s
  /\ UNCHANGED got

\* The first n bytes are returned and removed.
Pop(n) ==
  /\ n \in 1 .. Len(queue)
  /\ got' = SubSeq(queue, 1, n)
  /\ queue' = SubSeq(queue, n + 1, Len(queue))

\* Of the pops, the one that takes the first line with its newline.
IsFirstNewline(n) == queue[n] = NL /\ \A k \in 1 .. n - 1 : queue[k] # NL

PopLine == \E n \in 1 .. Len(queue) : IsFirstNewline(n) /\ Pop(n)

Peek(n) ==
  /\ n \in 0 .. Len(queue)
  /\ got' = SubSeq(queue, 1, n)
  /\ UNCHANGED queue

Clear == queue' = <<>> /\ UNCHANGED got

Next ==
  \/ \E s \in Inputs : Write(s)
  \/ \E n \in 1 .. MaxLen : Pop(n)
  \/ \E n \in 0 .. MaxLen : Peek(n)
  \/ Clear

Spec == Init /\ [][Next]_queueVars
=============================================================================
