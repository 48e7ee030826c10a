-------------------------------- MODULE Heap --------------------------------
(***************************************************************************)
(* What a caller expects of malloc and free: a block it is given shares no *)
(* word with any other that has not been freed.                            *)
(***************************************************************************)
EXTENDS Naturals

VARIABLE held  \* the blocks given out: their first word and size

Words(b) == b.at .. b.at + b.size - 1

Init == held = {}

Malloc ==
  \E b \in held' \ held :
    /\ held' = held \cup {b}
    /\ \A o \in held : Words(o) \cap Words(b) = {}

Free == \E b \in held : held' = held \ {b}

Next == Malloc \/ Free

Spec == Init /\ [][Next]_held
=============================================================================
