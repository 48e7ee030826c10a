------------------------------ MODULE HandOff ------------------------------
(***************************************************************************)
(* What the queues and pools of the repository promise: every task handed  *)
(* over is taken by one worker and done once; the tasks of a lane are      *)
(* taken in the order in which they were handed over; and who ends the     *)
(* work does so when nothing is left of it.                                *)
(***************************************************************************)
EXTENDS Sequences, SequencesExt

CONSTANTS
  Lane,   \* the queues, each in an order of its own
  Item    \* the tasks

VARIABLES
  waiting,  \* by lane, what is handed over and not yet taken
  doing,    \* taken, and not yet done
  done,
  open,     \* tasks may still be handed over
  ended     \* who ended the work has seen its end

vars == <<waiting, doing, done, open, ended>>

Known == doing \cup done \cup UNION {ToSet(waiting[l]) : l \in Lane}

Init ==
  /\ waiting = [l \in Lane |-> <<>>]
  /\ doing = {}
  /\ done = {}
  /\ open = TRUE
  /\ ended = FALSE

Submit ==
  /\ open
  /\ \E i \in Item \ Known, l \in Lane : waiting' = [waiting EXCEPT ![l] = Append(@, i)]
  /\ UNCHANGED <<doing, done, open, ended>>

Take ==
  /\ \E l \in Lane :
       /\ waiting[l] # <<>>
       /\ waiting' = [waiting EXCEPT ![l] = Tail(@)]
       /\ doing' = doing \cup {Head(waiting[l])}
  /\ UNCHANGED <<done, open, ended>>

Complete ==
  /\ \E i \in doing : doing' = doing \ {i} /\ done' = done \cup {i}
  /\ UNCHANGED <<waiting, open, ended>>

Close ==
  /\ open' = FALSE
  /\ UNCHANGED <<waiting, doing, done, ended>>

End ==
  /\ ~open /\ doing = {} /\ \A l \in Lane : waiting[l] = <<>>
  /\ ended' = TRUE
  /\ UNCHANGED <<waiting, doing, done, open>>

Next == Submit \/ Take \/ Complete \/ Close \/ End

Spec == Init /\ [][Next]_vars
=============================================================================
