---------------------------- MODULE MCTimerWheel ----------------------------
(* TimerWheel with interchangeable TimerTask objects. *)
EXTENDS TimerWheel, TLC

TaskSymmetry == Permutations(Tasks)
=============================================================================
