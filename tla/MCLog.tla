-------------------------------- MODULE MCLog --------------------------------
(***************************************************************************)
(* Instances of Log: two processes, and blocks enough to fill the header   *)
(* and to run over the end of the log.                                     *)
(***************************************************************************)
EXTENDS Log

(* Block 1, the first behind the log, is written with either content, the  *)
(* others only with the one they do not start with.                        *)
MCUpdates == {<<b, 1>> : b \in Blocks} \cup {<<1, 0>>}

(* A disk of zeroes.                                                       *)
MCInit == Init /\ home = [b \in Blocks |-> 0] /\ logblk = [i \in 1..size - 1 |-> 0]
MCSpec == MCInit /\ [][Next]_vars
MCFairSpec == MCSpec /\ Fairness
=============================================================================
