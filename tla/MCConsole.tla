----------------------------- MODULE MCConsole -----------------------------
(* A small instance of Console.                                            *)
EXTENDS Console

(* Characters outside r..e have been read or erased, and intena says       *)
(* nothing while ncli is 0: nobody looks at them, and states that differ   *)
(* only there count as one.                                                *)
ConsoleView == <<Between(r, e), r, w, e, lock, ncli, [c \in Cpus |-> ncli[c] > 0 /\ intena[c]], IF_, task, th, killed, intr, out>>
=============================================================================
