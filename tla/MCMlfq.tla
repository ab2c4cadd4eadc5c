-------------------------------- MODULE MCMlfq --------------------------------
(***************************************************************************)
(* The feedback queue.  The clock wraps around, so it never stops.         *)
(***************************************************************************)
EXTENDS ProcTable

MlfqEvents == {"fork", "sleep", "nap", "keys", "disk"}
MlfqPriorityEvents == {"fork", "sleep", "nap", "disk", "wakeup", "setpriority"}
=============================================================================
