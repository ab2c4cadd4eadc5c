----------------------------- MODULE MCLifecycle -----------------------------
(***************************************************************************)
(* Instances of ProcTable about the life of a process on two processors:   *)
(* creation, failed creation, exit, wait, kill, sleep and wakeup.          *)
(***************************************************************************)
EXTENDS ProcTable

LifecycleEvents == {"fork", "nomem", "wait", "kill", "exit", "sleep", "wakeup", "disk", "fault"}
KillEvents == {"fork", "nomem", "kill"}
=============================================================================
