------------------------------ MODULE MCBcache ------------------------------
(***************************************************************************)
(* Instance of Bcache: two processes, two buffers and three blocks.        *)
(***************************************************************************)
EXTENDS Bcache
=============================================================================
