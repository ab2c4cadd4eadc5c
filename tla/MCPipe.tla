------------------------------- MODULE MCPipe -------------------------------
(***************************************************************************)
(* An instance of Pipe: two processes, a ring of two bytes, and writes     *)
(* that fit in the ring and that do not.                                   *)
(***************************************************************************)
EXTENDS Pipe

ShortAndLong == {<<1>>, <<0, 1, 0>>}
=============================================================================
