----------------------------- MODULE MCFileSys -----------------------------
(* A small instance of FileSys: one process makes the directory and works  *)
(* in it, the other one removes names.                                     *)
EXTENDS FileSys, TLC

CONSTANTS Maker, Remover

Abs(op, path) == [op |-> op, path |-> path, abs |-> TRUE, rdonly |-> FALSE]
Rel(op, path) == [op |-> op, path |-> path, abs |-> FALSE, rdonly |-> TRUE]

SomeCalls ==
  Maker :> {Abs("mkdir", <<"a">>), Abs("mknod", <<"a", "b">>), Abs("chdir", <<"a", "b">>), Rel("open", <<"..">>),
            Abs("unlink", <<"b">>), Abs("exec", <<"b">>)}
  @@ Remover :> {Abs("mkdir", <<"a", "b">>), Abs("unlink", <<"a">>), Abs("unlink", <<"a", "b">>), Abs("unlink", <<>>),
            Abs("chmod", <<"b">>), Abs("create", <<"b">>),
            [op |-> "link", path |-> <<"a", "b">>, abs |-> TRUE, path2 |-> <<"b">>, abs2 |-> TRUE]}
=============================================================================
