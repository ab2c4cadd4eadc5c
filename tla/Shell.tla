------------------------------- MODULE Shell --------------------------------
(***************************************************************************)
(* The shell running one line (sh.c, main and runcmd): the processes it    *)
(* forks, their descriptors, pipes and waits.                              *)
(*                                                                         *)
(* A pipe is known by the command that makes it.  A program exits when it  *)
(* likes, except that one whose input is a pipe reads it to the end, which *)
(* comes when nobody has the write end any more.  fork can fail at any     *)
(* time, when other processes have the slots or the memory; init reaps the *)
(* orphans.                                                                *)
(***************************************************************************)
EXTENDS ShellParse

CONSTANTS
  Pids,              \* process slots the shell and its children can have
  ShPid,             \* the shell
  ShLines            \* the lines it is given

ASSUME ShellRunAssumption == ShPid \in Pids /\ IsFiniteSet(Pids)

VARIABLES
  tree,              \* what parsecmd made of the line
  sh,                \* live processes and zombies
  forkFailed

shVars == <<tree, sh, forkFailed>>

InitPid == 0
Console == [kind |-> "console"]
FileOf(word) == [kind |-> "file", word |-> word]
ReadEnd(cmd) == [kind |-> "read", of |-> cmd]
WriteEnd(cmd) == [kind |-> "write", of |-> cmd]

NoCmd == execcmd(<<>>)

(* at: where a process is.  "prompt" and "return" are main; "prog" is a    *)
(* program exec has started; the others are steps of runcmd.               *)
Process(at, cmd, fds, parent) == [at |-> at, cmd |-> cmd, fds |-> fds, parent |-> parent]

ShInit ==
  /\ \E l \in ShLines : tree = parsecmd(l).cmd
  /\ sh = [p \in {ShPid} |-> Process("prompt", NoCmd, [d \in 0..2 |-> Console], InitPid)]
  /\ forkFailed = FALSE

-----------------------------------------------------------------------------
(* Descriptors: open, dup and pipe take the lowest free ones.              *)
LowestFree(fds) == Min(0..Cardinality(DOMAIN fds) \ DOMAIN fds)
Opened(fds, f) == [d \in DOMAIN fds \cup {LowestFree(fds)} |-> IF d \in DOMAIN fds THEN fds[d] ELSE f]
Closed(fds, D) == [d \in DOMAIN fds \ D |-> fds[d]]
PipeAt(p) == [r |-> CHOOSE d \in DOMAIN sh[p].fds : sh[p].fds[d] = ReadEnd(sh[p].cmd),
              w |-> CHOOSE d \in DOMAIN sh[p].fds : sh[p].fds[d] = WriteEnd(sh[p].cmd)]

FreePids == Pids \ DOMAIN sh
Goto(p, at) == sh' = [sh EXCEPT ![p].at = at]
Children(p) == {c \in DOMAIN sh : sh[c].parent = p}

(* A process ends: descriptors closed, children given to init.  A child of *)
(* init is gone at once, init being always in wait.                        *)
Exited(s, p) ==
  LET left == {q \in DOMAIN s : ~(q = p /\ s[p].parent = InitPid)
                                /\ ~(s[q].parent = p /\ s[q].at = "zombie")}
  IN [q \in left |->
        IF q = p THEN Process("zombie", NoCmd, <<>>, s[p].parent)
        ELSE IF s[q].parent = p THEN [s[q] EXCEPT !.parent = InitPid] ELSE s[q]]
Exit(p) == sh' = Exited(sh, p) /\ UNCHANGED <<tree, forkFailed>>

(* fork1: a child that goes on at `start', or a panic.                     *)
fork1(p, at, start, cmd) ==
  \/ \E c \in FreePids :
       /\ c = Min(FreePids)
       /\ sh' = [q \in DOMAIN sh \cup {c} |->
                   IF q = c THEN Process(start, cmd, sh[p].fds, p)
                   ELSE IF q = p THEN [sh[p] EXCEPT !.at = at] ELSE sh[q]]
       /\ UNCHANGED <<tree, forkFailed>>
  \/ sh' = Exited(sh, p) /\ forkFailed' = TRUE /\ UNCHANGED tree

(* wait: a zombie child is reaped and p goes on, with cmd.                 *)
wait(p, at, cmd) ==
  \E c \in Children(p) :
    /\ sh[c].at = "zombie"
    /\ sh' = [q \in DOMAIN sh \ {c} |-> IF q = p THEN [sh[p] EXCEPT !.at = at, !.cmd = cmd] ELSE sh[q]]
    /\ UNCHANGED <<tree, forkFailed>>

-----------------------------------------------------------------------------
(* main: a line that parses is run by a child; a syntax error ends it.     *)
ShCommand ==
  /\ ShPid \in DOMAIN sh /\ sh[ShPid].at = "prompt"
  /\ fork1(ShPid, "return", "run", tree)
ShReturn == ShPid \in DOMAIN sh /\ sh[ShPid].at = "return" /\ wait(ShPid, "done", NoCmd)

(* runcmd.                                                                 *)
At(p, at, type) == sh[p].at = at /\ sh[p].cmd.type = type

RunExec(p) ==
  /\ At(p, "run", "EXEC")
  /\ \/ sh[p].cmd.argv = <<>> /\ Exit(p)
     \/ sh[p].cmd.argv # <<>> /\ Goto(p, "prog") /\ UNCHANGED <<tree, forkFailed>>
     \/ sh[p].cmd.argv # <<>> /\ Exit(p)                     \* exec failed
RunRedir(p) ==
  /\ At(p, "run", "REDIR")
  /\ \/ /\ sh' = [sh EXCEPT ![p].fds = Opened(Closed(sh[p].fds, {sh[p].cmd.fd}), FileOf(sh[p].cmd.file)),
                            ![p].cmd = sh[p].cmd.cmd]
        /\ UNCHANGED <<tree, forkFailed>>
     \/ Exit(p)                                              \* open failed
RunList(p) ==
  \/ At(p, "run", "LIST") /\ fork1(p, "listWait", "run", sh[p].cmd.left)
  \/ At(p, "listWait", "LIST") /\ wait(p, "run", sh[p].cmd.right)
RunBack(p) ==
  \/ At(p, "run", "BACK") /\ fork1(p, "exit", "run", sh[p].cmd.cmd)
  \/ sh[p].at = "exit" /\ Exit(p)

(* The children of a pipe command start with its command, to tell its ends *)
(* by, and go on with their side.                                          *)
PipeChild(p, at, end, d, side) ==
  /\ At(p, at, "PIPE")
  /\ sh' = [sh EXCEPT ![p].fds = LET dup == Opened(Closed(@, {d}), @[end]) IN Closed(dup, {PipeAt(p).r, PipeAt(p).w}),
                      ![p].at = "run", ![p].cmd = side]
  /\ UNCHANGED <<tree, forkFailed>>
(* Mutant: the shell keeps the pipe's ends while it waits.                 *)
PipeCloseNot(p) ==
  At(p, "pipeClose", "PIPE") /\ Goto(p, "pipeWait1") /\ UNCHANGED <<tree, forkFailed>>
PipeClose(p) ==
  /\ At(p, "pipeClose", "PIPE")
  /\ sh' = [sh EXCEPT ![p].fds = Closed(@, {PipeAt(p).r, PipeAt(p).w}), ![p].at = "pipeWait1"]
  /\ UNCHANGED <<tree, forkFailed>>
RunPipe(p) ==
  \/ /\ At(p, "run", "PIPE")
     /\ \/ /\ sh' = [sh EXCEPT ![p].fds = Opened(Opened(@, ReadEnd(sh[p].cmd)), WriteEnd(sh[p].cmd)),
                               ![p].at = "forkLeft"]
           /\ UNCHANGED <<tree, forkFailed>>
        \/ Exit(p)                                           \* pipe failed
  \/ At(p, "forkLeft", "PIPE") /\ fork1(p, "forkRight", "left", sh[p].cmd)
  \/ At(p, "forkRight", "PIPE") /\ fork1(p, "pipeClose", "right", sh[p].cmd)
  \/ At(p, "left", "PIPE") /\ PipeChild(p, "left", PipeAt(p).w, 1, sh[p].cmd.left)
  \/ At(p, "right", "PIPE") /\ PipeChild(p, "right", PipeAt(p).r, 0, sh[p].cmd.right)
  \/ PipeClose(p)
  \/ At(p, "pipeWait1", "PIPE") /\ wait(p, "pipeWait2", sh[p].cmd)
  \/ At(p, "pipeWait2", "PIPE") /\ wait(p, "exit", sh[p].cmd)

(* A started program.                                                      *)
HasEnd(p, f) == \E d \in DOMAIN sh[p].fds : sh[p].fds[d] = f
AtEof(f) == f.kind = "read" => \A q \in DOMAIN sh : ~HasEnd(q, WriteEnd(f.of))
ProgramExit(p) ==
  /\ sh[p].at = "prog"
  /\ 0 \in DOMAIN sh[p].fds => AtEof(sh[p].fds[0])
  /\ Exit(p)

ShNext ==
  \/ ShCommand \/ ShReturn
  \/ \E p \in DOMAIN sh : RunExec(p) \/ RunRedir(p) \/ RunList(p) \/ RunBack(p) \/ RunPipe(p) \/ ProgramExit(p)

ShSpec == ShInit /\ [][ShNext]_shVars

-----------------------------------------------------------------------------
(* Properties.                                                             *)

(* What the tree says about its programs: input and output of each.  The   *)
(* first of two redirections of one descriptor is the one that lasts.      *)
RECURSIVE Plumbed(_, _, _)
Plumbed(cmd, in, out) ==
  CASE cmd.type = "EXEC" -> {[argv |-> cmd.argv, in |-> in, out |-> out]}
    [] cmd.type = "REDIR" -> Plumbed(cmd.cmd, IF cmd.fd = 0 THEN FileOf(cmd.file) ELSE in,
                                              IF cmd.fd = 1 THEN FileOf(cmd.file) ELSE out)
    [] cmd.type = "PIPE" -> Plumbed(cmd.left, in, WriteEnd(cmd)) \cup Plumbed(cmd.right, ReadEnd(cmd), out)
    [] cmd.type = "LIST" -> Plumbed(cmd.left, in, out) \cup Plumbed(cmd.right, in, out)
    [] cmd.type = "BACK" -> Plumbed(cmd.cmd, in, out)

(* A program is started with the descriptors 0, 1 and 2 the line gives it  *)
(* and with no other (runcmd, sh.c:83-117).                                *)
ProgramsPlumbed ==
  \A p \in DOMAIN sh : sh[p].at = "prog" =>
    \E w \in Plumbed(tree, Console, Console) :
      w.argv = sh[p].cmd.argv /\ sh[p].fds = [d \in 0..2 |-> CASE d = 0 -> w.in [] d = 1 -> w.out [] d = 2 -> Console]

(* The processes never all wait for each other: as long as the shell waits *)
(* for the line, some process is not held up by a pipe or a child.  This   *)
(* is what closing the pipe's ends in the parent is for (sh.c:119).        *)
HeldUp(p) ==
  \/ sh[p].at = "zombie"
  \/ sh[p].at \in {"return", "listWait", "pipeWait1", "pipeWait2"} /\ \A c \in Children(p) : sh[c].at # "zombie"
  \/ sh[p].at = "prog" /\ 0 \in DOMAIN sh[p].fds /\ ~AtEof(sh[p].fds[0])
SomebodyGoesOn ==
  (\E p \in DOMAIN sh : sh[p].at # "done") => \E p \in DOMAIN sh : sh[p].at # "done" /\ ~HeldUp(p)

(* The second command of a list starts when the programs of the first that *)
(* are not in the background have ended, and main prompts again when those *)
(* of the line have (sh.c:97, sh.c:268) -- if no fork failed: a pipe       *)
(* command whose second fork fails exits without waiting for its first.    *)
RECURSIVE Foreground(_)
Foreground(cmd) ==
  CASE cmd.type = "EXEC" -> {cmd.argv}
    [] cmd.type = "REDIR" -> Foreground(cmd.cmd)
    [] cmd.type \in {"PIPE", "LIST"} -> Foreground(cmd.left) \cup Foreground(cmd.right)
    [] cmd.type = "BACK" -> {}
RECURSIVE Sequenced(_)
Sequenced(cmd) ==
  CASE cmd.type = "EXEC" -> {}
    [] cmd.type \in {"REDIR", "BACK"} -> Sequenced(cmd.cmd)
    [] cmd.type = "PIPE" -> Sequenced(cmd.left) \cup Sequenced(cmd.right)
    [] cmd.type = "LIST" -> (Foreground(cmd.left) \X {w.argv : w \in Plumbed(cmd.right, Console, Console)})
                            \cup Sequenced(cmd.left) \cup Sequenced(cmd.right)
Started == {p \in DOMAIN sh : sh[p].at = "prog"}
ListsInOrder ==
  ~forkFailed =>
    /\ \A p, q \in Started : <<sh[p].cmd.argv, sh[q].cmd.argv>> \notin Sequenced(tree)
    /\ ShPid \in DOMAIN sh /\ sh[ShPid].at = "done" => \A p \in Started : sh[p].cmd.argv \notin Foreground(tree)

(* A line runs as it is written: its programs have their descriptors,      *)
(* start in order, and never wait for each other in a circle.              *)
LineRunsAsWritten == ProgramsPlumbed /\ SomebodyGoesOn /\ ListsInOrder
=============================================================================
