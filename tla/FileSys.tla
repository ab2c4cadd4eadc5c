------------------------------- MODULE FileSys -------------------------------
(***************************************************************************)
(* The name space of the file system: the inode layer and the directories  *)
(* of fs.c, and the calls of sysfile.c that work on them, made by several  *)
(* processes at once.                                                      *)
(*                                                                         *)
(* Steps.  A critical section of icache.lock is one step.  What a process  *)
(* does to an inode between ilock and iunlock belongs to the step of the   *)
(* ilock, since nobody else may look at the inode meanwhile; iget, iunlock *)
(* and iput are steps wherever another process could come in between, and  *)
(* iput has three of them when it frees the inode.                         *)
(*                                                                         *)
(* Data.  Paths are sequences of names, a directory is a function from     *)
(* names to inode numbers, and of an inode the type and the link count are *)
(* kept.  dinode and dir are what a bread of their block returns.          *)
(***************************************************************************)
EXTENDS Integers, Sequences, FiniteSets, FiniteSetsExt

CONSTANTS
  Procs, Nobody,
  Names,             \* file names other than "." and ".."
  Calls,             \* the system calls each process may make, with their arguments
  ninodes,           \* sb.ninodes
  NINODE,            \* entries of the inode cache
  NFILE,             \* entries of the file table
  MaxLost            \* chmod, chown and chgrp calls that succeed

ASSUME FileSysAssumption ==
  /\ Nobody \notin Procs
  /\ ninodes \in Nat \ {0, 1} /\ NINODE \in Nat \ {0} /\ NFILE \in Nat /\ MaxLost \in Nat

ROOTINO == 1
Inums == 1..ninodes - 1
Slots == 1..NINODE

VARIABLES
  dinode,            \* inodes on disk
  dir,               \* contents of directories
  icache,            \* the inode cache
  open,              \* the inode each entry of ftable refers to, 0 when it is free
  fd, cwd,           \* per process: its open file, its current directory
  th,                \* per process: where it is in its system call
  lost,              \* references that nobody holds any more
  strays,            \* per inode: names that went with the directory they were in
  astray,            \* somebody has followed ".." out of a removed directory
  halted             \* why the kernel panicked

vars == <<dinode, dir, icache, open, fd, cwd, th, lost, strays, astray, halted>>

NoEntries == [n \in Names \cup {".."} |-> 0]
FreeInode == [type |-> "none", nlink |-> 0]
FreeSlot == [inum |-> 0, ref |-> 0, busy |-> Nobody, valid |-> FALSE, type |-> "none", nlink |-> 0]
Idle == [pc |-> "idle", call |-> [op |-> "none"], path |-> <<>>, parent |-> FALSE, ip |-> 0, dp |-> 0,
         old |-> 0, num |-> 0, puts |-> <<>>, then |-> "idle", fail |-> "idle"]
(* The disk that mkfs makes, with the root directory, where every process  *)
(* is.                                                                     *)
Init ==
  /\ dinode = [i \in Inums |-> IF i = ROOTINO THEN [type |-> "dir", nlink |-> 1] ELSE FreeInode]
  /\ dir = [i \in Inums |-> IF i = ROOTINO THEN [NoEntries EXCEPT ![".."] = ROOTINO] ELSE NoEntries]
  /\ icache = [s \in Slots |-> IF s = 1 THEN [FreeSlot EXCEPT !.inum = ROOTINO, !.ref = Cardinality(Procs)]
                               ELSE FreeSlot]
  /\ open = [f \in 1..NFILE |-> 0]
  /\ fd = [p \in Procs |-> 0]
  /\ cwd = [p \in Procs |-> 1]
  /\ th = [p \in Procs |-> Idle]
  /\ lost = [s \in Slots |-> 0]
  /\ strays = [i \in Inums |-> 0]
  /\ astray = FALSE
  /\ halted = "no"

-----------------------------------------------------------------------------
(* The inode cache.                                                        *)

Cached(ic, n) == {s \in Slots : ic[s].ref > 0 /\ ic[s].inum = n}
Empty(ic) == {s \in Slots : ic[s].ref = 0}

(* The entry iget(n) returns, 0 when it panics, and the cache after it.    *)
SlotOf(ic, n) == IF Cached(ic, n) # {} THEN Min(Cached(ic, n)) ELSE IF Empty(ic) # {} THEN Min(Empty(ic)) ELSE 0
Iget(ic, n) ==
  IF Cached(ic, n) # {} THEN [ic EXCEPT ![SlotOf(ic, n)].ref = @ + 1]
  ELSE IF Empty(ic) # {} THEN [ic EXCEPT ![SlotOf(ic, n)] = [FreeSlot EXCEPT !.inum = n, !.ref = 1]]
  ELSE ic
IgetPanic(ic, n) == IF SlotOf(ic, n) = 0 THEN "iget: no inodes" ELSE halted

(* The entry after ilock has read the inode, if it was not valid.          *)
Read(s) ==
  LET e == icache[s]
  IN IF e.valid THEN e
     ELSE [e EXCEPT !.valid = TRUE, !.type = dinode[e.inum].type, !.nlink = dinode[e.inum].nlink]
Ilock(s, p) == [icache EXCEPT ![s] = [Read(s) EXCEPT !.busy = p]]

(* The disk after iupdate of an entry.                                     *)
Iupdate(disk, e) == [disk EXCEPT ![e.inum] = [type |-> e.type, nlink |-> e.nlink]]

(* The inode a process is about to lock.                                   *)
Wants(p) ==
  LET t == th[p]
  IN IF t.pc = "undo" THEN t.old
     ELSE IF t.pc \in {"parent", "unlink2", "exists", "fill"} \/ (t.pc = "walk" /\ (t.path # <<>> \/ ~t.parent)) THEN t.ip
     ELSE 0

(* ilock: wait for the inode, and read it.                                 *)
Gets(p) == /\ halted = "no" /\ Wants(p) # 0
           /\ icache[Wants(p)].busy = Nobody
           /\ Read(Wants(p)).type # "none"

IlockPanic(p) ==
  /\ halted = "no" /\ Wants(p) # 0
  /\ icache[Wants(p)].busy = Nobody
  /\ Read(Wants(p)).type = "none"
  /\ halted' = "ilock: no type"
  /\ UNCHANGED <<dinode, dir, icache, open, fd, cwd, th, lost, strays, astray>>

Goto(t, label) == IF label = "idle" THEN Idle ELSE [t EXCEPT !.pc = label, !.puts = <<>>]
(* Let go of some inodes, unlocking those this process has locked, then go *)
(* on.                                                                     *)
Put(t, slots, then) == [t EXCEPT !.pc = "put", !.puts = slots, !.then = then]
At(p, pc) == halted = "no" /\ th[p].pc = pc

(* iunlock, the first half of iunlockput.                                  *)
Iunlock(p) ==
  LET s == Head(th[p].puts)
  IN /\ At(p, "put") /\ icache[s].busy = p
     /\ icache' = [icache EXCEPT ![s].busy = Nobody]
     /\ UNCHANGED <<dinode, dir, open, fd, cwd, th, lost, strays, astray, halted>>

Dropped(e) == IF e.ref = 1 THEN FreeSlot ELSE [e EXCEPT !.ref = @ - 1]
NextPut(t) == IF Len(t.puts) = 1 THEN Goto(t, t.then) ELSE [t EXCEPT !.pc = "put", !.puts = Tail(@)]

(* iput finds the last reference to an inode without links.                *)
(* Mutant: one reference too early.                                        *)
LastLinkEarly(s) == icache[s].ref <= 2 /\ icache[s].valid /\ icache[s].nlink = 0
LastLink(s) == icache[s].ref = 1 /\ icache[s].valid /\ icache[s].nlink = 0

Iput(p) ==
  LET s == Head(th[p].puts)
  IN /\ At(p, "put") /\ icache[s].busy # p /\ ~LastLink(s)
     /\ icache' = [icache EXCEPT ![s] = Dropped(@)]
     /\ th' = [th EXCEPT ![p] = NextPut(@)]
     /\ UNCHANGED <<dinode, dir, open, fd, cwd, lost, strays, astray, halted>>

IputLast(p) ==
  LET s == Head(th[p].puts)
  IN /\ At(p, "put") /\ icache[s].busy # p /\ LastLink(s)
     /\ icache' = [icache EXCEPT ![s].busy = p]
     /\ th' = [th EXCEPT ![p].pc = "trunc"]
     /\ halted' = IF icache[s].busy # Nobody THEN "iput busy" ELSE halted
     /\ UNCHANGED <<dinode, dir, open, fd, cwd, lost, strays, astray>>

(* itrunc and the iupdate that frees the inode, without icache.lock.       *)
Itrunc(p) ==
  LET s == Head(th[p].puts)
      i == icache[s].inum
  IN /\ At(p, "trunc")
     /\ dir' = [dir EXCEPT ![i] = NoEntries]
     /\ dinode' = [dinode EXCEPT ![i] = FreeInode]
     /\ icache' = [icache EXCEPT ![s].type = "none"]
     /\ th' = [th EXCEPT ![p].pc = "unbusy"]
     /\ strays' = [j \in Inums |-> strays[j] + Cardinality({n \in Names : dir[i][n] = j})]
     /\ UNCHANGED <<open, fd, cwd, lost, astray, halted>>

(* The entry loses its flags: whoever has taken a reference to the number  *)
(* meanwhile will read the inode from disk.                                *)
(* Mutant: the entry stays valid.                                          *)
IputDoneUnbusy(p) ==
  LET s == Head(th[p].puts)
  IN /\ At(p, "unbusy")
     /\ icache' = [icache EXCEPT ![s] = Dropped([@ EXCEPT !.busy = Nobody])]
     /\ th' = [th EXCEPT ![p] = NextPut(@)]
     /\ UNCHANGED <<dinode, dir, open, fd, cwd, lost, strays, astray, halted>>
IputDone(p) ==
  LET s == Head(th[p].puts)
  IN /\ At(p, "unbusy")
     /\ icache' = [icache EXCEPT ![s] = Dropped([@ EXCEPT !.busy = Nobody, !.valid = FALSE, !.type = "none", !.nlink = 0])]
     /\ th' = [th EXCEPT ![p] = NextPut(@)]
     /\ UNCHANGED <<dinode, dir, open, fd, cwd, lost, strays, astray, halted>>

-----------------------------------------------------------------------------
(* Path names.                                                             *)

(* A process enters a system call; begin_op comes first.                   *)
Begin(p, c) ==
  /\ At(p, "idle")
  /\ c.op \in {"open", "create"} => fd[p] = 0
  /\ c.op = "chmod" => \A s \in Slots : lost[s] < MaxLost
  /\ th' = [th EXCEPT ![p] = [Idle EXCEPT !.pc = "start", !.call = c, !.path = c.path,
                                         !.parent = c.op \in {"create", "mkdir", "mknod", "unlink"}]]
  /\ UNCHANGED <<dinode, dir, icache, open, fd, cwd, lost, strays, astray, halted>>

(* namex starts at the root or at the current directory.  link calls it a  *)
(* second time, for the new name.                                          *)
Namex(p) ==
  LET t == th[p]
      second == t.pc = "start2"
      abs == IF second THEN t.call.abs2 ELSE t.call.abs
      from == [t EXCEPT !.pc = "walk", !.ip = IF abs THEN SlotOf(icache, ROOTINO) ELSE cwd[p]]
  IN /\ At(p, "start") \/ At(p, "start2")
     /\ icache' = IF abs THEN Iget(icache, ROOTINO) ELSE [icache EXCEPT ![cwd[p]].ref = @ + 1]
     /\ halted' = IF abs THEN IgetPanic(icache, ROOTINO) ELSE halted
     /\ th' = [th EXCEPT ![p] = IF ~second THEN from
                               ELSE [from EXCEPT !.old = t.ip, !.path = t.call.path2, !.parent = TRUE, !.fail = "undo"]]
     /\ UNCHANGED <<dinode, dir, open, fd, cwd, lost, strays, astray>>

Lookup(i, n) == IF n = "." THEN i ELSE dir[i][n]

(* One turn of namex's loop: lock the directory, look the name up.         *)
Walk(p) ==
  LET t == th[p]
      e == Read(t.ip)
      ic == Ilock(t.ip, p)
      n == Head(t.path)
      next == IF e.type = "dir" THEN Lookup(e.inum, n) ELSE 0
      stop == e.type = "dir" /\ t.parent /\ Len(t.path) = 1
  IN /\ At(p, "walk") /\ t.path # <<>> /\ Gets(p)
     /\ IF stop
        THEN /\ icache' = [icache EXCEPT ![t.ip] = e]
             /\ th' = [th EXCEPT ![p].pc = "parent"]
             /\ UNCHANGED halted
        ELSE /\ icache' = IF next = 0 THEN ic ELSE Iget(ic, next)
             /\ th' = [th EXCEPT ![p] = IF next = 0 THEN Put(t, <<t.ip>>, t.fail)
                                       ELSE Put([t EXCEPT !.ip = SlotOf(ic, next), !.path = Tail(@)], <<t.ip>>, "walk")]
             /\ halted' = IF next = 0 THEN halted ELSE IgetPanic(ic, next)
     /\ astray' = (astray \/ (n = ".." /\ e.nlink = 0))
     /\ UNCHANGED <<dinode, dir, open, fd, cwd, lost, strays>>

(* The root has no parent.                                                 *)
NoParent(p) ==
  LET t == th[p]
  IN /\ At(p, "walk") /\ t.path = <<>> /\ t.parent
     /\ th' = [th EXCEPT ![p] = Put(t, <<t.ip>>, t.fail)]
     /\ UNCHANGED <<dinode, dir, icache, open, fd, cwd, lost, strays, astray, halted>>

(* namei has found the inode, and the call locks it.                       *)
Found(p, ops) == /\ At(p, "walk") /\ th[p].path = <<>> /\ ~th[p].parent
                 /\ th[p].call.op \in ops /\ Gets(p)
(* nameiparent has found the directory, and the call locks it.             *)
FoundParent(p, ops) == At(p, "parent") /\ th[p].call.op \in ops /\ Gets(p)
LastName(p) == Head(th[p].path)

-----------------------------------------------------------------------------
(* Calls on an existing file.                                              *)

(* sys_open without O_CREATE: a directory can only be read.                *)
Open(p) ==
  LET t == th[p]
  IN /\ Found(p, {"open"})
     /\ icache' = Ilock(t.ip, p)
     /\ th' = [th EXCEPT ![p] = IF Read(t.ip).type = "dir" /\ ~t.call.rdonly THEN Put(t, <<t.ip>>, "idle")
                               ELSE [t EXCEPT !.pc = "fd"]]
     /\ UNCHANGED <<dinode, dir, open, fd, cwd, lost, strays, astray, halted>>

(* The end of sys_open: the file table may be full.                        *)
OpenFd(p) ==
  LET t == th[p]
      free == {f \in 1..NFILE : open[f] = 0}
  IN /\ At(p, "fd")
     /\ IF free = {}
        THEN th' = [th EXCEPT ![p] = Put(t, <<t.ip>>, "idle")] /\ UNCHANGED <<open, fd, icache>>
        ELSE /\ open' = [open EXCEPT ![Min(free)] = t.ip]
             /\ fd' = [fd EXCEPT ![p] = Min(free)]
             /\ icache' = [icache EXCEPT ![t.ip].busy = Nobody]
             /\ th' = [th EXCEPT ![p] = Idle]
     /\ UNCHANGED <<dinode, dir, cwd, lost, strays, astray, halted>>

(* sys_close of the last reference.                                        *)
Close(p) ==
  /\ At(p, "idle") /\ fd[p] # 0
  /\ open' = [open EXCEPT ![fd[p]] = 0]
  /\ fd' = [fd EXCEPT ![p] = 0]
  /\ th' = [th EXCEPT ![p] = Put([Idle EXCEPT !.call = [op |-> "close"]], <<open[fd[p]]>>, "idle")]
  /\ UNCHANGED <<dinode, dir, icache, cwd, lost, strays, astray, halted>>

(* sys_chdir lets the old directory go before it takes the new one.        *)
Chdir(p) ==
  LET t == th[p]
      isdir == Read(t.ip).type = "dir"
  IN /\ Found(p, {"chdir"})
     /\ icache' = IF isdir THEN [icache EXCEPT ![t.ip] = Read(t.ip)] ELSE Ilock(t.ip, p)
     /\ th' = [th EXCEPT ![p] = IF isdir THEN Put(t, <<cwd[p]>>, "cwd") ELSE Put(t, <<t.ip>>, "idle")]
     /\ UNCHANGED <<dinode, dir, open, fd, cwd, lost, strays, astray, halted>>
SetCwd(p) ==
  /\ At(p, "cwd")
  /\ cwd' = [cwd EXCEPT ![p] = th[p].ip]
  /\ th' = [th EXCEPT ![p] = Idle]
  /\ UNCHANGED <<dinode, dir, icache, open, fd, lost, strays, astray, halted>>

(* exec reads the program file; what becomes of it is in Memory.           *)
Exec(p) ==
  LET t == th[p]
  IN /\ Found(p, {"exec"})
     /\ icache' = Ilock(t.ip, p)
     /\ th' = [th EXCEPT ![p] = Put(t, <<t.ip>>, "idle")]
     /\ UNCHANGED <<dinode, dir, open, fd, cwd, lost, strays, astray, halted>>

(* chmod, chown and chgrp change the inode, write it back and unlock it.   *)
(* They never call iput.                                                   *)
Chmod(p) ==
  LET t == th[p]
  IN /\ Found(p, {"chmod"})
     /\ icache' = [icache EXCEPT ![t.ip] = Read(t.ip)]
     /\ dinode' = Iupdate(dinode, Read(t.ip))
     /\ lost' = [lost EXCEPT ![t.ip] = @ + 1]
     /\ th' = [th EXCEPT ![p] = Idle]
     /\ UNCHANGED <<dir, open, fd, cwd, strays, astray, halted>>

-----------------------------------------------------------------------------
(* link: the count goes up first, and down again if the name cannot be     *)
(* made.                                                                   *)

(* Mutant: the inode stays locked while the second path is walked.         *)
LinkHolds(p) ==
  LET t == th[p]
      e == Read(t.ip)
      up == [e EXCEPT !.nlink = @ + 1, !.busy = p]
  IN /\ Found(p, {"link"}) /\ e.type # "dir"
     /\ icache' = [icache EXCEPT ![t.ip] = up]
     /\ dinode' = Iupdate(dinode, up)
     /\ th' = [th EXCEPT ![p].pc = "start2"]
     /\ UNCHANGED <<dir, open, fd, cwd, lost, strays, astray, halted>>
Link(p) ==
  LET t == th[p]
      e == Read(t.ip)
      up == [e EXCEPT !.nlink = @ + 1]
  IN /\ Found(p, {"link"})
     /\ IF e.type = "dir"
        THEN icache' = Ilock(t.ip, p) /\ th' = [th EXCEPT ![p] = Put(t, <<t.ip>>, "idle")] /\ UNCHANGED dinode
        ELSE /\ icache' = [icache EXCEPT ![t.ip] = up]
             /\ dinode' = Iupdate(dinode, up)
             /\ th' = [th EXCEPT ![p].pc = "start2"]
     /\ UNCHANGED <<dir, open, fd, cwd, lost, strays, astray, halted>>

(* Mutant: the inode found under the new name is not let go.               *)
LinkNameLeaks(p) ==
  LET t == th[p]
      d == icache[t.ip].inum
      there == Lookup(d, LastName(p))
      ic == Ilock(t.ip, p)
  IN /\ FoundParent(p, {"link"})
     /\ icache' = IF there # 0 THEN Iget(ic, there) ELSE ic
     /\ dir' = IF there # 0 THEN dir ELSE [dir EXCEPT ![d][LastName(p)] = icache[t.old].inum]
     /\ th' = [th EXCEPT ![p] = IF there # 0 THEN Put(t, <<t.ip>>, "undo") ELSE Put(t, <<t.ip, t.old>>, "idle")]
     /\ UNCHANGED <<dinode, open, fd, cwd, lost, strays, astray, halted>>
LinkName(p) ==
  LET t == th[p]
      d == icache[t.ip].inum
      n == LastName(p)
      there == Lookup(d, n)
      ic == Ilock(t.ip, p)
  IN /\ FoundParent(p, {"link"})
     /\ IF there # 0
        THEN /\ icache' = Iget(ic, there)
             /\ halted' = IgetPanic(ic, there)
             /\ th' = [th EXCEPT ![p] = Put(t, <<SlotOf(ic, there), t.ip>>, "undo")]
             /\ UNCHANGED dir
        ELSE /\ icache' = ic
             /\ dir' = [dir EXCEPT ![d][n] = icache[t.old].inum]
             /\ th' = [th EXCEPT ![p] = Put(t, <<t.ip, t.old>>, "idle")]
             /\ UNCHANGED halted
     /\ UNCHANGED <<dinode, open, fd, cwd, lost, strays, astray>>

(* Mutant: the count stays up.                                             *)
LinkKept(p) ==
  /\ At(p, "undo") /\ Gets(p)
  /\ icache' = Ilock(th[p].old, p)
  /\ th' = [th EXCEPT ![p] = Put(@, <<th[p].old>>, "idle")]
  /\ UNCHANGED <<dinode, dir, open, fd, cwd, lost, strays, astray, halted>>
LinkUndo(p) ==
  LET t == th[p]
      down == [Read(t.old) EXCEPT !.nlink = @ - 1, !.busy = p]
  IN /\ At(p, "undo") /\ Gets(p)
     /\ icache' = [icache EXCEPT ![t.old] = down]
     /\ dinode' = Iupdate(dinode, down)
     /\ th' = [th EXCEPT ![p] = Put(t, <<t.old>>, "idle")]
     /\ UNCHANGED <<dir, open, fd, cwd, lost, strays, astray, halted>>

-----------------------------------------------------------------------------
(* unlink holds the directory while it locks the file.                     *)

Unlink(p) ==
  LET t == th[p]
      n == LastName(p)
      there == IF n \in {".", ".."} THEN 0 ELSE Lookup(icache[t.ip].inum, n)
      ic == Ilock(t.ip, p)
  IN /\ FoundParent(p, {"unlink"})
     /\ icache' = IF there = 0 THEN ic ELSE Iget(ic, there)
     /\ halted' = IF there = 0 THEN halted ELSE IgetPanic(ic, there)
     /\ th' = [th EXCEPT ![p] = IF there = 0 THEN Put(t, <<t.ip>>, "idle")
                               ELSE [t EXCEPT !.pc = "unlink2", !.dp = t.ip, !.ip = SlotOf(ic, there)]]
     /\ UNCHANGED <<dinode, dir, open, fd, cwd, lost, strays, astray>>

isdirempty(i) == \A n \in Names : dir[i][n] = 0

UnlinkName(p) ==
  LET t == th[p]
      e == Read(t.ip)
      ic == Ilock(t.ip, p)
      d == icache[t.dp]
      down == [d EXCEPT !.nlink = IF e.type = "dir" THEN @ - 1 ELSE @]
  IN /\ At(p, "unlink2") /\ Gets(p)
     /\ halted' = IF e.nlink < 1 THEN "unlink: nlink < 1" ELSE halted
     /\ IF e.type = "dir" /\ ~isdirempty(e.inum)
        THEN /\ icache' = ic
             /\ th' = [th EXCEPT ![p] = Put(t, <<t.ip, t.dp>>, "idle")]
             /\ UNCHANGED <<dinode, dir>>
        ELSE /\ dir' = [dir EXCEPT ![d.inum][LastName(p)] = 0]
             /\ dinode' = Iupdate(dinode, down)
             /\ icache' = [ic EXCEPT ![t.dp] = down]
             /\ th' = [th EXCEPT ![p] = Put(t, <<t.dp>>, "unlink3")]
     /\ UNCHANGED <<open, fd, cwd, lost, strays, astray>>

UnlinkDone(p) ==
  LET t == th[p]
      down == [icache[t.ip] EXCEPT !.nlink = @ - 1]
  IN /\ At(p, "unlink3")
     /\ icache' = [icache EXCEPT ![t.ip] = down]
     /\ dinode' = Iupdate(dinode, down)
     /\ th' = [th EXCEPT ![p] = Put(t, <<t.ip>>, "idle")]
     /\ UNCHANGED <<dir, open, fd, cwd, lost, strays, astray, halted>>

-----------------------------------------------------------------------------
(* create, for sys_open with O_CREATE, sys_mkdir and sys_mknod.            *)

Creates == {"create", "mkdir", "mknod"}
NewType(op) == CASE op = "create" -> "file" [] op = "mkdir" -> "dir" [] op = "mknod" -> "dev"

Create(p) ==
  LET t == th[p]
      there == Lookup(icache[t.ip].inum, LastName(p))
      ic == Ilock(t.ip, p)
  IN /\ FoundParent(p, Creates)
     /\ icache' = IF there = 0 THEN ic ELSE Iget(ic, there)
     /\ halted' = IF there = 0 THEN halted ELSE IgetPanic(ic, there)
     /\ th' = [th EXCEPT ![p] = IF there = 0 THEN [t EXCEPT !.pc = "ialloc", !.dp = t.ip, !.ip = 0]
                               ELSE Put([t EXCEPT !.ip = SlotOf(ic, there)], <<t.ip>>, "exists")]
     /\ UNCHANGED <<dinode, dir, open, fd, cwd, lost, strays, astray>>

(* The name exists: only a file may be opened again.                       *)
CreateExists(p) ==
  LET t == th[p]
  IN /\ At(p, "exists") /\ Gets(p)
     /\ icache' = Ilock(t.ip, p)
     /\ th' = [th EXCEPT ![p] = IF t.call.op = "create" /\ Read(t.ip).type = "file" THEN [t EXCEPT !.pc = "fd"]
                               ELSE Put(t, <<t.ip>>, "idle")]
     /\ UNCHANGED <<dinode, dir, open, fd, cwd, lost, strays, astray, halted>>

(* ialloc marks a free inode on disk, then calls iget.  It looks at one    *)
(* inode after the other, so it need not find the lowest free one.         *)
Ialloc(p) ==
  LET t == th[p]
      free == {i \in Inums : dinode[i].type = "none"}
  IN /\ At(p, "ialloc")
     /\ IF free = {}
        THEN halted' = "ialloc: no inodes" /\ UNCHANGED <<dinode, th>>
        ELSE \E i \in free : /\ dinode' = [dinode EXCEPT ![i] = [type |-> NewType(t.call.op), nlink |-> 0]]
                             /\ th' = [th EXCEPT ![p] = [t EXCEPT !.pc = "iget", !.num = i]]
                             /\ UNCHANGED halted
     /\ UNCHANGED <<dir, icache, open, fd, cwd, lost, strays, astray>>

IallocGet(p) ==
  LET t == th[p]
  IN /\ At(p, "iget")
     /\ icache' = Iget(icache, t.num)
     /\ halted' = IgetPanic(icache, t.num)
     /\ th' = [th EXCEPT ![p] = [t EXCEPT !.pc = "fill", !.ip = SlotOf(icache, t.num)]]
     /\ UNCHANGED <<dinode, dir, open, fd, cwd, lost, strays, astray>>

(* The rest of create; sys_open keeps the inode locked, the others let go. *)
CreateFill(p) ==
  LET t == th[p]
      isdir == t.call.op = "mkdir"
      new == [Read(t.ip) EXCEPT !.nlink = 1, !.busy = p]
      d == icache[t.dp]
      up == [d EXCEPT !.nlink = IF isdir THEN @ + 1 ELSE @]
  IN /\ At(p, "fill") /\ Gets(p)
     /\ icache' = [icache EXCEPT ![t.ip] = new, ![t.dp] = up]
     /\ dinode' = Iupdate(Iupdate(dinode, new), up)
     /\ dir' = [dir EXCEPT ![d.inum][LastName(p)] = new.inum,
                           ![new.inum] = IF isdir THEN [NoEntries EXCEPT ![".."] = d.inum] ELSE @]
     /\ th' = [th EXCEPT ![p] = IF t.call.op = "create" THEN Put(t, <<t.dp>>, "fd") ELSE Put(t, <<t.dp, t.ip>>, "idle")]
     /\ UNCHANGED <<open, fd, cwd, lost, strays, astray, halted>>

-----------------------------------------------------------------------------
Halted == halted # "no" /\ UNCHANGED vars

Step(p) ==
  \/ \E c \in Calls[p] : Begin(p, c)
  \/ Namex(p) \/ Walk(p) \/ NoParent(p)
  \/ Open(p) \/ OpenFd(p) \/ Close(p) \/ Chdir(p) \/ SetCwd(p) \/ Exec(p) \/ Chmod(p)
  \/ Link(p) \/ LinkName(p) \/ LinkUndo(p)
  \/ Unlink(p) \/ UnlinkName(p) \/ UnlinkDone(p)
  \/ Create(p) \/ CreateExists(p) \/ Ialloc(p) \/ IallocGet(p) \/ CreateFill(p)
  \/ Iunlock(p) \/ Iput(p) \/ IputLast(p) \/ Itrunc(p) \/ IputDone(p)
  \/ IlockPanic(p)

Next == (\E p \in Procs : Step(p)) \/ Halted

Spec == Init /\ [][Next]_vars

-----------------------------------------------------------------------------
(* Properties.                                                             *)

(* The next thing a process does once it has let its inodes go.            *)
Label(t) == IF t.pc \in {"put", "trunc", "unbusy"} THEN t.then ELSE t.pc

(* References held in the local variables of a call: ip, dp, the first     *)
(* inode of link, and the inodes waiting for their iput.                   *)
Locals(t, s) ==
  LET l == Label(t)
  IN Cardinality({k \in DOMAIN t.puts : t.puts[k] = s})
     + (IF t.ip = s /\ l \in {"walk", "parent", "fd", "cwd", "start2", "unlink2", "unlink3", "exists", "fill"} THEN 1 ELSE 0)
     + (IF t.dp = s /\ l \in {"unlink2", "ialloc", "iget", "fill"} THEN 1 ELSE 0)
     + (IF t.old = s /\ (l = "undo" \/ (t.fail = "undo" /\ l \in {"walk", "parent"})) THEN 1 ELSE 0)

(* The reference count of a cached inode is the number of open files,      *)
(* current directories and local variables that point to it, and of the    *)
(* calls of chmod, chown and chgrp on it that succeeded: these three leave *)
(* a reference behind for good (fs.c:670), and nothing else does.          *)
RefsAccounted ==
  \A s \in Slots :
    icache[s].ref = Cardinality({f \in 1..NFILE : open[f] = s})
                    + Cardinality({p \in Procs : cwd[p] = s /\ Label(th[p]) # "cwd"})
                    + MapThenSumSet(LAMBDA p : Locals(th[p], s), Procs)
                    + lost[s]

(* An inode is cached once, so that two processes cannot lock two copies   *)
(* of it.  A valid copy nobody has locked agrees with the inode on disk,   *)
(* and that inode is allocated: an inode freed by iput and taken by ialloc *)
(* at once is read again by those who got a reference in between.          *)
OneCopy == \A s, r \in Slots : icache[s].ref > 0 /\ icache[r].ref > 0 /\ icache[s].inum = icache[r].inum => s = r
CacheCoherent ==
  /\ OneCopy
  /\ \A s \in Slots : icache[s].valid /\ icache[s].busy = Nobody
       => /\ icache[s].type # "none"
          /\ dinode[icache[s].inum] = [type |-> icache[s].type, nlink |-> icache[s].nlink]

Dirs == {i \in Inums : dinode[i].type = "dir"}
Entries(i) == {<<d, n>> \in Dirs \X Names : dir[d][n] = i}
LinkingTo(p, i) ==
  \/ Label(th[p]) = "start2" /\ icache[th[p].ip].inum = i
  \/ Label(th[p]) = "undo" /\ icache[th[p].old].inum = i
  \/ th[p].fail = "undo" /\ Label(th[p]) \in {"walk", "parent"} /\ icache[th[p].old].inum = i
UnlinkingFrom(p, i) == Label(th[p]) = "unlink3" /\ icache[th[p].ip].inum = i

(* The link count of an inode is the number of names it has in             *)
(* directories, plus one for each directory in it that has a name, plus    *)
(* one for each link or unlink caught between its two halves, plus the     *)
(* names that were created in a directory already removed and went with    *)
(* it.                                                                     *)
LinkCount(i) ==
  Cardinality(Entries(i))
  + Cardinality({c \in Dirs : c # i /\ dir[c][".."] = i /\ Entries(c) # {}})
  + Cardinality({p \in Procs : LinkingTo(p, i) \/ UnlinkingFrom(p, i)})
  + strays[i] + (IF i = ROOTINO THEN 1 ELSE 0)

(* An inode without links is freed with its last reference: until then     *)
(* somebody holds a reference to a valid copy of it, or has just allocated *)
(* it.                                                                     *)
Held(i) ==
  \/ \E s \in Slots : icache[s].inum = i /\ icache[s].ref > 0 /\ icache[s].valid
  \/ \E p \in Procs : th[p].pc \in {"iget", "fill"} /\ th[p].num = i

(* Link counts are exact at every step of link, unlink and create, no name *)
(* leads to a free inode, and no inode stays allocated that has neither a  *)
(* link nor a holder.                                                      *)
LinksCounted ==
  /\ \A d \in Dirs : \A n \in Names : dir[d][n] # 0 => dinode[dir[d][n]].type # "none"
  /\ halted = "no" => \A i \in Inums : dinode[i].type # "none" =>
       dinode[i].nlink = LinkCount(i) /\ (dinode[i].nlink = 0 => Held(i))

(* No set of processes waits for the inode locks of one another: a lock is *)
(* only waited for by who holds none, or the lock of its parent directory. *)
NoWaitCycle ==
  \A S \in SUBSET Procs \ {{}} :
    \E p \in S : Wants(p) = 0 \/ icache[Wants(p)].busy \notin S

(* The kernel panics for want of an inode, on disk or in the cache.  The   *)
(* other panics of the inode layer cannot happen, but for one: ".." of a   *)
(* removed directory may be the number of a freed inode (ilock: no type).  *)
PanicsAccounted ==
  \/ halted \in {"no", "ialloc: no inodes", "iget: no inodes"}
  \/ halted = "ilock: no type" /\ astray

=============================================================================
