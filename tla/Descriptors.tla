---------------------------- MODULE Descriptors ----------------------------
(***************************************************************************)
(* Descriptors and open files: the file table (file.c), the descriptors of *)
(* each process, dup, close, pipe and the tail of open (sysfile.c),        *)
(* pipealloc with its failures (pipe.c), fork and exit (proc.c).           *)
(*                                                                         *)
(* Steps.  Each critical section of ftable.lock is a step.  fileclose      *)
(* releases the lock before it closes the pipe end or puts the inode: the  *)
(* entry may be in use again by then.                                      *)
(***************************************************************************)
EXTENDS Integers, Sequences, FiniteSets, FiniteSetsExt

CONSTANTS
  Users,             \* processes
  FirstUser,
  NFILE_, NOFILE,    \* entries of the file table, descriptors of a process
  PipePages          \* the pages kalloc has for pipes

ASSUME DescriptorsAssumption ==
  FirstUser \in Users /\ NFILE_ \in Nat \ {0} /\ NOFILE \in Nat \ {0}

VARIABLES
  ftab,              \* ftable.file
  ofile,             \* per process: descriptors; 0 where there is none
  ends,              \* per page: readopen and writeopen
  inodeRefs,         \* references that open files hold to inodes
  call,              \* per process: where it is in pipe, close or exit
  lives              \* the processes there are

ftVars == <<ftab, ofile, ends, inodeRefs, call, lives>>

FileIds == 1..NFILE_
Fds == 0..NOFILE - 1
NoneOpen == [ref |-> 0, type |-> "none", pipe |-> 0, writable |-> FALSE]
Idle == [pc |-> "none", rf |-> 0, wf |-> 0, close |-> <<>>, ff |-> NoneOpen]
NoFds == [fd \in Fds |-> 0]

FtInit ==
  /\ ftab = [f \in FileIds |-> NoneOpen]
  /\ ofile = [p \in Users |-> NoFds]
  /\ ends = [k \in PipePages |-> [r |-> FALSE, w |-> FALSE]]
  /\ inodeRefs = 0
  /\ call = [p \in Users |-> Idle] /\ lives = {FirstUser}

FtReady(p) == p \in lives /\ call[p].pc = "none"
FtAt(p, pc) == call[p].pc = pc

-----------------------------------------------------------------------------
(* The first entry and the first descriptor that are free.                 *)
FileFree == {f \in FileIds : ftab[f].ref = 0}
filealloc == Min(FileFree)
FdFree(p) == {fd \in Fds : ofile[p][fd] = 0}
fdalloc(p) == Min(FdFree(p))

(* open(): ip has been found; the file takes over its reference.  Without  *)
(* a descriptor the entry is given back, without either so is ip.          *)
FtOpen(p) ==
  /\ FtReady(p) /\ FileFree # {}
  /\ IF FdFree(p) = {} THEN ftab' = [ftab EXCEPT ![filealloc] = NoneOpen] /\ UNCHANGED <<ofile, inodeRefs>>
     ELSE /\ ftab' = [ftab EXCEPT ![filealloc] = [NoneOpen EXCEPT !.ref = 1, !.type = "inode"]]
          /\ ofile' = [ofile EXCEPT ![p][fdalloc(p)] = filealloc]
          /\ inodeRefs' = inodeRefs + 1
  /\ UNCHANGED <<ends, call, lives>>

filedup(f) == [ftab EXCEPT ![f].ref = @ + 1]
sys_dup(p, fd) ==
  /\ FtReady(p) /\ ofile[p][fd] # 0 /\ FdFree(p) # {}
  /\ ofile' = [ofile EXCEPT ![p][fdalloc(p)] = ofile[p][fd]]
  /\ ftab' = filedup(ofile[p][fd])
  /\ UNCHANGED <<ends, inodeRefs, call, lives>>

(* The files in fs are closed one after the other.                         *)
Closing(p, fs) == call' = [call EXCEPT ![p] = [Idle EXCEPT !.pc = IF fs = <<>> THEN "none" ELSE "close", !.close = fs]]

sys_close(p, fd) ==
  /\ FtReady(p) /\ ofile[p][fd] # 0
  /\ ofile' = [ofile EXCEPT ![p][fd] = 0]
  /\ Closing(p, <<ofile[p][fd]>>)
  /\ UNCHANGED <<ftab, ends, inodeRefs, lives>>

(* fileclose under the lock, and what it does for the last reference after *)
(* it, with the copy ff.                                                   *)
fileclose(p) ==
  LET f == Head(call[p].close)
      rest == Tail(call[p].close)
      last == ftab[f].ref = 1 /\ ftab[f].type # "none"
  IN /\ FtAt(p, "close")
     /\ ftab' = [ftab EXCEPT ![f] = IF @.ref > 1 THEN [@ EXCEPT !.ref = @ - 1] ELSE NoneOpen]
     /\ IF last THEN call' = [call EXCEPT ![p].pc = "put", ![p].close = rest, ![p].ff = ftab[f]]
        ELSE Closing(p, rest)
     /\ UNCHANGED <<ofile, ends, inodeRefs, lives>>
filePut(p) ==
  LET ff == call[p].ff
  IN /\ FtAt(p, "put")
     /\ ends' = IF ff.type # "pipe" THEN ends
                ELSE IF ff.writable THEN [ends EXCEPT ![ff.pipe].w = FALSE] ELSE [ends EXCEPT ![ff.pipe].r = FALSE]
     /\ inodeRefs' = IF ff.type = "inode" THEN inodeRefs - 1 ELSE inodeRefs
     /\ Closing(p, call[p].close)
     /\ UNCHANGED <<ftab, ofile, lives>>

-----------------------------------------------------------------------------
(* pipe().                                                                 *)

PipeRf(p) ==
  /\ FtReady(p) /\ FileFree # {}
  /\ ftab' = [ftab EXCEPT ![filealloc].ref = 1]
  /\ call' = [call EXCEPT ![p].pc = "wf", ![p].rf = filealloc]
  /\ UNCHANGED <<ofile, ends, inodeRefs, lives>>
PipeWf(p) ==
  /\ FtAt(p, "wf")
  /\ IF FileFree = {} THEN Closing(p, <<call[p].rf>>) /\ UNCHANGED ftab
     ELSE /\ ftab' = [ftab EXCEPT ![filealloc].ref = 1]
          /\ call' = [call EXCEPT ![p].pc = "page", ![p].wf = filealloc]
  /\ UNCHANGED <<ofile, ends, inodeRefs, lives>>
(* A page is free again once both ends are closed.                         *)
PipePage(p) ==
  LET k == {j \in PipePages : ~ends[j].r /\ ~ends[j].w}
      end(w) == [NoneOpen EXCEPT !.ref = 1, !.type = "pipe", !.pipe = Min(k), !.writable = w]
  IN /\ FtAt(p, "page")
     /\ IF k = {} THEN Closing(p, <<call[p].rf, call[p].wf>>) /\ UNCHANGED <<ftab, ends>>
        ELSE /\ ends' = [ends EXCEPT ![Min(k)] = [r |-> TRUE, w |-> TRUE]]
             /\ ftab' = [ftab EXCEPT ![call[p].rf] = end(FALSE), ![call[p].wf] = end(TRUE)]
             /\ call' = [call EXCEPT ![p].pc = "fds"]
     /\ UNCHANGED <<ofile, inodeRefs, lives>>
(* Mutant: the first descriptor is not taken back.                         *)
PipeFdsKeeps(p) ==
  LET fd0 == fdalloc(p)
      fd1 == Min(FdFree(p) \ {fd0})
      n == Cardinality(FdFree(p))
  IN /\ FtAt(p, "fds")
     /\ IF n < 2
        THEN Closing(p, <<call[p].rf, call[p].wf>>)
             /\ ofile' = IF n = 1 THEN [ofile EXCEPT ![p][fd0] = call[p].rf] ELSE ofile
        ELSE /\ ofile' = [ofile EXCEPT ![p][fd0] = call[p].rf, ![p][fd1] = call[p].wf]
             /\ call' = [call EXCEPT ![p] = Idle]
     /\ UNCHANGED <<ftab, ends, inodeRefs, lives>>
PipeFds(p) ==
  LET fd0 == fdalloc(p)
      fd1 == Min(FdFree(p) \ {fd0})
  IN /\ FtAt(p, "fds")
     /\ IF Cardinality(FdFree(p)) < 2 THEN Closing(p, <<call[p].rf, call[p].wf>>) /\ UNCHANGED ofile
        ELSE /\ ofile' = [ofile EXCEPT ![p][fd0] = call[p].rf, ![p][fd1] = call[p].wf]
             /\ call' = [call EXCEPT ![p] = Idle]
     /\ UNCHANGED <<ftab, ends, inodeRefs, lives>>

-----------------------------------------------------------------------------
(* fork() gives the child every descriptor; exit() closes them all.        *)

FtFork(p, q) ==
  /\ FtReady(p) /\ q \notin lives /\ call[q].pc = "none"
  /\ ofile' = [ofile EXCEPT ![q] = ofile[p]]
  /\ ftab' = [f \in FileIds |-> [ftab[f] EXCEPT !.ref = @ + Cardinality({fd \in Fds : ofile[p][fd] = f})]]
  /\ lives' = lives \cup {q}
  /\ UNCHANGED <<ends, inodeRefs, call>>

FtExit(p) ==
  /\ FtReady(p) /\ p # FirstUser
  /\ Closing(p, SelectSeq([i \in 1..NOFILE |-> ofile[p][i - 1]], LAMBDA f : f # 0))
  /\ ofile' = [ofile EXCEPT ![p] = NoFds]
  /\ lives' = lives \ {p}
  /\ UNCHANGED <<ftab, ends, inodeRefs>>

FtNext ==
  \E p \in Users :
    \/ FtOpen(p) \/ PipeRf(p) \/ PipeWf(p) \/ PipePage(p) \/ PipeFds(p)
    \/ fileclose(p) \/ filePut(p)
    \/ \E fd \in Fds : sys_dup(p, fd) \/ sys_close(p, fd)
    \/ \E q \in Users : FtFork(p, q)
    \/ FtExit(p)

FtSpec == FtInit /\ [][FtNext]_ftVars

-----------------------------------------------------------------------------
(* Properties.                                                             *)
(* How often p holds entry f: by descriptors and by a call in progress.    *)
Holds(p, f) ==
  Cardinality({fd \in Fds : ofile[p][fd] = f})
  + Cardinality({i \in DOMAIN call[p].close : call[p].close[i] = f})
  + (IF FtAt(p, "wf") /\ call[p].rf = f THEN 1 ELSE 0)
  + (IF call[p].pc \in {"page", "fds"} /\ f \in {call[p].rf, call[p].wf} THEN 1 ELSE 0)

(* The end of a pipe is open exactly while an open file, or a fileclose in *)
(* progress, stands for it, so that readers and writers learn of the last  *)
(* close; an inode is put exactly once per file.                           *)
Stands(p) == FtAt(p, "put")
LastCloseReleases ==
  /\ \A k \in PipePages, w \in BOOLEAN :
       (IF w THEN ends[k].w ELSE ends[k].r)
       <=> \/ \E f \in FileIds : ftab[f].ref > 0 /\ ftab[f].type = "pipe" /\ ftab[f].pipe = k /\ ftab[f].writable = w
           \/ \E p \in Users : Stands(p) /\ call[p].ff.type = "pipe" /\ call[p].ff.pipe = k /\ call[p].ff.writable = w
  /\ inodeRefs = Cardinality({f \in FileIds : ftab[f].ref > 0 /\ ftab[f].type = "inode"})
                 + Cardinality({p \in Users : Stands(p) /\ call[p].ff.type = "inode"})

(* The count of an entry is the number of descriptors that name it, with   *)
(* the references a call in progress holds: no entry is reused under a     *)
(* descriptor and none is lost, whatever call fails (filealloc, filedup,   *)
(* fileclose).  What an entry stands for is let go when the count is 0,    *)
(* and only then.                                                          *)
RefsCounted ==
  /\ \A f \in FileIds : ftab[f].ref = MapThenSumSet(LAMBDA p : Holds(p, f), Users)
  /\ LastCloseReleases
=============================================================================
