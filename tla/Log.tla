--------------------------------- MODULE Log ---------------------------------
(***************************************************************************)
(* The write-ahead log of log.c: file system operations of several         *)
(* processes that share one transaction, group commit, absorption, and a   *)
(* crash before or after every write to the disk.                          *)
(*                                                                         *)
(* The buffer cache appears as the contents a bread() of a block returns:  *)
(* log_write pins what has not been committed, so such a block is never    *)
(* read back from its home location.  A block write is atomic (a block is  *)
(* one sector, and the header fits in a block).                            *)
(*                                                                         *)
(* Home blocks are numbered from the end of the log on: mkfs puts the      *)
(* inodes right behind it, so block i of a log of size blocks, header and  *)
(* all, is home block i - size + 1 once i is not below size.               *)
(***************************************************************************)
EXTENDS Integers, Sequences, FiniteSets, Functions

CONSTANTS
  Procs,             \* processes that make file system calls
  Blocks, Vals,      \* home blocks and their contents
  Updates,           \* what operations write: pairs of a block and contents for it
  NoBlock,           \* no buffer
  LOGSIZE,           \* slots of the header (param.h)
  MAXOPBLOCKS,       \* blocks begin_op reserves for an operation (param.h)
  OpBlocks,          \* the most distinct blocks an operation writes
  size               \* log.size: blocks of the log on disk, header included

ASSUME LogAssumption ==
  /\ LOGSIZE \in Nat /\ MAXOPBLOCKS \in 1..LOGSIZE /\ OpBlocks \in Nat /\ size \in Nat \ {0}
  /\ IsFiniteSet(Procs) /\ NoBlock \notin Blocks /\ 1..LOGSIZE \subseteq Blocks
  /\ Updates \subseteq Blocks \X Vals

VARIABLES
  home, logblk, hdr,           \* on disk: home blocks, log blocks, header
  cache,                       \* what bread() of a home block returns
  lh,                          \* log.lh: the block numbers logged
  outstanding, committing,
  opc, buf, wrote,             \* per process: place, busy buffer, blocks written
  overdrawn,                   \* an operation of the transaction in the log wrote more than
                               \* begin_op reserved for it
  cph, tail,                   \* the step of commit() or recovery, and its loop index
  up,                          \* recovery is over
  panicked

disk == <<home, logblk, hdr>>
ops == <<opc, buf, wrote, overdrawn>>
steps == <<cph, tail, up>>
vars == <<disk, cache, lh, outstanding, committing, ops, steps, panicked>>

TypeOK ==
  /\ home \in [Blocks -> Vals]
  /\ logblk \in [1..size - 1 -> Vals]
  /\ hdr \in Seq(Blocks) /\ lh \in Seq(Blocks)
  /\ cache \in [Blocks -> Vals]
  /\ outstanding \in Nat /\ committing \in BOOLEAN
  /\ opc \in [Procs -> {"idle", "begin", "sleep", "op", "write", "commit"}]
  /\ buf \in [Procs -> Blocks \cup {NoBlock}]
  /\ wrote \in [Procs -> SUBSET Blocks] /\ overdrawn \in BOOLEAN
  /\ cph \in {"none", "read", "log", "head", "install", "clear", "done"}
  /\ tail \in Nat
  /\ up \in BOOLEAN /\ panicked \in BOOLEAN

(* A disk whose log is empty, as mkfs writes it; initlog is still to run.  *)
Init ==
  /\ home \in [Blocks -> Vals]
  /\ logblk \in [1..size - 1 -> Vals]
  /\ hdr = <<>> /\ lh = <<>>
  /\ cache = home
  /\ outstanding = 0 /\ committing = FALSE
  /\ opc = [p \in Procs |-> "idle"]
  /\ buf = [p \in Procs |-> NoBlock]
  /\ wrote = [p \in Procs |-> {}] /\ overdrawn = FALSE
  /\ cph = "read" /\ tail = 0
  /\ up = FALSE /\ panicked = FALSE

Live == up /\ ~panicked

-----------------------------------------------------------------------------
(* Operations.  A critical section of log.lock is one step.                *)

Awake == [p \in Procs |-> IF opc[p] = "sleep" THEN "begin" ELSE opc[p]]

(* A process makes a file system call.                                     *)
Call(p) ==
  /\ Live /\ opc[p] = "idle"
  /\ opc' = [opc EXCEPT ![p] = "begin"]
  /\ UNCHANGED <<disk, cache, lh, outstanding, committing, buf, wrote, overdrawn, steps, panicked>>

Reserved == Len(lh) + (outstanding + 1) * MAXOPBLOCKS

BeginWait(p) ==
  /\ Live /\ opc[p] = "begin"
  /\ committing \/ Reserved > LOGSIZE
  /\ opc' = [opc EXCEPT ![p] = "sleep"]
  /\ UNCHANGED <<disk, cache, lh, outstanding, committing, buf, wrote, overdrawn, steps, panicked>>

BeginOp(p) ==
  /\ Live /\ opc[p] = "begin"
  /\ ~committing /\ Reserved <= LOGSIZE
  /\ outstanding' = outstanding + 1
  /\ opc' = [opc EXCEPT ![p] = "op"]
  /\ wrote' = [wrote EXCEPT ![p] = {}]
  /\ UNCHANGED <<disk, cache, lh, committing, buf, overdrawn, steps, panicked>>

(* Mutant: the limit itself is let through.                                *)
TooBigLate == Len(lh) > LOGSIZE \/ Len(lh) > size - 1
TooBig == Len(lh) >= LOGSIZE \/ Len(lh) >= size - 1

(* The operation reads block b, waiting while another one has its buffer,  *)
(* changes it, and enters log_write, which looks at the log's size and at  *)
(* outstanding before it takes the lock.                                   *)
Modify(p, b, v) ==
  /\ Live /\ opc[p] = "op"
  /\ \A q \in Procs : buf[q] # b
  /\ Cardinality(wrote[p] \cup {b}) <= OpBlocks
  /\ cache' = [cache EXCEPT ![b] = v]
  /\ buf' = [buf EXCEPT ![p] = b]
  /\ wrote' = [wrote EXCEPT ![p] = @ \cup {b}]
  /\ overdrawn' = (overdrawn \/ Cardinality(wrote[p] \cup {b}) > MAXOPBLOCKS)
  /\ opc' = [opc EXCEPT ![p] = "write"]
  /\ panicked' = (TooBig \/ outstanding < 1)
  /\ UNCHANGED <<disk, lh, outstanding, committing, steps>>

(* The rest of log_write, and the brelse that follows it.                  *)
Logged(b) == IF b \in Range(lh) THEN lh ELSE Append(lh, b)
LogWrite(p) ==
  /\ Live /\ opc[p] = "write"
  /\ lh' = Logged(buf[p])
  /\ buf' = [buf EXCEPT ![p] = NoBlock]
  /\ opc' = [opc EXCEPT ![p] = "op"]
  /\ UNCHANGED <<disk, cache, outstanding, committing, wrote, overdrawn, steps, panicked>>

(* The last operation out commits; commit() does nothing when no block was *)
(* logged.                                                                 *)
EndOp(p) ==
  LET last == outstanding - 1 = 0
  IN /\ Live /\ opc[p] = "op"
     /\ outstanding' = outstanding - 1
     /\ panicked' = committing
     /\ committing' = (committing \/ last)
     /\ opc' = [IF last THEN opc ELSE Awake EXCEPT ![p] = IF last THEN "commit" ELSE "idle"]
     /\ cph' = IF last THEN (IF lh = <<>> THEN "done" ELSE "log") ELSE cph
     /\ tail' = 0
     /\ UNCHANGED <<disk, cache, lh, buf, wrote, overdrawn, up>>

-----------------------------------------------------------------------------
(* commit(): each step is one write to the disk.  A block of the log is    *)
(* read and written through the buffer cache; behind the log that is the   *)
(* buffer of a home block, and if it is the very block to be copied the    *)
(* second bread waits for the first for ever.                              *)

Behind(i) == i - size + 1
Slot(i) == IF i < size THEN logblk[i] ELSE cache[Behind(i)]
Apart(i) == i >= size => Behind(i) # lh[i]

WriteLog ==
  LET i == tail + 1
      v == cache[lh[i]]
  IN /\ Live /\ cph = "log" /\ Apart(i)
     /\ IF i < size
        THEN logblk' = [logblk EXCEPT ![i] = v] /\ UNCHANGED <<home, cache>>
        ELSE /\ home' = [home EXCEPT ![Behind(i)] = v] /\ cache' = [cache EXCEPT ![Behind(i)] = v]
             /\ UNCHANGED logblk
     /\ tail' = i
     /\ cph' = IF i = Len(lh) THEN "head" ELSE "log"
     /\ UNCHANGED <<hdr, lh, outstanding, committing, ops, up, panicked>>

(* Mutant: the header may go out before the log blocks.                    *)
WriteHeadEarly ==
  /\ Live /\ cph \in {"log", "head"}
  /\ hdr' = lh
  /\ cph' = "install" /\ tail' = 0
  /\ UNCHANGED <<home, logblk, cache, lh, outstanding, committing, ops, up, panicked>>

WriteHead ==
  /\ Live /\ cph = "head"
  /\ hdr' = lh
  /\ cph' = "install" /\ tail' = 0
  /\ UNCHANGED <<home, logblk, cache, lh, outstanding, committing, ops, up, panicked>>

(* install_trans, called by commit() and by recover_from_log(), and the    *)
(* write_head that clears the log.                                         *)
Install ==
  LET i == tail + 1
  IN /\ ~panicked /\ cph = "install" /\ Apart(i)
     /\ home' = [home EXCEPT ![lh[i]] = Slot(i)]
     /\ cache' = [cache EXCEPT ![lh[i]] = Slot(i)]
     /\ tail' = i
     /\ cph' = IF i = Len(lh) THEN "clear" ELSE "install"
     /\ UNCHANGED <<logblk, hdr, lh, outstanding, committing, ops, up, panicked>>

ClearHead ==
  /\ ~panicked /\ cph = "clear"
  /\ hdr' = <<>> /\ lh' = <<>>
  /\ cph' = IF up THEN "done" ELSE "none"
  /\ tail' = 0
  /\ up' = TRUE /\ overdrawn' = FALSE
  /\ UNCHANGED <<home, logblk, cache, outstanding, committing, opc, buf, wrote, panicked>>

(* Mutant: committing is not reset.                                        *)
CommitDoneStill(p) ==
  /\ Live /\ opc[p] = "commit" /\ cph = "done"
  /\ opc' = [Awake EXCEPT ![p] = "idle"]
  /\ cph' = "none"
  /\ UNCHANGED <<disk, cache, lh, committing, outstanding, buf, wrote, overdrawn, tail, up, panicked>>

CommitDone(p) ==
  /\ Live /\ opc[p] = "commit" /\ cph = "done"
  /\ committing' = FALSE
  /\ opc' = [Awake EXCEPT ![p] = "idle"]
  /\ cph' = "none"
  /\ UNCHANGED <<disk, cache, lh, outstanding, buf, wrote, overdrawn, tail, up, panicked>>

-----------------------------------------------------------------------------
(* The machine stops, or is reset after a panic; it loses everything but   *)
(* the disk, and starts again.                                             *)
Crash ==
  /\ lh' = <<>> /\ cache' = home
  /\ outstanding' = 0 /\ committing' = FALSE
  /\ opc' = [p \in Procs |-> "idle"]
  /\ buf' = [p \in Procs |-> NoBlock]
  /\ wrote' = [p \in Procs |-> {}]
  /\ cph' = "read" /\ tail' = 0 /\ up' = FALSE
  /\ panicked' = FALSE
  /\ UNCHANGED <<disk, overdrawn>>

(* recover_from_log reads the header before it installs.                   *)
ReadHead ==
  /\ ~panicked /\ cph = "read"
  /\ lh' = hdr
  /\ cph' = IF hdr = <<>> THEN "clear" ELSE "install"
  /\ UNCHANGED <<disk, cache, outstanding, committing, ops, tail, up, panicked>>

OpStep(p) ==
  \/ BeginOp(p) \/ BeginWait(p) \/ LogWrite(p) \/ EndOp(p) \/ CommitDone(p)
  \/ \E u \in Updates : Modify(p, u[1], u[2])
DiskStep == WriteLog \/ WriteHead \/ Install \/ ClearHead \/ ReadHead

Next == Crash \/ DiskStep \/ \E p \in Procs : Call(p) \/ OpStep(p)

Spec == Init /\ [][Next]_vars

(* Operations end; the disk answers; a process that finds room over and    *)
(* over in begin_op gets in once.                                          *)
Fairness ==
  /\ WF_vars(DiskStep)
  /\ \A p \in Procs : /\ SF_vars(BeginOp(p)) /\ SF_vars(EndOp(p))
                      /\ WF_vars(LogWrite(p)) /\ WF_vars(CommitDone(p))
FairSpec == Spec /\ Fairness

-----------------------------------------------------------------------------
(* Properties                                                              *)

(* What the disk holds after recovery from a header h, log blocks lb and   *)
(* home blocks hm.                                                         *)
RecoveredFrom(h, lb, hm) ==
  [b \in Blocks |-> IF b \in Range(h) THEN lb[CHOOSE i \in 1..Len(h) : h[i] = b] ELSE hm[b]]
Recovered == IF Len(hdr) < size THEN RecoveredFrom(hdr, logblk, home) ELSE home

(* The transaction, or the one that recovery finds, has its blocks between *)
(* the header and the end of the log.                                      *)
Fits == Len(lh) < size /\ Len(hdr) < size

(* log.c implements TxDisk: whatever the moment of a crash, recovery finds *)
(* the updates of a whole number of transactions, committed while no       *)
(* operation was under way, and recovery may itself be interrupted.  Only  *)
(* a transaction that runs over the end of the log, into the blocks behind *)
(* it, is excepted; before it and after it the promise holds.              *)
Tx == INSTANCE TxDisk WITH
        committed <- Recovered,
        current <- IF up THEN cache ELSE Recovered,
        active <- outstanding
Atomic == Tx!DInit /\ [][Fits => Tx!DNext]_(Tx!dvars)

(* A block that is not logged reads the same from the buffer cache and     *)
(* from the disk, so evicting it loses nothing; only the buffer a process  *)
(* is changing right now may differ.                                       *)
UnloggedIsClean ==
  up => \A b \in Blocks \ Range(lh) : (\A p \in Procs : buf[p] # b) => cache[b] = home[b]

(* A process asleep in begin_op has someone to wake it: an operation that  *)
(* will end or a commit that will finish.                                  *)
SleeperWillBeWoken ==
  (\E p \in Procs : opc[p] = "sleep") => outstanding > 0 \/ committing

(* How long the list of logged blocks gets.  While the operations keep to  *)
(* what begin_op reserved for them, log.lh.block has room for all of it.   *)
(* Whatever they write, log_write's test of the length, made before it     *)
(* takes the lock, lets no more blocks past the limit than operations can  *)
(* be under way together, which begin_op bounds; those that have passed    *)
(* the test and not yet logged their block are counted in.                 *)
InLogWrite == {p \in Procs : opc[p] = "write"}
Room == IF LOGSIZE < size THEN LOGSIZE ELSE size - 1
RaceBounded(n) == (n + 1 - Room) * MAXOPBLOCKS <= LOGSIZE
HeaderFits ==
  /\ ~overdrawn => Len(lh) <= LOGSIZE
  /\ ~panicked => RaceBounded(Len(lh) + Cardinality(InLogWrite))

(* The reservation of begin_op suffices: log_write never finds the log     *)
(* full, and is never called outside a transaction or during a commit.     *)
NeverTooBig == ~panicked

(* Who is inside an operation, and what is left of their reservations: one *)
(* pair for each block an operation may still add to the log.              *)
Active == {p \in Procs : opc[p] \in {"op", "write"}}
Unused ==
  {u \in Active \X (1..MAXOPBLOCKS) : u[2] > Cardinality(wrote[u[1]] \cap Range(lh))}

(* The inductive invariant of the log.  The operations are counted; what   *)
(* they may still log fits, and what they log beyond their reservations is *)
(* bounded; and each step of commit() and of recovery leaves on the disk   *)
(* what the next one relies on.                                            *)
OpsCounted ==
  /\ outstanding = Cardinality(Active)
  /\ \A p \in Procs : buf[p] # NoBlock <=> opc[p] = "write"
  /\ \A p \in Active : /\ IsFiniteSet(wrote[p])
                       /\ ~overdrawn => Cardinality(wrote[p]) <= MAXOPBLOCKS
                       /\ wrote[p] \subseteq Range(lh) \cup {buf[p]}
                       /\ opc[p] = "write" => buf[p] \in wrote[p]
SpaceReserved ==
  ~overdrawn => Len(lh) + Cardinality(Unused) <= LOGSIZE /\ Len(hdr) <= LOGSIZE
Bounded ==
  /\ outstanding * MAXOPBLOCKS <= LOGSIZE
  /\ ~panicked => RaceBounded(Len(lh) + Cardinality(InLogWrite))
  /\ RaceBounded(Len(hdr))
Journal ==
  /\ IsInjective(lh) /\ IsInjective(hdr)
  /\ ~up => cph \in {"read", "install", "clear"} /\ Active = {} /\ cache = home
  /\ up => cph # "read"
  /\ up /\ cph # "none" => committing
  /\ committing => up /\ Active = {}
  /\ up /\ cph \notin {"install", "clear"} => hdr = <<>>
  /\ cph = "read" => lh = <<>> /\ tail = 0
  /\ cph \in {"install", "clear"} => hdr = lh
  /\ cph \in {"log", "install"} => tail < Len(lh)
  /\ cph = "head" => lh # <<>>
  /\ cph = "done" => lh = <<>>
  /\ cph = "install" => \A i \in 1..tail : home[lh[i]] = cache[lh[i]]
  /\ cph = "clear" => cache = home
Copied ==
  Fits =>
    /\ cph = "log" => \A i \in 1..tail : logblk[i] = cache[lh[i]]
    /\ up /\ cph \in {"head", "install", "clear"} => \A i \in 1..Len(lh) : logblk[i] = cache[lh[i]]
    /\ cph = "install" => \A i \in 1..tail : home[lh[i]] = logblk[i]
    /\ cph = "clear" => \A i \in 1..Len(lh) : home[lh[i]] = logblk[i]
LInv == TypeOK /\ OpsCounted /\ SpaceReserved /\ Bounded /\ Journal /\ Copied /\ UnloggedIsClean

(* Every process that waits in begin_op gets in, unless the machine        *)
(* crashes or the transaction runs over the end of the log: log space is   *)
(* always freed for those who wait.                                        *)
WaiterGetsIn ==
  \A p \in Procs : opc[p] = "sleep" ~> (opc[p] = "op" \/ ~Live \/ ~Fits)
=============================================================================
