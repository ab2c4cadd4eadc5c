------------------------------- MODULE Bcache -------------------------------
(***************************************************************************)
(* The buffer cache of bio.c and the disk queue of ide.c, used by          *)
(* processes that read a block, change it, write it at once (bwrite) or    *)
(* leave it dirty for the log (log_write), and release it.                 *)
(*                                                                         *)
(* Critical sections of bcache.lock and of idelock are one step.  A        *)
(* process holds one buffer at a time; there is one disk, and it reports   *)
(* no errors.                                                              *)
(***************************************************************************)
EXTENDS Naturals, Sequences, Functions

CONSTANTS
  Procs,
  NBUF,
  Blocks, Vals,
  NoBlock,           \* dev = -1, as binit leaves a buffer
  Nobody

ASSUME BcacheAssumption == NBUF \in Nat /\ NoBlock \notin Blocks /\ Nobody \notin Procs

VARIABLES
  disk,              \* contents of the disk
  blockno, data,     \* per buffer
  flags,             \* subset of B_BUSY, B_VALID, B_DIRTY
  mru,               \* the list from head.next to head.prev
  idequeue,
  cmd,               \* what idestart told the disk: idle, read, write, done
  pc, blk, bp,       \* per process: where it is, the block it wants, its b
  panicked           \* the function whose panic stopped the machine, or "no"

Bufs == 1..NBUF
NoBuf == 0

bufs == <<blockno, data, flags, mru>>
procs == <<pc, blk, bp>>
vars == <<disk, bufs, idequeue, cmd, procs, panicked>>

(* The types; mru stays a list of every buffer, each of them once.         *)
TypeOK ==
  /\ disk \in [Blocks -> Vals] /\ data \in [Bufs -> Vals]
  /\ blockno \in [Bufs -> Blocks \cup {NoBlock}]
  /\ flags \in [Bufs -> SUBSET {"busy", "valid", "dirty"}]
  /\ mru \in [Bufs -> Bufs] /\ IsInjective(mru) /\ Range(mru) = Bufs
  /\ idequeue \in Seq(Bufs)
  /\ cmd \in {"idle", "read", "write", "done"}
  /\ pc \in [Procs -> {"idle", "bget", "asleep_bget", "iderw", "wait", "asleep_ide", "held"}]
  /\ blk \in [Procs -> Blocks \cup {NoBlock}] /\ bp \in [Procs -> Bufs \cup {NoBuf}]
  /\ panicked \in {"no", "bget", "bwrite", "brelse", "iderw"}

Init ==
  /\ disk \in [Blocks -> Vals]
  /\ blockno = [b \in Bufs |-> NoBlock]
  /\ \E v \in Vals : data = [b \in Bufs |-> v]
  /\ flags = [b \in Bufs |-> {}]
  /\ mru = [i \in Bufs |-> NBUF + 1 - i]
  /\ idequeue = <<>> /\ cmd = "idle"
  /\ pc = [p \in Procs |-> "idle"] /\ blk = [p \in Procs |-> NoBlock] /\ bp = [p \in Procs |-> NoBuf]
  /\ panicked = "no"

(* wakeup(b), after which the process looks again.                         *)
Woken(f, b) ==
  [p \in Procs |-> CASE bp[p] = b /\ f[p] = "asleep_bget" -> "bget"
                     [] bp[p] = b /\ f[p] = "asleep_ide" -> "wait"
                     [] OTHER -> f[p]]

-----------------------------------------------------------------------------
(* bio.c                                                                   *)

BRead(p, k) ==
  /\ pc[p] = "idle"
  /\ pc' = [pc EXCEPT ![p] = "bget"]
  /\ blk' = [blk EXCEPT ![p] = k]
  /\ UNCHANGED <<disk, bufs, idequeue, cmd, bp, panicked>>

Cached(k) == {b \in Bufs : blockno[b] = k}
(* Mutant: a dirty buffer may be recycled.                                 *)
RecyclableDirty(b) == "busy" \notin flags[b]
Recyclable(b) == "busy" \notin flags[b] /\ "dirty" \notin flags[b]

(* bget finds the block: it takes the buffer or sleeps on it; bread reads  *)
(* it from the disk unless it is valid.                                    *)
BGetHit(p, b) ==
  /\ pc[p] = "bget" /\ b \in Cached(blk[p])
  /\ bp' = [bp EXCEPT ![p] = b]
  /\ IF "busy" \in flags[b]
     THEN /\ pc' = [pc EXCEPT ![p] = "asleep_bget"]
          /\ UNCHANGED flags
     ELSE /\ pc' = [pc EXCEPT ![p] = IF "valid" \in flags[b] THEN "held" ELSE "iderw"]
          /\ flags' = [flags EXCEPT ![b] = @ \cup {"busy"}]
  /\ UNCHANGED <<disk, blockno, data, mru, idequeue, cmd, blk, panicked>>

(* Otherwise it recycles the least recently used buffer that is neither    *)
(* busy nor dirty, or panics.                                              *)
BGetMiss(p, i) ==
  LET b == mru[i]
  IN /\ pc[p] = "bget" /\ Cached(blk[p]) = {}
     /\ Recyclable(b) /\ \A j \in Bufs : j > i => ~Recyclable(mru[j])
     /\ blockno' = [blockno EXCEPT ![b] = blk[p]]
     /\ flags' = [flags EXCEPT ![b] = {"busy"}]
     /\ pc' = [pc EXCEPT ![p] = "iderw"]
     /\ bp' = [bp EXCEPT ![p] = b]
     /\ UNCHANGED <<disk, data, mru, idequeue, cmd, blk, panicked>>
BGetPanic(p) ==
  /\ pc[p] = "bget" /\ Cached(blk[p]) = {} /\ \A i \in Bufs : ~Recyclable(mru[i])
  /\ panicked' = "bget"
  /\ UNCHANGED <<disk, bufs, idequeue, cmd, procs>>

(* The holder changes the contents, and log_write pins the buffer.         *)
Modify(p, v) ==
  /\ pc[p] = "held"
  /\ data' = [data EXCEPT ![bp[p]] = v]
  /\ flags' = [flags EXCEPT ![bp[p]] = @ \cup {"dirty"}]
  /\ UNCHANGED <<disk, blockno, mru, idequeue, cmd, procs, panicked>>

BWrite(p) ==
  /\ pc[p] = "held"
  /\ panicked' = IF "busy" \in flags[bp[p]] THEN "no" ELSE "bwrite"
  /\ flags' = [flags EXCEPT ![bp[p]] = @ \cup {"dirty"}]
  /\ pc' = [pc EXCEPT ![p] = "iderw"]
  /\ UNCHANGED <<disk, blockno, data, mru, idequeue, cmd, blk, bp>>

(* b is unlinked and put in front of the list.                             *)
AtHead(b) ==
  LET place == CHOOSE i \in Bufs : mru[i] = b
  IN [i \in Bufs |-> IF i = 1 THEN b ELSE IF i <= place THEN mru[i - 1] ELSE mru[i]]
BRelse(p) ==
  LET b == bp[p]
  IN /\ pc[p] = "held"
     /\ panicked' = IF "busy" \in flags[b] THEN "no" ELSE "brelse"
     /\ mru' = AtHead(b)
     /\ flags' = [flags EXCEPT ![b] = @ \ {"busy"}]
     /\ pc' = [Woken(pc, b) EXCEPT ![p] = "idle"]
     /\ bp' = [bp EXCEPT ![p] = NoBuf]
     /\ blk' = [blk EXCEPT ![p] = NoBlock]
     /\ UNCHANGED <<disk, blockno, data, idequeue, cmd>>

-----------------------------------------------------------------------------
(* ide.c                                                                   *)

(* idestart(b) sends the command, and the data of a write with it.         *)
Idestart(b) == cmd' = IF "dirty" \in flags'[b] THEN "write" ELSE "read"
Finished(b) == "valid" \in flags[b] /\ "dirty" \notin flags[b]

(* iderw: queue the request, start the disk if it is the only one, sleep.  *)
(* It panics over a buffer that is not busy or needs no transfer.          *)
IdeRw(p) ==
  /\ pc[p] = "iderw"
  /\ panicked' = IF "busy" \in flags[bp[p]] /\ ~Finished(bp[p]) THEN "no" ELSE "iderw"
  /\ idequeue' = Append(idequeue, bp[p])
  /\ UNCHANGED flags
  /\ IF idequeue = <<>> THEN Idestart(bp[p]) ELSE UNCHANGED cmd
  /\ pc' = [pc EXCEPT ![p] = "asleep_ide"]
  /\ UNCHANGED <<disk, blockno, data, mru, blk, bp>>

(* Mutant: the loop looks at the flags it read before it slept.            *)
IdeWaitStale(p) == pc[p] = "wait" /\ UNCHANGED vars
IdeWait(p) ==
  /\ pc[p] = "wait"
  /\ pc' = [pc EXCEPT ![p] = IF Finished(bp[p]) THEN "held" ELSE "asleep_ide"]
  /\ UNCHANGED <<disk, bufs, idequeue, cmd, blk, bp, panicked>>

(* The disk carries out the command and raises its interrupt.              *)
DiskDone ==
  LET b == Head(idequeue)
  IN /\ cmd \in {"read", "write"}
     /\ cmd' = "done"
     /\ disk' = IF cmd = "write" THEN [disk EXCEPT ![blockno[b]] = data[b]] ELSE disk
     /\ UNCHANGED <<bufs, idequeue, procs, panicked>>

IdeIntr ==
  LET b == Head(idequeue)
  IN /\ cmd = "done"
     /\ idequeue' = Tail(idequeue)
     /\ data' = IF "dirty" \in flags[b] THEN data ELSE [data EXCEPT ![b] = disk[blockno[b]]]
     /\ flags' = [flags EXCEPT ![b] = (@ \cup {"valid"}) \ {"dirty"}]
     /\ pc' = Woken(pc, b)
     /\ IF Tail(idequeue) # <<>> THEN Idestart(Head(Tail(idequeue))) ELSE cmd' = "idle"
     /\ UNCHANGED <<disk, blockno, mru, blk, bp, panicked>>

(* panic() stops the machine.                                              *)
PanicLoop == panicked # "no" /\ UNCHANGED vars
Live == panicked = "no"

Kernel(p) == \/ BGetPanic(p) \/ BRelse(p) \/ IdeRw(p) \/ IdeWait(p)
             \/ \E b \in Bufs : BGetHit(p, b) \/ BGetMiss(p, b)
Next ==
  \/ PanicLoop
  \/ /\ Live
     /\ \/ DiskDone \/ IdeIntr
        \/ \E p \in Procs : \/ Kernel(p) \/ BWrite(p)
                            \/ \E k \in Blocks : BRead(p, k)
                            \/ \E v \in Vals : Modify(p, v)

Spec == Init /\ [][Next]_vars

(* The disk answers and its interrupt is taken; a process inside the       *)
(* kernel keeps going, and releases the buffer it holds.                   *)
FairSpec ==
  /\ Spec
  /\ WF_vars(Live /\ (DiskDone \/ IdeIntr))
  /\ \A p \in Procs : /\ WF_vars(Live /\ (IdeRw(p) \/ IdeWait(p)))
                      /\ SF_vars(Live /\ BRelse(p))

-----------------------------------------------------------------------------
(* Properties                                                              *)

(* Processes that use a buffer, from bget to brelse.                       *)
Using == {p \in Procs : pc[p] \in {"iderw", "wait", "asleep_ide", "held"}}

(* bio.c and ide.c implement BlockStore: one process at a time has a       *)
(* block, from the moment its contents are there until brelse, and it sees *)
(* the last contents anyone gave it, whatever was recycled, read back or   *)
(* written meanwhile.                                                      *)
Contents == [k \in Blocks |->
  LET c == {b \in Cached(k) : "valid" \in flags[b]}
  IN IF c = {} THEN disk[k] ELSE data[CHOOSE b \in c : TRUE]]
Holder == [k \in Blocks |->
  LET h == {p \in Using : blk[p] = k /\ "valid" \in flags[bp[p]]}
  IN IF h = {} THEN Nobody ELSE CHOOSE p \in h : TRUE]
Store == INSTANCE BlockStore WITH content <- Contents, holder <- Holder
Coherent == Store!BSpec

(* No block is cached twice, and a busy buffer is used by one process:     *)
(* bget looks for the block again after every sleep.                       *)
OneBufferPerBlock ==
  /\ \A b, c \in Bufs : blockno[b] = blockno[c] /\ blockno[b] # NoBlock => b = c
  /\ \A p, q \in Using : bp[p] = bp[q] => p = q

(* No sleeper is forgotten: the buffer bget sleeps for has a user who will *)
(* release it, a request iderw sleeps for is in the queue, and the disk    *)
(* works as long as there is one (ide.c:123).                              *)
SleepersRemembered ==
  /\ \A p \in Procs : pc[p] = "asleep_bget" => \E q \in Using : bp[q] = bp[p]
  /\ \A p \in Procs : pc[p] = "asleep_ide" => \E i \in DOMAIN idequeue : idequeue[i] = bp[p]
  /\ idequeue # <<>> => cmd # "idle"

(* The only panic is bget's when there is no buffer to recycle.            *)
OnlyBuffersRunOut == panicked \in {"no", "bget"}

(* A disk request finishes.                                                *)
RequestFinishes == \A p \in Procs : pc[p] = "iderw" ~> pc[p] = "held" \/ ~Live
=============================================================================
