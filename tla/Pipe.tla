-------------------------------- MODULE Pipe --------------------------------
(***************************************************************************)
(* The pipe of pipe.c: a ring of PIPESIZE bytes between processes that     *)
(* write, read, fork, close their ends and are killed.                     *)
(*                                                                         *)
(* A critical section of p->lock is one step, except where it ends in      *)
(* sleep(): kill() takes only ptable.lock, so it can strike between the    *)
(* look at proc->killed and the sleep.  The counts of open file references *)
(* are the sets of processes that hold an end.                             *)
(***************************************************************************)
EXTENDS Integers, Sequences, FiniteSetsExt

CONSTANTS
  Procs, Creator,    \* processes, and the one that called pipe()
  Killable,          \* those that may be killed
  Bytes,             \* values of a byte
  Messages,          \* what writers may write
  MaxN,              \* longest read
  Junk,              \* what kfree() fills a page with
  PIPESIZE,
  UintMod            \* 2^32 in the code

ASSUME PipeAssumption ==
  /\ Creator \in Procs /\ Killable \subseteq Procs /\ "free" \notin Procs /\ Junk \in Bytes
  /\ Messages \subseteq Seq(Bytes)
  /\ PIPESIZE \in Nat \ {0} /\ UintMod \in Nat /\ MaxN \in Nat
  /\ UintMod > PIPESIZE /\ UintMod % PIPESIZE = 0

VARIABLES
  data, nread, nwrite, readopen, writeopen,
  freed,             \* kfree() was called on the pipe
  lock,              \* the process that holds p->lock across two steps
  ends,              \* the ends each process has open
  killed, pc,
  todo,              \* bytes a writer has still to write
  want,              \* bytes a reader asks for
  got                \* what the last piperead returned

pipe == <<data, nread, nwrite, readopen, writeopen, freed>>
vars == <<pipe, lock, ends, killed, pc, todo, want, got>>

Free == "free"
Ring == 0..PIPESIZE - 1
Inside == {"write", "write_sleep", "asleep_write", "read", "read_sleep", "asleep_read", "close_r", "close_w"}

(* Just after pipealloc(): every page that kalloc() returns went through   *)
(* kfree(), which fills it with junk.                                      *)
FreshData == [r \in Ring |-> Junk]
Init ==
  /\ data = FreshData /\ nread = 0 /\ nwrite = 0
  /\ readopen = TRUE /\ writeopen = TRUE /\ freed = FALSE
  /\ lock = Free
  /\ ends = [p \in Procs |-> IF p = Creator THEN {"r", "w"} ELSE {}]
  /\ killed = [p \in Procs |-> FALSE]
  /\ pc = [p \in Procs |-> "idle"]
  /\ todo = [p \in Procs |-> <<>>] /\ got = <<>>
  /\ want = [p \in Procs |-> 0]

Uint(n) == n % UintMod
(* pipewrite's test for a full ring, before it writes byte number w.       *)
(* Mutant: the counters are compared as if they never wrapped.             *)
FullAtNoWrap(w) == w >= nread + PIPESIZE
FullAt(w) == w = Uint(nread + PIPESIZE)
Empty == nread = nwrite
Count == Uint(nwrite - nread)

(* wakeup(&p->nread) and wakeup(&p->nwrite): a sleeper that is woken takes *)
(* p->lock again and looks again.                                          *)
WakeReaders(f) == [p \in Procs |-> IF f[p] = "asleep_read" THEN "read" ELSE f[p]]
(* Mutant: the wrong channel.                                              *)
WakeWritersNot(f) == WakeReaders(f)
WakeWriters(f) == [p \in Procs |-> IF f[p] = "asleep_write" THEN "write" ELSE f[p]]

-----------------------------------------------------------------------------
(* The system calls that reach the pipe.                                   *)

(* pipealloc, once the old pipe is gone.                                   *)
PipeAlloc(p) ==
  /\ freed /\ pc[p] = "idle" /\ ~killed[p]
  /\ nread' = 0 /\ nwrite' = 0 /\ readopen' = TRUE /\ writeopen' = TRUE /\ freed' = FALSE
  /\ data' = FreshData
  /\ ends' = [ends EXCEPT ![p] = {"r", "w"}]
  /\ UNCHANGED <<lock, killed, pc, todo, want, got>>

(* fork() duplicates the files of p for a new process q.                   *)
Fork(p, q) ==
  /\ pc[p] = "idle" /\ ~killed[p] /\ ends[p] # {}
  /\ pc[q] = "idle" /\ ends[q] = {}
  /\ ends' = [ends EXCEPT ![q] = ends[p]]
  /\ killed' = [killed EXCEPT ![q] = FALSE]
  /\ UNCHANGED <<pipe, lock, pc, todo, want, got>>

Write(p, s) ==
  /\ pc[p] = "idle" /\ ~killed[p] /\ "w" \in ends[p]
  /\ pc' = [pc EXCEPT ![p] = "write"]
  /\ todo' = [todo EXCEPT ![p] = s]
  /\ UNCHANGED <<pipe, lock, ends, killed, want, got>>

Read(p, n) ==
  /\ pc[p] = "idle" /\ ~killed[p] /\ "r" \in ends[p]
  /\ pc' = [pc EXCEPT ![p] = "read"]
  /\ want' = [want EXCEPT ![p] = n]
  /\ UNCHANGED <<pipe, lock, ends, killed, todo, got>>

(* fileclose: the last reference to an end calls pipeclose.                *)
Close(p, e) ==
  LET last == \A q \in Procs \ {p} : e \notin ends[q]
  IN /\ pc[p] = "idle" /\ e \in ends[p]
     /\ ends' = [ends EXCEPT ![p] = @ \ {e}]
     /\ pc' = [pc EXCEPT ![p] = IF ~last THEN "idle" ELSE IF e = "r" THEN "close_r" ELSE "close_w"]
     /\ UNCHANGED <<pipe, lock, killed, todo, want, got>>

(* kill(): a sleeping process is made runnable.                            *)
Kill(p) ==
  /\ p \in Killable /\ ~killed[p] /\ ends[p] # {}
  /\ killed' = [killed EXCEPT ![p] = TRUE]
  /\ pc' = [pc EXCEPT ![p] = CASE @ = "asleep_write" -> "write"
                               [] @ = "asleep_read" -> "read"
                               [] OTHER -> @]
  /\ UNCHANGED <<pipe, lock, ends, todo, want, got>>

-----------------------------------------------------------------------------
(* pipe.c.                                                                 *)

(* Mutant: closing the write end wakes nobody.                             *)
PipeCloseQuiet(p) ==
  /\ lock = Free /\ pc[p] \in {"close_r", "close_w"}
  /\ IF pc[p] = "close_w"
     THEN writeopen' = FALSE /\ UNCHANGED readopen /\ pc' = [pc EXCEPT ![p] = "idle"]
     ELSE readopen' = FALSE /\ UNCHANGED writeopen /\ pc' = [WakeWriters(pc) EXCEPT ![p] = "idle"]
  /\ freed' = (~readopen' /\ ~writeopen')
  /\ UNCHANGED <<data, nread, nwrite, lock, ends, killed, todo, want, got>>
(* Mutant: closing one end frees the pipe.                                 *)
PipeCloseFrees(p) ==
  /\ lock = Free /\ pc[p] \in {"close_r", "close_w"}
  /\ IF pc[p] = "close_w"
     THEN writeopen' = FALSE /\ UNCHANGED readopen /\ pc' = [WakeReaders(pc) EXCEPT ![p] = "idle"]
     ELSE readopen' = FALSE /\ UNCHANGED writeopen /\ pc' = [WakeWriters(pc) EXCEPT ![p] = "idle"]
  /\ freed' = (~readopen' \/ ~writeopen')
  /\ UNCHANGED <<data, nread, nwrite, lock, ends, killed, todo, want, got>>

PipeClose(p) ==
  /\ lock = Free /\ pc[p] \in {"close_r", "close_w"}
  /\ IF pc[p] = "close_w"
     THEN writeopen' = FALSE /\ UNCHANGED readopen /\ pc' = [WakeReaders(pc) EXCEPT ![p] = "idle"]
     ELSE readopen' = FALSE /\ UNCHANGED writeopen /\ pc' = [WakeWriters(pc) EXCEPT ![p] = "idle"]
  /\ freed' = (~readopen' /\ ~writeopen')
  /\ UNCHANGED <<data, nread, nwrite, lock, ends, killed, todo, want, got>>

(* The ring after the first k bytes of s were copied in, the bytes of the  *)
(* ring that a read of n bytes returns.                                    *)
CopyIn(s, k) ==
  [r \in Ring |-> LET I == {i \in 1..k : Uint(nwrite + i - 1) % PIPESIZE = r}
                  IN IF I = {} THEN data[r] ELSE s[Max(I)]]
CopyOut(n) == [i \in 1..n |-> data[Uint(nread + i - 1) % PIPESIZE]]

(* How many of n bytes the writing loop copies before it finds the ring    *)
(* full.                                                                   *)
Room(n) == Min({k \in 0..n : k = n \/ FullAt(Uint(nwrite + k))})

(* A writer gives up on a full ring.                                       *)
GivesUp(p) == ~readopen \/ killed[p]

(* pipewrite, from acquire (or the return from sleep) to a return or to    *)
(* the next sleep.                                                         *)
(* Mutant: a writer that should give up tries again.                       *)
PipeWriteRetries(p) ==
  LET n == Len(todo[p])
      k == Room(n)
      full == k < n
      fails == full /\ GivesUp(p)
  IN /\ lock = Free /\ pc[p] = "write"
     /\ data' = CopyIn(todo[p], k)
     /\ nwrite' = Uint(nwrite + k)
     /\ todo' = [todo EXCEPT ![p] = SubSeq(@, k + 1, n)]
     /\ pc' = [WakeReaders(pc) EXCEPT ![p] = IF fails THEN "write" ELSE IF full THEN "write_sleep" ELSE "idle"]
     /\ lock' = IF full /\ ~fails THEN p ELSE Free
     /\ UNCHANGED <<nread, readopen, writeopen, freed, ends, killed, want, got>>

PipeWrite(p) ==
  LET n == Len(todo[p])
      k == Room(n)
      rest == SubSeq(todo[p], k + 1, n)
      full == k < n
      fails == full /\ GivesUp(p)
  IN /\ lock = Free /\ pc[p] = "write"
     /\ data' = CopyIn(todo[p], k)
     /\ nwrite' = Uint(nwrite + k)
     /\ todo' = [todo EXCEPT ![p] = IF fails THEN <<>> ELSE rest]
     /\ pc' = [IF fails THEN pc ELSE WakeReaders(pc) EXCEPT ![p] = IF full /\ ~fails THEN "write_sleep" ELSE "idle"]
     /\ lock' = IF full /\ ~fails THEN p ELSE Free
     /\ UNCHANGED <<nread, readopen, writeopen, freed, ends, killed, want, got>>

(* piperead likewise.                                                      *)
PipeRead(p) ==
  LET n == Min({want[p], Count})
  IN /\ lock = Free /\ pc[p] = "read"
     /\ IF Empty /\ writeopen
        THEN /\ pc' = [pc EXCEPT ![p] = IF killed[p] THEN "idle" ELSE "read_sleep"]
             /\ lock' = IF killed[p] THEN Free ELSE p
             /\ want' = [want EXCEPT ![p] = IF killed[p] THEN 0 ELSE @]
             /\ UNCHANGED <<nread, got>>
        ELSE /\ nread' = Uint(nread + n)
             /\ got' = CopyOut(n)
             /\ pc' = [WakeWriters(pc) EXCEPT ![p] = "idle"]
             /\ want' = [want EXCEPT ![p] = 0]
             /\ UNCHANGED lock
     /\ UNCHANGED <<data, nwrite, readopen, writeopen, freed, ends, killed, todo>>

(* sleep(): once ptable.lock is held, p->lock is given up.                 *)
Sleep(p) ==
  /\ pc[p] \in {"write_sleep", "read_sleep"}
  /\ pc' = [pc EXCEPT ![p] = IF @ = "write_sleep" THEN "asleep_write" ELSE "asleep_read"]
  /\ lock' = Free
  /\ UNCHANGED <<pipe, ends, killed, todo, want, got>>

Kernel(p) == PipeClose(p) \/ PipeWrite(p) \/ PipeRead(p) \/ Sleep(p)
Next == \E p \in Procs :
  \/ PipeAlloc(p) \/ Kernel(p) \/ Kill(p)
  \/ \E q \in Procs : Fork(p, q)
  \/ \E s \in Messages : Write(p, s)
  \/ \E n \in 1..MaxN : Read(p, n)
  \/ \E e \in {"r", "w"} : Close(p, e)

Spec == Init /\ [][Next]_vars

(* A process inside the kernel keeps going: p->lock is only ever held for  *)
(* a bounded time, and the spin lock does not starve anyone for ever.      *)
FairSpec == Spec /\ \A p \in Procs : SF_vars(Kernel(p))

-----------------------------------------------------------------------------
(* Properties                                                              *)

(* pipe.c implements a queue of PIPESIZE bytes: what readers get is what   *)
(* writers wrote, in order, nothing lost and nothing twice, also when the  *)
(* counters wrap; end of file is reported only when it is true.            *)
Queue == INSTANCE ByteQueue WITH
           Capacity <- PIPESIZE,
           queue <- CopyOut(Count),
           open <- writeopen
Fifo == Queue!QSpec

(* The page of the pipe is given back only when nobody can come to use it: *)
(* neither a process that holds an end nor one asleep or closing inside.   *)
FreedIsUnused == freed => \A p \in Procs : ends[p] = {} /\ pc[p] = "idle"

(* A process is asleep in pipewrite only while the ring is full and a      *)
(* reader may still come.                                                  *)
WriterSleepsOnFull == \A p \in Procs : pc[p] = "asleep_write" => FullAt(nwrite) /\ readopen

(* A process is asleep in piperead only while a writer may still come, and *)
(* a step that leaves one asleep beside bytes it could read is the return  *)
(* of a killed writer from a full ring (pipe.c:85-88, without the wakeup   *)
(* of line 89); from then on it sleeps until the next wakeup.              *)
LeftAsleep(p) == pc[p] = "asleep_read" /\ ~Empty
KilledWriterReturns == \E q \in Procs : killed[q] /\ pc[q] = "write" /\ pc'[q] = "idle"
ReaderSleepsOnEmpty ==
  [][\A p \in Procs : /\ pc'[p] = "asleep_read" => writeopen'
                      /\ LeftAsleep(p)' /\ ~LeftAsleep(p) => KilledWriterReturns]_vars

(* Once the other end is closed, every read and write returns.             *)
EndOfFileReaches ==
  \A p \in Procs : /\ pc[p] \in {"read", "read_sleep", "asleep_read"} /\ ~writeopen ~> pc[p] = "idle"
                   /\ pc[p] \in {"write", "write_sleep", "asleep_write"} /\ ~readopen ~> pc[p] = "idle"
=============================================================================
