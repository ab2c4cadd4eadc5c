------------------------------ MODULE Console ------------------------------
(***************************************************************************)
(* The console driver (console.c) between the keyboard and serial          *)
(* interrupts, which arrive on one processor, and the processes that read  *)
(* and print on all of them; with the spin locks it works under, cons.lock *)
(* and ptable.lock, and pushcli and popcli (spinlock.c).                   *)
(*                                                                         *)
(* Steps.  acquire is two steps: pushcli, which belongs to the step before *)
(* it, and the xchg that takes the lock.  A critical section of            *)
(* ptable.lock in which no other lock is taken is one step.                *)
(***************************************************************************)
EXTENDS Integers, Sequences, FiniteSets, FiniteSetsExt

CONSTANTS
  Cpus, Boot,        \* processors; the interrupts go to Boot (ioapicenable)
  Procs, None,
  Chars,             \* ordinary characters
  INPUT_BUF,         \* size of the ring of characters
  UintMod,           \* 2^32, where uints wrap
  ReadSizes          \* what reads ask for

ASSUME ConsoleAssumption ==
  /\ Boot \in Cpus /\ None \notin Cpus \cup Procs
  /\ INPUT_BUF \in Nat \ {0} /\ UintMod % INPUT_BUF = 0 /\ UintMod > INPUT_BUF
  /\ ReadSizes \subseteq Nat \ {0} /\ IsFiniteSet(ReadSizes) /\ Chars \cap {"nl", "eof"} = {}

VARIABLES
  buf, r, w, e,      \* input
  lock,              \* who holds cons.lock and ptable.lock
  ncli, intena, IF_, \* per processor: nesting of pushcli, flag to restore, interrupt flag
  task,              \* per processor: the process it runs
  th,                \* per process: where it is, what it still wants, what it wanted
  killed,
  intr,              \* the interrupt handler: where it is, commands to run after it
  out                \* what the last step of a read delivered

input == <<buf, r, w, e>>
vars == <<buf, r, w, e, lock, ncli, intena, IF_, task, th, killed, intr, out>>

Typed == Chars \cup {"nl", "eof"}
Ring == 0..INPUT_BUF - 1
Uint(n) == n % UintMod
Locks == {"cons", "ptable"}
User == [pc |-> "user", op |-> "none", n |-> 0, target |-> 0]
NoIntr == [pc |-> "none", cmds |-> {}]

Init ==
  /\ buf = [i \in Ring |-> "nl"]
  /\ r = 0 /\ w = 0 /\ e = 0
  /\ lock = [l \in Locks |-> None]
  /\ ncli = [c \in Cpus |-> 0] /\ intena = [c \in Cpus |-> TRUE] /\ IF_ = [c \in Cpus |-> TRUE]
  /\ task = [c \in Cpus |-> None]
  /\ th = [p \in Procs |-> [User EXCEPT !.pc = "runnable"]]
  /\ killed = {} /\ intr = NoIntr /\ out = <<>>

-----------------------------------------------------------------------------
(* Spin locks.                                                             *)

(* pushcli as the last thing a processor does before it spins.             *)
Pushcli(c) ==
  /\ ncli' = [ncli EXCEPT ![c] = @ + 1]
  /\ intena' = IF ncli[c] = 0 THEN [intena EXCEPT ![c] = IF_[c]] ELSE intena
  /\ IF_' = [IF_ EXCEPT ![c] = FALSE]

(* Mutant: interrupts stay off.                                            *)
PopcliOff(c) == ncli' = [ncli EXCEPT ![c] = @ - 1] /\ UNCHANGED <<intena, IF_>>
Popcli(c) ==
  /\ ncli' = [ncli EXCEPT ![c] = @ - 1]
  /\ IF_' = IF ncli[c] = 1 THEN [IF_ EXCEPT ![c] = intena[c]] ELSE IF_
  /\ UNCHANGED intena

cli == <<ncli, intena, IF_>>

Acquire(c, l) == lock[l] = None /\ lock' = [lock EXCEPT ![l] = c]
Release(c, l) == lock' = [lock EXCEPT ![l] = None] /\ Popcli(c)

-----------------------------------------------------------------------------
(* Processes.  A processor runs its process unless it is in the handler.   *)

Runs(c, p) == task[c] = p /\ (c = Boot => intr.pc = "none")
At(c, p, pc) == Runs(c, p) /\ th[p].pc = pc

(* consoleread or consolewrite is called.                                  *)
Call(c, p, op, n) ==
  /\ At(c, p, "user")
  /\ th' = [th EXCEPT ![p] = [pc |-> "acquire", op |-> op, n |-> n, target |-> n]]
  /\ Pushcli(c)
  /\ UNCHANGED <<input, lock, task, killed, intr, out>>

TakeCons(c, p) ==
  /\ At(c, p, "acquire")
  /\ Acquire(c, "cons")
  /\ th' = [th EXCEPT ![p].pc = IF th[p].op = "read" THEN "loop" ELSE "done"]
  /\ UNCHANGED <<input, cli, task, killed, intr, out>>

(* The end of a call; consolewrite has put its characters out by now.  A   *)
(* killed process gives way to a new one.                                  *)
Return(c, p) ==
  /\ At(c, p, "done")
  /\ Release(c, "cons")
  /\ th' = [th EXCEPT ![p] = User]
  /\ killed' = killed \ {p}
  /\ out' = <<>>
  /\ UNCHANGED <<input, task, intr>>

(* One character.  ^D ends the read, and is put back for the next one      *)
(* unless this read has nothing else to return.                            *)
ReadChar(c, p) ==
  LET ch == buf[r % INPUT_BUF]
      left == IF ch = "eof" THEN th[p].n ELSE th[p].n - 1
      saved == ch = "eof" /\ th[p].n < th[p].target
  IN /\ At(c, p, "loop") /\ r # w
     /\ r' = IF saved THEN r ELSE Uint(r + 1)
     /\ out' = IF ch = "eof" THEN <<>> ELSE <<ch>>
     /\ th' = [th EXCEPT ![p].n = left, ![p].pc = IF ch \in {"eof", "nl"} \/ left = 0 THEN "done" ELSE "loop"]
     /\ UNCHANGED <<buf, w, e, lock, cli, task, killed, intr>>

(* Nothing to read: a killed process returns, another goes to sleep, for   *)
(* which it needs ptable.lock.                                             *)
ReadNothing(c, p) ==
  /\ At(c, p, "loop") /\ r = w
  /\ IF p \in killed THEN th' = [th EXCEPT ![p].pc = "done"] /\ UNCHANGED cli
                       ELSE th' = [th EXCEPT ![p].pc = "sleep"] /\ Pushcli(c)
  /\ UNCHANGED <<input, lock, task, killed, intr, out>>

(* sleep: from acquire(&ptable.lock) to the scheduler's release of it.     *)
(* The processor then waits for work with interrupts on.                   *)
Sleep(c, p) ==
  /\ At(c, p, "sleep") /\ lock["ptable"] = None
  /\ lock' = [lock EXCEPT !["cons"] = None]
  /\ ncli' = [ncli EXCEPT ![c] = 0] /\ IF_' = [IF_ EXCEPT ![c] = TRUE]
  /\ th' = [th EXCEPT ![p].pc = "asleep"]
  /\ task' = [task EXCEPT ![c] = None]
  /\ UNCHANGED <<input, intena, killed, intr, out>>

(* The scheduler picks a process: a new one, or one that returns from      *)
(* sleep and takes cons.lock again.                                        *)
(* Mutant: it takes cons.lock before ptable.lock is released.              *)
DispatchLocked(c, p) ==
  /\ Runs(c, None) /\ th[p].pc = "runnable" /\ lock["ptable"] = None
  /\ task' = [task EXCEPT ![c] = p]
  /\ IF th[p].op = "none" THEN th' = [th EXCEPT ![p].pc = "user"] /\ UNCHANGED <<lock, cli>>
                           ELSE /\ th' = [th EXCEPT ![p].pc = "acquire"]
                                /\ lock' = [lock EXCEPT !["ptable"] = c]
                                /\ ncli' = [ncli EXCEPT ![c] = 2] /\ IF_' = [IF_ EXCEPT ![c] = FALSE] /\ UNCHANGED intena
  /\ UNCHANGED <<input, killed, intr, out>>
Dispatch(c, p) ==
  /\ Runs(c, None) /\ th[p].pc = "runnable" /\ lock["ptable"] = None
  /\ task' = [task EXCEPT ![c] = p]
  /\ IF th[p].op = "none" THEN th' = [th EXCEPT ![p].pc = "user"] /\ UNCHANGED cli
                           ELSE th' = [th EXCEPT ![p].pc = "acquire"] /\ Pushcli(c)
  /\ UNCHANGED <<input, lock, killed, intr, out>>

(* kill, from anywhere; consolewrite does not look at the flag.            *)
Kill(p) ==
  /\ lock["ptable"] = None /\ p \notin killed /\ th[p].op = "read"
  /\ killed' = killed \cup {p}
  /\ th' = [th EXCEPT ![p].pc = IF @ = "asleep" THEN "runnable" ELSE @]
  /\ UNCHANGED <<input, lock, cli, task, intr, out>>

-----------------------------------------------------------------------------
(* consoleintr.                                                            *)

(* The handler returns, and the flags with it.                             *)
Iret ==
  /\ intr' = NoIntr
  /\ ncli' = [ncli EXCEPT ![Boot] = @ - 1]
  /\ IF_' = [IF_ EXCEPT ![Boot] = TRUE]
  /\ UNCHANGED intena

Interrupt ==
  /\ IF_[Boot] /\ intr.pc = "none"
  /\ intr' = [NoIntr EXCEPT !.pc = "acquire"]
  /\ IF_' = [IF_ EXCEPT ![Boot] = FALSE]
  /\ ncli' = [ncli EXCEPT ![Boot] = @ + 1]
  /\ intena' = IF ncli[Boot] = 0 THEN [intena EXCEPT ![Boot] = FALSE] ELSE intena
  /\ UNCHANGED <<input, lock, task, th, killed, out>>

IntrTakeCons ==
  /\ intr.pc = "acquire"
  /\ Acquire(Boot, "cons")
  /\ intr' = [intr EXCEPT !.pc = "keys"]
  /\ UNCHANGED <<input, cli, task, th, killed, out>>

Keys == intr.pc = "keys" /\ UNCHANGED <<task, th, killed, lock, out>>

(* ^P and the list commands are only noted.                                *)
CommandKey(k) ==
  /\ Keys
  /\ intr' = [intr EXCEPT !.cmds = @ \cup {k}]
  /\ UNCHANGED <<input, cli>>

(* ^U erases as far as the last newline, ^H one character.                 *)
(* Mutant: ^H also erases what is finished.                                *)
EraseKeyAny(k) ==
  /\ Keys
  /\ e' = IF k = "kill" THEN w ELSE Uint(e - 1)
  /\ UNCHANGED <<buf, r, w, cli, intr>>
EraseKey(k) ==
  LET erased == CHOOSE n \in 0..INPUT_BUF :
                  /\ Uint(e - n) = w \/ buf[Uint(e - n - 1) % INPUT_BUF] = "nl"
                  /\ \A m \in 0..n - 1 : ~(Uint(e - m) = w \/ buf[Uint(e - m - 1) % INPUT_BUF] = "nl")
  IN /\ Keys
     /\ e' = IF k = "kill" THEN Uint(e - erased) ELSE IF e # w THEN Uint(e - 1) ELSE e
     /\ UNCHANGED <<buf, r, w, cli, intr>>

(* Other characters; the ring may be full.                                 *)
(* Mutant: a full ring wakes nobody.                                       *)
CharKeyFullQuiet(k) ==
  LET ends == k \in {"nl", "eof"}
  IN /\ Keys
     /\ Uint(e - r) < INPUT_BUF
     /\ buf' = [buf EXCEPT ![e % INPUT_BUF] = k]
     /\ e' = Uint(e + 1)
     /\ w' = IF ends \/ e' = Uint(r + INPUT_BUF) THEN e' ELSE w
     /\ IF ends THEN intr' = [intr EXCEPT !.pc = "wake"] /\ Pushcli(Boot) ELSE UNCHANGED <<cli, intr>>
     /\ UNCHANGED r
CharKey(k) ==
  LET ends == k \in {"nl", "eof"} \/ e' = Uint(r + INPUT_BUF)
  IN /\ Keys
     /\ Uint(e - r) < INPUT_BUF
     /\ buf' = [buf EXCEPT ![e % INPUT_BUF] = k]
     /\ e' = Uint(e + 1)
     /\ w' = IF ends THEN e' ELSE w
     /\ IF ends THEN intr' = [intr EXCEPT !.pc = "wake"] /\ Pushcli(Boot) ELSE UNCHANGED <<cli, intr>>
     /\ UNCHANGED r

(* wakeup(&input.r), under ptable.lock.                                    *)
Wakeup ==
  /\ intr.pc = "wake" /\ lock["ptable"] = None
  /\ th' = [p \in Procs |-> IF th[p].pc = "asleep" THEN [th[p] EXCEPT !.pc = "runnable"] ELSE th[p]]
  /\ intr' = [intr EXCEPT !.pc = "keys"]
  /\ Popcli(Boot)
  /\ UNCHANGED <<input, lock, task, killed, out>>

(* No more characters: release cons.lock, then run the commands.           *)
KeysDone ==
  /\ intr.pc = "keys"
  /\ lock' = [lock EXCEPT !["cons"] = None]
  /\ IF intr.cmds = {} THEN Iret
     ELSE intr' = [intr EXCEPT !.pc = IF "dump" \in intr.cmds THEN "dump" ELSE "list"] /\ UNCHANGED cli
  /\ UNCHANGED <<input, task, th, killed, out>>

(* procdump calls cprintf without any lock.                                *)
Dump ==
  /\ intr.pc = "dump" /\ lock["cons"] = None
  /\ IF "list" \in intr.cmds THEN intr' = [intr EXCEPT !.pc = "list"] /\ UNCHANGED cli ELSE Iret
  /\ UNCHANGED <<input, lock, task, th, killed, out>>

(* The list commands call cprintf under ptable.lock.                       *)
List ==
  /\ intr.pc = "list"
  /\ Acquire(Boot, "ptable")
  /\ intr' = [intr EXCEPT !.pc = "print"]
  /\ Pushcli(Boot)
  /\ UNCHANGED <<input, task, th, killed, out>>
PrintList ==
  /\ intr.pc = "print" /\ lock["cons"] = None
  /\ lock' = [lock EXCEPT !["ptable"] = None]
  /\ intr' = NoIntr
  /\ ncli' = [ncli EXCEPT ![Boot] = @ - 2] /\ IF_' = [IF_ EXCEPT ![Boot] = TRUE] /\ UNCHANGED intena
  /\ UNCHANGED <<input, task, th, killed, out>>

-----------------------------------------------------------------------------
ProcStep(c, p) ==
  \/ \E n \in ReadSizes : Call(c, p, "read", n)
  \/ Call(c, p, "write", 0)
  \/ TakeCons(c, p) \/ Return(c, p) \/ ReadChar(c, p) \/ ReadNothing(c, p) \/ Sleep(c, p) \/ Dispatch(c, p)

IntrStep ==
  \/ Interrupt \/ IntrTakeCons \/ Wakeup \/ KeysDone \/ Dump \/ List \/ PrintList
  \/ \E k \in {"dump", "list"} : CommandKey(k)
  \/ \E k \in {"kill", "bs"} : EraseKey(k)
  \/ \E k \in Typed : CharKey(k)

Next == (\E c \in Cpus, p \in Procs : ProcStep(c, p)) \/ (\E p \in Procs : Kill(p)) \/ IntrStep

Spec == Init /\ [][Next]_vars

-----------------------------------------------------------------------------
(* Properties.                                                             *)

Between(i, j) == [n \in 1..Uint(j - i) |-> buf[Uint(i + n - 1) % INPUT_BUF]]
Queue == INSTANCE LineQueue WITH
           Chars <- Typed, NewLine <- "nl", EndOfFile <- "eof", Capacity <- INPUT_BUF,
           ready <- Between(r, w), edit <- Between(w, e)

(* The ring with its three indices implements the queue of lines: readers  *)
(* get what was typed and not erased, in order and once, editing keys do   *)
(* not reach finished lines, a full ring drops what comes and overwrites   *)
(* nothing, also when the indices wrap.                                    *)
Lines == Queue!QSpec

(* No process sleeps in consoleread beside input it could have.            *)
ReaderWoken == (\E p \in Procs : th[p].pc = "asleep") => r = w \/ intr.pc = "wake"

(* The lock a processor is spinning for.                                   *)
Wants(c) ==
  IF c = Boot /\ intr.pc # "none"
  THEN CASE intr.pc \in {"acquire", "dump", "print"} -> "cons"
         [] intr.pc \in {"wake", "list"} -> "ptable"
         [] OTHER -> "nothing"
  ELSE IF task[c] = None THEN "nothing"
  ELSE CASE th[task[c]].pc = "acquire" -> "cons"
         [] th[task[c]].pc = "sleep" -> "ptable"
         [] OTHER -> "nothing"
WaitsFor(c, d) == Wants(c) # "nothing" /\ lock[Wants(c)] = d

(* pushcli and popcli are balanced: interrupts are on exactly when the     *)
(* processor neither holds nor wants a lock and is not in the handler.     *)
CliBalanced ==
  \A c \in Cpus :
    /\ ncli[c] = Cardinality({l \in Locks : lock[l] = c}) + (IF Wants(c) = "nothing" THEN 0 ELSE 1)
    /\ IF_[c] <=> ncli[c] = 0

(* No processor asks for a lock it holds, so acquire does not panic: the   *)
(* handler never interrupts a critical section.  Two processors wait for   *)
(* each other's lock in one case only: one is in a list command, which     *)
(* takes cons.lock under ptable.lock (proc.c:1145), the other in           *)
(* consoleread, on its way to sleep under cons.lock.                       *)
CircularWaitAccounted ==
  /\ \A c \in Cpus : ~WaitsFor(c, c)
  /\ \A c, d \in Cpus : WaitsFor(c, d) /\ WaitsFor(d, c) /\ c # Boot
       => d = Boot /\ intr.pc = "print" /\ th[task[c]].pc = "sleep"
=============================================================================
