------------------------------ MODULE ProcTable ------------------------------
(***************************************************************************)
(* The process table of proc.c as it is built with CS333_P3P4: the state   *)
(* lists, the multi-level feedback queue, and every routine that moves a   *)
(* process between lists, run by NCPU processors under ptable.lock, with   *)
(* the interrupts of trap.c that enter them.                               *)
(*                                                                         *)
(* A critical section of ptable.lock is one step, except where the code    *)
(* itself hands the lock on: a process that gives up the processor leaves  *)
(* the lock to the scheduler of that processor, whose loop over the ready  *)
(* lists takes one step per list, and a process resumed inside wait() gets *)
(* the lock back with the processor.  ticks is not protected by the lock   *)
(* and changes between any two steps.                                      *)
(***************************************************************************)
EXTENDS StateLists

CONSTANTS
  NPROC,             \* slots of the process table (param.h)
  NCPU,              \* processors that run scheduler()
  MAX,               \* lowest priority
  DEFAULT_BUDGET,
  TICKS_TO_PROMOTE,
  UintMod,           \* uint arithmetic is modulo UintMod
  MaxTicks,          \* bound: the clock stops at this value (>= UintMod: it runs for ever)
  MaxPid,            \* bound: no process is created once nextpid exceeds it
  TicksApart,        \* assume CPU 0 reaches its scheduler between two clock ticks
  Events             \* the system calls and failures that happen in the instance

ASSUME ConstantsAssumption ==
  /\ NPROC \in Nat \ {0} /\ NCPU \in Nat \ {0} /\ MAX \in Nat
  /\ UintMod \in Nat \ {0}
  /\ DEFAULT_BUDGET \in 1..(UintMod - 1) /\ TICKS_TO_PROMOTE \in 1..(UintMod - 1)
  /\ MaxTicks \in Nat /\ MaxPid \in Nat \ {0} /\ TicksApart \in BOOLEAN

Procs == 1..NPROC
Cpus == 0..(NCPU-1)
NULL == 0
FREE == NCPU                      \* value of lock while nobody holds ptable.lock

(* userinit pushes the slots on the free list in index order, so the first *)
(* process takes the last slot.                                            *)
initproc == NPROC

(* Sleep channels: the address of a process (wait), &ticks, and one        *)
(* address that stands for every other kernel object a process sleeps on.  *)
TICKS == NPROC + 1
IO == NPROC + 2
Chans == {NULL, TICKS, IO} \cup Procs

States == {"UNUSED", "EMBRYO", "SLEEPING", "RUNNABLE", "RUNNING", "ZOMBIE"}

(* struct StateLists: one list per state, and MAX + 1 ready lists.         *)
ListId == ((States \ {"RUNNABLE"}) \X {0}) \cup ({"RUNNABLE"} \X (0..MAX))
free == <<"UNUSED", 0>>
embryo == <<"EMBRYO", 0>>
sleeping == <<"SLEEPING", 0>>
running == <<"RUNNING", 0>>
zombie == <<"ZOMBIE", 0>>
ready(i) == <<"RUNNABLE", i>>

VARIABLES
  pLists,                                                \* ptable.pLists
  state, pid, parent, chan, killed, priority, budget,    \* struct proc
  nextpid, ticks, PromoteAtTime,
  lock,              \* the CPU that holds ptable.lock, or FREE
  proc,              \* per CPU: the process it runs, or NULL
  cpu_ticks_in,      \* per CPU: cpu_ticks_in of that process; no other is ever read
  cpc,               \* per CPU: where scheduler() is
  idx, idle,         \* per CPU: the locals i and idle of scheduler()
  irq,               \* per CPU: the interrupt handler it is in
  ppc,               \* per process: where it runs, or resumes when dispatched
  np,                \* per process: the local np of fork()
  tickOwed,          \* CPU 0 has not looked at the clock since the last tick
  panicked           \* why the kernel stopped

lists == <<pLists, state>>
ids == <<pid, parent, killed>>
mlfq == <<priority, budget>>
ptable == <<lists, ids, mlfq, chan>>
cpuvars == <<lock, proc, cpu_ticks_in, cpc, idx, idle>>
clock == <<ticks, PromoteAtTime, tickOwed>>
calm == <<clock, nextpid, irq>>
vars == <<ptable, cpuvars, calm, ppc, np, panicked>>

TypeOK ==
  /\ pLists \in [ListId -> Seq(Procs)]
  /\ state \in [Procs -> States]
  /\ pid \in [Procs -> 0..MaxPid]
  /\ parent \in [Procs -> Procs \cup {NULL}]
  /\ chan \in [Procs -> Chans]
  /\ killed \in [Procs -> BOOLEAN]
  /\ priority \in [Procs -> 0..MAX]
  /\ budget \in [Procs -> 0..(UintMod-1)]
  /\ nextpid \in 1..(MaxPid+1)
  /\ ticks \in 0..(UintMod-1)
  /\ PromoteAtTime \in 0..(UintMod-1)
  /\ lock \in Cpus \cup {FREE}
  /\ proc \in [Cpus -> Procs \cup {NULL}]
  /\ cpu_ticks_in \in [Cpus -> 0..(UintMod-1)]
  /\ cpc \in [Cpus -> {"start", "scan", "run", "hlt"}]
  /\ idx \in [Cpus -> 0..(MAX+1)]
  /\ idle \in [Cpus -> BOOLEAN]
  /\ irq \in [Cpus -> {"none", "tick", "dev", "yield"}]
  /\ ppc \in [Procs -> {"new", "user", "kern", "fork1", "fork2", "fork3", "wait", "ret", "exit"}]
  /\ np \in [Procs -> Procs \cup {NULL}]
  /\ tickOwed \in BOOLEAN
  /\ panicked \in {"no", "list", "init exiting"}

(* The state userinit leaves: the first process on ready[0], every other   *)
(* slot on the free list.                                                  *)
Init ==
  /\ pLists = [l \in ListId |-> CASE l = free -> [k \in 1..(NPROC-1) |-> NPROC - k]
                                  [] l = ready(0) -> <<initproc>>
                                  [] OTHER -> <<>>]
  /\ state = [p \in Procs |-> IF p = initproc THEN "RUNNABLE" ELSE "UNUSED"]
  /\ pid = [p \in Procs |-> IF p = initproc THEN 1 ELSE 0]
  /\ parent = [p \in Procs |-> NULL]
  /\ chan = [p \in Procs |-> NULL]
  /\ killed = [p \in Procs |-> FALSE]
  /\ priority = [p \in Procs |-> 0]
  /\ budget = [p \in Procs |-> IF p = initproc THEN DEFAULT_BUDGET ELSE 0]
  /\ nextpid = 2
  /\ ticks = 0
  /\ PromoteAtTime = TICKS_TO_PROMOTE
  /\ lock = FREE
  /\ proc = [c \in Cpus |-> NULL]
  /\ cpu_ticks_in = [c \in Cpus |-> 0]
  /\ cpc = [c \in Cpus |-> "start"]
  /\ idx = [c \in Cpus |-> 0]
  /\ idle = [c \in Cpus |-> TRUE]
  /\ irq = [c \in Cpus |-> "none"]
  /\ ppc = [p \in Procs |-> "new"]
  /\ np = [p \in Procs |-> NULL]
  /\ tickOwed = FALSE
  /\ panicked = "no"

-----------------------------------------------------------------------------
(* Helpers                                                                 *)

Unlocked == lock = FREE

(* What CPU c is doing, as long as the kernel has not panicked: running    *)
(* scheduler() at the given place, an interrupt handler, or process p      *)
(* outside any interrupt handler.                                          *)
Schedules(c, where) == panicked = "no" /\ irq[c] = "none" /\ cpc[c] = where
Handles(c, what) == panicked = "no" /\ irq[c] \in what
Runs(c, p, where) == Schedules(c, "run") /\ proc[c] = p /\ ppc[p] = where

Goto(p, where) == ppc' = [ppc EXCEPT ![p] = where]

(* removefromlist and assertstate succeed, or the kernel panics; what the  *)
(* step does to the other variables then no longer matters.                *)
OnList(p, l) == p \in Range(pLists[l]) /\ state[p] = l[1]
Check(ok) == panicked' = IF ok THEN "no" ELSE "list"

(* Mutant: the process is linked into the new list but not unlinked.       *)
LinkToFront(L, p, from, to) == [L EXCEPT ![to] = addtofrontoflist(@, p)]

MoveToFront(L, p, from, to) ==
  [L EXCEPT ![from] = removefromlist(@, p), ![to] = addtofrontoflist(@, p)]
MoveToReady(L, p, from, prio) ==
  [L EXCEPT ![from] = removefromlist(@, p), ![ready(prio)] = addtoreadyprioritylist(@, p)]

(* wakeup1: the sleepers on ch leave the sleep list, in its order, each    *)
(* for the tail of the ready list of its priority.                         *)
Sleepers(L, ch) == {q \in Range(L[sleeping]) : chan[q] = ch}
Wake(L, W) ==
  [l \in ListId |->
     IF l = sleeping THEN Keep(L[sleeping], Procs \ W)
     ELSE IF l[1] = "RUNNABLE"
          THEN L[l] \o Keep(L[sleeping], {q \in W : priority[q] = l[2]})
          ELSE L[l]]
AsRunnable(W) == [q \in Procs |-> IF q \in W THEN "RUNNABLE" ELSE state[q]]
AllAsleep(W) == \A q \in W : state[q] = "SLEEPING"

(* wakeup(ch)                                                              *)
WakeupOn(ch) ==
  LET W == Sleepers(pLists, ch)
  IN /\ pLists' = Wake(pLists, W)
     /\ state' = AsRunnable(W)
     /\ Check(AllAsleep(W))
     /\ UNCHANGED <<ids, mlfq, chan>>

(* The budget left when the process p of CPU c gives up the processor:     *)
(* uint arithmetic, and budget <= 0 on a uint is budget = 0.               *)
Left(c, p) == (budget[p] - ((ticks - cpu_ticks_in[c]) % UintMod)) % UintMod
(* Mutant: the budget is not renewed.                                      *)
ChargedBudgetNoReset(c, p) == Left(c, p)
ChargedPriority(c, p) ==
  IF Left(c, p) <= 0 /\ priority[p] # MAX THEN priority[p] + 1 ELSE priority[p]
ChargedBudget(c, p) == IF Left(c, p) <= 0 THEN DEFAULT_BUDGET ELSE Left(c, p)
Charge(c, p) ==
  /\ budget' = [budget EXCEPT ![p] = ChargedBudget(c, p)]
  /\ priority' = [priority EXCEPT ![p] = ChargedPriority(c, p)]

(* sched(): swtch from the process on CPU c to the scheduler of c, which   *)
(* goes on with its loop, holding ptable.lock.                             *)
(* Mutant: the scheduler does not forget the process.                      *)
SchedKeepsProc(c) ==
  /\ lock' = c
  /\ cpc' = [cpc EXCEPT ![c] = "scan"]
  /\ UNCHANGED <<proc, cpu_ticks_in, idx, idle>>
Sched(c) ==
  /\ lock' = c
  /\ proc' = [proc EXCEPT ![c] = NULL]
  /\ cpu_ticks_in' = [cpu_ticks_in EXCEPT ![c] = 0]
  /\ cpc' = [cpc EXCEPT ![c] = "scan"]
  /\ UNCHANGED <<idx, idle>>

-----------------------------------------------------------------------------
(* scheduler()                                                             *)

SchedAcquire(c) ==
  /\ Schedules(c, "start") /\ Unlocked
  /\ lock' = c
  /\ cpc' = [cpc EXCEPT ![c] = "scan"]
  /\ UNCHANGED <<ptable, proc, cpu_ticks_in, idx, idle, calm, ppc, np, panicked>>

(* Promotion: sleeping and running processes go up one level, and the      *)
(* ready lists are spliced upwards one by one, the list of level 1 behind  *)
(* the list of level 0.                                                    *)
PromotedLists ==
  [l \in ListId |->
     IF l[1] # "RUNNABLE" \/ MAX = 0 THEN pLists[l]
     ELSE IF l[2] = 0 THEN pLists[ready(0)] \o pLists[ready(1)]
     ELSE IF l[2] = MAX THEN <<>>
     ELSE pLists[ready(l[2] + 1)]]
(* Mutant: the sleeping and running processes are forgotten.               *)
PromotedReadyOnly ==
  [q \in Procs |->
     IF \E i \in 1..MAX : q \in Range(pLists[ready(i)]) THEN priority[q] - 1 ELSE priority[q]]
PromotedPriority ==
  [q \in Procs |->
     IF q \in Range(pLists[sleeping]) \cup Range(pLists[running])
     THEN IF priority[q] # 0 THEN priority[q] - 1 ELSE 0
     ELSE IF \E i \in 1..MAX : q \in Range(pLists[ready(i)])
          THEN (CHOOSE i \in 1..MAX : q \in Range(pLists[ready(i)])) - 1
          ELSE priority[q]]

(* Mutant: a tick late.                                                    *)
DueLate == PromoteAtTime < ticks
Due == PromoteAtTime = ticks
ListsNow == IF Due THEN PromotedLists ELSE pLists
PriorityNow == IF Due THEN PromotedPriority ELSE priority
LookAtClock(c) ==
  /\ PromoteAtTime' = IF Due THEN (ticks + TICKS_TO_PROMOTE) % UintMod ELSE PromoteAtTime
  /\ priority' = PriorityNow
  /\ tickOwed' = IF c = 0 THEN FALSE ELSE tickOwed
  /\ UNCHANGED ticks

(* One turn of the loop that finds ready[i] empty.                         *)
SkipList(c) ==
  /\ Schedules(c, "scan") /\ idx[c] <= MAX
  /\ ListsNow[ready(idx[c])] = <<>>
  /\ LookAtClock(c)
  /\ pLists' = ListsNow
  /\ idx' = [idx EXCEPT ![c] = @ + 1]
  /\ UNCHANGED <<state, ids, budget, chan, lock, proc, cpu_ticks_in, cpc, idle,
                 nextpid, irq, ppc, np, panicked>>

(* Where the loop goes on when the dispatched process comes back.          *)
(* Mutant: the scan is not restarted at the top.                           *)
NextIndexOnward(i) == i + 1
NextIndex(i) == IF i # MAX THEN 0 ELSE MAX + 1

(* One turn that dispatches the head of ready[i].  The process goes on     *)
(* behind its own sched(): in yield and sleep, or in forkret, it releases  *)
(* the lock; in wait it keeps it.                                          *)
Dispatch(c) ==
  /\ Schedules(c, "scan") /\ idx[c] <= MAX
  /\ ListsNow[ready(idx[c])] # <<>>
  /\ LET p == Head(ListsNow[ready(idx[c])])
         from == ready(PriorityNow[p])
     IN /\ Check(ListsNow[from] # <<>> /\ state[p] = "RUNNABLE")
        /\ pLists' = [ListsNow EXCEPT ![from] = removefromfront(@),
                                      ![running] = addtofrontoflist(@, p)]
        /\ state' = [state EXCEPT ![p] = "RUNNING"]
        /\ chan' = [chan EXCEPT ![p] = NULL]
        /\ lock' = IF ppc[p] = "wait" THEN c ELSE FREE
        /\ proc' = [proc EXCEPT ![c] = p]
        /\ ppc' = [ppc EXCEPT ![p] = IF @ = "new" THEN "user" ELSE @]
  /\ LookAtClock(c)
  /\ cpu_ticks_in' = [cpu_ticks_in EXCEPT ![c] = ticks]
  /\ cpc' = [cpc EXCEPT ![c] = "run"]
  /\ idx' = [idx EXCEPT ![c] = NextIndex(@)]
  /\ idle' = [idle EXCEPT ![c] = FALSE]
  /\ UNCHANGED <<ids, budget, nextpid, irq, np>>

(* The loop is over: release the lock, halt if nothing was dispatched.     *)
SchedRelease(c) ==
  /\ Schedules(c, "scan") /\ idx[c] > MAX
  /\ lock' = FREE
  /\ cpc' = [cpc EXCEPT ![c] = IF idle[c] THEN "hlt" ELSE "start"]
  /\ idx' = [idx EXCEPT ![c] = 0]
  /\ idle' = [idle EXCEPT ![c] = TRUE]
  /\ UNCHANGED <<ptable, proc, cpu_ticks_in, calm, ppc, np, panicked>>

-----------------------------------------------------------------------------
(* Interrupts (trap.c).  acquire() keeps them off while a lock is held.    *)

InterruptsOn(c) == Handles(c, {"none"}) /\ lock # c /\ cpc[c] # "scan"

(* The timer of CPU 0 advances the clock.                                  *)
TickInterrupt ==
  /\ InterruptsOn(0) /\ ticks < MaxTicks /\ ~tickOwed
  /\ ticks' = (ticks + 1) % UintMod
  /\ tickOwed' = TicksApart
  /\ irq' = [irq EXCEPT ![0] = "tick"]
  /\ UNCHANGED <<ptable, cpuvars, PromoteAtTime, nextpid, ppc, np, panicked>>

(* The timer of another CPU makes its process yield, or ends its hlt.      *)
TimerInterrupt(c) ==
  /\ c # 0 /\ InterruptsOn(c) /\ cpc[c] # "start"
  /\ irq' = [irq EXCEPT ![c] = IF proc[c] # NULL THEN "yield" ELSE "none"]
  /\ cpc' = [cpc EXCEPT ![c] = IF @ = "hlt" THEN "start" ELSE @]
  /\ UNCHANGED <<ptable, lock, proc, cpu_ticks_in, idx, idle, clock, nextpid, ppc, np, panicked>>

(* The keyboard and the serial port interrupt the first processor, the     *)
(* disk the last one (ioapicenable).                                       *)
DeviceInterrupt(c) ==
  /\ \/ c = 0 /\ "keys" \in Events
     \/ c = NCPU - 1 /\ "disk" \in Events
  /\ InterruptsOn(c)
  /\ irq' = [irq EXCEPT ![c] = "dev"]
  /\ UNCHANGED <<ptable, cpuvars, clock, nextpid, ppc, np, panicked>>

(* A process interrupted in user mode checks killed before it goes back.   *)
BackFromTrap(where) == IF where = "user" THEN "ret" ELSE where

(* Mutant: a clock tick does not take the processor from the process.      *)
InterruptWakeupOnly(c) ==
  /\ Handles(c, {"tick", "dev"}) /\ Unlocked
  /\ WakeupOn(IF irq[c] = "tick" THEN TICKS ELSE IO)
  /\ irq' = [irq EXCEPT ![c] = "none"]
  /\ cpc' = [cpc EXCEPT ![c] = IF @ = "hlt" THEN "start" ELSE @]
  /\ UNCHANGED <<lock, proc, cpu_ticks_in, idx, idle, clock, nextpid, ppc, np>>

(* The handlers of the clock tick and of a device wake their sleepers.     *)
InterruptWakeup(c) ==
  /\ Handles(c, {"tick", "dev"}) /\ Unlocked
  /\ WakeupOn(IF irq[c] = "tick" THEN TICKS ELSE IO)
  /\ irq' = [irq EXCEPT ![c] = IF @ = "tick" /\ proc[c] # NULL THEN "yield" ELSE "none"]
  /\ cpc' = [cpc EXCEPT ![c] = IF @ = "hlt" THEN "start" ELSE @]
  /\ ppc' = [p \in Procs |-> IF irq[c] = "dev" /\ p = proc[c] THEN BackFromTrap(ppc[p]) ELSE ppc[p]]
  /\ UNCHANGED <<lock, proc, cpu_ticks_in, idx, idle, clock, nextpid, np>>

(* exit() begins: it closes files, and may sleep, before it takes the lock.*)
EnterExit(p) ==
  /\ panicked' = IF p = initproc THEN "init exiting" ELSE "no"
  /\ Goto(p, "exit")

(* A killed process interrupted in user mode exits instead of yielding.    *)
TimerExit(c) ==
  /\ Handles(c, {"yield"}) /\ ppc[proc[c]] = "user" /\ killed[proc[c]]
  /\ EnterExit(proc[c])
  /\ irq' = [irq EXCEPT ![c] = "none"]
  /\ UNCHANGED <<ptable, cpuvars, clock, nextpid, np>>

(* yield() from the timer interrupt.  The return code of removefromlist is *)
(* not looked at.                                                          *)
Yield(c) ==
  LET p == proc[c]
  IN /\ Handles(c, {"yield"}) /\ Unlocked
     /\ ~(ppc[p] = "user" /\ killed[p])
     /\ Check(state[p] = "RUNNING")
     /\ pLists' = MoveToReady(pLists, p, running, ChargedPriority(c, p))
     /\ state' = [state EXCEPT ![p] = "RUNNABLE"]
     /\ Charge(c, p)
     /\ Sched(c)
     /\ Goto(p, BackFromTrap(ppc[p]))
     /\ irq' = [irq EXCEPT ![c] = "none"]
     /\ UNCHANGED <<ids, chan, clock, nextpid, np>>

-----------------------------------------------------------------------------
(* Traps and system calls of the process p on CPU c                        *)

(* A system call: a killed process exits instead.                          *)
SyscallEnter(c, p) ==
  /\ Runs(c, p, "user")
  /\ IF killed[p] THEN EnterExit(p) ELSE Goto(p, "kern") /\ UNCHANGED panicked
  /\ UNCHANGED <<ptable, cpuvars, calm, np>>

(* A fault in user mode: the process is marked killed and exits.           *)
UserFault(c, p) ==
  /\ "fault" \in Events
  /\ Runs(c, p, "user")
  /\ killed' = [killed EXCEPT ![p] = TRUE]
  /\ EnterExit(p)
  /\ UNCHANGED <<lists, pid, parent, mlfq, chan, cpuvars, calm, np>>

(* The call is done, or never touched the process table.                   *)
SyscallDone(c, p) ==
  /\ Runs(c, p, "kern")
  /\ Goto(p, "ret")
  /\ UNCHANGED <<ptable, cpuvars, calm, np, panicked>>

(* The way back to user mode.                                              *)
TrapReturn(c, p) ==
  /\ Runs(c, p, "ret")
  /\ IF killed[p] THEN EnterExit(p) ELSE Goto(p, "user") /\ UNCHANGED panicked
  /\ UNCHANGED <<ptable, cpuvars, calm, np>>

SysExit(c, p) ==
  /\ "exit" \in Events
  /\ Runs(c, p, "kern")
  /\ EnterExit(p)
  /\ UNCHANGED <<ptable, cpuvars, calm, np>>

(* sleep(), from the point where ptable.lock is held.  The process goes on *)
(* at `where' when it is dispatched again.                                 *)
SleepBody(c, p, ch, where) ==
  /\ chan' = [chan EXCEPT ![p] = ch]
  /\ Check(OnList(p, running))
  /\ pLists' = MoveToFront(pLists, p, running, sleeping)
  /\ Charge(c, p)
  /\ state' = [state EXCEPT ![p] = "SLEEPING"]
  /\ Goto(p, where)
  /\ Sched(c)
  /\ UNCHANGED <<ids, calm, np>>

Sleep(c, p, ch) ==
  /\ (IF ch = TICKS THEN "nap" ELSE "sleep") \in Events
  /\ Runs(c, p, "kern") \/ (Runs(c, p, "exit") /\ ch = IO)
  /\ Unlocked
  /\ SleepBody(c, p, ch, ppc[p])

(* wakeup(chan) called by a process.                                       *)
Wakeup(c, p) ==
  /\ "wakeup" \in Events
  /\ Runs(c, p, "kern") \/ Runs(c, p, "exit")
  /\ Unlocked
  /\ WakeupOn(IO)
  /\ UNCHANGED <<cpuvars, calm, ppc, np>>

-----------------------------------------------------------------------------
(* fork()                                                                  *)

(* allocproc takes the head of the free list.                              *)
ForkAlloc(c, p) ==
  LET q == Head(pLists[free])
  IN /\ "fork" \in Events
     /\ Runs(c, p, "kern") /\ Unlocked /\ nextpid <= MaxPid
     /\ pLists[free] # <<>>
     /\ Check(state[q] = "UNUSED")
     /\ pLists' = [pLists EXCEPT ![free] = removefromfront(@),
                                 ![embryo] = addtofrontoflist(@, q)]
     /\ state' = [state EXCEPT ![q] = "EMBRYO"]
     /\ pid' = [pid EXCEPT ![q] = nextpid]
     /\ nextpid' = nextpid + 1
     /\ np' = [np EXCEPT ![p] = q]
     /\ Goto(p, "fork1")
     /\ UNCHANGED <<parent, killed, mlfq, chan, cpuvars, clock, irq>>

(* allocproc found a kernel stack and, outside the lock, sets the          *)
(* scheduling fields.                                                      *)
AllocInit(c, p) ==
  /\ Runs(c, p, "fork1")
  /\ budget' = [budget EXCEPT ![np[p]] = DEFAULT_BUDGET]
  /\ priority' = [priority EXCEPT ![np[p]] = 0]
  /\ Goto(p, "fork2")
  /\ UNCHANGED <<lists, ids, chan, cpuvars, calm, np, panicked>>

(* No kernel stack (allocproc), or no memory for the image (fork): the     *)
(* slot goes back to the free list, and nothing else of it is reset.       *)
ForkFail(c, p) ==
  /\ "nomem" \in Events
  /\ Runs(c, p, "fork1") \/ Runs(c, p, "fork2")
  /\ Unlocked
  /\ Check(OnList(np[p], embryo))
  /\ pLists' = MoveToFront(pLists, np[p], embryo, free)
  /\ state' = [state EXCEPT ![np[p]] = "UNUSED"]
  /\ np' = [np EXCEPT ![p] = NULL]
  /\ Goto(p, "ret")
  /\ UNCHANGED <<ids, mlfq, chan, cpuvars, calm>>

(* The image is copied; the child gets its parent outside the lock.        *)
ForkCopy(c, p) ==
  /\ Runs(c, p, "fork2")
  /\ parent' = [parent EXCEPT ![np[p]] = p]
  /\ Goto(p, "fork3")
  /\ UNCHANGED <<lists, pid, killed, mlfq, chan, cpuvars, calm, np, panicked>>

(* The child becomes RUNNABLE and will start in forkret.                   *)
ForkPublish(c, p) ==
  /\ Runs(c, p, "fork3") /\ Unlocked
  /\ Check(OnList(np[p], embryo))
  /\ pLists' = MoveToReady(pLists, np[p], embryo, priority[np[p]])
  /\ state' = [state EXCEPT ![np[p]] = "RUNNABLE"]
  /\ ppc' = [ppc EXCEPT ![p] = "ret", ![np[p]] = "new"]
  /\ np' = [np EXCEPT ![p] = NULL]
  /\ UNCHANGED <<ids, mlfq, chan, cpuvars, calm>>

-----------------------------------------------------------------------------
(* exit() and wait()                                                       *)

(* Mutant: the ready lists are forgotten.                                  *)
AdoptNoReady == {embryo, sleeping, running}

(* The lists whose members adoptzombiechildren is called on, and which     *)
(* checkforchildren searches.                                              *)
AdoptLists == {embryo, sleeping, running} \cup {ready(i) : i \in 0..MAX}
OnSome(L, ls) == UNION {Range(L[l]) : l \in ls}

(* The rest of exit(), under the lock: wake the parent, hand the children  *)
(* to init and wake init for each zombie among them, become a zombie.      *)
Exit(c, p) ==
  LET W1 == Sleepers(pLists, parent[p])
      L1 == Wake(pLists, W1)
      Z  == {q \in Range(L1[zombie]) : parent[q] = p}
      W2 == IF Z = {} THEN {} ELSE Sleepers(L1, initproc)
      L2 == Wake(L1, W2)
      kids == {q \in OnSome(L1, AdoptLists) : parent[q] = p} \cup Z
  IN /\ Runs(c, p, "exit") /\ Unlocked
     /\ Check(AllAsleep(W1 \cup W2) /\ OnList(p, running))
     /\ pLists' = MoveToFront(L2, p, running, zombie)
     /\ state' = [AsRunnable(W1 \cup W2) EXCEPT ![p] = "ZOMBIE"]
     /\ parent' = [q \in Procs |-> IF q \in kids THEN initproc ELSE parent[q]]
     /\ Sched(c)
     /\ UNCHANGED <<pid, killed, mlfq, chan, calm, ppc, np>>

(* wait() entered with a system call, or resumed with the lock.            *)
InWait(c, p) ==
  \/ "wait" \in Events /\ Runs(c, p, "kern") /\ Unlocked
  \/ Runs(c, p, "wait") /\ lock = c

(* Mutant: the head of the zombie list is skipped.                         *)
ZombieKidsNotHead(p) == {k \in 2..Len(pLists[zombie]) : parent[pLists[zombie][k]] = p}
ZombieKids(p) == {k \in 1..Len(pLists[zombie]) : parent[pLists[zombie][k]] = p}
HaveKids(p) == \E q \in OnSome(pLists, AdoptLists) : parent[q] = p

(* The first zombie child on the list is freed.                            *)
WaitReap(c, p) ==
  /\ InWait(c, p)
  /\ \E k \in ZombieKids(p) :
       LET q == pLists[zombie][k]
       IN /\ \A j \in ZombieKids(p) : k <= j
          /\ Check(OnList(q, zombie))
          /\ pLists' = MoveToFront(pLists, q, zombie, free)
          /\ state' = [state EXCEPT ![q] = "UNUSED"]
          /\ pid' = [pid EXCEPT ![q] = 0]
          /\ parent' = [parent EXCEPT ![q] = NULL]
          /\ killed' = [killed EXCEPT ![q] = FALSE]
  /\ lock' = FREE
  /\ Goto(p, "ret")
  /\ UNCHANGED <<mlfq, chan, proc, cpu_ticks_in, cpc, idx, idle, calm, np>>

WaitFail(c, p) ==
  /\ InWait(c, p) /\ ZombieKids(p) = {}
  /\ ~HaveKids(p) \/ killed[p]
  /\ lock' = FREE
  /\ Goto(p, "ret")
  /\ UNCHANGED <<ptable, proc, cpu_ticks_in, cpc, idx, idle, calm, np, panicked>>

WaitSleep(c, p) ==
  /\ InWait(c, p) /\ ZombieKids(p) = {}
  /\ HaveKids(p) /\ ~killed[p]
  /\ SleepBody(c, p, p, "wait")

-----------------------------------------------------------------------------
(* kill() and setpriority().  Each pid is given to one process, so it does *)
(* not matter in which order the lists are searched.  A pid that is on no  *)
(* list searched changes nothing (SyscallDone).                            *)

Kill(c, p, k) ==
  /\ "kill" \in Events
  /\ Runs(c, p, "kern") /\ Unlocked
  /\ \E q \in {r \in OnSome(pLists, AdoptLists) : pid[r] = k} :
       LET asleep == q \in Range(pLists[sleeping])
       IN /\ killed' = [killed EXCEPT ![q] = TRUE]
          /\ Check(asleep => state[q] = "SLEEPING")
          /\ pLists' = IF asleep THEN MoveToReady(pLists, q, sleeping, priority[q]) ELSE pLists
          /\ state' = [state EXCEPT ![q] = IF asleep THEN "RUNNABLE" ELSE @]
  /\ Goto(p, "ret")
  /\ UNCHANGED <<pid, parent, mlfq, chan, cpuvars, calm, np>>

SetPriority(c, p, k, prio) ==
  /\ "setpriority" \in Events
  /\ Runs(c, p, "kern") /\ Unlocked
  /\ \E q \in {r \in OnSome(pLists, AdoptLists \ {embryo}) : pid[r] = k} :
       /\ priority[q] # prio
       /\ priority' = [priority EXCEPT ![q] = prio]
       /\ budget' = [budget EXCEPT ![q] = DEFAULT_BUDGET]
       /\ pLists' = IF q \in Range(pLists[running]) \cup Range(pLists[sleeping]) THEN pLists
                    ELSE MoveToReady(pLists, q, ready(priority[q]), prio)
  /\ Goto(p, "ret")
  /\ UNCHANGED <<state, ids, chan, cpuvars, calm, np, panicked>>

-----------------------------------------------------------------------------
(* The machine stays in panic() for ever.                                  *)
PanicLoop == panicked # "no" /\ UNCHANGED vars

SchedStep(c) == SchedAcquire(c) \/ SkipList(c) \/ Dispatch(c) \/ SchedRelease(c)
HandlerStep(c) == InterruptWakeup(c) \/ TimerExit(c) \/ Yield(c)
Interrupt(c) == TimerInterrupt(c) \/ DeviceInterrupt(c)
TrapStep(c, p) ==
  SyscallEnter(c, p) \/ UserFault(c, p) \/ SyscallDone(c, p) \/ TrapReturn(c, p) \/ SysExit(c, p)
ForkStep(c, p) ==
  ForkAlloc(c, p) \/ AllocInit(c, p) \/ ForkFail(c, p) \/ ForkCopy(c, p) \/ ForkPublish(c, p)
WaitStep(c, p) == WaitReap(c, p) \/ WaitFail(c, p) \/ WaitSleep(c, p)

Next ==
  \/ TickInterrupt
  \/ \E c \in Cpus : SchedStep(c) \/ HandlerStep(c) \/ Interrupt(c)
  \/ \E c \in Cpus, p \in Procs :
       \/ TrapStep(c, p) \/ ForkStep(c, p) \/ WaitStep(c, p) \/ Exit(c, p) \/ Wakeup(c, p)
       \/ \E ch \in {TICKS, IO} : Sleep(c, p, ch)
       \/ \E k \in 1..MaxPid : Kill(c, p, k)
       \/ \E k \in 1..MaxPid, prio \in 0..MAX : SetPriority(c, p, k, prio)
  \/ PanicLoop

Spec == Init /\ [][Next]_vars

(* The processors run the scheduler and their interrupt handlers: neither  *)
(* is kept from its work for ever by interrupts or by other processors     *)
(* taking the lock.  The timers keep ticking, and a process resumed in     *)
(* wait() with the lock, interrupts off, runs on until it gives it up.     *)
Fairness ==
  /\ \A c \in Cpus : /\ SF_vars(SchedStep(c)) /\ SF_vars(HandlerStep(c))
                     /\ WF_vars(TimerInterrupt(c))
  /\ SF_vars(TickInterrupt)
  /\ \A c \in Cpus, p \in Procs : WF_vars(lock = c /\ WaitStep(c, p))
FairSpec == Spec /\ Fairness

-----------------------------------------------------------------------------
(* Properties                                                              *)

(* The list a process belongs on by its own fields.                        *)
ListOf(p) == IF state[p] = "RUNNABLE" THEN ready(priority[p]) ELSE <<state[p], 0>>

(* Every slot is on exactly one state list, once, and it is the list of    *)
(* its state and, for a RUNNABLE process, of its priority: what every      *)
(* CS333_P3P4 routine must keep true of ptable.pLists.                     *)
ListsPartition ==
  \A l \in ListId :
    /\ IsInjective(pLists[l])
    /\ Range(pLists[l]) = {p \in Procs : ListOf(p) = l}

(* No removefromlist or removefromfront whose code checks the result       *)
(* fails, and no assertstate fails: the kernel never panics over a list.   *)
NoListPanic == panicked # "list"

(* A process is RUNNING exactly while one CPU has it as proc, and two CPUs *)
(* never run the same process.                                             *)
OneCpuPerProcess ==
  /\ \A p \in Procs : state[p] = "RUNNING" <=> \E c \in Cpus : proc[c] = p
  /\ \A c, d \in Cpus : proc[c] = proc[d] /\ proc[c] # NULL => c = d

(* ptable.lock is held by no one, by a scheduler in its loop, or by a      *)
(* process resumed inside wait(): whoever sched() hands the lock to gives  *)
(* it back.  A CPU runs a process exactly while its scheduler is inside    *)
(* swtch, and only then does a handler yield.                              *)
LockHandedOver ==
  \A c \in Cpus :
    /\ cpc[c] = "run" <=> proc[c] # NULL
    /\ lock = c <=> cpc[c] = "scan" \/ (cpc[c] = "run" /\ ppc[proc[c]] = "wait")
    /\ irq[c] = "yield" => cpc[c] = "run"

(* Between allocproc and the end of fork() the new slot is an EMBRYO, and  *)
(* it is the np of one process only: what fork() does to it outside the    *)
(* lock, nobody else does at the same time.                                *)
EmbryoOwned ==
  \A p \in Procs : ppc[p] \in {"fork1", "fork2", "fork3"} =>
    /\ np[p] \in Procs /\ state[np[p]] = "EMBRYO"
    /\ \A q \in Procs : ppc[q] \in {"fork1", "fork2", "fork3"} /\ np[q] = np[p] => q = p

(* The inductive invariant: none of the invariants above is kept by every  *)
(* step without the others.                                                *)
IInv == /\ TypeOK /\ ListsPartition /\ NoListPanic /\ OneCpuPerProcess
        /\ LockHandedOver /\ EmbryoOwned

(* A process that can still exit always has a parent that can still wait   *)
(* for it: exit() hands its children over on every list they may be on.    *)
ParentLive ==
  \A p \in Procs \ {initproc} :
    state[p] \in {"SLEEPING", "RUNNABLE", "RUNNING", "ZOMBIE"} =>
      /\ parent[p] # NULL
      /\ state[parent[p]] \in {"SLEEPING", "RUNNABLE", "RUNNING"}

(* A process asleep in wait() has a live child whose exit will wake it, no *)
(* zombie child it has missed, and has not been killed: neither exit() nor *)
(* kill() can slip between the checks of wait() and its sleep.             *)
WaiterWillBeWoken ==
  \A p \in Procs :
    state[p] = "SLEEPING" /\ ppc[p] = "wait" =>
      /\ ~killed[p]
      /\ \E q \in Procs : parent[q] = p
      /\ \A q \in Procs : parent[q] = p => state[q] \notin {"ZOMBIE", "UNUSED"}

(* A process that has just been given a pid by allocproc is not already    *)
(* killed: kill() acts on the process with the given pid and on no other.  *)
NewProcessNotKilled ==
  [][\A p \in Procs : pid'[p] # pid[p] /\ pid'[p] # 0 => ~killed'[p]]_vars

(* A live process always has between one tick and a full budget left: the  *)
(* charge of yield() and sleep() never takes the uint below zero, so a     *)
(* process that has used its budget up is always demoted.  A killed one    *)
(* goes from the timer interrupt into exit() with the tick unpaid.         *)
BudgetInRange ==
  \A p \in Procs :
    state[p] \in {"SLEEPING", "RUNNABLE", "RUNNING", "ZOMBIE"} /\ ~killed[p] =>
      budget[p] \in 1..DEFAULT_BUDGET

(* The promotion time is never behind the clock: scheduler() compares them *)
(* for equality, so a promotion time that has passed would stay behind     *)
(* until the clock wraps.                                                  *)
PromotionNotMissed == (PromoteAtTime - ticks) % UintMod <= TICKS_TO_PROMOTE

(* scheduler() dispatches a process only when every ready list of higher   *)
(* priority is empty.                                                      *)
StrictPriority ==
  [][\A c \in Cpus : proc[c] = NULL /\ proc'[c] # NULL =>
       \A i \in 0..MAX : i < priority'[proc'[c]] => pLists'[ready(i)] = <<>>]_vars

(* A promotion reaches every sleeping, running or ready process below the  *)
(* top level, and moves it up by exactly one level.                        *)
PromotionIsForAll ==
  [][PromoteAtTime' # PromoteAtTime =>
       \A p \in Procs : state[p] \in {"SLEEPING", "RUNNABLE", "RUNNING"} /\ priority[p] > 0 =>
         priority'[p] = priority[p] - 1]_vars

(* Every RUNNABLE process eventually runs: the clock takes the processor   *)
(* from whoever has it, budgets demote it, and promotion brings the low    *)
(* levels up, so no process waits for ever behind the others.              *)
RunnableRuns ==
  \A p \in Procs : state[p] = "RUNNABLE" ~> (state[p] = "RUNNING" \/ panicked # "no")
=============================================================================
