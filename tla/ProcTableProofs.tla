--------------------------- MODULE ProcTableProofs ---------------------------
(***************************************************************************)
(* The state lists, the processors, the handover of ptable.lock and the    *)
(* ownership of a new slot are kept by every step of ProcTable, for every  *)
(* number of slots, processors, priorities and pids.                       *)
(***************************************************************************)
EXTENDS ProcTableLists

-----------------------------------------------------------------------------
(* The processors and the lock                                             *)

CpuInv == OneCpuPerProcess /\ LockHandedOver

(* The parts of TypeOK the lemmas of this section use.                     *)
LEMMA CpuTypes ==
  ASSUME IInv
  PROVE  /\ CpuInv /\ EmbryoOwned
         /\ lock \in Cpus \cup {FREE} /\ proc \in [Cpus -> Procs \cup {NULL}]
         /\ cpc \in [Cpus -> {"start", "scan", "run", "hlt"}]
         /\ irq \in [Cpus -> {"none", "tick", "dev", "yield"}]
         /\ ppc \in [Procs -> {"new", "user", "kern", "fork1", "fork2", "fork3", "wait", "ret", "exit"}]
         /\ np \in [Procs -> Procs \cup {NULL}]
         /\ state \in [Procs -> States]
         /\ FREE \notin Cpus /\ NULL \notin Procs
<1>1. FREE \notin Cpus /\ NULL \notin Procs
  BY ConstantsAssumption DEF FREE, Cpus, NULL, Procs, ConstantsAssumption
<1>. QED BY <1>1 DEF IInv, TypeOK, CpuInv

(* No process gets or loses a CPU, and nobody gets or loses the lock.      *)
LEMMA Stay ==
  ASSUME IInv, UNCHANGED <<proc, lock>>,
         \A d \in Cpus : /\ cpc'[d] = "run" <=> cpc[d] = "run"
                         /\ cpc'[d] = "scan" <=> cpc[d] = "scan"
                         /\ irq'[d] = "yield" => cpc[d] = "run",
         \A q \in Procs : state'[q] = "RUNNING" <=> state[q] = "RUNNING",
         \A q \in Procs : state[q] = "RUNNING" => (ppc'[q] = "wait" <=> ppc[q] = "wait")
  PROVE  CpuInv'
<1>1. OneCpuPerProcess'
  BY CpuTypes DEF CpuInv, OneCpuPerProcess
<1>2. LockHandedOver'
  <2>. SUFFICES ASSUME NEW d \in Cpus
                PROVE  /\ cpc'[d] = "run" <=> proc[d] # NULL
                       /\ lock = d <=> cpc'[d] = "scan" \/ (cpc'[d] = "run" /\ ppc'[proc[d]] = "wait")
                       /\ irq'[d] = "yield" => cpc'[d] = "run"
    BY DEF LockHandedOver
  <2>1. /\ cpc[d] = "run" <=> proc[d] # NULL
        /\ lock = d <=> cpc[d] = "scan" \/ (cpc[d] = "run" /\ ppc[proc[d]] = "wait")
        /\ cpc[d] = "run" => proc[d] \in Procs /\ state[proc[d]] = "RUNNING"
    BY CpuTypes DEF CpuInv, LockHandedOver, OneCpuPerProcess
  <2>. QED BY <2>1
<1>. QED BY <1>1, <1>2 DEF CpuInv

(* The process of CPU c leaves the CPU for the scheduler, with the lock.   *)
LEMMA GiveUp ==
  ASSUME IInv, NEW c \in Cpus, NEW p \in Procs, proc[c] = p, Sched(c), lock \in {FREE, c},
         state'[p] # "RUNNING",
         \A q \in Procs \ {p} : state'[q] = "RUNNING" <=> state[q] = "RUNNING",
         \A q \in Procs \ {p} : ppc'[q] = ppc[q],
         \A d \in Cpus : irq'[d] = "yield" => irq[d] = "yield" /\ d # c
  PROVE  CpuInv'
<1>1. /\ lock' = c /\ proc' = [proc EXCEPT ![c] = NULL] /\ cpc' = [cpc EXCEPT ![c] = "scan"]
  BY DEF Sched
<1>2. \A d \in Cpus \ {c} : proc'[d] = proc[d] /\ cpc'[d] = cpc[d] /\ proc[d] # p
  BY <1>1, CpuTypes DEF CpuInv, OneCpuPerProcess
<1>3. proc'[c] = NULL /\ cpc'[c] = "scan"
  BY <1>1, CpuTypes
<1>4. OneCpuPerProcess'
  BY <1>2, <1>3, CpuTypes DEF CpuInv, OneCpuPerProcess
<1>5. ASSUME NEW d \in Cpus
      PROVE  /\ cpc'[d] = "run" <=> proc'[d] # NULL
             /\ lock' = d <=> cpc'[d] = "scan" \/ (cpc'[d] = "run" /\ ppc'[proc'[d]] = "wait")
             /\ irq'[d] = "yield" => cpc'[d] = "run"
  <2>1. CASE d = c
    BY <2>1, <1>1, <1>3
  <2>2. CASE d # c
    <3>1. /\ cpc[d] = "run" <=> proc[d] # NULL
          /\ lock = d <=> cpc[d] = "scan" \/ (cpc[d] = "run" /\ ppc[proc[d]] = "wait")
          /\ irq[d] = "yield" => cpc[d] = "run"
          /\ lock # d /\ lock' # d
      BY <2>2, <1>1, CpuTypes DEF CpuInv, LockHandedOver
    <3>2. cpc[d] = "run" => proc[d] \in Procs \ {p}
      BY <2>2, <3>1, <1>2, CpuTypes
    <3>. QED BY <2>2, <3>1, <3>2, <1>2
  <2>. QED BY <2>1, <2>2
<1>6. LockHandedOver'
  BY <1>5 DEF LockHandedOver
<1>. QED BY <1>4, <1>6 DEF CpuInv

(* A process in wait() returns and releases the lock.                      *)
LEMMA Return ==
  ASSUME IInv, NEW c \in Cpus, NEW p \in Procs, InWait(c, p), Goto(p, "ret"), lock' = FREE,
         UNCHANGED <<proc, cpc, irq>>,
         \A q \in Procs : state'[q] = "RUNNING" <=> state[q] = "RUNNING"
  PROVE  CpuInv'
<1>1. OneCpuPerProcess'
  BY CpuTypes DEF CpuInv, OneCpuPerProcess
<1>2. proc[c] = p /\ cpc[c] = "run" /\ lock \in {FREE, c} /\ ppc' = [ppc EXCEPT ![p] = "ret"]
  BY DEF InWait, Runs, Schedules, Unlocked, Goto
<1>3. ASSUME NEW d \in Cpus
      PROVE  /\ cpc[d] = "run" <=> proc[d] # NULL
             /\ FREE = d <=> cpc[d] = "scan" \/ (cpc[d] = "run" /\ ppc'[proc[d]] = "wait")
             /\ irq[d] = "yield" => cpc[d] = "run"
  <2>1. /\ cpc[d] = "run" <=> proc[d] # NULL
        /\ lock = d <=> cpc[d] = "scan" \/ (cpc[d] = "run" /\ ppc[proc[d]] = "wait")
        /\ irq[d] = "yield" => cpc[d] = "run"
        /\ FREE # d
    BY CpuTypes DEF CpuInv, LockHandedOver
  <2>2. CASE d = c
    BY <2>1, <2>2, <1>2, CpuTypes
  <2>3. CASE d # c
    <3>1. proc[d] # p /\ lock # d
      BY <2>3, <1>2, CpuTypes DEF CpuInv, OneCpuPerProcess
    <3>. QED BY <2>1, <3>1, <1>2, CpuTypes
  <2>. QED BY <2>2, <2>3
<1>4. LockHandedOver'
  BY <1>3 DEF LockHandedOver
<1>. QED BY <1>1, <1>4 DEF CpuInv

(* The scheduler takes the lock for its loop.                              *)
LEMMA SchedAcquireCpu ==
  ASSUME IInv, NEW c \in Cpus, SchedAcquire(c)
  PROVE  CpuInv'
<1>1. /\ cpc[c] = "start" /\ lock = FREE /\ lock' = c /\ cpc' = [cpc EXCEPT ![c] = "scan"]
      /\ UNCHANGED <<proc, state, irq, ppc>>
  BY DEF SchedAcquire, Schedules, Unlocked, ptable, lists, calm
<1>2. OneCpuPerProcess'
  BY <1>1, CpuTypes DEF CpuInv, OneCpuPerProcess
<1>3. LockHandedOver'
  BY <1>1, CpuTypes DEF CpuInv, LockHandedOver
<1>. QED BY <1>2, <1>3 DEF CpuInv

(* The scheduler releases the lock after its loop.                         *)
LEMMA SchedReleaseCpu ==
  ASSUME IInv, NEW c \in Cpus, SchedRelease(c)
  PROVE  CpuInv'
<1>1. /\ cpc[c] = "scan" /\ irq[c] = "none" /\ lock' = FREE
      /\ cpc' = [cpc EXCEPT ![c] = IF idle[c] THEN "hlt" ELSE "start"]
      /\ UNCHANGED <<proc, state, irq, ppc>>
  BY DEF SchedRelease, Schedules, ptable, lists, calm
<1>2. OneCpuPerProcess'
  BY <1>1, CpuTypes DEF CpuInv, OneCpuPerProcess
<1>3. LockHandedOver'
  BY <1>1, CpuTypes DEF CpuInv, LockHandedOver
<1>. QED BY <1>2, <1>3 DEF CpuInv

(* The scheduler hands the CPU, and to a waiter the lock, to a process.    *)
LEMMA DispatchCpu ==
  ASSUME ConstantsAssumption, IInv, NEW c \in Cpus, Dispatch(c)
  PROVE  CpuInv'
<1>1. PICK p \in Procs : /\ p = Head(ListsNow[ready(idx[c])]) /\ state[p] = "RUNNABLE"
                         /\ state' = [state EXCEPT ![p] = "RUNNING"]
  BY DispatchLists
<1>2. /\ cpc[c] = "scan" /\ irq[c] = "none" /\ cpc' = [cpc EXCEPT ![c] = "run"]
      /\ lock' = IF ppc[p] = "wait" THEN c ELSE FREE
      /\ proc' = [proc EXCEPT ![c] = p]
      /\ ppc' = [ppc EXCEPT ![p] = IF @ = "new" THEN "user" ELSE @]
      /\ irq' = irq
  BY <1>1 DEF Dispatch, Schedules
<1>3. proc[c] = NULL /\ lock = c
  BY <1>2, CpuTypes DEF CpuInv, LockHandedOver
<1>4. \A d \in Cpus : proc[d] # p
  BY <1>1, CpuTypes DEF CpuInv, OneCpuPerProcess
<1>5. OneCpuPerProcess'
  <2>1. proc'[c] = p /\ \A d \in Cpus \ {c} : proc'[d] = proc[d]
    BY <1>2, CpuTypes
  <2>2. state'[p] = "RUNNING" /\ \A q \in Procs \ {p} : state'[q] = state[q]
    BY <1>1, CpuTypes
  <2>3. \A q \in Procs : state'[q] = "RUNNING" <=> \E d \in Cpus : proc'[d] = q
    BY <2>1, <2>2, <1>3, CpuTypes DEF CpuInv, OneCpuPerProcess
  <2>4. \A d, e \in Cpus : proc'[d] = proc'[e] /\ proc'[d] # NULL => d = e
    BY <2>1, <1>4, CpuTypes DEF CpuInv, OneCpuPerProcess
  <2>. QED BY <2>3, <2>4 DEF OneCpuPerProcess
<1>6. ASSUME NEW d \in Cpus
      PROVE  /\ cpc'[d] = "run" <=> proc'[d] # NULL
             /\ lock' = d <=> cpc'[d] = "scan" \/ (cpc'[d] = "run" /\ ppc'[proc'[d]] = "wait")
             /\ irq'[d] = "yield" => cpc'[d] = "run"
  <2>1. CASE d = c
    <3>1. cpc'[c] = "run" /\ proc'[c] = p /\ p # NULL /\ (ppc'[p] = "wait" <=> ppc[p] = "wait")
      BY <1>2, CpuTypes
    <3>. QED BY <2>1, <3>1, <1>2, CpuTypes
  <2>2. CASE d # c
    <3>1. /\ cpc[d] = "run" <=> proc[d] # NULL
          /\ lock = d <=> cpc[d] = "scan" \/ (cpc[d] = "run" /\ ppc[proc[d]] = "wait")
          /\ irq[d] = "yield" => cpc[d] = "run"
          /\ lock # d /\ lock' # d
      BY <2>2, <1>2, <1>3, CpuTypes DEF CpuInv, LockHandedOver
    <3>2. cpc'[d] = cpc[d] /\ proc'[d] = proc[d]
      BY <2>2, <1>2, CpuTypes
    <3>3. cpc[d] = "run" => ppc'[proc[d]] = ppc[proc[d]]
      BY <3>1, <1>2, <1>4, CpuTypes
    <3>. QED BY <3>1, <3>2, <3>3, <1>2
  <2>. QED BY <2>1, <2>2
<1>7. LockHandedOver'
  BY <1>6 DEF LockHandedOver
<1>. QED BY <1>5, <1>7 DEF CpuInv

-----------------------------------------------------------------------------
(* The slot of a fork() in progress                                        *)

Forking == {"fork1", "fork2", "fork3"}

(* Nobody starts a fork() and no EMBRYO changes state.                     *)
LEMMA KeepEmbryos ==
  ASSUME IInv, np' = np, \A q \in Procs : ppc'[q] \in Forking => ppc[q] \in Forking,
         \A q \in Procs : state[q] = "EMBRYO" => state'[q] = "EMBRYO"
  PROVE  EmbryoOwned'
BY CpuTypes DEF EmbryoOwned, Forking

(* allocproc takes a slot that is nobody's np.                             *)
LEMMA ForkAllocEmbryo ==
  ASSUME IInv, NEW c \in Cpus, NEW p \in Procs, ForkAlloc(c, p)
  PROVE  EmbryoOwned'
<1>. DEFINE q == Head(pLists[free])
<1>1. q \in Procs /\ state[q] = "UNUSED" /\ state' = [state EXCEPT ![q] = "EMBRYO"]
  BY ForkAllocLists
<1>2. np' = [np EXCEPT ![p] = q] /\ ppc' = [ppc EXCEPT ![p] = "fork1"]
  BY DEF ForkAlloc, Goto
<1>. HIDE DEF q
<1>3. \A r \in Procs : ppc[r] \in Forking => np[r] \in Procs /\ np[r] # q
  BY <1>1, CpuTypes DEF EmbryoOwned, Forking
<1>4. /\ np'[p] = q /\ \A r \in Procs \ {p} : np'[r] = np[r] /\ ppc'[r] = ppc[r]
      /\ state'[q] = "EMBRYO" /\ \A r \in Procs \ {q} : state'[r] = state[r]
  BY <1>1, <1>2, CpuTypes
<1>. QED BY <1>1, <1>3, <1>4, CpuTypes DEF EmbryoOwned, Forking

(* fork() ends, with or without a child, and gives its slot up.            *)
LEMMA ForkEndEmbryo ==
  ASSUME IInv, NEW p \in Procs, ppc[p] \in Forking, NEW s \in States,
         state' = [state EXCEPT ![np[p]] = s], np' = [np EXCEPT ![p] = NULL],
         ppc'[p] \notin Forking, \A q \in Procs : ppc'[q] \in Forking => ppc[q] \in Forking
  PROVE  EmbryoOwned'
<1>1. \A r \in Procs \ {p} : ppc[r] \in Forking => np[r] # np[p] /\ np'[r] = np[r]
  BY CpuTypes DEF EmbryoOwned, Forking
<1>2. \A r \in Procs \ {np[p]} : state'[r] = state[r]
  BY CpuTypes
<1>. QED BY <1>1, <1>2, CpuTypes DEF EmbryoOwned, Forking

-----------------------------------------------------------------------------
(* Every step keeps the inductive invariant                                *)

(* The four parts of the invariant after a step, put together.             *)
LEMMA Together ==
  ASSUME TypeOK', GoodLists', CpuInv', EmbryoOwned'
  PROVE  IInv'
<1>1. \A p \in Procs : KeyOf(state', priority')[p] = ListOf(p)'
  BY DEF KeyOf, ListOf
<1>2. ListsPartition'
  BY <1>1 DEF GoodLists, Sorted, ListsPartition
<1>. QED BY <1>2 DEF IInv, GoodLists, CpuInv, NoListPanic

(* Steps that only move a CPU or a process within the code.                *)
LEMMA QuietStep ==
  ASSUME IInv, UNCHANGED <<ptable, cpuvars, clock, nextpid, np>>,
         irq' \in [Cpus -> {"none", "tick", "dev", "yield"}],
         \A d \in Cpus : irq'[d] = "yield" => irq[d] = "yield",
         ppc' \in [Procs -> {"new", "user", "kern", "fork1", "fork2", "fork3", "wait", "ret", "exit"}],
         \A q \in Procs : ppc'[q] \in Forking => ppc[q] \in Forking,
         \A q \in Procs : ppc'[q] = "wait" <=> ppc[q] = "wait",
         panicked' \in {"no", "init exiting"}
  PROVE  IInv'
<1>. USE DEF ptable, lists, ids, mlfq, cpuvars, clock
<1>1. TypeOK'
  BY Zenon DEF IInv, TypeOK
<1>2. GoodLists'
  BY QuietLists, Zenon
<1>3. CpuInv'
  BY Stay, CpuTypes, Zenon DEF CpuInv, LockHandedOver
<1>4. EmbryoOwned'
  BY KeepEmbryos, Zenon
<1>. QED BY <1>1, <1>2, <1>3, <1>4, Together, Zenon

(* A process enters exit().                                                *)
LEMMA EnterExitFacts ==
  ASSUME IInv, NEW p \in Procs, EnterExit(p), ppc[p] # "wait"
  PROVE  /\ ppc' \in [Procs -> {"new", "user", "kern", "fork1", "fork2", "fork3", "wait", "ret", "exit"}]
         /\ \A q \in Procs : ppc'[q] \in Forking => ppc[q] \in Forking
         /\ \A q \in Procs : ppc'[q] = "wait" <=> ppc[q] = "wait"
         /\ panicked' \in {"no", "init exiting"}
BY CpuTypes, Zenon DEF EnterExit, Goto, Forking

(* System call entry, faults and the way back to user mode.                *)
LEMMA TrapStepInv ==
  ASSUME IInv, NEW c \in Cpus, NEW p \in Procs, TrapStep(c, p)
  PROVE  IInv'
<1>0. panicked \in {"no", "init exiting"} /\ killed \in [Procs -> BOOLEAN]
  BY Zenon DEF IInv, TypeOK, NoListPanic
<1>1. CASE SyscallEnter(c, p)
  <2>1. /\ UNCHANGED <<ptable, cpuvars, clock, nextpid, np, irq>> /\ ppc[p] # "wait"
        /\ EnterExit(p) \/ (Goto(p, "kern") /\ UNCHANGED panicked)
    BY <1>1 DEF SyscallEnter, Runs, calm
  <2>2. CASE EnterExit(p)
    BY <2>1, <2>2, EnterExitFacts, QuietStep, CpuTypes, Zenon
  <2>3. CASE Goto(p, "kern") /\ UNCHANGED panicked
    BY <2>1, <2>3, <1>0, QuietStep, CpuTypes, Zenon DEF Goto, Forking
  <2>. QED BY <2>1, <2>2, <2>3
<1>2. CASE TrapReturn(c, p)
  <2>1. /\ UNCHANGED <<ptable, cpuvars, clock, nextpid, np, irq>> /\ ppc[p] # "wait"
        /\ EnterExit(p) \/ (Goto(p, "user") /\ UNCHANGED panicked)
    BY <1>2 DEF TrapReturn, Runs, calm
  <2>2. CASE EnterExit(p)
    BY <2>1, <2>2, EnterExitFacts, QuietStep, CpuTypes, Zenon
  <2>3. CASE Goto(p, "user") /\ UNCHANGED panicked
    BY <2>1, <2>3, <1>0, QuietStep, CpuTypes, Zenon DEF Goto, Forking
  <2>. QED BY <2>1, <2>2, <2>3
<1>3. CASE SysExit(c, p)
  <2>1. UNCHANGED <<ptable, cpuvars, clock, nextpid, np, irq>> /\ ppc[p] # "wait" /\ EnterExit(p)
    BY <1>3 DEF SysExit, Runs, calm
  <2>. QED BY <2>1, EnterExitFacts, QuietStep, CpuTypes, Zenon
<1>4. CASE SyscallDone(c, p)
  <2>1. /\ UNCHANGED <<ptable, cpuvars, clock, nextpid, np, irq, panicked>> /\ ppc[p] # "wait"
        /\ Goto(p, "ret")
    BY <1>4 DEF SyscallDone, Runs, calm
  <2>. QED BY <2>1, <1>0, QuietStep, CpuTypes, Zenon DEF Goto, Forking
<1>5. CASE UserFault(c, p)
  <2>1. /\ UNCHANGED <<pLists, state, priority, proc, lock, cpc, irq, np>> /\ ppc[p] # "wait" /\ EnterExit(p)
    BY <1>5 DEF UserFault, Runs, calm, lists, mlfq, cpuvars
  <2>2. /\ ppc' \in [Procs -> {"new", "user", "kern", "fork1", "fork2", "fork3", "wait", "ret", "exit"}]
        /\ \A q \in Procs : ppc'[q] \in Forking => ppc[q] \in Forking
        /\ \A q \in Procs : ppc'[q] = "wait" <=> ppc[q] = "wait"
        /\ panicked' \in {"no", "init exiting"}
    BY <2>1, EnterExitFacts, Zenon
  <2>3. TypeOK'
    BY <2>1, <2>2, <1>0, <1>5, Zenon DEF IInv, TypeOK, UserFault, lists, mlfq, cpuvars, calm, clock
  <2>4. GoodLists'
    BY <2>1, <2>2, QuietLists, Zenon
  <2>5. CpuInv'
    BY <2>1, <2>2, Stay, CpuTypes, Zenon DEF CpuInv, LockHandedOver
  <2>6. EmbryoOwned'
    BY <2>1, <2>2, KeepEmbryos, Zenon
  <2>. QED BY <2>3, <2>4, <2>5, <2>6, Together, Zenon
<1>. QED BY <1>1, <1>2, <1>3, <1>4, <1>5 DEF TrapStep

(* The four kinds of step of scheduler().                                  *)
LEMMA SchedStepInv ==
  ASSUME IInv, NEW c \in Cpus, SchedStep(c)
  PROVE  IInv'
<1>. USE DEF ptable, lists, ids, mlfq, clock, calm
<1>0. panicked \in {"no", "init exiting"} /\ MAX \in Nat /\ UintMod \in Nat \ {0}
      /\ ticks \in 0..(UintMod-1) /\ TICKS_TO_PROMOTE \in Nat
  <2>1. panicked \in {"no", "init exiting"} /\ ticks \in 0..(UintMod-1)
    BY Zenon DEF IInv, TypeOK, NoListPanic
  <2>2. MAX \in Nat /\ UintMod \in Nat \ {0} /\ TICKS_TO_PROMOTE \in Nat
    BY ConstantsAssumption DEF ConstantsAssumption
  <2>. QED BY <2>1, <2>2, Zenon
<1>a. ASSUME LookAtClock(c)
      PROVE  PromoteAtTime' \in 0..(UintMod-1) /\ ticks' = ticks /\ tickOwed' \in BOOLEAN
             /\ priority' = PriorityNow
  <2>1. ticks + TICKS_TO_PROMOTE \in Int
    <3>1. ticks \in 0..(UintMod-1) /\ TICKS_TO_PROMOTE \in Nat
      BY <1>0, Zenon
    <3>. QED BY <3>1
  <2>2. (ticks + TICKS_TO_PROMOTE) % UintMod \in 0..(UintMod-1)
    BY <2>1, <1>0, ModRange, Zenon
  <2>. QED BY <2>2, <1>a, Zenon DEF LookAtClock, IInv, TypeOK
<1>1. CASE SchedAcquire(c)
  <2>1. TypeOK'
    BY <1>1, Zenon DEF IInv, TypeOK, SchedAcquire
  <2>2. GoodLists'
    BY <1>1, <1>0, QuietLists, Zenon DEF SchedAcquire
  <2>3. EmbryoOwned'
    BY <1>1, KeepEmbryos DEF SchedAcquire
  <2>. QED BY <2>1, <2>2, <2>3, <1>1, SchedAcquireCpu, Together, Zenon
<1>2. CASE SchedRelease(c)
  <2>0. idx' \in [Cpus -> 0..(MAX+1)]
    <3>1. idx \in [Cpus -> 0..(MAX+1)] /\ idx' = [idx EXCEPT ![c] = 0] /\ MAX \in Nat
      BY <1>0, <1>2, Zenon DEF IInv, TypeOK, SchedRelease
    <3>2. 0 \in 0..(MAX+1)
      BY <3>1
    <3>. QED BY <3>1, <3>2
  <2>1. TypeOK'
    BY <2>0, <1>2, Zenon DEF IInv, TypeOK, SchedRelease
  <2>2. GoodLists'
    BY <1>2, <1>0, QuietLists, Zenon DEF SchedRelease
  <2>3. EmbryoOwned'
    BY <1>2, KeepEmbryos DEF SchedRelease
  <2>. QED BY <2>1, <2>2, <2>3, <1>2, SchedReleaseCpu, Together, Zenon
<1>3. CASE SkipList(c)
  <2>1. GoodLists'
    BY <1>3, ConstantsAssumption, SkipLists
  <2>2. priority' \in [Procs -> 0..MAX] /\ PromoteAtTime' \in 0..(UintMod-1) /\ ticks' = ticks
        /\ tickOwed' \in BOOLEAN
    BY <1>3, <1>a, ConstantsAssumption, NowSorted DEF SkipList
  <2>3. idx' \in [Cpus -> 0..(MAX+1)]
    <3>1. idx \in [Cpus -> 0..(MAX+1)] /\ idx[c] <= MAX /\ idx' = [idx EXCEPT ![c] = @ + 1]
      BY <1>3, Zenon DEF IInv, TypeOK, SkipList
    <3>2. idx[c] + 1 \in 0..(MAX+1)
      <4>1. idx[c] \in 0..(MAX+1) /\ idx[c] <= MAX /\ MAX \in Nat
        BY <3>1, <1>0, Zenon
      <4>. QED BY <4>1
    <3>. QED BY <3>1, <3>2
  <2>4. TypeOK'
    BY <2>1, <2>2, <2>3, <1>3, Zenon DEF IInv, TypeOK, SkipList, GoodLists, Sorted
  <2>5. CpuInv'
    <3>1. UNCHANGED <<proc, lock, cpc, irq, state, ppc>>
      BY <1>3 DEF SkipList
    <3>2. \A d \in Cpus : irq[d] = "yield" => cpc[d] = "run"
      BY DEF IInv, LockHandedOver
    <3>. QED BY <3>1, <3>2, Stay
  <2>6. EmbryoOwned'
    BY <1>3, KeepEmbryos DEF SkipList
  <2>. QED BY <2>1, <2>4, <2>5, <2>6, Together, Zenon
<1>4. CASE Dispatch(c)
  <2>1. GoodLists'
    BY <1>4, ConstantsAssumption, DispatchLists
  <2>2. PICK p \in Procs : /\ p = Head(ListsNow[ready(idx[c])]) /\ state[p] = "RUNNABLE"
                           /\ state' = [state EXCEPT ![p] = "RUNNING"]
    BY <1>4, ConstantsAssumption, DispatchLists, SMTT(30)
  <2>3. priority' \in [Procs -> 0..MAX] /\ PromoteAtTime' \in 0..(UintMod-1) /\ ticks' = ticks
        /\ tickOwed' \in BOOLEAN
    <3>1. LookAtClock(c)
      BY <1>4, Zenon DEF Dispatch
    <3>2. PriorityNow \in [Procs -> 0..MAX]
      BY ConstantsAssumption, NowSorted, Zenon
    <3>. QED BY <3>1, <3>2, <1>a, Zenon
  <2>4. /\ panicked' \in {"no", "list"}
        /\ chan' = [chan EXCEPT ![p] = NULL]
        /\ lock' = IF ppc[p] = "wait" THEN c ELSE FREE
        /\ proc' = [proc EXCEPT ![c] = p]
        /\ ppc' = [ppc EXCEPT ![p] = IF @ = "new" THEN "user" ELSE @]
        /\ cpu_ticks_in' = [cpu_ticks_in EXCEPT ![c] = ticks]
        /\ cpc' = [cpc EXCEPT ![c] = "run"]
        /\ idx' = [idx EXCEPT ![c] = NextIndex(@)]
        /\ idle' = [idle EXCEPT ![c] = FALSE]
        /\ UNCHANGED <<pid, parent, killed, budget, nextpid, irq, np>>
    BY <2>2, <1>4 DEF Dispatch, Check
  <2>5. idx' \in [Cpus -> 0..(MAX+1)]
    <3>1. idx \in [Cpus -> 0..(MAX+1)] /\ MAX \in Nat
      BY <1>0, Zenon DEF IInv, TypeOK
    <3>2. 0 \in 0..(MAX+1) /\ MAX + 1 \in 0..(MAX+1)
      BY <3>1
    <3>. QED BY <3>1, <3>2, <2>4 DEF NextIndex
  <2>6. state' \in [Procs -> States] /\ chan' \in [Procs -> Chans]
    BY <2>2, <2>4, Zenon DEF IInv, TypeOK, States, Chans
  <2>7. ppc' \in [Procs -> {"new", "user", "kern", "fork1", "fork2", "fork3", "wait", "ret", "exit"}]
        /\ \A q \in Procs : ppc'[q] \in Forking => ppc[q] \in Forking
    BY <2>4, CpuTypes, SMTT(30) DEF Forking
  <2>8. TypeOK'
    BY <2>1, <2>3, <2>4, <2>5, <2>6, <2>7, Zenon DEF IInv, TypeOK, GoodLists, Sorted
  <2>9. EmbryoOwned'
    BY <2>2, <2>4, <2>7, KeepEmbryos, CpuTypes
  <2>. QED BY <2>1, <2>8, <2>9, <1>4, ConstantsAssumption, DispatchCpu, Together, Zenon
<1>. QED BY <1>1, <1>2, <1>3, <1>4 DEF SchedStep

(* The timers and the devices interrupt a CPU.                             *)
LEMMA InterruptInv ==
  ASSUME IInv, NEW c \in Cpus, Interrupt(c) \/ (c = 0 /\ TickInterrupt)
  PROVE  IInv'
<1>. USE DEF ptable, lists, ids, mlfq, clock
<1>0. panicked \in {"no", "init exiting"}
  BY Zenon DEF IInv, TypeOK, NoListPanic
<1>1. CASE DeviceInterrupt(c)
  <2>1. /\ UNCHANGED <<ptable, cpuvars, clock, nextpid, ppc, np, panicked>>
        /\ irq' = [irq EXCEPT ![c] = "dev"]
    BY <1>1 DEF DeviceInterrupt
  <2>. QED BY <2>1, <1>0, QuietStep, CpuTypes, Zenon
<1>2. CASE c = 0 /\ TickInterrupt
  <2>1. ticks' \in 0..(UintMod-1)
    <3>1. UintMod \in Nat \ {0} /\ ticks \in 0..(UintMod-1)
      BY ConstantsAssumption, Zenon DEF IInv, TypeOK, ConstantsAssumption
    <3>2. ticks + 1 \in Int
      BY <3>1
    <3>. QED BY <3>1, <3>2, <1>2, ModRange DEF TickInterrupt
  <2>2. tickOwed' \in BOOLEAN
    BY <1>2, ConstantsAssumption DEF TickInterrupt, ConstantsAssumption
  <2>3. irq' = [irq EXCEPT ![c] = "tick"] /\ UNCHANGED <<ptable, cpuvars, PromoteAtTime, nextpid, ppc, np, panicked>>
    BY <1>2 DEF TickInterrupt
  <2>4. TypeOK'
    BY <2>1, <2>2, <2>3, Zenon DEF IInv, TypeOK, cpuvars
  <2>5. GoodLists'
    BY <2>3, <1>0, QuietLists, Zenon
  <2>6. CpuInv'
    BY <2>3, Stay, CpuTypes DEF cpuvars, CpuInv, LockHandedOver
  <2>7. EmbryoOwned'
    BY <2>3, KeepEmbryos
  <2>. QED BY <2>4, <2>5, <2>6, <2>7, Together, Zenon
<1>3. CASE TimerInterrupt(c)
  <2>1. /\ irq' = [irq EXCEPT ![c] = IF proc[c] # NULL THEN "yield" ELSE "none"]
        /\ cpc' = [cpc EXCEPT ![c] = IF @ = "hlt" THEN "start" ELSE @]
        /\ UNCHANGED <<ptable, lock, proc, cpu_ticks_in, idx, idle, clock, nextpid, ppc, np, panicked>>
    BY <1>3 DEF TimerInterrupt
  <2>2. cpc' \in [Cpus -> {"start", "scan", "run", "hlt"}]
    BY <2>1, CpuTypes
  <2>3. irq' \in [Cpus -> {"none", "tick", "dev", "yield"}]
    BY <2>1, CpuTypes, SMTT(30)
  <2>4. TypeOK'
    BY <2>1, <2>2, <2>3, Zenon DEF IInv, TypeOK
  <2>5. GoodLists'
    BY <2>1, <1>0, QuietLists, Zenon
  <2>6. CpuInv'
    <3>1. \A d \in Cpus : /\ cpc'[d] = "run" <=> cpc[d] = "run"
                          /\ cpc'[d] = "scan" <=> cpc[d] = "scan"
                          /\ irq'[d] = "yield" => cpc[d] = "run"
      BY <2>1, CpuTypes DEF CpuInv, LockHandedOver
    <3>2. UNCHANGED <<proc, lock, state, ppc>>
      BY <2>1, Zenon
    <3>. QED BY <3>1, <3>2, Stay, Zenon
  <2>7. EmbryoOwned'
    BY <2>1, KeepEmbryos
  <2>. QED BY <2>4, <2>5, <2>6, <2>7, Together, Zenon
<1>. QED BY <1>1, <1>2, <1>3 DEF Interrupt

(* What a wakeup changes: lists, and sleepers that become RUNNABLE.        *)
LEMMA WakeupFacts ==
  ASSUME IInv, NEW ch, WakeupOn(ch)
  PROVE  /\ GoodLists' /\ UNCHANGED <<pid, parent, killed, priority, budget, chan>>
         /\ state' \in [Procs -> States] /\ panicked' \in {"no", "list"}
         /\ \A q \in Procs : state[q] # "SLEEPING" => state'[q] = state[q]
         /\ \A q \in Procs : state[q] = "SLEEPING" => state'[q] \in {"SLEEPING", "RUNNABLE"}
<1>. DEFINE W == Sleepers(pLists, ch)
<1>1. /\ state' = AsRunnable(W) /\ UNCHANGED <<pid, parent, killed, priority, budget, chan>>
      /\ panicked' \in {"no", "list"}
  BY DEF WakeupOn, ids, mlfq, Check
<1>2. \A q \in Procs : q \in W => state[q] = "SLEEPING"
  <2>1. \A q \in Procs : q \in Range(pLists[sleeping]) => KeyOf(state, priority)[q] = sleeping
    BY Basics, ListNames DEF GoodLists, Sorted
  <2>2. \A q \in Procs : KeyOf(state, priority)[q] = sleeping => state[q] = "SLEEPING"
    BY Basics, KeyFacts
  <2>. QED BY <2>1, <2>2 DEF Sleepers
<1>. HIDE DEF W
<1>3. state' \in [Procs -> States]
  BY <1>1, CpuTypes, SMTT(30) DEF AsRunnable, States
<1>. QED BY <1>1, <1>2, <1>3, CpuTypes, WakeupLists DEF AsRunnable

(* A running process gives up the CPU and moves to another list.           *)
LEMMA GiveUpInv ==
  ASSUME IInv, NEW c \in Cpus, NEW p \in Procs, proc[c] = p, Sched(c), lock \in {FREE, c},
         NEW s \in States \ {"RUNNING"}, state' = [state EXCEPT ![p] = s],
         NEW w \in {"new", "user", "kern", "fork1", "fork2", "fork3", "wait", "ret", "exit"},
         Goto(p, w), w \in Forking => ppc[p] \in Forking,
         Charge(c, p), chan' \in [Procs -> Chans], GoodLists',
         panicked' \in {"no", "list"}, irq' \in {irq, [irq EXCEPT ![c] = "none"]},
         irq[c] = "yield" => irq' # irq,
         UNCHANGED <<ids, clock, nextpid, np>>
  PROVE  IInv'
<1>1. /\ priority' \in [Procs -> 0..MAX] /\ budget' \in [Procs -> 0..(UintMod-1)]
  BY ChargeFacts, ConstantsAssumption DEF IInv
<1>2. state' \in [Procs -> States] /\ state'[p] # "RUNNING" /\ state[p] = "RUNNING"
      /\ \A q \in Procs \ {p} : state'[q] = state[q]
  BY CpuTypes DEF CpuInv, OneCpuPerProcess
<1>3. /\ ppc' \in [Procs -> {"new", "user", "kern", "fork1", "fork2", "fork3", "wait", "ret", "exit"}]
      /\ \A q \in Procs \ {p} : ppc'[q] = ppc[q]
      /\ \A q \in Procs : ppc'[q] \in Forking => ppc[q] \in Forking
  BY CpuTypes DEF Goto
<1>4. /\ irq' \in [Cpus -> {"none", "tick", "dev", "yield"}]
      /\ \A d \in Cpus : irq'[d] = "yield" => irq[d] = "yield" /\ d # c
  BY CpuTypes
<1>5. cpu_ticks_in' \in [Cpus -> 0..(UintMod-1)]
  <2>1. 0 \in 0..(UintMod-1)
    BY ConstantsAssumption, SMTT(30) DEF ConstantsAssumption
  <2>. QED BY <2>1, Zenon DEF Sched, IInv, TypeOK
<1>6. TypeOK'
  BY <1>1, <1>2, <1>3, <1>4, <1>5, Zenon DEF IInv, TypeOK, Sched, GoodLists, Sorted, ids, clock
<1>7. CpuInv'
  BY <1>2, <1>3, <1>4, GiveUp, Zenon
<1>8. EmbryoOwned'
  BY <1>2, <1>3, KeepEmbryos, Zenon
<1>. QED BY <1>6, <1>7, <1>8, Together, Zenon

(* sleep(), from the point where ptable.lock is held.                      *)
LEMMA SleepBodyInv ==
  ASSUME IInv, NEW c \in Cpus, NEW p \in Procs, NEW ch \in Chans,
         NEW w \in {"new", "user", "kern", "fork1", "fork2", "fork3", "wait", "ret", "exit"},
         proc[c] = p, lock \in {FREE, c}, irq[c] = "none",
         w \in Forking => ppc[p] \in Forking, SleepBody(c, p, ch, w)
  PROVE  IInv'
<1>1. GoodLists'
  BY SleepLists, ConstantsAssumption
<1>2. chan' \in [Procs -> Chans]
  BY Zenon DEF SleepBody, IInv, TypeOK
<1>3. /\ Sched(c) /\ state' = [state EXCEPT ![p] = "SLEEPING"] /\ Goto(p, w) /\ Charge(c, p)
      /\ panicked' \in {"no", "list"} /\ irq' = irq /\ UNCHANGED <<ids, clock, nextpid, np>>
      /\ "SLEEPING" \in States \ {"RUNNING"}
  BY Zenon DEF SleepBody, Check, calm, States
<1>. QED BY <1>1, <1>2, <1>3, GiveUpInv, Zenon

(* The interrupt handlers: wakeup, exit of a killed process, yield().      *)
LEMMA HandlerStepInv ==
  ASSUME IInv, NEW c \in Cpus, HandlerStep(c)
  PROVE  IInv'
<1>1. CASE InterruptWakeup(c)
  <2>0. PICK ch : WakeupOn(ch)
    BY <1>1 DEF InterruptWakeup
  <2>1. /\ irq' = [irq EXCEPT ![c] = IF @ = "tick" /\ proc[c] # NULL THEN "yield" ELSE "none"]
        /\ cpc' = [cpc EXCEPT ![c] = IF @ = "hlt" THEN "start" ELSE @]
        /\ ppc' = [p \in Procs |-> IF irq[c] = "dev" /\ p = proc[c] THEN BackFromTrap(ppc[p]) ELSE ppc[p]]
        /\ UNCHANGED <<lock, proc, cpu_ticks_in, idx, idle, clock, nextpid, np>>
    BY <1>1 DEF InterruptWakeup
  <2>2. cpc' \in [Cpus -> {"start", "scan", "run", "hlt"}]
    BY <2>1, CpuTypes
  <2>3. irq' \in [Cpus -> {"none", "tick", "dev", "yield"}]
    BY <2>1, CpuTypes
  <2>4. /\ ppc' \in [Procs -> {"new", "user", "kern", "fork1", "fork2", "fork3", "wait", "ret", "exit"}]
        /\ \A q \in Procs : ppc'[q] \in Forking => ppc[q] \in Forking
        /\ \A q \in Procs : ppc'[q] = "wait" <=> ppc[q] = "wait"
    BY <2>1, CpuTypes DEF BackFromTrap, Forking
  <2>5. /\ GoodLists' /\ UNCHANGED <<pid, parent, killed, priority, budget, chan>>
        /\ state' \in [Procs -> States] /\ panicked' \in {"no", "list"}
        /\ \A q \in Procs : state[q] # "SLEEPING" => state'[q] = state[q]
        /\ \A q \in Procs : state[q] = "SLEEPING" => state'[q] \in {"SLEEPING", "RUNNABLE"}
    BY <2>0, WakeupFacts, SMTT(30)
  <2>6. TypeOK'
    BY <2>1, <2>2, <2>3, <2>4, <2>5, Zenon DEF IInv, TypeOK, GoodLists, Sorted, clock
  <2>7. CpuInv'
    <3>1. \A d \in Cpus : /\ cpc'[d] = "run" <=> cpc[d] = "run"
                          /\ cpc'[d] = "scan" <=> cpc[d] = "scan"
                          /\ irq'[d] = "yield" => cpc[d] = "run"
      BY <2>1, CpuTypes DEF CpuInv, LockHandedOver
    <3>2. \A q \in Procs : state'[q] = "RUNNING" <=> state[q] = "RUNNING"
      BY <2>5, SMTT(30)
    <3>. QED BY <2>1, <2>4, <3>1, <3>2, Stay, Zenon
  <2>8. EmbryoOwned'
    <3>1. \A q \in Procs : state[q] = "EMBRYO" => state'[q] = "EMBRYO"
      BY <2>5
    <3>. QED BY <2>1, <2>4, <3>1, KeepEmbryos, Zenon
  <2>. QED BY <2>5, <2>6, <2>7, <2>8, Together, Zenon
<1>2. CASE TimerExit(c)
  <2>1. /\ UNCHANGED <<ptable, cpuvars, clock, nextpid, np>> /\ irq' = [irq EXCEPT ![c] = "none"]
        /\ irq[c] = "yield" /\ ppc[proc[c]] # "wait" /\ EnterExit(proc[c])
    BY <1>2 DEF TimerExit, Handles
  <2>2. proc[c] \in Procs
    BY <2>1, Running, SMTT(30)
  <2>. QED BY <2>1, <2>2, EnterExitFacts, QuietStep, CpuTypes, Zenon
<1>3. CASE Yield(c)
  <2>. DEFINE p == proc[c]
              w == BackFromTrap(ppc[p])
  <2>1. irq[c] = "yield" /\ p \in Procs
    <3>1. irq[c] = "yield"
      BY <1>3 DEF Yield, Handles
    <3>. QED BY <3>1, Running, Zenon
  <2>2. /\ Sched(c) /\ state' = [state EXCEPT ![p] = "RUNNABLE"] /\ Goto(p, w) /\ Charge(c, p)
        /\ panicked' \in {"no", "list"} /\ irq' = [irq EXCEPT ![c] = "none"] /\ chan' = chan
        /\ UNCHANGED <<ids, clock, nextpid, np>> /\ lock = FREE
        /\ "RUNNABLE" \in States \ {"RUNNING"}
    BY <1>3 DEF Yield, Check, Unlocked, States
  <2>3. /\ w \in {"new", "user", "kern", "fork1", "fork2", "fork3", "wait", "ret", "exit"}
        /\ w \in Forking => ppc[p] \in Forking
    BY <2>1, CpuTypes, SMTT(30) DEF BackFromTrap, Forking
  <2>4. chan' \in [Procs -> Chans] /\ GoodLists'
    BY <2>2, <1>3, YieldLists, ConstantsAssumption, Zenon DEF IInv, TypeOK
  <2>5. irq' # irq
    BY <2>1, <2>2, CpuTypes, SMTT(30)
  <2>. HIDE DEF w
  <2>. QED BY <2>1, <2>2, <2>3, <2>4, <2>5, GiveUpInv, Zenon
<1>. QED BY <1>1, <1>2, <1>3 DEF HandlerStep

(* A system call that changes the table without giving up the CPU.         *)
LEMMA CallInv ==
  ASSUME IInv, GoodLists', state' \in [Procs -> States], priority' \in [Procs -> 0..MAX],
         budget' \in [Procs -> 0..(UintMod-1)], killed' \in [Procs -> BOOLEAN],
         parent' \in [Procs -> Procs \cup {NULL}], pid' \in [Procs -> 0..MaxPid],
         nextpid' \in 1..(MaxPid+1),
         panicked' \in {"no", "list", "init exiting"},
         ppc' \in [Procs -> {"new", "user", "kern", "fork1", "fork2", "fork3", "wait", "ret", "exit"}],
         np' \in [Procs -> Procs \cup {NULL}],
         \A q \in Procs : state'[q] = "RUNNING" <=> state[q] = "RUNNING",
         \A q \in Procs : state[q] = "RUNNING" => (ppc'[q] = "wait" <=> ppc[q] = "wait"),
         UNCHANGED <<chan, cpuvars, clock, irq>>, EmbryoOwned'
  PROVE  IInv'
<1>1. TypeOK'
  BY Zenon DEF IInv, TypeOK, GoodLists, Sorted, cpuvars, clock
<1>2. CpuInv'
  BY Stay, CpuTypes, Zenon DEF cpuvars, CpuInv, LockHandedOver
<1>. QED BY <1>1, <1>2, Together, Zenon

(* The five steps of fork().                                               *)
LEMMA ForkStepInv ==
  ASSUME IInv, NEW c \in Cpus, NEW p \in Procs, ForkStep(c, p)
  PROVE  IInv'
<1>. USE DEF ids, mlfq, lists, calm
<1>0. /\ killed \in [Procs -> BOOLEAN] /\ parent \in [Procs -> Procs \cup {NULL}]
      /\ pid \in [Procs -> 0..MaxPid] /\ nextpid \in 1..(MaxPid+1) /\ panicked \in {"no", "list", "init exiting"}
      /\ priority \in [Procs -> 0..MAX] /\ budget \in [Procs -> 0..(UintMod-1)]
      /\ state \in [Procs -> States]
      /\ MaxPid \in Nat /\ 0 \in 0..MAX /\ DEFAULT_BUDGET \in 0..(UintMod-1)
  <2>1. MaxPid \in Nat /\ 0 \in 0..MAX /\ DEFAULT_BUDGET \in 0..(UintMod-1)
    BY ConstantsAssumption, SMTT(30) DEF ConstantsAssumption
  <2>. QED BY <2>1, Zenon DEF IInv, TypeOK
<1>1. CASE ForkAlloc(c, p)
  <2>. DEFINE q == Head(pLists[free])
  <2>1. GoodLists' /\ q \in Procs /\ state[q] = "UNUSED" /\ state' = [state EXCEPT ![q] = "EMBRYO"]
    BY <1>1, ForkAllocLists
  <2>2. /\ pid' = [pid EXCEPT ![q] = nextpid] /\ nextpid' = nextpid + 1 /\ nextpid <= MaxPid
        /\ np' = [np EXCEPT ![p] = q] /\ ppc' = [ppc EXCEPT ![p] = "fork1"] /\ ppc[p] = "kern"
        /\ UNCHANGED <<parent, killed, priority, budget, chan, cpuvars, clock, irq>>
        /\ panicked' \in {"no", "list"}
    BY <1>1 DEF ForkAlloc, Goto, Runs, Check
  <2>. HIDE DEF q
  <2>3. nextpid \in 0..MaxPid /\ nextpid' \in 1..(MaxPid+1)
    <3>1. nextpid \in 1..(MaxPid+1) /\ nextpid <= MaxPid /\ nextpid' = nextpid + 1 /\ MaxPid \in Nat
      BY <1>0, <2>2, Zenon
    <3>. QED BY <3>1
  <2>4. pid' \in [Procs -> 0..MaxPid] /\ state' \in [Procs -> States]
    BY <1>0, <2>1, <2>2, <2>3, Zenon DEF States
  <2>5. /\ ppc' \in [Procs -> {"new", "user", "kern", "fork1", "fork2", "fork3", "wait", "ret", "exit"}]
        /\ np' \in [Procs -> Procs \cup {NULL}]
        /\ \A r \in Procs : ppc'[r] = "wait" <=> ppc[r] = "wait"
    BY <2>1, <2>2, CpuTypes
  <2>6. \A r \in Procs : state'[r] = "RUNNING" <=> state[r] = "RUNNING"
    BY <2>1, <1>0, Zenon
  <2>7. EmbryoOwned'
    BY <1>1, ForkAllocEmbryo, SMTT(30)
  <2>. QED BY <2>1, <2>2, <2>3, <2>4, <2>5, <2>6, <2>7, <1>0, CallInv, Zenon
<1>2. CASE AllocInit(c, p)
  <2>1. np[p] \in Procs /\ ppc[p] = "fork1"
    BY <1>2, Embryo, Zenon DEF AllocInit, Runs
  <2>2. /\ budget' = [budget EXCEPT ![np[p]] = DEFAULT_BUDGET]
        /\ priority' = [priority EXCEPT ![np[p]] = 0]
        /\ ppc' = [ppc EXCEPT ![p] = "fork2"]
        /\ UNCHANGED <<state, pid, nextpid, parent, killed, chan, cpuvars, clock, irq, np, panicked>>
    BY <1>2, SMTT(30) DEF AllocInit, Goto
  <2>3. budget' \in [Procs -> 0..(UintMod-1)] /\ priority' \in [Procs -> 0..MAX]
    BY <2>2, <1>0, Zenon
  <2>4. /\ ppc' \in [Procs -> {"new", "user", "kern", "fork1", "fork2", "fork3", "wait", "ret", "exit"}]
        /\ \A r \in Procs : ppc'[r] = "wait" <=> ppc[r] = "wait"
        /\ \A r \in Procs : ppc'[r] \in Forking => ppc[r] \in Forking
    BY <2>1, <2>2, CpuTypes, SMTT(30) DEF Forking
  <2>5. EmbryoOwned'
    BY <2>2, <2>4, KeepEmbryos
  <2>6. GoodLists'
    BY <1>2, AllocInitLists, ConstantsAssumption, SMTT(30)
  <2>. QED BY <2>2, <2>3, <2>4, <2>5, <2>6, <1>0, CpuTypes, CallInv, Zenon
<1>3. CASE ForkCopy(c, p)
  <2>1. np[p] \in Procs /\ ppc[p] = "fork2"
    BY <1>3, Embryo, Zenon DEF ForkCopy, Runs
  <2>2. /\ parent' = [parent EXCEPT ![np[p]] = p] /\ ppc' = [ppc EXCEPT ![p] = "fork3"]
        /\ UNCHANGED <<pLists, state, pid, nextpid, priority, budget, killed, chan, cpuvars, clock, irq, np, panicked>>
    BY <1>3, SMTT(30) DEF ForkCopy, Goto
  <2>3. parent' \in [Procs -> Procs \cup {NULL}]
    BY <2>2, <1>0, Zenon
  <2>4. /\ ppc' \in [Procs -> {"new", "user", "kern", "fork1", "fork2", "fork3", "wait", "ret", "exit"}]
        /\ \A r \in Procs : ppc'[r] = "wait" <=> ppc[r] = "wait"
        /\ \A r \in Procs : ppc'[r] \in Forking => ppc[r] \in Forking
    BY <2>1, <2>2, CpuTypes DEF Forking
  <2>5. EmbryoOwned'
    BY <2>2, <2>4, KeepEmbryos
  <2>6. GoodLists'
    BY <2>2, QuietLists, SMTT(30) DEF IInv, NoListPanic
  <2>. QED BY <2>2, <2>3, <2>4, <2>5, <2>6, <1>0, CpuTypes, CallInv, Zenon
<1>4. CASE ForkFail(c, p)
  <2>1. np[p] \in Procs /\ ppc[p] \in Forking /\ state[np[p]] = "EMBRYO"
    BY <1>4, Embryo, Zenon DEF ForkFail, Runs, Forking
  <2>2. /\ state' = [state EXCEPT ![np[p]] = "UNUSED"] /\ np' = [np EXCEPT ![p] = NULL]
        /\ ppc' = [ppc EXCEPT ![p] = "ret"] /\ panicked' \in {"no", "list"}
        /\ UNCHANGED <<pid, nextpid, parent, killed, priority, budget, chan, cpuvars, clock, irq>>
    BY <1>4 DEF ForkFail, Goto, Check
  <2>3. state' \in [Procs -> States] /\ \A r \in Procs : state'[r] = "RUNNING" <=> state[r] = "RUNNING"
    BY <2>1, <2>2, <1>0, Zenon DEF States
  <2>4. /\ ppc' \in [Procs -> {"new", "user", "kern", "fork1", "fork2", "fork3", "wait", "ret", "exit"}]
        /\ np' \in [Procs -> Procs \cup {NULL}]
        /\ \A r \in Procs : ppc'[r] = "wait" <=> ppc[r] = "wait"
        /\ \A r \in Procs : ppc'[r] \in Forking => ppc[r] \in Forking
        /\ ppc'[p] \notin Forking
    BY <2>1, <2>2, CpuTypes DEF Forking
  <2>5. EmbryoOwned'
    BY <2>1, <2>2, <2>4, ForkEndEmbryo, Zenon DEF States
  <2>6. GoodLists'
    BY <1>4, ForkFailLists
  <2>. QED BY <2>2, <2>3, <2>4, <2>5, <2>6, <1>0, CallInv, Zenon
<1>5. CASE ForkPublish(c, p)
  <2>1. np[p] \in Procs /\ ppc[p] \in Forking /\ state[np[p]] = "EMBRYO"
    BY <1>5, Embryo, Zenon DEF ForkPublish, Runs, Forking
  <2>2. /\ state' = [state EXCEPT ![np[p]] = "RUNNABLE"] /\ np' = [np EXCEPT ![p] = NULL]
        /\ ppc' = [ppc EXCEPT ![p] = "ret", ![np[p]] = "new"] /\ panicked' \in {"no", "list"}
        /\ UNCHANGED <<pid, nextpid, parent, killed, priority, budget, chan, cpuvars, clock, irq>>
    BY <1>5 DEF ForkPublish, Check
  <2>3. state' \in [Procs -> States] /\ \A r \in Procs : state'[r] = "RUNNING" <=> state[r] = "RUNNING"
    BY <2>1, <2>2, <1>0, Zenon DEF States
  <2>4. /\ ppc' \in [Procs -> {"new", "user", "kern", "fork1", "fork2", "fork3", "wait", "ret", "exit"}]
        /\ np' \in [Procs -> Procs \cup {NULL}]
        /\ \A r \in Procs : state[r] = "RUNNING" => (ppc'[r] = "wait" <=> ppc[r] = "wait")
        /\ \A r \in Procs : ppc'[r] \in Forking => ppc[r] \in Forking
        /\ ppc'[p] \notin Forking
    BY <2>1, <2>2, CpuTypes, SMTT(30) DEF Forking
  <2>5. EmbryoOwned'
    BY <2>1, <2>2, <2>4, ForkEndEmbryo, Zenon DEF States
  <2>6. GoodLists'
    BY <1>5, ForkPublishLists
  <2>. QED BY <2>2, <2>3, <2>4, <2>5, <2>6, <1>0, CallInv, Zenon
<1>. QED BY <1>1, <1>2, <1>3, <1>4, <1>5 DEF ForkStep

(* wait() reaps, fails or sleeps.                                          *)
LEMMA WaitStepInv ==
  ASSUME IInv, NEW c \in Cpus, NEW p \in Procs, WaitStep(c, p)
  PROVE  IInv'
<1>. USE DEF ids, mlfq, lists, calm, ptable
<1>0. InWait(c, p)
  BY Zenon DEF WaitStep, WaitReap, WaitFail, WaitSleep
<1>1. /\ proc[c] = p /\ lock \in {FREE, c} /\ irq[c] = "none" /\ ppc[p] \in {"kern", "wait"}
  BY <1>0, Zenon DEF InWait, Runs, Schedules, Unlocked
<1>2. CASE WaitSleep(c, p)
  <2>1. SleepBody(c, p, p, "wait") /\ p \in Chans /\ "wait" \notin Forking
    BY <1>2 DEF WaitSleep, Chans, Forking
  <2>. QED BY <2>1, <1>1, SleepBodyInv, Zenon
<1>3. CASE WaitFail(c, p)
  <2>1. /\ lock' = FREE /\ Goto(p, "ret")
        /\ UNCHANGED <<pLists, state, pid, parent, killed, priority, budget, chan, proc, cpu_ticks_in,
                       cpc, idx, idle, clock, nextpid, irq, np, panicked>>
    BY <1>3 DEF WaitFail
  <2>2. /\ ppc' \in [Procs -> {"new", "user", "kern", "fork1", "fork2", "fork3", "wait", "ret", "exit"}]
        /\ \A q \in Procs : ppc'[q] \in Forking => ppc[q] \in Forking
    BY <2>1, CpuTypes, SMTT(30) DEF Goto, Forking
  <2>3. TypeOK'
    BY <2>1, <2>2, Zenon DEF IInv, TypeOK, clock
  <2>4. GoodLists'
    BY <2>1, QuietLists DEF IInv, NoListPanic
  <2>5. CpuInv'
    BY <2>1, <1>0, Return, SMTT(30)
  <2>6. EmbryoOwned'
    BY <2>1, <2>2, KeepEmbryos
  <2>. QED BY <2>3, <2>4, <2>5, <2>6, Together, Zenon
<1>4. CASE WaitReap(c, p)
  <2>1. PICK k \in ZombieKids(p) :
          LET q == pLists[zombie][k]
          IN /\ Check(OnList(q, zombie))
             /\ pid' = [pid EXCEPT ![q] = 0]
             /\ parent' = [parent EXCEPT ![q] = NULL]
             /\ killed' = [killed EXCEPT ![q] = FALSE]
    BY <1>4, Zenon DEF WaitReap
  <2>2. /\ lock' = FREE /\ Goto(p, "ret") /\ panicked' \in {"no", "list"}
        /\ UNCHANGED <<priority, budget, chan, proc, cpu_ticks_in, cpc, idx, idle, clock, nextpid, irq, np>>
    BY <2>1, <1>4, Zenon DEF WaitReap, Check
  <2>3. pid' \in [Procs -> 0..MaxPid] /\ parent' \in [Procs -> Procs \cup {NULL}]
        /\ killed' \in [Procs -> BOOLEAN]
    <3>1. 0 \in 0..MaxPid
      BY ConstantsAssumption DEF ConstantsAssumption
    <3>. QED BY <2>1, <3>1, Zenon DEF IInv, TypeOK
  <2>4. GoodLists' /\ \E q \in Procs : state[q] = "ZOMBIE" /\ state' = [state EXCEPT ![q] = "UNUSED"]
    BY <1>4, WaitReapLists
  <2>5. /\ state' \in [Procs -> States]
        /\ \A q \in Procs : state'[q] = "RUNNING" <=> state[q] = "RUNNING"
        /\ \A q \in Procs : state[q] = "EMBRYO" => state'[q] = "EMBRYO"
    BY <2>4, CpuTypes DEF States
  <2>6. /\ ppc' \in [Procs -> {"new", "user", "kern", "fork1", "fork2", "fork3", "wait", "ret", "exit"}]
        /\ \A q \in Procs : ppc'[q] \in Forking => ppc[q] \in Forking
    BY <2>2, CpuTypes, SMTT(30) DEF Goto, Forking
  <2>7. TypeOK'
    BY <2>2, <2>3, <2>4, <2>5, <2>6, Zenon DEF IInv, TypeOK, clock, GoodLists, Sorted
  <2>8. CpuInv'
    BY <2>2, <2>5, <1>0, Return, SMTT(30)
  <2>9. EmbryoOwned'
    BY <2>2, <2>5, <2>6, KeepEmbryos
  <2>. QED BY <2>4, <2>7, <2>8, <2>9, Together, Zenon
<1>. QED BY <1>2, <1>3, <1>4 DEF WaitStep

(* exit(), from the point where it takes ptable.lock.                      *)
LEMMA ExitInv ==
  ASSUME IInv, NEW c \in Cpus, NEW p \in Procs, Exit(c, p)
  PROVE  IInv'
<1>. USE DEF mlfq, calm
<1>1. /\ proc[c] = p /\ lock = FREE /\ irq[c] = "none" /\ Sched(c)
      /\ UNCHANGED <<pid, killed, priority, budget, chan, clock, nextpid, irq, ppc, np>>
      /\ panicked' \in {"no", "list"}
  BY Zenon DEF Exit, Runs, Schedules, Unlocked, Check
<1>2. parent' \in [Procs -> Procs \cup {NULL}]
  <2>1. initproc \in Procs
    BY ConstantsAssumption, SMTT(30) DEF ConstantsAssumption, initproc, Procs
  <2>2. parent \in [Procs -> Procs \cup {NULL}]
    BY Zenon DEF IInv, TypeOK
  <2>. QED BY <2>1, <2>2 DEF Exit
<1>3. GoodLists'
  BY ExitLists
<1>4. PICK W \in SUBSET {q \in Procs : state[q] = "SLEEPING"} :
        state' = [AsRunnable(W) EXCEPT ![p] = "ZOMBIE"]
  BY ExitLists
<1>5. state[p] = "RUNNING"
  BY <1>1, CpuTypes, Running
<1>6. /\ state' \in [Procs -> States] /\ state'[p] = "ZOMBIE"
      /\ \A q \in Procs \ {p} : state'[q] = IF q \in W THEN "RUNNABLE" ELSE state[q]
  BY <1>4, CpuTypes DEF AsRunnable, States
<1>7. /\ \A q \in Procs \ {p} : state'[q] = "RUNNING" <=> state[q] = "RUNNING"
      /\ \A q \in Procs : state[q] = "EMBRYO" => state'[q] = "EMBRYO"
  BY <1>5, <1>6, SMTT(30)
<1>8. cpu_ticks_in' \in [Cpus -> 0..(UintMod-1)]
  <2>1. 0 \in 0..(UintMod-1)
    BY ConstantsAssumption, SMTT(30) DEF ConstantsAssumption
  <2>. QED BY <2>1, <1>1, Zenon DEF Sched, IInv, TypeOK
<1>9. TypeOK'
  BY <1>1, <1>2, <1>3, <1>6, <1>8, Zenon DEF IInv, TypeOK, Sched, GoodLists, Sorted, clock
<1>10. CpuInv'
  BY <1>1, <1>6, <1>7, GiveUp, Zenon
<1>11. EmbryoOwned'
  BY <1>1, <1>7, KeepEmbryos, Zenon
<1>. QED BY <1>3, <1>9, <1>10, <1>11, Together, Zenon

(* wakeup(), sleep(), kill() and setpriority() called by a process.        *)
LEMMA OtherCallInv ==
  ASSUME IInv, NEW c \in Cpus, NEW p \in Procs,
         \/ Wakeup(c, p)
         \/ \E ch \in {TICKS, IO} : Sleep(c, p, ch)
         \/ \E k \in 1..MaxPid : Kill(c, p, k)
         \/ \E k \in 1..MaxPid, prio \in 0..MAX : SetPriority(c, p, k, prio)
  PROVE  IInv'
<1>. USE DEF ids, mlfq, calm
<1>0. /\ killed \in [Procs -> BOOLEAN] /\ parent \in [Procs -> Procs \cup {NULL}]
      /\ pid \in [Procs -> 0..MaxPid] /\ nextpid \in 1..(MaxPid+1) /\ panicked \in {"no", "list", "init exiting"}
      /\ priority \in [Procs -> 0..MAX] /\ budget \in [Procs -> 0..(UintMod-1)]
      /\ DEFAULT_BUDGET \in 0..(UintMod-1)
  <2>1. DEFAULT_BUDGET \in 0..(UintMod-1)
    BY ConstantsAssumption DEF ConstantsAssumption
  <2>. QED BY <2>1, Zenon DEF IInv, TypeOK
<1>1. CASE Wakeup(c, p)
  <2>1. WakeupOn(IO) /\ UNCHANGED <<cpuvars, clock, nextpid, irq, ppc, np>>
    BY <1>1 DEF Wakeup
  <2>2. /\ GoodLists' /\ UNCHANGED <<pid, parent, killed, priority, budget, chan>>
        /\ state' \in [Procs -> States] /\ panicked' \in {"no", "list"}
        /\ \A q \in Procs : state[q] # "SLEEPING" => state'[q] = state[q]
        /\ \A q \in Procs : state[q] = "SLEEPING" => state'[q] \in {"SLEEPING", "RUNNABLE"}
    BY <2>1, WakeupFacts
  <2>3. \A q \in Procs : state'[q] = "RUNNING" <=> state[q] = "RUNNING"
    BY <2>2, SMTT(30)
  <2>4. EmbryoOwned'
    BY <2>1, <2>2, KeepEmbryos
  <2>. QED BY <2>1, <2>2, <2>3, <2>4, <1>0, CpuTypes, CallInv, Zenon
<1>2. ASSUME NEW ch \in {TICKS, IO}, Sleep(c, p, ch) PROVE IInv'
  <2>1. /\ proc[c] = p /\ lock \in {FREE, c} /\ irq[c] = "none" /\ SleepBody(c, p, ch, ppc[p])
    BY <1>2, Zenon DEF Sleep, Runs, Schedules, Unlocked
  <2>2. ch \in Chans
    BY SMTT(30) DEF Chans
  <2>. QED BY <2>1, <2>2, CpuTypes, SleepBodyInv, SMTT(30)
<1>3. ASSUME NEW k \in 1..MaxPid, Kill(c, p, k) PROVE IInv'
  <2>1. GoodLists' /\ priority' = priority
    BY <1>3, KillLists
  <2>2. \/ state' = state
        \/ \E q \in Procs : state[q] = "SLEEPING" /\ state' = [state EXCEPT ![q] = "RUNNABLE"]
    BY <1>3, KillLists
  <2>3. /\ state' \in [Procs -> States]
        /\ \A q \in Procs : state'[q] = "RUNNING" <=> state[q] = "RUNNING"
        /\ \A q \in Procs : state[q] = "EMBRYO" => state'[q] = "EMBRYO"
    BY <2>2, CpuTypes, SMTT(30) DEF States
  <2>4. /\ Goto(p, "ret") /\ ppc[p] = "kern" /\ UNCHANGED <<pid, parent, budget, chan, cpuvars, clock, nextpid, irq, np>>
        /\ panicked' \in {"no", "list"} /\ \E q : killed' = [killed EXCEPT ![q] = TRUE]
    BY <1>3, Zenon DEF Kill, Runs, Check
  <2>5. killed' \in [Procs -> BOOLEAN]
    BY <2>4, <1>0, Zenon
  <2>6. /\ ppc' \in [Procs -> {"new", "user", "kern", "fork1", "fork2", "fork3", "wait", "ret", "exit"}]
        /\ \A q \in Procs : ppc'[q] \in Forking => ppc[q] \in Forking
        /\ \A q \in Procs : ppc'[q] = "wait" <=> ppc[q] = "wait"
    BY <2>4, CpuTypes, SMTT(30) DEF Goto, Forking
  <2>7. EmbryoOwned'
    BY <2>3, <2>4, <2>6, KeepEmbryos, Zenon
  <2>. QED BY <2>1, <2>3, <2>4, <2>5, <2>6, <2>7, <1>0, CpuTypes, CallInv, Zenon
<1>4. ASSUME NEW k \in 1..MaxPid, NEW prio \in 0..MAX, SetPriority(c, p, k, prio) PROVE IInv'
  <2>1. GoodLists' /\ priority' \in [Procs -> 0..MAX] /\ state' = state
    BY <1>4, SetPriorityLists, SMTT(30)
  <2>2. /\ Goto(p, "ret") /\ ppc[p] = "kern"
        /\ UNCHANGED <<pid, parent, killed, chan, cpuvars, clock, nextpid, irq, np, panicked>>
        /\ \E q : budget' = [budget EXCEPT ![q] = DEFAULT_BUDGET]
    BY <1>4, Zenon DEF SetPriority, Runs
  <2>3. budget' \in [Procs -> 0..(UintMod-1)]
    BY <2>2, <1>0, Zenon
  <2>4. /\ ppc' \in [Procs -> {"new", "user", "kern", "fork1", "fork2", "fork3", "wait", "ret", "exit"}]
        /\ \A q \in Procs : ppc'[q] \in Forking => ppc[q] \in Forking
        /\ \A q \in Procs : ppc'[q] = "wait" <=> ppc[q] = "wait"
    BY <2>2, CpuTypes, SMTT(30) DEF Goto, Forking
  <2>5. EmbryoOwned'
    BY <2>1, <2>2, <2>4, KeepEmbryos
  <2>. QED BY <2>1, <2>2, <2>3, <2>4, <2>5, <1>0, CpuTypes, CallInv, Zenon
<1>. QED BY <1>1, <1>2, <1>3, <1>4, SMTT(30)

-----------------------------------------------------------------------------
(* The theorems                                                            *)

(* userinit leaves the first process ready and every other slot free.      *)
LEMMA InitInv == Init => IInv
<1>. SUFFICES ASSUME Init PROVE IInv
  OBVIOUS
<1>. USE DEF Init
<1>0. /\ initproc \in Procs /\ NULL \notin Procs /\ NPROC \in Nat \ {0} /\ MAX \in Nat
      /\ 0 \in 0..MAX /\ 0 \in Cpus /\ FREE \notin Cpus
  BY ConstantsAssumption DEF ConstantsAssumption, initproc, Procs, NULL, FREE, Cpus
<1>. DEFINE s == [k \in 1..(NPROC-1) |-> NPROC - k]
<1>1. /\ s \in Seq(Procs) /\ IsInjective(s) /\ Range(s) = Procs \ {initproc}
  <2>1. s \in [1..(NPROC-1) -> Procs] /\ NPROC - 1 \in Nat
    BY <1>0 DEF Procs
  <2>2. s \in Seq(Procs)
    <3>. HIDE DEF s
    <3>. QED BY <2>1, SeqDef, Zenon
  <2>3. IsInjective(s)
    BY <1>0 DEF IsInjective
  <2>4. \A q \in Procs \ {initproc} : NPROC - q \in 1..(NPROC-1) /\ s[NPROC - q] = q
    BY <1>0 DEF Procs, initproc
  <2>5. \A k \in 1..(NPROC-1) : s[k] \in Procs \ {initproc}
    BY <1>0 DEF Procs, initproc
  <2>6. DOMAIN s = 1..(NPROC-1)
    OBVIOUS
  <2>. HIDE DEF s
  <2>7. Range(s) = Procs \ {initproc}
    BY <2>4, <2>5, <2>6 DEF Range
  <2>. QED BY <2>2, <2>3, <2>7
<1>2. /\ <<initproc>> \in Seq(Procs) /\ IsInjective(<<initproc>>) /\ Range(<<initproc>>) = {initproc}
      /\ <<>> \in Seq(Procs) /\ IsInjective(<<>>) /\ Range(<<>>) = {}
  BY <1>0, EmptySeq DEF IsInjective, Range
<1>3. /\ pLists[free] = s /\ pLists[ready(0)] = <<initproc>>
      /\ \A l \in ListId \ {free, ready(0)} : pLists[l] = <<>>
      /\ DOMAIN pLists = ListId /\ pLists = [l \in ListId |-> pLists[l]]
  BY <1>0, ListNames, Zenon
<1>. HIDE DEF s
<1>4. pLists \in [ListId -> Seq(Procs)]
  BY <1>1, <1>2, <1>3, Zenon
<1>5. \A p \in Procs : ListOf(p) = IF p = initproc THEN ready(0) ELSE free
  BY DEF ListOf, free
<1>6. ListsPartition
  <2>1. free # ready(0)
    BY <1>0, ListNames
  <2>2. Range(s) = {p \in Procs : ListOf(p) = free} /\ {initproc} = {p \in Procs : ListOf(p) = ready(0)}
    BY <2>1, <1>0, <1>1, <1>5
  <2>3. \A l \in ListId \ {free, ready(0)} : {p \in Procs : ListOf(p) = l} = {}
    BY <1>5
  <2> SUFFICES ASSUME NEW l \in ListId
               PROVE  IsInjective(pLists[l]) /\ Range(pLists[l]) = {p \in Procs : ListOf(p) = l}
    BY Zenon DEF ListsPartition
  <2>4. CASE l = free
    BY <2>2, <2>4, <1>1, <1>3, Zenon
  <2>5. CASE l = ready(0)
    BY <2>2, <2>5, <1>1, <1>2, <1>3, Zenon
  <2>6. CASE l \notin {free, ready(0)}
    BY <2>3, <2>6, <1>1, <1>2, <1>3, Zenon
  <2>. QED BY <2>4, <2>5, <2>6, Zenon
<1>7. TypeOK
  <2>1. /\ 0 \in 0..(UintMod-1) /\ DEFAULT_BUDGET \in 0..(UintMod-1) /\ TICKS_TO_PROMOTE \in 0..(UintMod-1)
        /\ 0 \in 0..MaxPid /\ 1 \in 0..MaxPid /\ 2 \in 1..(MaxPid+1) /\ 0 \in 0..(MAX+1)
    BY ConstantsAssumption DEF ConstantsAssumption
  <2>. QED BY <2>1, <1>0, <1>4, Zenon DEF TypeOK, States, Chans
<1>8. OneCpuPerProcess /\ LockHandedOver /\ EmbryoOwned /\ NoListPanic
  BY <1>0 DEF OneCpuPerProcess, LockHandedOver, EmbryoOwned, NoListPanic
<1>. QED BY <1>6, <1>7, <1>8 DEF IInv

(* Every step of every processor keeps the inductive invariant.            *)
LEMMA StepInv == IInv /\ [Next]_vars => IInv'
<1>. SUFFICES ASSUME IInv, [Next]_vars PROVE IInv'
  OBVIOUS
<1>1. CASE TickInterrupt
  <2>1. 0 \in Cpus
    BY ConstantsAssumption DEF ConstantsAssumption, Cpus
  <2>. QED BY <1>1, <2>1, InterruptInv
<1>2. ASSUME NEW c \in Cpus, SchedStep(c) PROVE IInv'
  BY <1>2, SchedStepInv
<1>3. ASSUME NEW c \in Cpus, HandlerStep(c) PROVE IInv'
  BY <1>3, HandlerStepInv
<1>4. ASSUME NEW c \in Cpus, Interrupt(c) PROVE IInv'
  BY <1>4, InterruptInv
<1>5. ASSUME NEW c \in Cpus, NEW p \in Procs, TrapStep(c, p) PROVE IInv'
  BY <1>5, TrapStepInv
<1>6. ASSUME NEW c \in Cpus, NEW p \in Procs, ForkStep(c, p) PROVE IInv'
  BY <1>6, ForkStepInv
<1>7. ASSUME NEW c \in Cpus, NEW p \in Procs, WaitStep(c, p) PROVE IInv'
  BY <1>7, WaitStepInv
<1>8. ASSUME NEW c \in Cpus, NEW p \in Procs, Exit(c, p) PROVE IInv'
  BY <1>8, ExitInv
<1>9. ASSUME NEW c \in Cpus, NEW p \in Procs,
             \/ Wakeup(c, p)
             \/ \E ch \in {TICKS, IO} : Sleep(c, p, ch)
             \/ \E k \in 1..MaxPid : Kill(c, p, k)
             \/ \E k \in 1..MaxPid, prio \in 0..MAX : SetPriority(c, p, k, prio)
      PROVE IInv'
  BY <1>9, OtherCallInv, SMTT(30)
<1>10. CASE PanicLoop \/ UNCHANGED vars
  <2>1. UNCHANGED vars
    BY <1>10 DEF PanicLoop
  <2>. QED BY <2>1, QuietStep, CpuTypes, Zenon DEF vars, calm, IInv, TypeOK, NoListPanic
<1>. QED BY <1>1, <1>2, <1>3, <1>4, <1>5, <1>6, <1>7, <1>8, <1>9, <1>10 DEF Next

(* The invariant holds in every reachable state.                           *)
THEOREM Invariance == Spec => []IInv
<1>. QED BY InitInv, StepInv, PTL DEF Spec

(* No step leaves a variable outside its type: priorities stay within      *)
(* 0..MAX, the uint counters within their width.                           *)
THEOREM TypeCorrect == Spec => []TypeOK
<1>1. IInv => TypeOK
  BY DEF IInv
<1>. QED BY <1>1, Invariance, PTL

(* Every slot of ptable is on exactly one state list, the one of its state *)
(* and priority, whenever ptable.lock is free or handed over.              *)
THEOREM ListsCorrect == Spec => []ListsPartition
<1>1. IInv => ListsPartition
  BY DEF IInv
<1>. QED BY <1>1, Invariance, PTL

(* No list operation of proc.c and no assertstate ever panics.             *)
THEOREM ListsNeverPanic == Spec => []NoListPanic
<1>1. IInv => NoListPanic
  BY DEF IInv
<1>. QED BY <1>1, Invariance, PTL

(* A process is RUNNING exactly on one CPU.                                *)
THEOREM RunsOnOneCpu == Spec => []OneCpuPerProcess
<1>1. IInv => OneCpuPerProcess
  BY DEF IInv
<1>. QED BY <1>1, Invariance, PTL

(* ptable.lock is always with a scheduler in its loop, with a process      *)
(* resumed in wait(), or free.                                             *)
THEOREM LockIsHandedOver == Spec => []LockHandedOver
<1>1. IInv => LockHandedOver
  BY DEF IInv
<1>. QED BY <1>1, Invariance, PTL

(* The slot allocproc gives to a fork() belongs to that fork() only.       *)
THEOREM EmbryoHasOneOwner == Spec => []EmbryoOwned
<1>1. IInv => EmbryoOwned
  BY DEF IInv
<1>. QED BY <1>1, Invariance, PTL
=============================================================================
