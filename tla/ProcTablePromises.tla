-------------------------- MODULE ProcTablePromises --------------------------
(***************************************************************************)
(* What the process table promises to parents and children: whoever can    *)
(* exit has a parent that can wait for it, and a sleep in wait() has been  *)
(* overtaken by no exit() and no kill().                                   *)
(***************************************************************************)
EXTENDS ProcTableProofs

Alive == {"SLEEPING", "RUNNABLE", "RUNNING"}

(* init lives for ever and has no parent; an unused slot, and a new one    *)
(* until fork() has copied the image, has none either; who sleeps in       *)
(* wait() sleeps on its own address.                                       *)
FamilyInv ==
  /\ state[initproc] \in Alive /\ parent[initproc] = NULL
  /\ ppc[initproc] = "exit" => panicked # "no"
  /\ \A p \in Procs : parent[p] # p
  /\ \A p \in Procs : state[p] = "UNUSED" => parent[p] = NULL
  /\ \A p \in Procs : ppc[p] \in {"fork1", "fork2"} => parent[np[p]] = NULL
  /\ \A p \in Procs : ppc[p] = "fork3" => parent[np[p]] = p
  /\ \A p \in Procs : state[p] = "SLEEPING" /\ ppc[p] = "wait" => chan[p] = p
  /\ ParentLive /\ WaiterWillBeWoken

LEMMA FamilyInit == Init => FamilyInv
<1> SUFFICES ASSUME Init PROVE FamilyInv
  OBVIOUS
<1>1. initproc \in Procs /\ NULL \notin Procs
  BY ConstantsAssumption DEF initproc, Procs, NULL, ConstantsAssumption
<1>. QED BY <1>1 DEF Init, FamilyInv, ParentLive, WaiterWillBeWoken, Alive

(* What the proofs below use of the types.                                 *)
LEMMA FamilyTypes ==
  ASSUME IInv
  PROVE  /\ state \in [Procs -> States] /\ parent \in [Procs -> Procs \cup {NULL}]
         /\ killed \in [Procs -> BOOLEAN] /\ chan \in [Procs -> Chans]
         /\ np \in [Procs -> Procs \cup {NULL}]
         /\ ppc \in [Procs -> {"new", "user", "kern", "fork1", "fork2", "fork3", "wait", "ret", "exit"}]
         /\ initproc \in Procs /\ NULL \notin Procs
<1>1. initproc \in Procs /\ NULL \notin Procs
  BY ConstantsAssumption DEF initproc, Procs, NULL, ConstantsAssumption
<1>. QED BY <1>1, Zenon DEF IInv, TypeOK

(* Who is on which list.                                                   *)
LEMMA Members ==
  ASSUME NEW L, NEW st \in [Procs -> States], NEW pr \in [Procs -> 0..MAX], Sorted(L, KeyOf(st, pr))
  PROVE  /\ Range(L[zombie]) = {q \in Procs : st[q] = "ZOMBIE"}
         /\ Range(L[sleeping]) = {q \in Procs : st[q] = "SLEEPING"}
         /\ Range(L[running]) = {q \in Procs : st[q] = "RUNNING"}
         /\ Range(L[embryo]) = {q \in Procs : st[q] = "EMBRYO"}
         /\ Range(L[free]) = {q \in Procs : st[q] = "UNUSED"}
         /\ \A i \in 0..MAX : Range(L[ready(i)]) = {q \in Procs : st[q] = "RUNNABLE" /\ pr[q] = i}
         /\ OnSome(L, AdoptLists) = {q \in Procs : st[q] \in Alive \cup {"EMBRYO"}}
<1>1. \A l \in ListId : Range(L[l]) = {q \in Procs : KeyOf(st, pr)[q] = l}
  BY DEF Sorted
<1>2. /\ Range(L[zombie]) = {q \in Procs : st[q] = "ZOMBIE"}
      /\ Range(L[sleeping]) = {q \in Procs : st[q] = "SLEEPING"}
      /\ Range(L[running]) = {q \in Procs : st[q] = "RUNNING"}
      /\ Range(L[embryo]) = {q \in Procs : st[q] = "EMBRYO"}
      /\ Range(L[free]) = {q \in Procs : st[q] = "UNUSED"}
  BY <1>1, ListNames, KeyFacts
<1>3. \A i \in 0..MAX : Range(L[ready(i)]) = {q \in Procs : st[q] = "RUNNABLE" /\ pr[q] = i}
  BY <1>1, ListNames, KeyFacts
<1>4. OnSome(L, AdoptLists) = Range(L[embryo]) \cup Range(L[sleeping]) \cup Range(L[running])
                                \cup UNION {Range(L[ready(i)]) : i \in 0..MAX}
  BY DEF OnSome, AdoptLists
<1>5. UNION {Range(L[ready(i)]) : i \in 0..MAX} = {q \in Procs : st[q] = "RUNNABLE"}
  BY <1>3
<1>. QED BY <1>2, <1>3, <1>4, <1>5 DEF Alive

LEMMA Listed ==
  ASSUME IInv
  PROVE  /\ Range(pLists[zombie]) = {q \in Procs : state[q] = "ZOMBIE"}
         /\ Range(pLists[sleeping]) = {q \in Procs : state[q] = "SLEEPING"}
         /\ Range(pLists[running]) = {q \in Procs : state[q] = "RUNNING"}
         /\ \A i \in 0..MAX : Range(pLists[ready(i)]) = {q \in Procs : state[q] = "RUNNABLE" /\ priority[q] = i}
         /\ OnSome(pLists, AdoptLists) = {q \in Procs : state[q] \in Alive \cup {"EMBRYO"}}
<1>1. Sorted(pLists, KeyOf(state, priority)) /\ state \in [Procs -> States] /\ priority \in [Procs -> 0..MAX]
  BY Basics DEF GoodLists
<1>. QED BY <1>1, Members, SMTT(30)

(* Steps in which nobody is born, dies or is handed over, and nobody goes  *)
(* to sleep in wait().                                                     *)
LEMMA FamilyStays ==
  ASSUME IInv, FamilyInv, UNCHANGED parent,
         \A q \in Procs : state'[q] # state[q] => state[q] \in Alive /\ state'[q] \in Alive,
         \A q \in Procs : state'[q] = "SLEEPING" /\ ppc'[q] = "wait"
                            => /\ state[q] = "SLEEPING" /\ ppc[q] = "wait"
                               /\ chan'[q] = chan[q] /\ killed'[q] = killed[q],
         \A q \in Procs : ppc'[q] \in {"fork1", "fork2"} => ppc[q] \in {"fork1", "fork2"} /\ np'[q] = np[q],
         \A q \in Procs : ppc'[q] = "fork3" => ppc[q] = "fork3" /\ np'[q] = np[q],
         ppc'[initproc] = "exit" => panicked' # "no"
  PROVE  FamilyInv'
<1>1. ParentLive'
  BY FamilyTypes DEF FamilyInv, ParentLive, Alive
<1>2. WaiterWillBeWoken'
  BY FamilyTypes DEF FamilyInv, WaiterWillBeWoken, Alive
<1>3. state'[initproc] \in Alive /\ parent'[initproc] = NULL
  BY FamilyTypes DEF FamilyInv
<1>4. \A p \in Procs : parent'[p] # p /\ (state'[p] = "UNUSED" => parent'[p] = NULL)
  BY FamilyTypes DEF FamilyInv, Alive
<1>5. \A p \in Procs : /\ ppc'[p] \in {"fork1", "fork2"} => parent'[np'[p]] = NULL
                       /\ ppc'[p] = "fork3" => parent'[np'[p]] = p
                       /\ state'[p] = "SLEEPING" /\ ppc'[p] = "wait" => chan'[p] = p
  BY FamilyTypes DEF FamilyInv
<1>. QED BY <1>1, <1>2, <1>3, <1>4, <1>5 DEF FamilyInv

-----------------------------------------------------------------------------
(* Each step keeps the family                                              *)

(* A step of a process, or of a CPU that interrupted it, that does not let *)
(* it die: where it goes, and what becomes of the others.                  *)
LEMMA InitNotExiting ==
  ASSUME IInv, FamilyInv, panicked = "no"
  PROVE  ppc[initproc] # "exit"
BY DEF FamilyInv

LEMMA TrapFamily ==
  ASSUME IInv, FamilyInv, NEW c \in Cpus, NEW p \in Procs, TrapStep(c, p)
  PROVE  FamilyInv'
<1>1. /\ panicked = "no" /\ UNCHANGED <<parent, state, chan, np>> /\ proc[c] = p /\ cpc[c] = "run"
      /\ \A q \in Procs \ {p} : killed'[q] = killed[q]
  BY FamilyTypes DEF TrapStep, SyscallEnter, UserFault, SyscallDone, TrapReturn, SysExit,
                    Runs, Schedules, ptable, lists, ids
<1>2. /\ \A q \in Procs \ {p} : ppc'[q] = ppc[q]
      /\ ppc'[p] \in {"kern", "user", "ret", "exit"}
      /\ ppc'[p] = "exit" /\ p = initproc => panicked' = "init exiting"
      /\ p # initproc => panicked' = "no"
      /\ ppc'[p] # "exit" => panicked' = "no"
  BY <1>1, FamilyTypes, Zenon DEF TrapStep, SyscallEnter, UserFault, SyscallDone, TrapReturn, SysExit,
                    EnterExit, Goto
<1>3. ppc'[initproc] = "exit" => panicked' # "no"
  BY <1>1, <1>2, InitNotExiting, FamilyTypes, Zenon
<1>. QED BY <1>1, <1>2, <1>3, FamilyStays, Zenon

LEMMA SchedFamily ==
  ASSUME IInv, FamilyInv, NEW c \in Cpus, SchedStep(c)
  PROVE  FamilyInv'
<1>0. panicked = "no"
  BY DEF SchedStep, SchedAcquire, SkipList, Dispatch, SchedRelease, Schedules
<1>1. CASE SchedAcquire(c) \/ SkipList(c) \/ SchedRelease(c)
  <2>1. UNCHANGED <<parent, state, chan, np, killed, ppc, panicked>>
    BY <1>1 DEF SchedAcquire, SkipList, SchedRelease, ptable, lists, ids
  <2>. QED BY <1>0, <2>1, InitNotExiting, FamilyStays
<1>2. CASE Dispatch(c)
  <2>1. PICK p \in Procs : /\ p = Head(ListsNow[ready(idx[c])]) /\ state[p] = "RUNNABLE"
                           /\ state' = [state EXCEPT ![p] = "RUNNING"]
    BY <1>2, ConstantsAssumption, DispatchLists, SMTT(30)
  <2>2. /\ ppc' = [ppc EXCEPT ![p] = IF @ = "new" THEN "user" ELSE @]
        /\ chan' = [chan EXCEPT ![p] = NULL]
        /\ UNCHANGED <<parent, killed, np>>
    BY <1>2, <2>1 DEF Dispatch, ids
  <2>3. /\ \A q \in Procs \ {p} : state'[q] = state[q] /\ ppc'[q] = ppc[q] /\ chan'[q] = chan[q]
        /\ state[p] = "RUNNABLE" /\ state'[p] = "RUNNING" /\ UNCHANGED <<parent, killed, np>>
        /\ ppc'[p] = IF ppc[p] = "new" THEN "user" ELSE ppc[p]
    BY <2>1, <2>2, FamilyTypes
  <2>4. ppc'[initproc] # "exit"
    BY <1>0, <2>3, InitNotExiting, FamilyTypes
  <2>. QED BY <2>3, <2>4, FamilyStays DEF Alive
<1>. QED BY <1>1, <1>2 DEF SchedStep

LEMMA InterruptFamily ==
  ASSUME IInv, FamilyInv, NEW c \in Cpus, Interrupt(c) \/ TickInterrupt
  PROVE  FamilyInv'
<1>1. panicked = "no" /\ UNCHANGED <<parent, state, chan, np, killed, ppc, panicked>>
  BY DEF Interrupt, DeviceInterrupt, TickInterrupt, TimerInterrupt, InterruptsOn, Handles, ptable, lists, ids
<1>. QED BY <1>1, InitNotExiting, FamilyStays

LEMMA WakeupFamily ==
  ASSUME IInv, FamilyInv, NEW ch, WakeupOn(ch), panicked = "no", np' = np,
         \A q \in Procs : ppc'[q] \in {ppc[q], "ret"}
  PROVE  FamilyInv'
<1>1. /\ UNCHANGED <<parent, killed, chan>> /\ state' \in [Procs -> States]
      /\ \A q \in Procs : state[q] # "SLEEPING" => state'[q] = state[q]
      /\ \A q \in Procs : state[q] = "SLEEPING" => state'[q] \in {"SLEEPING", "RUNNABLE"}
  BY WakeupFacts
<1>2. ppc'[initproc] # "exit"
  BY InitNotExiting, FamilyTypes
<1>. QED BY <1>1, <1>2, FamilyStays DEF Alive

(* The process of CPU c is RUNNING.                                        *)
LEMMA RunsRunning ==
  ASSUME IInv, NEW c \in Cpus, NEW p \in Procs, proc[c] = p
  PROVE  state[p] = "RUNNING"
BY DEF IInv, OneCpuPerProcess

LEMMA HandlerFamily ==
  ASSUME IInv, FamilyInv, NEW c \in Cpus, HandlerStep(c)
  PROVE  FamilyInv'
<1>0. panicked = "no"
  BY DEF HandlerStep, InterruptWakeup, TimerExit, Yield, Handles
<1>1. CASE InterruptWakeup(c)
  <2>1. PICK ch : WakeupOn(ch)
    BY <1>1 DEF InterruptWakeup
  <2>2. np' = np /\ \A q \in Procs : ppc'[q] \in {ppc[q], "ret"}
    BY <1>1, FamilyTypes DEF InterruptWakeup, BackFromTrap
  <2>. QED BY <1>0, <2>1, <2>2, WakeupFamily
<1>2. CASE TimerExit(c)
  <2>1. PICK p \in Procs : p = proc[c]
    BY <1>2, Running DEF TimerExit, Handles
  <2>2. /\ UNCHANGED <<parent, state, chan, np, killed>>
        /\ \A q \in Procs \ {p} : ppc'[q] = ppc[q]
        /\ ppc'[p] = "exit" /\ panicked' = IF p = initproc THEN "init exiting" ELSE "no"
    BY <1>2, <2>1, FamilyTypes, Zenon DEF TimerExit, EnterExit, Goto, ptable, lists, ids
  <2>3. ppc'[initproc] = "exit" => panicked' # "no"
    BY <1>0, <2>2, InitNotExiting, FamilyTypes, Zenon
  <2>. QED BY <2>2, <2>3, FamilyStays, Zenon
<1>3. CASE Yield(c)
  <2>1. PICK p \in Procs : p = proc[c] /\ state[p] = "RUNNING"
    BY <1>3, Running, RunsRunning DEF Yield, Handles
  <2>2. /\ UNCHANGED <<parent, chan, np, killed>>
        /\ \A q \in Procs \ {p} : ppc'[q] = ppc[q] /\ state'[q] = state[q]
        /\ ppc'[p] \in {ppc[p], "ret"} /\ state'[p] = "RUNNABLE"
    BY <1>3, <2>1, FamilyTypes DEF Yield, Goto, BackFromTrap, ids
  <2>3. ppc'[initproc] # "exit"
    BY <1>0, <2>2, InitNotExiting, FamilyTypes
  <2>. QED BY <2>1, <2>2, <2>3, FamilyStays DEF Alive
<1>. QED BY <1>1, <1>2, <1>3 DEF HandlerStep

LEMMA CallFamily ==
  ASSUME IInv, FamilyInv, NEW c \in Cpus, NEW p \in Procs,
         \/ Wakeup(c, p)
         \/ \E ch \in {TICKS, IO} : Sleep(c, p, ch)
         \/ \E k \in 1..MaxPid : Kill(c, p, k)
         \/ \E k \in 1..MaxPid, prio \in 0..MAX : SetPriority(c, p, k, prio)
  PROVE  FamilyInv'
<1>0. panicked = "no" /\ state[p] = "RUNNING" /\ ppc[p] \in {"kern", "exit"}
  BY RunsRunning DEF Wakeup, Sleep, Kill, SetPriority, Runs, Schedules
<1>1. CASE Wakeup(c, p)
  <2>1. WakeupOn(IO) /\ UNCHANGED <<np, ppc>>
    BY <1>1 DEF Wakeup
  <2>. QED BY <1>0, <2>1, WakeupFamily
<1>2. ASSUME NEW ch \in {TICKS, IO}, Sleep(c, p, ch) PROVE FamilyInv'
  <2>1. /\ UNCHANGED <<parent, np, killed>>
        /\ \A q \in Procs \ {p} : state'[q] = state[q] /\ chan'[q] = chan[q]
        /\ \A q \in Procs : ppc'[q] = ppc[q]
        /\ state'[p] = "SLEEPING"
    BY <1>2, FamilyTypes DEF Sleep, SleepBody, Goto, ids
  <2>2. ppc'[initproc] # "exit"
    BY <1>0, <2>1, InitNotExiting, FamilyTypes
  <2>. QED BY <1>0, <2>1, <2>2, FamilyStays DEF Alive
<1>3. ASSUME NEW k \in 1..MaxPid, Kill(c, p, k) PROVE FamilyInv'
  <2>1. PICK q \in OnSome(pLists, AdoptLists) :
          /\ killed' = [killed EXCEPT ![q] = TRUE]
          /\ state' = [state EXCEPT ![q] = IF q \in Range(pLists[sleeping]) THEN "RUNNABLE" ELSE @]
    BY <1>3, ZenonT(30) DEF Kill
  <2>2. q \in Procs /\ (q \in Range(pLists[sleeping]) <=> state[q] = "SLEEPING")
    BY Listed
  <2>3. /\ \A r \in Procs \ {q} : killed'[r] = killed[r] /\ state'[r] = state[r]
        /\ state'[q] = IF state[q] = "SLEEPING" THEN "RUNNABLE" ELSE state[q]
    BY <2>1, <2>2, FamilyTypes
  <2>4. /\ UNCHANGED <<parent, np, chan>> /\ ppc'[p] = "ret"
        /\ \A r \in Procs \ {p} : ppc'[r] = ppc[r]
    BY <1>3, FamilyTypes, Zenon DEF Kill, Goto
  <2>5. ppc'[initproc] # "exit"
    BY <1>0, <2>4, InitNotExiting, FamilyTypes
  <2>. QED BY <2>2, <2>3, <2>4, <2>5, FamilyStays DEF Alive
<1>4. ASSUME NEW k \in 1..MaxPid, NEW prio \in 0..MAX, SetPriority(c, p, k, prio) PROVE FamilyInv'
  <2>1. /\ UNCHANGED <<parent, np, chan, state, killed>> /\ ppc'[p] = "ret"
        /\ \A r \in Procs \ {p} : ppc'[r] = ppc[r]
    BY <1>4, FamilyTypes DEF SetPriority, Goto, ids
  <2>2. ppc'[initproc] # "exit"
    BY <1>0, <2>1, InitNotExiting, FamilyTypes
  <2>. QED BY <2>1, <2>2, FamilyStays
<1>. QED BY <1>1, <1>2, <1>3, <1>4

(* fork(): the slot of the child, until it is published, is nobody else's. *)
LEMMA ForkFamily ==
  ASSUME IInv, FamilyInv, NEW c \in Cpus, NEW p \in Procs, ForkStep(c, p)
  PROVE  FamilyInv'
<1>0. panicked = "no" /\ state[p] = "RUNNING" /\ ppc[p] \in {"kern", "fork1", "fork2", "fork3"}
  BY RunsRunning, Zenon DEF ForkStep, ForkAlloc, AllocInit, ForkFail, ForkCopy, ForkPublish, Runs, Schedules
<1>1. ppc[initproc] # "exit"
  BY <1>0, InitNotExiting
<1>2. \A r \in Procs : ppc[r] \in Forking => /\ np[r] \in Procs /\ state[np[r]] = "EMBRYO"
                                             /\ r # p /\ ppc[p] \in Forking => np[r] # np[p]
  BY DEF IInv, EmbryoOwned, Forking
<1>3. CASE ForkAlloc(c, p)
  <2>1. PICK q \in Procs : /\ q = Head(pLists[free]) /\ state[q] = "UNUSED"
                           /\ state' = [state EXCEPT ![q] = "EMBRYO"]
    BY <1>3, ForkAllocLists
  <2>2. /\ UNCHANGED <<parent, chan, killed>> /\ ppc'[p] = "fork1" /\ np'[p] = q
        /\ \A r \in Procs \ {p} : ppc'[r] = ppc[r] /\ np'[r] = np[r]
        /\ state[q] = "UNUSED" /\ state'[q] = "EMBRYO"
        /\ \A r \in Procs \ {q} : state'[r] = state[r]
    BY <1>3, <2>1, FamilyTypes DEF ForkAlloc, Goto
  <2>3. ParentLive'
    BY <2>2, FamilyTypes DEF FamilyInv, ParentLive
  <2>4. WaiterWillBeWoken'
    BY <1>0, <2>2, FamilyTypes DEF FamilyInv, WaiterWillBeWoken
  <2>5. q # initproc /\ parent[q] = NULL
    BY <2>2 DEF FamilyInv, Alive
  <2>. QED BY <1>0, <1>1, <2>2, <2>3, <2>4, <2>5, FamilyTypes DEF FamilyInv
<1>4. CASE AllocInit(c, p)
  <2>1. /\ UNCHANGED <<parent, chan, killed, state, np>> /\ ppc[p] = "fork1" /\ ppc'[p] = "fork2"
        /\ \A r \in Procs \ {p} : ppc'[r] = ppc[r]
    BY <1>4, FamilyTypes DEF AllocInit, Runs, Goto, ids, lists
  <2>2. ppc'[initproc] # "exit"
    BY <1>1, <2>1, FamilyTypes
  <2>. QED BY <2>1, <2>2, FamilyStays
<1>5. CASE ForkFail(c, p)
  <2>1. PICK q \in Procs : q = np[p] /\ state[q] = "EMBRYO" /\ parent[q] = NULL
    BY <1>2, <1>5 DEF ForkFail, Runs, Forking, FamilyInv
  <2>2. /\ UNCHANGED <<parent, chan, killed>> /\ ppc[p] \in Forking /\ ppc'[p] = "ret"
        /\ \A r \in Procs \ {p} : ppc'[r] = ppc[r] /\ np'[r] = np[r]
        /\ state'[q] = "UNUSED" /\ \A r \in Procs \ {q} : state'[r] = state[r]
    BY <1>5, <2>1, FamilyTypes DEF ForkFail, Runs, Goto, ids, Forking
  <2>3. ParentLive'
    BY <2>1, <2>2, FamilyTypes DEF FamilyInv, ParentLive
  <2>4. WaiterWillBeWoken'
    BY <1>0, <2>1, <2>2, FamilyTypes DEF FamilyInv, WaiterWillBeWoken
  <2>. QED BY <1>0, <1>1, <2>1, <2>2, <2>3, <2>4, FamilyTypes DEF FamilyInv, Alive
<1>6. CASE ForkCopy(c, p)
  <2>1. PICK q \in Procs : q = np[p] /\ state[q] = "EMBRYO" /\ parent[q] = NULL
    BY <1>2, <1>6 DEF ForkCopy, Runs, Forking, FamilyInv
  <2>2. /\ UNCHANGED <<state, chan, killed, np>> /\ ppc[p] \in Forking /\ ppc'[p] = "fork3"
        /\ \A r \in Procs \ {p} : ppc'[r] = ppc[r]
        /\ parent'[q] = p /\ \A r \in Procs \ {q} : parent'[r] = parent[r]
    BY <1>6, <2>1, FamilyTypes DEF ForkCopy, Runs, Goto, lists, Forking
  <2>3. ParentLive'
    BY <2>1, <2>2, FamilyTypes DEF FamilyInv, ParentLive
  <2>4. WaiterWillBeWoken'
    BY <1>0, <2>1, <2>2, FamilyTypes DEF FamilyInv, WaiterWillBeWoken
  <2>5. \A r \in Procs \ {p} : ppc[r] \in Forking => np[r] \in Procs \ {q}
    BY <1>2, <2>1, <2>2
  <2>6. q # initproc /\ q # p
    BY <1>0, <2>1 DEF FamilyInv, Alive
  <2>. QED BY <1>0, <1>1, <2>1, <2>2, <2>3, <2>4, <2>5, <2>6, FamilyTypes DEF FamilyInv, Forking
<1>7. CASE ForkPublish(c, p)
  <2>1. PICK q \in Procs : q = np[p] /\ state[q] = "EMBRYO" /\ parent[q] = p
    BY <1>2, <1>7, ZenonT(30) DEF ForkPublish, Runs, Forking, FamilyInv
  <2>2. q # p /\ q # initproc
    BY <1>0, <2>1 DEF FamilyInv, Alive
  <2>3. /\ UNCHANGED <<parent, chan, killed>> /\ ppc[p] \in Forking /\ ppc'[p] = "ret" /\ ppc'[q] = "new"
        /\ \A r \in Procs \ {p, q} : ppc'[r] = ppc[r] /\ np'[r] = np[r]
        /\ state'[q] = "RUNNABLE" /\ \A r \in Procs \ {q} : state'[r] = state[r]
    BY <1>7, <2>1, <2>2, FamilyTypes DEF ForkPublish, Runs, ids, Forking
  <2>4. ParentLive'
    BY <1>0, <2>1, <2>2, <2>3, FamilyTypes DEF FamilyInv, ParentLive
  <2>5. WaiterWillBeWoken'
    BY <1>0, <2>1, <2>2, <2>3, FamilyTypes DEF FamilyInv, WaiterWillBeWoken
  <2>. QED BY <1>0, <1>1, <2>1, <2>2, <2>3, <2>4, <2>5, FamilyTypes DEF FamilyInv
<1>. QED BY <1>3, <1>4, <1>5, <1>6, <1>7 DEF ForkStep

(* What exit() does: it wakes its parent, gives all its children to init,  *)
(* and wakes init if there is a zombie among them.                         *)
LEMMA ExitEffect ==
  ASSUME IInv, FamilyInv, NEW c \in Cpus, NEW p \in Procs, Exit(c, p)
  PROVE  /\ state[p] = "RUNNING" /\ state'[p] = "ZOMBIE"
         /\ \A q \in Procs \ {p} : state'[q] # state[q] => state[q] = "SLEEPING" /\ state'[q] = "RUNNABLE"
         /\ \A q \in Procs : state[q] = "SLEEPING" /\ chan[q] = parent[p] => state'[q] = "RUNNABLE"
         /\ (\E z \in Procs : state[z] = "ZOMBIE" /\ parent[z] = p)
              => \A q \in Procs : state[q] = "SLEEPING" /\ chan[q] = initproc => state'[q] = "RUNNABLE"
         /\ \A q \in Procs : parent'[q] = IF parent[q] = p THEN initproc ELSE parent[q]
         /\ UNCHANGED <<killed, chan, ppc, np>> /\ panicked = "no" /\ ppc[p] = "exit"
<1>. DEFINE W1 == Sleepers(pLists, parent[p])
            L1 == Wake(pLists, W1)
            Z  == {q \in Range(L1[zombie]) : parent[q] = p}
            W2 == IF Z = {} THEN {} ELSE Sleepers(L1, initproc)
            kids == {q \in OnSome(L1, AdoptLists) : parent[q] = p} \cup Z
<1>1. state \in [Procs -> States] /\ priority \in [Procs -> 0..MAX]
      /\ Sorted(pLists, KeyOf(state, priority))
  BY Basics DEF GoodLists
<1>2. panicked = "no" /\ ppc[p] = "exit" /\ state[p] = "RUNNING" /\ UNCHANGED <<killed, chan, ppc, np>>
  BY RunsRunning DEF Exit, Runs, Schedules
<1>3. /\ state' = [AsRunnable(W1 \cup W2) EXCEPT ![p] = "ZOMBIE"]
      /\ parent' = [q \in Procs |-> IF q \in kids THEN initproc ELSE parent[q]]
  BY Zenon DEF Exit
<1>4. W1 = {q \in Procs : state[q] = "SLEEPING" /\ chan[q] = parent[p]}
  BY Listed DEF Sleepers
<1>. HIDE DEF W1
<1>5. W1 \subseteq Range(pLists[sleeping])
  BY <1>4, Listed
<1>6. /\ Sorted(L1, KeyOf(AsRunnable(W1), priority)) /\ AsRunnable(W1) \in [Procs -> States]
  <2>1. Sorted(L1, KeyOf(AsRunnable(W1), priority))
    BY <1>1, <1>5, WakeSorted DEF AsRunnable
  <2>2. AsRunnable(W1) \in [Procs -> States]
    BY <1>1 DEF AsRunnable, States
  <2>. QED BY <2>1, <2>2
<1>. DEFINE st1 == AsRunnable(W1)
<1>6a. Sorted(L1, KeyOf(st1, priority)) /\ st1 \in [Procs -> States]
  BY <1>6
<1>8. \A q \in Procs : st1[q] = IF q \in W1 THEN "RUNNABLE" ELSE state[q]
  BY DEF AsRunnable
<1>. HIDE DEF L1, st1
<1>7. /\ Range(L1[zombie]) = {q \in Procs : st1[q] = "ZOMBIE"}
      /\ Range(L1[sleeping]) = {q \in Procs : st1[q] = "SLEEPING"}
      /\ Range(L1[running]) = {q \in Procs : st1[q] = "RUNNING"}
      /\ Range(L1[embryo]) = {q \in Procs : st1[q] = "EMBRYO"}
      /\ Range(L1[free]) = {q \in Procs : st1[q] = "UNUSED"}
      /\ \A i \in 0..MAX : Range(L1[ready(i)]) = {q \in Procs : st1[q] = "RUNNABLE" /\ priority[q] = i}
      /\ OnSome(L1, AdoptLists) = {q \in Procs : st1[q] \in Alive \cup {"EMBRYO"}}
  BY <1>1, <1>6a, Members, ZenonT(30)
<1>9. Z = {q \in Procs : state[q] = "ZOMBIE" /\ parent[q] = p}
  BY <1>4, <1>7, <1>8
<1>10. kids = {q \in Procs : parent[q] = p}
  <2>1. \A q \in Procs : parent[q] = p => state[q] # "UNUSED"
    BY FamilyTypes DEF FamilyInv
  <2>2. \A q \in Procs : parent[q] = p => st1[q] \in Alive \cup {"EMBRYO"} \/ state[q] = "ZOMBIE"
    BY <1>1, <1>8, <2>1 DEF Alive, States
  <2>. QED BY <1>7, <1>9, <2>2
<1>11. W2 = IF Z = {} THEN {} ELSE {q \in Procs : q \notin W1 /\ state[q] = "SLEEPING" /\ chan[q] = initproc}
  <2>1. Sleepers(L1, initproc) = {q \in Procs : q \notin W1 /\ state[q] = "SLEEPING" /\ chan[q] = initproc}
    BY <1>7, <1>8 DEF Sleepers
  <2>. QED BY <2>1
<1>. HIDE DEF Z, W2, kids
<1>12. /\ state'[p] = "ZOMBIE"
       /\ \A q \in Procs \ {p} : state'[q] = IF q \in W1 \cup W2 THEN "RUNNABLE" ELSE state[q]
  BY <1>3 DEF AsRunnable
<1>13. \A q \in Procs : parent'[q] = IF parent[q] = p THEN initproc ELSE parent[q]
  BY <1>3, <1>10
<1>14. \A q \in Procs \ {p} : state'[q] # state[q] => state[q] = "SLEEPING" /\ state'[q] = "RUNNABLE"
  BY <1>4, <1>11, <1>12
<1>15. \A q \in Procs : state[q] = "SLEEPING" /\ chan[q] = parent[p] => state'[q] = "RUNNABLE"
  BY <1>2, <1>4, <1>12
<1>16. (\E z \in Procs : state[z] = "ZOMBIE" /\ parent[z] = p)
         => \A q \in Procs : state[q] = "SLEEPING" /\ chan[q] = initproc => state'[q] = "RUNNABLE"
  BY <1>2, <1>9, <1>11, <1>12
<1>. QED BY <1>2, <1>12, <1>13, <1>14, <1>15, <1>16

LEMMA ExitFamily ==
  ASSUME IInv, FamilyInv, NEW c \in Cpus, NEW p \in Procs, Exit(c, p)
  PROVE  FamilyInv'
<1>1. /\ state[p] = "RUNNING" /\ state'[p] = "ZOMBIE"
      /\ \A q \in Procs \ {p} : state'[q] # state[q] => state[q] = "SLEEPING" /\ state'[q] = "RUNNABLE"
      /\ \A q \in Procs : state[q] = "SLEEPING" /\ chan[q] = parent[p] => state'[q] = "RUNNABLE"
      /\ (\E z \in Procs : state[z] = "ZOMBIE" /\ parent[z] = p)
           => \A q \in Procs : state[q] = "SLEEPING" /\ chan[q] = initproc => state'[q] = "RUNNABLE"
      /\ \A q \in Procs : parent'[q] = IF parent[q] = p THEN initproc ELSE parent[q]
      /\ UNCHANGED <<killed, chan, ppc, np>> /\ panicked = "no" /\ ppc[p] = "exit"
  BY ExitEffect
<1>2. p # initproc /\ ppc[initproc] # "exit"
  BY <1>1, InitNotExiting
<1>3. /\ initproc \in Procs /\ NULL \notin Procs /\ parent \in [Procs -> Procs \cup {NULL}]
      /\ state \in [Procs -> States]
  BY FamilyTypes
<1>4. state'[initproc] \in Alive /\ parent'[initproc] = NULL
  BY <1>1, <1>2, <1>3 DEF FamilyInv, Alive
<1>5. ParentLive'
  <2> SUFFICES ASSUME NEW q \in Procs \ {initproc},
                      state'[q] \in {"SLEEPING", "RUNNABLE", "RUNNING", "ZOMBIE"}
               PROVE  parent'[q] # NULL /\ state'[parent'[q]] \in Alive
    BY DEF ParentLive, Alive
  <2>1. state[q] \in {"SLEEPING", "RUNNABLE", "RUNNING", "ZOMBIE"}
    BY <1>1
  <2>2. parent[q] \in Procs /\ state[parent[q]] \in Alive /\ parent[q] # q
    BY <1>3, <2>1 DEF FamilyInv, ParentLive, Alive
  <2>3. CASE parent[q] = p
    BY <1>1, <1>3, <1>4, <2>3
  <2>4. CASE parent[q] # p
    BY <1>1, <1>3, <2>2, <2>4 DEF Alive
  <2>. QED BY <2>3, <2>4
<1>6. WaiterWillBeWoken'
  <2> SUFFICES ASSUME NEW r \in Procs, state'[r] = "SLEEPING", ppc'[r] = "wait"
               PROVE  /\ ~killed'[r]
                      /\ \E q \in Procs : parent'[q] = r
                      /\ \A q \in Procs : parent'[q] = r => state'[q] \notin {"ZOMBIE", "UNUSED"}
    BY DEF WaiterWillBeWoken
  <2>1. r # p /\ state[r] = "SLEEPING" /\ ppc[r] = "wait" /\ chan[r] = r /\ r # parent[p]
    BY <1>1 DEF FamilyInv
  <2>2. /\ ~killed[r] /\ \E q \in Procs : parent[q] = r
        /\ \A q \in Procs : parent[q] = r => state[q] \notin {"ZOMBIE", "UNUSED"}
    BY <2>1 DEF FamilyInv, WaiterWillBeWoken
  <2>3. ASSUME NEW q \in Procs, parent'[q] = r PROVE state'[q] \notin {"ZOMBIE", "UNUSED"}
    <3>1. CASE parent[q] = r
      BY <1>1, <2>1, <2>2, <3>1
    <3>2. CASE parent[q] = p
      <4>1. r = initproc
        BY <1>1, <2>3, <3>2
      <4>2. state[q] \notin {"ZOMBIE", "UNUSED"}
        BY <1>1, <1>3, <2>1, <3>2, <4>1 DEF FamilyInv
      <4>3. q # p
        BY <3>2 DEF FamilyInv
      <4>. QED BY <1>1, <4>2, <4>3
    <3>. QED BY <1>1, <2>3, <3>1, <3>2
  <2>4. PICK q \in Procs : parent[q] = r
    BY <2>2, Zenon
  <2>5. parent'[q] = r /\ ~killed'[r]
    BY <1>1, <2>1, <2>2, <2>4
  <2>. QED BY <2>3, <2>5, Zenon
<1>7. \A q \in Procs : parent'[q] # q /\ (state'[q] = "UNUSED" => parent'[q] = NULL)
  BY <1>1, <1>3 DEF FamilyInv
<1>8. \A q \in Procs : /\ ppc[q] \in {"fork1", "fork2"} => parent'[np[q]] = NULL
                       /\ ppc[q] = "fork3" => parent'[np[q]] = q
  <2>1. \A q \in Procs : ppc[q] \in Forking => np[q] \in Procs /\ q # p
    BY <1>1 DEF IInv, EmbryoOwned, Forking
  <2>. QED BY <1>1, <1>3, <2>1 DEF FamilyInv, Forking
<1>9. \A q \in Procs : state'[q] = "SLEEPING" /\ ppc'[q] = "wait" => chan'[q] = q
  BY <1>1 DEF FamilyInv
<1>. QED BY <1>1, <1>2, <1>4, <1>5, <1>6, <1>7, <1>8, <1>9 DEF FamilyInv

(* wait() frees a zombie child, which is nobody's parent.                  *)
LEMMA ReapEffect ==
  ASSUME IInv, NEW c \in Cpus, NEW p \in Procs, WaitReap(c, p)
  PROVE  \E q \in Procs :
           /\ state[q] = "ZOMBIE" /\ state'[q] = "UNUSED" /\ parent[q] = p /\ parent'[q] = NULL
           /\ \A r \in Procs \ {q} : /\ state'[r] = state[r] /\ parent'[r] = parent[r]
                                      /\ killed'[r] = killed[r]
<1>1. PICK k \in ZombieKids(p) :
        LET q == pLists[zombie][k]
        IN /\ state' = [state EXCEPT ![q] = "UNUSED"]
           /\ parent' = [parent EXCEPT ![q] = NULL]
           /\ killed' = [killed EXCEPT ![q] = FALSE]
  BY Zenon DEF WaitReap
<1>. DEFINE q == pLists[zombie][k]
<1>2. k \in 1..Len(pLists[zombie]) /\ parent[q] = p
  BY DEF ZombieKids
<1>3. pLists[zombie] \in Seq(Procs)
  BY Basics, ListNames DEF GoodLists, Sorted
<1>4. q \in Range(pLists[zombie])
  BY <1>2, <1>3, SMTT(30) DEF Range
<1>5. q \in Procs /\ state[q] = "ZOMBIE"
  BY <1>4, Listed, Zenon
<1>. HIDE DEF q
<1>6. /\ state' = [state EXCEPT ![q] = "UNUSED"]
      /\ parent' = [parent EXCEPT ![q] = NULL]
      /\ killed' = [killed EXCEPT ![q] = FALSE]
  BY <1>1, Zenon DEF q
<1>7. /\ state'[q] = "UNUSED" /\ parent'[q] = NULL
      /\ \A r \in Procs \ {q} : state'[r] = state[r] /\ parent'[r] = parent[r] /\ killed'[r] = killed[r]
  BY <1>5, <1>6, FamilyTypes
<1>. QED BY <1>2, <1>5, <1>7

LEMMA WaitFamily ==
  ASSUME IInv, FamilyInv, NEW c \in Cpus, NEW p \in Procs, WaitStep(c, p)
  PROVE  FamilyInv'
<1>0. panicked = "no" /\ state[p] = "RUNNING" /\ ppc[p] \in {"kern", "wait"}
  BY RunsRunning, ZenonT(30) DEF WaitStep, WaitReap, WaitFail, WaitSleep, InWait, Runs, Schedules
<1>1. ppc[initproc] # "exit"
  BY <1>0, InitNotExiting
<1>2. \A r \in Procs : ppc[r] \in Forking => np[r] \in Procs /\ state[np[r]] = "EMBRYO"
  BY ZenonT(30) DEF IInv, EmbryoOwned, Forking
<1>3. CASE WaitReap(c, p)
  <2>1. PICK q \in Procs :
           /\ state[q] = "ZOMBIE" /\ state'[q] = "UNUSED" /\ parent[q] = p /\ parent'[q] = NULL
           /\ \A r \in Procs \ {q} : /\ state'[r] = state[r] /\ parent'[r] = parent[r]
                                      /\ killed'[r] = killed[r]
    BY <1>3, ReapEffect, ZenonT(30)
  <2>2. /\ UNCHANGED <<chan, np>> /\ ppc'[p] = "ret" /\ \A r \in Procs \ {p} : ppc'[r] = ppc[r]
    BY <1>3, FamilyTypes, ZenonT(30) DEF WaitReap, Goto
  <2>3. q # initproc /\ \A r \in Procs : state[r] = "SLEEPING" => r # q /\ r # p
    BY <1>0, <2>1, ZenonT(30) DEF FamilyInv, Alive
  <2>4. ParentLive'
    <3> SUFFICES ASSUME NEW r \in Procs \ {initproc},
                        state'[r] \in {"SLEEPING", "RUNNABLE", "RUNNING", "ZOMBIE"}
                 PROVE  /\ parent'[r] # NULL
                        /\ state'[parent'[r]] \in {"SLEEPING", "RUNNABLE", "RUNNING"}
      BY Zenon DEF ParentLive, initproc
    <3>1. r # q /\ state'[r] = state[r] /\ parent'[r] = parent[r]
      BY <2>1
    <3>2. /\ parent[r] # NULL /\ state[parent[r]] \in {"SLEEPING", "RUNNABLE", "RUNNING"}
      BY <3>1, Zenon DEF FamilyInv, ParentLive
    <3>3. parent[r] \in Procs /\ parent[r] # q
      BY <2>1, <3>2, FamilyTypes
    <3>. QED BY <2>1, <3>1, <3>2, <3>3
  <2>5. WaiterWillBeWoken'
    <3> SUFFICES ASSUME NEW r \in Procs, state'[r] = "SLEEPING", ppc'[r] = "wait"
                 PROVE  /\ ~killed'[r]
                        /\ \E s \in Procs : parent'[s] = r
                        /\ \A s \in Procs : parent'[s] = r => state'[s] \notin {"ZOMBIE", "UNUSED"}
      BY DEF WaiterWillBeWoken
    <3>1. r # q /\ r # p /\ state[r] = "SLEEPING" /\ ppc[r] = "wait"
      BY <2>1, <2>2, <2>3
    <3>2. /\ ~killed[r] /\ \E s \in Procs : parent[s] = r
          /\ \A s \in Procs : parent[s] = r => state[s] \notin {"ZOMBIE", "UNUSED"}
      BY <3>1 DEF FamilyInv, WaiterWillBeWoken
    <3>. QED BY <2>1, <3>1, <3>2, FamilyTypes, Zenon
  <2>6. \A r \in Procs : ppc'[r] \in Forking => ppc[r] = ppc'[r] /\ np[r] \in Procs \ {q}
    BY <1>2, <2>1, <2>2, ZenonT(30) DEF Forking
  <2>7. state'[initproc] \in Alive /\ parent'[initproc] = NULL /\ ppc'[initproc] # "exit"
    BY <1>1, <2>1, <2>2, <2>3, FamilyTypes DEF FamilyInv
  <2>8. \A r \in Procs : /\ parent'[r] # r
                         /\ state'[r] = "UNUSED" => parent'[r] = NULL
                         /\ state'[r] = "SLEEPING" /\ ppc'[r] = "wait" => chan'[r] = r
    BY <2>1, <2>2, <2>3, FamilyTypes DEF FamilyInv
  <2>9. \A r \in Procs : /\ ppc'[r] \in {"fork1", "fork2"} => parent'[np'[r]] = NULL
                         /\ ppc'[r] = "fork3" => parent'[np'[r]] = r
    BY <2>1, <2>2, <2>6 DEF FamilyInv, Forking
  <2>. QED BY <2>4, <2>5, <2>7, <2>8, <2>9 DEF FamilyInv
<1>4. CASE WaitFail(c, p)
  <2>1. /\ UNCHANGED <<parent, state, chan, killed, np>> /\ ppc'[p] = "ret"
        /\ \A r \in Procs \ {p} : ppc'[r] = ppc[r]
    BY <1>4, FamilyTypes DEF WaitFail, Goto, ptable, ids, lists
  <2>2. ppc'[initproc] # "exit"
    BY <1>1, <2>1, FamilyTypes
  <2>. QED BY <2>1, <2>2, FamilyStays, ZenonT(30)
<1>5. CASE WaitSleep(c, p)
  <2>1. /\ UNCHANGED <<parent, killed, np>> /\ ppc'[p] = "wait" /\ state'[p] = "SLEEPING" /\ chan'[p] = p
        /\ \A r \in Procs \ {p} : ppc'[r] = ppc[r] /\ state'[r] = state[r] /\ chan'[r] = chan[r]
    BY <1>5, FamilyTypes DEF WaitSleep, SleepBody, Goto, ids
  <2>2. ~killed[p] /\ \E q \in Procs : parent[q] = p
    BY <1>5, Listed, Zenon DEF WaitSleep, HaveKids
  <2>3. \A q \in Procs : parent[q] = p => state[q] # "ZOMBIE"
    <3> SUFFICES ASSUME NEW q \in Range(pLists[zombie]) PROVE parent[q] # p
      BY Listed, Zenon
    <3>1. PICK k \in 1..Len(pLists[zombie]) : pLists[zombie][k] = q
      <4>1. pLists[zombie] \in Seq(Procs)
        BY Basics, ListNames DEF GoodLists, Sorted
      <4>. QED BY <4>1, SMTT(30) DEF Range
    <3>. QED BY <1>5, <3>1, Zenon DEF WaitSleep, ZombieKids
  <2>4. ParentLive'
    <3>1. \A r \in Procs : state'[r] = state[r] \/ (r = p /\ state'[r] = "SLEEPING" /\ state[r] = "RUNNING")
      BY <1>0, <2>1
    <3> SUFFICES ASSUME NEW r \in Procs \ {initproc},
                        state'[r] \in {"SLEEPING", "RUNNABLE", "RUNNING", "ZOMBIE"}
                 PROVE  /\ parent[r] # NULL
                        /\ state'[parent[r]] \in {"SLEEPING", "RUNNABLE", "RUNNING"}
      BY <2>1, Zenon DEF ParentLive, initproc
    <3>2. state[r] \in {"SLEEPING", "RUNNABLE", "RUNNING", "ZOMBIE"}
      BY <3>1
    <3>3. /\ parent[r] # NULL /\ state[parent[r]] \in {"SLEEPING", "RUNNABLE", "RUNNING"}
      BY <3>2, Zenon DEF FamilyInv, ParentLive
    <3>4. parent[r] \in Procs
      BY <3>3, FamilyTypes
    <3>. QED BY <3>1, <3>3, <3>4
  <2>5. WaiterWillBeWoken'
    <3> SUFFICES ASSUME NEW r \in Procs, state'[r] = "SLEEPING", ppc'[r] = "wait"
                 PROVE  /\ ~killed[r]
                        /\ \E s \in Procs : parent[s] = r
                        /\ \A s \in Procs : parent[s] = r => state'[s] \notin {"ZOMBIE", "UNUSED"}
      BY <2>1 DEF WaiterWillBeWoken
    <3>1. /\ ~killed[r] /\ \E s \in Procs : parent[s] = r
          /\ \A s \in Procs : parent[s] = r => state[s] \notin {"ZOMBIE", "UNUSED"}
      <4>1. CASE r = p
        <5>1. \A q \in Procs : parent[q] = p => state[q] # "UNUSED"
          BY FamilyTypes DEF FamilyInv
        <5>. QED BY <2>2, <2>3, <4>1, <5>1
      <4>2. CASE r # p
        BY <2>1, <4>2, Zenon DEF FamilyInv, WaiterWillBeWoken
      <4>. QED BY <4>1, <4>2
    <3>2. \A s \in Procs : state'[s] \in {"ZOMBIE", "UNUSED"} => state'[s] = state[s]
      BY <2>1
    <3>. QED BY <3>1, <3>2
  <2>. QED BY <1>0, <1>1, <2>1, <2>4, <2>5, FamilyTypes, ZenonT(30) DEF FamilyInv, Alive
<1>. QED BY <1>3, <1>4, <1>5 DEF WaitStep

LEMMA StepFamily == IInv /\ FamilyInv /\ [Next]_vars => FamilyInv'
<1>. SUFFICES ASSUME IInv, FamilyInv, [Next]_vars PROVE FamilyInv'
  OBVIOUS
<1>1. ASSUME NEW c \in Cpus, SchedStep(c) \/ HandlerStep(c) \/ Interrupt(c) PROVE FamilyInv'
  BY <1>1, SchedFamily, HandlerFamily, InterruptFamily
<1>2. CASE TickInterrupt
  <2>1. 0 \in Cpus
    BY ConstantsAssumption DEF ConstantsAssumption, Cpus
  <2>. QED BY <1>2, <2>1, InterruptFamily
<1>3. ASSUME NEW c \in Cpus, NEW p \in Procs, TrapStep(c, p) \/ ForkStep(c, p) PROVE FamilyInv'
  BY <1>3, TrapFamily, ForkFamily
<1>4. ASSUME NEW c \in Cpus, NEW p \in Procs, WaitStep(c, p) \/ Exit(c, p) PROVE FamilyInv'
  BY <1>4, WaitFamily, ExitFamily
<1>5. ASSUME NEW c \in Cpus, NEW p \in Procs,
             \/ Wakeup(c, p)
             \/ \E ch \in {TICKS, IO} : Sleep(c, p, ch)
             \/ \E k \in 1..MaxPid : Kill(c, p, k)
             \/ \E k \in 1..MaxPid, prio \in 0..MAX : SetPriority(c, p, k, prio)
      PROVE FamilyInv'
  BY <1>5, CallFamily, SMTT(30)
<1>6. CASE PanicLoop \/ UNCHANGED vars
  <2>1. UNCHANGED <<parent, state, chan, killed, np, ppc, panicked>>
    BY <1>6 DEF PanicLoop, vars, ptable, lists, ids
  <2>. QED BY <2>1 DEF FamilyInv, ParentLive, WaiterWillBeWoken
<1>. QED BY <1>1, <1>2, <1>3, <1>4, <1>5, <1>6 DEF Next

(* The ties between parents and children hold in every reachable state.    *)
THEOREM FamilyInvariant == Spec => []FamilyInv
BY FamilyInit, StepFamily, Invariance, PTL DEF Spec

(* exit() never leaves an orphan: whoever may still exit has a parent that *)
(* may still wait for it.                                                  *)
THEOREM NoOrphans == Spec => []ParentLive
<1>1. FamilyInv => ParentLive
  BY DEF FamilyInv
<1>. QED BY <1>1, FamilyInvariant, PTL

(* No exit() or kill() is missed by a process that sleeps in wait().       *)
THEOREM WaitNeverForgotten == Spec => []WaiterWillBeWoken
<1>1. FamilyInv => WaiterWillBeWoken
  BY DEF FamilyInv
<1>. QED BY <1>1, FamilyInvariant, PTL
=============================================================================
