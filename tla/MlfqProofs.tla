------------------------------ MODULE MlfqProofs ------------------------------
(***************************************************************************)
(* What the feedback queue of ProcTable promises: promotions reach every   *)
(* process and are not missed, the scheduler respects priorities, and no   *)
(* charge takes a budget below zero.  The last two need a single CPU, and  *)
(* that no promotion is missed needs a processor 0 that looks at the clock *)
(* at least once per tick.                                                 *)
(***************************************************************************)
EXTENDS ProcTablePromises

-----------------------------------------------------------------------------
(* Promotion                                                               *)

(* Arithmetic of uint.                                                     *)
LEMMA UintInRange ==
  \A d \in 0..(UintMod-1) : d % UintMod = d /\ (d - UintMod) % UintMod = d /\ (d + UintMod) % UintMod = d
BY ConstantsAssumption, Z3 DEF ConstantsAssumption

LEMMA UintWraps ==
  \A t \in 0..(UintMod-1) : (t + 1) % UintMod = IF t + 1 = UintMod THEN 0 ELSE t + 1
BY UintInRange, ConstantsAssumption, Z3 DEF ConstantsAssumption

LEMMA UintMinus ==
  \A s, t \in 0..(UintMod-1) : (s - t) % UintMod = IF s >= t THEN s - t ELSE s - t + UintMod
<1> SUFFICES ASSUME NEW s \in 0..(UintMod-1), NEW t \in 0..(UintMod-1)
             PROVE  (s - t) % UintMod = IF s >= t THEN s - t ELSE s - t + UintMod
  OBVIOUS
<1>0. UintMod \in Nat \ {0}
  BY ConstantsAssumption DEF ConstantsAssumption
<1>1. CASE s >= t
  <2>1. s - t \in 0..(UintMod-1)
    BY <1>0, <1>1
  <2>. QED BY <1>1, <2>1, UintInRange
<1>2. CASE ~(s >= t)
  <2>1. PICK d \in 0..(UintMod-1) : d = s - t + UintMod
    BY <1>0, <1>2
  <2>2. s - t = d - UintMod
    BY <1>0, <2>1
  <2>. QED BY <1>2, <2>1, <2>2, UintInRange
<1>. QED BY <1>1, <1>2

LEMMA UintPlus ==
  \A s, t \in 0..(UintMod-1) : (s + t) % UintMod = IF s + t < UintMod THEN s + t ELSE s + t - UintMod
<1> SUFFICES ASSUME NEW s \in 0..(UintMod-1), NEW t \in 0..(UintMod-1)
             PROVE  (s + t) % UintMod = IF s + t < UintMod THEN s + t ELSE s + t - UintMod
  OBVIOUS
<1>0. UintMod \in Nat \ {0}
  BY ConstantsAssumption DEF ConstantsAssumption
<1>1. CASE s + t < UintMod
  <2>1. s + t \in 0..(UintMod-1)
    BY <1>0, <1>1
  <2>. QED BY <1>1, <2>1, UintInRange
<1>2. CASE ~(s + t < UintMod)
  <2>1. PICK d \in 0..(UintMod-1) : d = s + t - UintMod
    BY <1>0, <1>2
  <2>2. s + t = d + UintMod
    BY <1>0, <2>1
  <2>. QED BY <1>2, <2>1, <2>2, UintInRange
<1>. QED BY <1>1, <1>2

(* Only the timer interrupt of CPU 0 and the turns of scheduler() touch    *)
(* the clock.                                                              *)
LEMMA WhoTouchesTheClock ==
  ASSUME [Next]_vars
  PROVE  \/ UNCHANGED clock \/ TickInterrupt
         \/ \E c \in Cpus : (SkipList(c) \/ Dispatch(c)) /\ LookAtClock(c)
<1>1. ASSUME NEW c \in Cpus, SchedStep(c) PROVE UNCHANGED clock \/ SkipList(c) \/ Dispatch(c)
  BY <1>1 DEF SchedStep, SchedAcquire, SchedRelease, calm
<1>2. ASSUME NEW c \in Cpus, HandlerStep(c) \/ Interrupt(c) PROVE UNCHANGED clock
  BY <1>2 DEF HandlerStep, InterruptWakeup, TimerExit, Yield, Interrupt, TimerInterrupt, DeviceInterrupt
<1>3. ASSUME NEW c \in Cpus, NEW p \in Procs, TrapStep(c, p) PROVE UNCHANGED clock
  BY <1>3 DEF TrapStep, SyscallEnter, UserFault, SyscallDone, TrapReturn, SysExit, calm
<1>4. ASSUME NEW c \in Cpus, NEW p \in Procs, ForkStep(c, p) PROVE UNCHANGED clock
  BY <1>4 DEF ForkStep, ForkAlloc, AllocInit, ForkFail, ForkCopy, ForkPublish, calm
<1>5. ASSUME NEW c \in Cpus, NEW p \in Procs, WaitStep(c, p) \/ Exit(c, p) \/ Wakeup(c, p)
      PROVE  UNCHANGED clock
  BY <1>5 DEF WaitStep, WaitReap, WaitFail, WaitSleep, SleepBody, Exit, Wakeup, calm
<1>6. ASSUME NEW c \in Cpus, NEW p \in Procs,
             \/ \E ch \in {TICKS, IO} : Sleep(c, p, ch)
             \/ \E k \in 1..MaxPid : Kill(c, p, k)
             \/ \E k \in 1..MaxPid, prio \in 0..MAX : SetPriority(c, p, k, prio)
      PROVE UNCHANGED clock
  BY <1>6 DEF Sleep, SleepBody, Kill, SetPriority, calm
<1>7. CASE PanicLoop \/ UNCHANGED vars
  BY <1>7 DEF PanicLoop, vars, calm
<1>8. \A c \in Cpus : SkipList(c) \/ Dispatch(c) => LookAtClock(c)
  BY DEF SkipList, Dispatch
<1>. QED BY <1>1, <1>2, <1>3, <1>4, <1>5, <1>6, <1>7, <1>8 DEF Next

LEMMA PromotedByOne ==
  ASSUME IInv, NEW q \in Procs, state[q] \in {"SLEEPING", "RUNNABLE", "RUNNING"}, priority[q] > 0
  PROVE  PromotedPriority[q] = priority[q] - 1
<1>1. priority[q] \in 1..MAX /\ MAX \in Nat
  BY Basics, ConstantsAssumption DEF ConstantsAssumption
<1>2. CASE state[q] \in {"SLEEPING", "RUNNING"}
  <2>1. q \in Range(pLists[sleeping]) \cup Range(pLists[running])
    BY <1>2, Listed
  <2>. QED BY <1>1, <2>1 DEF PromotedPriority
<1>3. CASE state[q] = "RUNNABLE"
  <2>1. q \notin Range(pLists[sleeping]) \cup Range(pLists[running])
    BY <1>3, Listed
  <2>2. \A i \in 1..MAX : q \in Range(pLists[ready(i)]) <=> i = priority[q]
    <3>1. \A i \in 1..MAX : i \in 0..MAX
      BY <1>1
    <3>. QED BY <1>3, <3>1, Listed
  <2>3. (CHOOSE i \in 1..MAX : q \in Range(pLists[ready(i)])) = priority[q]
    BY <1>1, <2>2
  <2>. QED BY <1>1, <2>1, <2>2, <2>3 DEF PromotedPriority
<1>. QED BY <1>2, <1>3

(* A promotion reaches every live process, whatever list it is on.         *)
THEOREM PromotionReachesAll == Spec => PromotionIsForAll
<1>. DEFINE A == PromoteAtTime' # PromoteAtTime =>
       \A p \in Procs : state[p] \in {"SLEEPING", "RUNNABLE", "RUNNING"} /\ priority[p] > 0 =>
         priority'[p] = priority[p] - 1
<1>1. IInv /\ [Next]_vars => A
  <2> SUFFICES ASSUME IInv, [Next]_vars, PromoteAtTime' # PromoteAtTime,
                      NEW p \in Procs, state[p] \in {"SLEEPING", "RUNNABLE", "RUNNING"}, priority[p] > 0
               PROVE  priority'[p] = priority[p] - 1
    OBVIOUS
  <2>1. priority' = PromotedPriority
    BY WhoTouchesTheClock, Zenon DEF LookAtClock, PriorityNow, TickInterrupt, clock
  <2>. QED BY <2>1, PromotedByOne
<1>. QED BY <1>1, Invariance, PTL DEF Spec, PromotionIsForAll

(* The promotion time is at most TICKS_TO_PROMOTE ticks ahead, and CPU 0   *)
(* never leaves a tick behind with a promotion due.                        *)
PromotionInv == PromotionNotMissed /\ (~tickOwed => ~Due)

LEMMA ClockTypes ==
  ASSUME IInv
  PROVE  /\ ticks \in 0..(UintMod-1) /\ PromoteAtTime \in 0..(UintMod-1) /\ tickOwed \in BOOLEAN
         /\ TICKS_TO_PROMOTE \in 1..(UintMod-1) /\ UintMod \in Nat \ {0}
<1>1. ticks \in 0..(UintMod-1) /\ PromoteAtTime \in 0..(UintMod-1) /\ tickOwed \in BOOLEAN
  BY Zenon DEF IInv, TypeOK
<1>. QED BY <1>1, ConstantsAssumption DEF ConstantsAssumption

LEMMA PromotionInit == Init => PromotionInv
<1> SUFFICES ASSUME Init PROVE PromotionInv
  OBVIOUS
<1>1. PromoteAtTime = TICKS_TO_PROMOTE /\ ticks = 0 /\ TICKS_TO_PROMOTE \in 1..(UintMod-1) /\ 0 \in 0..(UintMod-1)
      /\ UintMod \in Nat
  BY ConstantsAssumption DEF Init, ConstantsAssumption
<1>2. (PromoteAtTime - ticks) % UintMod = TICKS_TO_PROMOTE
  BY <1>1, UintMinus
<1>. QED BY <1>1, <1>2 DEF PromotionInv, PromotionNotMissed, Due

LEMMA PromotionStep ==
  ASSUME TicksApart, IInv, PromotionInv, [Next]_vars
  PROVE  PromotionInv'
<1>0. /\ ticks \in 0..(UintMod-1) /\ PromoteAtTime \in 0..(UintMod-1) /\ tickOwed \in BOOLEAN
      /\ TICKS_TO_PROMOTE \in 1..(UintMod-1) /\ UintMod \in Nat \ {0}
  BY ClockTypes
<1>. DEFINE Ahead(s, t) == IF s >= t THEN s - t ELSE s - t + UintMod
<1>1. \A s, t \in 0..(UintMod-1) : (s - t) % UintMod = Ahead(s, t)
  BY UintMinus
<1>2. Ahead(PromoteAtTime, ticks) <= TICKS_TO_PROMOTE /\ (~tickOwed => PromoteAtTime # ticks)
  BY <1>0, <1>1 DEF PromotionInv, PromotionNotMissed, Due
<1>3. CASE UNCHANGED clock
  BY <1>3 DEF clock, PromotionInv, PromotionNotMissed, Due
<1>4. CASE TickInterrupt
  <2>1. ~tickOwed /\ tickOwed' /\ PromoteAtTime' = PromoteAtTime /\ ticks' = (ticks + 1) % UintMod
    BY <1>4 DEF TickInterrupt
  <2>2. ticks' = IF ticks + 1 = UintMod THEN 0 ELSE ticks + 1
    BY <1>0, <2>1, UintWraps
  <2>3. ticks' \in 0..(UintMod-1) /\ Ahead(PromoteAtTime, ticks') <= TICKS_TO_PROMOTE
    BY <1>0, <1>2, <2>1, <2>2
  <2>4. (PromoteAtTime' - ticks') % UintMod <= TICKS_TO_PROMOTE
    BY <1>0, <1>1, <2>1, <2>3
  <2>. QED BY <2>1, <2>4 DEF PromotionInv, PromotionNotMissed
<1>5. ASSUME NEW c \in Cpus, LookAtClock(c) PROVE PromotionInv'
  <2>1. CASE Due
    <3>1. ticks' = ticks /\ PromoteAtTime' = (ticks + TICKS_TO_PROMOTE) % UintMod
      BY <1>5, <2>1 DEF LookAtClock
    <3>2. PromoteAtTime' = IF ticks + TICKS_TO_PROMOTE < UintMod
                           THEN ticks + TICKS_TO_PROMOTE ELSE ticks + TICKS_TO_PROMOTE - UintMod
      <4>1. TICKS_TO_PROMOTE \in 0..(UintMod-1)
        BY <1>0
      <4>. QED BY <1>0, <3>1, <4>1, UintPlus
    <3>3. PromoteAtTime' \in 0..(UintMod-1) /\ Ahead(PromoteAtTime', ticks) = TICKS_TO_PROMOTE
      BY <1>0, <3>2
    <3>4. (PromoteAtTime' - ticks') % UintMod = TICKS_TO_PROMOTE /\ PromoteAtTime' # ticks'
      BY <1>0, <1>1, <3>1, <3>3
    <3>. QED BY <1>0, <3>4 DEF PromotionInv, PromotionNotMissed, Due
  <2>2. CASE ~Due
    BY <1>5, <2>2 DEF LookAtClock, PromotionInv, PromotionNotMissed, Due
  <2>. QED BY <2>1, <2>2
<1>. QED BY <1>3, <1>4, <1>5, WhoTouchesTheClock

(* When CPU 0 looks at the clock once per tick, scheduler()'s equality     *)
(* PromoteAtTime == ticks misses no promotion, whatever the others do.     *)
THEOREM NoPromotionMissed == TicksApart => (Spec => []PromotionNotMissed)
<1> SUFFICES ASSUME TicksApart PROVE Spec => []PromotionNotMissed
  OBVIOUS
<1>1. IInv /\ PromotionInv /\ [Next]_vars => PromotionInv'
  BY PromotionStep
<1>2. PromotionInv => PromotionNotMissed
  BY DEF PromotionInv
<1>. QED BY <1>1, <1>2, PromotionInit, Invariance, PTL DEF Spec

-----------------------------------------------------------------------------
(* Priorities, on one CPU                                                  *)

(* The scan of scheduler() on a single CPU, which nothing interrupts: the  *)
(* lists behind the index are empty, and no promotion is due to fill them. *)
ScanInv ==
  /\ cpc[0] = "scan" => irq[0] = "none"
  /\ idx[0] \in 1..MAX => /\ cpc[0] = "scan" /\ ~Due
                          /\ \A i \in 0..MAX : i < idx[0] => pLists[ready(i)] = <<>>

LEMMA ScanTypes ==
  ASSUME IInv, NCPU = 1
  PROVE  /\ Cpus = {0} /\ MAX \in Nat
         /\ idx \in [Cpus -> 0..(MAX+1)] /\ cpc \in [Cpus -> {"start", "scan", "run", "hlt"}]
         /\ irq \in [Cpus -> {"none", "tick", "dev", "yield"}]
<1>1. Cpus = {0}
  BY DEF Cpus
<1>2. /\ idx \in [Cpus -> 0..(MAX+1)] /\ cpc \in [Cpus -> {"start", "scan", "run", "hlt"}]
      /\ irq \in [Cpus -> {"none", "tick", "dev", "yield"}]
  BY Zenon DEF IInv, TypeOK
<1>. QED BY <1>1, <1>2, ConstantsAssumption DEF ConstantsAssumption

LEMMA ScanInit == Init => ScanInv
<1> SUFFICES ASSUME Init PROVE ScanInv
  OBVIOUS
<1>1. 0 \in Cpus
  BY ConstantsAssumption DEF ConstantsAssumption, Cpus
<1>. QED BY <1>1 DEF Init, ScanInv

(* Whatever is not a step of scheduler() finds the CPU outside the scan.   *)
LEMMA ScanAlone ==
  ASSUME IInv, ScanInv, NCPU = 1, [Next]_vars, ~SchedStep(0)
  PROVE  \/ UNCHANGED vars
         \/ /\ cpc[0] # "scan" /\ idx' = idx /\ (cpc'[0] = "scan" => irq'[0] = "none")
            /\ proc[0] = NULL => proc'[0] = NULL
<1>. DEFINE G == /\ cpc[0] # "scan" /\ idx' = idx /\ (cpc'[0] = "scan" => irq'[0] = "none")
                 /\ proc[0] = NULL => proc'[0] = NULL
<1>0. /\ Cpus = {0} /\ cpc \in [Cpus -> {"start", "scan", "run", "hlt"}]
      /\ irq \in [Cpus -> {"none", "tick", "dev", "yield"}]
      /\ proc \in [Cpus -> Procs \cup {NULL}]
      /\ cpc[0] = "scan" => irq[0] = "none"
  BY ScanTypes, CpuTypes DEF ScanInv
<1>1. ASSUME TickInterrupt \/ Interrupt(0) PROVE G
  BY <1>0, <1>1 DEF TickInterrupt, Interrupt, TimerInterrupt, DeviceInterrupt, InterruptsOn, Handles, cpuvars
<1>2. ASSUME HandlerStep(0) PROVE G
  <2>1. CASE InterruptWakeup(0)
    BY <1>0, <2>1 DEF InterruptWakeup, Handles
  <2>2. CASE TimerExit(0)
    BY <1>0, <2>2 DEF TimerExit, Handles, cpuvars
  <2>3. CASE Yield(0)
    BY <1>0, <2>3 DEF Yield, Handles, Sched
  <2>. QED BY <1>2, <2>1, <2>2, <2>3 DEF HandlerStep
<1>3. ASSUME NEW p \in Procs, TrapStep(0, p) PROVE G
  BY <1>0, <1>3 DEF TrapStep, SyscallEnter, UserFault, SyscallDone, TrapReturn, SysExit, Runs, Schedules, cpuvars
<1>4. ASSUME NEW p \in Procs, ForkStep(0, p) PROVE G
  BY <1>0, <1>4 DEF ForkStep, ForkAlloc, AllocInit, ForkFail, ForkCopy, ForkPublish, Runs, Schedules, cpuvars
<1>5. ASSUME NEW p \in Procs, WaitStep(0, p) PROVE G
  BY <1>0, <1>5 DEF WaitStep, WaitReap, WaitFail, WaitSleep, InWait, SleepBody, Sched, Runs, Schedules, calm
<1>6. ASSUME NEW p \in Procs, Exit(0, p) \/ Wakeup(0, p) PROVE G
  BY <1>0, <1>6, ZenonT(30) DEF Exit, Wakeup, Sched, Runs, Schedules, cpuvars, calm
<1>7. ASSUME NEW p \in Procs,
             \/ \E ch \in {TICKS, IO} : Sleep(0, p, ch)
             \/ \E k \in 1..MaxPid : Kill(0, p, k)
             \/ \E k \in 1..MaxPid, prio \in 0..MAX : SetPriority(0, p, k, prio)
      PROVE G
  BY <1>0, <1>7 DEF Sleep, Kill, SetPriority, SleepBody, Sched, Runs, Schedules, cpuvars, calm
<1>8. CASE PanicLoop \/ UNCHANGED vars
  BY <1>8 DEF PanicLoop
<1>. QED BY <1>0, <1>1, <1>2, <1>3, <1>4, <1>5, <1>6, <1>7, <1>8 DEF Next

(* A promotion that was due is no longer so when scheduler() has looked.   *)
LEMMA NotDueAfterLook ==
  ASSUME IInv, NEW c \in Cpus, LookAtClock(c)
  PROVE  ~Due'
<1>0. /\ ticks \in 0..(UintMod-1) /\ PromoteAtTime \in 0..(UintMod-1)
      /\ TICKS_TO_PROMOTE \in 1..(UintMod-1) /\ UintMod \in Nat \ {0}
  BY ClockTypes
<1>1. CASE Due
  <2>1. ticks' = ticks /\ PromoteAtTime' = (ticks + TICKS_TO_PROMOTE) % UintMod
    BY <1>1 DEF LookAtClock
  <2>2. TICKS_TO_PROMOTE \in 0..(UintMod-1)
    BY <1>0
  <2>3. PromoteAtTime' = IF ticks + TICKS_TO_PROMOTE < UintMod
                         THEN ticks + TICKS_TO_PROMOTE ELSE ticks + TICKS_TO_PROMOTE - UintMod
    BY <1>0, <2>1, <2>2, UintPlus
  <2>. QED BY <1>0, <2>1, <2>3 DEF Due
<1>2. CASE ~Due
  BY <1>2 DEF LookAtClock, Due
<1>. QED BY <1>1, <1>2

LEMMA ScanStep ==
  ASSUME IInv, ScanInv, NCPU = 1, [Next]_vars
  PROVE  ScanInv'
<1>0. /\ Cpus = {0} /\ 0 \in Cpus /\ MAX \in Nat
      /\ idx \in [Cpus -> 0..(MAX+1)] /\ cpc \in [Cpus -> {"start", "scan", "run", "hlt"}]
      /\ irq \in [Cpus -> {"none", "tick", "dev", "yield"}]
  BY ScanTypes
<1>1. CASE SchedAcquire(0)
  BY <1>0, <1>1 DEF SchedAcquire, Schedules, calm, ScanInv
<1>2. CASE SkipList(0)
  <2>1. /\ cpc' = cpc /\ irq' = irq /\ cpc[0] = "scan" /\ irq[0] = "none" /\ idx'[0] = idx[0] + 1
        /\ pLists' = ListsNow /\ ListsNow[ready(idx[0])] = <<>> /\ LookAtClock(0)
    BY <1>0, <1>2 DEF SkipList, Schedules
  <2>2. ~Due'
    BY <1>0, <2>1, NotDueAfterLook
  <2>3. ASSUME NEW i \in 0..MAX, i < idx'[0] PROVE pLists'[ready(i)] = <<>>
    <3>1. CASE i = idx[0]
      BY <2>1, <3>1
    <3>2. CASE i # idx[0]
      <4>1. idx[0] \in 1..MAX /\ i < idx[0]
        BY <1>0, <1>2, <2>1, <2>3, <3>2 DEF SkipList
      <4>2. ~Due /\ pLists[ready(i)] = <<>>
        BY <4>1 DEF ScanInv
      <4>. QED BY <2>1, <4>2 DEF ListsNow
    <3>. QED BY <3>1, <3>2
  <2>. QED BY <2>1, <2>2, <2>3 DEF ScanInv
<1>3. CASE Dispatch(0)
  <2>1. cpc'[0] = "run" /\ idx'[0] \in {0, MAX + 1}
    BY <1>0, <1>3 DEF Dispatch, NextIndex
  <2>. QED BY <1>0, <2>1 DEF ScanInv
<1>4. CASE SchedRelease(0)
  <2>1. cpc'[0] # "scan" /\ idx'[0] = 0
    BY <1>0, <1>4 DEF SchedRelease
  <2>. QED BY <2>1 DEF ScanInv
<1>5. CASE ~SchedStep(0)
  <2>1. CASE UNCHANGED vars
    BY <2>1 DEF vars, cpuvars, calm, clock, ptable, lists, ScanInv, Due
  <2>2. CASE cpc[0] # "scan" /\ idx' = idx /\ (cpc'[0] = "scan" => irq'[0] = "none")
    BY <2>2 DEF ScanInv
  <2>. QED BY <1>5, <2>1, <2>2, ScanAlone
<1>. QED BY <1>1, <1>2, <1>3, <1>4, <1>5 DEF SchedStep

(* What a scan has passed is empty, and stays so until it dispatches.      *)
LEMMA DispatchStrict ==
  ASSUME IInv, ScanInv, NCPU = 1, Dispatch(0), NEW i \in 0..MAX, i < priority'[proc'[0]]
  PROVE  pLists'[ready(i)] = <<>>
<1>0. /\ Cpus = {0} /\ 0 \in Cpus /\ MAX \in Nat /\ idx[0] \in 0..MAX
  <2>1. idx[0] <= MAX
    BY Zenon DEF Dispatch
  <2>. QED BY <2>1, ScanTypes
<1>. DEFINE p == Head(ListsNow[ready(idx[0])])
            from == ready(PriorityNow[p])
<1>1. /\ PriorityNow \in [Procs -> 0..MAX] /\ Sorted(ListsNow, KeyOf(state, PriorityNow))
      /\ state \in [Procs -> States] /\ ready(idx[0]) \in ListId /\ ListsNow[ready(idx[0])] # <<>>
  BY <1>0, NowSorted, ConstantsAssumption, Basics, ListNames DEF Dispatch
<1>2. p \in Range(ListsNow[ready(idx[0])])
  <2>1. ListsNow[ready(idx[0])] \in Seq(Procs)
    BY <1>1 DEF Sorted
  <2>. QED BY <1>1, <2>1, SMTT(30) DEF Range
<1>3. p \in Procs /\ PriorityNow[p] = idx[0]
  BY <1>0, <1>1, <1>2, Members, SMTT(30)
<1>4. /\ proc'[0] = p /\ priority' = PriorityNow
      /\ pLists' = [ListsNow EXCEPT ![from] = removefromfront(@), ![running] = addtofrontoflist(@, p)]
  BY <1>0, CpuTypes, Zenon DEF Dispatch, LookAtClock
<1>. HIDE DEF p
<1>5. i < idx[0] /\ idx[0] \in 1..MAX
  BY <1>0, <1>3, <1>4
<1>6. ~Due /\ pLists[ready(i)] = <<>>
  BY <1>5 DEF ScanInv
<1>7. ready(i) # from /\ ready(i) # running /\ ready(i) \in ListId
  BY <1>0, <1>3, <1>5, ListNames
<1>8. ListsNow[ready(i)] = <<>>
  BY <1>6 DEF ListsNow
<1>9. DOMAIN ListsNow = ListId
  BY <1>1 DEF Sorted
<1>. HIDE DEF from
<1>. QED BY <1>4, <1>7, <1>8, <1>9

(* On one CPU scheduler() dispatches a process only when every ready list  *)
(* of higher priority is empty, although it reads the clock, and may       *)
(* promote everyone, before each list it looks at.                         *)
THEOREM PriorityIsStrict == NCPU = 1 => (Spec => StrictPriority)
<1> SUFFICES ASSUME NCPU = 1 PROVE Spec => StrictPriority
  OBVIOUS
<1>. DEFINE A == \A c \in Cpus : proc[c] = NULL /\ proc'[c] # NULL =>
                   \A i \in 0..MAX : i < priority'[proc'[c]] => pLists'[ready(i)] = <<>>
<1>1. IInv /\ ScanInv /\ [Next]_vars => ScanInv'
  BY ScanStep
<1>2. IInv /\ ScanInv /\ [Next]_vars => A
  <2> SUFFICES ASSUME IInv, ScanInv, [Next]_vars, proc[0] = NULL, proc'[0] # NULL,
                      NEW i \in 0..MAX, i < priority'[proc'[0]]
               PROVE  pLists'[ready(i)] = <<>>
    BY ScanTypes
  <2>1. SchedStep(0)
    BY ScanAlone DEF vars, cpuvars
  <2>2. Dispatch(0)
    BY <2>1 DEF SchedStep, SchedAcquire, SkipList, SchedRelease
  <2>. QED BY <2>2, DispatchStrict
<1>. QED BY <1>1, <1>2, ScanInit, Invariance, PTL DEF Spec, StrictPriority

-----------------------------------------------------------------------------
(* Budgets, on one CPU                                                     *)

(* On a single CPU a process that has not been killed is charged one tick  *)
(* at most: the timer interrupt that counts it makes the process yield.    *)
Unpaid == IF irq[0] \in {"tick", "yield"} THEN 1 ELSE 0
BudgetInv ==
  /\ BudgetInRange
  /\ \A p \in Procs : ppc[p] \in {"fork2", "fork3"} => budget[np[p]] = DEFAULT_BUDGET
  /\ proc[0] # NULL /\ ~killed[proc[0]] => ticks = (cpu_ticks_in[0] + Unpaid) % UintMod

LiveStates == {"SLEEPING", "RUNNABLE", "RUNNING", "ZOMBIE"}

LEMMA BudgetTypes ==
  ASSUME IInv, NCPU = 1
  PROVE  /\ Cpus = {0} /\ 0 \in Cpus
         /\ ticks \in 0..(UintMod-1) /\ cpu_ticks_in \in [Cpus -> 0..(UintMod-1)]
         /\ budget \in [Procs -> 0..(UintMod-1)] /\ state \in [Procs -> States]
         /\ proc \in [Cpus -> Procs \cup {NULL}] /\ NULL \notin Procs
         /\ DEFAULT_BUDGET \in 1..(UintMod-1) /\ UintMod \in Nat \ {0}
         /\ killed \in [Procs -> BOOLEAN]
         /\ np \in [Procs -> Procs \cup {NULL}]
         /\ ppc \in [Procs -> {"new", "user", "kern", "fork1", "fork2", "fork3", "wait", "ret", "exit"}]
         /\ irq \in [Cpus -> {"none", "tick", "dev", "yield"}]
<1>1. Cpus = {0}
  BY DEF Cpus
<1>2. /\ ticks \in 0..(UintMod-1) /\ cpu_ticks_in \in [Cpus -> 0..(UintMod-1)]
      /\ budget \in [Procs -> 0..(UintMod-1)] /\ irq \in [Cpus -> {"none", "tick", "dev", "yield"}]
  BY Zenon DEF IInv, TypeOK
<1>3. DEFAULT_BUDGET \in 1..(UintMod-1) /\ UintMod \in Nat \ {0}
  BY ConstantsAssumption DEF ConstantsAssumption
<1>. QED BY <1>1, <1>2, <1>3, FamilyTypes, CpuTypes

LEMMA BudgetInit == NCPU = 1 /\ Init => BudgetInv
<1> SUFFICES ASSUME NCPU = 1, Init PROVE BudgetInv
  OBVIOUS
<1>1. 0 \in Cpus /\ DEFAULT_BUDGET \in 1..DEFAULT_BUDGET
  BY ConstantsAssumption DEF ConstantsAssumption, Cpus
<1>2. BudgetInRange
  BY <1>1 DEF Init, BudgetInRange
<1>. QED BY <1>1, <1>2 DEF Init, BudgetInv

(* Steps that charge nobody.                                               *)
LEMMA BudgetStays ==
  ASSUME IInv, BudgetInv,
         \A q \in Procs : state'[q] \in LiveStates /\ ~killed'[q]
                            => state[q] \in LiveStates /\ ~killed[q] /\ budget'[q] = budget[q],
         \A q \in Procs : ppc'[q] \in {"fork2", "fork3"}
                            => ppc[q] \in {"fork2", "fork3"} /\ budget'[np'[q]] = budget[np[q]],
         proc'[0] # NULL /\ ~killed'[proc'[0]] => ticks' = (cpu_ticks_in'[0] + Unpaid') % UintMod
  PROVE  BudgetInv'
<1>1. BudgetInRange'
  BY DEF BudgetInv, BudgetInRange, LiveStates
<1>. QED BY <1>1 DEF BudgetInv

LEMMA SchedBudget ==
  ASSUME IInv, BudgetInv, NCPU = 1, SchedStep(0)
  PROVE  BudgetInv'
<1>0. /\ Cpus = {0} /\ 0 \in Cpus /\ ticks \in 0..(UintMod-1) /\ ticks % UintMod = ticks
      /\ state \in [Procs -> States] /\ UintMod \in Nat \ {0}
      /\ proc \in [Cpus -> Procs \cup {NULL}] /\ cpu_ticks_in \in [Cpus -> 0..(UintMod-1)]
      /\ ppc \in [Procs -> {"new", "user", "kern", "fork1", "fork2", "fork3", "wait", "ret", "exit"}]
  BY BudgetTypes, UintInRange
<1>1. CASE SchedAcquire(0) \/ SkipList(0) \/ SchedRelease(0)
  <2>1. /\ UNCHANGED <<state, killed, budget, ppc, np, proc, cpu_ticks_in, irq, ticks>>
    BY <1>1, Zenon DEF SchedAcquire, SkipList, SchedRelease, LookAtClock, calm, clock, ptable, lists, ids, mlfq
  <2>. QED BY <2>1, BudgetStays DEF BudgetInv, Unpaid
<1>2. CASE Dispatch(0)
  <2>1. PICK p \in Procs : /\ p = Head(ListsNow[ready(idx[0])]) /\ state[p] = "RUNNABLE"
                           /\ state' = [state EXCEPT ![p] = "RUNNING"]
    BY <1>0, <1>2, DispatchLists, ConstantsAssumption
  <2>2. /\ UNCHANGED <<killed, budget, np, irq, ticks>> /\ irq[0] = "none"
        /\ cpu_ticks_in'[0] = ticks
    BY <1>0, <1>2, ZenonT(30) DEF Dispatch, Schedules, LookAtClock, ids
  <2>3. \A q \in Procs : ppc'[q] \in {ppc[q], "user"}
    BY <1>0, <1>2, <2>1, Zenon DEF Dispatch
  <2>4. ticks' = (cpu_ticks_in'[0] + Unpaid') % UintMod
    BY <1>0, <2>2 DEF Unpaid
  <2>5. \A q \in Procs : state'[q] \in LiveStates => state[q] \in LiveStates
    BY <1>0, <2>1 DEF LiveStates
  <2>. QED BY <2>2, <2>3, <2>4, <2>5, BudgetStays
<1>. QED BY <1>1, <1>2 DEF SchedStep

LEMMA InterruptBudget ==
  ASSUME IInv, BudgetInv, NCPU = 1, TickInterrupt \/ Interrupt(0)
  PROVE  BudgetInv'
<1>0. /\ Cpus = {0} /\ 0 \in Cpus /\ ticks \in 0..(UintMod-1) /\ UintMod \in Nat \ {0}
      /\ cpu_ticks_in[0] \in 0..(UintMod-1) /\ cpu_ticks_in[0] % UintMod = cpu_ticks_in[0]
      /\ irq \in [Cpus -> {"none", "tick", "dev", "yield"}]
  BY BudgetTypes, UintInRange
<1>1. /\ UNCHANGED <<state, killed, budget, ppc, np, proc, cpu_ticks_in>> /\ irq[0] = "none"
      /\ \/ irq'[0] = "tick" /\ ticks' = (ticks + 1) % UintMod
         \/ irq'[0] = "dev" /\ ticks' = ticks
  BY <1>0 DEF TickInterrupt, Interrupt, TimerInterrupt, DeviceInterrupt, InterruptsOn, Handles,
              cpuvars, clock, ptable, lists, ids, mlfq
<1>2. proc[0] # NULL /\ ~killed[proc[0]] => ticks = cpu_ticks_in[0]
  BY <1>0, <1>1 DEF BudgetInv, Unpaid
<1>3. proc'[0] # NULL /\ ~killed'[proc'[0]] => ticks' = (cpu_ticks_in'[0] + Unpaid') % UintMod
  BY <1>0, <1>1, <1>2 DEF Unpaid
<1>. QED BY <1>1, <1>3, BudgetStays

(* What yield() and sleep() leave of the budget.                           *)
LEMMA ChargeInRange ==
  ASSUME IInv, BudgetInv, NCPU = 1, NEW p \in Procs, proc[0] = p, ~killed[p]
  PROVE  ChargedBudget(0, p) \in 1..DEFAULT_BUDGET
<1>0. /\ 0 \in Cpus /\ ticks \in 0..(UintMod-1) /\ UintMod \in Nat \ {0} /\ p # NULL
      /\ cpu_ticks_in[0] \in 0..(UintMod-1) /\ DEFAULT_BUDGET \in 1..(UintMod-1)
      /\ Unpaid \in {0, 1}
  BY BudgetTypes DEF Unpaid
<1>1. budget[p] \in 1..DEFAULT_BUDGET
  <2>1. state[p] = "RUNNING"
    BY <1>0, RunsRunning
  <2>. QED BY <2>1 DEF BudgetInv, BudgetInRange
<1>2. ticks = (cpu_ticks_in[0] + Unpaid) % UintMod
  BY <1>0 DEF BudgetInv
<1>3. ticks = IF cpu_ticks_in[0] + Unpaid = UintMod THEN 0 ELSE cpu_ticks_in[0] + Unpaid
  <2>1. CASE Unpaid = 0
    BY <1>0, <1>2, <2>1, UintInRange
  <2>2. CASE Unpaid = 1
    BY <1>0, <1>2, <2>2, UintWraps
  <2>. QED BY <1>0, <2>1, <2>2
<1>4. (ticks - cpu_ticks_in[0]) % UintMod = Unpaid
  <2>1. (ticks - cpu_ticks_in[0]) % UintMod
          = IF ticks >= cpu_ticks_in[0] THEN ticks - cpu_ticks_in[0] ELSE ticks - cpu_ticks_in[0] + UintMod
    BY <1>0, UintMinus
  <2>. QED BY <1>0, <1>3, <2>1
<1>5. PICK b \in 0..DEFAULT_BUDGET : b = budget[p] - Unpaid
  BY <1>0, <1>1
<1>6. Left(0, p) = b
  <2>1. b \in 0..(UintMod-1)
    BY <1>0, <1>5
  <2>2. Left(0, p) = b % UintMod
    BY <1>4, <1>5 DEF Left
  <2>. QED BY <2>1, <2>2, UintInRange
<1>. QED BY <1>0, <1>5, <1>6 DEF ChargedBudget

(* A process that gives up the processor is charged.                       *)
LEMMA ChargeBudget ==
  ASSUME IInv, BudgetInv, NCPU = 1, NEW p \in Procs, proc[0] = p, Charge(0, p),
         \A q \in Procs : killed'[q] = killed[q],
         \A q \in Procs : state'[q] \in LiveStates => state[q] \in LiveStates,
         \A q \in Procs : ppc'[q] \in {"fork2", "fork3"} => ppc'[q] = ppc[q] /\ np'[q] = np[q],
         proc'[0] = NULL
  PROVE  BudgetInv'
<1>0. p # NULL /\ state[p] = "RUNNING" /\ 0 \in Cpus /\ budget \in [Procs -> 0..(UintMod-1)]
  BY BudgetTypes, RunsRunning
<1>1. budget'[p] = ChargedBudget(0, p) /\ \A q \in Procs \ {p} : budget'[q] = budget[q]
  BY <1>0 DEF Charge
<1>2. ~killed[p] => budget'[p] \in 1..DEFAULT_BUDGET
  BY <1>1, ChargeInRange
<1>3. BudgetInRange'
  BY <1>1, <1>2 DEF BudgetInv, BudgetInRange, LiveStates
<1>4. \A q \in Procs : ppc[q] \in {"fork2", "fork3"} => np[q] \in Procs \ {p}
  BY <1>0 DEF IInv, EmbryoOwned
<1>. QED BY <1>1, <1>3, <1>4 DEF BudgetInv

LEMMA HandlerBudget ==
  ASSUME IInv, BudgetInv, NCPU = 1, HandlerStep(0)
  PROVE  BudgetInv'
<1>0. /\ Cpus = {0} /\ 0 \in Cpus /\ state \in [Procs -> States]
      /\ irq \in [Cpus -> {"none", "tick", "dev", "yield"}]
      /\ proc \in [Cpus -> Procs \cup {NULL}]
      /\ ppc \in [Procs -> {"new", "user", "kern", "fork1", "fork2", "fork3", "wait", "ret", "exit"}]
  BY BudgetTypes
<1>1. CASE InterruptWakeup(0)
  <2>1. PICK ch : WakeupOn(ch)
    BY <1>1 DEF InterruptWakeup
  <2>2. UNCHANGED <<np, proc, cpu_ticks_in, ticks>> /\ \A q \in Procs : ppc'[q] \in {ppc[q], "ret"}
    BY <1>0, <1>1 DEF InterruptWakeup, BackFromTrap, clock
  <2>3. /\ UNCHANGED <<killed, budget>>
        /\ \A q \in Procs : state[q] # "SLEEPING" => state'[q] = state[q]
    BY <2>1, WakeupFacts DEF WakeupOn, mlfq
  <2>4. \A q \in Procs : state'[q] \in LiveStates => state[q] \in LiveStates
    BY <2>3 DEF LiveStates
  <2>5. proc[0] # NULL => Unpaid' = Unpaid
    BY <1>0, <1>1 DEF InterruptWakeup, Handles, Unpaid
  <2>6. proc'[0] # NULL /\ ~killed'[proc'[0]] => ticks' = (cpu_ticks_in'[0] + Unpaid') % UintMod
    BY <2>2, <2>3, <2>5 DEF BudgetInv
  <2>. QED BY <2>2, <2>3, <2>4, <2>6, BudgetStays
<1>2. CASE TimerExit(0)
  <2>1. PICK p \in Procs : p = proc[0]
    BY <1>0, <1>2, Running DEF TimerExit, Handles
  <2>2. /\ UNCHANGED <<state, np, killed, budget, proc>> /\ killed[p]
        /\ \A q \in Procs : ppc'[q] \in {ppc[q], "exit"}
    BY <1>0, <1>2, <2>1, Zenon DEF TimerExit, EnterExit, Goto, ptable, lists, ids, mlfq, cpuvars
  <2>. QED BY <2>1, <2>2, BudgetStays
<1>3. CASE Yield(0)
  <2>1. PICK p \in Procs : p = proc[0] /\ state[p] = "RUNNING"
    BY <1>0, <1>3, Running, RunsRunning DEF Yield, Handles
  <2>2. /\ UNCHANGED <<np, killed>> /\ Charge(0, p) /\ proc'[0] = NULL
        /\ \A q \in Procs : ppc'[q] \in {ppc[q], "ret"}
        /\ \A q \in Procs \ {p} : state'[q] = state[q]
    BY <1>0, <1>3, <2>1 DEF Yield, Goto, BackFromTrap, ids, Sched
  <2>3. \A q \in Procs : state'[q] \in LiveStates => state[q] \in LiveStates
    BY <2>1, <2>2 DEF LiveStates
  <2>. QED BY <2>1, <2>2, <2>3, ChargeBudget
<1>. QED BY <1>1, <1>2, <1>3 DEF HandlerStep

LEMMA TrapBudget ==
  ASSUME IInv, BudgetInv, NCPU = 1, NEW p \in Procs, TrapStep(0, p)
  PROVE  BudgetInv'
<1>0. /\ 0 \in Cpus /\ killed \in [Procs -> BOOLEAN]
      /\ ppc \in [Procs -> {"new", "user", "kern", "fork1", "fork2", "fork3", "wait", "ret", "exit"}]
  BY BudgetTypes
<1>1. /\ UNCHANGED <<state, np, budget, proc, ticks, cpu_ticks_in, irq>>
      /\ \A q \in Procs : ~killed'[q] => ~killed[q]
  BY <1>0 DEF TrapStep, SyscallEnter, UserFault, SyscallDone, TrapReturn, SysExit,
              ptable, lists, ids, mlfq, cpuvars, calm, clock
<1>2. \A q \in Procs : ppc'[q] \in {ppc[q], "kern", "user", "ret", "exit"}
  BY <1>0, Zenon DEF TrapStep, SyscallEnter, UserFault, SyscallDone, TrapReturn, SysExit, EnterExit, Goto
<1>3. proc'[0] # NULL /\ ~killed'[proc'[0]] => ticks' = (cpu_ticks_in'[0] + Unpaid') % UintMod
  BY <1>0, <1>1, BudgetTypes DEF BudgetInv, Unpaid
<1>. QED BY <1>1, <1>2, <1>3, BudgetStays

LEMMA ForkBudget ==
  ASSUME IInv, BudgetInv, NCPU = 1, NEW p \in Procs, ForkStep(0, p)
  PROVE  BudgetInv'
<1>0. /\ 0 \in Cpus /\ state \in [Procs -> States] /\ budget \in [Procs -> 0..(UintMod-1)]
      /\ np \in [Procs -> Procs \cup {NULL}]
      /\ ppc \in [Procs -> {"new", "user", "kern", "fork1", "fork2", "fork3", "wait", "ret", "exit"}]
      /\ DEFAULT_BUDGET \in 1..DEFAULT_BUDGET
  BY BudgetTypes
<1>1. \A r \in Procs : ppc[r] \in Forking => /\ np[r] \in Procs /\ state[np[r]] = "EMBRYO"
                                             /\ r # p /\ ppc[p] \in Forking => np[r] # np[p]
  BY DEF IInv, EmbryoOwned, Forking
<1>2. UNCHANGED <<killed, proc, ticks, cpu_ticks_in, irq>>
  BY DEF ForkStep, ForkAlloc, AllocInit, ForkFail, ForkCopy, ForkPublish, ids, cpuvars, calm, clock
<1>3. proc'[0] # NULL /\ ~killed'[proc'[0]] => ticks' = (cpu_ticks_in'[0] + Unpaid') % UintMod
  BY <1>2 DEF BudgetInv, Unpaid
<1>4. CASE ForkAlloc(0, p)
  <2>1. /\ \A q \in Procs : state'[q] \in LiveStates => state[q] \in LiveStates
    BY <1>0, <1>4, ForkAllocLists DEF LiveStates
  <2>2. budget' = budget /\ \A q \in Procs : ppc'[q] \in {"fork2", "fork3"} => ppc'[q] = ppc[q] /\ np'[q] = np[q]
    BY <1>0, <1>4 DEF ForkAlloc, Goto, mlfq
  <2>. QED BY <1>2, <1>3, <2>1, <2>2, BudgetStays
<1>5. CASE AllocInit(0, p)
  <2>1. PICK e \in Procs : e = np[p] /\ state[e] = "EMBRYO"
    BY <1>1, <1>5, Zenon DEF AllocInit, Runs, Forking
  <2>2. /\ UNCHANGED <<state, np>> /\ budget'[e] = DEFAULT_BUDGET /\ ppc[p] \in Forking
        /\ \A q \in Procs \ {e} : budget'[q] = budget[q]
        /\ \A q \in Procs \ {p} : ppc'[q] = ppc[q]
    BY <1>0, <1>5, <2>1 DEF AllocInit, Runs, Goto, lists, Forking
  <2>3. BudgetInRange'
    BY <1>2, <2>1, <2>2, ZenonT(30) DEF BudgetInv, BudgetInRange
  <2>4. \A q \in Procs : ppc'[q] \in {"fork2", "fork3"} => budget'[np'[q]] = DEFAULT_BUDGET
    <3> SUFFICES ASSUME NEW q \in Procs, ppc'[q] \in {"fork2", "fork3"}
                 PROVE  budget'[np[q]] = DEFAULT_BUDGET
      BY <2>2, Zenon
    <3>1. CASE np[q] = e
      BY <2>2, <3>1, Zenon
    <3>2. CASE np[q] # e
      <4>1. ppc[q] \in {"fork2", "fork3"} /\ np[q] \in Procs
        BY <1>1, <2>1, <2>2, <3>2 DEF Forking
      <4>. QED BY <1>2, <2>2, <3>2, <4>1 DEF BudgetInv
    <3>. QED BY <3>1, <3>2
  <2>. QED BY <1>3, <2>3, <2>4 DEF BudgetInv
<1>6. CASE ForkFail(0, p)
  <2>1. PICK e \in Procs : e = np[p]
    BY <1>1, <1>6, Zenon DEF ForkFail, Runs, Forking
  <2>2. /\ budget' = budget /\ state'[e] = "UNUSED" /\ \A q \in Procs \ {e} : state'[q] = state[q]
        /\ \A q \in Procs : ppc'[q] \in {"fork2", "fork3"} => ppc'[q] = ppc[q] /\ np'[q] = np[q]
    BY <1>0, <1>6, <2>1 DEF ForkFail, Goto, mlfq
  <2>3. \A q \in Procs : state'[q] \in LiveStates => state[q] \in LiveStates
    BY <2>2 DEF LiveStates
  <2>. QED BY <1>2, <1>3, <2>2, <2>3, BudgetStays
<1>7. CASE ForkCopy(0, p)
  <2>1. UNCHANGED <<state, np, budget>> /\ ppc[p] = "fork2" /\ \A q \in Procs \ {p} : ppc'[q] = ppc[q]
    BY <1>0, <1>7 DEF ForkCopy, Runs, Goto, lists, mlfq
  <2>. QED BY <1>2, <1>3, <2>1, BudgetStays
<1>8. CASE ForkPublish(0, p)
  <2>1. PICK e \in Procs : e = np[p] /\ budget[e] = DEFAULT_BUDGET
    BY <1>1, <1>8, Zenon DEF ForkPublish, Runs, Forking, BudgetInv
  <2>2. /\ budget' = budget /\ \A q \in Procs \ {e} : state'[q] = state[q]
        /\ \A q \in Procs : ppc'[q] \in {"fork2", "fork3"} => ppc'[q] = ppc[q] /\ np'[q] = np[q]
    BY <1>0, <1>8, <2>1 DEF ForkPublish, mlfq
  <2>3. BudgetInRange'
    BY <1>0, <1>2, <2>1, <2>2 DEF BudgetInv, BudgetInRange
  <2>. QED BY <1>3, <2>2, <2>3, ZenonT(30) DEF BudgetInv
<1>. QED BY <1>4, <1>5, <1>6, <1>7, <1>8 DEF ForkStep

LEMMA WaitBudget ==
  ASSUME IInv, BudgetInv, NCPU = 1, NEW p \in Procs, WaitStep(0, p)
  PROVE  BudgetInv'
<1>0. /\ 0 \in Cpus /\ state \in [Procs -> States]
      /\ ppc \in [Procs -> {"new", "user", "kern", "fork1", "fork2", "fork3", "wait", "ret", "exit"}]
      /\ proc \in [Cpus -> Procs \cup {NULL}]
  BY BudgetTypes
<1>9. ASSUME NEW c \in Cpus, WaitReap(c, p)
      PROVE  \E q \in Procs :
               /\ state[q] = "ZOMBIE" /\ state'[q] = "UNUSED"
               /\ \A r \in Procs \ {q} : state'[r] = state[r] /\ killed'[r] = killed[r]
  <2>1. PICK q \in Procs :
           /\ state[q] = "ZOMBIE" /\ state'[q] = "UNUSED" /\ parent[q] = p /\ parent'[q] = NULL
           /\ \A r \in Procs \ {q} : /\ state'[r] = state[r] /\ parent'[r] = parent[r]
                                      /\ killed'[r] = killed[r]
    BY <1>9, ReapEffect, ZenonT(30)
  <2>. QED BY <2>1
<1>1. CASE WaitReap(0, p) \/ WaitFail(0, p)
  <2>1. /\ UNCHANGED <<budget, np, proc, ticks, cpu_ticks_in, irq>>
        /\ \A q \in Procs : ppc'[q] \in {ppc[q], "ret"}
    BY <1>0, <1>1, ZenonT(30) DEF WaitReap, WaitFail, Goto, ptable, mlfq, calm, clock
  <2>2. \A q \in Procs : state'[q] \in LiveStates => state'[q] = state[q] /\ killed'[q] = killed[q]
    <3>1. CASE WaitReap(0, p)
      <4>1. PICK q \in Procs :
              /\ state[q] = "ZOMBIE" /\ state'[q] = "UNUSED"
              /\ \A r \in Procs \ {q} : state'[r] = state[r] /\ killed'[r] = killed[r]
        BY <1>0, <3>1, <1>9
      <4>. QED BY <4>1 DEF LiveStates
    <3>2. CASE WaitFail(0, p)
      <4>1. UNCHANGED <<state, killed>>
        BY <3>2 DEF WaitFail, ptable, lists, ids
      <4>. QED BY <4>1
    <3>. QED BY <1>1, <3>1, <3>2, ZenonT(30)
  <2>3. proc[0] = p /\ state'[p] \in LiveStates
    <3>1. proc[0] = p
      BY <1>1, Zenon DEF WaitReap, WaitFail, InWait, Runs
    <3>2. state[p] = "RUNNING"
      BY <1>0, <3>1, RunsRunning
    <3>3. CASE WaitReap(0, p)
      <4>1. PICK q \in Procs :
              /\ state[q] = "ZOMBIE" /\ state'[q] = "UNUSED"
              /\ \A r \in Procs \ {q} : state'[r] = state[r] /\ killed'[r] = killed[r]
        BY <1>0, <3>3, <1>9
      <4>. QED BY <3>1, <3>2, <4>1 DEF LiveStates
    <3>4. CASE WaitFail(0, p)
      BY <3>1, <3>2, <3>4 DEF WaitFail, ptable, lists, LiveStates
    <3>. QED BY <1>1, <3>1, <3>3, <3>4, Zenon
  <2>4. proc'[0] # NULL /\ ~killed'[proc'[0]] => ticks' = (cpu_ticks_in'[0] + Unpaid') % UintMod
    BY <2>1, <2>2, <2>3 DEF BudgetInv, Unpaid
  <2>. QED BY <2>1, <2>2, <2>4, BudgetStays
<1>2. CASE WaitSleep(0, p)
  <2>1. /\ UNCHANGED <<np, killed>> /\ Charge(0, p) /\ proc'[0] = NULL /\ proc[0] = p
        /\ \A q \in Procs : ppc'[q] \in {ppc[q], "wait"}
        /\ \A q \in Procs \ {p} : state'[q] = state[q]
    BY <1>0, <1>2 DEF WaitSleep, InWait, Runs, SleepBody, Goto, ids, Sched
  <2>2. \A q \in Procs : state'[q] \in LiveStates => state[q] \in LiveStates
    BY <1>0, <2>1, RunsRunning DEF LiveStates
  <2>. QED BY <2>1, <2>2, ChargeBudget
<1>. QED BY <1>1, <1>2 DEF WaitStep

LEMMA ExitBudget ==
  ASSUME IInv, BudgetInv, NCPU = 1, NEW p \in Procs, Exit(0, p)
  PROVE  BudgetInv'
<1>0. /\ 0 \in Cpus /\ state \in [Procs -> States] /\ proc \in [Cpus -> Procs \cup {NULL}]
  BY BudgetTypes
<1>1. state[p] = "RUNNING" /\ UNCHANGED <<killed, budget, ppc, np>> /\ proc'[0] = NULL
  BY <1>0, RunsRunning, Zenon DEF Exit, Runs, Sched, mlfq
<1>2. PICK W \in SUBSET {q \in Procs : state[q] = "SLEEPING"} :
        state' = [AsRunnable(W) EXCEPT ![p] = "ZOMBIE"]
  BY <1>0, ExitLists
<1>3. \A q \in Procs : state'[q] \in LiveStates => state[q] \in LiveStates
  BY <1>1, <1>2 DEF AsRunnable, LiveStates
<1>. QED BY <1>1, <1>3, BudgetStays, Zenon

LEMMA CallBudget ==
  ASSUME IInv, BudgetInv, NCPU = 1, NEW p \in Procs,
         \/ Wakeup(0, p)
         \/ \E ch \in {TICKS, IO} : Sleep(0, p, ch)
         \/ \E k \in 1..MaxPid : Kill(0, p, k)
         \/ \E k \in 1..MaxPid, prio \in 0..MAX : SetPriority(0, p, k, prio)
  PROVE  BudgetInv'
<1>0. /\ 0 \in Cpus /\ state \in [Procs -> States] /\ budget \in [Procs -> 0..(UintMod-1)]
      /\ ppc \in [Procs -> {"new", "user", "kern", "fork1", "fork2", "fork3", "wait", "ret", "exit"}]
      /\ proc \in [Cpus -> Procs \cup {NULL}] /\ killed \in [Procs -> BOOLEAN] /\ NULL \notin Procs
      /\ DEFAULT_BUDGET \in 1..DEFAULT_BUDGET
  BY BudgetTypes
<1>1. CASE Wakeup(0, p)
  <2>1. WakeupOn(IO) /\ UNCHANGED <<ppc, np, proc, ticks, cpu_ticks_in, irq>>
    BY <1>1 DEF Wakeup, cpuvars, calm, clock
  <2>2. /\ UNCHANGED <<killed, budget>>
        /\ \A q \in Procs : state[q] # "SLEEPING" => state'[q] = state[q]
    BY <2>1, WakeupFacts
  <2>3. \A q \in Procs : state'[q] \in LiveStates => state[q] \in LiveStates
    BY <2>2, Zenon DEF LiveStates
  <2>. QED BY <2>1, <2>2, <2>3, BudgetStays, Zenon DEF BudgetInv, Unpaid
<1>2. ASSUME NEW ch \in {TICKS, IO}, Sleep(0, p, ch) PROVE BudgetInv'
  <2>1. /\ UNCHANGED <<np, killed>> /\ Charge(0, p) /\ proc'[0] = NULL /\ proc[0] = p
        /\ \A q \in Procs : ppc'[q] = ppc[q]
        /\ \A q \in Procs \ {p} : state'[q] = state[q]
    BY <1>0, <1>2 DEF Sleep, Runs, SleepBody, Goto, ids, Sched
  <2>2. \A q \in Procs : state'[q] \in LiveStates => state[q] \in LiveStates
    BY <1>0, <2>1, RunsRunning, ZenonT(30) DEF LiveStates
  <2>. QED BY <2>1, <2>2, ChargeBudget
<1>3. ASSUME NEW k \in 1..MaxPid, Kill(0, p, k) PROVE BudgetInv'
  <2>1. PICK q \in OnSome(pLists, AdoptLists) :
          /\ killed' = [killed EXCEPT ![q] = TRUE]
          /\ state' = [state EXCEPT ![q] = IF q \in Range(pLists[sleeping]) THEN "RUNNABLE" ELSE @]
    BY <1>3, ZenonT(30) DEF Kill
  <2>2. q \in Procs /\ (q \in Range(pLists[sleeping]) <=> state[q] = "SLEEPING")
    BY Listed, Zenon
  <2>3. /\ \A r \in Procs \ {q} : killed'[r] = killed[r] /\ state'[r] = state[r]
        /\ killed'[q]
    BY <1>0, <2>1, <2>2
  <2>4. /\ UNCHANGED <<budget, np, proc, ticks, cpu_ticks_in, irq>>
        /\ \A r \in Procs : ppc'[r] \in {ppc[r], "ret"}
    BY <1>0, <1>3, ZenonT(30) DEF Kill, Goto, mlfq, cpuvars, calm, clock
  <2>5. proc'[0] # NULL /\ ~killed'[proc'[0]] => ticks' = (cpu_ticks_in'[0] + Unpaid') % UintMod
    BY <1>0, <2>3, <2>4, ZenonT(30) DEF BudgetInv, Unpaid
  <2>. QED BY <2>3, <2>4, <2>5, BudgetStays
<1>4. ASSUME NEW k \in 1..MaxPid, NEW prio \in 0..MAX, SetPriority(0, p, k, prio) PROVE BudgetInv'
  <2>1. PICK q \in OnSome(pLists, AdoptLists \ {embryo}) : budget' = [budget EXCEPT ![q] = DEFAULT_BUDGET]
    BY <1>4, ZenonT(30) DEF SetPriority
  <2>2. \A r \in Procs : budget'[r] = budget[r] \/ budget'[r] = DEFAULT_BUDGET
    BY <1>0, <2>1
  <2>3. /\ UNCHANGED <<state, killed, np, proc, ticks, cpu_ticks_in, irq>>
        /\ \A r \in Procs : ppc'[r] \in {ppc[r], "ret"}
    BY <1>0, <1>4 DEF SetPriority, Goto, ids, cpuvars, calm, clock
  <2>4. BudgetInRange'
    BY <1>0, <2>2, <2>3, ZenonT(30) DEF BudgetInv, BudgetInRange
  <2>5. \A r \in Procs : ppc[r] \in {"fork2", "fork3"} => np[r] \in Procs
    BY Zenon DEF IInv, EmbryoOwned
  <2>. QED BY <2>2, <2>3, <2>4, <2>5 DEF BudgetInv, Unpaid
<1>. QED BY <1>1, <1>2, <1>3, <1>4

LEMMA BudgetStep ==
  ASSUME NCPU = 1, IInv, BudgetInv, [Next]_vars
  PROVE  BudgetInv'
<1>0. Cpus = {0}
  BY DEF Cpus
<1>1. CASE TickInterrupt \/ SchedStep(0) \/ HandlerStep(0) \/ Interrupt(0)
  BY <1>1, SchedBudget, HandlerBudget, InterruptBudget
<1>2. ASSUME NEW p \in Procs, TrapStep(0, p) \/ ForkStep(0, p) \/ WaitStep(0, p) \/ Exit(0, p)
      PROVE  BudgetInv'
  BY <1>2, TrapBudget, ForkBudget, WaitBudget, ExitBudget
<1>3. ASSUME NEW p \in Procs,
             \/ Wakeup(0, p)
             \/ \E ch \in {TICKS, IO} : Sleep(0, p, ch)
             \/ \E k \in 1..MaxPid : Kill(0, p, k)
             \/ \E k \in 1..MaxPid, prio \in 0..MAX : SetPriority(0, p, k, prio)
      PROVE BudgetInv'
  BY <1>3, CallBudget, SMTT(30)
<1>4. CASE PanicLoop \/ UNCHANGED vars
  <2>1. UNCHANGED <<state, killed, budget, ppc, np, proc, ticks, cpu_ticks_in, irq>>
    BY <1>4 DEF PanicLoop, vars, ptable, lists, ids, mlfq, cpuvars, calm, clock
  <2>. QED BY <2>1 DEF BudgetInv, BudgetInRange, Unpaid
<1>. QED BY <1>0, <1>1, <1>2, <1>3, <1>4 DEF Next

(* On one CPU no charge of sched() takes the budget of a process that is   *)
(* not killed below zero, where as a uint it would be enormous, and a      *)
(* process whose budget is used up is demoted with a new one.              *)
THEOREM BudgetsHold == NCPU = 1 => (Spec => []BudgetInRange)
<1> SUFFICES ASSUME NCPU = 1 PROVE Spec => []BudgetInRange
  OBVIOUS
<1>1. Init => BudgetInv
  BY BudgetInit
<1>2. IInv /\ BudgetInv /\ [Next]_vars => BudgetInv'
  BY BudgetStep
<1>3. BudgetInv => BudgetInRange
  BY DEF BudgetInv
<1>. QED BY <1>1, <1>2, <1>3, Invariance, PTL DEF Spec
=============================================================================
