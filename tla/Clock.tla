-------------------------------- MODULE Clock -------------------------------
(***************************************************************************)
(* Sleeping for a number of clock ticks (sys_sleep, sysproc.c) against the *)
(* tick handler of CPU 0 (trap.c), which counts and then wakes.  sys_sleep *)
(* looks at ticks and goes to sleep without a lock: a tick may come        *)
(* between the two.                                                        *)
(***************************************************************************)
EXTENDS Integers

CONSTANTS
  Sleepers,
  SleepFor,          \* arguments of sleep
  UINT,              \* 2^32, where ticks wraps
  StartTicks,        \* values of ticks to start from
  Horizon            \* ticks that are watched

ASSUME ClockAssumption ==
  /\ UINT \in Nat \ {0} /\ Horizon \in Nat
  /\ StartTicks \subseteq 0..UINT - 1
  /\ \A n \in SleepFor : n \in Nat /\ n + Horizon < UINT

VARIABLES
  ticks,
  passed,            \* ticks since the start, not wrapping
  waking,            \* CPU 0 has counted and not yet called wakeup
  slp                \* the sleepers

clockVars == <<ticks, passed, waking, slp>>

NotCalled == [at |-> "user", n |-> 0, ticks0 |-> 0, since |-> 0, killed |-> FALSE, ret |-> 0]
ClockInit ==
  /\ ticks \in StartTicks /\ passed = 0 /\ waking = FALSE
  /\ slp = [p \in Sleepers |-> NotCalled]

(* The tick handler.                                                       *)
Tick ==
  /\ ~waking /\ passed < Horizon
  /\ ticks' = (ticks + 1) % UINT /\ passed' = passed + 1 /\ waking' = TRUE
  /\ UNCHANGED slp
WakeSleepers ==
  /\ waking /\ waking' = FALSE
  /\ slp' = [p \in Sleepers |-> IF slp[p].at = "asleep" THEN [slp[p] EXCEPT !.at = "look"] ELSE slp[p]]
  /\ UNCHANGED <<ticks, passed>>

(* sys_sleep: the call, a look at ticks, and sleep(&ticks, 0).             *)
SleepCall(p, n) ==
  /\ slp[p].at = "user" /\ ~slp[p].killed
  /\ slp' = [slp EXCEPT ![p] = [@ EXCEPT !.at = "look", !.n = n, !.ticks0 = ticks, !.since = passed]]
  /\ UNCHANGED <<ticks, passed, waking>>
(* Mutant: the end is computed once, and compared with the clock.          *)
TimeLeftDeadline(p) == ticks < (slp[p].ticks0 + slp[p].n) % UINT
TimeLeft(p) == (ticks - slp[p].ticks0) % UINT < slp[p].n
SleepLook(p) ==
  /\ slp[p].at = "look"
  /\ slp' = [slp EXCEPT ![p] =
       CASE ~TimeLeft(p) -> [@ EXCEPT !.at = "back", !.ret = 0]
         [] TimeLeft(p) /\ @.killed -> [@ EXCEPT !.at = "back", !.ret = -1]
         [] OTHER -> [@ EXCEPT !.at = "dozing"]]
  /\ UNCHANGED <<ticks, passed, waking>>
SleepDoze(p) ==
  /\ slp[p].at = "dozing" /\ slp' = [slp EXCEPT ![p].at = "asleep"]
  /\ UNCHANGED <<ticks, passed, waking>>
SleepReturn(p) ==
  /\ slp[p].at = "back" /\ slp' = [slp EXCEPT ![p] = [NotCalled EXCEPT !.killed = slp[p].killed]]
  /\ UNCHANGED <<ticks, passed, waking>>
(* kill of the sleeper, which wakes it.                                    *)
KillSleeper(p) ==
  /\ ~slp[p].killed
  /\ slp' = [slp EXCEPT ![p].killed = TRUE, ![p].at = IF @ = "asleep" THEN "look" ELSE @]
  /\ UNCHANGED <<ticks, passed, waking>>

ClockNext ==
  \/ Tick \/ WakeSleepers
  \/ \E p \in Sleepers :
       \/ \E n \in SleepFor : SleepCall(p, n)
       \/ SleepLook(p) \/ SleepDoze(p) \/ SleepReturn(p) \/ KillSleeper(p)

ClockSpec == ClockInit /\ [][ClockNext]_clockVars

(* sleep(n) that succeeds has waited for n ticks, also when ticks wrapped  *)
(* in between; it fails only for a process that was killed                 *)
(* (sysproc.c:69, trap.c:52).                                              *)
SleptLongEnough ==
  \A p \in Sleepers :
    /\ slp[p].at = "back" /\ slp[p].ret = 0 => passed - slp[p].since >= slp[p].n
    /\ slp[p].at = "back" /\ slp[p].ret = -1 => slp[p].killed
=============================================================================
