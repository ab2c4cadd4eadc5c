---------------------------- MODULE SyscallProofs ----------------------------
(***************************************************************************)
(* Unsigned arithmetic of two system calls.  sys_sleep against the tick    *)
(* handler: the difference of two readings of ticks is the number of ticks *)
(* in between for as long as that is less than 2^32, whatever the readings *)
(* are.  The fetching of arguments: no sum wraps past the tests.           *)
(***************************************************************************)
EXTENDS Clock, UserArgs, TLAPS

(* The difference of two readings, wrapped or not.                         *)
LEMMA Difference == \A d \in 0..UINT - 1 : d % UINT = d /\ (d - UINT) % UINT = d
BY ClockAssumption

(* One more tick, wrapped or not.                                          *)
LEMMA Wraps == \A t \in 0..UINT - 1 : (t + 1) % UINT = IF t + 1 = UINT THEN 0 ELSE t + 1
BY ClockAssumption

Waiting == {"look", "dozing", "asleep"}
Sleeper == [at : Waiting \cup {"user", "back"}, n : Nat, ticks0 : 0..UINT - 1, since : Nat,
            killed : BOOLEAN, ret : {0, -1}]

(* While sys_sleep waits, ticks has moved on from ticks0 by the ticks that *)
(* have passed, or by that less 2^32.                                      *)
SinceCall(s) ==
  /\ s.n \in SleepFor /\ s.since <= passed
  /\ \/ ticks - s.ticks0 = passed - s.since
     \/ ticks - s.ticks0 = passed - s.since - UINT
Returned(s) ==
  /\ s.ret = 0 => s.since + s.n <= passed
  /\ s.ret = -1 => s.killed
ClockInv ==
  /\ ticks \in 0..UINT - 1 /\ passed \in 0..Horizon
  /\ slp \in [Sleepers -> Sleeper]
  /\ \A p \in Sleepers : /\ slp[p].at \in Waiting => SinceCall(slp[p])
                         /\ slp[p].at = "back" => Returned(slp[p])

(* What TimeLeft computes.                                                 *)
LEMMA TimeLeftIsExact ==
  ASSUME ClockInv, NEW p \in Sleepers, slp[p].at \in Waiting
  PROVE  TimeLeft(p) <=> passed - slp[p].since < slp[p].n
<1>. DEFINE d == passed - slp[p].since
<1>1. d \in 0..UINT - 1
  BY ClockAssumption DEF ClockInv, SinceCall, Sleeper
<1>2. ticks - slp[p].ticks0 = d \/ ticks - slp[p].ticks0 = d - UINT
  BY DEF ClockInv, SinceCall
<1>3. (ticks - slp[p].ticks0) % UINT = d
  BY <1>1, <1>2, Difference
<1>. QED BY <1>3 DEF TimeLeft

(* A step of one sleeper alone.                                            *)
LEMMA OneSleeper ==
  ASSUME ClockInv, NEW p \in Sleepers, NEW s \in Sleeper,
         slp' = [slp EXCEPT ![p] = s], UNCHANGED <<ticks, passed>>,
         s.at \in Waiting => SinceCall(s), s.at = "back" => Returned(s)
  PROVE  ClockInv'
<1>1. slp' \in [Sleepers -> Sleeper]
  BY DEF ClockInv
<1>2. \A q \in Sleepers : slp'[q] = IF q = p THEN s ELSE slp[q]
  BY DEF ClockInv
<1>. QED BY <1>1, <1>2 DEF ClockInv, SinceCall, Returned

(* No step breaks the invariant.                                           *)
LEMMA ClockStep ==
  ASSUME ClockInv, [ClockNext]_clockVars
  PROVE  ClockInv'
<1>1. CASE Tick
  <2>1. passed' = passed + 1 /\ slp' = slp /\ ticks' = (IF ticks + 1 = UINT THEN 0 ELSE ticks + 1)
    BY <1>1, Wraps DEF Tick, ClockInv
  <2>2. ticks' \in 0..UINT - 1 /\ passed' \in 0..Horizon
    BY <1>1, <2>1, ClockAssumption DEF Tick, ClockInv
  <2>3. ASSUME NEW p \in Sleepers
        PROVE  /\ slp[p].at \in Waiting => SinceCall(slp[p])'
               /\ slp[p].at = "back" => Returned(slp[p])'
    <3>1. slp[p] \in Sleeper
      BY DEF ClockInv
    <3>2. slp[p].at \in Waiting => SinceCall(slp[p])'
      <4>1. CASE slp[p].at \in Waiting
        <5>1. passed - slp[p].since \in 0..UINT - 2
          BY <1>1, <3>1, <4>1, ClockAssumption DEF Tick, ClockInv, SinceCall, Sleeper
        <5>. QED BY <2>1, <3>1, <4>1, <5>1, ClockAssumption DEF ClockInv, SinceCall, Sleeper
      <4>. QED BY <4>1
    <3>3. slp[p].at = "back" => Returned(slp[p])'
      BY <2>1, <3>1, ClockAssumption DEF ClockInv, Returned, Sleeper
    <3>. QED BY <3>2, <3>3
  <2>. QED BY <2>1, <2>2, <2>3 DEF ClockInv
<1>2. CASE WakeSleepers
  BY <1>2 DEF WakeSleepers, ClockInv, SinceCall, Returned, Sleeper, Waiting
<1>3. ASSUME NEW p \in Sleepers, NEW n \in SleepFor, SleepCall(p, n)
      PROVE  ClockInv'
  <2>. DEFINE s == [slp[p] EXCEPT !.at = "look", !.n = n, !.ticks0 = ticks, !.since = passed]
  <2>1. slp' = [slp EXCEPT ![p] = s] /\ UNCHANGED <<ticks, passed>>
    BY <1>3 DEF SleepCall
  <2>2. s \in Sleeper /\ s.at = "look" /\ s.n = n /\ s.ticks0 = ticks /\ s.since = passed
    <3>1. slp[p] \in Sleeper /\ n \in Nat /\ passed \in Nat /\ ticks \in 0..UINT - 1
      BY ClockAssumption DEF ClockInv
    <3>. QED BY <3>1 DEF Sleeper, Waiting
  <2>3. SinceCall(s)
    BY <2>2, ClockAssumption DEF ClockInv, SinceCall
  <2>. QED BY <2>1, <2>2, <2>3, OneSleeper
<1>4. ASSUME NEW p \in Sleepers, SleepLook(p)
      PROVE  ClockInv'
  <2>1. /\ slp[p] \in Sleeper /\ slp[p].at \in Waiting /\ SinceCall(slp[p])
        /\ TimeLeft(p) <=> passed - slp[p].since < slp[p].n
    BY <1>4, TimeLeftIsExact DEF SleepLook, Waiting, ClockInv
  <2>2. CASE ~TimeLeft(p)
    <3>. DEFINE s == [slp[p] EXCEPT !.at = "back", !.ret = 0]
    <3>1. slp' = [slp EXCEPT ![p] = s] /\ UNCHANGED <<ticks, passed>>
      BY <1>4, <2>2 DEF SleepLook
    <3>2. s \in Sleeper /\ s.at = "back" /\ s.ret = 0 /\ s.since = slp[p].since /\ s.n = slp[p].n
      BY <2>1 DEF Sleeper, Waiting
    <3>3. Returned(s)
      BY <2>1, <2>2, <3>2, ClockAssumption DEF ClockInv, Returned, Sleeper
    <3>. QED BY <3>1, <3>2, <3>3, OneSleeper DEF Waiting
  <2>3. CASE TimeLeft(p) /\ slp[p].killed
    <3>. DEFINE s == [slp[p] EXCEPT !.at = "back", !.ret = -1]
    <3>1. slp' = [slp EXCEPT ![p] = s] /\ UNCHANGED <<ticks, passed>>
      BY <1>4, <2>3 DEF SleepLook
    <3>2. s \in Sleeper /\ s.at = "back" /\ s.ret = -1 /\ s.killed
      BY <2>1, <2>3 DEF Sleeper, Waiting
    <3>3. Returned(s) /\ s.at \notin Waiting
      BY <3>2 DEF Waiting, Returned
    <3>. HIDE DEF s
    <3>. QED BY <3>1, <3>2, <3>3, OneSleeper
  <2>4. CASE TimeLeft(p) /\ ~slp[p].killed
    <3>. DEFINE s == [slp[p] EXCEPT !.at = "dozing"]
    <3>1. slp' = [slp EXCEPT ![p] = s] /\ UNCHANGED <<ticks, passed>>
      BY <1>4, <2>4 DEF SleepLook
    <3>2. s \in Sleeper /\ s.at = "dozing" /\ s.n = slp[p].n /\ s.ticks0 = slp[p].ticks0 /\ s.since = slp[p].since
      BY <2>1 DEF Sleeper, Waiting
    <3>. QED BY <3>1, <3>2, <2>1, OneSleeper DEF SinceCall
  <2>. QED BY <2>2, <2>3, <2>4
<1>5. ASSUME NEW p \in Sleepers, SleepDoze(p)
      PROVE  ClockInv'
  BY <1>5 DEF SleepDoze, ClockInv, SinceCall, Returned, Sleeper, Waiting
<1>6. ASSUME NEW p \in Sleepers, SleepReturn(p)
      PROVE  ClockInv'
  BY <1>6, ClockAssumption DEF SleepReturn, ClockInv, NotCalled, SinceCall, Returned, Sleeper, Waiting
<1>7. ASSUME NEW p \in Sleepers, KillSleeper(p)
      PROVE  ClockInv'
  <2>. DEFINE s == [slp[p] EXCEPT !.killed = TRUE, !.at = IF @ = "asleep" THEN "look" ELSE @]
  <2>1. slp' = [slp EXCEPT ![p] = s] /\ UNCHANGED <<ticks, passed>>
    BY <1>7 DEF KillSleeper, ClockInv
  <2>2. /\ s \in Sleeper /\ s.killed /\ s.n = slp[p].n /\ s.ticks0 = slp[p].ticks0
        /\ s.since = slp[p].since /\ s.ret = slp[p].ret
        /\ s.at \in Waiting <=> slp[p].at \in Waiting
        /\ s.at = "back" <=> slp[p].at = "back"
    BY DEF ClockInv, Sleeper, Waiting
  <2>3. /\ s.at \in Waiting => SinceCall(s)
        /\ s.at = "back" => Returned(s)
    BY <2>2 DEF ClockInv, SinceCall, Returned
  <2>. QED BY <2>1, <2>2, <2>3, OneSleeper
<1>8. CASE UNCHANGED clockVars
  BY <1>8 DEF clockVars, ClockInv, SinceCall, Returned
<1>. QED BY <1>1, <1>2, <1>3, <1>4, <1>5, <1>6, <1>7, <1>8 DEF ClockNext

(* A sleep(n) that succeeds has waited for n ticks and one that fails was  *)
(* killed, from whatever value ticks starts, wrapping or not: the unsigned *)
(* difference of sysproc.c:69 is right for every sleep that ends within    *)
(* 2^32 ticks.                                                             *)
THEOREM SleepsLongEnough == ClockSpec => []SleptLongEnough
<1>1. ClockInit => ClockInv
  BY ClockAssumption DEF ClockInit, NotCalled, ClockInv, Sleeper, Waiting
<1>2. ClockInv => SleptLongEnough
  <2>. SUFFICES ASSUME ClockInv, NEW p \in Sleepers, slp[p].at = "back"
                PROVE  /\ slp[p].ret = 0 => passed - slp[p].since >= slp[p].n
                       /\ slp[p].ret = -1 => slp[p].killed
    BY DEF SleptLongEnough
  <2>1. passed \in Int /\ slp[p].since \in Int /\ slp[p].n \in Int
    BY ClockAssumption DEF ClockInv, Sleeper
  <2>2. Returned(slp[p])
    BY DEF ClockInv
  <2>. QED BY <2>1, <2>2 DEF Returned
<1>. QED BY <1>1, <1>2, ClockStep, PTL DEF ClockSpec

(* The tests of fetchint and argptr, and what sys_read copies after them,  *)
(* for every size of the process, every address, every int as a size, and  *)
(* every file.                                                             *)
THEOREM ArgumentsLieInside == ArgInit => ArgsInside
<1> SUFFICES ASSUME ArgInit PROVE ArgsInside
  OBVIOUS
<1>1. /\ psz \in Nat /\ addr \in Nat /\ size \in Int /\ foff \in Nat /\ fsize \in Nat
      /\ psz < ArgKernBase /\ addr < UintMod /\ -(MaxSize + 1) <= size /\ size <= MaxSize
      /\ foff <= MaxSize /\ fsize <= MaxSize
      /\ UintMod \in Nat /\ MaxSize \in Nat /\ ArgKernBase \in Nat /\ INTSIZE \in Nat
      /\ UintMod = 2 * (MaxSize + 1) /\ ArgKernBase <= MaxSize + 1 /\ INTSIZE <= MaxSize
  BY UserArgsAssumption DEF ArgInit
<1>2. fetchint(addr) <=> Inside(addr, INTSIZE)
  BY <1>1 DEF fetchint, Inside, UintAdd
<1>3. size >= 0 => (argptr(addr, size) <=> Inside(addr, size))
  BY <1>1 DEF argptr, Inside, UintAdd, ToUint
<1>4. size < 0 => (argptr(addr, size) <=> addr < psz /\ addr + size >= 0)
  BY <1>1 DEF argptr, UintAdd, ToUint
<1>5. ASSUME argptr(addr, size), foff + size >= 0 PROVE Inside(addr, readiCount(size))
  <2>1. CASE size >= 0
    <3>1. readiCount(size) \in Nat /\ readiCount(size) <= size
      BY <2>1, <1>1 DEF readiCount, UintAdd, ToUint
    <3>. QED BY <3>1, <2>1, <1>1, <1>3, <1>5 DEF Inside
  <2>2. CASE size < 0
    <3>1. readiCount(size) = 0
      BY <2>2, <1>1, <1>5 DEF readiCount, UintAdd, ToUint
    <3>. QED BY <3>1, <2>2, <1>1, <1>4, <1>5 DEF Inside
  <2>. QED BY <2>1, <2>2, <1>1
<1> QED
  BY <1>2, <1>3, <1>4, <1>5 DEF ArgsInside
=============================================================================
