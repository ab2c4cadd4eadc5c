---------------------------- MODULE PipeProofs -----------------------------
(***************************************************************************)
(* For any number of processes and any size of the ring: the page of a     *)
(* pipe is not used after it was freed, and nobody sleeps in the pipe for  *)
(* something that is already there, but for the reader that a killed       *)
(* writer leaves behind.                                                   *)
(***************************************************************************)
EXTENDS Pipe, WellFoundedInduction, TLAPS

-----------------------------------------------------------------------------
(* Arithmetic                                                              *)

LEMMA Bounds == PIPESIZE \in Nat /\ UintMod \in Nat /\ UintMod > 0 /\ MaxN \in Nat
BY PipeAssumption

(* A counter wraps into its range and is itself inside it.                 *)
LEMMA UintRange == \A n \in Int : Uint(n) \in 0..UintMod - 1
BY PipeAssumption, SMTT(30) DEF Uint

LEMMA UintSame == \A n \in 0..UintMod - 1 : Uint(n) = n
BY PipeAssumption, SMTT(30) DEF Uint

(* A non-empty set of naturals has a least element.                        *)
LEMMA MinIsLeast ==
  ASSUME NEW S, S \subseteq Nat, S # {}
  PROVE  Min(S) \in S /\ \A y \in S : Min(S) <= y
<1>1. \E R : IsWellFoundedOn(R, Nat) /\ \A x \in Nat, y \in Nat : y < x => <<y, x>> \in R
  <2>1. ASSUME NEW x \in Nat, NEW y \in Nat, y < x
        PROVE  <<y, x>> \in OpToRel(<, Nat)
    <3>1. <<y, x>> \in Nat \X Nat /\ <<y, x>>[1] = y /\ <<y, x>>[2] = x
      OBVIOUS
    <3>. QED BY <3>1, <2>1, Zenon DEF OpToRel
  <2>. WITNESS OpToRel(<, Nat)
  <2>. QED BY <2>1, NatLessThanWellFounded, Zenon
<1>2. PICK R : IsWellFoundedOn(R, Nat) /\ \A x \in Nat, y \in Nat : y < x => <<y, x>> \in R
  BY <1>1
<1>3. PICK x \in S : \A y \in S : ~ (<<y, x>> \in R)
  BY <1>2, WFMin
<1>4. ASSUME NEW y \in S
      PROVE  x <= y
  <2>1. y \in Nat /\ x \in Nat
    OBVIOUS
  <2>2. ~ (y < x)
    BY <2>1, <1>2, <1>3, Zenon
  <2>. QED BY <2>1, <2>2
<1>. QED BY <1>4 DEF Min

(* The writing loop stops at the end of its bytes or at a full ring.       *)
LEMMA RoomStops ==
  ASSUME NEW n \in Nat
  PROVE  /\ Room(n) \in 0..n
         /\ Room(n) = n \/ FullAt(Uint(nwrite + Room(n)))
         /\ FullAt(Uint(nwrite + 0)) => Room(n) = 0
<1>. DEFINE S == {k \in 0..n : k = n \/ FullAt(Uint(nwrite + k))}
<1>1. n \in S /\ S \subseteq Nat
  OBVIOUS
<1>2. Room(n) \in S /\ \A k \in S : Room(n) <= k
  BY <1>1, MinIsLeast DEF Room
<1>. QED BY <1>2

-----------------------------------------------------------------------------
(* The inductive invariant                                                 *)

Reading == {"read", "read_sleep", "asleep_read"}
Writing == {"write", "write_sleep", "asleep_write"}

(* The types, but for those of the bytes.                                  *)
Types ==
  /\ nread \in 0..UintMod - 1 /\ nwrite \in 0..UintMod - 1
  /\ readopen \in BOOLEAN /\ writeopen \in BOOLEAN /\ freed \in BOOLEAN
  /\ ends \in [Procs -> SUBSET {"r", "w"}]
  /\ pc \in [Procs -> Inside \cup {"idle"}]
  /\ todo \in [Procs -> Seq(Bytes)] /\ want \in [Procs -> 0..MaxN]

(* An end is open while a process holds it or is about to close it, the    *)
(* page is freed when no end is open, and who reads or writes holds the    *)
(* end for it.                                                             *)
EndOpen(open, e, c) ==
  /\ open <=> \E p \in Procs : e \in ends[p] \/ pc[p] = c
  /\ \A p \in Procs : pc[p] = c => \A q \in Procs : e \notin ends[q] /\ (pc[q] = c => q = p)
EndsInv ==
  /\ EndOpen(readopen, "r", "close_r") /\ EndOpen(writeopen, "w", "close_w")
  /\ freed <=> ~readopen /\ ~writeopen
  /\ \A p \in Procs : /\ pc[p] \in Reading => "r" \in ends[p]
                      /\ pc[p] \in Writing => "w" \in ends[p]

(* On its way to sleep a process holds the lock, and what it found when it *)
(* looked is still so.                                                     *)
SleepInv ==
  \A p \in Procs :
    /\ pc[p] \in {"write_sleep", "read_sleep"} => lock = p
    /\ pc[p] \in {"write_sleep", "asleep_write"} => FullAt(nwrite) /\ readopen
    /\ pc[p] \in {"read_sleep", "asleep_read"} => writeopen
    /\ pc[p] = "read_sleep" => Empty

PipeInv == Types /\ EndsInv /\ SleepInv

(* A new pipe.                                                             *)
LEMMA InitInv == Init => PipeInv
<1>. SUFFICES ASSUME Init PROVE PipeInv
  OBVIOUS
<1>1. 0 \in 0..UintMod - 1 /\ 0 \in 0..MaxN
  BY Bounds
<1>2. todo \in [Procs -> Seq(Bytes)] /\ want \in [Procs -> 0..MaxN]
  BY <1>1 DEF Init
<1>3. Types
  BY <1>1, <1>2 DEF Init, Types, Inside
<1>4. EndsInv
  BY PipeAssumption DEF Init, EndsInv, EndOpen, Reading, Writing
<1>5. SleepInv
  BY DEF Init, SleepInv
<1>. QED BY <1>3, <1>4, <1>5 DEF PipeInv

(* Every step keeps the types.                                             *)
LEMMA TypesStep ==
  ASSUME PipeInv, [Next]_vars
  PROVE  Types'
<1>1. ASSUME NEW p \in Procs, PipeAlloc(p)
      PROVE  Types'
  <2>1. 0 \in 0..UintMod - 1
    BY Bounds
  <2>. QED BY <1>1, <2>1 DEF PipeAlloc, PipeInv, Types
<1>2. ASSUME NEW p \in Procs, NEW q \in Procs, Fork(p, q)
      PROVE  Types'
  BY <1>2 DEF Fork, PipeInv, Types, pipe
<1>3. ASSUME NEW p \in Procs, NEW s \in Messages, Write(p, s)
      PROVE  Types'
  BY <1>3, PipeAssumption DEF Write, PipeInv, Types, Inside, pipe
<1>4. ASSUME NEW p \in Procs, NEW n \in 1..MaxN, Read(p, n)
      PROVE  Types'
  BY <1>4, PipeAssumption DEF Read, PipeInv, Types, Inside, pipe
<1>5. ASSUME NEW p \in Procs, NEW e \in {"r", "w"}, Close(p, e)
      PROVE  Types'
  BY <1>5 DEF Close, PipeInv, Types, Inside, pipe
<1>6. ASSUME NEW p \in Procs, Kill(p)
      PROVE  Types'
  BY <1>6 DEF Kill, PipeInv, Types, Inside, pipe
<1>7. ASSUME NEW p \in Procs, PipeClose(p)
      PROVE  Types'
  BY <1>7 DEF PipeClose, WakeReaders, WakeWriters, PipeInv, Types, Inside, pipe
<1>8. ASSUME NEW p \in Procs, PipeWrite(p)
      PROVE  Types'
  <2>1. Len(todo[p]) \in Nat /\ todo[p] \in Seq(Bytes)
    BY DEF PipeInv, Types
  <2>2. Room(Len(todo[p])) \in 0..Len(todo[p])
    BY <2>1, RoomStops
  <2>3. SubSeq(todo[p], Room(Len(todo[p])) + 1, Len(todo[p])) \in Seq(Bytes) /\ <<>> \in Seq(Bytes)
    BY <2>1, <2>2
  <2>4. nwrite' \in 0..UintMod - 1
    BY <1>8, <2>2, UintRange DEF PipeWrite, PipeInv, Types
  <2>5. todo' \in [Procs -> Seq(Bytes)]
    BY <1>8, <2>3 DEF PipeWrite, PipeInv, Types
  <2>6. pc' \in [Procs -> Inside \cup {"idle"}]
    BY <1>8 DEF PipeWrite, PipeInv, Types, Inside, WakeReaders
  <2>. QED BY <1>8, <2>4, <2>5, <2>6 DEF PipeWrite, PipeInv, Types
<1>9. ASSUME NEW p \in Procs, PipeRead(p)
      PROVE  Types'
  <2>1. Min({want[p], Count}) \in Nat
    <3>1. want[p] \in 0..MaxN /\ nwrite \in Int /\ nread \in Int
      BY Bounds DEF PipeInv, Types
    <3>2. nwrite - nread \in Int
      BY <3>1
    <3>3. Count \in 0..UintMod - 1
      BY <3>2, UintRange DEF Count
    <3>4. {want[p], Count} \subseteq Nat
      BY <3>1, <3>3, Bounds
    <3>. QED BY <3>4, MinIsLeast
  <2>2. nread' \in 0..UintMod - 1
    <3>1. nread + Min({want[p], Count}) \in Int
      BY <2>1, Bounds DEF PipeInv, Types
    <3>2. Uint(nread + Min({want[p], Count})) \in 0..UintMod - 1
      BY <3>1, UintRange
    <3>. QED BY <1>9, <3>2 DEF PipeRead, PipeInv, Types
  <2>3. pc' \in [Procs -> Inside \cup {"idle"}]
    BY <1>9 DEF PipeRead, PipeInv, Types, Inside, WakeWriters
  <2>4. want' \in [Procs -> 0..MaxN]
    <3>1. 0 \in 0..MaxN
      BY Bounds
    <3>. QED BY <1>9, <3>1 DEF PipeRead, PipeInv, Types
  <2>. QED BY <1>9, <2>2, <2>3, <2>4 DEF PipeRead, PipeInv, Types
<1>10. ASSUME NEW p \in Procs, Sleep(p)
       PROVE  Types'
  BY <1>10 DEF Sleep, PipeInv, Types, Inside, pipe
<1>11. CASE UNCHANGED vars
  BY <1>11 DEF vars, pipe, PipeInv, Types
<1>. QED BY <1>1, <1>2, <1>3, <1>4, <1>5, <1>6, <1>7, <1>8, <1>9, <1>10, <1>11 DEF Next, Kernel

(* Every step keeps the account of the ends.                               *)
LEMMA EndsStep ==
  ASSUME PipeInv, [Next]_vars
  PROVE  EndsInv'
<1>1. ASSUME NEW p \in Procs, PipeAlloc(p)
      PROVE  EndsInv'
  BY <1>1 DEF PipeAlloc, PipeInv, Types, EndsInv, EndOpen, Reading, Writing, Inside, pipe
<1>2. ASSUME NEW p \in Procs, NEW q \in Procs, Fork(p, q)
      PROVE  EndsInv'
  BY <1>2 DEF Fork, PipeInv, Types, EndsInv, EndOpen, Reading, Writing, Inside, pipe
<1>3. ASSUME NEW p \in Procs, NEW s \in Messages, Write(p, s)
      PROVE  EndsInv'
  BY <1>3 DEF Write, PipeInv, Types, EndsInv, EndOpen, Reading, Writing, Inside, pipe
<1>4. ASSUME NEW p \in Procs, NEW n \in 1..MaxN, Read(p, n)
      PROVE  EndsInv'
  BY <1>4 DEF Read, PipeInv, Types, EndsInv, EndOpen, Reading, Writing, Inside, pipe
<1>5. ASSUME NEW p \in Procs, NEW e \in {"r", "w"}, Close(p, e)
      PROVE  EndsInv'
  BY <1>5 DEF Close, PipeInv, Types, EndsInv, EndOpen, Reading, Writing, Inside, pipe
<1>6. ASSUME NEW p \in Procs, Kill(p)
      PROVE  EndsInv'
  BY <1>6 DEF Kill, PipeInv, Types, EndsInv, EndOpen, Reading, Writing, Inside, pipe
<1>7. ASSUME NEW p \in Procs, PipeClose(p)
      PROVE  EndsInv'
  <2>1. \A x \in Procs : pc'[x] = IF x = p THEN "idle"
                                  ELSE IF pc[p] = "close_w" /\ pc[x] = "asleep_read" THEN "read"
                                  ELSE IF pc[p] = "close_r" /\ pc[x] = "asleep_write" THEN "write" ELSE pc[x]
    BY <1>7 DEF PipeClose, PipeInv, Types, WakeReaders, WakeWriters
  <2>2. ends' = ends /\ (freed' <=> ~readopen' /\ ~writeopen')
    BY <1>7 DEF PipeClose
  <2>3. \A x \in Procs : /\ pc'[x] \in Reading => "r" \in ends'[x]
                         /\ pc'[x] \in Writing => "w" \in ends'[x]
    BY <2>1, <2>2 DEF PipeInv, EndsInv, Reading, Writing
  <2>4. CASE pc[p] = "close_r"
    <3>1. readopen' = FALSE /\ writeopen' = writeopen
      BY <1>7, <2>4 DEF PipeClose
    <3>2. \A x \in Procs : (pc'[x] = "close_w" <=> pc[x] = "close_w") /\ pc'[x] # "close_r"
      BY <2>1, <2>4 DEF PipeInv, EndsInv, EndOpen
    <3>3. EndOpen(readopen, "r", "close_r")'
      BY <3>1, <3>2, <2>2, <2>4 DEF PipeInv, EndsInv, EndOpen
    <3>4. EndOpen(writeopen, "w", "close_w")'
      BY <3>1, <3>2, <2>2, <2>4 DEF PipeInv, EndsInv, EndOpen
    <3>. QED BY <3>3, <3>4, <2>2, <2>3 DEF EndsInv
  <2>5. CASE pc[p] = "close_w"
    <3>1. writeopen' = FALSE /\ readopen' = readopen
      BY <1>7, <2>5 DEF PipeClose
    <3>2. \A x \in Procs : (pc'[x] = "close_r" <=> pc[x] = "close_r") /\ pc'[x] # "close_w"
      BY <2>1, <2>5 DEF PipeInv, EndsInv, EndOpen
    <3>3. EndOpen(readopen, "r", "close_r")'
      BY <3>1, <3>2, <2>2, <2>5 DEF PipeInv, EndsInv, EndOpen
    <3>4. EndOpen(writeopen, "w", "close_w")'
      BY <3>1, <3>2, <2>2, <2>5 DEF PipeInv, EndsInv, EndOpen
    <3>. QED BY <3>3, <3>4, <2>2, <2>3 DEF EndsInv
  <2>. QED BY <1>7, <2>4, <2>5 DEF PipeClose
<1>8. ASSUME NEW p \in Procs, PipeWrite(p)
      PROVE  EndsInv'
  BY <1>8 DEF PipeWrite, PipeInv, Types, EndsInv, EndOpen, Reading, Writing, Inside, pipe, WakeReaders
<1>9. ASSUME NEW p \in Procs, PipeRead(p)
      PROVE  EndsInv'
  <2>1. \A x \in Procs : \/ pc'[x] = pc[x]
                         \/ pc[x] = "asleep_write" /\ pc'[x] = "write"
                         \/ pc[x] = "read" /\ pc'[x] \in {"idle", "read_sleep"}
    BY <1>9 DEF PipeRead, PipeInv, Types, WakeWriters
  <2>2. UNCHANGED <<ends, readopen, writeopen, freed>>
    BY <1>9 DEF PipeRead
  <2>. QED BY <2>1, <2>2 DEF PipeInv, EndsInv, EndOpen, Reading, Writing
<1>10. ASSUME NEW p \in Procs, Sleep(p)
       PROVE  EndsInv'
  BY <1>10 DEF Sleep, PipeInv, Types, EndsInv, EndOpen, Reading, Writing, Inside, pipe
<1>11. CASE UNCHANGED vars
  BY <1>11 DEF vars, pipe, PipeInv, EndsInv, EndOpen
<1>. QED BY <1>1, <1>2, <1>3, <1>4, <1>5, <1>6, <1>7, <1>8, <1>9, <1>10, <1>11 DEF Next, Kernel

(* While the lock is free, nobody is between the look and the sleep.       *)
LEMMA NobodyBetween ==
  ASSUME PipeInv, lock = Free
  PROVE  \A x \in Procs : pc[x] \notin {"write_sleep", "read_sleep"}
BY PipeAssumption DEF PipeInv, SleepInv, Free

(* Every step keeps what sleepers rely on.                                 *)
LEMMA SleepStep ==
  ASSUME PipeInv, [Next]_vars
  PROVE  SleepInv'
<1>1. ASSUME NEW p \in Procs, PipeAlloc(p)
      PROVE  SleepInv'
  BY <1>1 DEF PipeAlloc, PipeInv, Types, EndsInv, EndOpen, SleepInv, Reading, Writing, Inside, FullAt, Empty, pipe
<1>2. ASSUME NEW p \in Procs, NEW q \in Procs, Fork(p, q)
      PROVE  SleepInv'
  BY <1>2 DEF Fork, PipeInv, Types, EndsInv, EndOpen, SleepInv, Reading, Writing, Inside, FullAt, Empty, pipe
<1>3. ASSUME NEW p \in Procs, NEW s \in Messages, Write(p, s)
      PROVE  SleepInv'
  BY <1>3 DEF Write, PipeInv, Types, EndsInv, EndOpen, SleepInv, Reading, Writing, Inside, FullAt, Empty, pipe
<1>4. ASSUME NEW p \in Procs, NEW n \in 1..MaxN, Read(p, n)
      PROVE  SleepInv'
  BY <1>4 DEF Read, PipeInv, Types, EndsInv, EndOpen, SleepInv, Reading, Writing, Inside, FullAt, Empty, pipe
<1>5. ASSUME NEW p \in Procs, NEW e \in {"r", "w"}, Close(p, e)
      PROVE  SleepInv'
  BY <1>5 DEF Close, PipeInv, Types, EndsInv, EndOpen, SleepInv, Reading, Writing, Inside, FullAt, Empty, pipe
<1>6. ASSUME NEW p \in Procs, Kill(p)
      PROVE  SleepInv'
  BY <1>6 DEF Kill, PipeInv, Types, EndsInv, EndOpen, SleepInv, Reading, Writing, Inside, FullAt, Empty, pipe
<1>7. ASSUME NEW p \in Procs, PipeClose(p)
      PROVE  SleepInv'
  <2>1. \A x \in Procs : pc'[x] = IF x = p THEN "idle"
                                  ELSE IF pc[p] = "close_w" /\ pc[x] = "asleep_read" THEN "read"
                                  ELSE IF pc[p] = "close_r" /\ pc[x] = "asleep_write" THEN "write" ELSE pc[x]
    BY <1>7 DEF PipeClose, PipeInv, Types, WakeReaders, WakeWriters
  <2>2. \A x \in Procs : pc[x] \notin {"write_sleep", "read_sleep"}
    BY <1>7, NobodyBetween DEF PipeClose
  <2>3. /\ UNCHANGED <<nread, nwrite>>
        /\ pc[p] = "close_w" => readopen' = readopen
        /\ pc[p] = "close_r" => writeopen' = writeopen
        /\ pc[p] \in {"close_r", "close_w"}
    BY <1>7 DEF PipeClose
  <2>. QED BY <2>1, <2>2, <2>3 DEF PipeInv, SleepInv, FullAt, Empty
<1>8. ASSUME NEW p \in Procs, PipeWrite(p)
      PROVE  SleepInv'
  <2>. DEFINE n == Len(todo[p])
              k == Room(n)
  <2>1. \A x \in Procs : pc[x] \notin {"write_sleep", "read_sleep"}
    BY <1>8, NobodyBetween DEF PipeWrite
  <2>2. n \in Nat /\ nwrite \in 0..UintMod - 1
    BY DEF PipeInv, Types
  <2>3. k \in 0..n /\ (k = n \/ FullAt(Uint(nwrite + k))) /\ (FullAt(Uint(nwrite + 0)) => k = 0)
    BY <2>2, RoomStops
  <2>4. nwrite' = Uint(nwrite + k) /\ UNCHANGED <<nread, readopen, writeopen>>
    BY <1>8 DEF PipeWrite
  <2>5. FullAt(nwrite) => nwrite' = nwrite
    <3>1. nwrite + 0 = nwrite /\ Uint(nwrite) = nwrite
      BY <2>2, UintSame, Bounds
    <3>. QED BY <3>1, <2>3, <2>4
  <2>6. \A x \in Procs \ {p} : pc'[x] = pc[x] \/ pc'[x] = "read"
    BY <1>8 DEF PipeWrite, PipeInv, Types, WakeReaders
  <2>7. pc'[p] = "idle" \/ (pc'[p] = "write_sleep" /\ lock' = p /\ k < n /\ readopen)
    BY <1>8 DEF PipeWrite, PipeInv, Types, WakeReaders, GivesUp
  <2>8. k < n => FullAt(nwrite)'
    BY <2>2, <2>3, <2>4 DEF FullAt
  <2>9. FullAt(nwrite) => FullAt(nwrite)'
    BY <2>4, <2>5 DEF FullAt
  <2>. HIDE DEF n, k
  <2>. QED BY <2>1, <2>4, <2>6, <2>7, <2>8, <2>9 DEF PipeInv, SleepInv
<1>9. ASSUME NEW p \in Procs, PipeRead(p)
      PROVE  SleepInv'
  <2>1. \A x \in Procs : pc[x] \notin {"write_sleep", "read_sleep"}
    BY <1>9, NobodyBetween DEF PipeRead
  <2>2. UNCHANGED <<nwrite, readopen, writeopen>>
    BY <1>9 DEF PipeRead
  <2>3. CASE Empty /\ writeopen
    <3>1. nread' = nread /\ (\A x \in Procs \ {p} : pc'[x] = pc[x])
      BY <1>9, <2>3 DEF PipeRead, PipeInv, Types
    <3>2. pc'[p] = "idle" \/ (pc'[p] = "read_sleep" /\ lock' = p)
      BY <1>9, <2>3 DEF PipeRead, PipeInv, Types
    <3>. QED BY <3>1, <3>2, <2>1, <2>2, <2>3 DEF PipeInv, SleepInv, FullAt, Empty
  <2>4. CASE ~(Empty /\ writeopen)
    <3>1. \A x \in Procs : pc'[x] = IF x = p THEN "idle" ELSE IF pc[x] = "asleep_write" THEN "write" ELSE pc[x]
      BY <1>9, <2>4 DEF PipeRead, PipeInv, Types, WakeWriters
    <3>. QED BY <3>1, <2>1, <2>2 DEF PipeInv, SleepInv
  <2>. QED BY <2>3, <2>4
<1>10. ASSUME NEW p \in Procs, Sleep(p)
       PROVE  SleepInv'
  BY <1>10 DEF Sleep, PipeInv, Types, EndsInv, EndOpen, SleepInv, Reading, Writing, Inside, FullAt, Empty, pipe
<1>11. CASE UNCHANGED vars
  BY <1>11 DEF vars, pipe, PipeInv, SleepInv, FullAt, Empty
<1>. QED BY <1>1, <1>2, <1>3, <1>4, <1>5, <1>6, <1>7, <1>8, <1>9, <1>10, <1>11 DEF Next, Kernel

(* A step that leaves a reader asleep beside bytes is a killed writer's    *)
(* return.                                                                 *)
LEMMA ReaderStep ==
  ASSUME PipeInv, Next, NEW x \in Procs, LeftAsleep(x)', ~LeftAsleep(x)
  PROVE  KilledWriterReturns
<1>1. ASSUME NEW p \in Procs, PipeAlloc(p)
      PROVE  KilledWriterReturns
  BY <1>1 DEF PipeAlloc, LeftAsleep, Empty
<1>2. ASSUME NEW p \in Procs, NEW q \in Procs, Fork(p, q)
      PROVE  KilledWriterReturns
  BY <1>2 DEF Fork, LeftAsleep, Empty, pipe
<1>3. ASSUME NEW p \in Procs, NEW s \in Messages, Write(p, s)
      PROVE  KilledWriterReturns
  BY <1>3 DEF Write, LeftAsleep, Empty, pipe, PipeInv, Types
<1>4. ASSUME NEW p \in Procs, NEW n \in 1..MaxN, Read(p, n)
      PROVE  KilledWriterReturns
  BY <1>4 DEF Read, LeftAsleep, Empty, pipe, PipeInv, Types
<1>5. ASSUME NEW p \in Procs, NEW e \in {"r", "w"}, Close(p, e)
      PROVE  KilledWriterReturns
  BY <1>5 DEF Close, LeftAsleep, Empty, pipe, PipeInv, Types
<1>6. ASSUME NEW p \in Procs, Kill(p)
      PROVE  KilledWriterReturns
  BY <1>6 DEF Kill, LeftAsleep, Empty, pipe, PipeInv, Types
<1>7. ASSUME NEW p \in Procs, PipeClose(p)
      PROVE  KilledWriterReturns
  BY <1>7 DEF PipeClose, WakeReaders, WakeWriters, LeftAsleep, Empty, PipeInv, Types
<1>8. ASSUME NEW p \in Procs, PipeWrite(p)
      PROVE  KilledWriterReturns
  <2>1. x # p /\ pc[p] = "write" /\ pc'[p] = "idle" /\ pc[x] = "asleep_read" /\ GivesUp(p)
    BY <1>8 DEF PipeWrite, WakeReaders, LeftAsleep, PipeInv, Types
  <2>2. readopen
    BY <2>1 DEF PipeInv, EndsInv, EndOpen, Reading
  <2>. QED BY <2>1, <2>2 DEF GivesUp, KilledWriterReturns
<1>9. ASSUME NEW p \in Procs, PipeRead(p)
      PROVE  KilledWriterReturns
  <2>1. pc[x] = "asleep_read" /\ nwrite' = nwrite
    BY <1>9 DEF PipeRead, WakeWriters, LeftAsleep, PipeInv, Types
  <2>2. Empty /\ writeopen
    BY <2>1 DEF LeftAsleep, PipeInv, SleepInv
  <2>. QED BY <1>9, <2>1, <2>2 DEF PipeRead, LeftAsleep, Empty
<1>10. ASSUME NEW p \in Procs, Sleep(p)
       PROVE  KilledWriterReturns
  BY <1>10 DEF Sleep, LeftAsleep, Empty, pipe, PipeInv, Types, SleepInv
<1>. QED BY <1>1, <1>2, <1>3, <1>4, <1>5, <1>6, <1>7, <1>8, <1>9, <1>10 DEF Next, Kernel

-----------------------------------------------------------------------------
(* Theorems                                                                *)

(* The invariant of pipe.c.                                                *)
THEOREM PipeInvariant == Spec => []PipeInv
<1>1. PipeInv /\ [Next]_vars => PipeInv'
  BY TypesStep, EndsStep, SleepStep DEF PipeInv
<1>. QED BY <1>1, InitInv, PTL DEF Spec

(* The page of a pipe is freed when no process holds an end of it, reads,  *)
(* writes, sleeps or closes (pipeclose): nobody uses a freed page.         *)
THEOREM FreedNeverUsed == Spec => []FreedIsUnused
<1>1. PipeInv => FreedIsUnused
  BY ZenonT(30) DEF PipeInv, Types, EndsInv, EndOpen, FreedIsUnused, Reading, Writing, Inside
<1>. QED BY <1>1, PipeInvariant, PTL

(* A writer sleeps only while the ring is full and the read end is open    *)
(* (pipewrite, sleep): no wakeup is lost.                                  *)
THEOREM WriterNeverForgotten == Spec => []WriterSleepsOnFull
<1>1. PipeInv => WriterSleepsOnFull
  BY DEF PipeInv, SleepInv, WriterSleepsOnFull
<1>. QED BY <1>1, PipeInvariant, PTL

(* A reader falls asleep only on an empty pipe with a writer, and bytes it *)
(* is not told of come only from a killed writer (pipewrite's early        *)
(* return): no other step leaves a reader asleep beside bytes.             *)
THEOREM ReaderForgottenOnlyByKilled == Spec => ReaderSleepsOnEmpty
<1>1. PipeInv /\ PipeInv' /\ [Next]_vars =>
      [\A p \in Procs : /\ pc'[p] = "asleep_read" => writeopen'
                        /\ LeftAsleep(p)' /\ ~LeftAsleep(p) => KilledWriterReturns]_vars
  BY ReaderStep DEF PipeInv, SleepInv
<1>. QED BY <1>1, PipeInvariant, PTL DEF Spec, ReaderSleepsOnEmpty

=============================================================================
