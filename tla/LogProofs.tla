------------------------------ MODULE LogProofs ------------------------------
(***************************************************************************)
(* log.c implements a disk of atomic transactions, except for those that   *)
(* run over the end of the log, and how far they can run is bounded, for   *)
(* any number of processes, blocks and log slots, and however many blocks  *)
(* an operation writes.                                                    *)
(***************************************************************************)
EXTENDS Log, FiniteSetTheorems, SequenceTheorems, TLAPS

-----------------------------------------------------------------------------
(* What recovery finds                                                     *)

(* A block named by the header comes from the log, any other from home.    *)
LEMMA RecoveredAt ==
  ASSUME NEW h \in Seq(Blocks), IsInjective(h), NEW lb, NEW hm
  PROVE  /\ \A i \in 1..Len(h) : RecoveredFrom(h, lb, hm)[h[i]] = lb[i]
         /\ \A b \in Blocks \ Range(h) : RecoveredFrom(h, lb, hm)[b] = hm[b]
<1>1. DOMAIN h = 1..Len(h)
  OBVIOUS
<1>2. ASSUME NEW i \in 1..Len(h)
      PROVE  RecoveredFrom(h, lb, hm)[h[i]] = lb[i]
  <2>1. h[i] \in Blocks /\ h[i] \in Range(h)
    BY <1>1 DEF Range
  <2>2. (CHOOSE j \in 1..Len(h) : h[j] = h[i]) = i
    BY <1>1 DEF IsInjective
  <2>. QED BY <2>1, <2>2 DEF RecoveredFrom
<1>3. \A b \in Blocks \ Range(h) : RecoveredFrom(h, lb, hm)[b] = hm[b]
  BY DEF RecoveredFrom
<1>. QED BY <1>2, <1>3

(* Every block is on the header or not.                                    *)
LEMMA RecoveredIs ==
  ASSUME NEW h \in Seq(Blocks), IsInjective(h), NEW lb, NEW hm, NEW c \in [Blocks -> Vals],
         \A i \in 1..Len(h) : c[h[i]] = lb[i],
         \A b \in Blocks \ Range(h) : c[b] = hm[b]
  PROVE  RecoveredFrom(h, lb, hm) = c
<1>. DEFINE r == RecoveredFrom(h, lb, hm)
<1>1. r = [b \in Blocks |-> r[b]] /\ c = [b \in Blocks |-> c[b]]
  BY DEF RecoveredFrom
<1>2. \A i \in 1..Len(h) : r[h[i]] = lb[i]
  BY RecoveredAt
<1>3. \A b \in Blocks \ Range(h) : r[b] = hm[b]
  BY RecoveredAt
<1>. HIDE DEF r
<1>4. ASSUME NEW b \in Blocks
      PROVE  r[b] = c[b]
  <2>1. CASE b \in Range(h)
    <3>1. PICK i \in DOMAIN h : h[i] = b
      BY <2>1 DEF Range
    <3>2. i \in 1..Len(h)
      OBVIOUS
    <3>. QED BY <3>1, <3>2, <1>2
  <2>2. CASE b \notin Range(h)
    BY <2>2, <1>3
  <2>. QED BY <2>1, <2>2
<1>5. r = c
  BY <1>1, <1>4
<1>. QED BY <1>5 DEF r

(* An empty header: the home blocks.                                       *)
LEMMA RecoveredEmpty ==
  ASSUME NEW lb, NEW hm \in [Blocks -> Vals]
  PROVE  RecoveredFrom(<<>>, lb, hm) = hm
<1>1. Range(<<>>) = {}
  BY DEF Range
<1>. QED BY <1>1 DEF RecoveredFrom

(* Installing a logged block changes nothing.                              *)
LEMMA RecoveredInstall ==
  ASSUME NEW h \in Seq(Blocks), IsInjective(h), NEW lb, \A i \in 1..Len(h) : lb[i] \in Vals,
         NEW hm \in [Blocks -> Vals], NEW j \in 1..Len(h)
  PROVE  RecoveredFrom(h, lb, [hm EXCEPT ![h[j]] = lb[j]]) = RecoveredFrom(h, lb, hm)
<1>. DEFINE r == RecoveredFrom(h, lb, hm)
            hm2 == [hm EXCEPT ![h[j]] = lb[j]]
<1>1. DOMAIN h = 1..Len(h) /\ h[j] \in Range(h) /\ Len(h) \in Nat
  BY DEF Range
<1>2. \A i \in 1..Len(h) : r[h[i]] = lb[i]
  BY RecoveredAt
<1>3. \A b \in Blocks \ Range(h) : r[b] = hm2[b]
  BY <1>1, RecoveredAt
<1>4. r \in [Blocks -> Vals]
  <2>1. ASSUME NEW b \in Blocks PROVE r[b] \in Vals
    <3>1. CASE b \in Range(h)
      <4>1. PICK i \in DOMAIN h : h[i] = b
        BY <3>1 DEF Range
      <4>2. i \in 1..Len(h)
        BY <1>1
      <4>. QED BY <4>1, <4>2, <1>2
    <3>2. CASE b \notin Range(h)
      BY <3>2, RecoveredAt
    <3>. QED BY <3>1, <3>2
  <2>. QED BY <2>1 DEF RecoveredFrom
<1>. HIDE DEF r, hm2
<1>5. RecoveredFrom(h, lb, hm2) = r
  BY <1>2, <1>3, <1>4, RecoveredIs
<1>. QED BY <1>5 DEF r, hm2

-----------------------------------------------------------------------------
(* Counting operations and log space                                       *)

(* What the invariant says of the numbers involved.                        *)
LEMMA Counts ==
  ASSUME LInv
  PROVE  /\ IsFiniteSet(Active) /\ outstanding = Cardinality(Active) /\ outstanding \in Nat
         /\ outstanding = 0 <=> Active = {}
         /\ IsFiniteSet(Unused) /\ Cardinality(Unused) \in Nat
         /\ Cardinality(Unused) <= outstanding * MAXOPBLOCKS
         /\ Len(lh) \in Nat /\ Len(hdr) \in Nat
         /\ \A p \in Active : up /\ ~committing /\ cph = "none" /\ outstanding > 0
<1>1. IsFiniteSet(Active)
  BY FS_Subset, LogAssumption DEF Active
<1>2. outstanding = Cardinality(Active) /\ outstanding \in Nat
  BY DEF LInv, OpsCounted, TypeOK
<1>3. outstanding = 0 <=> Active = {}
  BY <1>1, <1>2, FS_EmptySet
<1>4. IsFiniteSet(1..MAXOPBLOCKS) /\ Cardinality(1..MAXOPBLOCKS) = MAXOPBLOCKS
  BY FS_Interval, LogAssumption
<1>5. /\ IsFiniteSet(Active \X (1..MAXOPBLOCKS))
      /\ Cardinality(Active \X (1..MAXOPBLOCKS)) = outstanding * MAXOPBLOCKS
  BY <1>1, <1>2, <1>4, FS_Product
<1>6. Unused \subseteq Active \X (1..MAXOPBLOCKS)
  BY DEF Unused
<1>7. IsFiniteSet(Unused) /\ Cardinality(Unused) <= outstanding * MAXOPBLOCKS
  BY <1>5, <1>6, FS_Subset
<1>8. Cardinality(Unused) \in Nat
  BY <1>7, FS_CardinalityType
<1>9. Len(lh) \in Nat /\ Len(hdr) \in Nat
  BY DEF LInv, TypeOK
<1>10. \A p \in Active : up /\ ~committing /\ cph = "none" /\ outstanding > 0
  <2>1. ASSUME NEW p \in Active PROVE up /\ ~committing /\ cph = "none"
    BY DEF LInv, Journal
  <2>2. Active # {} => outstanding > 0
    BY <1>2, <1>3
  <2>. QED BY <2>1, <2>2
<1>. QED BY <1>1, <1>2, <1>3, <1>7, <1>8, <1>9, <1>10

(* A step that leaves the operations and the log alone.                    *)
LEMMA CountedSame ==
  ASSUME LInv, UNCHANGED <<outstanding, buf, wrote, overdrawn, lh>>, hdr' \in {hdr, lh},
         \A p \in Procs : opc'[p] # opc[p] => {opc[p], opc'[p]} \cap {"op", "write"} = {}
  PROVE  OpsCounted' /\ SpaceReserved' /\ Active' = Active
<1>1. \A p \in Procs : /\ opc'[p] \in {"op", "write"} <=> opc[p] \in {"op", "write"}
                       /\ opc'[p] = "write" <=> opc[p] = "write"
  OBVIOUS
<1>2. Active' = Active
  BY <1>1 DEF Active
<1>3. Unused' = Unused
  BY <1>2 DEF Unused
<1>4. OpsCounted'
  BY <1>1, <1>2 DEF LInv, OpsCounted, Active
<1>5. SpaceReserved'
  <2>1. CASE hdr' = hdr
    BY <2>1, <1>3 DEF LInv, SpaceReserved
  <2>2. CASE hdr' = lh
    <3>1. Len(lh) \in Nat /\ Cardinality(Unused) \in Nat /\ LOGSIZE \in Nat
      BY Counts, LogAssumption
    <3>. QED BY <3>1, <2>2, <1>3 DEF LInv, SpaceReserved
  <2>. QED BY <2>1, <2>2
<1>. QED BY <1>2, <1>4, <1>5

(* A step after which no operation is under way.                           *)
LEMMA CountedNone ==
  ASSUME outstanding' = 0, \A p \in Procs : opc'[p] \notin {"op", "write"} /\ buf'[p] = NoBlock,
         ~overdrawn' => Len(lh') <= LOGSIZE /\ Len(hdr') <= LOGSIZE, Len(lh') \in Nat
  PROVE  OpsCounted' /\ SpaceReserved' /\ Active' = {}
<1>1. Active' = {}
  BY DEF Active
<1>2. Unused' = {}
  BY <1>1 DEF Unused
<1>3. Cardinality({}) = 0
  BY FS_EmptySet
<1>4. OpsCounted'
  BY <1>1, <1>3 DEF OpsCounted, Active
<1>5. SpaceReserved'
  BY <1>2, <1>3 DEF SpaceReserved
<1>. QED BY <1>1, <1>4, <1>5

(* begin_op: the reservation is what the new operation may log.            *)
LEMMA BeginOpCounted ==
  ASSUME LInv, NEW p \in Procs, BeginOp(p)
  PROVE  OpsCounted' /\ SpaceReserved' /\ Active' = Active \cup {p}
<1>1. opc \in [Procs -> {"idle", "begin", "sleep", "op", "write", "commit"}]
      /\ wrote \in [Procs -> SUBSET Blocks]
  BY DEF LInv, TypeOK
<1>2. /\ opc[p] = "begin" /\ outstanding' = outstanding + 1 /\ lh' = lh /\ buf' = buf
      /\ hdr' = hdr /\ overdrawn' = overdrawn
      /\ opc' = [opc EXCEPT ![p] = "op"] /\ wrote' = [wrote EXCEPT ![p] = {}]
      /\ Len(lh) + (outstanding + 1) * MAXOPBLOCKS <= LOGSIZE
  BY DEF BeginOp, Reserved, disk
<1>3. Active' = Active \cup {p} /\ p \notin Active
  BY <1>1, <1>2 DEF Active
<1>4. IsFiniteSet(Active) /\ outstanding = Cardinality(Active) /\ outstanding \in Nat /\ Len(lh) \in Nat
  BY Counts
<1>5. IsFiniteSet(Active') /\ Cardinality(Active') = outstanding + 1
  BY <1>3, <1>4, FS_AddElement
<1>6. /\ IsFiniteSet(Active' \X (1..MAXOPBLOCKS))
      /\ Cardinality(Active' \X (1..MAXOPBLOCKS)) = (outstanding + 1) * MAXOPBLOCKS
  <2>1. IsFiniteSet(1..MAXOPBLOCKS) /\ Cardinality(1..MAXOPBLOCKS) = MAXOPBLOCKS
    BY FS_Interval, LogAssumption
  <2>2. /\ IsFiniteSet(Active' \X (1..MAXOPBLOCKS))
        /\ Cardinality(Active' \X (1..MAXOPBLOCKS)) = Cardinality(Active') * Cardinality(1..MAXOPBLOCKS)
    BY <1>5, <2>1, FS_Product, Zenon
  <2>. QED BY <1>5, <2>1, <2>2, Zenon
<1>7. Unused' \subseteq Active' \X (1..MAXOPBLOCKS)
  BY DEF Unused
<1>8. Cardinality(Unused') <= (outstanding + 1) * MAXOPBLOCKS /\ Cardinality(Unused') \in Nat
  BY <1>6, <1>7, FS_Subset, FS_CardinalityType
<1>9. SpaceReserved'
  <2>1. (outstanding + 1) * MAXOPBLOCKS \in Nat /\ LOGSIZE \in Nat
    BY <1>4, LogAssumption
  <2>. QED BY <1>2, <1>4, <1>8, <2>1 DEF LInv, SpaceReserved
<1>10. OpsCounted'
  <2>1. outstanding' = Cardinality(Active')
    BY <1>2, <1>5
  <2>2. \A q \in Procs : buf'[q] # NoBlock <=> opc'[q] = "write"
    BY <1>1, <1>2 DEF LInv, OpsCounted
  <2>3. ASSUME NEW q \in Active'
        PROVE  /\ IsFiniteSet(wrote'[q])
               /\ ~overdrawn' => Cardinality(wrote'[q]) <= MAXOPBLOCKS
               /\ wrote'[q] \subseteq Range(lh') \cup {buf'[q]}
               /\ opc'[q] = "write" => buf'[q] \in wrote'[q]
    <3>1. CASE q = p
      <4>1. wrote'[q] = {} /\ opc'[q] = "op"
        BY <3>1, <1>1, <1>2
      <4>. QED BY <4>1, FS_EmptySet, LogAssumption
    <3>2. CASE q # p
      <4>1. q \in Active /\ wrote'[q] = wrote[q] /\ opc'[q] = opc[q] /\ buf'[q] = buf[q]
        BY <3>2, <1>1, <1>2, <1>3 DEF Active
      <4>. QED BY <4>1, <1>2 DEF LInv, OpsCounted
    <3>. QED BY <3>1, <3>2
  <2>. QED BY <2>1, <2>2, <2>3 DEF OpsCounted
<1>. QED BY <1>3, <1>9, <1>10

(* Changing a block uses no space before it is logged.                     *)
LEMMA ModifyCounted ==
  ASSUME LInv, NEW p \in Procs, NEW b \in Blocks, NEW v \in Vals, Modify(p, b, v)
  PROVE  OpsCounted' /\ SpaceReserved' /\ Active' = Active
<1>1. /\ opc \in [Procs -> {"idle", "begin", "sleep", "op", "write", "commit"}]
      /\ wrote \in [Procs -> SUBSET Blocks] /\ buf \in [Procs -> Blocks \cup {NoBlock}]
      /\ NoBlock \notin Blocks
  BY LogAssumption DEF LInv, TypeOK
<1>2. /\ opc[p] = "op" /\ outstanding' = outstanding /\ lh' = lh /\ hdr' = hdr
      /\ opc' = [opc EXCEPT ![p] = "write"] /\ buf' = [buf EXCEPT ![p] = b]
      /\ wrote' = [wrote EXCEPT ![p] = @ \cup {b}]
      /\ ~overdrawn' => ~overdrawn /\ ~(Cardinality(wrote[p] \cup {b}) > MAXOPBLOCKS)
  BY Zenon DEF Modify, disk
<1>3. Active' = Active /\ p \in Active
  BY <1>1, <1>2 DEF Active
<1>4. \A q \in Active : IsFiniteSet(wrote[q]) /\ wrote[q] \subseteq Range(lh) \cup {buf[q]}
  BY DEF LInv, OpsCounted
<1>5. /\ wrote'[p] = wrote[p] \cup {b} /\ IsFiniteSet(wrote'[p])
      /\ ~overdrawn' => Cardinality(wrote'[p]) <= MAXOPBLOCKS
  <2>1. wrote'[p] = wrote[p] \cup {b} /\ IsFiniteSet(wrote'[p])
    BY <1>1, <1>2, <1>3, <1>4, FS_AddElement
  <2>2. Cardinality(wrote'[p]) \in Nat
    BY <2>1, FS_CardinalityType
  <2>. QED BY <2>1, <2>2, <1>2, LogAssumption
<1>6. wrote[p] \subseteq Range(lh)
  <2>1. buf[p] = NoBlock
    BY <1>2 DEF LInv, OpsCounted
  <2>. QED BY <2>1, <1>1, <1>3, <1>4
<1>7. OpsCounted'
  <2>1. outstanding' = Cardinality(Active')
    BY <1>2, <1>3 DEF LInv, OpsCounted
  <2>2. \A q \in Procs : buf'[q] # NoBlock <=> opc'[q] = "write"
    BY <1>1, <1>2 DEF LInv, OpsCounted
  <2>3. ASSUME NEW q \in Active'
        PROVE  /\ IsFiniteSet(wrote'[q])
               /\ ~overdrawn' => Cardinality(wrote'[q]) <= MAXOPBLOCKS
               /\ wrote'[q] \subseteq Range(lh') \cup {buf'[q]}
               /\ opc'[q] = "write" => buf'[q] \in wrote'[q]
    <3>1. CASE q = p
      <4>1. buf'[q] = b /\ lh' = lh
        BY <3>1, <1>1, <1>2
      <4>. QED BY <4>1, <3>1, <1>5, <1>6
    <3>2. CASE q # p
      <4>1. q \in Active /\ wrote'[q] = wrote[q] /\ opc'[q] = opc[q] /\ buf'[q] = buf[q]
        BY <3>2, <1>1, <1>2, <1>3 DEF Active
      <4>. QED BY <4>1, <1>2 DEF LInv, OpsCounted
    <3>. QED BY <3>1, <3>2
  <2>. QED BY <2>1, <2>2, <2>3 DEF OpsCounted
<1>8. Unused' \subseteq Unused
  <2>1. ASSUME NEW q \in Active
        PROVE  /\ Cardinality(wrote'[q] \cap Range(lh')) \in Nat
               /\ Cardinality(wrote[q] \cap Range(lh)) \in Nat
               /\ Cardinality(wrote[q] \cap Range(lh)) <= Cardinality(wrote'[q] \cap Range(lh'))
    <3>1. IsFiniteSet(wrote'[q]) /\ wrote[q] \subseteq wrote'[q]
      BY <1>1, <1>2, <1>4, <1>5 DEF Active
    <3>2. IsFiniteSet(wrote'[q] \cap Range(lh'))
      BY <3>1, FS_Subset
    <3>3. wrote[q] \cap Range(lh) \subseteq wrote'[q] \cap Range(lh')
      BY <3>1, <1>2
    <3>. QED BY <3>2, <3>3, FS_Subset, FS_CardinalityType
  <2>2. SUFFICES ASSUME NEW u \in Unused' PROVE u \in Unused
    OBVIOUS
  <2>3. u \in Active \X (1..MAXOPBLOCKS) /\ u[2] > Cardinality(wrote'[u[1]] \cap Range(lh'))
    BY <1>3 DEF Unused
  <2>4. u[1] \in Active /\ u[2] \in Nat
    BY <2>3
  <2>5. u[2] > Cardinality(wrote[u[1]] \cap Range(lh))
    BY <2>3, <2>4, <2>1, SMTT(30)
  <2>. QED BY <2>3, <2>5 DEF Unused
<1>9. SpaceReserved'
  <2>1. Cardinality(Unused') <= Cardinality(Unused) /\ Cardinality(Unused') \in Nat
    BY <1>8, Counts, FS_Subset, FS_CardinalityType
  <2>2. Cardinality(Unused) \in Nat /\ Len(lh) \in Nat /\ LOGSIZE \in Nat
    BY Counts, LogAssumption
  <2>. QED BY <2>1, <2>2, <1>2 DEF LInv, SpaceReserved
<1>. QED BY <1>3, <1>7, <1>9

(* log_write: a block that is new in the log uses one place of those the   *)
(* operation reserved, unless it has written more than it reserved.        *)
LEMMA LogWriteCounted ==
  ASSUME LInv, NEW p \in Procs, LogWrite(p)
  PROVE  OpsCounted' /\ SpaceReserved' /\ Active' = Active
<1> DEFINE b == buf[p]
<1>1. /\ opc \in [Procs -> {"idle", "begin", "sleep", "op", "write", "commit"}]
      /\ wrote \in [Procs -> SUBSET Blocks] /\ buf \in [Procs -> Blocks \cup {NoBlock}]
      /\ NoBlock \notin Blocks /\ lh \in Seq(Blocks)
      /\ LOGSIZE \in Nat /\ MAXOPBLOCKS \in Nat
  BY LogAssumption DEF LInv, TypeOK
<1>2. /\ opc[p] = "write" /\ outstanding' = outstanding /\ lh' = Logged(b)
      /\ opc' = [opc EXCEPT ![p] = "op"] /\ buf' = [buf EXCEPT ![p] = NoBlock]
      /\ wrote' = wrote /\ overdrawn' = overdrawn /\ hdr' = hdr
  BY DEF LogWrite, disk
<1>3. Active' = Active /\ p \in Active
  BY <1>1, <1>2 DEF Active
<1>4. \A q \in Active : /\ IsFiniteSet(wrote[q])
                        /\ ~overdrawn => Cardinality(wrote[q]) <= MAXOPBLOCKS
                        /\ wrote[q] \subseteq Range(lh) \cup {buf[q]}
  BY DEF LInv, OpsCounted
<1>5. b \in wrote[p] /\ b \in Blocks
  BY <1>1, <1>2, <1>3 DEF LInv, OpsCounted
<1>6. Range(lh') = Range(lh) \cup {b}
  <2>1. CASE b \in Range(lh)
    BY <2>1, <1>2 DEF Logged
  <2>2. CASE b \notin Range(lh)
    <3>1. lh' = Append(lh, b) /\ lh \in Seq(Blocks) /\ b \in Blocks
      BY <2>2, <1>1, <1>2, <1>5 DEF Logged
    <3>. QED BY <3>1 DEF Range
  <2>. QED BY <2>1, <2>2
<1>7. OpsCounted'
  <2>1. outstanding' = Cardinality(Active')
    BY <1>2, <1>3 DEF LInv, OpsCounted
  <2>2. \A q \in Procs : buf'[q] # NoBlock <=> opc'[q] = "write"
    BY <1>1, <1>2 DEF LInv, OpsCounted
  <2>3. ASSUME NEW q \in Active'
        PROVE  /\ IsFiniteSet(wrote'[q])
               /\ ~overdrawn' => Cardinality(wrote'[q]) <= MAXOPBLOCKS
               /\ wrote'[q] \subseteq Range(lh') \cup {buf'[q]}
               /\ opc'[q] = "write" => buf'[q] \in wrote'[q]
    <3>1. CASE q = p
      <4>1. opc'[q] = "op" /\ wrote'[q] = wrote[p] /\ wrote[p] \subseteq Range(lh) \cup {b}
        BY <3>1, <1>1, <1>2, <1>3, <1>4
      <4>. QED BY <4>1, <3>1, <1>2, <1>3, <1>4, <1>6
    <3>2. CASE q # p
      <4>1. q \in Active /\ wrote'[q] = wrote[q] /\ opc'[q] = opc[q] /\ buf'[q] = buf[q]
        BY <3>2, <1>1, <1>2, <1>3 DEF Active
      <4>2. opc[q] = "write" => buf[q] \in wrote[q]
        BY <4>1 DEF LInv, OpsCounted
      <4>. QED BY <4>1, <4>2, <1>2, <1>4, <1>6
    <3>. QED BY <3>1, <3>2
  <2>. QED BY <2>1, <2>2, <2>3 DEF OpsCounted
<1>8. ASSUME NEW q \in Active
      PROVE  /\ Cardinality(wrote'[q] \cap Range(lh')) \in Nat
             /\ Cardinality(wrote[q] \cap Range(lh)) \in Nat
             /\ Cardinality(wrote[q] \cap Range(lh)) <= Cardinality(wrote'[q] \cap Range(lh'))
  <2>1. IsFiniteSet(wrote[q]) /\ wrote' = wrote
    BY <1>2, <1>4
  <2>2. IsFiniteSet(wrote'[q] \cap Range(lh'))
    BY <2>1, FS_Subset
  <2>3. wrote[q] \cap Range(lh) \subseteq wrote'[q] \cap Range(lh')
    BY <2>1, <1>6
  <2>. QED BY <2>2, <2>3, FS_Subset, FS_CardinalityType
<1>9. Unused' \subseteq Unused
  <2>1. SUFFICES ASSUME NEW u \in Unused' PROVE u \in Unused
    OBVIOUS
  <2>2. u \in Active \X (1..MAXOPBLOCKS) /\ u[2] > Cardinality(wrote'[u[1]] \cap Range(lh'))
    BY <1>3 DEF Unused
  <2>3. u[1] \in Active /\ u[2] \in Nat
    BY <2>2
  <2>4. u[2] > Cardinality(wrote[u[1]] \cap Range(lh))
    BY <2>2, <2>3, <1>8
  <2>. QED BY <2>2, <2>4 DEF Unused
<1>0. CASE overdrawn
  BY <1>0, <1>2, <1>3, <1>7 DEF SpaceReserved
<1>10. CASE b \in Range(lh) /\ ~overdrawn
  <2>1. lh' = lh
    BY <1>10, <1>2 DEF Logged
  <2>2. Cardinality(Unused') <= Cardinality(Unused) /\ Cardinality(Unused') \in Nat
    BY <1>9, Counts, FS_Subset, FS_CardinalityType
  <2>3. SpaceReserved'
    BY <2>1, <2>2, <1>1, <1>2, Counts DEF LInv, SpaceReserved
  <2>. QED BY <2>3, <1>3, <1>7
<1>11. CASE b \notin Range(lh) /\ ~overdrawn
  <2> DEFINE k == Cardinality(wrote[p] \cap Range(lh))
  <2>1. lh' = Append(lh, b) /\ Len(lh') = Len(lh) + 1
    BY <1>11, <1>1, <1>2, <1>5 DEF Logged
  <2>2. IsFiniteSet(wrote[p] \cap Range(lh))
    BY <1>3, <1>4, FS_Subset
  <2>3. wrote'[p] \cap Range(lh') = (wrote[p] \cap Range(lh)) \cup {b}
    BY <1>2, <1>5, <1>6
  <2>4. Cardinality(wrote'[p] \cap Range(lh')) = k + 1 /\ k \in Nat
    BY <2>2, <2>3, <1>11, FS_AddElement, FS_CardinalityType
  <2>5. k + 1 <= MAXOPBLOCKS
    <3>1. wrote'[p] \cap Range(lh') \subseteq wrote[p]
      BY <1>2
    <3>2. Cardinality(wrote'[p] \cap Range(lh')) <= Cardinality(wrote[p]) /\ Cardinality(wrote[p]) \in Nat
      BY <3>1, <1>3, <1>4, FS_Subset, FS_CardinalityType
    <3>. QED BY <3>2, <2>4, <1>1, <1>3, <1>4, <1>11
  <2>6. <<p, k + 1>> \in Unused
    <3>1. <<p, k + 1>> \in Active \X (1..MAXOPBLOCKS)
      BY <2>4, <2>5, <1>1, <1>3
    <3>2. k + 1 > k
      BY <2>4
    <3>. QED BY <3>1, <3>2 DEF Unused
  <2>7. <<p, k + 1>> \notin Unused'
    <3>1. ~(k + 1 > Cardinality(wrote'[p] \cap Range(lh')))
      BY <2>4
    <3>. QED BY <3>1 DEF Unused
  <2>8. Unused' \subseteq Unused \ {<<p, k + 1>>}
    BY <1>9, <2>7
  <2>9. IsFiniteSet(Unused) /\ Cardinality(Unused) \in Nat /\ Len(lh) \in Nat
    BY Counts
  <2>10. /\ IsFiniteSet(Unused \ {<<p, k + 1>>})
         /\ Cardinality(Unused \ {<<p, k + 1>>}) = Cardinality(Unused) - 1
    BY <2>6, <2>9, FS_RemoveElement
  <2>11. Cardinality(Unused') <= Cardinality(Unused) - 1 /\ Cardinality(Unused') \in Nat
    <3> DEFINE U == Unused \ {<<p, k + 1>>}
    <3>1. IsFiniteSet(U) /\ Unused' \subseteq U
      BY <2>8, <2>10
    <3> HIDE DEF U
    <3>2. IsFiniteSet(Unused') /\ Cardinality(Unused') <= Cardinality(U)
      BY <3>1, FS_Subset
    <3>3. Cardinality(Unused') \in Nat
      BY <3>2, FS_CardinalityType
    <3>. QED BY <3>2, <3>3, <2>10 DEF U
  <2>12. SpaceReserved'
    BY <2>1, <2>9, <2>11, <1>1, <1>2 DEF LInv, SpaceReserved
  <2>. QED BY <2>12, <1>3, <1>7
<1>. QED BY <1>0, <1>10, <1>11

(* end_op gives back what the operation did not use.                       *)
LEMMA EndOpCounted ==
  ASSUME LInv, NEW p \in Procs, EndOp(p)
  PROVE  OpsCounted' /\ SpaceReserved' /\ Active' = Active \ {p} /\ outstanding > 0
         /\ (outstanding' = 0 => Active' = {})
<1>1. /\ opc \in [Procs -> {"idle", "begin", "sleep", "op", "write", "commit"}]
  BY DEF LInv, TypeOK
<1>2. /\ opc[p] = "op" /\ outstanding' = outstanding - 1 /\ lh' = lh /\ buf' = buf
      /\ wrote' = wrote /\ overdrawn' = overdrawn /\ hdr' = hdr
  BY DEF EndOp, disk
<1>3. \A q \in Procs : /\ q # p /\ opc[q] # "sleep" => opc'[q] = opc[q]
                       /\ q # p /\ opc[q] = "sleep" => opc'[q] \in {"sleep", "begin"}
                       /\ q = p => opc'[q] \in {"commit", "idle"}
  BY <1>1 DEF EndOp, Awake
<1>4. Active' = Active \ {p} /\ p \in Active
  BY <1>1, <1>2, <1>3 DEF Active
<1>5. IsFiniteSet(Active) /\ outstanding = Cardinality(Active) /\ outstanding > 0 /\ outstanding \in Nat
  BY <1>4, Counts
<1>6. IsFiniteSet(Active') /\ Cardinality(Active') = outstanding'
  BY <1>2, <1>4, <1>5, FS_RemoveElement
<1>7. outstanding' = 0 => Active' = {}
  BY <1>6, FS_EmptySet
<1>8. OpsCounted'
  <2>2. \A q \in Procs : buf'[q] # NoBlock <=> opc'[q] = "write"
    BY <1>1, <1>2, <1>3 DEF LInv, OpsCounted
  <2>3. ASSUME NEW q \in Active'
        PROVE  /\ IsFiniteSet(wrote'[q])
               /\ ~overdrawn' => Cardinality(wrote'[q]) <= MAXOPBLOCKS
               /\ wrote'[q] \subseteq Range(lh') \cup {buf'[q]}
               /\ opc'[q] = "write" => buf'[q] \in wrote'[q]
    <3>1. q \in Active /\ q # p /\ opc'[q] = opc[q]
      BY <1>3, <1>4 DEF Active
    <3>. QED BY <3>1, <1>2 DEF LInv, OpsCounted
  <2>. QED BY <1>6, <2>2, <2>3 DEF OpsCounted
<1>9. Unused' \subseteq Unused
  BY <1>2, <1>4 DEF Unused
<1>10. SpaceReserved'
  <2>1. Cardinality(Unused') <= Cardinality(Unused) /\ Cardinality(Unused') \in Nat
    BY <1>9, Counts, FS_Subset, FS_CardinalityType
  <2>. QED BY <2>1, <1>2, Counts, LogAssumption DEF LInv, SpaceReserved
<1>. QED BY <1>4, <1>5, <1>7, <1>8, <1>10

-----------------------------------------------------------------------------
(* How far a transaction can run past the limit                            *)

LEMMA Sizes ==
  /\ LOGSIZE \in Nat /\ MAXOPBLOCKS \in Nat /\ MAXOPBLOCKS >= 1 /\ MAXOPBLOCKS <= LOGSIZE
  /\ size \in Nat /\ size >= 1 /\ Room \in Nat /\ Room < size
  /\ Room = LOGSIZE \/ Room = size - 1
BY LogAssumption DEF Room

(* A product grows with its first factor.                                  *)
LEMMA TimesMono ==
  ASSUME NEW m \in Int, NEW n \in Int, NEW k \in Nat, m <= n
  PROVE  m * k <= n * k
<1>1. (n - m) * k >= 0
  OBVIOUS
<1>2. (n - m) * k = n * k - m * k
  OBVIOUS
<1>3. n * k \in Int /\ m * k \in Int
  OBVIOUS
<1>. QED BY <1>1, <1>2, <1>3

LEMMA RaceMono ==
  ASSUME NEW m \in Int, NEW n \in Int, m <= n, RaceBounded(n)
  PROVE  RaceBounded(m)
<1>1. m + 1 - Room \in Int /\ n + 1 - Room \in Int /\ m + 1 - Room <= n + 1 - Room
  BY Sizes
<1>2. (m + 1 - Room) * MAXOPBLOCKS <= (n + 1 - Room) * MAXOPBLOCKS
  BY <1>1, Sizes, TimesMono
<1>3. (m + 1 - Room) * MAXOPBLOCKS \in Int /\ (n + 1 - Room) * MAXOPBLOCKS \in Int
  BY <1>1, Sizes
<1>. QED BY <1>2, <1>3, Sizes DEF RaceBounded

(* k operations that found the list shorter than the limit.                *)
LEMMA RacePast ==
  ASSUME NEW n \in Nat, n < Room, NEW k \in Nat, k * MAXOPBLOCKS <= LOGSIZE
  PROVE  RaceBounded(n + k)
<1>1. Room - 1 + k + 1 - Room = k /\ Room - 1 + k \in Int /\ n + k \in Int /\ n + k <= Room - 1 + k
  BY Sizes
<1>2. RaceBounded(Room - 1 + k)
  BY <1>1 DEF RaceBounded
<1>. QED BY <1>1, <1>2, RaceMono

LEMMA RaceNone == RaceBounded(0)
<1>1. 0 + 1 - Room \in Int /\ 0 + 1 - Room <= 1
  BY Sizes
<1>2. (0 + 1 - Room) * MAXOPBLOCKS <= 1 * MAXOPBLOCKS
  BY <1>1, Sizes, TimesMono
<1>3. (0 + 1 - Room) * MAXOPBLOCKS \in Int /\ 1 * MAXOPBLOCKS = MAXOPBLOCKS
  BY <1>1, Sizes
<1>. QED BY <1>2, <1>3, Sizes DEF RaceBounded

(* So a slot past the end of the log is one of the first home blocks.      *)
LEMMA SpillsIntoBlocks ==
  ASSUME NEW n \in Nat, RaceBounded(n), NEW i \in 1..n, i >= size
  PROVE  Behind(i) \in Blocks
<1>1. ASSUME n + 1 - Room > LOGSIZE PROVE FALSE
  <2>1. LOGSIZE + 1 <= n + 1 - Room /\ n + 1 - Room \in Int /\ LOGSIZE + 1 \in Nat
    BY <1>1, Sizes
  <2>2. (LOGSIZE + 1) * MAXOPBLOCKS <= (n + 1 - Room) * MAXOPBLOCKS
    BY <2>1, Sizes, TimesMono
  <2>3. 1 * (LOGSIZE + 1) <= MAXOPBLOCKS * (LOGSIZE + 1)
    BY <2>1, Sizes, TimesMono
  <2>4. /\ MAXOPBLOCKS * (LOGSIZE + 1) = (LOGSIZE + 1) * MAXOPBLOCKS
        /\ (n + 1 - Room) * MAXOPBLOCKS \in Int /\ (LOGSIZE + 1) * MAXOPBLOCKS \in Int
    BY <2>1, Sizes
  <2>. QED BY <2>2, <2>3, <2>4, Sizes DEF RaceBounded
<1>2. i - size + 1 \in 1..LOGSIZE
  BY <1>1, Sizes
<1>. QED BY <1>2, LogAssumption DEF Behind

LEMMA Writers ==
  ASSUME LInv
  PROVE  /\ IsFiniteSet(InLogWrite) /\ Cardinality(InLogWrite) \in Nat
         /\ Cardinality(InLogWrite) <= outstanding
<1>1. InLogWrite \subseteq Active
  BY DEF InLogWrite, Active
<1>. QED BY <1>1, Counts, FS_Subset, FS_CardinalityType

(* A step that leaves the operations and the lists alone, and one after    *)
(* which no operation is under way.                                        *)
LEMMA BoundedSame ==
  ASSUME LInv, UNCHANGED <<outstanding, lh, hdr>>, panicked' = panicked,
         \A p \in Procs : opc'[p] # opc[p] => {opc[p], opc'[p]} \cap {"op", "write"} = {}
  PROVE  Bounded'
<1>1. InLogWrite' = InLogWrite
  BY DEF InLogWrite
<1>. QED BY <1>1 DEF LInv, Bounded, RaceBounded, Room

LEMMA BoundedNone ==
  ASSUME outstanding' = 0, \A p \in Procs : opc'[p] \notin {"op", "write"},
         Len(lh') \in Nat, RaceBounded(Len(lh')), RaceBounded(Len(hdr'))
  PROVE  Bounded'
<1>1. InLogWrite' = {}
  BY DEF InLogWrite
<1>2. Len(lh') + Cardinality(InLogWrite') = Len(lh')
  BY <1>1, FS_EmptySet
<1>3. outstanding' * MAXOPBLOCKS <= LOGSIZE
  BY Sizes
<1>. QED BY <1>2, <1>3 DEF Bounded, RaceBounded, Room

LEMMA BeginOpBounded ==
  ASSUME LInv, NEW p \in Procs, BeginOp(p)
  PROVE  Bounded'
<1>1. /\ UNCHANGED <<lh, hdr, panicked>> /\ outstanding' = outstanding + 1
      /\ opc' = [opc EXCEPT ![p] = "op"] /\ opc[p] = "begin"
      /\ Len(lh) + (outstanding + 1) * MAXOPBLOCKS <= LOGSIZE
  BY DEF BeginOp, Reserved, disk
<1>2. InLogWrite' = InLogWrite
  BY <1>1 DEF InLogWrite, LInv, TypeOK
<1>3. outstanding' * MAXOPBLOCKS <= LOGSIZE
  <2>1. Len(lh) \in Nat /\ (outstanding + 1) * MAXOPBLOCKS \in Int
    BY Counts, Sizes
  <2>. QED BY <2>1, <1>1, Sizes
<1>. QED BY <1>1, <1>2, <1>3 DEF LInv, Bounded, RaceBounded, Room

(* log_write passes its test before the list has reached the limit, and    *)
(* others may be where it is.                                              *)
LEMMA ModifyBounded ==
  ASSUME LInv, NEW p \in Procs, NEW b \in Blocks, NEW v \in Vals, Modify(p, b, v)
  PROVE  Bounded'
<1>1. /\ UNCHANGED <<lh, hdr, outstanding>> /\ opc' = [opc EXCEPT ![p] = "write"]
      /\ opc[p] = "op"
      /\ ~panicked' => ~TooBig
  BY Zenon DEF Modify, disk
<1>2. IsFiniteSet(InLogWrite') /\ Cardinality(InLogWrite') \in Nat /\ Cardinality(InLogWrite') <= outstanding
  <2>1. InLogWrite' \subseteq Active
    BY <1>1 DEF InLogWrite, Active, LInv, TypeOK
  <2>. QED BY <2>1, Counts, FS_Subset, FS_CardinalityType
<1>3. ASSUME ~panicked' PROVE RaceBounded(Len(lh) + Cardinality(InLogWrite'))
  <2>1. Len(lh) < Room
    BY <1>1, <1>3, Counts, Sizes DEF TooBig
  <2>2. RaceBounded(Len(lh) + outstanding)
    BY <2>1, Counts, RacePast DEF LInv, Bounded
  <2>3. /\ Len(lh) + outstanding \in Int /\ Len(lh) + Cardinality(InLogWrite') \in Int
        /\ Len(lh) + Cardinality(InLogWrite') <= Len(lh) + outstanding
    BY <1>2, Counts
  <2>. QED BY <2>2, <2>3, RaceMono
<1>. QED BY <1>1, <1>3 DEF LInv, Bounded, RaceBounded, Room

(* The list grows by no more than the process that leaves.                 *)
LEMMA LogWriteBounded ==
  ASSUME LInv, NEW p \in Procs, LogWrite(p)
  PROVE  Bounded'
<1>1. /\ UNCHANGED <<hdr, outstanding, panicked>> /\ opc' = [opc EXCEPT ![p] = "op"]
      /\ opc[p] = "write" /\ ~panicked /\ lh' = Logged(buf[p])
  BY DEF LogWrite, Live, disk
<1>2. InLogWrite' = InLogWrite \ {p} /\ p \in InLogWrite
  BY <1>1 DEF InLogWrite, LInv, TypeOK
<1>3. Cardinality(InLogWrite') = Cardinality(InLogWrite) - 1
  BY <1>2, Writers, FS_RemoveElement
<1>4. Len(lh') \in Nat /\ Len(lh') <= Len(lh) + 1 /\ Len(lh) \in Nat
  <2>1. lh \in Seq(Blocks) /\ buf[p] \in Blocks
    BY <1>1 DEF LInv, TypeOK, OpsCounted
  <2>. QED BY <2>1, <1>1 DEF Logged
<1>5. RaceBounded(Len(lh') + Cardinality(InLogWrite'))
  <2>1. RaceBounded(Len(lh) + Cardinality(InLogWrite))
    BY <1>1 DEF LInv, Bounded
  <2>2. /\ Len(lh') + Cardinality(InLogWrite') \in Int /\ Len(lh) + Cardinality(InLogWrite) \in Int
        /\ Len(lh') + Cardinality(InLogWrite') <= Len(lh) + Cardinality(InLogWrite)
    BY <1>3, <1>4, Writers
  <2>. QED BY <2>1, <2>2, RaceMono
<1>. QED BY <1>1, <1>5 DEF LInv, Bounded, RaceBounded, Room

LEMMA EndOpBounded ==
  ASSUME LInv, NEW p \in Procs, EndOp(p)
  PROVE  Bounded'
<1>1. /\ UNCHANGED <<hdr, lh>> /\ opc[p] = "op" /\ ~panicked /\ outstanding' = outstanding - 1
      /\ opc' = [IF outstanding - 1 = 0 THEN opc ELSE Awake
                  EXCEPT ![p] = IF outstanding - 1 = 0 THEN "commit" ELSE "idle"]
  BY DEF EndOp, Live, disk
<1>2. InLogWrite' = InLogWrite
  BY <1>1 DEF InLogWrite, Awake, LInv, TypeOK
<1>3. outstanding' * MAXOPBLOCKS <= LOGSIZE
  <2>1. outstanding - 1 \in Int /\ outstanding \in Int
    BY Counts
  <2>2. (outstanding - 1) * MAXOPBLOCKS <= outstanding * MAXOPBLOCKS
    BY <2>1, Sizes, TimesMono
  <2>3. (outstanding - 1) * MAXOPBLOCKS \in Int /\ outstanding * MAXOPBLOCKS \in Int
    BY <2>1, Sizes
  <2>. QED BY <1>1, <2>2, <2>3, Sizes DEF LInv, Bounded
<1>. QED BY <1>1, <1>2, <1>3 DEF LInv, Bounded, RaceBounded, Room

-----------------------------------------------------------------------------
(* Every step preserves the invariant                                      *)

(* Steps of a process outside a transaction.                               *)
LEMMA OutsideInv ==
  ASSUME LInv, NEW p \in Procs, Call(p) \/ BeginWait(p) \/ CommitDone(p)
  PROVE  LInv'
<1>1. /\ UNCHANGED <<home, logblk, hdr, cache, lh, outstanding, buf, wrote, overdrawn, tail, up, panicked>>
      /\ opc \in [Procs -> {"idle", "begin", "sleep", "op", "write", "commit"}]
  BY DEF LInv, TypeOK, Call, BeginWait, CommitDone, disk, steps
<1>2. \A q \in Procs : opc'[q] # opc[q] => {opc[q], opc'[q]} \cap {"op", "write"} = {}
  BY <1>1 DEF Call, BeginWait, CommitDone, Awake
<1>3. OpsCounted' /\ SpaceReserved' /\ Bounded' /\ Active' = Active
  BY <1>1, <1>2, CountedSame, BoundedSame
<1>4. opc' \in [Procs -> {"idle", "begin", "sleep", "op", "write", "commit"}]
  BY <1>1 DEF Call, BeginWait, CommitDone, Awake
<1>5. \/ cph' = cph /\ committing' = committing
      \/ cph' = "none" /\ committing' = FALSE /\ up /\ cph = "done"
  BY DEF Call, BeginWait, CommitDone, Live, steps
<1>6. TypeOK'
  BY <1>1, <1>4, <1>5 DEF LInv, TypeOK
<1>7. Journal' /\ Copied'
  BY <1>1, <1>3, <1>5 DEF LInv, Journal, Copied, Fits
<1>8. UnloggedIsClean'
  BY <1>1 DEF LInv, UnloggedIsClean
<1>. QED BY <1>3, <1>6, <1>7, <1>8 DEF LInv

LEMMA BeginOpInv ==
  ASSUME LInv, NEW p \in Procs, BeginOp(p)
  PROVE  LInv'
<1>1. OpsCounted' /\ SpaceReserved' /\ Bounded' /\ Active' = Active \cup {p}
  BY BeginOpCounted, BeginOpBounded
<1>2. /\ UNCHANGED <<home, logblk, hdr, cache, lh, committing, buf, overdrawn, cph, tail, up, panicked>>
      /\ up /\ ~committing /\ outstanding' = outstanding + 1
  BY DEF BeginOp, Live, disk, steps
<1>3. TypeOK'
  BY <1>2, SMTT(30) DEF LInv, TypeOK, BeginOp
<1>4. Journal' /\ Copied'
  BY <1>1, <1>2, SMTT(30) DEF LInv, Journal, Copied, Fits
<1>5. UnloggedIsClean'
  BY <1>2 DEF LInv, UnloggedIsClean
<1>. QED BY <1>1, <1>3, <1>4, <1>5 DEF LInv

LEMMA ModifyInv ==
  ASSUME LInv, NEW p \in Procs, NEW b \in Blocks, NEW v \in Vals, Modify(p, b, v)
  PROVE  LInv'
<1>1. OpsCounted' /\ SpaceReserved' /\ Bounded' /\ Active' = Active
  BY ModifyCounted, ModifyBounded
<1>2. /\ UNCHANGED <<home, logblk, hdr, lh, outstanding, committing, cph, tail, up>>
      /\ cache' = [cache EXCEPT ![b] = v] /\ buf' = [buf EXCEPT ![p] = b]
      /\ opc[p] = "op"
  BY DEF Modify, disk, steps
<1>3. p \in Active
  BY <1>2 DEF Active
<1>4. TypeOK'
  <2>1. overdrawn' \in BOOLEAN /\ panicked' \in BOOLEAN
    BY Zenon DEF Modify
  <2>. QED BY <1>2, <2>1 DEF LInv, TypeOK, Modify
<1>5. Journal' /\ Copied'
  BY <1>1, <1>2, <1>3, Counts DEF LInv, Journal, Copied
<1>6. UnloggedIsClean'
  <2>1. ASSUME NEW c \in Blocks \ Range(lh), \A q \in Procs : buf'[q] # c PROVE cache'[c] = home[c]
    <3>0. buf \in [Procs -> Blocks \cup {NoBlock}] /\ cache \in [Blocks -> Vals]
      BY DEF LInv, TypeOK
    <3>1. c # b
      BY <3>0, <2>1, <1>2
    <3>2. buf[p] = NoBlock /\ NoBlock # c
      BY <1>2, LogAssumption DEF LInv, OpsCounted
    <3>3. \A q \in Procs : buf[q] # c
      BY <3>0, <3>2, <2>1, <1>2
    <3>4. cache[c] = home[c]
      BY <3>3, <1>3, Counts DEF LInv, UnloggedIsClean
    <3>. QED BY <3>0, <3>1, <3>4, <1>2
  <2>. QED BY <2>1, <1>2 DEF UnloggedIsClean
<1>. QED BY <1>1, <1>4, <1>5, <1>6 DEF LInv

LEMMA LogWriteInv ==
  ASSUME LInv, NEW p \in Procs, LogWrite(p)
  PROVE  LInv'
<1>1. OpsCounted' /\ SpaceReserved' /\ Bounded' /\ Active' = Active
  BY LogWriteCounted, LogWriteBounded
<1>2. /\ UNCHANGED <<home, logblk, hdr, cache, outstanding, committing, wrote, overdrawn>>
      /\ UNCHANGED <<cph, tail, up, panicked>>
      /\ lh' = Logged(buf[p]) /\ buf' = [buf EXCEPT ![p] = NoBlock]
      /\ opc[p] = "write" /\ opc' = [opc EXCEPT ![p] = "op"]
  BY DEF LogWrite, disk, steps
<1>3. p \in Active
  BY <1>2 DEF Active
<1>4. buf \in [Procs -> Blocks \cup {NoBlock}] /\ buf[p] \in Blocks /\ lh \in Seq(Blocks)
  BY <1>2 DEF LInv, TypeOK, OpsCounted
<1>5. lh' \in Seq(Blocks) /\ IsInjective(lh') /\ Range(lh') = Range(lh) \cup {buf[p]}
  <2>1. IsInjective(lh)
    BY DEF LInv, Journal
  <2>2. CASE buf[p] \in Range(lh)
    BY <2>1, <2>2, <1>2, <1>4 DEF Logged
  <2>3. CASE buf[p] \notin Range(lh)
    <3>1. lh' = Append(lh, buf[p])
      BY <2>3, <1>2 DEF Logged
    <3>2. IsInjective(lh')
      BY <3>1, <2>1, <2>3, <1>4 DEF IsInjective, Range
    <3>3. Range(lh') = Range(lh) \cup {buf[p]}
      BY <3>1, <1>4 DEF Range
    <3>. QED BY <3>1, <3>2, <3>3, <1>4
  <2>. QED BY <2>2, <2>3
<1>6. TypeOK'
  BY <1>2, <1>5, SMTT(30) DEF LInv, TypeOK
<1>7. Journal' /\ Copied'
  BY <1>1, <1>2, <1>3, <1>5, Counts DEF LInv, Journal, Copied
<1>8. UnloggedIsClean'
  <2>1. ASSUME NEW c \in Blocks \ Range(lh'), \A q \in Procs : buf'[q] # c PROVE cache'[c] = home'[c]
    <3>1. c \notin Range(lh) /\ buf[p] # c
      BY <1>5
    <3>2. \A q \in Procs : buf[q] # c
      BY <3>1, <2>1, <1>2, <1>4
    <3>. QED BY <3>1, <3>2, <1>2, <1>3, Counts DEF LInv, UnloggedIsClean
  <2>. QED BY <2>1 DEF UnloggedIsClean
<1>. QED BY <1>1, <1>6, <1>7, <1>8 DEF LInv

LEMMA EndOpInv ==
  ASSUME LInv, NEW p \in Procs, EndOp(p)
  PROVE  LInv'
<1>1. /\ OpsCounted' /\ SpaceReserved' /\ Bounded' /\ Active' = Active \ {p} /\ outstanding > 0
      /\ outstanding' = 0 => Active' = {}
  BY EndOpCounted, EndOpBounded
<1>2. /\ UNCHANGED <<home, logblk, hdr, cache, lh, buf, wrote, overdrawn, up>>
      /\ opc[p] = "op" /\ tail' = 0 /\ outstanding' = outstanding - 1 /\ panicked' = committing
      /\ committing' = (committing \/ outstanding - 1 = 0)
      /\ cph' = IF outstanding - 1 = 0 THEN (IF lh = <<>> THEN "done" ELSE "log") ELSE cph
  BY DEF EndOp, disk
<1>3. p \in Active /\ lh \in Seq(Blocks) /\ LOGSIZE \in Nat
  BY <1>2, LogAssumption DEF Active, LInv, TypeOK
<1>4. up /\ ~committing /\ cph = "none"
  BY <1>3, Counts
<1>5. opc' \in [Procs -> {"idle", "begin", "sleep", "op", "write", "commit"}]
  BY DEF LInv, TypeOK, EndOp, Awake
<1>6. TypeOK'
  BY <1>1, <1>2, <1>3, <1>5 DEF LInv, TypeOK
<1>7. Journal' /\ Copied'
  <2>1. lh # <<>> => 0 < Len(lh)
    BY <1>3
  <2>2. IsInjective(lh) /\ IsInjective(hdr) /\ hdr = <<>>
    BY <1>4 DEF LInv, Journal
  <2>3. CASE outstanding - 1 = 0
    <3>1. committing' /\ Active' = {} /\ up' /\ tail' = 0
          /\ cph' = IF lh = <<>> THEN "done" ELSE "log"
      BY <2>3, <1>1, <1>2, <1>4
    <3>. QED BY <3>1, <2>1, <2>2, <1>2 DEF Journal, Copied
  <2>4. CASE outstanding - 1 # 0
    <3>1. ~committing' /\ up' /\ cph' = "none"
      BY <2>4, <1>2, <1>4
    <3>. QED BY <3>1, <2>2, <1>2 DEF Journal, Copied
  <2>. QED BY <2>3, <2>4
<1>8. UnloggedIsClean'
  BY <1>2 DEF LInv, UnloggedIsClean
<1>. QED BY <1>1, <1>6, <1>7, <1>8 DEF LInv

(* commit() and recovery run alone.                                        *)
LEMMA Alone ==
  ASSUME LInv, cph # "none"
  PROVE  /\ Active = {} /\ outstanding = 0
         /\ \A p \in Procs : opc[p] \notin {"op", "write"} /\ buf[p] = NoBlock
<1>1. Active = {}
  BY DEF LInv, Journal, TypeOK
<1>. QED BY <1>1, Counts DEF LInv, OpsCounted, Active

(* The blocks commit() and recovery are at work on, and where they go.     *)
LEMMA SlotType ==
  ASSUME LInv, ~panicked, cph # "none", NEW i \in 1..Len(lh)
  PROVE  /\ i < size => i \in 1..size - 1
         /\ i >= size => Behind(i) \in Blocks
         /\ Slot(i) \in Vals
<1>1. InLogWrite = {}
  BY Alone DEF InLogWrite
<1>2. RaceBounded(Len(lh)) /\ Len(lh) \in Nat
  <2>1. Len(lh) + Cardinality(InLogWrite) = Len(lh) /\ Len(lh) \in Nat
    BY <1>1, FS_EmptySet, Counts
  <2>. QED BY <2>1 DEF LInv, Bounded
<1>3. i >= size => Behind(i) \in Blocks
  BY <1>2, SpillsIntoBlocks
<1>4. i < size => i \in 1..size - 1
  BY <1>2, Sizes
<1>5. logblk \in [1..size - 1 -> Vals] /\ cache \in [Blocks -> Vals]
  BY DEF LInv, TypeOK
<1>6. i < size \/ i >= size
  BY <1>2, Sizes
<1>. QED BY <1>3, <1>4, <1>5, <1>6 DEF Slot

LEMMA WriteLogInv ==
  ASSUME LInv, WriteLog
  PROVE  LInv'
<1> DEFINE j == tail + 1
           v == cache[lh[j]]
<1>1. /\ UNCHANGED <<hdr, lh, outstanding, committing, opc, buf, wrote, overdrawn, up, panicked>>
      /\ cph = "log" /\ up /\ tail' = j /\ ~panicked
      /\ cph' = IF j = Len(lh) THEN "head" ELSE "log"
  BY SMTT(30) DEF WriteLog, Live, ops
<1>2. /\ lh \in Seq(Blocks) /\ tail \in Nat /\ tail < Len(lh) /\ Len(lh) \in Nat
      /\ cache \in [Blocks -> Vals] /\ home \in [Blocks -> Vals]
      /\ logblk \in [1..size - 1 -> Vals] /\ size \in Nat
  BY <1>1, Counts, Sizes DEF LInv, TypeOK, Journal
<1>3. OpsCounted' /\ SpaceReserved' /\ Bounded' /\ Active' = Active
  BY <1>1, CountedSame, BoundedSame
<1>4. j \in 1..Len(lh) /\ v \in Vals /\ j \in Nat
  BY <1>2
<1>5. \/ j \in 1..size - 1 /\ logblk' = [logblk EXCEPT ![j] = v] /\ UNCHANGED <<home, cache>>
      \/ /\ j >= size /\ Behind(j) \in Blocks /\ UNCHANGED logblk
         /\ home' = [home EXCEPT ![Behind(j)] = v] /\ cache' = [cache EXCEPT ![Behind(j)] = v]
  <2>1. CASE j < size
    BY <2>1, <1>1, <1>4, SlotType DEF WriteLog
  <2>2. CASE ~(j < size)
    <3>1. j >= size
      BY <2>2, <1>2
    <3>. QED BY <3>1, <2>2, <1>1, <1>4, SlotType DEF WriteLog
  <2>. QED BY <2>1, <2>2
<1> HIDE DEF v
<1>6. TypeOK'
  <2>1. home' \in [Blocks -> Vals] /\ cache' \in [Blocks -> Vals] /\ logblk' \in [1..size - 1 -> Vals]
    BY <1>2, <1>4, <1>5, SMTT(30)
  <2>. QED BY <2>1, <1>1, <1>4 DEF LInv, TypeOK
<1>7. Journal'
  <2>1. /\ IsInjective(lh) /\ IsInjective(hdr) /\ hdr = <<>>
        /\ committing /\ Active = {}
    BY <1>1 DEF LInv, Journal
  <2>2. lh # <<>>
    BY <1>2
  <2>. QED BY <2>1, <2>2, <1>1, <1>2, <1>3, SMTT(30) DEF Journal
<1>8. Copied'
  <2> SUFFICES ASSUME Fits' PROVE \A i \in 1..j : logblk'[i] = cache'[lh[i]]
    BY <1>1, <1>2 DEF Copied
  <2>1. Fits /\ j < size /\ ~(j >= size)
    BY <1>1, <1>2, <1>4 DEF Fits
  <2>2. \A i \in 1..tail : logblk[i] = cache[lh[i]]
    BY <2>1, <1>1 DEF LInv, Copied
  <2>3. logblk' = [logblk EXCEPT ![j] = cache[lh[j]]] /\ cache' = cache /\ j \in 1..size - 1
    BY <2>1, <1>5 DEF v
  <2>. QED BY <2>2, <2>3, <1>2
<1>9. UnloggedIsClean'
  BY <1>1, <1>2, <1>5 DEF LInv, UnloggedIsClean
<1>. QED BY <1>3, <1>6, <1>7, <1>8, <1>9 DEF LInv

LEMMA WriteHeadInv ==
  ASSUME LInv, WriteHead
  PROVE  LInv'
<1>1. /\ UNCHANGED <<home, logblk, cache, lh, outstanding, committing, opc, buf, wrote, overdrawn>>
      /\ UNCHANGED <<up, panicked>> /\ ~panicked
      /\ cph = "head" /\ up /\ tail' = 0 /\ cph' = "install" /\ hdr' = lh
  BY DEF WriteHead, Live, ops
<1>2. OpsCounted' /\ SpaceReserved' /\ Active' = Active
  BY <1>1, CountedSame
<1>3. lh \in Seq(Blocks)
  BY DEF LInv, TypeOK
<1>4. TypeOK'
  BY <1>1, <1>3 DEF LInv, TypeOK
<1>5. Bounded'
  <2>1. outstanding = 0 /\ InLogWrite = {} /\ \A p \in Procs : opc[p] \notin {"op", "write"}
    BY <1>1, Alone DEF InLogWrite
  <2>2. Len(lh) + Cardinality(InLogWrite) = Len(lh) /\ Len(lh) \in Nat
    BY <2>1, FS_EmptySet, Counts
  <2>3. RaceBounded(Len(lh))
    BY <2>2, <1>1 DEF LInv, Bounded
  <2>. QED BY <2>1, <2>2, <2>3, <1>1, BoundedNone
<1>6. Journal'
  <2>1. IsInjective(lh) /\ committing /\ Active = {} /\ lh # <<>>
    BY <1>1 DEF LInv, Journal
  <2>2. 0 < Len(lh)
    BY <2>1, <1>3
  <2>. QED BY <2>1, <2>2, <1>1, <1>2, <1>3, SMTT(30) DEF Journal
<1>7. Copied'
  <2>1. Fits' => Fits
    BY <1>1, Sizes DEF LInv, Journal, Fits
  <2>. QED BY <2>1, <1>1 DEF LInv, Copied
<1>8. UnloggedIsClean'
  BY <1>1 DEF LInv, UnloggedIsClean
<1>. QED BY <1>2, <1>4, <1>5, <1>6, <1>7, <1>8 DEF LInv

LEMMA InstallInv ==
  ASSUME LInv, Install
  PROVE  LInv' /\ (Fits /\ up => cache' = cache)
<1> DEFINE j == tail + 1
           v == Slot(j)
<1>1. /\ UNCHANGED <<logblk, hdr, lh, outstanding, committing, opc, buf, wrote, overdrawn, up, panicked>>
      /\ cph = "install" /\ tail' = j /\ ~panicked
      /\ cph' = IF j = Len(lh) THEN "clear" ELSE "install"
      /\ home' = [home EXCEPT ![lh[j]] = v]
      /\ cache' = [cache EXCEPT ![lh[j]] = v]
  BY SMTT(30) DEF Install, ops
<1>2. /\ lh \in Seq(Blocks) /\ tail \in Nat /\ tail < Len(lh) /\ Len(lh) \in Nat
      /\ cache \in [Blocks -> Vals] /\ home \in [Blocks -> Vals]
      /\ logblk \in [1..size - 1 -> Vals] /\ size \in Nat
  BY <1>1, Counts, Sizes, SMTT(30) DEF LInv, TypeOK, Journal
<1>3. OpsCounted' /\ SpaceReserved' /\ Bounded' /\ Active' = Active
  BY <1>1, CountedSame, BoundedSame
<1>4. j \in 1..Len(lh) /\ lh[j] \in Blocks /\ tail = j - 1 /\ j \in Nat
  BY <1>2
<1>5. v \in Vals /\ (Fits => v = logblk[j])
  <2>1. v \in Vals
    BY <1>1, <1>4, SlotType
  <2>2. Fits => j < size
    BY <1>2, <1>4 DEF Fits
  <2>. QED BY <2>1, <2>2 DEF Slot
<1>6. /\ IsInjective(lh) /\ hdr = lh /\ Active = {} /\ (up => committing)
      /\ ~up => cache = home
      /\ \A i \in 1..j - 1 : home[lh[i]] = cache[lh[i]]
  BY <1>1, <1>4 DEF LInv, Journal
<1> HIDE DEF j, v
<1>7. TypeOK'
  <2>1. home' \in [Blocks -> Vals] /\ cache' \in [Blocks -> Vals]
    BY <1>1, <1>2, <1>4, <1>5
  <2>. QED BY <2>1, <1>1, <1>4 DEF LInv, TypeOK
<1>8. UnloggedIsClean'
  <2>1. lh[j] \in Range(lh)
    BY <1>2, <1>4 DEF Range
  <2>. QED BY <2>1, <1>1, <1>2 DEF LInv, UnloggedIsClean
<1>9. \A i \in 1..j : home'[lh[i]] = cache'[lh[i]]
  <2>1. SUFFICES ASSUME NEW i \in 1..j PROVE home'[lh[i]] = cache'[lh[i]]
    OBVIOUS
  <2>2. lh[i] \in Blocks /\ (i = j \/ i \in 1..j - 1)
    BY <1>2, <1>4
  <2>. QED BY <2>2, <1>1, <1>2, <1>4, <1>6
<1>10. j = Len(lh) => cache' = home'
  <2>1. ASSUME j = Len(lh), NEW b \in Blocks PROVE cache'[b] = home'[b]
    <3>1. CASE b \in Range(lh)
      <4>1. PICK i \in 1..Len(lh) : lh[i] = b
        BY <3>1, <1>2 DEF Range
      <4>. QED BY <4>1, <2>1, <1>9
    <3>2. CASE b \notin Range(lh) /\ up
      <4>1. \A p \in Procs : buf[p] # b
        BY <1>1, Alone, LogAssumption
      <4>. QED BY <4>1, <3>2, <1>1, <1>8 DEF UnloggedIsClean
    <3>3. CASE ~up
      BY <3>3, <1>1, <1>6
    <3>. QED BY <3>1, <3>2, <3>3
  <2>2. /\ home' \in [Blocks -> Vals]
        /\ cache' \in [Blocks -> Vals]
    BY <1>7 DEF TypeOK
  <2>. QED BY <2>1, <2>2
<1>11. Journal'
  <2>1. cph' \in {"install", "clear"} /\ (cph' = "clear" <=> j = Len(lh))
    BY <1>1
  <2>2. tail' < Len(lh') \/ cph' = "clear"
    BY <1>1, <1>2, <1>4
  <2>3. (committing => up) /\ (~up => cache' = home')
    BY <1>1, <1>6 DEF LInv, Journal
  <2>. QED BY <2>1, <2>2, <2>3, <1>1, <1>3, <1>6, <1>9, <1>10, SMTT(30) DEF Journal
<1>12. ASSUME Fits PROVE \A i \in 1..j : home'[lh[i]] = logblk[i]
  <2>1. \A i \in 1..j - 1 : home[lh[i]] = logblk[i]
    BY <1>1, <1>4, <1>12 DEF LInv, Copied
  <2>2. SUFFICES ASSUME NEW i \in 1..j PROVE home'[lh[i]] = logblk[i]
    OBVIOUS
  <2>3. i \in 1..Len(lh) /\ lh[i] \in Blocks
    BY <1>2, <1>4
  <2>4. CASE i = j
    BY <2>4, <1>1, <1>2, <1>4, <1>5, <1>12
  <2>5. CASE i # j
    <3>1. lh[i] # lh[j] /\ i \in 1..j - 1
      BY <2>3, <2>5, <1>2, <1>4, <1>6 DEF IsInjective
    <3>. QED BY <3>1, <2>1, <2>3, <1>1, <1>2, <1>4
  <2>. QED BY <2>4, <2>5
<1>13. ASSUME Fits, up PROVE cache' = cache /\ \A i \in 1..Len(lh) : logblk[i] = cache[lh[i]]
  <2>1. \A i \in 1..Len(lh) : logblk[i] = cache[lh[i]]
    BY <1>1, <1>13 DEF LInv, Copied
  <2>2. cache[lh[j]] = v
    BY <2>1, <1>4, <1>5, <1>13
  <2>. QED BY <2>1, <2>2, <1>1, <1>2
<1>14. Copied'
  <2>1. Fits' => Fits
    BY <1>1 DEF Fits
  <2>2. cph' \in {"install", "clear"} /\ (cph' = "clear" <=> j = Len(lh))
    BY <1>1
  <2>. QED BY <2>1, <2>2, <1>1, <1>12, <1>13 DEF Copied
<1>. QED BY <1>3, <1>7, <1>8, <1>11, <1>13, <1>14 DEF LInv

LEMMA ClearHeadInv ==
  ASSUME LInv, ClearHead
  PROVE  LInv' /\ cache = home
<1>1. /\ UNCHANGED <<home, logblk, cache, outstanding, committing, opc, buf, wrote, panicked>>
      /\ cph = "clear" /\ hdr' = <<>> /\ lh' = <<>> /\ tail' = 0 /\ up' /\ overdrawn' = FALSE
      /\ cph' = IF up THEN "done" ELSE "none"
  BY DEF ClearHead
<1>2. Active = {} /\ outstanding = 0
      /\ \A p \in Procs : opc[p] \notin {"op", "write"} /\ buf[p] = NoBlock
  BY <1>1, Alone
<1>3. LOGSIZE \in Nat /\ lh \in Seq(Blocks) /\ cache \in [Blocks -> Vals] /\ home \in [Blocks -> Vals]
  BY LogAssumption DEF LInv, TypeOK
<1>4. OpsCounted' /\ SpaceReserved' /\ Bounded' /\ Active' = {}
  <2>1. Len(lh') = 0 /\ Len(hdr') = 0
    BY <1>1
  <2>. QED BY <2>1, <1>1, <1>2, <1>3, CountedNone, BoundedNone, RaceNone
<1>5. cache = home
  BY <1>1 DEF LInv, Journal
<1>6. TypeOK'
  <2>1. overdrawn' \in BOOLEAN /\ up' \in BOOLEAN
    BY Zenon DEF ClearHead
  <2>. QED BY <2>1, <1>1, <1>3 DEF LInv, TypeOK
<1>7. Journal'
  <2>1. IsInjective(<<>>)
    BY <1>3 DEF IsInjective
  <2>2. (up => committing) /\ (committing => up)
    BY <1>1 DEF LInv, Journal
  <2>. QED BY <2>1, <2>2, <1>1, <1>4 DEF Journal
<1>8. Copied' /\ UnloggedIsClean'
  BY <1>1, <1>5 DEF Copied, UnloggedIsClean
<1>. QED BY <1>4, <1>5, <1>6, <1>7, <1>8 DEF LInv

LEMMA CrashInv ==
  ASSUME LInv, Crash
  PROVE  LInv'
<1>1. /\ UNCHANGED <<home, logblk, hdr, overdrawn>> /\ ~panicked' /\ panicked' \in BOOLEAN /\ cache' = home /\ lh' = <<>>
      /\ outstanding' = 0 /\ committing' = FALSE /\ cph' = "read" /\ tail' = 0 /\ ~up'
      /\ opc' = [p \in Procs |-> "idle"] /\ buf' = [p \in Procs |-> NoBlock]
      /\ wrote' = [p \in Procs |-> {}] /\ up' \in BOOLEAN
  BY Zenon DEF Crash, disk
<1>2. LOGSIZE \in Nat
  BY LogAssumption
<1>3. OpsCounted' /\ SpaceReserved' /\ Bounded' /\ Active' = {}
  <2>1. Len(lh') = 0 /\ hdr' = hdr
    BY <1>1
  <2>2. ~overdrawn' => Len(hdr) <= LOGSIZE
    BY <1>1 DEF LInv, SpaceReserved
  <2>3. RaceBounded(Len(hdr))
    BY DEF LInv, Bounded
  <2>4. \A p \in Procs : opc'[p] \notin {"op", "write"} /\ buf'[p] = NoBlock
    BY <1>1
  <2>. QED BY <2>1, <2>2, <2>3, <2>4, <1>1, <1>2, CountedNone, BoundedNone, RaceNone
<1>4. TypeOK'
  <2>1. /\ opc' \in [Procs -> {"idle", "begin", "sleep", "op", "write", "commit"}]
        /\ buf' \in [Procs -> Blocks \cup {NoBlock}] /\ wrote' \in [Procs -> SUBSET Blocks]
    BY <1>1
  <2>2. lh' \in Seq(Blocks) /\ tail' \in Nat /\ outstanding' \in Nat
    <3>1. lh' = <<>> /\ tail' = 0 /\ outstanding' = 0
      BY <1>1
    <3>. QED BY <3>1, <1>2
  <2>3. committing' \in BOOLEAN
    BY <1>1, Zenon
  <2>. QED BY <2>1, <2>2, <2>3, <1>1 DEF LInv, TypeOK
<1>5. Journal' /\ Copied'
  <2>1. IsInjective(<<>>) /\ IsInjective(hdr)
    BY DEF IsInjective, LInv, Journal
  <2>. QED BY <2>1, <1>1, <1>3 DEF Journal, Copied
<1>6. UnloggedIsClean'
  BY <1>1 DEF UnloggedIsClean
<1>. QED BY <1>3, <1>4, <1>5, <1>6 DEF LInv

LEMMA ReadHeadInv ==
  ASSUME LInv, ReadHead
  PROVE  LInv' /\ ~up
<1>1. /\ UNCHANGED <<home, logblk, hdr, cache, outstanding, committing, opc, buf, wrote, overdrawn>>
      /\ UNCHANGED <<tail, up, panicked>>
      /\ cph = "read" /\ lh' = hdr /\ cph' = IF hdr = <<>> THEN "clear" ELSE "install"
  BY DEF ReadHead, disk, ops
<1>2. Active = {} /\ outstanding = 0
      /\ \A p \in Procs : opc[p] \notin {"op", "write"} /\ buf[p] = NoBlock
  BY <1>1, Alone
<1>3. /\ hdr \in Seq(Blocks) /\ IsInjective(hdr) /\ ~up /\ ~committing
      /\ cache = home /\ tail = 0
  BY <1>1 DEF LInv, TypeOK, Journal
<1>4. OpsCounted' /\ SpaceReserved' /\ Bounded' /\ Active' = {}
  <2>1. /\ Len(lh') \in Nat /\ lh' = hdr /\ hdr' = hdr
        /\ ~overdrawn' => Len(hdr) <= LOGSIZE
    BY <1>1, <1>3 DEF LInv, SpaceReserved
  <2>2. RaceBounded(Len(hdr))
    BY DEF LInv, Bounded
  <2>. QED BY <2>1, <2>2, <1>1, <1>2, CountedNone, BoundedNone
<1>5. TypeOK'
  BY <1>1, <1>3 DEF LInv, TypeOK
<1>6. Journal' /\ Copied'
  <2>1. hdr # <<>> => 0 < Len(hdr)
    BY <1>3
  <2>2. hdr = <<>> => 1..Len(hdr) = {}
    OBVIOUS
  <2>3. Journal'
    BY <2>1, <2>2, <1>1, <1>3, <1>4, SMTT(30) DEF Journal
  <2>4. Copied'
    BY <2>2, <1>1, <1>3 DEF Copied
  <2>. QED BY <2>3, <2>4
<1>7. UnloggedIsClean'
  BY <1>1, <1>3 DEF UnloggedIsClean
<1>. QED BY <1>3, <1>4, <1>5, <1>6, <1>7 DEF LInv

LEMMA InitInv == Init => LInv
<1> SUFFICES ASSUME Init PROVE LInv
  OBVIOUS
<1>1. TypeOK
  <2>1. /\ opc \in [Procs -> {"idle", "begin", "sleep", "op", "write", "commit"}]
        /\ buf \in [Procs -> Blocks \cup {NoBlock}] /\ wrote \in [Procs -> SUBSET Blocks]
    BY DEF Init
  <2>2. lh \in Seq(Blocks) /\ hdr \in Seq(Blocks) /\ tail \in Nat /\ outstanding \in Nat
    BY LogAssumption DEF Init
  <2>. QED BY <2>1, <2>2 DEF Init, TypeOK
<1>2. Active = {} /\ Unused = {} /\ InLogWrite = {} /\ Cardinality({}) = 0
  BY FS_EmptySet DEF Init, Active, Unused, InLogWrite
<1>3. OpsCounted
  BY <1>2 DEF Init, OpsCounted
<1>4. SpaceReserved
  BY <1>2, LogAssumption DEF Init, SpaceReserved
<1>7. Bounded
  <2>1. Len(lh) + Cardinality(InLogWrite) = 0 /\ Len(hdr) = 0 /\ outstanding * MAXOPBLOCKS = 0
    BY <1>2, Sizes DEF Init
  <2>. QED BY <2>1, Sizes, RaceNone DEF Bounded
<1>5. Journal /\ Copied
  BY <1>2, LogAssumption DEF Init, Journal, Copied, IsInjective
<1>6. UnloggedIsClean
  BY DEF Init, UnloggedIsClean
<1>. QED BY <1>1, <1>3, <1>4, <1>5, <1>6, <1>7 DEF LInv

LEMMA NextInv ==
  ASSUME LInv, [Next]_vars
  PROVE  LInv'
<1>1. CASE Crash
  BY <1>1, CrashInv
<1>2. CASE DiskStep
  BY <1>2, WriteLogInv, WriteHeadInv, InstallInv, ClearHeadInv, ReadHeadInv DEF DiskStep
<1>3. ASSUME NEW p \in Procs, Call(p) \/ OpStep(p) PROVE LInv'
  <2>1. CASE Call(p) \/ BeginWait(p) \/ CommitDone(p)
    BY <2>1, OutsideInv
  <2>2. CASE BeginOp(p)
    BY <2>2, BeginOpInv
  <2>3. CASE \E u \in Updates : Modify(p, u[1], u[2])
    <3>1. PICK u \in Updates : Modify(p, u[1], u[2])
      BY <2>3
    <3>2. u[1] \in Blocks /\ u[2] \in Vals
      BY LogAssumption
    <3>. QED BY <3>1, <3>2, ModifyInv
  <2>4. CASE LogWrite(p)
    BY <2>4, LogWriteInv
  <2>5. CASE EndOp(p)
    BY <2>5, EndOpInv
  <2>. QED BY <1>3, <2>1, <2>2, <2>3, <2>4, <2>5 DEF OpStep
<1>4. CASE UNCHANGED vars
  <2>2. UNCHANGED <<home, logblk, hdr, cache, lh, outstanding, committing, opc, buf, wrote,
                    overdrawn, cph, tail, up, panicked>>
    BY <1>4 DEF vars, disk, ops, steps
  <2>3. OpsCounted' /\ SpaceReserved' /\ Bounded' /\ Active' = Active
    BY <2>2, CountedSame, BoundedSame
  <2>4. TypeOK' /\ UnloggedIsClean'
    BY <2>2, Zenon DEF LInv, TypeOK, UnloggedIsClean
  <2>5. Journal' /\ Copied'
    BY <2>2, <2>3, Zenon DEF LInv, Journal, Copied, Fits
  <2>. QED BY <2>3, <2>4, <2>5, Zenon DEF LInv
<1>. QED BY <1>1, <1>2, <1>3, <1>4 DEF Next

(* begin_op, log_write, end_op, commit and recovery keep log.c's           *)
(* bookkeeping consistent, however many blocks an operation writes.        *)
THEOREM LogInvariant == Spec => []LInv
<1>1. Init => LInv
  BY InitInv
<1>2. LInv /\ [Next]_vars => LInv'
  BY NextInv
<1>. QED BY <1>1, <1>2, PTL DEF Spec

(* log.lh.block, an array of LOGSIZE block numbers, is not overrun while   *)
(* operations keep to their reservations; and log_write's comparison of    *)
(* lh.n, made before it takes the lock, always lets the list grow past the *)
(* limit by less than the number of operations begin_op admits.            *)
THEOREM HeaderNeverOverrun == Spec => []HeaderFits
<1>1. LInv => HeaderFits
  <2> SUFFICES ASSUME LInv PROVE HeaderFits
    OBVIOUS
  <2>1. Len(lh) \in Nat /\ Cardinality(Unused) \in Nat /\ LOGSIZE \in Nat
    BY Counts, LogAssumption
  <2>. QED BY <2>1 DEF LInv, SpaceReserved, Bounded, HeaderFits
<1>. QED BY <1>1, LogInvariant, PTL

(* A block outside the log that nobody is changing is the same in the      *)
(* buffer cache and at home, so bget may evict it: even after a            *)
(* transaction that ran over the end of the log.                           *)
THEOREM UnloggedStaysClean == Spec => []UnloggedIsClean
<1>1. LInv => UnloggedIsClean
  BY DEF LInv
<1>. QED BY <1>1, LogInvariant, PTL

(* Nobody sleeps beside a free log: between transactions it is empty, and  *)
(* so has room for the first operation.                                    *)
EmptyBetween == up /\ ~committing /\ outstanding = 0 => lh = <<>>
WakeInv == SleeperWillBeWoken /\ EmptyBetween

LEMMA WakeOps ==
  ASSUME LInv, LInv', WakeInv, NEW p \in Procs, Call(p) \/ OpStep(p)
  PROVE  WakeInv'
<1>0. /\ opc \in [Procs -> {"idle", "begin", "sleep", "op", "write", "commit"}]
      /\ outstanding \in Nat /\ outstanding' \in Nat
  BY DEF LInv, TypeOK
<1>1. CASE Call(p) \/ \E u \in Updates : Modify(p, u[1], u[2])
  <2>1. /\ UNCHANGED <<lh, outstanding, committing, up>>
        /\ \A q \in Procs : opc'[q] = "sleep" => opc[q] = "sleep"
    BY <1>0, <1>1, Zenon DEF Call, Modify, steps
  <2>. QED BY <2>1 DEF WakeInv, SleeperWillBeWoken, EmptyBetween
<1>2. CASE BeginWait(p)
  <2>1. UNCHANGED <<lh, outstanding, committing, up>> /\ up
    BY <1>2 DEF BeginWait, Live, steps
  <2>2. committing \/ Len(lh) + (outstanding + 1) * MAXOPBLOCKS > LOGSIZE
    BY <1>2 DEF BeginWait, Reserved
  <2>3. outstanding = 0 => committing
    <3> SUFFICES ASSUME outstanding = 0, ~committing PROVE FALSE
      OBVIOUS
    <3>1. Len(lh) = 0
      BY <2>1 DEF WakeInv, EmptyBetween
    <3>2. (0 + 1) * MAXOPBLOCKS = MAXOPBLOCKS
      BY Sizes
    <3>. QED BY <2>2, <3>1, <3>2, Sizes
  <2>. QED BY <1>0, <2>1, <2>3 DEF WakeInv, SleeperWillBeWoken, EmptyBetween
<1>3. CASE BeginOp(p)
  <2>1. outstanding' > 0
    BY <1>0, <1>3 DEF BeginOp
  <2>. QED BY <2>1 DEF WakeInv, SleeperWillBeWoken, EmptyBetween
<1>4. CASE LogWrite(p)
  <2>1. outstanding > 0 /\ outstanding' = outstanding
    <3>1. p \in Active /\ outstanding' = outstanding
      BY <1>4, Zenon DEF LogWrite, Active
    <3>. QED BY <3>1, Counts
  <2>. QED BY <2>1 DEF WakeInv, SleeperWillBeWoken, EmptyBetween
<1>5. CASE EndOp(p)
  <2>1. outstanding' > 0 \/ committing'
    <3>1. outstanding' = outstanding - 1 /\ (outstanding - 1 = 0 => committing')
      BY <1>5, Zenon DEF EndOp
    <3>. QED BY <1>0, <3>1
  <2>. QED BY <1>0, <2>1 DEF WakeInv, SleeperWillBeWoken, EmptyBetween
<1>6. CASE CommitDone(p)
  <2>1. lh' = lh /\ lh = <<>>
    BY <1>6 DEF CommitDone, LInv, Journal
  <2>2. \A q \in Procs : opc'[q] # "sleep"
    BY <1>0, <1>6 DEF CommitDone, Awake
  <2>. QED BY <2>1, <2>2, SMTT(30) DEF WakeInv, SleeperWillBeWoken, EmptyBetween
<1>. QED BY <1>1, <1>2, <1>3, <1>4, <1>5, <1>6, SMTT(30) DEF OpStep

LEMMA WakeNext ==
  ASSUME LInv, LInv', WakeInv, [Next]_vars
  PROVE  WakeInv'
<1>1. CASE Crash
  <2>1. ~up' /\ \A q \in Procs : opc'[q] # "sleep"
    BY <1>1 DEF Crash
  <2>. QED BY <2>1 DEF WakeInv, SleeperWillBeWoken, EmptyBetween
<1>2. CASE DiskStep
  <2>1. UNCHANGED <<opc, outstanding, committing>>
    BY <1>2 DEF DiskStep, WriteLog, WriteHead, Install, ClearHead, ReadHead, ops
  <2>2. lh' = <<>> \/ ~up' \/ UNCHANGED <<lh, up>>
    <3>1. CASE ReadHead
      BY <3>1 DEF ReadHead, LInv, Journal
    <3>2. CASE WriteLog \/ WriteHead \/ Install \/ ClearHead
      BY <3>2 DEF WriteLog, WriteHead, Install, ClearHead
    <3>. QED BY <1>2, <3>1, <3>2, SMTT(30) DEF DiskStep
  <2>. QED BY <2>1, <2>2 DEF WakeInv, SleeperWillBeWoken, EmptyBetween
<1>3. CASE UNCHANGED vars
  BY <1>3 DEF vars, disk, ops, steps, WakeInv, SleeperWillBeWoken, EmptyBetween
<1>. QED BY <1>1, <1>2, <1>3, WakeOps DEF Next

(* Whoever sleeps in begin_op has someone to wake them, an operation that  *)
(* will end or a commit that will finish: between transactions the list is *)
(* empty, and one operation fits the log.                                  *)
THEOREM BeginOpNotForgotten == Spec => []SleeperWillBeWoken
<1>1. Init => WakeInv
  BY DEF Init, WakeInv, SleeperWillBeWoken, EmptyBetween
<1>2. LInv /\ LInv' /\ WakeInv /\ [Next]_vars => WakeInv'
  BY WakeNext
<1>3. WakeInv => SleeperWillBeWoken
  BY DEF WakeInv
<1>. QED BY <1>1, <1>2, <1>3, LogInvariant, PTL DEF Spec

-----------------------------------------------------------------------------
(* The log implements atomic transactions                                  *)

(* Steps that write no disk block and no buffer.                           *)
LEMMA RefineOps ==
  ASSUME LInv, NEW p \in Procs, Call(p) \/ OpStep(p)
  PROVE  [Tx!DNext]_(Tx!dvars)
<1> USE DEF Tx!DNext, Tx!dvars, disk, ops, steps
<1>0. UNCHANGED <<home, logblk, hdr, up>>
  BY DEF OpStep, Call, BeginWait, BeginOp, Modify, LogWrite, EndOp, CommitDone
<1>1. Recovered' = Recovered
  BY <1>0 DEF Recovered, RecoveredFrom
<1>2. CASE Call(p) \/ BeginWait(p) \/ LogWrite(p) \/ CommitDone(p)
  <2>1. UNCHANGED <<cache, outstanding>>
    BY <1>2 DEF Call, BeginWait, LogWrite, CommitDone
  <2>. QED BY <2>1, <1>0, <1>1
<1>3. CASE BeginOp(p)
  <2>1. cache' = cache /\ outstanding' = outstanding + 1
    BY <1>3 DEF BeginOp
  <2>2. Tx!DBegin
    BY <2>1, <1>0, <1>1 DEF Tx!DBegin
  <2>. QED BY <2>2
<1>4. CASE EndOp(p)
  <2>1. cache' = cache /\ outstanding' = outstanding - 1
    BY <1>4 DEF EndOp
  <2>2. outstanding > 0
    BY <1>4, EndOpCounted
  <2>3. Tx!DEnd
    BY <2>1, <2>2, <1>0, <1>1 DEF Tx!DEnd
  <2>. QED BY <2>3
<1>5. ASSUME NEW u \in Updates, Modify(p, u[1], u[2]) PROVE Tx!DWrite
  <2> DEFINE b == u[1]
             v == u[2]
  <2>0. b \in Blocks /\ v \in Vals
    BY LogAssumption
  <2>1. cache' = [cache EXCEPT ![b] = v] /\ outstanding' = outstanding /\ up /\ p \in Active
    BY <1>5 DEF Modify, Live, Active
  <2>2. outstanding > 0
    BY <2>1, Counts
  <2> HIDE DEF b, v
  <2>. QED BY <2>0, <2>1, <2>2, <1>0, <1>1 DEF Tx!DWrite
<1>. QED BY <1>2, <1>3, <1>4, <1>5, SMTT(30) DEF OpStep

LEMMA RefineDisk ==
  ASSUME LInv, Fits, DiskStep
  PROVE  [Tx!DNext]_(Tx!dvars)
<1> USE DEF Tx!DNext, Tx!dvars, ops, disk
<1>0. /\ home \in [Blocks -> Vals] /\ cache \in [Blocks -> Vals] /\ lh \in Seq(Blocks)
      /\ IsInjective(lh) /\ Len(lh) < size /\ Len(hdr) < size
  BY DEF LInv, TypeOK, Journal, Fits
<1>1. CASE WriteLog
  <2>1. UNCHANGED <<hdr, outstanding, up>> /\ hdr = <<>>
    BY <1>1 DEF WriteLog, LInv, Journal, Live
  <2>2. UNCHANGED <<home, cache>>
    <3>1. tail \in Nat /\ tail < Len(lh) /\ Len(lh) \in Nat /\ size \in Nat
      BY <1>1, Counts, Sizes DEF WriteLog, LInv, TypeOK, Journal
    <3>2. tail + 1 < size
      BY <3>1, <1>0
    <3>. QED BY <1>1, <3>2, SMTT(30) DEF WriteLog
  <2>3. Recovered' = Recovered
    BY <2>1, <2>2, <1>0, RecoveredEmpty DEF Recovered
  <2>. QED BY <2>1, <2>2, <2>3
<1>2. CASE WriteHead
  <2>1. /\ UNCHANGED <<home, logblk, cache, outstanding, up>> /\ hdr' = lh /\ up /\ cph = "head"
    BY <1>2 DEF WriteHead, Live
  <2>2. outstanding = 0 /\ \A p \in Procs : buf[p] = NoBlock
    BY <2>1, Alone
  <2>3. \A i \in 1..Len(lh) : cache[lh[i]] = logblk[i]
    BY <2>1 DEF LInv, Copied
  <2>4. \A b \in Blocks \ Range(lh) : cache[b] = home[b]
    BY <2>1, <2>2, LogAssumption, SMTT(30) DEF LInv, UnloggedIsClean
  <2>5. RecoveredFrom(lh, logblk, home) = cache
    BY <1>0, <2>3, <2>4, RecoveredIs, SMTT(30)
  <2>6. Recovered' = cache
    BY <1>0, <2>1, <2>5 DEF Recovered
  <2>7. Tx!DCommit
    BY <2>1, <2>2, <2>6 DEF Tx!DCommit
  <2>. QED BY <2>7
<1>3. CASE Install
  <2>1. /\ UNCHANGED <<logblk, hdr, lh, outstanding, up>> /\ cph = "install"
        /\ home' = [home EXCEPT ![lh[tail + 1]] = Slot(tail + 1)]
    BY <1>3 DEF Install
  <2>2. up => cache' = cache
    BY <1>3, InstallInv
  <2>3. /\ hdr = lh /\ tail + 1 \in 1..Len(lh) /\ Slot(tail + 1) = logblk[tail + 1]
        /\ \A i \in 1..Len(lh) : logblk[i] \in Vals
    <3>1. hdr = lh /\ tail < Len(lh)
      BY <2>1, Zenon DEF LInv, Journal
    <3>2. tail \in Nat /\ logblk \in [1..size - 1 -> Vals]
      BY DEF LInv, TypeOK
    <3>3. Len(lh) \in Nat /\ Len(lh) < size /\ size \in Nat
      BY <1>0, Counts, Sizes
    <3>. QED BY <3>1, <3>2, <3>3 DEF Slot
  <2>4. RecoveredFrom(lh, logblk, home') = RecoveredFrom(lh, logblk, home)
    <3>1. ASSUME NEW j \in 1..Len(lh)
          PROVE  RecoveredFrom(lh, logblk, [home EXCEPT ![lh[j]] = logblk[j]])
                   = RecoveredFrom(lh, logblk, home)
      BY <1>0, <2>3, RecoveredInstall, Zenon
    <3>. QED BY <2>1, <2>3, <3>1, Zenon
  <2>5. Recovered' = Recovered
    <3>1. /\ Recovered = RecoveredFrom(lh, logblk, home)
          /\ Recovered' = RecoveredFrom(lh, logblk, home')
      BY <1>0, <2>1, <2>3 DEF Recovered
    <3>. QED BY <3>1, <2>4, Zenon
  <2>. QED BY <2>1, <2>2, <2>5
<1>4. CASE ClearHead
  <2>1. /\ UNCHANGED <<home, logblk, cache, outstanding>> /\ cph = "clear" /\ hdr' = <<>> /\ up'
    BY <1>4 DEF ClearHead
  <2>2. cache = home
    BY <1>4, ClearHeadInv
  <2>3. hdr = lh /\ \A i \in 1..Len(lh) : home[lh[i]] = logblk[i]
    BY <2>1 DEF LInv, Journal, Copied
  <2>4. Recovered = home
    <3>1. RecoveredFrom(lh, logblk, home) = home
      BY <1>0, <2>3, RecoveredIs, SMTT(30)
    <3>. QED BY <3>1, <2>3, <1>0, SMTT(30) DEF Recovered
  <2>5. Recovered' = home
    BY <1>0, <2>1, RecoveredEmpty DEF Recovered
  <2>. QED BY <2>1, <2>2, <2>4, <2>5
<1>5. CASE ReadHead
  <2>1. UNCHANGED <<home, logblk, hdr, cache, outstanding, up>>
    BY <1>5 DEF ReadHead
  <2>. QED BY <2>1 DEF Recovered, RecoveredFrom
<1>. QED BY <1>1, <1>2, <1>3, <1>4, <1>5, SMTT(30) DEF DiskStep

(* Atomicity: whatever the interleaving of operations and the moment of a  *)
(* crash, during commit or during recovery itself, the disk that recovery  *)
(* produces is one that was current while no operation was under way,      *)
(* unless the transaction runs over the end of the log.                    *)
THEOREM LogIsAtomic == Spec => Atomic
<1>1. Init => Tx!DInit
  <2>1. ASSUME Init PROVE Recovered = home
    BY <2>1, RecoveredEmpty DEF Init, Recovered
  <2>. QED BY <2>1 DEF Init, Tx!DInit
<1>2. LInv /\ [Next]_vars => [Fits => Tx!DNext]_(Tx!dvars)
  <2> SUFFICES ASSUME LInv, Fits, [Next]_vars PROVE [Tx!DNext]_(Tx!dvars)
    OBVIOUS
  <2>1. CASE Crash
    <3>1. UNCHANGED <<home, logblk, hdr>> /\ ~up' /\ outstanding' = 0
      BY <2>1 DEF Crash, disk
    <3>2. Tx!DCrash
      BY <3>1 DEF Tx!DCrash, Recovered, RecoveredFrom
    <3>. QED BY <3>2 DEF Tx!DNext
  <2>2. CASE DiskStep
    BY <2>2, RefineDisk
  <2>3. ASSUME NEW p \in Procs, Call(p) \/ OpStep(p) PROVE [Tx!DNext]_(Tx!dvars)
    BY <2>3, RefineOps
  <2>4. CASE UNCHANGED vars
    BY <2>4, SMTT(30) DEF vars, disk, steps, Tx!dvars, Recovered, RecoveredFrom
  <2>. QED BY <2>1, <2>2, <2>3, <2>4 DEF Next
<1>. QED BY <1>1, <1>2, LogInvariant, PTL DEF Spec, Atomic
=============================================================================
