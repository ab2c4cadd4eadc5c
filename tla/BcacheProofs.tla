---------------------------- MODULE BcacheProofs ----------------------------
(***************************************************************************)
(* The buffer cache and the disk queue implement BlockStore, for every     *)
(* number of processes, buffers and blocks: the inductive invariant, its   *)
(* preservation by each step, and the refinement.                          *)
(***************************************************************************)
EXTENDS Bcache, TLAPS

(* Who uses a buffer has it marked busy and holding its block; a buffer    *)
(* that is busy has a user.                                                *)
UsersInv ==
  /\ \A p \in Using : /\ bp[p] \in Bufs /\ blk[p] \in Blocks
                      /\ blockno[bp[p]] = blk[p] /\ "busy" \in flags[bp[p]]
  /\ \A b \in Bufs : "busy" \in flags[b] => \E p \in Using : bp[p] = b

(* Only contents that are there can be dirty, and they belong to a block;  *)
(* contents that are not dirty agree with the disk.                        *)
FlagsInv ==
  \A b \in Bufs :
    /\ "dirty" \in flags[b] => "valid" \in flags[b]
    /\ "valid" \in flags[b] => blockno[b] \in Blocks
    /\ Finished(b) => data[b] = disk[blockno[b]]

(* What each place in the code may rely on.                                *)
PlacesInv ==
  \A p \in Procs :
    /\ pc[p] = "held" => "valid" \in flags[bp[p]]
    /\ pc[p] = "iderw" => ~Finished(bp[p])
    /\ pc[p] = "wait" => Finished(bp[p])
    /\ pc[p] \in {"bget", "asleep_bget"} => blk[p] \in Blocks
    /\ pc[p] = "asleep_bget" => bp[p] \in Bufs /\ "busy" \in flags[bp[p]]

(* The queue holds, once each, the buffers for which a process sleeps in   *)
(* iderw.                                                                  *)
QueueInv ==
  /\ IsInjective(idequeue)
  /\ \A i \in DOMAIN idequeue :
       /\ ~Finished(idequeue[i])
       /\ \E p \in Procs : pc[p] = "asleep_ide" /\ bp[p] = idequeue[i]
  /\ \A p \in Procs : pc[p] = "asleep_ide" => \E i \in DOMAIN idequeue : idequeue[i] = bp[p]

(* The disk works on the first of them, and has written what it reports    *)
(* written.                                                                *)
DiskInv ==
  /\ cmd = "idle" <=> idequeue = <<>>
  /\ cmd = "write" => "dirty" \in flags[Head(idequeue)]
  /\ cmd = "read" => "dirty" \notin flags[Head(idequeue)]
  /\ cmd = "done" /\ "dirty" \in flags[Head(idequeue)]
       => disk[blockno[Head(idequeue)]] = data[Head(idequeue)]

BInv ==
  /\ TypeOK /\ OneBufferPerBlock /\ UsersInv /\ FlagsInv /\ PlacesInv
  /\ QueueInv /\ DiskInv /\ OnlyBuffersRunOut

LEMMA BInvInit == Init => BInv
<1> SUFFICES ASSUME Init PROVE BInv
  OBVIOUS
<1>1. mru \in [Bufs -> Bufs] /\ IsInjective(mru) /\ Range(mru) = Bufs
  <2>1. mru \in [Bufs -> Bufs] /\ IsInjective(mru)
    BY BcacheAssumption DEF Init, Bufs, IsInjective
  <2>2. \A b \in Bufs : NBUF + 1 - b \in Bufs /\ mru[NBUF + 1 - b] = b
    BY BcacheAssumption DEF Init, Bufs
  <2>. QED BY <2>1, <2>2 DEF Range
<1>2. TypeOK
  BY <1>1 DEF Init, TypeOK, NoBuf
<1>3. Using = {}
  BY DEF Init, Using
<1>4. OneBufferPerBlock /\ UsersInv /\ OnlyBuffersRunOut
  BY <1>3 DEF Init, OneBufferPerBlock, UsersInv, OnlyBuffersRunOut
<1>5. FlagsInv /\ PlacesInv /\ QueueInv /\ DiskInv
  BY DEF Init, FlagsInv, PlacesInv, QueueInv, DiskInv, Finished, IsInjective
<1>. QED BY <1>2, <1>4, <1>5 DEF BInv

LEMMA BReadInv ==
  ASSUME BInv, NEW p \in Procs, NEW k \in Blocks, BRead(p, k)
  PROVE  BInv'
<1>1. /\ pc' \in [Procs -> {"idle", "bget", "asleep_bget", "iderw", "wait", "asleep_ide", "held"}]
      /\ blk' \in [Procs -> Blocks \cup {NoBlock}]
      /\ UNCHANGED <<disk, blockno, data, flags, mru, idequeue, cmd, bp, panicked>>
      /\ pc[p] = "idle" /\ pc'[p] = "bget" /\ blk'[p] = k
      /\ \A q \in Procs \ {p} : pc'[q] = pc[q] /\ blk'[q] = blk[q]
  BY DEF BInv, TypeOK, BRead, bufs
<1>2. Using' = Using /\ p \notin Using
  BY <1>1 DEF Using
<1>3. TypeOK' /\ OnlyBuffersRunOut'
  BY <1>1 DEF BInv, TypeOK, OnlyBuffersRunOut, IsInjective, Range
<1>4. OneBufferPerBlock' /\ UsersInv'
  BY <1>1, <1>2 DEF BInv, OneBufferPerBlock, UsersInv, Using
<1>5. FlagsInv' /\ PlacesInv'
  BY <1>1 DEF BInv, FlagsInv, PlacesInv, Finished
<1>6. QueueInv' /\ DiskInv'
  BY <1>1 DEF BInv, QueueInv, DiskInv, Finished, IsInjective
<1>. QED BY <1>3, <1>4, <1>5, <1>6 DEF BInv

LEMMA BGetHitInv ==
  ASSUME BInv, NEW p \in Procs, NEW b \in Bufs, BGetHit(p, b)
  PROVE  BInv'
<1>1. /\ pc' \in [Procs -> {"idle", "bget", "asleep_bget", "iderw", "wait", "asleep_ide", "held"}]
      /\ bp' \in [Procs -> Bufs \cup {NoBuf}]
      /\ UNCHANGED <<disk, blockno, data, mru, idequeue, cmd, blk, panicked>>
      /\ pc[p] = "bget" /\ bp'[p] = b /\ blockno[b] = blk[p] /\ blk[p] \in Blocks
      /\ \A q \in Procs \ {p} : pc'[q] = pc[q] /\ bp'[q] = bp[q]
  BY DEF BInv, TypeOK, BGetHit, Cached, PlacesInv
<1>2. CASE "busy" \in flags[b]
  <2>1. UNCHANGED flags /\ pc'[p] = "asleep_bget"
    BY <1>2 DEF BInv, TypeOK, BGetHit
  <2>2. Using' = Using /\ p \notin Using
    BY <1>1, <2>1 DEF Using
  <2>3. TypeOK' /\ OnlyBuffersRunOut'
    BY <1>1, <2>1 DEF BInv, TypeOK, OnlyBuffersRunOut, IsInjective, Range
  <2>4. OneBufferPerBlock' /\ UsersInv'
    BY <1>1, <2>1, <2>2 DEF BInv, OneBufferPerBlock, UsersInv, Using
  <2>5. FlagsInv' /\ PlacesInv'
    BY <1>1, <1>2, <2>1 DEF BInv, FlagsInv, PlacesInv, Finished
  <2>6. QueueInv' /\ DiskInv'
    BY <1>1, <2>1 DEF BInv, QueueInv, DiskInv, Finished, IsInjective
  <2>. QED BY <2>3, <2>4, <2>5, <2>6 DEF BInv
<1>3. CASE "busy" \notin flags[b]
  <2>1. /\ flags' \in [Bufs -> SUBSET {"busy", "valid", "dirty"}]
        /\ flags'[b] = flags[b] \cup {"busy"}
        /\ \A c \in Bufs \ {b} : flags'[c] = flags[c]
        /\ pc'[p] = IF "valid" \in flags[b] THEN "held" ELSE "iderw"
    <3>1. /\ flags \in [Bufs -> SUBSET {"busy", "valid", "dirty"}]
          /\ pc \in [Procs -> {"idle", "bget", "asleep_bget", "iderw", "wait", "asleep_ide", "held"}]
      BY DEF BInv, TypeOK
    <3>2. /\ flags' = [flags EXCEPT ![b] = @ \cup {"busy"}]
          /\ pc' = [pc EXCEPT ![p] = IF "valid" \in flags[b] THEN "held" ELSE "iderw"]
      BY <1>3, Zenon DEF BGetHit
    <3>. QED BY <3>1, <3>2
  <2>2. Using' = Using \cup {p} /\ p \notin Using /\ \A q \in Using : bp[q] # b
    BY <1>1, <1>3, <2>1 DEF Using, BInv, UsersInv
  <2>3. TypeOK' /\ OnlyBuffersRunOut'
    BY <1>1, <2>1 DEF BInv, TypeOK, OnlyBuffersRunOut, IsInjective, Range
  <2>4. OneBufferPerBlock' /\ UsersInv'
    BY <1>1, <2>1, <2>2 DEF BInv, OneBufferPerBlock, UsersInv, Using
  <2>5. \A c \in Bufs : Finished(c)' <=> Finished(c)
    BY <2>1 DEF Finished
  <2>6. FlagsInv'
    BY <1>1, <2>1, <2>5 DEF BInv, FlagsInv
  <2>7. PlacesInv'
    BY <1>1, <2>1, <2>2, <2>5 DEF BInv, PlacesInv, Using, UsersInv, FlagsInv, Finished
  <2>8. idequeue \in Seq(Bufs)
    BY DEF BInv, TypeOK
  <2>9. QueueInv' /\ DiskInv'
    BY <1>1, <2>1, <2>5, <2>8, SMTT(40) DEF BInv, QueueInv, DiskInv, IsInjective
  <2>. QED BY <2>3, <2>4, <2>6, <2>7, <2>9 DEF BInv
<1>. QED BY <1>2, <1>3

LEMMA BGetMissInv ==
  ASSUME BInv, NEW p \in Procs, NEW i \in Bufs, BGetMiss(p, i)
  PROVE  BInv'
<1>0. PICK b \in Bufs : b = mru[i]
  BY DEF BInv, TypeOK
<1>1. /\ b \in Bufs /\ "busy" \notin flags[b] /\ "dirty" \notin flags[b]
      /\ pc' \in [Procs -> {"idle", "bget", "asleep_bget", "iderw", "wait", "asleep_ide", "held"}]
      /\ bp' \in [Procs -> Bufs \cup {NoBuf}]
      /\ blockno' \in [Bufs -> Blocks \cup {NoBlock}]
      /\ flags' \in [Bufs -> SUBSET {"busy", "valid", "dirty"}]
      /\ UNCHANGED <<disk, data, mru, idequeue, cmd, blk, panicked>>
  BY <1>0 DEF BInv, TypeOK, BGetMiss, Recyclable
<1>2. /\ pc[p] = "bget" /\ pc'[p] = "iderw" /\ bp'[p] = b /\ blk[p] \in Blocks
      /\ flags'[b] = {"busy"} /\ blockno'[b] = blk[p]
      /\ \A q \in Procs \ {p} : pc'[q] = pc[q] /\ bp'[q] = bp[q]
      /\ \A c \in Bufs \ {b} : flags'[c] = flags[c] /\ blockno'[c] = blockno[c]
      /\ \A c \in Bufs : blockno[c] # blk[p]
  BY <1>0, <1>1 DEF BInv, TypeOK, BGetMiss, PlacesInv, Cached
<1>3. Using' = Using \cup {p} /\ p \notin Using /\ \A q \in Using : bp[q] # b
  BY <1>1, <1>2 DEF Using, BInv, UsersInv
<1>4. TypeOK' /\ OnlyBuffersRunOut'
  BY <1>1 DEF BInv, TypeOK, OnlyBuffersRunOut, IsInjective, Range
<1>5. OneBufferPerBlock' /\ UsersInv'
  BY <1>1, <1>2, <1>3 DEF BInv, OneBufferPerBlock, UsersInv, Using
<1>6. ~Finished(b)' /\ \A c \in Bufs \ {b} : Finished(c)' <=> Finished(c)
  BY <1>1, <1>2 DEF Finished
<1>7. FlagsInv'
  BY <1>1, <1>2, <1>6 DEF BInv, FlagsInv
<1>8. PlacesInv'
  BY <1>1, <1>2, <1>3, <1>6 DEF BInv, PlacesInv, Using, UsersInv, Finished
<1>9. idequeue \in Seq(Bufs) /\ \A j \in DOMAIN idequeue : idequeue[j] # b
  BY <1>3 DEF BInv, TypeOK, QueueInv, Using
<1>10. QueueInv'
  <2>1. IsInjective(idequeue')
    BY <1>1 DEF BInv, QueueInv
  <2>2. \A j \in DOMAIN idequeue : idequeue[j] \in Bufs \ {b} /\ ~Finished(idequeue[j])
    BY <1>9 DEF BInv, QueueInv
  <2>3. \A j \in DOMAIN idequeue' : ~Finished(idequeue[j])'
    BY <1>1, <1>6, <2>2 DEF Finished
  <2>4. \A j \in DOMAIN idequeue' : \E q \in Procs : pc'[q] = "asleep_ide" /\ bp'[q] = idequeue'[j]
    BY <1>1, <1>2 DEF BInv, QueueInv
  <2>5. \A q \in Procs : pc'[q] = "asleep_ide" => \E j \in DOMAIN idequeue' : idequeue'[j] = bp'[q]
    BY <1>1, <1>2 DEF BInv, QueueInv
  <2>. QED BY <2>1, <2>3, <2>4, <2>5 DEF QueueInv
<1>11. idequeue # <<>> => Head(idequeue) \in Bufs \ {b}
  BY <1>9
<1>12. DiskInv'
  BY <1>1, <1>2, <1>11 DEF BInv, DiskInv, TypeOK
<1>. QED BY <1>4, <1>5, <1>7, <1>8, <1>10, <1>12 DEF BInv

LEMMA ModifyInv ==
  ASSUME BInv, NEW p \in Procs, NEW v \in Vals, Modify(p, v)
  PROVE  BInv'
<1>0. PICK b \in Bufs : b = bp[p]
  BY DEF BInv, Modify, UsersInv, Using
<1>1. /\ b \in Bufs /\ "valid" \in flags[b] /\ p \in Using /\ pc[p] = "held"
  BY <1>0 DEF BInv, Modify, UsersInv, Using, PlacesInv
<1>2. /\ data' \in [Bufs -> Vals] /\ flags' \in [Bufs -> SUBSET {"busy", "valid", "dirty"}]
      /\ flags'[b] = flags[b] \cup {"dirty"}
      /\ \A c \in Bufs \ {b} : flags'[c] = flags[c] /\ data'[c] = data[c]
      /\ UNCHANGED <<disk, blockno, mru, idequeue, cmd, pc, blk, bp, panicked>>
  BY <1>0, <1>1 DEF BInv, TypeOK, Modify, procs
<1>3. Using' = Using
  BY <1>2 DEF Using
<1>4. TypeOK' /\ OnlyBuffersRunOut'
  BY <1>2 DEF BInv, TypeOK, OnlyBuffersRunOut, IsInjective, Range
<1>5. OneBufferPerBlock' /\ UsersInv'
  BY <1>0, <1>1, <1>2, <1>3 DEF BInv, OneBufferPerBlock, UsersInv
<1>6. ~Finished(b)' /\ \A c \in Bufs \ {b} : Finished(c)' <=> Finished(c)
  BY <1>1, <1>2 DEF Finished
<1>7. FlagsInv'
  BY <1>1, <1>2, <1>6 DEF BInv, FlagsInv
<1>8. PlacesInv'
  <2>1. \A q \in Procs : pc[q] = "wait" => bp[q] # b
    BY <1>0, <1>1 DEF BInv, OneBufferPerBlock, Using
  <2>. QED BY <1>0, <1>1, <1>2, <1>6, <2>1 DEF BInv, PlacesInv, UsersInv, Using
<1>9. idequeue \in Seq(Bufs) /\ \A j \in DOMAIN idequeue : idequeue[j] # b
  BY <1>0, <1>1 DEF BInv, TypeOK, QueueInv, Using, OneBufferPerBlock
<1>10. QueueInv' /\ DiskInv'
  BY <1>2, <1>6, <1>9 DEF BInv, QueueInv, DiskInv, IsInjective
<1>. QED BY <1>4, <1>5, <1>7, <1>8, <1>10 DEF BInv

LEMMA BWriteInv ==
  ASSUME BInv, NEW p \in Procs, BWrite(p)
  PROVE  BInv'
<1>0. PICK b \in Bufs : b = bp[p]
  BY DEF BInv, BWrite, UsersInv, Using
<1>1. /\ b \in Bufs /\ {"busy", "valid"} \subseteq flags[b] /\ p \in Using /\ pc[p] = "held"
  BY <1>0 DEF BInv, BWrite, UsersInv, Using, PlacesInv
<1>2. /\ flags' \in [Bufs -> SUBSET {"busy", "valid", "dirty"}]
      /\ pc' \in [Procs -> {"idle", "bget", "asleep_bget", "iderw", "wait", "asleep_ide", "held"}]
      /\ flags'[b] = flags[b] \cup {"dirty"} /\ pc'[p] = "iderw"
      /\ \A c \in Bufs \ {b} : flags'[c] = flags[c]
      /\ \A q \in Procs \ {p} : pc'[q] = pc[q]
      /\ panicked' = "no" /\ UNCHANGED <<disk, blockno, data, mru, idequeue, cmd, blk, bp>>
  BY <1>0, <1>1 DEF BInv, TypeOK, BWrite
<1>3. Using' = Using
  BY <1>1, <1>2 DEF Using
<1>4. TypeOK' /\ OnlyBuffersRunOut'
  BY <1>2 DEF BInv, TypeOK, OnlyBuffersRunOut, IsInjective, Range
<1>5. OneBufferPerBlock' /\ UsersInv'
  BY <1>0, <1>1, <1>2, <1>3 DEF BInv, OneBufferPerBlock, UsersInv
<1>6. ~Finished(b)' /\ \A c \in Bufs \ {b} : Finished(c)' <=> Finished(c)
  BY <1>1, <1>2 DEF Finished
<1>7. FlagsInv'
  BY <1>1, <1>2, <1>6 DEF BInv, FlagsInv
<1>8. PlacesInv'
  <2>1. \A q \in Procs : pc[q] = "wait" => bp[q] # b
    BY <1>0, <1>1 DEF BInv, OneBufferPerBlock, Using
  <2>. QED BY <1>0, <1>1, <1>2, <1>6, <2>1 DEF BInv, PlacesInv, UsersInv, Using
<1>9. idequeue \in Seq(Bufs) /\ \A j \in DOMAIN idequeue : idequeue[j] # b
  BY <1>0, <1>1 DEF BInv, TypeOK, QueueInv, Using, OneBufferPerBlock
<1>10. QueueInv' /\ DiskInv'
  BY <1>1, <1>2, <1>6, <1>9 DEF BInv, QueueInv, DiskInv, IsInjective
<1>. QED BY <1>4, <1>5, <1>7, <1>8, <1>10 DEF BInv

LEMMA BGetPanicInv ==
  ASSUME BInv, NEW p \in Procs, BGetPanic(p)
  PROVE  BInv'
<1>1. UNCHANGED <<disk, blockno, data, flags, mru, idequeue, cmd, pc, blk, bp>> /\ panicked' = "bget"
  BY DEF BGetPanic, bufs, procs
<1>2. TypeOK' /\ OnlyBuffersRunOut'
  BY <1>1 DEF BInv, TypeOK, OnlyBuffersRunOut, IsInjective, Range
<1>3. OneBufferPerBlock' /\ UsersInv' /\ FlagsInv' /\ PlacesInv'
  BY <1>1 DEF BInv, OneBufferPerBlock, UsersInv, Using, FlagsInv, PlacesInv, Finished
<1>4. QueueInv' /\ DiskInv'
  BY <1>1 DEF BInv, QueueInv, DiskInv, Finished, IsInjective
<1>. QED BY <1>2, <1>3, <1>4 DEF BInv

(* What brelse makes of the list is a list of the same buffers.            *)
LEMMA AtHeadList ==
  ASSUME mru \in [Bufs -> Bufs], IsInjective(mru), Range(mru) = Bufs, NEW b \in Bufs
  PROVE  AtHead(b) \in [Bufs -> Bufs] /\ IsInjective(AtHead(b)) /\ Range(AtHead(b)) = Bufs
<1> DEFINE place == CHOOSE i \in Bufs : mru[i] = b
<1>1. place \in Bufs /\ mru[place] = b
  BY DEF Range
<1> HIDE DEF place
<1> DEFINE s == [i \in Bufs |-> IF i = 1 THEN b ELSE IF i <= place THEN mru[i - 1] ELSE mru[i]]
<1>2. AtHead(b) = s
  BY DEF AtHead, place
<1>3. /\ s \in [Bufs -> Bufs] /\ 1 \in Bufs /\ s[1] = b
      /\ \A i \in Bufs : i # 1 /\ i <= place => i - 1 \in Bufs /\ s[i] = mru[i - 1]
      /\ \A i \in Bufs : i > place => s[i] = mru[i] /\ i # 1
  <2>1. 1 \in Bufs /\ \A i \in Bufs : i # 1 => i - 1 \in Bufs
    BY <1>1, BcacheAssumption DEF Bufs
  <2>2. \A i \in Bufs : i > place => i # 1 /\ ~(i <= place)
    BY <1>1, BcacheAssumption DEF Bufs
  <2>3. \A i \in Bufs : s[i] = IF i = 1 THEN b ELSE IF i <= place THEN mru[i - 1] ELSE mru[i]
    OBVIOUS
  <2>4. s \in [Bufs -> Bufs]
    BY <2>1
  <2>. QED BY <2>1, <2>2, <2>3, <2>4
<1> HIDE DEF s
<1>4. IsInjective(s)
  <2> SUFFICES ASSUME NEW i \in Bufs, NEW j \in Bufs, s[i] = s[j], i # j PROVE FALSE
    BY <1>3 DEF IsInjective
  <2>1. \A x, y \in Bufs : mru[x] = mru[y] => x = y
    BY DEF IsInjective
  <2>. QED BY <1>1, <1>3, <2>1 DEF Bufs
<1>5. Range(s) = Bufs
  <2>1. ASSUME NEW c \in Bufs PROVE \E i \in Bufs : s[i] = c
    <3>1. PICK x \in Bufs : mru[x] = c
      BY DEF Range
    <3>2. CASE x = place
      BY <1>1, <1>3, <3>1, <3>2
    <3>3. CASE x > place
      BY <1>1, <1>3, <3>1, <3>3
    <3>4. CASE x < place
      <4>1. x + 1 \in Bufs /\ x + 1 # 1 /\ x + 1 <= place /\ (x + 1) - 1 = x
        BY <1>1, <3>4, BcacheAssumption DEF Bufs
      <4>. QED BY <1>3, <3>1, <4>1
    <3>. QED BY <1>1, <3>2, <3>3, <3>4 DEF Bufs
  <2>. QED BY <1>3, <2>1 DEF Range
<1>. QED BY <1>2, <1>3, <1>4, <1>5

LEMMA BRelseInv ==
  ASSUME BInv, NEW p \in Procs, BRelse(p)
  PROVE  BInv'
<1>0. PICK b \in Bufs : b = bp[p]
  BY DEF BInv, BRelse, UsersInv, Using
<1>1. /\ {"busy", "valid"} \subseteq flags[b] /\ p \in Using /\ pc[p] = "held" /\ pc'[p] = "idle"
      /\ \A q \in Using \ {p} : bp[q] # b
  BY <1>0 DEF BInv, BRelse, UsersInv, Using, PlacesInv, OneBufferPerBlock, TypeOK, Woken
<1>2. /\ flags' \in [Bufs -> SUBSET {"busy", "valid", "dirty"}]
      /\ flags'[b] = flags[b] \ {"busy"}
      /\ \A c \in Bufs \ {b} : flags'[c] = flags[c]
      /\ bp' \in [Procs -> Bufs \cup {NoBuf}] /\ blk' \in [Procs -> Blocks \cup {NoBlock}]
      /\ \A q \in Procs \ {p} : bp'[q] = bp[q] /\ blk'[q] = blk[q]
      /\ panicked' = "no" /\ UNCHANGED <<disk, blockno, data, idequeue, cmd>>
  BY <1>0, <1>1 DEF BInv, TypeOK, BRelse
<1>3. /\ pc' \in [Procs -> {"idle", "bget", "asleep_bget", "iderw", "wait", "asleep_ide", "held"}]
      /\ \A q \in Procs \ {p} :
           pc'[q] = IF bp[q] = b /\ pc[q] = "asleep_bget" THEN "bget" ELSE pc[q]
  <2>1. \A q \in Procs \ {p} : ~(bp[q] = b /\ pc[q] = "asleep_ide")
    BY <1>1 DEF Using
  <2>. QED BY <1>0, <2>1 DEF BInv, TypeOK, BRelse, Woken
<1>4. Using' = Using \ {p}
  BY <1>1, <1>3 DEF Using
<1>5. TypeOK' /\ OnlyBuffersRunOut'
  <2>1. mru' \in [Bufs -> Bufs] /\ IsInjective(mru') /\ Range(mru') = Bufs
    BY <1>0, AtHeadList DEF BInv, TypeOK, BRelse
  <2>. QED BY <1>2, <1>3, <2>1 DEF BInv, TypeOK, OnlyBuffersRunOut
<1>6. OneBufferPerBlock' /\ UsersInv'
  BY <1>0, <1>1, <1>2, <1>4 DEF BInv, OneBufferPerBlock, UsersInv, Using
<1>7. \A c \in Bufs : Finished(c)' <=> Finished(c)
  BY <1>2 DEF Finished
<1>8. FlagsInv'
  BY <1>2, <1>7 DEF BInv, FlagsInv
<1>9. PlacesInv'
  BY <1>1, <1>2, <1>3, <1>7 DEF BInv, PlacesInv, Using, UsersInv
<1>10. idequeue \in Seq(Bufs)
  BY DEF BInv, TypeOK
<1>11. QueueInv'
  <2>1. IsInjective(idequeue')
    BY <1>2 DEF BInv, QueueInv
  <2>2. \A j \in DOMAIN idequeue' : ~Finished(idequeue[j])'
    BY <1>2, <1>7, <1>10 DEF BInv, QueueInv
  <2>3. \A j \in DOMAIN idequeue' : \E q \in Procs : pc'[q] = "asleep_ide" /\ bp'[q] = idequeue'[j]
    BY <1>1, <1>2, <1>3 DEF BInv, QueueInv
  <2>4. \A q \in Procs : pc'[q] = "asleep_ide" => \E j \in DOMAIN idequeue' : idequeue'[j] = bp'[q]
    BY <1>1, <1>2, <1>3 DEF BInv, QueueInv
  <2>. QED BY <2>1, <2>2, <2>3, <2>4 DEF QueueInv
<1>12. idequeue # <<>> => Head(idequeue) \in Bufs
  BY <1>10
<1>13. DiskInv'
  BY <1>2, <1>12 DEF BInv, DiskInv, TypeOK
<1>. QED BY <1>5, <1>6, <1>8, <1>9, <1>11, <1>13 DEF BInv

(* The first request: it is that of one sleeping process.                  *)
LEMMA FirstRequest ==
  ASSUME BInv, idequeue # <<>>
  PROVE  \E b \in Bufs, q \in Using :
           /\ b = Head(idequeue) /\ b = idequeue[1] /\ 1 \in DOMAIN idequeue
           /\ pc[q] = "asleep_ide" /\ bp[q] = b /\ blockno[b] \in Blocks /\ ~Finished(b)
           /\ \A r \in Using \ {q} : bp[r] # b
<1>1. /\ idequeue \in Seq(Bufs) /\ 1 \in DOMAIN idequeue
      /\ Head(idequeue) = idequeue[1] /\ idequeue[1] \in Bufs
  BY DEF BInv, TypeOK
<1>2. PICK q \in Procs : pc[q] = "asleep_ide" /\ bp[q] = idequeue[1]
  BY <1>1 DEF BInv, QueueInv
<1>3. q \in Using
  BY <1>2 DEF Using
<1>4. blockno[idequeue[1]] \in Blocks /\ ~Finished(idequeue[1])
  BY <1>1, <1>2, <1>3 DEF BInv, UsersInv, QueueInv
<1>5. \A r \in Using \ {q} : bp[r] # idequeue[1]
  BY <1>2, <1>3 DEF BInv, OneBufferPerBlock
<1>. QED BY <1>1, <1>2, <1>3, <1>4, <1>5

LEMMA IdeRwInv ==
  ASSUME BInv, NEW p \in Procs, IdeRw(p)
  PROVE  BInv'
<1>0. PICK b \in Bufs : b = bp[p]
  BY DEF BInv, IdeRw, UsersInv, Using
<1>1. /\ p \in Using /\ pc[p] = "iderw" /\ pc'[p] = "asleep_ide" /\ "busy" \in flags[b] /\ ~Finished(b)
      /\ \A q \in Using \ {p} : bp[q] # b
  BY <1>0 DEF BInv, IdeRw, UsersInv, Using, PlacesInv, OneBufferPerBlock, TypeOK
<1>2. /\ pc' \in [Procs -> {"idle", "bget", "asleep_bget", "iderw", "wait", "asleep_ide", "held"}]
      /\ \A q \in Procs \ {p} : pc'[q] = pc[q]
      /\ panicked' = "no" /\ idequeue' = Append(idequeue, b)
      /\ UNCHANGED <<disk, blockno, data, flags, mru, blk, bp>>
  BY <1>0, <1>1 DEF BInv, TypeOK, IdeRw
<1>3. Using' = Using
  BY <1>1, <1>2 DEF Using
<1>4. /\ idequeue \in Seq(Bufs) /\ idequeue' \in Seq(Bufs)
      /\ Len(idequeue') = Len(idequeue) + 1 /\ idequeue'[Len(idequeue) + 1] = b
      /\ \A j \in DOMAIN idequeue : j \in DOMAIN idequeue' /\ idequeue'[j] = idequeue[j]
      /\ \A j \in DOMAIN idequeue' : j \in DOMAIN idequeue \/ j = Len(idequeue) + 1
      /\ Len(idequeue) + 1 \in DOMAIN idequeue'
  BY <1>2 DEF BInv, TypeOK
<1>5. \A j \in DOMAIN idequeue : idequeue[j] # b
  BY <1>1 DEF BInv, QueueInv, Using
<1>6. idequeue' # <<>> /\ Head(idequeue') = IF idequeue = <<>> THEN b ELSE Head(idequeue)
  BY <1>4
<1>7. cmd' = IF idequeue # <<>> THEN cmd ELSE IF "dirty" \in flags[b] THEN "write" ELSE "read"
  BY <1>0, <1>2 DEF IdeRw, Idestart
<1>8. TypeOK' /\ OnlyBuffersRunOut'
  BY <1>2, <1>4, <1>7 DEF BInv, TypeOK, OnlyBuffersRunOut, IsInjective, Range
<1>9. OneBufferPerBlock' /\ UsersInv'
  BY <1>2, <1>3 DEF BInv, OneBufferPerBlock, UsersInv
<1>10. FlagsInv' /\ PlacesInv'
  BY <1>1, <1>2 DEF BInv, FlagsInv, PlacesInv, Finished
<1>11. QueueInv'
  <2>1. IsInjective(idequeue')
    BY <1>4, <1>5 DEF BInv, QueueInv, IsInjective
  <2>2. \A j \in DOMAIN idequeue' : ~Finished(idequeue[j])'
    BY <1>1, <1>2, <1>4 DEF BInv, QueueInv, Finished
  <2>3. \A j \in DOMAIN idequeue' : \E q \in Procs : pc'[q] = "asleep_ide" /\ bp'[q] = idequeue'[j]
    <3> SUFFICES ASSUME NEW j \in DOMAIN idequeue'
                 PROVE  \E q \in Procs : pc'[q] = "asleep_ide" /\ bp[q] = idequeue'[j]
      BY <1>2
    <3>1. CASE j \in DOMAIN idequeue
      <4>1. PICK q \in Procs : pc[q] = "asleep_ide" /\ bp[q] = idequeue[j]
        BY <3>1 DEF BInv, QueueInv
      <4>. QED BY <1>1, <1>2, <1>4, <3>1, <4>1
    <3>2. CASE j = Len(idequeue) + 1
      BY <1>0, <1>1, <1>4, <3>2
    <3>. QED BY <1>4, <3>1, <3>2
  <2>4. \A q \in Procs : pc'[q] = "asleep_ide" => \E j \in DOMAIN idequeue' : idequeue'[j] = bp'[q]
    BY <1>0, <1>1, <1>2, <1>4 DEF BInv, QueueInv
  <2>. QED BY <2>1, <2>2, <2>3, <2>4 DEF QueueInv
<1>12. DiskInv'
  BY <1>2, <1>6, <1>7 DEF BInv, DiskInv
<1>. QED BY <1>8, <1>9, <1>10, <1>11, <1>12 DEF BInv

LEMMA IdeWaitInv ==
  ASSUME BInv, NEW p \in Procs, IdeWait(p)
  PROVE  BInv'
<1>1. pc[p] = "wait" /\ Finished(bp[p])
  BY DEF BInv, IdeWait, PlacesInv
<1>2. /\ pc' \in [Procs -> {"idle", "bget", "asleep_bget", "iderw", "wait", "asleep_ide", "held"}]
      /\ pc'[p] = "held" /\ \A q \in Procs \ {p} : pc'[q] = pc[q]
      /\ UNCHANGED <<disk, blockno, data, flags, mru, idequeue, cmd, blk, bp, panicked>>
  BY <1>1 DEF BInv, TypeOK, IdeWait, bufs
<1>3. Using' = Using
  BY <1>1, <1>2 DEF Using
<1>4. TypeOK' /\ OnlyBuffersRunOut'
  BY <1>2 DEF BInv, TypeOK, OnlyBuffersRunOut, IsInjective, Range
<1>5. OneBufferPerBlock' /\ UsersInv'
  BY <1>2, <1>3 DEF BInv, OneBufferPerBlock, UsersInv
<1>6. FlagsInv' /\ PlacesInv'
  BY <1>1, <1>2 DEF BInv, FlagsInv, PlacesInv, Finished
<1>7. QueueInv' /\ DiskInv'
  BY <1>1, <1>2 DEF BInv, QueueInv, DiskInv, Finished, IsInjective
<1>. QED BY <1>4, <1>5, <1>6, <1>7 DEF BInv

LEMMA DiskDoneInv ==
  ASSUME BInv, DiskDone
  PROVE  BInv'
<1>1. /\ UNCHANGED <<blockno, data, flags, mru, idequeue, pc, blk, bp, panicked>>
      /\ cmd \in {"read", "write"} /\ cmd' = "done" /\ idequeue # <<>>
  BY DEF DiskDone, BInv, DiskInv, bufs, procs
<1>2. PICK b \in Bufs : b = Head(idequeue) /\ blockno[b] \in Blocks /\ ~Finished(b)
  BY <1>1, FirstRequest
<1>3. disk' = IF cmd = "write" THEN [disk EXCEPT ![blockno[b]] = data[b]] ELSE disk
  BY <1>2 DEF DiskDone
<1>4. TypeOK' /\ OnlyBuffersRunOut'
  BY <1>1, <1>2, <1>3 DEF BInv, TypeOK, OnlyBuffersRunOut, IsInjective, Range
<1>5. OneBufferPerBlock' /\ UsersInv' /\ PlacesInv' /\ QueueInv'
  BY <1>1 DEF BInv, OneBufferPerBlock, UsersInv, PlacesInv, QueueInv, Using, Finished, IsInjective
<1>6. \A c \in Bufs : "valid" \in flags[c] /\ c # b => disk'[blockno[c]] = disk[blockno[c]]
  BY <1>2, <1>3, BcacheAssumption DEF BInv, TypeOK, OneBufferPerBlock, FlagsInv
<1>7. FlagsInv'
  BY <1>1, <1>2, <1>6 DEF BInv, FlagsInv, Finished
<1>8. DiskInv'
  BY <1>1, <1>2, <1>3 DEF BInv, DiskInv, TypeOK
<1>. QED BY <1>4, <1>5, <1>7, <1>8 DEF BInv

LEMMA IdeIntrInv ==
  ASSUME BInv, IdeIntr
  PROVE  BInv'
<1>0. cmd = "done" /\ idequeue # <<>>
  BY DEF IdeIntr, BInv, DiskInv
<1>1. PICK b \in Bufs, p \in Using :
           /\ b = Head(idequeue) /\ b = idequeue[1] /\ 1 \in DOMAIN idequeue
           /\ pc[p] = "asleep_ide" /\ bp[p] = b /\ blockno[b] \in Blocks /\ ~Finished(b)
           /\ \A r \in Using \ {p} : bp[r] # b
  BY <1>0, FirstRequest
<1>2. /\ flags' \in [Bufs -> SUBSET {"busy", "valid", "dirty"}] /\ data' \in [Bufs -> Vals]
      /\ flags'[b] = (flags[b] \cup {"valid"}) \ {"dirty"}
      /\ data'[b] = IF "dirty" \in flags[b] THEN data[b] ELSE disk[blockno[b]]
      /\ \A c \in Bufs \ {b} : flags'[c] = flags[c] /\ data'[c] = data[c]
      /\ idequeue' = Tail(idequeue)
      /\ UNCHANGED <<disk, blockno, mru, blk, bp, panicked>>
  BY <1>1 DEF BInv, TypeOK, IdeIntr
<1>3. /\ pc' \in [Procs -> {"idle", "bget", "asleep_bget", "iderw", "wait", "asleep_ide", "held"}]
      /\ pc'[p] = "wait"
      /\ \A q \in Procs \ {p} :
           pc'[q] = IF bp[q] = b /\ pc[q] = "asleep_bget" THEN "bget" ELSE pc[q]
  <2>1. \A q \in Procs \ {p} : ~(bp[q] = b /\ pc[q] = "asleep_ide")
    BY <1>1 DEF Using
  <2>2. p \in Procs
    BY DEF Using
  <2>. QED BY <1>1, <2>1, <2>2 DEF BInv, TypeOK, IdeIntr, Woken
<1>4. Using' = Using /\ p \in Procs
  BY <1>1, <1>3 DEF Using
<1>5. /\ idequeue \in Seq(Bufs) /\ idequeue' \in Seq(Bufs) /\ Len(idequeue) \in Nat
      /\ Len(idequeue') = Len(idequeue) - 1
      /\ \A j \in DOMAIN idequeue' : j + 1 \in DOMAIN idequeue /\ idequeue'[j] = idequeue[j + 1] /\ j + 1 # 1
      /\ \A j \in DOMAIN idequeue : j # 1 => j - 1 \in DOMAIN idequeue' /\ idequeue'[j - 1] = idequeue[j]
  BY <1>0, <1>2 DEF BInv, TypeOK
<1>6. \A j \in DOMAIN idequeue' : idequeue'[j] \in Bufs \ {b}
  <2>1. \A j \in DOMAIN idequeue : idequeue[j] \in Bufs /\ (idequeue[j] = idequeue[1] => j = 1)
    BY <1>1, <1>5 DEF BInv, QueueInv, IsInjective
  <2>. QED BY <1>1, <1>5, <2>1
<1>7. cmd' = IF idequeue' = <<>> THEN "idle" ELSE IF "dirty" \in flags'[Head(idequeue')] THEN "write" ELSE "read"
  BY <1>2 DEF IdeIntr, Idestart
<1>8. TypeOK' /\ OnlyBuffersRunOut'
  BY <1>2, <1>3, <1>5, <1>7 DEF BInv, TypeOK, OnlyBuffersRunOut, IsInjective, Range
<1>9. OneBufferPerBlock' /\ UsersInv'
  <2>1. OneBufferPerBlock'
    BY <1>2, <1>4, Zenon DEF BInv, OneBufferPerBlock
  <2>2. \A c \in Bufs : "busy" \in flags'[c] <=> "busy" \in flags[c]
    BY <1>2
  <2>3. UsersInv'
    BY <1>2, <1>4, <2>2, Zenon DEF BInv, UsersInv
  <2>. QED BY <2>1, <2>3
<1>10. Finished(b)' /\ \A c \in Bufs \ {b} : Finished(c)' <=> Finished(c)
  BY <1>2 DEF Finished
<1>11. FlagsInv'
  BY <1>0, <1>1, <1>2, <1>10 DEF BInv, FlagsInv, DiskInv
<1>12. PlacesInv'
  <2> SUFFICES ASSUME NEW q \in Procs
               PROVE  /\ pc'[q] = "held" => "valid" \in flags'[bp[q]]
                      /\ pc'[q] = "iderw" => ~Finished(bp[q])'
                      /\ pc'[q] = "wait" => Finished(bp[q])'
                      /\ pc'[q] \in {"bget", "asleep_bget"} => blk[q] \in Blocks
                      /\ pc'[q] = "asleep_bget" => bp[q] \in Bufs /\ "busy" \in flags'[bp[q]]
    BY <1>2 DEF PlacesInv
  <2>1. CASE q = p
    BY <1>1, <1>2, <1>3, <1>4, <1>10, <2>1 DEF Finished
  <2>2. CASE q # p /\ q \in Using
    BY <1>1, <1>2, <1>3, <1>10, <2>2 DEF BInv, PlacesInv, UsersInv, Finished, Using
  <2>3. CASE q # p /\ q \notin Using
    BY <1>1, <1>2, <1>3, <2>3 DEF BInv, PlacesInv, Using
  <2>. QED BY <2>1, <2>2, <2>3
<1>13. QueueInv'
  <2>1. IsInjective(idequeue')
    BY <1>5 DEF BInv, QueueInv, IsInjective
  <2>2. \A j \in DOMAIN idequeue' : ~Finished(idequeue[j])'
    <3> SUFFICES ASSUME NEW j \in DOMAIN idequeue'
                 PROVE  ~Finished(idequeue[j])'
      OBVIOUS
    <3>1. PICK c \in Bufs \ {b} : c = idequeue'[j] /\ c = idequeue[j + 1]
      BY <1>5, <1>6
    <3>2. ~Finished(c)
      BY <1>5, <3>1 DEF BInv, QueueInv
    <3>. QED BY <1>10, <3>1, <3>2 DEF Finished
  <2>3. \A j \in DOMAIN idequeue' : \E q \in Procs : pc'[q] = "asleep_ide" /\ bp'[q] = idequeue'[j]
    <3> SUFFICES ASSUME NEW j \in DOMAIN idequeue'
                 PROVE  \E q \in Procs : pc'[q] = "asleep_ide" /\ bp[q] = idequeue'[j]
      BY <1>2
    <3>1. PICK q \in Procs : pc[q] = "asleep_ide" /\ bp[q] = idequeue[j + 1]
      BY <1>5 DEF BInv, QueueInv
    <3>2. q # p
      BY <1>1, <1>5, <1>6, <3>1
    <3>. QED BY <1>3, <1>5, <3>1, <3>2
  <2>4. \A q \in Procs : pc'[q] = "asleep_ide" => \E j \in DOMAIN idequeue' : idequeue'[j] = bp'[q]
    <3> SUFFICES ASSUME NEW q \in Procs, pc'[q] = "asleep_ide"
                 PROVE  \E j \in DOMAIN idequeue' : idequeue'[j] = bp[q]
      BY <1>2
    <3>1. q # p /\ pc[q] = "asleep_ide" /\ q \in Using
      BY <1>3 DEF Using
    <3>2. PICK j \in DOMAIN idequeue : idequeue[j] = bp[q]
      BY <3>1 DEF BInv, QueueInv
    <3>3. j # 1
      BY <1>1, <3>1, <3>2
    <3>. QED BY <1>5, <3>2, <3>3
  <2>. QED BY <2>1, <2>2, <2>3, <2>4 DEF QueueInv
<1>14. DiskInv'
  BY <1>7 DEF DiskInv
<1>. QED BY <1>8, <1>9, <1>11, <1>12, <1>13, <1>14 DEF BInv

LEMMA NextInv == BInv /\ [Next]_vars => BInv'
<1> SUFFICES ASSUME BInv, [Next]_vars PROVE BInv'
  OBVIOUS
<1>1. CASE UNCHANGED vars
  <2>1. UNCHANGED <<disk, blockno, data, flags, mru, idequeue, cmd, pc, blk, bp, panicked>>
    BY <1>1 DEF vars, bufs, procs
  <2>2. TypeOK' /\ OnlyBuffersRunOut'
    BY <2>1 DEF BInv, TypeOK, OnlyBuffersRunOut, IsInjective, Range
  <2>3. OneBufferPerBlock' /\ UsersInv' /\ FlagsInv' /\ PlacesInv'
    BY <2>1 DEF BInv, OneBufferPerBlock, UsersInv, Using, FlagsInv, PlacesInv, Finished
  <2>4. QueueInv' /\ DiskInv'
    BY <2>1 DEF BInv, QueueInv, DiskInv, Finished, IsInjective
  <2>. QED BY <2>2, <2>3, <2>4 DEF BInv
<1>2. CASE PanicLoop
  BY <1>1, <1>2 DEF PanicLoop
<1>3. CASE DiskDone \/ IdeIntr
  BY <1>3, DiskDoneInv, IdeIntrInv
<1>4. ASSUME NEW p \in Procs, Kernel(p) PROVE BInv'
  BY <1>4, BGetPanicInv, BRelseInv, IdeRwInv, IdeWaitInv, BGetHitInv, BGetMissInv DEF Kernel
<1>5. ASSUME NEW p \in Procs,
             BWrite(p) \/ (\E k \in Blocks : BRead(p, k)) \/ \E v \in Vals : Modify(p, v)
      PROVE  BInv'
  BY <1>5, BWriteInv, BReadInv, ModifyInv
<1>. QED BY <1>1, <1>2, <1>3, <1>4, <1>5 DEF Next

(* The invariant of the buffer cache and of the disk queue.                *)
THEOREM BcacheInvariant == Spec => []BInv
<1>. QED BY BInvInit, NextInv, PTL DEF Spec

(* No block is cached twice and no two processes use a buffer, although    *)
(* bget sleeps, and others recycle, between its look-up and its B_BUSY.    *)
THEOREM BlocksCachedOnce == Spec => []OneBufferPerBlock
<1>1. BInv => OneBufferPerBlock
  BY DEF BInv
<1>. QED BY <1>1, BcacheInvariant, PTL

(* No wakeup of bio.c or ide.c is lost: the release or the interrupt a     *)
(* process sleeps for is still to come.                                    *)
THEOREM NoSleeperForgotten == Spec => []SleepersRemembered
<1>1. BInv => SleepersRemembered
  BY DEF BInv, SleepersRemembered, UsersInv, PlacesInv, QueueInv, DiskInv
<1>. QED BY <1>1, BcacheInvariant, PTL

(* The panics over a buffer that is not busy, in bwrite, brelse and iderw, *)
(* and iderw's over one that needs no transfer are never reached.          *)
THEOREM PanicsOnlyWithoutBuffers == Spec => []OnlyBuffersRunOut
<1>1. BInv => OnlyBuffersRunOut
  BY DEF BInv
<1>. QED BY <1>1, BcacheInvariant, PTL

-----------------------------------------------------------------------------
(* The refinement of BlockStore                                            *)

(* What Contents and Holder choose, without the choice.                    *)
HasContents(k, v) ==
  \/ \E b \in Bufs : blockno[b] = k /\ "valid" \in flags[b] /\ data[b] = v
  \/ disk[k] = v /\ \A b \in Bufs : blockno[b] = k => "valid" \notin flags[b]
HeldBy(k, h) ==
  \/ h \in Using /\ blk[h] = k /\ "valid" \in flags[bp[h]]
  \/ h = Nobody /\ \A p \in Using : blk[p] = k => "valid" \notin flags[bp[p]]
Mapped ==
  /\ Contents = [k \in Blocks |-> Contents[k]] /\ Holder = [k \in Blocks |-> Holder[k]]
  /\ \A k \in Blocks :
       /\ Contents[k] \in Vals /\ Holder[k] \in Procs \cup {Nobody}
       /\ HasContents(k, Contents[k]) /\ \A v \in Vals : HasContents(k, v) => v = Contents[k]
       /\ HeldBy(k, Holder[k]) /\ \A h \in Procs \cup {Nobody} : HeldBy(k, h) => h = Holder[k]

LEMMA MappedWell == BInv => Mapped
<1> SUFFICES ASSUME BInv PROVE Mapped
  OBVIOUS
<1>0. Contents = [k \in Blocks |-> Contents[k]] /\ Holder = [k \in Blocks |-> Holder[k]]
  BY SMTT(40) DEF Contents, Holder
<1> SUFFICES ASSUME NEW k \in Blocks
             PROVE  /\ Contents[k] \in Vals /\ Holder[k] \in Procs \cup {Nobody}
                    /\ HasContents(k, Contents[k]) /\ \A v \in Vals : HasContents(k, v) => v = Contents[k]
                    /\ HeldBy(k, Holder[k]) /\ \A h \in Procs \cup {Nobody} : HeldBy(k, h) => h = Holder[k]
  BY <1>0 DEF Mapped
<1> DEFINE c == {b \in Cached(k) : "valid" \in flags[b]}
           h == {p \in Using : blk[p] = k /\ "valid" \in flags[bp[p]]}
<1>1. /\ Contents[k] = IF c = {} THEN disk[k] ELSE data[CHOOSE b \in c : TRUE]
      /\ Holder[k] = IF h = {} THEN Nobody ELSE CHOOSE p \in h : TRUE
  BY DEF Contents, Holder
<1>2. c # {} => (CHOOSE b \in c : TRUE) \in c
  OBVIOUS
<1>3. h # {} => (CHOOSE p \in h : TRUE) \in h
  OBVIOUS
<1>4. \A a, b \in c : a = b
  BY BcacheAssumption DEF BInv, OneBufferPerBlock, Cached
<1>5. \A p, q \in h : p = q
  <2> SUFFICES ASSUME NEW p \in h, NEW q \in h PROVE p = q
    OBVIOUS
  <2>1. bp[p] \in c /\ bp[q] \in c
    BY DEF BInv, UsersInv, Cached
  <2>. QED BY <1>4, <2>1 DEF BInv, OneBufferPerBlock
<1>6. h \subseteq Procs /\ c \subseteq Bufs /\ Nobody \notin h
  BY BcacheAssumption DEF Using, Cached
<1>7. \A v : HasContents(k, v) <=> (\E b \in c : data[b] = v) \/ (disk[k] = v /\ c = {})
  BY DEF HasContents, Cached
<1>8. \A x : HeldBy(k, x) <=> x \in h \/ (x = Nobody /\ h = {})
  BY DEF HeldBy
<1>9. disk[k] \in Vals /\ \A b \in Bufs : data[b] \in Vals
  BY DEF BInv, TypeOK
<1> HIDE DEF c, h
<1>10. Contents[k] \in Vals /\ HasContents(k, Contents[k]) /\ \A v \in Vals : HasContents(k, v) => v = Contents[k]
  BY <1>1, <1>2, <1>4, <1>6, <1>7, <1>9
<1>11. Holder[k] \in Procs \cup {Nobody} /\ HeldBy(k, Holder[k])
       /\ \A x \in Procs \cup {Nobody} : HeldBy(k, x) => x = Holder[k]
  BY <1>1, <1>3, <1>5, <1>6, <1>8
<1>. QED BY <1>10, <1>11

LEMMA MappedNext == BInv' => Mapped'
<1>. QED BY MappedWell, PTL

SameContents == \A k \in Blocks, v \in Vals : HasContents(k, v) => HasContents(k, v)'
SameHolders == \A k \in Blocks, h \in Procs \cup {Nobody} : HeldBy(k, h) => HeldBy(k, h)'

LEMMA ContentsKept == ASSUME Mapped, Mapped', SameContents PROVE Contents' = Contents
<1>1. \A k \in Blocks : Contents'[k] = Contents[k]
  BY DEF Mapped, SameContents
<1>. QED BY <1>1 DEF Mapped

LEMMA HoldersKept == ASSUME Mapped, Mapped', SameHolders PROVE Holder' = Holder
<1>1. \A k \in Blocks : Holder'[k] = Holder[k]
  BY DEF Mapped, SameHolders
<1>. QED BY <1>1 DEF Mapped

LEMMA Quiet ==
  ASSUME BInv, BInv', SameContents, SameHolders
  PROVE  UNCHANGED Store!bvars
<1>. QED BY MappedWell, MappedNext, ContentsKept, HoldersKept DEF Store!bvars

(* A process gets hold of block k, whose buffer is b.                      *)
LEMMA Holds ==
  ASSUME BInv, BInv', SameContents, NEW p \in Procs, NEW k \in Blocks,
         HeldBy(k, Nobody), HeldBy(k, p)',
         \A j \in Blocks \ {k}, h \in Procs \cup {Nobody} : HeldBy(j, h) => HeldBy(j, h)'
  PROVE  Store!BNext
<1>1. Mapped /\ Mapped'
  BY MappedWell, MappedNext
<1>2. Contents' = Contents
  BY <1>1, ContentsKept
<1>3. Holder[k] = Nobody /\ Holder'[k] = p /\ \A j \in Blocks \ {k} : Holder'[j] = Holder[j]
  BY <1>1 DEF Mapped
<1>4. Holder' = [Holder EXCEPT ![k] = p]
  BY <1>1, <1>3 DEF Mapped
<1>. QED BY <1>2, <1>3, <1>4 DEF Store!BNext, Store!Hold

LEMMA BGetHitRefines ==
  ASSUME BInv, BInv', NEW p \in Procs, NEW b \in Bufs, BGetHit(p, b)
  PROVE  [Store!BNext]_(Store!bvars)
<1>1. /\ UNCHANGED <<disk, blockno, data, blk>>
      /\ \A q \in Procs \ {p} : pc'[q] = pc[q] /\ bp'[q] = bp[q]
      /\ pc[p] = "bget" /\ bp'[p] = b /\ blockno[b] = blk[p] /\ blk[p] \in Blocks
      /\ p \notin Using /\ p # Nobody
  BY BcacheAssumption, SMTT(40) DEF BInv, TypeOK, BGetHit, Cached, PlacesInv, Using
<1>2. /\ \A c \in Bufs : "valid" \in flags'[c] <=> "valid" \in flags[c]
      /\ flags' \in [Bufs -> SUBSET {"busy", "valid", "dirty"}]
  BY SMTT(40) DEF BInv, TypeOK, BGetHit
<1>3. SameContents
  BY <1>1, <1>2 DEF SameContents, HasContents
<1>4. \A q \in Procs \ {p} : (q \in Using' <=> q \in Using) /\ (q \in Using => bp[q] \in Bufs)
  BY <1>1 DEF Using, BInv, UsersInv
<1>5. CASE p \in Using' => "valid" \notin flags[b]
  <2>1. SameHolders
    BY <1>1, <1>2, <1>4, <1>5 DEF SameHolders, HeldBy, Using
  <2>. QED BY <1>3, <2>1, Quiet
<1>6. CASE p \in Using' /\ "valid" \in flags[b]
  <2>1. "busy" \notin flags[b]
    BY <1>1, <1>6, SMTT(40) DEF BGetHit, Using, BInv, TypeOK
  <2>2. \A q \in Using : blk[q] # blk[p]
    BY <1>1, <2>1, BcacheAssumption, SMTT(40) DEF BInv, UsersInv, OneBufferPerBlock
  <2>3. HeldBy(blk[p], Nobody)
    BY <2>2 DEF HeldBy
  <2>4. PICK k \in Blocks : k = blk[p]
    BY <1>1
  <2>5. HeldBy(k, p)'
    BY <1>1, <1>2, <1>6, <2>4 DEF HeldBy
  <2>6. \A j \in Blocks \ {k}, h \in Procs \cup {Nobody} : HeldBy(j, h) => HeldBy(j, h)'
    BY <1>1, <1>2, <1>4, <2>4 DEF HeldBy, Using
  <2>. QED BY <1>3, <2>3, <2>4, <2>5, <2>6, Holds
<1>. QED BY <1>5, <1>6

LEMMA BGetMissRefines ==
  ASSUME BInv, BInv', NEW p \in Procs, NEW i \in Bufs, BGetMiss(p, i)
  PROVE  UNCHANGED Store!bvars
<1>0. PICK b \in Bufs : b = mru[i]
  BY DEF BInv, TypeOK
<1>1. /\ UNCHANGED <<disk, data, blk>> /\ "dirty" \notin flags[b] /\ "busy" \notin flags[b]
      /\ flags'[b] = {"busy"} /\ blockno'[b] = blk[p] /\ bp'[p] = b
      /\ \A q \in Procs \ {p} : pc'[q] = pc[q] /\ bp'[q] = bp[q]
      /\ \A c \in Bufs \ {b} : flags'[c] = flags[c] /\ blockno'[c] = blockno[c]
      /\ \A c \in Bufs : blockno[c] # blk[p]
      /\ p \notin Using /\ p # Nobody
  <2>1. /\ blockno \in [Bufs -> Blocks \cup {NoBlock}] /\ bp \in [Procs -> Bufs \cup {NoBuf}]
        /\ flags \in [Bufs -> SUBSET {"busy", "valid", "dirty"}]
        /\ pc \in [Procs -> {"idle", "bget", "asleep_bget", "iderw", "wait", "asleep_ide", "held"}]
    BY DEF BInv, TypeOK
  <2>2. /\ pc[p] = "bget" /\ Cached(blk[p]) = {} /\ Recyclable(b)
        /\ blockno' = [blockno EXCEPT ![b] = blk[p]] /\ flags' = [flags EXCEPT ![b] = {"busy"}]
        /\ pc' = [pc EXCEPT ![p] = "iderw"] /\ bp' = [bp EXCEPT ![p] = b]
        /\ UNCHANGED <<disk, data, blk>>
    BY <1>0, Zenon DEF BGetMiss
  <2>3. /\ "dirty" \notin flags[b] /\ "busy" \notin flags[b] /\ p \notin Using /\ p # Nobody
        /\ \A c \in Bufs : blockno[c] # blk[p]
    BY <2>2, BcacheAssumption DEF Recyclable, Cached, Using
  <2>. QED BY <2>1, <2>2, <2>3
<1>2. SameContents
  <2> SUFFICES ASSUME NEW k \in Blocks, NEW v \in Vals, HasContents(k, v) PROVE HasContents(k, v)'
    BY DEF SameContents
  <2>1. CASE \E c \in Bufs \ {b} : blockno[c] = k /\ "valid" \in flags[c] /\ data[c] = v
    BY <1>1, <2>1 DEF HasContents
  <2>2. CASE blockno[b] = k /\ "valid" \in flags[b] /\ data[b] = v
    <3>1. disk[k] = v
      BY <1>1, <2>2 DEF BInv, FlagsInv, Finished
    <3>2. \A c \in Bufs \ {b} : blockno[c] # k
      BY <2>2, BcacheAssumption DEF BInv, OneBufferPerBlock
    <3>. QED BY <1>1, <3>1, <3>2, SMTT(40) DEF HasContents
  <2>3. CASE disk[k] = v /\ \A c \in Bufs : blockno[c] = k => "valid" \notin flags[c]
    BY <1>1, <2>3, SMTT(40) DEF HasContents
  <2>. QED BY <2>1, <2>2, <2>3 DEF HasContents
<1>3. \A q \in Using : q # p /\ q \in Using' /\ bp[q] \in Bufs \ {b}
  BY <1>1 DEF Using, BInv, UsersInv
<1>4. \A q \in Using' : q = p \/ q \in Using
  BY <1>1 DEF Using
<1>5. SameHolders
  <2> SUFFICES ASSUME NEW k \in Blocks, NEW h \in Procs \cup {Nobody}, HeldBy(k, h) PROVE HeldBy(k, h)'
    BY DEF SameHolders
  <2>1. CASE h \in Using
    BY <1>1, <1>3, <2>1, BcacheAssumption, SMTT(40) DEF HeldBy, Using
  <2>2. CASE h = Nobody
    <3>1. \A q \in Using : blk[q] = k => "valid" \notin flags[bp[q]]
      BY <2>2, BcacheAssumption DEF HeldBy, Using
    <3>2. \A q \in Using' : blk'[q] = k => "valid" \notin flags'[bp'[q]]
      BY <1>1, <1>3, <1>4, <3>1, SMTT(40) DEF Using
    <3>. QED BY <2>2, <3>2 DEF HeldBy
  <2>. QED BY <2>1, <2>2 DEF HeldBy
<1>. QED BY <1>2, <1>5, Quiet

(* Steps that move no contents and keep the users of the buffers.          *)
LEMMA StillRefines ==
  ASSUME BInv, BInv', UNCHANGED <<disk, blockno, data, bp>>, Using' = Using,
         \A q \in Using : blk'[q] = blk[q],
         \A c \in Bufs : "valid" \in flags'[c] <=> "valid" \in flags[c]
  PROVE  UNCHANGED Store!bvars
<1>1. \A q \in Using : bp[q] \in Bufs
  BY DEF BInv, UsersInv
<1>2. SameContents
  BY DEF SameContents, HasContents
<1>3. SameHolders
  BY <1>1 DEF SameHolders, HeldBy
<1>. QED BY <1>2, <1>3, Quiet

LEMMA QuietRefines ==
  ASSUME BInv, BInv', NEW p \in Procs,
         BWrite(p) \/ BGetPanic(p) \/ IdeRw(p) \/ IdeWait(p) \/ \E k \in Blocks : BRead(p, k)
  PROVE  UNCHANGED Store!bvars
<1>1. UNCHANGED <<disk, blockno, data, bp>>
  BY DEF BWrite, BGetPanic, IdeRw, IdeWait, BRead, bufs, procs
<1>2. \A c \in Bufs : "valid" \in flags'[c] <=> "valid" \in flags[c]
  BY SMTT(40) DEF BInv, TypeOK, BWrite, BGetPanic, IdeRw, IdeWait, BRead, bufs
<1>3. \A q \in Procs : q \in Using' <=> q \in Using
  BY SMTT(40) DEF BInv, TypeOK, BWrite, BGetPanic, IdeRw, IdeWait, BRead, bufs, procs, Using
<1>4. Using' = Using
  BY <1>3 DEF Using
<1>5. \A q \in Using : blk'[q] = blk[q]
  BY DEF BInv, TypeOK, BWrite, BGetPanic, IdeRw, IdeWait, BRead, bufs, procs, Using
<1>. QED BY <1>1, <1>2, <1>4, <1>5, StillRefines

LEMMA ModifyRefines ==
  ASSUME BInv, BInv', NEW p \in Procs, NEW v \in Vals, Modify(p, v)
  PROVE  Store!BNext
<1>0. PICK b \in Bufs : b = bp[p]
  BY DEF BInv, Modify, UsersInv, Using
<1>1. /\ "valid" \in flags[b] /\ p \in Using /\ blk[p] \in Blocks /\ blockno[b] = blk[p]
      /\ data'[b] = v /\ \A c \in Bufs \ {b} : data'[c] = data[c]
      /\ \A c \in Bufs : "valid" \in flags'[c] <=> "valid" \in flags[c]
      /\ UNCHANGED <<disk, blockno, pc, blk, bp>>
  <2>1. data \in [Bufs -> Vals] /\ flags \in [Bufs -> SUBSET {"busy", "valid", "dirty"}]
    BY DEF BInv, TypeOK
  <2>2. /\ pc[p] = "held" /\ data' = [data EXCEPT ![b] = v] /\ flags' = [flags EXCEPT ![b] = @ \cup {"dirty"}]
        /\ UNCHANGED <<disk, blockno, pc, blk, bp>>
    BY <1>0, Zenon DEF Modify, procs
  <2>3. p \in Using
    BY <2>2 DEF Using
  <2>4. "valid" \in flags[b] /\ blk[p] \in Blocks /\ blockno[b] = blk[p]
    BY <1>0, <2>2, <2>3, Zenon DEF BInv, UsersInv, PlacesInv
  <2>. QED BY <2>1, <2>2, <2>3, <2>4
<1>2. PICK k \in Blocks : k = blk[p]
  BY <1>1
<1>3. Mapped /\ Mapped'
  BY MappedWell, MappedNext
<1>4. SameHolders
  <2>1. Using' = Using /\ \A q \in Using : bp[q] \in Bufs
    BY <1>1 DEF Using, BInv, UsersInv
  <2>. QED BY <1>1, <2>1 DEF SameHolders, HeldBy
<1>5. Holder' = Holder
  BY <1>3, <1>4, HoldersKept
<1>6. Holder[k] # Nobody
  <2>1. HeldBy(k, p) /\ p \in Procs /\ p # Nobody
    BY <1>0, <1>1, <1>2, BcacheAssumption DEF HeldBy
  <2>. QED BY <1>3, <2>1 DEF Mapped
<1>7. HasContents(k, v)'
  BY <1>1, <1>2 DEF HasContents
<1>8. \A j \in Blocks \ {k}, w \in Vals : HasContents(j, w) => HasContents(j, w)'
  BY <1>1, <1>2 DEF HasContents
<1>9. Contents'[k] = v /\ \A j \in Blocks \ {k} : Contents'[j] = Contents[j]
  BY <1>3, <1>7, <1>8 DEF Mapped
<1>10. Contents' = [Contents EXCEPT ![k] = v]
  BY <1>3, <1>9 DEF Mapped
<1>. QED BY <1>5, <1>6, <1>10 DEF Store!BNext, Store!Change

LEMMA BRelseRefines ==
  ASSUME BInv, BInv', NEW p \in Procs, BRelse(p)
  PROVE  Store!BNext
<1>0. PICK b \in Bufs : b = bp[p]
  BY DEF BInv, BRelse, UsersInv, Using
<1>1. /\ "valid" \in flags[b] /\ p \in Using /\ blk[p] \in Blocks /\ blockno[b] = blk[p]
      /\ \A c \in Bufs : "valid" \in flags'[c] <=> "valid" \in flags[c]
      /\ \A q \in Procs \ {p} : bp'[q] = bp[q] /\ blk'[q] = blk[q]
      /\ UNCHANGED <<disk, blockno, data>>
  <2>1. /\ flags \in [Bufs -> SUBSET {"busy", "valid", "dirty"}]
        /\ bp \in [Procs -> Bufs \cup {NoBuf}] /\ blk \in [Procs -> Blocks \cup {NoBlock}]
    BY DEF BInv, TypeOK
  <2>2. /\ pc[p] = "held" /\ flags' = [flags EXCEPT ![b] = @ \ {"busy"}]
        /\ bp' = [bp EXCEPT ![p] = NoBuf] /\ blk' = [blk EXCEPT ![p] = NoBlock]
        /\ UNCHANGED <<disk, blockno, data>>
    BY <1>0, Zenon DEF BRelse
  <2>3. p \in Using
    BY <2>2 DEF Using
  <2>4. "valid" \in flags[b] /\ blk[p] \in Blocks /\ blockno[b] = blk[p]
    BY <1>0, <2>2, <2>3, Zenon DEF BInv, UsersInv, PlacesInv
  <2>. QED BY <2>1, <2>2, <2>3, <2>4
<1>2. PICK k \in Blocks : k = blk[p]
  BY <1>1
<1>3. \A q \in Procs : q \in Using' <=> q \in Using /\ q # p
  <2>1. \A q \in Procs : ~(q # p /\ bp[q] = b /\ pc[q] = "asleep_ide")
    BY <1>0, <1>1 DEF BInv, OneBufferPerBlock, Using
  <2>. QED BY <1>0, <2>1 DEF BRelse, Woken, Using, BInv, TypeOK
<1>4. \A q \in Using : q # p => blk[q] # k
  <2> SUFFICES ASSUME NEW q \in Using, blk[q] = k PROVE q = p
    OBVIOUS
  <2>1. bp[q] \in Bufs /\ blockno[bp[q]] = blockno[b] /\ blockno[b] # NoBlock
    BY <1>1, <1>2, BcacheAssumption, SMTT(40) DEF BInv, UsersInv
  <2>2. bp[q] = bp[p]
    BY <1>0, <2>1 DEF BInv, OneBufferPerBlock
  <2>. QED BY <1>1, <2>2 DEF BInv, OneBufferPerBlock
<1>5. Using' = Using \ {p} /\ \A q \in Using : q \in Procs /\ bp[q] \in Bufs
  BY <1>3 DEF Using, BInv, UsersInv
<1>6. Mapped /\ Mapped'
  BY MappedWell, MappedNext
<1>7. Contents' = Contents
  <2>1. SameContents
    BY <1>1 DEF SameContents, HasContents
  <2>. QED BY <1>6, <2>1, ContentsKept
<1>8. Holder[k] # Nobody
  <2>1. HeldBy(k, p) /\ p \in Procs /\ p # Nobody
    BY <1>0, <1>1, <1>2, BcacheAssumption DEF HeldBy
  <2>. QED BY <1>6, <2>1 DEF Mapped
<1>9. HeldBy(k, Nobody)'
  BY <1>1, <1>4, <1>5 DEF HeldBy
<1>10. \A j \in Blocks \ {k}, h \in Procs \cup {Nobody} : HeldBy(j, h) => HeldBy(j, h)'
  BY <1>1, <1>2, <1>5, ZenonT(30) DEF HeldBy
<1>11. Holder'[k] = Nobody /\ \A j \in Blocks \ {k} : Holder'[j] = Holder[j]
  BY <1>6, <1>9, <1>10 DEF Mapped
<1>12. Holder' = [Holder EXCEPT ![k] = Nobody]
  BY <1>6, <1>11 DEF Mapped
<1>. QED BY <1>7, <1>8, <1>12 DEF Store!BNext, Store!Drop

LEMMA DiskDoneRefines ==
  ASSUME BInv, BInv', DiskDone
  PROVE  UNCHANGED Store!bvars
<1>1. /\ UNCHANGED <<blockno, data, flags, pc, blk, bp>> /\ cmd \in {"read", "write"} /\ idequeue # <<>>
  BY DEF DiskDone, BInv, DiskInv, bufs, procs
<1>2. PICK b \in Bufs : b = Head(idequeue) /\ blockno[b] \in Blocks
  BY <1>1, FirstRequest
<1>3. disk' = disk \/ (disk' = [disk EXCEPT ![blockno[b]] = data[b]] /\ "valid" \in flags[b])
  BY <1>2 DEF DiskDone, BInv, DiskInv, FlagsInv
<1>4. SameContents
  <2> SUFFICES ASSUME NEW k \in Blocks, NEW v \in Vals, HasContents(k, v) PROVE HasContents(k, v)'
    BY DEF SameContents
  <2>1. CASE \E c \in Bufs : blockno[c] = k /\ "valid" \in flags[c]
    BY <1>1, <2>1 DEF HasContents
  <2>2. CASE \A c \in Bufs : blockno[c] = k => "valid" \notin flags[c]
    <3>1. disk'[k] = disk[k]
      BY <1>2, <1>3, <2>2 DEF BInv, TypeOK
    <3>. QED BY <1>1, <2>2, <3>1 DEF HasContents
  <2>. QED BY <2>1, <2>2
<1>5. SameHolders
  BY <1>1 DEF SameHolders, HeldBy, Using
<1>. QED BY <1>4, <1>5, Quiet

LEMMA IdeIntrRefines ==
  ASSUME BInv, BInv', IdeIntr
  PROVE  [Store!BNext]_(Store!bvars)
<1>0. cmd = "done" /\ idequeue # <<>>
  BY DEF IdeIntr, BInv, DiskInv
<1>1. PICK b \in Bufs, p \in Using :
           /\ b = Head(idequeue) /\ b = idequeue[1] /\ 1 \in DOMAIN idequeue
           /\ pc[p] = "asleep_ide" /\ bp[p] = b /\ blockno[b] \in Blocks /\ ~Finished(b)
           /\ \A r \in Using \ {p} : bp[r] # b
  BY <1>0, FirstRequest
<1>2. /\ "valid" \in flags'[b] /\ flags' \in [Bufs -> SUBSET {"busy", "valid", "dirty"}]
      /\ data'[b] = IF "dirty" \in flags[b] THEN data[b] ELSE disk[blockno[b]]
      /\ \A c \in Bufs \ {b} : flags'[c] = flags[c] /\ data'[c] = data[c]
      /\ UNCHANGED <<disk, blockno, blk, bp>>
  BY <1>1, SMTT(40) DEF BInv, TypeOK, IdeIntr
<1>3. Using' = Using
  <2>1. \A q \in Procs : q \in Using' <=> q \in Using
    BY DEF IdeIntr, Woken, Using, BInv, TypeOK
  <2>. QED BY <2>1 DEF Using
<1>4. CASE "dirty" \in flags[b]
  <2>1. "valid" \in flags[b] /\ UNCHANGED data
    BY <1>1, <1>4 DEF BInv, FlagsInv, IdeIntr
  <2>2. \A c \in Bufs : "valid" \in flags'[c] <=> "valid" \in flags[c]
    BY <1>2, <2>1
  <2>. QED BY <1>2, <1>3, <2>1, <2>2, StillRefines
<1>5. CASE "dirty" \notin flags[b]
  <2>1. "valid" \notin flags[b] /\ data'[b] = disk[blockno[b]]
    BY <1>1, <1>2, <1>5 DEF Finished
  <2>2. PICK k \in Blocks : k = blockno[b] /\ k = blk[p]
    BY <1>1 DEF BInv, UsersInv
  <2>3. \A c \in Bufs \ {b} : blockno[c] # k
    BY <2>2, BcacheAssumption DEF BInv, OneBufferPerBlock
  <2>4. SameContents
    <3> SUFFICES ASSUME NEW j \in Blocks, NEW v \in Vals, HasContents(j, v) PROVE HasContents(j, v)'
      BY DEF SameContents
    <3>1. CASE j = k
      BY <1>2, <2>1, <2>2, <2>3, <3>1 DEF HasContents
    <3>2. CASE j # k
      BY <1>2, <2>2, <3>2 DEF HasContents
    <3>. QED BY <3>1, <3>2
  <2>5. \A q \in Using \ {p} : blk[q] # k /\ bp[q] \in Bufs \ {b}
    BY <1>1, <2>2, <2>3, SMTT(40) DEF BInv, UsersInv
  <2>6. HeldBy(k, Nobody)
    BY <1>1, <2>1, <2>5 DEF HeldBy
  <2>7. HeldBy(k, p)'
    BY <1>1, <1>2, <1>3, <2>2 DEF HeldBy
  <2>8. \A j \in Blocks \ {k}, h \in Procs \cup {Nobody} : HeldBy(j, h) => HeldBy(j, h)'
    BY <1>2, <1>3, <2>2, <2>5 DEF HeldBy
  <2>9. p \in Procs
    BY DEF Using
  <2>. QED BY <2>4, <2>6, <2>7, <2>8, <2>9, Holds
<1>. QED BY <1>4, <1>5

(* bio.c and ide.c implement a store in which one process at a time holds  *)
(* a block and sees the last contents anyone gave it: recycling, reading   *)
(* back, delayed writes and sleeping in between never show.                *)
THEOREM CacheIsCoherent == Spec => Coherent
<1>1. Init => Store!BInit
  <2> SUFFICES ASSUME Init PROVE Store!BInit
    OBVIOUS
  <2>1. Mapped /\ Using = {}
    BY BInvInit, MappedWell DEF Init, Using
  <2>2. \A k \in Blocks : HeldBy(k, Nobody)
    BY <2>1 DEF HeldBy
  <2>3. \A k \in Blocks : Holder[k] = Nobody /\ Contents[k] \in Vals
    BY <2>1, <2>2 DEF Mapped
  <2>. QED BY <2>1, <2>3 DEF Mapped, Store!BInit
<1>2. BInv /\ BInv' /\ [Next]_vars => [Store!BNext]_(Store!bvars)
  <2> SUFFICES ASSUME BInv, BInv', [Next]_vars PROVE [Store!BNext]_(Store!bvars)
    OBVIOUS
  <2>1. CASE UNCHANGED vars \/ PanicLoop
    <3>1. UNCHANGED <<disk, blockno, data, flags, pc, blk, bp>>
      BY <2>1 DEF PanicLoop, vars, bufs, procs
    <3>2. UNCHANGED Using
      BY <3>1 DEF Using
    <3>. QED BY <3>1, <3>2, StillRefines
  <2>2. CASE DiskDone \/ IdeIntr
    BY <2>2, DiskDoneRefines, IdeIntrRefines
  <2>3. ASSUME NEW p \in Procs, Kernel(p) PROVE [Store!BNext]_(Store!bvars)
    BY <2>3, QuietRefines, BRelseRefines, BGetHitRefines, BGetMissRefines DEF Kernel
  <2>4. ASSUME NEW p \in Procs,
               BWrite(p) \/ (\E k \in Blocks : BRead(p, k)) \/ \E v \in Vals : Modify(p, v)
        PROVE  [Store!BNext]_(Store!bvars)
    BY <2>4, QuietRefines, ModifyRefines
  <2>. QED BY <2>1, <2>2, <2>3, <2>4 DEF Next
<1>. QED BY <1>1, <1>2, BcacheInvariant, PTL DEF Spec, Coherent, Store!BSpec
=============================================================================
