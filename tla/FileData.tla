------------------------------ MODULE FileData ------------------------------
(***************************************************************************)
(* Where the bytes of files are: the bitmap of blocks, the direct and      *)
(* indirect addresses of inodes, writei, readi and itrunc (fs.c), the      *)
(* writes of file.c, which are cut into one transaction per chunk, and     *)
(* mkfs.c, which makes the image the kernel starts from.                   *)
(*                                                                         *)
(* Steps.  One iteration of the loop of writei or iappend is a step; the   *)
(* inode is locked from the first iteration of a chunk to its last.  Sizes *)
(* are scaled: a block is BSIZE cells, each a byte or an address, so       *)
(* NINDIRECT = BSIZE.  want is what the files should hold, by the calls    *)
(* made so far.                                                            *)
(***************************************************************************)
EXTENDS Integers, Sequences, FiniteSets, FiniteSetsExt

CONSTANTS
  Files, ROOTINO,    \* inodes; the root directory is one
  Writers, NoFile,
  Blocks,            \* the data blocks, numbered from 1
  BSIZE, NDIRECT,
  Bytes, ImageByte,  \* what callers write; what mkfs writes
  LOGSIZE_,          \* size of the log
  WriteSizes, ReadSize \* lengths of calls

ASSUME FileDataAssumption ==
  /\ ROOTINO \in Files /\ NoFile \notin Files
  /\ Blocks = 1..Cardinality(Blocks)
  /\ BSIZE \in Nat \ {0} /\ NDIRECT \in Nat /\ LOGSIZE_ \in Nat /\ WriteSizes \cup {ReadSize} \subseteq Nat
  /\ Bytes \cup {ImageByte} \subseteq Nat \ {0}

VARIABLES
  freeblock,         \* mkfs: the next block it hands out; 0 once it is done
  bitmap,            \* the blocks marked in use
  blk,               \* contents of the blocks
  dino,              \* inodes on disk: size and addrs
  ino,               \* inodes in memory
  ilockedBy,         \* who has an inode locked
  file,              \* per process: the file it has open, at what offset
  wr,                \* per process: the write it is in
  want,
  holed,             \* files that mkfs made larger than their blocks
  fsPanic            \* balloc, bmap or log_write panicked

fdVars == <<freeblock, bitmap, blk, dino, ino, ilockedBy, file, wr, want, holed, fsPanic>>

NINDIRECT == BSIZE
MAXFILE == NDIRECT + NINDIRECT
Cells == 0..BSIZE - 1
NoBlocks == [size |-> 0, addrs |-> [i \in 0..NDIRECT |-> 0]]
FdClosed == [f |-> NoFile, off |-> 0]
FdNoCall == [pc |-> "none", op |-> "none", got |-> <<>>, tot |-> 0, n |-> 0, left |-> 0, v |-> 0, logged |-> {}]

(* In wr.logged the data blocks have their numbers.                        *)
BitmapBlock == 0
InodeBlock == -1

FdInit ==
  /\ freeblock = 1 /\ bitmap = {}
  /\ blk = [b \in Blocks |-> [c \in Cells |-> 0]]
  /\ dino = [f \in Files |-> NoBlocks] /\ ino = dino
  /\ ilockedBy = [f \in Files |-> NoFile]
  /\ file = [p \in Writers |-> FdClosed] /\ wr = [p \in Writers |-> FdNoCall]
  /\ want = [f \in Files |-> <<>>]
  /\ holed = {} /\ fsPanic = FALSE

-----------------------------------------------------------------------------
(* Blocks.  A state of allocation s holds the bitmap, the blocks, the      *)
(* addresses of one inode, the blocks logged, and the block b that the     *)
(* last step found, 0 where the code panics.                               *)

Balloc(s) ==
  IF Blocks = s.bitmap THEN [s EXCEPT !.b = 0]
  ELSE LET b == Min(Blocks \ s.bitmap)
       IN [s EXCEPT !.bitmap = @ \cup {b}, !.blk[b] = [c \in Cells |-> 0], !.b = b,
                    !.logged = @ \cup {BitmapBlock, b}]

(* mkfs hands out blocks in order, of an image that is all zero.           *)
(* Mutant: freeblock++ once for the two.                                   *)
NextBlockSame(s) == [s EXCEPT !.bitmap = @ \cup {freeblock}, !.b = freeblock]
NextBlock(s) == [s EXCEPT !.bitmap = @ \cup {freeblock + Cardinality(@)},
                          !.b = freeblock + Cardinality(s.bitmap)]

(* Block bn of the inode whose addrs are s.addrs, with missing blocks      *)
(* taken from New: balloc in bmap, freeblock++ in iappend.                 *)
FdDirect(New(_), s, i) ==
  IF s.addrs[i] # 0 THEN [s EXCEPT !.b = s.addrs[i]]
  ELSE LET a == New(s) IN [a EXCEPT !.addrs[i] = a.b]
Lookup(New(_), s, bn) ==
  IF bn < NDIRECT THEN FdDirect(New, s, bn)
  ELSE IF bn >= MAXFILE THEN [s EXCEPT !.b = 0]
  ELSE LET d == FdDirect(New, s, NDIRECT)
           c == bn - NDIRECT
       IN IF d.b = 0 THEN d
          ELSE IF d.blk[d.b][c] # 0 THEN [d EXCEPT !.b = d.blk[d.b][c]]
          ELSE LET a == New(d)
               IN IF a.b = 0 THEN a
                  ELSE [a EXCEPT !.blk[d.b][c] = a.b, !.logged = @ \cup {d.b}]
Bmap(s, bn) == Lookup(Balloc, s, bn)

(* The addresses an inode names: its own, and those in its indirect block. *)
FdPlaces(ip) ==
  {ip.addrs[i] : i \in 0..NDIRECT}
  \cup (IF ip.addrs[NDIRECT] = 0 THEN {} ELSE {blk[ip.addrs[NDIRECT]][c] : c \in Cells})
FdOwned(ip) == FdPlaces(ip) \ {0}
FdNow(f) == IF freeblock = 0 THEN ino[f] ELSE dino[f]

(* Bytes off to off + m - 1 of a block become v.                           *)
(* Mutant: they go to the front of the block.                              *)
FdFillFront(data, off, m, v) == [c \in Cells |-> IF c < m THEN v ELSE data[c]]
FdFill(data, off, m, v) == [c \in Cells |-> IF c \in off..off + m - 1 THEN v ELSE data[c]]
FdPut(s, off, m, v) == [i \in 1..(IF off + m > Len(s) THEN off + m ELSE Len(s)) |->
                        IF i \in off + 1..off + m THEN v ELSE s[i]]

-----------------------------------------------------------------------------
(* mkfs.                                                                   *)

(* iappend of n bytes, no more than the block at the end still takes.      *)
(* The image has room for the two blocks it may take.                      *)
Iappend(f, n) ==
  LET size == dino[f].size
      a == Lookup(NextBlock, [bitmap |-> {}, blk |-> blk, addrs |-> dino[f].addrs, logged |-> {}, b |-> 0],
                  size \div BSIZE)
      used == freeblock + Cardinality(a.bitmap)
  IN /\ freeblock # 0
     /\ freeblock < Cardinality(Blocks)
     /\ size \div BSIZE < MAXFILE /\ n \in 1..BSIZE - (size % BSIZE)
     /\ freeblock' = used
     /\ blk' = [a.blk EXCEPT ![a.b] = FdFill(@, size % BSIZE, n, ImageByte)]
     /\ dino' = [dino EXCEPT ![f] = [size |-> size + n, addrs |-> a.addrs]]
     /\ want' = [want EXCEPT ![f] = FdPut(@, size, n, ImageByte)]
     /\ UNCHANGED <<bitmap, ino, ilockedBy, file, wr, holed, fsPanic>>

(* The end of main: the root directory is made to end with a block, the    *)
(* bitmap is written.  Then the kernel boots.                              *)
MkfsDone ==
  LET size == dino[ROOTINO].size
      rounded == (size \div BSIZE + 1) * BSIZE
  IN /\ freeblock # 0
     /\ bitmap' = 1..freeblock - 1
     /\ freeblock' = 0
     /\ dino' = [dino EXCEPT ![ROOTINO].size = rounded]
     /\ ino' = dino'
     /\ holed' = IF size % BSIZE = 0 THEN {ROOTINO} ELSE {}
     /\ want' = [want EXCEPT ![ROOTINO] = FdPut(@, size, rounded - size, 0)]
     /\ UNCHANGED <<blk, ilockedBy, file, wr, fsPanic>>

-----------------------------------------------------------------------------
(* The kernel.                                                             *)

FdBooted == freeblock = 0 /\ ~fsPanic

FdOpen(p, f) ==
  /\ FdBooted /\ file[p].f = NoFile
  /\ file' = [file EXCEPT ![p] = [f |-> f, off |-> 0]]
  /\ UNCHANGED <<freeblock, bitmap, blk, dino, ino, ilockedBy, wr, want, holed, fsPanic>>

FdClose(p) ==
  /\ FdBooted /\ file[p].f # NoFile /\ wr[p].pc = "none"
  /\ file' = [file EXCEPT ![p] = FdClosed]
  /\ UNCHANGED <<freeblock, bitmap, blk, dino, ino, ilockedBy, wr, want, holed, fsPanic>>

(* read(fd, ., n) and write(fd, ., n): fileread, filewrite.                *)
FdCall(p, op, n, v) ==
  /\ FdBooted /\ file[p].f # NoFile /\ wr[p].pc = "none"
  /\ wr' = [wr EXCEPT ![p] = [FdNoCall EXCEPT !.pc = "chunk", !.op = op, !.left = n, !.v = v]]
  /\ UNCHANGED <<freeblock, bitmap, blk, dino, ino, ilockedBy, file, want, holed, fsPanic>>

(* max in filewrite.                                                       *)
(* Mutant: no slop for the unaligned ends.                                 *)
MaxChunkTight == ((LOGSIZE_ - 1 - 1) \div 2) * BSIZE
MaxChunk == ((LOGSIZE_ - 1 - 1 - 2) \div 2) * BSIZE

(* ilock, for a write after begin_op, and the tests at the top of readi    *)
(* and writei: a read is cut at the end of the file, a write that would    *)
(* pass MAXFILE fails.  fileread begins no operation.                      *)
FdStart(p) ==
  LET f == file[p].f
      c == wr[p]
      n == IF c.op = "read" THEN Min({c.left, ino[f].size - file[p].off}) ELSE Min({c.left, MaxChunk})
      fails == file[p].off > ino[f].size \/ (c.op = "write" /\ file[p].off + n > MAXFILE * BSIZE)
  IN /\ FdBooted /\ c.pc = "chunk" /\ ilockedBy[f] = NoFile
     /\ wr' = [wr EXCEPT ![p] = IF fails THEN FdNoCall ELSE [c EXCEPT !.pc = "loop", !.tot = 0, !.n = n, !.logged = {}]]
     /\ ilockedBy' = IF fails THEN ilockedBy ELSE [ilockedBy EXCEPT ![f] = p]
     /\ UNCHANGED <<freeblock, bitmap, blk, dino, ino, file, want, holed, fsPanic>>

(* One iteration of the loop of readi or writei.  bmap allocates a block   *)
(* that is missing, for a read too; then log_write panics unless another   *)
(* process has an operation in progress.                                   *)
FdBlock(p, outstanding) ==
  LET f == file[p].f
      c == wr[p]
      off == file[p].off + c.tot
      m == Min({c.n, BSIZE - (off % BSIZE)})
      a == Bmap([bitmap |-> bitmap, blk |-> blk, addrs |-> ino[f].addrs, logged |-> c.logged, b |-> 0], off \div BSIZE)
  IN /\ FdBooted /\ c.pc = "loop" /\ c.n > 0
     /\ IF a.b = 0 \/ (c.op = "read" /\ a.logged # c.logged /\ ~outstanding)
        THEN fsPanic' = TRUE /\ UNCHANGED <<bitmap, ino, wr, blk>>
        ELSE /\ bitmap' = a.bitmap
             /\ ino' = [ino EXCEPT ![f].addrs = a.addrs]
             /\ wr' = [wr EXCEPT ![p] = [c EXCEPT !.tot = @ + m, !.n = @ - m,
                         !.got = IF c.op = "read" THEN @ \o [i \in 1..m |-> a.blk[a.b][(off % BSIZE) + i - 1]] ELSE @,
                         !.logged = IF c.op = "read" THEN a.logged ELSE a.logged \cup {a.b}]]
             /\ blk' = IF c.op = "read" THEN a.blk ELSE [a.blk EXCEPT ![a.b] = FdFill(@, off % BSIZE, m, c.v)]
             /\ UNCHANGED fsPanic
     /\ UNCHANGED <<freeblock, dino, ilockedBy, file, want, holed>>

Iupdate(f, ip) == dino' = [dino EXCEPT ![f] = ip]

FdGrow(ip, off) == [ip EXCEPT !.size = off]

(* The end of readi or of writei, which writes the inode only if the file  *)
(* has grown; iunlock, end_op; and the next chunk if there is one.         *)
FdDone(p) ==
  LET f == file[p].f
      c == wr[p]
      off == file[p].off + c.tot
      grows == c.op = "write" /\ off > ino[f].size
  IN /\ FdBooted /\ c.pc = "loop" /\ c.n = 0
     /\ ino' = IF grows THEN [ino EXCEPT ![f] = FdGrow(@, off)] ELSE ino
     /\ IF grows THEN Iupdate(f, ino'[f]) ELSE UNCHANGED dino
     /\ want' = IF c.op = "write" THEN [want EXCEPT ![f] = FdPut(@, file[p].off, c.tot, c.v)] ELSE want
     /\ file' = [file EXCEPT ![p].off = off]
     /\ ilockedBy' = [ilockedBy EXCEPT ![f] = NoFile]
     /\ wr' = [wr EXCEPT ![p] = IF c.op = "read" \/ c.left = c.tot THEN FdNoCall
                                ELSE [c EXCEPT !.pc = "chunk", !.left = @ - c.tot]]
     /\ UNCHANGED <<freeblock, bitmap, blk, holed, fsPanic>>

FdUnused(f) == FdBooted /\ \A p \in Writers : file[p].f # f

(* iput of the last reference to a file without names: itrunc.  bfree of   *)
(* every block the inode names.                                            *)
Bfree(bs) == bitmap' = bitmap \ bs
Itrunc(f) ==
  /\ FdUnused(f) /\ f # ROOTINO
  /\ Bfree(FdOwned(ino[f]))
  /\ ino' = [ino EXCEPT ![f] = NoBlocks] /\ Iupdate(f, NoBlocks)
  /\ want' = [want EXCEPT ![f] = <<>>]
  /\ UNCHANGED <<freeblock, blk, ilockedBy, file, wr, holed, fsPanic>>

(* The inode leaves the cache and ilock reads it again.                    *)
FdReread(f) ==
  /\ FdUnused(f) /\ ino' = [ino EXCEPT ![f] = dino[f]]
  /\ UNCHANGED <<freeblock, bitmap, blk, dino, ilockedBy, file, wr, want, holed, fsPanic>>

FdNext ==
  \/ \E f \in Files, n \in 1..BSIZE : Iappend(f, n)
  \/ MkfsDone
  \/ \E p \in Writers :
       \/ \E f \in Files : FdOpen(p, f)
       \/ FdClose(p)
       \/ \E n \in WriteSizes, v \in Bytes : FdCall(p, "write", n, v)
       \/ FdCall(p, "read", ReadSize, 0)
       \/ FdStart(p) \/ FdDone(p)
       \/ \E outstanding \in BOOLEAN : FdBlock(p, outstanding)
  \/ \E f \in Files : Itrunc(f) \/ FdReread(f)

FdSpec == FdInit /\ [][FdNext]_fdVars

-----------------------------------------------------------------------------
(* Properties.                                                             *)

FdUses(ip) ==
  {<<"addrs", i>> : i \in {j \in 0..NDIRECT : ip.addrs[j] # 0}}
  \cup (IF ip.addrs[NDIRECT] = 0 THEN {} ELSE {<<"cell", c>> : c \in {d \in Cells : blk[ip.addrs[NDIRECT]][d] # 0}})

(* No block is used twice, by two files or by one: not as a data block and *)
(* not as an indirect block (bmap, itrunc, iappend).  Between calls the    *)
(* bitmap marks exactly the blocks that files own, so that none is lost    *)
(* and none handed out twice.  Only a root directory that mkfs made one    *)
(* block too large can lose blocks: it gets them from reads made while     *)
(* another process is in an operation, and readi does not write the inode. *)
(* The kernel panics only when blocks run out, or when that directory is   *)
(* read with no operation in progress (log_write).                         *)
BlocksOwnedOnce ==
  /\ \A f \in Files : Cardinality(FdUses(FdNow(f))) = Cardinality(FdOwned(FdNow(f)))
  /\ \A f, g \in Files : f # g => FdOwned(FdNow(f)) \cap FdOwned(FdNow(g)) = {}
  /\ FdBooted =>
       /\ UNION {FdOwned(ino[f]) : f \in Files} \subseteq bitmap
       /\ holed = {} => bitmap = UNION {FdOwned(ino[f]) : f \in Files}
  /\ fsPanic => holed # {} \/ Cardinality(Blocks \ bitmap) < 2

(* A read returns the bytes that the calls before it have written, those   *)
(* of mkfs included, also after the inode has left the cache.              *)
ReadsWhatWasWritten ==
  \A p \in Writers :
    wr[p].pc = "loop" /\ wr[p].op = "read" /\ wr[p].n = 0 /\ file[p].f \notin holed
      => wr[p].got = SubSeq(want[file[p].f], file[p].off + 1, file[p].off + wr[p].tot)

(* One chunk of filewrite, with the bitmap, the inode and the indirect     *)
(* block, fits in the log: a process that writes alone never makes         *)
(* log_write panic, which happens at LOGSIZE - 1 blocks.                   *)
ChunkFitsLog ==
  \A p \in Writers : wr[p].op = "write" => Cardinality(wr[p].logged \cup {InodeBlock}) <= LOGSIZE_ - 1
=============================================================================
