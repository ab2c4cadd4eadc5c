-------------------------------- MODULE Heap --------------------------------
(***************************************************************************)
(* malloc and free of the user library (umalloc.c): a circular list of     *)
(* free blocks in the order of their addresses.                            *)
(*                                                                         *)
(* Addresses count headers; base, which is no part of the heap, has        *)
(* address 0.  A program may also call sbrk itself: the pieces of the heap *)
(* then have gaps between them.                                            *)
(***************************************************************************)
EXTENDS Integers, FiniteSets, FiniteSetsExt

CONSTANTS
  HeapEnd,           \* where sbrk fails
  HEADER,            \* sizeof(Header)
  NALLOC,            \* the least morecore asks for, in headers
  Requests,          \* sizes programs ask for, in bytes
  HeapUintMod        \* 2^32, where uints wrap

ASSUME HeapAssumption ==
  /\ {HeapEnd, HEADER, NALLOC} \subseteq Nat \ {0}
  /\ Requests \subseteq 0..HeapUintMod - 1 /\ HeapUintMod % (2 * HEADER) = 0

VARIABLES
  fr,                \* the headers on the free list
  freep,
  used,              \* the blocks handed out: size and what was asked for
  brk,
  core,              \* the addresses morecore got from sbrk
  lost               \* requests after which the heap is not what the list says

heapVars == <<fr, freep, used, brk, core, lost>>

BASE == 0
HeapInit ==
  /\ fr = [a \in {BASE} |-> [ptr |-> BASE, size |-> 0]] /\ freep = BASE
  /\ used = <<>> /\ brk = 1 /\ core = {} /\ lost = {}

-----------------------------------------------------------------------------
(* A state h of the list: fr and freep.  Nth(h)[i] is the i-th header from *)
(* freep on.                                                               *)
Nth(h) == LET nth[i \in 0..Cardinality(DOMAIN h.fr)] == IF i = 0 THEN h.freep ELSE h.fr[nth[i - 1]].ptr
          IN nth

(* Where free() stops: bp belongs between p and the header after it.       *)
Belongs(h, bp, p) ==
  LET next == h.fr[p].ptr
  IN \/ bp > p /\ bp < next
     \/ p >= next /\ (bp > p \/ bp < next)

Free(h, bp, size) ==
  LET nth == Nth(h)
      p == nth[Min({i \in DOMAIN nth : Belongs(h, bp, nth[i])})]
      next == h.fr[p].ptr
      joins == bp + size = next
      block == [ptr |-> IF joins THEN h.fr[next].ptr ELSE next, size |-> IF joins THEN size + h.fr[next].size ELSE size]
      rest == DOMAIN h.fr \ (IF joins THEN {next} ELSE {})
  IN [freep |-> p,
      fr |-> IF p + h.fr[p].size = bp
             THEN [a \in rest |-> IF a = p THEN [ptr |-> block.ptr, size |-> h.fr[p].size + block.size] ELSE h.fr[a]]
             ELSE [a \in rest \cup {bp} |->
                     IF a = bp THEN block ELSE IF a = p THEN [h.fr[p] EXCEPT !.ptr = bp] ELSE h.fr[a]]]

Nunits(nbytes) == ((nbytes + HEADER - 1) % HeapUintMod) \div HEADER + 1

(* The first block that is large enough, after freep; its tail is handed   *)
(* out.                                                                    *)
Fits(h, n) == LET nth == Nth(h) IN {i \in DOMAIN nth \ {0} : h.fr[nth[i]].size >= n}
(* Mutant: the block keeps its size.                                       *)
TakeWhole(h, n) ==
  LET nth == Nth(h)
      i == Min(Fits(h, n))
      p == nth[i]
      prevp == nth[i - 1]
  IN [at |-> p + h.fr[p].size - n, freep |-> prevp,
      fr |-> IF h.fr[p].size = n
             THEN [a \in DOMAIN h.fr \ {p} |-> IF a = prevp THEN [h.fr[a] EXCEPT !.ptr = h.fr[p].ptr] ELSE h.fr[a]]
             ELSE h.fr]
Take(h, n) ==
  LET nth == Nth(h)
      i == Min(Fits(h, n))
      p == nth[i]
      prevp == nth[i - 1]
  IN [at |-> p + h.fr[p].size - n, freep |-> prevp,
      fr |-> IF h.fr[p].size = n
             THEN [a \in DOMAIN h.fr \ {p} |-> IF a = prevp THEN [h.fr[a] EXCEPT !.ptr = h.fr[p].ptr] ELSE h.fr[a]]
             ELSE [h.fr EXCEPT ![p].size = @ - n]]

-----------------------------------------------------------------------------
(* What morecore asks of sbrk, in headers: nu * sizeof(Header) is a uint,  *)
(* and the argument of sbrk an int.                                        *)
SbrkArg(nu) ==
  LET bytes == (nu * HEADER) % HeapUintMod
  IN (IF bytes >= HeapUintMod \div 2 THEN bytes - HeapUintMod ELSE bytes) \div HEADER

(* malloc.  morecore adds to the free list what sbrk gives, and the search *)
(* goes on from the new freep.  Without more memory it returns 0.          *)
Malloc(nbytes) ==
  LET n == Nunits(nbytes)
      h == [fr |-> fr, freep |-> freep]
      nu == Max({n, NALLOC})
      more == Fits(h, n) = {}
      t == Take(IF more THEN Free(h, brk, nu) ELSE h, n)
  IN /\ more => SbrkArg(nu) > 0 /\ brk + SbrkArg(nu) <= HeapEnd
     /\ brk' = IF more THEN brk + SbrkArg(nu) ELSE brk
     /\ core' = IF more THEN core \cup brk..brk + SbrkArg(nu) - 1 ELSE core
     /\ fr' = t.fr /\ freep' = t.freep
     /\ used' = [a \in DOMAIN used \cup {t.at} |-> IF a = t.at THEN [size |-> n, asked |-> nbytes] ELSE used[a]]
     /\ UNCHANGED lost

(* An argument of 0 leaves the break, a negative one lowers it or, below   *)
(* address 0, leaves it too; morecore writes a header of nu at the old     *)
(* break all the same.  The process then dies of a page fault, or goes on  *)
(* with memory on its list that it does not have; the model ends here.     *)
MallocBeyond(nbytes) ==
  LET n == Nunits(nbytes)
  IN /\ Fits([fr |-> fr, freep |-> freep], n) = {}
     /\ SbrkArg(Max({n, NALLOC})) <= 0
     /\ lost' = lost \cup {nbytes}
     /\ UNCHANGED <<fr, freep, used, brk, core>>

free(bp) ==
  LET h == Free([fr |-> fr, freep |-> freep], bp, used[bp].size)
  IN /\ fr' = h.fr /\ freep' = h.freep
     /\ used' = [a \in DOMAIN used \ {bp} |-> used[a]]
     /\ UNCHANGED <<brk, core, lost>>

(* The program moves the break itself.                                     *)
OwnSbrk ==
  /\ brk < HeapEnd /\ brk' = brk + 1
  /\ UNCHANGED <<fr, freep, used, core, lost>>

HeapNext ==
  /\ lost = {}
  /\ \/ \E nbytes \in Requests : Malloc(nbytes) \/ MallocBeyond(nbytes)
     \/ \E bp \in DOMAIN used : free(bp)
     \/ OwnSbrk

HeapSpec == HeapInit /\ [][HeapNext]_heapVars

-----------------------------------------------------------------------------
(* Properties.                                                             *)

Extent(a, size) == a..a + size - 1

(* The list runs through all free blocks once in the order of their        *)
(* addresses, freep is on it, and neighbours have been joined.             *)
FreeListOrdered ==
  /\ freep \in DOMAIN fr
  /\ \A a \in DOMAIN fr :
       LET above == {b \in DOMAIN fr : b > a}
       IN fr[a].ptr = IF above = {} THEN BASE ELSE Min(above)
  /\ \A a \in DOMAIN fr \ {BASE} : a + fr[a].size \notin DOMAIN fr

(* What morecore got is cut, without a rest, into blocks on the free list  *)
(* and blocks handed out, no two of which overlap (malloc, free); the free *)
(* list is in order; and a block has room for what was asked for, unless   *)
(* the rounding up wrapped (umalloc.c:69).  Only a request of half the     *)
(* range of a uint or more, rounded up to headers, undoes this.            *)
HeapPartition ==
  /\ \A x \in 0..HeapEnd :
       Cardinality({a \in DOMAIN fr : x \in Extent(a, fr[a].size)})
       + Cardinality({a \in DOMAIN used : x \in Extent(a, used[a].size)}) = IF x \in core THEN 1 ELSE 0
  /\ FreeListOrdered
  /\ \A a \in DOMAIN used :
       used[a].asked + HEADER - 1 < HeapUintMod => (used[a].size - 1) * HEADER >= used[a].asked
  /\ \A n \in lost : Max({Nunits(n), NALLOC}) * HEADER >= HeapUintMod \div 2
=============================================================================
