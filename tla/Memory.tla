------------------------------- MODULE Memory -------------------------------
(***************************************************************************)
(* Physical pages and address spaces: kalloc.c, vm.c, exec.c, growproc and *)
(* the memory side of fork and wait (proc.c), with memory running out at   *)
(* any kalloc.                                                             *)
(*                                                                         *)
(* Sizes are scaled.  A frame holds one value: the properties ask whose    *)
(* page it is, not for its bytes.  Each call is a step; the helpers take   *)
(* and return a state of allocation s: the free frames, the contents of    *)
(* all, a page directory d, the frame f the last step found (0 for none),  *)
(* the size ret it returns, and whether it went wrong (bad, panic).        *)
(***************************************************************************)
EXTENDS Integers, Sequences, FiniteSets, FiniteSetsExt, SequencesExt

CONSTANTS
  NFRAMES,           \* physical pages from end to PHYSTOP
  Slots, InitSlot,   \* processes
  PGSIZE, NPTENTRIES,
  KERNBASE,          \* in bytes, as all sizes
  KTABLES,           \* page tables of the kernel part
  KernelPages,       \* the page numbers it maps (kmap)
  Programs,          \* files to exec
  Deltas,            \* arguments of sbrk
  StorePages,        \* pages that programs store into
  VmUintMod          \* 2^32, where uints wrap

ASSUME MemoryAssumption ==
  /\ {NFRAMES, PGSIZE, NPTENTRIES, KERNBASE, KTABLES} \subseteq Nat \ {0}
  /\ InitSlot \in Slots /\ Deltas \subseteq Int \ {0} /\ StorePages \subseteq 0..KERNBASE \div PGSIZE - 1
  /\ VmUintMod > 2 * KERNBASE /\ VmUintMod % PGSIZE = 0
  /\ KernelPages \subseteq KERNBASE \div PGSIZE..VmUintMod \div PGSIZE - 1

VARIABLES
  freelist,          \* kmem.freelist
  mem,               \* contents of the frames
  image,             \* per process: kernel stack, page directory, size
  expect,            \* what each process should find in its pages
  leaks,             \* frames that an error path has dropped
  ignored,           \* a failure of mappages has been ignored
  wrapped,           \* exec has met a segment whose end, as a uint, wraps
  emptied,           \* processes without a page, by sbrk
  scribbled,         \* processes that exec wrote to at address 0
  vmPanic

vmVars == <<freelist, mem, image, expect, leaks, ignored, wrapped, emptied, scribbled, vmPanic>>

Frames == 1..NFRAMES
PGUP(sz) == (sz + PGSIZE - 1) \div PGSIZE       \* pages, not bytes
Pages == 0..PGUP(KERNBASE) - 1
Table(a) == a \div NPTENTRIES
Tables == {Table(a) : a \in Pages}
VmUint(n) == n % VmUintMod

(* Contents: junk of kfree, the statistics stati writes, program text,     *)
(* arguments, what the program stores.                                     *)
JUNK == 1
STAT == 2
TEXT == 3
ARGS == 4
DATA == 5

NoPte == [pa |-> 0, u |-> FALSE]
NoDir == [dir |-> 0, kern |-> {}, pt |-> [t \in Tables |-> 0], pte |-> [a \in Pages |-> NoPte]]
NoImage == [kstack |-> 0, d |-> NoDir, sz |-> 0]
Mapped(d) == {a \in Pages : d.pte[a].pa # 0}

-----------------------------------------------------------------------------
(* kalloc.c.  The free list is a set: which frame comes first is nothing a *)
(* caller can rely on.                                                     *)

kalloc(s) ==
  IF s.free = {} THEN [s EXCEPT !.f = 0]
  ELSE [s EXCEPT !.f = Min(s.free), !.free = @ \ {Min(@)}]
kfree(s, fs) ==
  [s EXCEPT !.free = @ \cup fs, !.mem = [x \in Frames |-> IF x \in fs THEN JUNK ELSE @[x]]]
Memset(s, x, v) == [s EXCEPT !.mem[x] = v]

-----------------------------------------------------------------------------
(* vm.c.  Addresses of pages are page numbers.                             *)

Panic(s, why) == [s EXCEPT !.panic = why]

(* walkpgdir with alloc set.                                               *)
walkpgdir(s, a) ==
  IF s.d.pt[Table(a)] # 0 THEN [s EXCEPT !.f = s.d.pt[Table(a)]]
  ELSE [kalloc(s) EXCEPT !.d.pt[Table(a)] = IF s.free = {} THEN 0 ELSE Min(s.free)]

SetPte(w, a, pa, u) ==
  IF w.f = 0 THEN w
  ELSE IF w.d.pte[a].pa # 0 THEN Panic(w, "remap")
  ELSE [w EXCEPT !.d.pte[a] = [pa |-> pa, u |-> u]]
mappages(s, a, pa, u) == SetPte(walkpgdir(s, a), a, pa, u)

(* The frames taken so far are lost when it fails half-way.                *)
KernelTables(k, kern) ==
  IF Cardinality(kern) < KTABLES THEN [k EXCEPT !.free = {}, !.bad = TRUE, !.leaks = @ \cup kern \cup {k.f}]
  ELSE [k EXCEPT !.free = @ \ kern, !.d = [NoDir EXCEPT !.dir = k.f, !.kern = kern]]
LowestFrames(k) == {x \in k.free : Cardinality({y \in k.free : y < x}) < KTABLES}
KernelPart(k) == IF k.f = 0 THEN [k EXCEPT !.bad = TRUE] ELSE KernelTables(k, LowestFrames(k))
setupkvm(s) == KernelPart(kalloc(s))

(* The pages deallocuvm looks at.  Where a page table is missing it goes   *)
(* on NPTENTRIES pages further.                                            *)
Visited(d, from, oldsz) ==
  LET visit[a \in 0..PGUP(KERNBASE) + NPTENTRIES] ==
        IF a * PGSIZE >= oldsz \/ a \notin Pages THEN {}
        ELSE IF d.pt[Table(a)] = 0 THEN visit[a + NPTENTRIES]
        ELSE {a} \cup visit[a + 1]
  IN visit[from]
deallocuvm(s, oldsz, newsz) ==
  LET gone == Visited(s.d, PGUP(newsz), oldsz) \cap Mapped(s.d)
  IN IF newsz >= oldsz THEN [s EXCEPT !.ret = oldsz]
     ELSE [kfree(s, {s.d.pte[a].pa : a \in gone})
             EXCEPT !.ret = newsz, !.d.pte = [a \in Pages |-> IF a \in gone THEN NoPte ELSE @[a]]]

Failed(s) == s.bad \/ s.panic # ""

(* One page of allocuvm.  The result of mappages is not looked at.         *)
Ignoring(m, x) == IF m.f = 0 THEN [m EXCEPT !.leaks = @ \cup {x}, !.ignored = TRUE] ELSE m
ZeroPage(k, a) == Ignoring(mappages(Memset(k, k.f, 0), a, k.f, TRUE), k.f)
AllocPage(s, a) ==
  IF Failed(s) THEN s
  ELSE IF s.free = {} THEN [s EXCEPT !.bad = TRUE]
  ELSE ZeroPage(kalloc(s), a)
PageSeq(from, to) == [i \in 1..to - from |-> from + i - 1]
(* Its end: pages allocated so far are given back when memory is out.      *)
(* Mutant: a failure leaves the pages mapped so far.                       *)
AllocKeeps(g, oldsz, newsz) == [g EXCEPT !.ret = IF g.bad THEN 0 ELSE newsz]
AllocEnd(g, oldsz, newsz) ==
  IF g.bad THEN [deallocuvm(g, newsz, oldsz) EXCEPT !.ret = 0] ELSE [g EXCEPT !.ret = newsz]
allocuvm(s, oldsz, newsz) ==
  IF newsz >= KERNBASE THEN [s EXCEPT !.ret = 0]
  ELSE IF newsz < oldsz THEN [s EXCEPT !.ret = oldsz]
  ELSE AllocEnd(FoldLeft(AllocPage, [s EXCEPT !.bad = FALSE], PageSeq(PGUP(oldsz), PGUP(newsz))), oldsz, newsz)

(* Mutant: the page tables are not freed.                                  *)
freevmLeaks(s) == [kfree(deallocuvm(s, KERNBASE, 0), s.d.kern \cup {s.d.dir}) EXCEPT !.d = NoDir]
freevm(s) ==
  [kfree(deallocuvm(s, KERNBASE, 0), ({s.d.pt[t] : t \in Tables} \ {0}) \cup s.d.kern \cup {s.d.dir})
     EXCEPT !.d = NoDir]

(* One page of copyuvm, from d0.  mem is lost when mappages fails.         *)
Losing(m, x) == IF m.f = 0 THEN [m EXCEPT !.leaks = @ \cup {x}, !.bad = TRUE] ELSE m
CopyTo(k, a, pte) == Losing(mappages(Memset(k, k.f, k.mem[pte.pa]), a, k.f, pte.u), k.f)
CopyPage(s, a, d0) ==
  IF Failed(s) THEN s
  ELSE IF d0.pt[Table(a)] = 0 THEN Panic(s, "copyuvm: pte should exist")
  ELSE IF d0.pte[a].pa = 0 THEN Panic(s, "copyuvm: page not present")
  ELSE IF s.free = {} THEN [s EXCEPT !.bad = TRUE]
  ELSE CopyTo(kalloc(s), a, d0.pte[a])
CopyEnd(c) == IF c.bad THEN freevm(c) ELSE c
CopyPages(k, d0, sz) ==
  IF k.bad THEN k ELSE CopyEnd(FoldLeft(LAMBDA t, a : CopyPage(t, a, d0), k, PageSeq(0, PGUP(sz))))
copyuvm(s, d0, sz) == CopyPages(setupkvm(s), d0, sz)

-----------------------------------------------------------------------------
(* exec.c.  A step after one that went wrong does nothing.                 *)

Bytes2Pages(va, len) == IF len = 0 THEN {} ELSE va \div PGSIZE..(va + len - 1) \div PGSIZE

(* The pages are filled with v.  A page table that is missing is a panic   *)
(* of loaduvm, a null pointer in uva2ka.                                   *)
FillPages(s, as, v, why) ==
  IF \E a \in as : s.d.pt[Table(a)] = 0 THEN Panic(s, why)
  ELSE [s EXCEPT !.mem = [x \in Frames |-> IF \E a \in as : s.d.pte[a].pa = x THEN v ELSE @[x]]]

(* The pages of a segment, of which a file that is too short provides the  *)
(* first at most.                                                          *)
SegPages(seg) ==
  {a % (VmUintMod \div PGSIZE) :
     a \in Bytes2Pages(seg.vaddr, IF seg.whole THEN seg.filesz ELSE Min({seg.filesz, 1}))}

(* A page that has a page table and is not mapped stands for physical page *)
(* 0, which is not a frame.  Above KERNBASE loaduvm finds the kernel's own *)
(* mappings and writes over whatever is there: the model ends.             *)
UNALIGNED == "loaduvm: addr must be page aligned"
STRAYED == "loaded through the kernel's mappings"
loaduvm(s, seg) ==
  LET as == SegPages(seg)
  IN IF seg.vaddr % PGSIZE # 0 THEN Panic(s, UNALIGNED)
     ELSE IF as \cap KernelPages # {} THEN Panic(s, STRAYED)
     ELSE IF ~(as \subseteq Pages) THEN Panic(s, "loaduvm: address should exist")
     ELSE [FillPages(s, as, TEXT, "loaduvm: address should exist") EXCEPT !.bad = ~seg.whole]
LoadInto(a, seg) == IF a.ret = 0 THEN [a EXCEPT !.bad = TRUE] ELSE loaduvm([a EXCEPT !.bad = FALSE], seg)
SegEnd(seg) == VmUint(seg.vaddr + seg.memsz)
LoadSegment(s, seg) ==
  IF Failed(s) THEN s
  ELSE IF seg.memsz < seg.filesz THEN [s EXCEPT !.bad = TRUE]
  ELSE LoadInto(allocuvm([s EXCEPT !.wrapped = @ \/ SegEnd(seg) # seg.vaddr + seg.memsz], s.ret, SegEnd(seg)), seg)

clearpteu(s, a) ==
  IF s.d.pt[Table(a)] = 0 THEN Panic(s, "clearpteu") ELSE [s EXCEPT !.d.pte[a].u = FALSE]
GuardStack(a, guard) == IF a.ret = 0 THEN [a EXCEPT !.bad = TRUE] ELSE clearpteu(a, guard)
MakeStack(s) ==
  LET sz == PGUP(s.ret) * PGSIZE
  IN IF Failed(s) THEN s ELSE GuardStack(allocuvm(s, sz, sz + 2 * PGSIZE), PGUP(s.ret))

(* The argument strings and ustack, from the top of the stack down.        *)
copyout(s, len) ==
  LET as == Bytes2Pages(s.ret - len, len)
  IN IF Failed(s) THEN s
     ELSE IF \E a \in as : s.d.pt[Table(a)] # 0 /\ ~s.d.pte[a].u THEN [s EXCEPT !.bad = TRUE]
     ELSE FillPages(s, as, ARGS, "uva2ka")

(* bad: the new address space is freed.                                    *)
ExecEnd(e) == IF e.bad /\ e.panic = "" THEN [freevm(e) EXCEPT !.bad = TRUE] ELSE e
ExecLoad(k, prog) ==
  IF k.bad THEN k
  ELSE ExecEnd(copyout(MakeStack(FoldLeft(LoadSegment, [k EXCEPT !.ret = 0], prog.segs)), prog.args))
exec(s, prog) == IF ~prog.runs THEN [s EXCEPT !.bad = TRUE] ELSE ExecLoad(setupkvm(s), prog)

-----------------------------------------------------------------------------
(* The calls.                                                              *)

Begin(d) == [free |-> freelist, mem |-> mem, d |-> d, f |-> 0, ret |-> 0, bad |-> FALSE,
             leaks |-> leaks, ignored |-> ignored, wrapped |-> wrapped, panic |-> ""]
End(s) == /\ freelist' = s.free /\ mem' = s.mem /\ leaks' = s.leaks
          /\ ignored' = s.ignored /\ wrapped' = s.wrapped /\ vmPanic' = s.panic

Calls(p) == vmPanic = "" /\ image[p] # NoImage /\ p \notin emptied
Zeroed == [v |-> 0, u |-> TRUE]

(* userinit and inituvm.                                                   *)
VmInit ==
  LET k == kalloc([free |-> Frames, mem |-> [x \in Frames |-> JUNK], d |-> NoDir, f |-> 0, ret |-> 0,
                   bad |-> FALSE, leaks |-> {}, ignored |-> FALSE, wrapped |-> FALSE, panic |-> ""])
      s == AllocPage(setupkvm(k), 0)
  IN /\ freelist = s.free /\ leaks = {} /\ ignored = FALSE /\ wrapped = FALSE /\ vmPanic = ""
     /\ mem = [s.mem EXCEPT ![s.d.pte[0].pa] = TEXT]
     /\ image = [p \in Slots |-> IF p = InitSlot THEN [kstack |-> k.f, d |-> s.d, sz |-> PGSIZE] ELSE NoImage]
     /\ expect = [p \in Slots |-> IF p = InitSlot THEN [a \in {0} |-> [v |-> TEXT, u |-> TRUE]] ELSE <<>>]
     /\ emptied = {} /\ scribbled = {}

(* sys_sbrk, growproc.  A size of 0 from deallocuvm counts as a failure.   *)
Sbrk(p, n) ==
  LET sz == image[p].sz
      Size(s) == IF n > 0 THEN allocuvm(s, sz, VmUint(sz + n)) ELSE deallocuvm(s, sz, VmUint(sz + n))
  IN /\ Calls(p)
     /\ \E s \in {Size(Begin(image[p].d))} :
          /\ End(s)
          /\ image' = [image EXCEPT ![p].d = s.d, ![p].sz = IF s.ret = 0 THEN @ ELSE s.ret]
          /\ expect' = IF s.ret = 0 THEN expect
                       ELSE [expect EXCEPT ![p] = [a \in 0..PGUP(s.ret) - 1 |-> IF a \in DOMAIN @ THEN @[a] ELSE Zeroed]]
          /\ emptied' = IF n < 0 /\ s.ret = 0 THEN emptied \cup {p} ELSE emptied
     /\ UNCHANGED scribbled

(* allocproc takes the kernel stack; a fork that fails gives it back.      *)
VmFork(p, q) ==
  LET k == kalloc(Begin(NoDir))
  IN /\ Calls(p) /\ image[q] = NoImage /\ k.f # 0
     /\ \E c \in {copyuvm(k, image[p].d, image[p].sz)} :
          /\ End(IF c.bad THEN kfree(c, {k.f}) ELSE c)
          /\ IF Failed(c) THEN UNCHANGED <<image, expect, scribbled>>
             ELSE /\ image' = [image EXCEPT ![q] = [kstack |-> k.f, d |-> c.d, sz |-> image[p].sz]]
                  /\ expect' = [expect EXCEPT ![q] = expect[p]]
                  /\ scribbled' = IF p \in scribbled THEN scribbled \cup {q} ELSE scribbled
     /\ UNCHANGED emptied

(* exit and the parent's wait.                                             *)
VmReap(q) ==
  /\ vmPanic = "" /\ q # InitSlot /\ image[q] # NoImage
  /\ End(freevm(kfree(Begin(image[q].d), {image[q].kstack})))
  /\ image' = [image EXCEPT ![q] = NoImage] /\ expect' = [expect EXCEPT ![q] = <<>>]
  /\ emptied' = emptied \ {q} /\ scribbled' = scribbled \ {q}

(* The image a program asks for.  What a segment has below the size the    *)
(* process has reached with it is loaded.                                  *)
ImageOf(prog) ==
  LET Size(i) == PGUP(Max({0} \cup {SegEnd(prog.segs[j]) : j \in 1..i}))
      end == Size(Len(prog.segs))
  IN [a \in 0..end + 1 |->
        [v |-> IF \E i \in DOMAIN prog.segs : a \in SegPages(prog.segs[i]) /\ a < Size(i) THEN TEXT
               ELSE IF a = end + 1 /\ prog.args > 0 THEN ARGS ELSE 0,
         u |-> a # end]]

(* sys_exec.  stati is given a null pointer: it writes at address 0 of the *)
(* process that calls exec.                                                *)
Exec(p, prog) ==
  LET old == image[p].d
  IN /\ Calls(p) /\ old.pte[0].pa # 0
     /\ UNCHANGED emptied
     /\ \E s \in {exec(Memset(Begin(NoDir), old.pte[0].pa, STAT), prog)} :
          IF Failed(s)
          THEN End(s) /\ scribbled' = scribbled \cup {p} /\ UNCHANGED <<image, expect>>
          ELSE /\ End(freevm([s EXCEPT !.d = old])) /\ scribbled' = scribbled \ {p}
               /\ image' = [image EXCEPT ![p].d = s.d, ![p].sz = s.ret]
               /\ expect' = [expect EXCEPT ![p] = ImageOf(prog)]

(* The program stores into one of its pages.                               *)
Store(p, a) ==
  /\ Calls(p) /\ image[p].d.pte[a].pa # 0 /\ image[p].d.pte[a].u /\ a \in DOMAIN expect[p]
  /\ mem' = [mem EXCEPT ![image[p].d.pte[a].pa] = DATA]
  /\ expect' = [expect EXCEPT ![p][a].v = DATA]
  /\ UNCHANGED <<freelist, image, leaks, ignored, wrapped, emptied, scribbled, vmPanic>>

VmNext ==
  \E p \in Slots :
    \/ \E n \in Deltas : Sbrk(p, n)
    \/ \E q \in Slots : VmFork(p, q)
    \/ VmReap(p)
    \/ \E prog \in Programs : Exec(p, prog)
    \/ \E a \in StorePages : Store(p, a)

VmSpec == VmInit /\ [][VmNext]_vmVars

-----------------------------------------------------------------------------
(* Properties.                                                             *)

(* Every physical page has one owner: the free list, or one place in one   *)
(* process, or it is one of those that setupkvm, allocuvm and copyuvm drop *)
(* when they fail half-way.  No other path of fork, exec, sbrk or wait     *)
(* loses a page, and none gives a page back twice.  The kernel panics over *)
(* an address space only after allocuvm has ignored a failure of mappages, *)
(* or over a program with a segment that is not page-aligned or wraps: no  *)
(* check of exec stands before those of loaduvm.                           *)
Owners(x) ==
  (IF x \in freelist THEN 1 ELSE 0) + (IF x \in leaks THEN 1 ELSE 0)
  + Cardinality({p \in Slots : image[p].kstack = x})
  + Cardinality({p \in Slots : image[p].d.dir = x})
  + Cardinality({p \in Slots : x \in image[p].d.kern})
  + Cardinality({<<p, t>> \in Slots \X Tables : image[p].d.pt[t] = x})
  + Cardinality({<<p, a>> \in Slots \X Pages : image[p].d.pte[a].pa = x})
FramesOwnedOnce ==
  IF vmPanic = "" THEN \A x \in Frames : Owners(x) = 1 ELSE ignored \/ wrapped \/ vmPanic = UNALIGNED

(* A process has exactly the pages below its size, with what it, its       *)
(* parent before fork, or its program put there; others' stores, failed    *)
(* calls and reused frames do not show.  What the code does beyond that is *)
(* excepted: what follows an ignored failure of mappages (allocuvm), a     *)
(* segment loaded through the kernel's mappings, and page 0 after a failed *)
(* exec.  A process that gives back all its pages with sbrk keeps its      *)
(* size, and has none of them.                                             *)
UserMemory ==
  ~ignored /\ vmPanic # STRAYED =>
    \A p \in Slots : image[p] # NoImage =>
      IF p \in emptied THEN Mapped(image[p].d) = {} /\ image[p].sz > 0
      ELSE /\ Mapped(image[p].d) = 0..PGUP(image[p].sz) - 1
           /\ DOMAIN expect[p] = Mapped(image[p].d)
           /\ \A a \in Mapped(image[p].d) :
                /\ image[p].d.pte[a].u = expect[p][a].u
                /\ mem[image[p].d.pte[a].pa] = expect[p][a].v \/ (a = 0 /\ p \in scribbled)

=============================================================================
