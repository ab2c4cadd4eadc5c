---------------------------- MODULE MCSequential ----------------------------
(***************************************************************************)
(* The parts that are checked by themselves, in one run: `part' says which *)
(* of them takes the steps; the others stay in an initial state.           *)
(***************************************************************************)
EXTENDS FileData, Memory, Descriptors, Heap, Shell, Paths, Clock, UserArgs

VARIABLE part

Parts == {"file data", "memory", "descriptors", "heap", "parser", "shell", "paths", "clock", "arguments"}

Seg(v, m, f, w) == [vaddr |-> v, memsz |-> m, filesz |-> f, whole |-> w]
Prog(r, a, s) == [runs |-> r, args |-> a, segs |-> s]
MCPrograms == {
  Prog(FALSE, 0, <<>>),
  Prog(TRUE, 1, <<Seg(0, 1, 1, TRUE)>>),
  Prog(TRUE, 1, <<Seg(0, 1, 1, TRUE), Seg(2, 3, 1, TRUE)>>),
  Prog(TRUE, 3, <<Seg(0, 3, 1, TRUE)>>),
  Prog(TRUE, 1, <<Seg(0, 2, 2, TRUE), Seg(4, 1, 1, FALSE)>>),
  Prog(TRUE, 1, <<Seg(1, 1, 1, TRUE)>>),
  Prog(TRUE, 1, <<Seg(0, 3, 1, TRUE), Seg(2, 31, 1, TRUE)>>),
  Prog(TRUE, 1, <<Seg(8, 25, 1, TRUE)>>),
  Prog(TRUE, 1, <<Seg(16, 17, 1, TRUE)>>),
  Prog(TRUE, 1, <<Seg(28, 5, 1, TRUE)>>)}
MCKernelPages == 6..12
MCDeltas == {-3, -2, 1, 4}
MCShLines == {
  <<"a", "|", "a", "|", "a">>,
  <<"(", "a", ";", "a", ")", "|", "a">>,
  <<"a", "|", "a", ";", "a">>,
  <<"a", "&", ";", "a">>,
  <<"(", "a", "|", "a", ")", "&">>,
  <<"a", "<", "a", "|", "a", ">", "a", ">", ">", "a">>,
  <<"a", "|", "(", "a", ";", ";", "a", ")", "<", "a">>}

(* Memory before the machine is on.                                        *)
VmOff ==
  /\ freelist = {} /\ mem = <<>> /\ image = [p \in Slots |-> NoImage] /\ expect = <<>> /\ leaks = {}
  /\ ignored = TRUE /\ wrapped = FALSE /\ emptied = {} /\ scribbled = {} /\ vmPanic = "off"

SeqInit ==
  /\ part \in Parts
  /\ IF part = "memory" THEN VmInit ELSE VmOff
  /\ FdInit /\ FtInit /\ HeapInit /\ LineInit /\ PathInit
  /\ ShInit /\ (part # "shell" => tree = parsecmd(CHOOSE l \in ShLines : TRUE).cmd)
  /\ ClockInit /\ (part # "clock" => ticks = 0)
  /\ IF part = "arguments" THEN ArgInit ELSE psz = 0 /\ addr = 0 /\ size = 0 /\ foff = 0 /\ fsize = 0

Others(v) == UNCHANGED <<part, argVars>> /\ UNCHANGED v
SeqNext ==
  \/ /\ part = "file data" /\ FdNext
     /\ Others(<<vmVars, ftVars, heapVars, line, shVars, path, clockVars>>)
  \/ /\ part = "memory" /\ VmNext
     /\ Others(<<fdVars, ftVars, heapVars, line, shVars, path, clockVars>>)
  \/ /\ part = "descriptors" /\ FtNext
     /\ Others(<<fdVars, vmVars, heapVars, line, shVars, path, clockVars>>)
  \/ /\ part = "heap" /\ HeapNext
     /\ Others(<<fdVars, vmVars, ftVars, line, shVars, path, clockVars>>)
  \/ /\ part = "parser" /\ LineNext
     /\ Others(<<fdVars, vmVars, ftVars, heapVars, shVars, path, clockVars>>)
  \/ /\ part = "shell" /\ ShNext
     /\ Others(<<fdVars, vmVars, ftVars, heapVars, line, path, clockVars>>)
  \/ /\ part = "paths" /\ PathNext
     /\ Others(<<fdVars, vmVars, ftVars, heapVars, line, shVars, clockVars>>)
  \/ /\ part = "clock" /\ ClockNext
     /\ Others(<<fdVars, vmVars, ftVars, heapVars, line, shVars, path>>)

seqVars == <<part, fdVars, vmVars, ftVars, heapVars, line, shVars, path, clockVars, argVars>>
SeqSpec == SeqInit /\ [][SeqNext]_seqVars

(* Memory up to the names of the frames.                                   *)
MemView ==
  <<[p \in Slots |-> <<image[p].sz, {t \in Tables : image[p].d.pt[t] # 0},
                       [a \in Mapped(image[p].d) |-> <<image[p].d.pte[a].u, mem[image[p].d.pte[a].pa]>>]>>],
    expect, Cardinality(freelist), Cardinality(leaks), ignored, wrapped, emptied, scribbled, vmPanic, FramesOwnedOnce>>
SeqView == CASE part = "file data" -> <<part, fdVars>>
             [] part = "memory" -> <<part, MemView>>
             [] part = "descriptors" -> <<part, ftVars>>
             [] part = "heap" -> <<part, heapVars>>
             [] part = "parser" -> <<part, line>>
             [] part = "shell" -> <<part, shVars>>
             [] part = "paths" -> <<part, path>>
             [] part = "clock" -> <<part, clockVars>>
             [] part = "arguments" -> <<part, argVars>>
=============================================================================
