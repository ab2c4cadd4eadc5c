# A TLA+ model of the TRON-BOSS-OS kernel

The repository is an xv6 teaching kernel for x86 multiprocessors, extended (the
flags `CS333_P1` to `CS333_P5` of the Makefile are on) with per-state process
lists, a multi-level feedback queue, uid/gid and file modes.  This directory
models it in TLA+ and checks the models on small instances with TLC.  With TLAPS it
proves, for every value of the parameters, the safety properties of the process table
(lists, processors, parents, waiting) and of the feedback queue (budgets, promotion,
strict priority), that the buffer cache is a store of blocks with one holder each, that
the write-ahead log implements atomic transactions as long as they end before the log does,
that pipes lose no wakeup and free no page in use, that `sleep(n)` waits for at least n ticks
across the wrap of the clock, and which system call arguments are accepted.

`PROJECT.json` is the index: components, runs, mutants, the source lines each
definition models, hazards, findings and theorems.

## 1. Inventory of the system

| part | state | operations that change it |
|---|---|---|
| process table (`proc.c`) | `ptable.proc[]`, `ptable.pLists`, `nextpid`, `ptable.lock` | `allocproc` `userinit` `fork` `exit` `wait` `sleep` `wakeup` `kill` |
| scheduler (`proc.c`) | ready lists, `priority`, `budget`, `PromoteAtTime`, per-CPU `proc` | `scheduler` `sched` `yield` `forkret` `setpriority`, promotion |
| traps (`trap.c`) | `ticks`, `killed` | system calls, clock, device interrupts, faults |
| spin locks (`spinlock.c`) | `locked`, `cpu->ncli`, `cpu->intena` | `acquire` `release` `pushcli` `popcli` |
| log (`log.c`) | `log.lh`, `outstanding`, `committing`, the log on disk | `begin_op` `log_write` `end_op` `commit` `recover_from_log` |
| buffer cache, disk (`bio.c`, `ide.c`) | buffers and their flags, the MRU list, `idequeue` | `bget` `bread` `bwrite` `brelse` `iderw` `ideintr` |
| file system (`fs.c`, `sysfile.c`) | inode cache, bitmap, inodes, directories | `ialloc` `iget` `iput` `ilock` `bmap` `itrunc` `writei` `dirlink`, `chmod` `chown` `chgrp`, the system calls |
| open files, pipes (`file.c`, `pipe.c`) | `ftable`, `struct pipe` | `filealloc` `filedup` `fileclose` `fileread` `filewrite`, `pipealloc` `pipewrite` `piperead` `pipeclose` |
| memory (`vm.c`, `kalloc.c`, `exec.c`) | page tables, the free page list | `allocuvm` `deallocuvm` `copyuvm` `freevm` `kalloc` `kfree` `exec` |
| console (`console.c`) | `input` ring, `cons.lock` | `consoleintr` `consoleread` `consolewrite` |
| user level (`umalloc.c`, `sh.c`, commands) | the heap's free list | `malloc` `free`, the shell's parser |

How they interact.  A process enters the kernel through `trap`; system calls take
sleep locks (busy flags) and spin locks, give the processor up in `sleep` or
`wait`, and are resumed by `scheduler`.  Interrupt handlers on any CPU call
`wakeup`.  The file system changes disk blocks only inside `begin_op`/`end_op`
(but for a read that allocates, section 4), through the buffer cache.  Everything that blocks goes through the process table.
`fork` copies an address space and a descriptor table, `exec` loads a program from an
inode, and the shell uses fork, exec, pipes, descriptors and wait together.

`PROJECT.json` lists the hazards of each part at the line where they bite.

## 2. Modules

| module | models | notes |
|---|---|---|
| `StateLists` | the list helpers of `proc.c` | linked lists as sequences of slots |
| `ProcTable` | process table, scheduler, traps | the specification, its properties, the mutants |
| `MCLifecycle` | instances about fork, exit, wait, kill, sleep | `MCLifecycle.cfg`, `MCKillEmbryo.cfg` |
| `MCMlfq` | instances about the feedback queue | `MCMlfqOne.cfg`, `MCMlfqAll.cfg`, `MCPromoteSmp.cfg` |
| `ProcTableLists` | lemmas about the list helpers; each action keeps the lists sorted | |
| `ProcTableProofs` | lemmas about processors, the lock and embryos; the invariant | theorems about lists, processors, the lock |
| `ProcTablePromises` | parents, children and waiting | extends `ProcTableProofs` |
| `MlfqProofs` | promotion, priorities, budgets | extends `ProcTablePromises` |
| `TxDisk` | what `log.c` promises | abstract specification |
| `Log` | `log.c` | shown to implement `TxDisk` |
| `MCLog` | instances of `Log` | `MCLog.cfg`, `MCLogTooBig.cfg` |
| `LogProofs` | the invariant of the log and the refinement | |
| `ByteQueue` | what a pipe promises | abstract specification |
| `Pipe` | `pipe.c` | shown to implement `ByteQueue` |
| `PipeProofs` | the invariant of the pipe and its theorems | |
| `MCPipe` | instance of `Pipe` | `MCPipe.cfg` |
| `BlockStore` | what the buffer cache promises | abstract specification |
| `Bcache` | `bio.c`, `ide.c` | shown to implement `BlockStore` |
| `BcacheProofs` | the invariant of the cache and the refinement | |
| `MCBcache` | instance of `Bcache` | `MCBcache.cfg` |
| `FileSys` | inodes, directories, paths: `fs.c`, `sysfile.c` | processes interleave at every lock |
| `MCFileSys` | instance of `FileSys` | `MCFileSys.cfg` |
| `LineQueue` | what the console promises its readers | abstract specification |
| `Console` | `console.c`, `spinlock.c` | shown to implement `LineQueue` |
| `MCConsole` | instance of `Console` | `MCConsole.cfg` |
| `FileData` | blocks of files: `fs.c`, `file.c`, `mkfs.c` | |
| `Memory` | `kalloc.c`, `vm.c`, `exec.c`, growproc, fork, wait | |
| `Descriptors` | `file.c`, descriptors of `sysfile.c`, pipealloc | |
| `Heap` | `umalloc.c` | |
| `ShellParse`, `Shell` | `sh.c`: the parser; the processes of one line | |
| `Paths` | skipelem and namex's walk over characters | |
| `Clock` | sys_sleep and the tick | |
| `UserArgs` | fetchint, argptr | |
| `SyscallProofs` | the proofs about `Clock` and `UserArgs` | |
| `MCSequential` | instance of the modules from `FileData` to `UserArgs` | `MCSequential.cfg` |

### ProcTable

State.  `pLists` is `ptable.pLists`, a sequence per list; `state`, `pid`,
`parent`, `chan`, `killed`, `priority`, `budget` are the fields of `struct proc`;
`nextpid`, `ticks`, `PromoteAtTime` the globals.  `lock` is the CPU that holds
`ptable.lock`.  Per CPU: `proc`, the clock value at dispatch (`cpu_ticks_in`),
where `scheduler()` is (`cpc`) with its locals `i` and `idle`, and the interrupt
handler the CPU is in (`irq`).  Per process: where it is (`ppc`): in user mode, in
a system call, in one of the steps of `fork()`, asleep in or resumed in `wait()`,
on the way back to user mode, or in `exit()`; and the local `np` of `fork()`.

Grain.  A critical section of `ptable.lock` is one step, because nothing else
reads or writes what it touches meanwhile, except `ticks`.  Where the code leaves
the lock or hands it on, the model has separate steps: `fork()` works on its new
slot in four steps; the scan of the ready lists takes one step per list, each
reading the clock again; a process that calls `sched()` leaves the lock to its
scheduler, and a process resumed in `wait()` gets it back.  Interrupts arrive
between any two steps of a CPU that does not hold the lock.

Abstractions.  One channel `IO` stands for all kernel objects other than `&ticks`
and a process's own address.  Device interrupts come to the processors that
`ioapicenable` routes them to.  `Events` says which calls and interrupts an instance has:
`mlfq_one_cpu` has those of the keyboard and of the disk, the two-processor runs those of
the disk, and sleeping for ticks is in the feedback-queue runs, which have a clock.  What a system call does outside the process table is
the freedom to sleep, wake or be done.  Memory, files, names and the counters that
are only displayed (`start_ticks`, `cpu_ticks_total`) are left out.  The
initialisation in `forkret` of the very first process is a system call that may
sleep.  Commands that only read the table appear in `Console`, for their locks.  A panic stops the system
for good: `panicked` records why, and the other variables no longer matter.

Overflow is modelled: `ticks`, `budget` and `PromoteAtTime` are modulo `UintMod`.
`nextpid` is bounded by `MaxPid` (no process is created beyond it), so pid reuse
after an overflow of `nextpid` is outside the model.

### Log

State.  On disk: `home` (the blocks' own places), `logblk` (the log's data blocks)
and `hdr` (the block numbers of the header block).  In memory: `lh`, `outstanding`,
`committing` as in `struct log`; `cache`, what a `bread` of a block returns; per
process where it is (`opc`), the buffer it has locked (`buf`) and the blocks its
operation has written (`wrote`, which bounds the operation); `overdrawn`, that an
operation of the transaction wrote more than `begin_op` reserved for it.  `cph` and
`tail` say where `commit()` or `recover_from_log()` is, `up` that recovery is over.
An operation may write `OpBlocks` blocks, which need not be within `MAXOPBLOCKS`.

Grain.  A critical section of `log.lock` is one step; `log_write` is two, because
it tests the size of the log before it takes the lock; every block write of
`commit` and of recovery is a step, with a possible crash before and after.  A
machine that panicked stands still until it is reset, which is a crash too.  The
buffer cache is taken at its word: a buffer is used by one process at a time, and
one with `B_DIRTY` set is not evicted.  A block is one sector, written whole.

The end of the log.  `write_log` and `install_trans` use block `log.start+tail+1`
whatever `log.size` is, and behind the log `mkfs` puts the inode blocks.  Home blocks
are therefore numbered from the end of the log on, and a transaction of `size` blocks or
more is written over them.  If such a block is itself the one to be copied, the second
`bread` waits for the first for ever (`Apart`).  `lh` may grow past `LOGSIZE` entries as a
sequence; what the array `log.lh.block` would overwrite then is not modelled.

### Pipe

State.  The fields of `struct pipe`; `freed`; which ends each process holds (the
reference counts of the two files); per process where it is and what is left of
its request.  The counters are modulo `UintMod`, a multiple of `PIPESIZE` as 2^32
is of 512.

Grain.  A critical section of `p->lock` is one step, up to `sleep()`, which is a
step of its own: the lock is still held, but `kill()` does not need it.

### Bcache

State.  Per buffer its block, contents and flags; the MRU list; `idequeue` and the
command the disk is working on; per process where it is, the block it asked for
and the buffer it uses or sleeps on.  `mru` is the list from `head.next` on as a
function of the position.  `log_write` appears as the step that leaves a buffer dirty.
`panicked` names the function whose panic stopped the machine.

Grain.  Critical sections of `bcache.lock` and `idelock` are steps; the disk's own
work and its interrupt are two more.  Both `bget` and `iderw` sleep on the buffer's
address, so one `wakeup` wakes sleepers of both kinds.  A process holds one buffer
at a time, the disk reports no errors, and there is one disk.

### FileSys

State.  The inode cache (`icache`: number, references, `I_BUSY`, `I_VALID`, type and
link count), the inodes on disk (`dinode`), the directories (`dir`), the file table,
the current directories, and per process the call it is in with its local inodes.

Grain.  As in the header of the module: what a call does to an inode under its lock is
one step, and every `iget`, `iunlock` and `iput` between which another process may come
in is a step.  `create`, `link`, `unlink`, `open`, `chdir`, `exec`'s opening of its file,
`chmod`, `chown`, `chgrp` and `close` are each several steps, path lookup one step per
element.  Mode bits and owners are left out: a call that may be refused is a choice.
The log is taken at its word here (a call's changes are atomic with respect to crashes,
which `Log` shows); file contents are in `FileData`.

### Console

State.  The ring `buf` with `r`, `w`, `e` modulo `UintMod`; the two spin locks with the
processor that holds them; per processor `ncli`, `intena` and the interrupt flag; the
interrupt handler; per process where it is in `consoleread` or `consolewrite`.  The list commands `^P`, `^R`, `^F`, `^S`, `^Z` run in
the handler after `cons.lock` is released, as in the code.

### Memory

Page directories, page tables and user pages are frames from one free list that runs
out.  Every `kalloc` of `fork`, `exec`, `sbrk` and the helpers in `vm.c` may be the one that
fails, and the model follows the code's clean-up, or lack of it.  A frame's contents
are one value; the kernel half of an address space is a number of page tables and the
set `KernelPages` of pages they map.  Programs have segments at any address: one that is
not page-aligned makes `loaduvm` panic; one whose end wraps passes `allocuvm` and is loaded
into pages that earlier segments have, into physical page 0, to a panic, or through the
mappings of the kernel.  In the last case any frame or the kernel itself may be
overwritten, and the model ends there (`STRAYED`).

### FileData, Descriptors, Heap

`FileData` starts with `mkfs` filling the image and goes on with calls of a process on
open files, one iteration of the loops of `writei`, `readi` and `filewrite` per step.
Blocks, direct addresses and the log are scaled down; `NINDIRECT = BSIZE`.  Only writes are
operations of the log.  A read that makes `bmap` allocate is in `log_write` outside of one,
which is a panic unless some other process has an operation in progress; that is a choice
of the step.
`Descriptors` has one step per critical section of `ftable.lock`, so that a file entry is
reused while the `fileclose` that freed it still has to put the inode or close the pipe.
`Heap` is `malloc` and `free` with programs that call `sbrk` in between.  `morecore` multiplies
as a uint and `sbrk` takes an int (`SbrkArg`); a request that makes the argument zero or
negative is a step after which the heap is not followed (`MallocBeyond`).

### ShellParse, Shell, Paths, Clock, UserArgs

`ShellParse` is the recursive descent over a line, with `nulterminate`; it is compared
with a grammar written from the rules of the language, on every line up to `MaxLine`
characters.  `Shell` runs the parsed trees of the lines in `MCShLines`.  `Paths` compares
`skipelem`, which reuses one name buffer, with splitting at slashes.  `Clock` is `sys_sleep` against the tick, including a tick between
the look at `ticks` and the sleep.  `UserArgs` is the address arithmetic of `syscall.c`, with
sizes that are ints and may be negative, and what `readi` makes of such a count.
These parts share no state with each other; `MCSequential` puts them in one run, where
`part` says which of them moves.

## 3. Runs

| run | instance | shows |
|---|---|---|
| `lifecycle` | 2 CPUs, 3 slots, pids 1 to 3; fork, failing fork, wait, kill, exit, sleep, wakeup, disk interrupts, faults | the lists partition the slots; one CPU per process; parents are live; no wakeup of a waiting parent is lost |
| `mlfq_one_cpu` | 1 CPU, 3 slots, 2 levels, wrapping clock, fairness | budgets, strict priority; every RUNNABLE process runs |
| `mlfq_two_cpus` | 2 CPUs, 2 slots, 3 levels, setpriority | promotion reaches everyone and is not missed |
| `promotion_missed` | 2 CPUs | violation: the promotion time is stepped over |
| `kill_reaches_new_process` | 2 CPUs, 3 slots | violation: a kill reaches the wrong process |
| `log` | 2 processes, 3 blocks, 2 slots, operations of up to 2 blocks of which 1 is reserved, any number of crashes, fairness | transactions are atomic unless they run over the end of the log; how long the header gets; who waits in `begin_op` gets in |
| `log_too_big` | 2 operations within their reservations of 2 blocks, a log of 4 blocks as `mkfs` makes it | violation: `log_write` panics |
| `pipe` | 2 processes, ring of 2 bytes, counters modulo 4, fork, close, kill, fairness | the pipe is a bounded queue; only a killed writer leaves a reader asleep beside bytes; the page is freed last; a closed end unblocks the other side |
| `buffer_cache` | 2 processes, 3 blocks, 2 buffers, fairness | the holder sees the last contents; requests finish |
| `file_system` | 2 processes, 6 and 7 different calls on 2 names, 3 inodes, 3 cache entries, 1 open file | reference and link counts, the cache, orphans, lock order, panics |
| `console` | 2 CPUs, 2 processes, ring of 3, indices modulo 6 | the console is a queue of lines; lock order and interrupt flags |
| `sequential` | the nine parts of `MCSequential` | see below |

What the `sequential` run checks:

| part | instance | properties |
|---|---|---|
| file data | 2 files, 4 blocks of 2 cells, one direct address | no block has two owners, the bitmap is exact, reads return what was written, a chunk fits the log |
| memory | 14 frames, 2 processes, 10 programs, 5 of them with an unaligned segment or one that wraps | each frame has one owner, a process sees its own pages and only those, panics |
| descriptors | 2 processes, 3 file entries, 2 descriptors, 1 page for a pipe | counts are exact, the last close and only it releases |
| heap | 9 headers, requests of 0, 3, 28, 30 and 31 bytes of a uint modulo 32 | blocks partition the heap, the free list is ordered and joined, blocks are large enough |
| parser | every line of up to 5 characters | the tree is the one the grammar gives |
| shell | 7 lines, 6 process slots, failing forks | descriptors of every program, no circular wait, order of lists |
| paths | every path of up to 7 characters, names of 2 | the elements and which is the last |
| clock | a clock modulo 8 that starts at 0 or 6, sleeps of 0, 1 and 3 ticks | a sleep that succeeds lasts at least as long as it should |
| arguments | 16 addresses, sizes from -8 to 7, offsets and file sizes up to 3 | what `argptr` accepts, and what `readi` then copies, is inside the process |

Bounds.  Three slots are init, a parent and a child, so a child can lose its
parent to exit; two CPUs are enough for every race on one lock, since a third
would only wait; with pid 4 in `kill_reaches_new_process` a slot is used twice.  Budgets and
promotion periods of one to three ticks make demotion and promotion happen within
a few steps, and the three levels of `mlfq_two_cpus` include a middle one.  In
`mlfq_one_cpu` a clock of three values wraps, so the uint arithmetic is exercised.

For the log, two processes share a transaction or one waits for the other's commit, and
an operation can write a block that is already logged (absorption).  `MCLog.cfg` has
`LOGSIZE = 2` and `size = 3`, one block more than `mkfs` gives the log, so that both limits of
`log_write` are 2.  One block is reserved for an operation and it may write two, so the
header fills up, two calls of `log_write` pass the test at one free slot together, and the
third block of the transaction lands behind the log, on block 1.  In the kernel, with
10 of 30 reserved and a log of 30, the bound of `HeaderFits` is 31 blocks.  To keep the
instance small the disk starts as zeroes and only block 1 is written with both contents
(`MCUpdates`).  For the pipe, writes are longer than the ring, so a write takes several
turns, and the counters wrap after two rings.  The pipe run does not check deadlock: a
process that reads from a pipe whose only write end is its own sleeps for ever.  For the
buffer cache, three blocks in two buffers force recycling, and two processes meet on a
busy buffer and in the disk queue.

For the file system, the calls of the two processes are chosen so that each can remove,
replace or recreate what the other is walking through: a directory that is a current
directory, a name being linked, an inode that is freed and allocated again between
another's `iget` and `ilock`.  Three inodes beside three cache entries make both limits
reachable.  `MaxLost` bounds the references `chmod` leaves behind.  For the console, a ring
of three holds one line and the start of the next, and reads of two characters leave part
of a line.  Deadlock is not checked there: the circular wait described below is one.  In
the sequential parts every limit (frames, blocks, file entries, heap, slots) is small
enough to be hit from every place that allocates.  Six process slots let the three programs
of `a|a|a` be alive together with the shells that started them.  Deadlock is not checked since the
parts end (a line that is as long as it gets).  The view of `MCSequential` identifies
memories that differ in the names of frames only, which no property tells apart.

`TicksApart` states an assumption about time: CPU 0 reaches its scheduler between
two ticks.  On one CPU this holds because a tick makes the process yield; the
passing feedback-queue runs assume it, and `promotion_missed` shows what happens
without it.  `PromotionNotMissed` therefore says that the test for equality works
whenever it is made once per tick, and no more.  `StrictPriority` is checked on one CPU only: on several, CPU 0 may
count a tick while another CPU is in the middle of its scan.  The promotion is then due at
the next list of that scan, and lifts a process above the level being scanned.  The
`lifecycle` instance has one ready list; that promotion keeps the lists sorted is the
theorem `ListsCorrect`.

Fairness (`mlfq_one_cpu`).  The scheduler and the interrupt handlers of a
CPU are strongly fair: they spin for `ptable.lock`, which is released over and
over, and the spin lock is assumed not to starve a CPU for ever.  Timers are
hardware and keep firing.  A process resumed in `wait()` with the lock held runs
with interrupts off and so goes on.  No fairness is assumed of what user processes
or system calls do: a process may loop for ever.

In `log` the operations and the disk are weakly or strongly fair as the
comment at `Fairness` says: an operation inside the kernel ends, the disk answers,
and a process woken in `begin_op` competes for `log.lock` without being starved.
Crashes and new calls are not fair.  In `pipe` only the steps of a process
inside `pipe.c` are (strongly) fair, for the same reason.  In `buffer_cache` the
disk answers, its interrupt is taken, and a process inside `iderw` goes on; the
holder of a buffer releases it.

## 4. Findings

* `promotion_missed`: `PromoteAtTime == ticks` (proc.c:580) is an equality.  Two
  ticks before anyone scans, and no promotion happens until the clock wraps.
* `kill_reaches_new_process`: a slot freed by a failed `fork()` keeps `killed`.
* `log_too_big`: `begin_op` reserves within `LOGSIZE`, `log_write` panics at
  `log.size - 1`, and `mkfs` makes `log.size = LOGSIZE`.  In the run two operations of
  `MAXOPBLOCKS = 2` blocks each share a log of 4: begin_op has room for both, three blocks
  are logged, and the `log_write` of the fourth panics.

More behaviours of the code shape what the passing runs state: the property names the
exception, and nothing but the exception.  No run records them as counterexamples.

* `budget` is a `uint` and `budget <= 0` (proc.c:695, 771) is `budget == 0`.  On two
  CPUs a process on CPU 1 that stays in the kernel with interrupts off while CPU 0
  counts more ticks than the budget is left with an enormous budget instead of being
  demoted.  TLC finds this when `MCPromoteSmp.cfg` is made to check `BudgetInRange`
  with `DEFAULT_BUDGET = 1`; the property is kept for one CPU only.
* A killed process goes from the timer interrupt into `exit()` with its last tick unpaid
  (trap.c:98), so its budget may wrap while it is on its way out; `BudgetInRange` is
  about processes that are not killed.
* A killed writer that has filled the pipe returns without waking the readers
  (pipe.c:85-88), so "a sleeping reader has nothing to read" is false of the code.
  `ReaderSleepsOnEmpty` says instead that no other step leaves a reader so.
* `killed` is tested in pipe.c without `ptable.lock`, so a kill just before
  `sleep()` is noticed only at the next wakeup.  `Sleep` is a step of its own, and
  `EndOfFileReaches` covers processes that are asleep with `killed` set.
* `chmod`, `chown` and `chgrp` leave the inode referenced when they succeed (fs.c:670):
  after enough of them the inode cache is full and `iget` panics.  `RefsAccounted` says that
  only these calls lose references; `PanicsAccounted` allows that panic always.
* `create` may add a name to a directory that was removed meanwhile; the link goes with
  the directory and the count stays one too high (`LinksCounted`).  `..` of a removed
  directory may name an inode that has been freed, and `ilock` panics on it
  (`PanicsAccounted`, which allows this panic from the first such step on).
* A list command of the console takes `cons.lock` under `ptable.lock`, `consoleread` takes
  `ptable.lock` (in `sleep`) under `cons.lock`: on two processors each can wait for the
  other (`CircularWaitAccounted` shows this is the only such pair).
* `allocuvm` ignores a failure of `mappages`; `setupkvm` and `copyuvm` drop pages when they
  fail; `sbrk(-sz)` frees every page and then reports failure; `exec` calls `stati` with a
  null pointer, which writes to page 0 of the caller (`FramesOwnedOnce`, `UserMemory`).
* `exec` does not check where a segment lies.  `loaduvm` panics over one that is not
  page-aligned; `ph.vaddr + ph.memsz` (exec.c:66) may wrap, and the segment is then loaded
  where nothing was allocated, above `KERNBASE` over whatever frame the kernel maps there
  (`FramesOwnedOnce`, `UserMemory`).
* Two calls of `log_write` can both pass its test of `lh.n`, made before the lock is taken,
  with room for one.  The transaction then has as many blocks as the log with its header,
  and `write_log` writes the last over the first inode block (`HeaderFits`, `Atomic`).
* `argptr` takes a negative size for a large uint and accepts it unless the sum is beyond
  the process.  For `read` of a file at an offset below the absolute value of the count,
  `readi` then copies the rest of the file (`ArgsInside`).
* `mkfs` rounds the root directory's size up by a block too many when it ends with a block.
  A `read` of it then panics in `log_write`, since `fileread` begins no operation; if another
  process is in one, it allocates blocks without writing the inode (`BlocksOwnedOnce`).
* A chunk of `filewrite` fits the log (`ChunkFitsLog`), but may be more than `MAXOPBLOCKS`
  (17 blocks, where 10 are reserved); two chunks in one transaction may not fit.
* In the shell the first of two redirections of one descriptor lasts, `a & b` is a syntax
  error, and a pipe command whose second fork fails does not wait for its first.
* The rounding in `malloc` wraps for requests near the largest `uint`, and `morecore` hands
  requests of 2^31 bytes or more to `sbrk` as zero or a negative number (`HeapPartition`).

## 5. Proofs

`ProcTableProofs` proves `Spec => []IInv` (theorem `Invariance`) for every value of
the constants that satisfies `ConstantsAssumption` (at least one slot and CPU,
budgets and periods that fit in a uint), and from it the six theorems
`PROJECT.json` lists: `TypeCorrect`, `ListsCorrect`, `ListsNeverPanic`,
`RunsOnOneCpu`, `LockIsHandedOver`, `EmbryoHasOneOwner`.

`IInv` is the conjunction of the invariants, because none is inductive alone.
That `removefromlist` succeeds in `yield` needs the lists to be right and the
running process to be RUNNING, which is `OneCpuPerProcess`; that two CPUs never
dispatch one process needs the lists and the lock discipline (`LockHandedOver`);
that `fork()` finds its slot on the embryo list outside the lock needs
`EmbryoOwned`.

The argument.  `KeyOf(state, priority)` names the list each process belongs on and
`Sorted(lists, key)` says that the lists are sorted by it.  `Relist` shows that
moving one process between two lists keeps them sorted by the changed key;
`WakeSorted` and `PromotionSorted` do it for the two operations that move many.
Each action is one of these moves with the matching change of `state` or
`priority` (`ProcTableLists`).  The first half of `ProcTableProofs` treats what an
action does to the processors: stay, give up, return, scan, dispatch.  `StepInv` puts
the groups of actions together.

`ProcTablePromises` proves `NoOrphans` (`ParentLive`) and `WaitNeverForgotten`
(`WaiterWillBeWoken`), again for every value of the constants.  The two need each other
and more, which is `FamilyInv`: init is alive and has no parent; an unused slot, and an
embryo until `fork()` has copied the image, has none either; an embryo after that is the
child of the process that forks it; who sleeps in `wait()` sleeps on its own address;
nobody is its own parent.  The hard case is `exit()` (`ExitEffect`, `ExitFamily`), which
wakes its parent, looks for its children on every list but the zombies' and then among the
zombies, gives them to init and wakes init only if one of them is a zombie.  That it finds
every child needs the invariant of the lists as they are after the first wakeup; that init
misses none needs that a child that is not a zombie wakes init itself when it exits.

`MlfqProofs` proves the four safety properties of the feedback queue.

* `PromotionReachesAll` (`PromotionIsForAll`), in general: only a look at the clock moves
  `PromoteAtTime` (`WhoTouchesTheClock`), and the promotion of a sorted table lifts every
  live process by one (`PromotedByOne`).
* `NoPromotionMissed` (`PromotionNotMissed`), if `TicksApart`.  `PromotionInv` adds that
  a promotion is due only while CPU 0 has still to look at the clock (`tickOwed`), so the
  tick that would step over it cannot come first.
* `PriorityIsStrict` (`StrictPriority`), if `NCPU = 1`.  `ScanInv`: while the scheduler is in
  its scan, the ready lists before the current one are empty and no promotion is due, since
  nobody else runs.
* `BudgetsHold` (`BudgetInRange`), if `NCPU = 1`.  `BudgetInv`: the clock is ahead of
  `cpu_ticks_in` by the ticks the running process has not paid yet (`Unpaid`), at most one,
  and that only while its interrupt handler is on the way to `yield()`; so a charge is at
  most one tick and the budget it is taken from at least one.

The hypotheses are those of the runs: `promotion_missed` is the counterexample without
`TicksApart`, and on two CPUs the last two properties fail as sections 3 and 4 say.

`LogProofs` proves, for every number of processes, blocks, values and log slots, every size
of the log and however many blocks operations write (`LogAssumption` asks only that the
reservation of one operation fits `LOGSIZE`, and that there are blocks behind the log),
`Spec => []LInv` (`LogInvariant`) and from it `HeaderNeverOverrun`, `UnloggedStaysClean` and
the refinement `LogIsAtomic`, which is about steps of transactions that end before the end of
the log (`Fits`).  `LInv` has three parts.  `OpsCounted` and `SpaceReserved` are a counting
argument for operations that keep to their reservations: `Unused` holds one pair for each
block an operation may still add, `begin_op` adds `MAXOPBLOCKS` pairs after it has found room
for them, and a `log_write` that lengthens the log uses one up.  `Bounded` is the argument for
all others: those between the test and the lock are counted in, and are at most the
operations `begin_op` admits.
`Journal` and `Copied` say what each step of commit and of
recovery has left on the disk.  The refinement maps the abstract committed disk
to what recovery would make of the header, the log and the home blocks; only
`WriteHead` changes it (`RecoveredIs`), and installing a block or clearing the
header does not (`RecoveredInstall`, `RecoveredEmpty`).  `BeginOpNotForgotten` adds that
whoever sleeps in `begin_op` has an operation or a commit to wake them: between transactions the log is empty (`EmptyBetween`), so a
process that finds no room finds somebody who will make it.

`BcacheProofs` proves, for any processes, blocks, values and number of buffers,
`Spec => []BInv` (`BcacheInvariant`) and from it `BlocksCachedOnce`, `NoSleeperForgotten`,
`PanicsOnlyWithoutBuffers` and the refinement `CacheIsCoherent`.  `UsersInv` ties `B_BUSY` to
exactly one process between `bget` and `brelse`; `FlagsInv` says that a buffer that is valid
and not dirty agrees with the disk, which is why it may be recycled; `PlacesInv` what each
place in the code relies on after a sleep; `QueueInv` that the queue holds, once each, the
buffers somebody waits for; `DiskInv` that the disk works on the first of them.  The
refinement maps the contents of a block to its valid buffer or else to the disk, and its
holder to the process that has the buffer valid and busy.  Both choose from a set, so
`Mapped` first replaces the choices by what characterises them, and each action is then
shown to be a step of `BlockStore` or to change neither (`QuietRefines`).

`PipeProofs` proves, for any processes, messages, ring size and modulus that
`PipeAssumption` allows, `Spec => []PipeInv` (`PipeInvariant`) and from it `FreedNeverUsed`,
`WriterNeverForgotten` and `ReaderForgottenOnlyByKilled`.  `EndsInv` says that an end is
open exactly while some process holds it or is on its way to close it, and that whoever
is inside a read or write holds the end for it; so when both ends are closed nobody is
inside.  `SleepInv` says that what a process saw before it sleeps still holds: while it is
on its way to sleep it has the lock; once asleep, a writer is woken by every step that
makes room or closes the read end, a reader by every step that closes the write end.  That a step of `pipewrite` cannot make a full ring unfull without a
wakeup needs what the copy loop does (`RoomStops`): it stops at a full ring and copies
nothing if the ring is full already, in arithmetic that wraps.

`SyscallProofs` proves `SleepsLongEnough` for every modulus, start and sequence of ticks
shorter than the modulus.  The invariant relates the two readings of the clock to the
ticks in between: their difference is that number, or that number less the modulus, so
the unsigned difference of `sysproc.c` is exact.

It also proves `ArgumentsLieInside` for every process size, address, int, offset and file
size below `MaxFile`: for a size that is not negative the two comparisons of `argptr` suffice,
because an address inside the process plus at most the largest int does not wrap; for a
negative one the sum wraps back to a smaller address, and it is the test of the sum in
`readi` that stops the call, if the offset is large enough for that sum to wrap as well.

Only model-checked, and why:

* liveness (`RunnableRuns`, `WaiterGetsIn`, `EndOfFileReaches`, `RequestFinishes`), which is
  outside the reach of the prover;
* that pipes implement `ByteQueue` and the console `LineQueue`: their mappings rebuild a
  sequence from a ring of bytes, which would need induction over its length;
* the lock order and interrupt flags of the console (`CliBalanced`, `ReaderWoken`,
  `CircularWaitAccounted`) and the whole of `FileSys`, for which no inductive invariant has
  been worked out yet;
* the parts of `MCSequential` other than the clock and the arguments, most of which are
  built on recursive definitions.

## 6. Not modelled, and why

* Device registers and boot code: `kbd.c`, `uart.c`, `lapic.c`, `ioapic.c`, `picirq.c`, `mp.c`,
  `timer.c`, `main.c`, `bootmain.c`, the assembly files.  They set hardware up or move bytes;
  the models use only that interrupts keep coming.
* Formatting and copying: `printf`'s loop, the string functions, `fstat`, the process
  listing's text, dates, user and group ids.  They change no state others depend on.
* File modes and owners: whether a call is permitted is a choice in `FileSys` and `Memory`.
* User commands and test programs: sequential programs over the modelled calls.
* Errors of the disk, a second disk, and `memide.c`, which is not built.
* Memory ordering of the processors; spin locks are atomic exchanges.
* The composition of the layers in one model.  `FileSys` and `FileData` assume that a call's
  block writes are atomic, which is what `Log` is shown to promise (`TxDisk`), and `Log`
  assumes that a buffer has one holder and keeps its contents, which is what `Bcache` is
  shown to promise (`BlockStore`); that the layers fit together this way is an argument on
  paper, since the product is out of reach of model checking.
* Pid reuse after `nextpid` overflows.
