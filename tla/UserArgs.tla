------------------------------ MODULE UserArgs ------------------------------
(***************************************************************************)
(* Fetching system call arguments from user memory (syscall.c): the tests  *)
(* of addresses against the size of the process, in uint arithmetic.       *)
(***************************************************************************)
EXTENDS Integers

CONSTANTS
  UintMod,           \* 2^32
  ArgKernBase,       \* every process is smaller (allocuvm)
  INTSIZE,           \* sizeof(int)
  MaxSize,           \* the largest int
  MaxFile            \* the largest file, in bytes

ASSUME UserArgsAssumption ==
  /\ {UintMod, ArgKernBase, INTSIZE, MaxSize, MaxFile} \subseteq Nat
  /\ UintMod = 2 * (MaxSize + 1)
  /\ ArgKernBase <= MaxSize + 1 /\ INTSIZE <= MaxSize /\ MaxFile <= MaxSize

VARIABLES
  psz,               \* proc->sz
  addr,              \* an address a program passes
  size,              \* and the size of what it points to, an int
  foff, fsize        \* what a read finds: the offset, the size of the file

argVars == <<psz, addr, size, foff, fsize>>

ToUint(n) == IF n < 0 THEN n + UintMod ELSE n
UintAdd(x, y) == IF x + y >= UintMod THEN x + y - UintMod ELSE x + y

(* Mutant: the first test is left to the second.                           *)
fetchintEnd(a) == ~(UintAdd(a, INTSIZE) > psz)
fetchint(a) == ~(a >= psz \/ UintAdd(a, INTSIZE) > psz)
(* The pointer arguments: argint has fetched a.  The callers pass the size *)
(* of a structure or, sys_read and sys_write, what the program says.       *)
argptr(a, n) == ~(a >= psz \/ UintAdd(a, ToUint(n)) > psz)

(* The bytes readi copies to the address for sys_read, whose count it gets *)
(* as a uint.                                                              *)
readiCount(n) ==
  LET end == UintAdd(foff, ToUint(n))
  IN IF foff > fsize \/ end < foff THEN 0
     ELSE IF end > fsize THEN fsize - foff
     ELSE ToUint(n)

ArgInit ==
  /\ psz \in 0..ArgKernBase - 1 /\ addr \in 0..UintMod - 1
  /\ size \in -(MaxSize + 1)..MaxSize
  /\ foff \in 0..MaxFile /\ fsize \in 0..MaxFile

(* Exactly the ints, and of the blocks of non-negative size exactly those, *)
(* that lie wholly in the process are accepted, up to its last byte and    *)
(* although the sums wrap (fetchint, argptr).  A negative size passes as   *)
(* well, wherever it does not reach below address 0.  What sys_read then   *)
(* copies lies in the process, but for a count of -n and a file read from  *)
(* an offset below n: the count as a uint is beyond the end of any file,   *)
(* and all that is left of the file is copied.                             *)
Inside(a, n) == a < psz /\ a + n <= psz
ArgsInside ==
  /\ fetchint(addr) <=> Inside(addr, INTSIZE)
  /\ size >= 0 => (argptr(addr, size) <=> Inside(addr, size))
  /\ size < 0 => (argptr(addr, size) <=> addr < psz /\ addr + size >= 0)
  /\ argptr(addr, size) /\ foff + size >= 0 => Inside(addr, readiCount(size))
=============================================================================
