-------------------------------- MODULE Paths -------------------------------
(***************************************************************************)
(* Taking a path apart (skipelem, fs.c), as namex does it: one name buffer *)
(* of DIRSIZ characters for all elements, which is terminated only when    *)
(* the element is shorter.  Positions count from 1; the NUL is "".         *)
(***************************************************************************)
EXTENDS Integers, Sequences, FiniteSetsExt, SequencesExt

CONSTANTS DIRSIZ, PathLetters, MaxPath

ASSUME PathsAssumption == DIRSIZ \in Nat \ {0} /\ MaxPath \in Nat

VARIABLE path

SLASH == "/"
PathFrom(s, Stops(_)) == Min({i \in s..Len(path) + 1 : i > Len(path) \/ Stops(path[i])})
Slashes(s) == PathFrom(s, LAMBDA c : c # SLASH)

(* Mutant: a short element is not terminated.                              *)
skipelemOpen(name, s) ==
  LET from == Slashes(s)
      end == PathFrom(from, LAMBDA c : c = SLASH)
      len == end - from
  IN [found |-> from <= Len(path), s |-> Slashes(end),
      name |-> [i \in 1..DIRSIZ |-> IF i <= len THEN path[from + i - 1] ELSE name[i]]]
(* The element at s goes into name; what follows it, without slashes.      *)
skipelem(name, s) ==
  LET from == Slashes(s)
      end == PathFrom(from, LAMBDA c : c = SLASH)
      len == end - from
  IN [found |-> from <= Len(path), s |-> Slashes(end),
      name |-> [i \in 1..DIRSIZ |-> CASE i <= len -> path[from + i - 1]
                                      [] i = len + 1 -> ""
                                      [] OTHER -> name[i]]]

(* What the directory layer reads from a name buffer: DIRSIZ characters at *)
(* most, up to a NUL (namecmp is strncmp, dirlink strncpy).                *)
NameIn(name) == SubSeq(name, 1, Min({i \in 1..DIRSIZ + 1 : i > DIRSIZ \/ name[i] = ""}) - 1)

(* The elements namex meets, and whether it takes one for the last.        *)
RECURSIVE Walk(_, _)
Walk(name, s) ==
  LET e == skipelem(name, s)
  IN IF ~e.found THEN <<>> ELSE <<[name |-> NameIn(e.name), last |-> e.s > Len(path)]>> \o Walk(e.name, e.s)

PathInit == path = <<>>
PathNext == Len(path) < MaxPath /\ \E c \in PathLetters \cup {SLASH} : path' = Append(path, c)

(* The names are the maximal runs between slashes, in their order, cut to  *)
(* DIRSIZ characters, and exactly the last one is taken for the last,      *)
(* however many slashes come before, between and after them (skipelem,     *)
(* namex with nameiparent).                                                *)
ElementsOfPath ==
  LET starts == SetToSortSeq({i \in DOMAIN path : path[i] # SLASH /\ (i = 1 \/ path[i - 1] = SLASH)}, <)
      Run(i) == {j \in i..Len(path) : \A k \in i..j : path[k] # SLASH}
      Name(i) == SubSeq(path, i, Min({Max(Run(i)), i + DIRSIZ - 1}))
  IN Walk([i \in 1..DIRSIZ |-> ""], 1) =
       [n \in DOMAIN starts |-> [name |-> Name(starts[n]), last |-> n = Len(starts)]]
=============================================================================
