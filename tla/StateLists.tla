----------------------------- MODULE StateLists -----------------------------
(***************************************************************************)
(* The singly linked state lists of proc.c (struct StateLists), seen as    *)
(* sequences of process slots: the head of the list is the first element.  *)
(* The operators are the list helpers of proc.c.                           *)
(***************************************************************************)
EXTENDS Integers, Sequences, FiniteSets, Functions

(* proc.c:addtofrontoflist                                                 *)
addtofrontoflist(s, p) == <<p>> \o s

(* proc.c:removefromfront: the second parameter of the C function is       *)
(* overwritten before it is read; an empty list is left alone.             *)
removefromfront(s) == IF s = <<>> THEN s ELSE Tail(s)

(* proc.c:addtoreadyprioritylist                                           *)
addtoreadyprioritylist(s, p) == Append(s, p)

(* The place where removefromlist stops its traversal.                     *)
Place(s, p) == CHOOSE i \in 1..Len(s) : s[i] = p /\ \A j \in 1..(i-1) : s[j] # p

(* proc.c:removefromlist.  The C function returns -1 and leaves the list   *)
(* alone when p is not on it.                                              *)
removefromlist(s, p) ==
  IF p \notin Range(s) THEN s
  ELSE [k \in 1..(Len(s)-1) |-> IF k < Place(s, p) THEN s[k] ELSE s[k+1]]

(* The elements of s at the positions I, in the order of s.                *)
Rank(I, i) == Cardinality({j \in I : j <= i})
AtPositions(s, I) ==
  [k \in 1..Cardinality(I) |-> s[CHOOSE i \in I : Rank(I, i) = k]]

(* What is left of s when a traversal unlinks every element outside S.     *)
Keep(s, S) == AtPositions(s, {i \in 1..Len(s) : s[i] \in S})
=============================================================================
