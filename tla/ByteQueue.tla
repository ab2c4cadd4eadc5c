----------------------------- MODULE ByteQueue -----------------------------
(***************************************************************************)
(* What a pipe promises: a bounded queue of bytes.  A write is queued in   *)
(* order, perhaps in several pieces and perhaps not to its end; a read     *)
(* takes bytes from the front, and takes none only when the queue is empty *)
(* and nobody can write any more.                                          *)
(***************************************************************************)
EXTENDS Naturals, Sequences

CONSTANTS Procs, Capacity

VARIABLES
  queue,             \* bytes written and not yet read
  open,              \* the write end is open
  todo,              \* what each writer still has to write
  got                \* what the last read returned

qvars == <<queue, open, todo, got>>

QInit == queue = <<>> /\ open = TRUE /\ todo = [p \in Procs |-> <<>>] /\ got = <<>>

QNew == /\ queue' = <<>> /\ open' = TRUE
        /\ UNCHANGED <<todo, got>>

QOffer(p) == /\ todo[p] = <<>> /\ todo' = [todo EXCEPT ![p] = todo'[p]]
             /\ UNCHANGED <<queue, open, got>>

QPut(p) == \E k \in 0..Len(todo[p]) :
  /\ open
  /\ Len(queue) + k <= Capacity
  /\ queue' = queue \o SubSeq(todo[p], 1, k)
  /\ \/ todo' = [todo EXCEPT ![p] = SubSeq(@, k + 1, Len(@))]
     \/ todo' = [todo EXCEPT ![p] = <<>>]
  /\ UNCHANGED <<open, got>>

QGet == \E k \in 0..Len(queue) :
  /\ k = 0 => queue = <<>> /\ ~open
  /\ got' = SubSeq(queue, 1, k)
  /\ queue' = SubSeq(queue, k + 1, Len(queue))
  /\ UNCHANGED <<open, todo>>

QShut == open' = FALSE /\ UNCHANGED <<queue, todo, got>>

QNext == QNew \/ QShut \/ QGet \/ \E p \in Procs : QOffer(p) \/ QPut(p)

QSpec == QInit /\ [][QNext]_qvars
=============================================================================
