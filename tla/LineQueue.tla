----------------------------- MODULE LineQueue -----------------------------
(***************************************************************************)
(* What the console promises its readers: a queue of finished input and a  *)
(* line that is still being edited, together at most Capacity characters.  *)
(***************************************************************************)
EXTENDS Naturals, Sequences

CONSTANTS Chars, NewLine, EndOfFile, Capacity

VARIABLES
  ready,             \* typed and out of reach of the editing keys
  edit,              \* typed, may still be erased
  out                \* the character the last read step delivered

qvars == <<ready, edit, out>>

QInit == ready = <<>> /\ edit = <<>> /\ out = <<>>

(* A character ends the line if it is a newline, ^D or the last that fits. *)
Type(c) ==
  LET line == Append(edit, c)
      ends == c \in {NewLine, EndOfFile} \/ Len(ready) + Len(line) = Capacity
  IN /\ Len(ready) + Len(edit) < Capacity
     /\ ready' = IF ends THEN ready \o line ELSE ready
     /\ edit' = IF ends THEN <<>> ELSE line
     /\ out' = out

Erase == edit # <<>> /\ edit' = SubSeq(edit, 1, Len(edit) - 1) /\ UNCHANGED <<ready, out>>
EraseLine == edit' = <<>> /\ UNCHANGED <<ready, out>>

(* Finished input is handed out in order, ^D is taken but never delivered. *)
Take ==
  /\ ready # <<>>
  /\ ready' = Tail(ready)
  /\ out' = IF Head(ready) = EndOfFile THEN <<>> ELSE <<Head(ready)>>
  /\ UNCHANGED edit
Return == out' = <<>> /\ UNCHANGED <<ready, edit>>

QNext == (\E c \in Chars : Type(c)) \/ Erase \/ EraseLine \/ Take \/ Return
QSpec == QInit /\ [][QNext]_qvars
=============================================================================
