------------------------------- MODULE TxDisk -------------------------------
(***************************************************************************)
(* What log.c promises its callers: a disk on which the updates of a group *)
(* of file system operations become permanent together, and only at a      *)
(* moment when no operation is under way.  A crash takes the disk back to  *)
(* the last such moment.                                                   *)
(***************************************************************************)
EXTENDS Naturals

CONSTANTS Blocks, Vals

VARIABLES
  committed,         \* what the disk holds after a crash and recovery
  current,           \* what operations read and write
  active             \* operations under way

dvars == <<committed, current, active>>

DInit == /\ committed \in [Blocks -> Vals]
         /\ current = committed
         /\ active = 0

DBegin == active' = active + 1 /\ UNCHANGED <<committed, current>>

DWrite == /\ active > 0
          /\ \E b \in Blocks, v \in Vals : current' = [current EXCEPT ![b] = v]
          /\ UNCHANGED <<committed, active>>

DEnd == active > 0 /\ active' = active - 1 /\ UNCHANGED <<committed, current>>

DCommit == active = 0 /\ committed' = current /\ UNCHANGED <<current, active>>

DCrash == current' = committed /\ active' = 0 /\ UNCHANGED committed

DNext == DBegin \/ DWrite \/ DEnd \/ DCommit \/ DCrash

DSpec == DInit /\ [][DNext]_dvars
=============================================================================
