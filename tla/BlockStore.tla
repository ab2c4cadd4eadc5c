----------------------------- MODULE BlockStore -----------------------------
(***************************************************************************)
(* What the buffer cache promises: blocks that one process at a time holds *)
(* and changes, and whose last contents the next one sees.                 *)
(***************************************************************************)
CONSTANTS Procs, Blocks, Vals, Nobody

VARIABLES
  content,           \* contents of each block
  holder             \* the process between bread and brelse of the block

bvars == <<content, holder>>

BInit == content \in [Blocks -> Vals] /\ holder = [b \in Blocks |-> Nobody]

Hold(p, b) == /\ holder[b] = Nobody
              /\ holder' = [holder EXCEPT ![b] = p]
              /\ UNCHANGED content

Change(b, v) == /\ holder[b] # Nobody
                /\ content' = [content EXCEPT ![b] = v]
                /\ UNCHANGED holder

Drop(b) == /\ holder[b] # Nobody
           /\ holder' = [holder EXCEPT ![b] = Nobody]
           /\ UNCHANGED content

BNext == \E b \in Blocks : Drop(b) \/ (\E p \in Procs : Hold(p, b)) \/ \E v \in Vals : Change(b, v)

BSpec == BInit /\ [][BNext]_bvars
=============================================================================
