----------------------------- MODULE BlockStore -----------------------------
(***************************************************************************)
(* What the buffer cache promises: every block has one current content,    *)
(* and a process that has the block to itself is the only one to change it.*)
(***************************************************************************)
CONSTANTS Proc, Block, Val, None

VARIABLES
  content,   \* the current content of each block
  holder     \* the process that has the block, or None

StoreInit == content \in [Block -> Val] /\ holder = [b \in Block |-> None]

Take(p, b) == holder[b] = None /\ holder' = [holder EXCEPT ![b] = p] /\ UNCHANGED content

Change(p, b, x) == holder[b] = p /\ content' = [content EXCEPT ![b] = x] /\ UNCHANGED holder

Give(p, b) == holder[b] = p /\ holder' = [holder EXCEPT ![b] = None] /\ UNCHANGED content

StoreNext == \E p \in Proc, b \in Block :
  Take(p, b) \/ Give(p, b) \/ \E x \in Val : Change(p, b, x)

StoreSpec == StoreInit /\ [][StoreNext]_<<content, holder>>
=============================================================================
