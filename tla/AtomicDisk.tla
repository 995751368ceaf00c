----------------------------- MODULE AtomicDisk -----------------------------
(***************************************************************************)
(* What the log promises: operations update blocks in memory; what is      *)
(* durable is always the memory of a moment at which no operation was in   *)
(* progress, so a crash undoes the latest operations entirely or not at    *)
(* all.                                                                    *)
(***************************************************************************)
EXTENDS Naturals

CONSTANTS Block, Val

VARIABLES
  view,      \* the contents of each block as operations see it
  durable,   \* the contents of each block after a crash and recovery
  active     \* number of operations in progress

AInit ==
  /\ view \in [Block -> Val] /\ durable = view
  /\ active = 0

ABegin == active' = active + 1 /\ UNCHANGED <<view, durable>>

AWrite == 
  /\ active > 0
  /\ \E b \in Block, x \in Val : view' = [view EXCEPT ![b] = x]
  /\ UNCHANGED <<durable, active>>

AEnd == active > 0 /\ active' = active - 1 /\ UNCHANGED <<view, durable>>

\* Everything ended so far becomes durable at once.
ACommit == active = 0 /\ durable' = view /\ UNCHANGED <<view, active>>

ACrash == view' = durable /\ active' = 0 /\ UNCHANGED durable

ANext == ABegin \/ AWrite \/ AEnd \/ ACommit \/ ACrash

ASpec == AInit /\ [][ANext]_<<view, durable, active>>
=============================================================================
