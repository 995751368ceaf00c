------------------------------ MODULE MCInode -------------------------------
(* Instances of Inode for TLC. *)
EXTENDS Inode, TLC

Symmetry == Permutations(Proc) \cup Permutations(Name)

=============================================================================
