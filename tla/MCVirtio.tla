------------------------------ MODULE MCVirtio ------------------------------
(* Virtio on small instances. *)
EXTENDS Virtio, TLC

Sym == Permutations(Proc)
=============================================================================
