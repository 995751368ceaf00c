------------------------------ MODULE MCBcache ------------------------------
(* Bcache on small instances. *)
EXTENDS Bcache, TLC

Sym == Permutations(Proc) \cup Permutations(Block)
=============================================================================
