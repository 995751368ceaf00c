------------------------------- MODULE MCLog -------------------------------
(* Log on small instances. *)
EXTENDS Log, TLC

Sym == Permutations(Proc) \cup Permutations(Block)
=============================================================================
