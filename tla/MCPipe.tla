------------------------------- MODULE MCPipe -------------------------------
(* Pipe on small instances. *)
EXTENDS Pipe, TLC

Sym == Permutations(Writer) \cup Permutations(Reader)
=============================================================================
