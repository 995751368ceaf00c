---------------------------- MODULE MCProcLife ----------------------------
(* ProcLife on small instances. *)
EXTENDS ProcLife, TLC

CONSTANTS p1, p2, p3, p4

Sym == Permutations(Proc \ {initproc})
=============================================================================
