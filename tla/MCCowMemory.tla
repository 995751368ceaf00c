---------------------------- MODULE MCCowMemory ----------------------------
(* CowMemory on a small instance. *)
EXTENDS CowMemory, TLC

\* One page of text; what can be written comes from sbrk().
Text == << [val |-> 1, W |-> FALSE, U |-> TRUE] >>

\* The first process replaces its image, its child receives data; both do all the rest.
Calls == [p \in Proc |-> {"fork", "exit", "sbrk"} \cup (IF p = initproc THEN {"exec"} ELSE {"read"})]

Sym == Permutations(Frame)
=============================================================================
