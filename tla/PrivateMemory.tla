--------------------------- MODULE PrivateMemory ---------------------------
(***************************************************************************)
(* What fork(), exec(), sbrk(), exit() and a store promise to user         *)
(* programs: every live process has a memory of its own.  fork() gives the *)
(* child a full private copy, a store changes one page of one process, and *)
(* nothing a process does is ever seen in another one.  There are no       *)
(* physical pages, no reference counts and no page faults here; those are  *)
(* in CowMemory, which is shown to implement this module.                  *)
(***************************************************************************)
EXTENDS Naturals, Sequences

CONSTANTS
  Proc,       \* process slots
  initproc,   \* the first process
  NPages,     \* number of user virtual pages
  Value,      \* page contents a program can tell apart
  Zero,       \* the contents of a zeroed page
  Image       \* the executable: the pages exec() builds, in address order

VARIABLES
  live,       \* processes that exist for a program (not being built, not exited)
  memory      \* memory[p][v]: page v as process p sees it

avars == <<live, memory>>

VPage == 0 .. NPages - 1

\* A page the process may not touch: outside its size.
NoCell == [ok |-> FALSE, val |-> Zero, W |-> FALSE, U |-> FALSE]
Cell(x, w, u) == [ok |-> TRUE, val |-> x, W |-> w, U |-> u]

\* The memory of a process that does not exist.
Nothing == [v \in VPage |-> NoCell]

\* A program image in place, as exec() leaves it.
ImageMemory ==
  [v \in VPage |-> IF v < Len(Image) THEN Cell(Image[v+1].val, Image[v+1].W, Image[v+1].U)
                                     ELSE NoCell]

AInit == /\ live = {initproc}
         /\ memory = [p \in Proc |-> Nothing]

\* Only the memory of p changes, to m, and the same processes exist.
Becomes(p, m) ==
  /\ UNCHANGED live
  /\ \A q \in Proc : memory'[q] = IF q = p THEN m ELSE memory[q]

AStore(p, v, x) ==
  /\ memory[p][v].W /\ memory[p][v].U
  /\ Becomes(p, [memory[p] EXCEPT ![v].val = x])

AFork(p, c) ==
  /\ c \notin live /\ live' = live \cup {c}
  /\ memory' = [memory EXCEPT ![c] = memory[p]]

AResize(p, n) ==
  Becomes(p, [v \in VPage |-> IF v >= n THEN NoCell
                             ELSE IF memory[p][v].ok THEN memory[p][v] ELSE Cell(Zero, TRUE, TRUE)])

AExec(p) == Becomes(p, ImageMemory)

AExit(p) ==
  /\ live' = live \ {p}
  /\ memory' = [memory EXCEPT ![p] = Nothing]

\* The first disjunct: nothing that a program could notice.
ANext ==
  \/ UNCHANGED avars
  \/ \E p \in live :
       \/ \E v \in VPage : AStore(p, v, memory'[p][v].val)
       \/ \E c \in Proc : AFork(p, c)
       \/ \E n \in 0 .. NPages : AResize(p, n)
       \/ AExec(p)
       \/ AExit(p)

ASpec == AInit /\ [][ANext]_avars
=============================================================================
