------------------------------ MODULE ByteQueue ------------------------------
(***************************************************************************)
(* What a pipe promises: a bounded first-in first-out queue of bytes, and  *)
(* end of file for readers only when it is empty and no writer is left.    *)
(***************************************************************************)
EXTENDS Naturals, Sequences

CONSTANTS Byte, Capacity

VARIABLES
  queue,    \* bytes written and not yet read
  open,     \* the write end is open
  eof       \* some reader has been told that there will be no more bytes

QInit == queue = <<>> /\ open = TRUE /\ eof = FALSE

QPut ==
  /\ ~eof /\ open
  /\ \E n \in 1 .. Capacity - Len(queue) : \E s \in [1 .. n -> Byte] : queue' = queue \o s
  /\ UNCHANGED <<open, eof>>

QTake ==
  /\ \E n \in 1 .. Len(queue) : queue' = SubSeq(queue, n + 1, Len(queue))
  /\ UNCHANGED <<open, eof>>

QClose == open' = FALSE /\ UNCHANGED <<queue, eof>>

QEof == ~open /\ queue = <<>> /\ eof' = TRUE /\ UNCHANGED <<queue, open>>

QSpec == QInit /\ [][QPut \/ QTake \/ QClose \/ QEof]_<<queue, open, eof>>
=============================================================================
