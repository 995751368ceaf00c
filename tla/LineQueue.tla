----------------------------- MODULE LineQueue ------------------------------
(***************************************************************************)
(* What the console promises to readers: a line that is being typed can be *)
(* edited until it ends; then its characters are delivered in order, one   *)
(* line at most to a read(), and an end-of-file mark on its own.           *)
(***************************************************************************)
EXTENDS Naturals, Sequences

CONSTANTS Plain, Capacity      \* ordinary characters; room for unread characters

VARIABLES
  ready,    \* characters of ended lines, not yet read
  line      \* the line being typed

LInit == ready = <<>> /\ line = <<>>

Room == Len(ready) + Len(line) < Capacity

LType ==
  /\ Room
  /\ \E c \in Plain :
       IF Len(ready) + Len(line) + 1 = Capacity
       THEN ready' = ready \o Append(line, c) /\ line' = <<>>
       ELSE ready' = ready /\ line' = Append(line, c)

LEnd == Room /\ \E c \in {"nl", "^D"} : ready' = ready \o Append(line, c) /\ line' = <<>>

LErase == line # <<>> /\ line' \in {SubSeq(line, 1, Len(line) - 1), <<>>} /\ ready' = ready

LRead ==
  \E k \in 1 .. Len(ready) :
    /\ \A i \in 1 .. k - 1 : ready[i] \in Plain
    /\ ready[k] = "^D" => k = 1
    /\ ready' = SubSeq(ready, k + 1, Len(ready))
    /\ line' = line

LSpec == LInit /\ [][LType \/ LEnd \/ LErase \/ LRead]_<<ready, line>>
=============================================================================
