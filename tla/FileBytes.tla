----------------------------- MODULE FileBytes ------------------------------
(***************************************************************************)
(* What files promise to programs: a file is a sequence of bytes; write()  *)
(* replaces or appends the bytes it was asked to, in order, and nothing    *)
(* else; a call that succeeds has written all of them; and a crash leaves  *)
(* all files as they were at one earlier moment.  There are no blocks      *)
(* here: FileBlocks implements this module.                                *)
(*                                                                         *)
(* Bytes that a failing write was about to replace are torn: they may have *)
(* either value, now and after a crash, until they are written again.      *)
(***************************************************************************)
EXTENDS Integers, Sequences

CONSTANTS Proc, Inum, Idle, Failed

\* req[p]: the call p is in, with the bytes from .. to - 1 still to be written.
VARIABLES content, saved, torn, req

avars == <<torn, req, content, saved>>

\* f and g are the same but for the torn bytes of file i.
Agree(i, f, g, T) ==
  Len(f) = Len(g) /\ \A k \in 1 .. Len(f) : <<i, k - 1>> \in T \/ f[k] = g[k]

\* m bytes x replace those from off on, or are appended.
Overwritten(f, off, m, x) ==
  [k \in 1 .. (IF off + m > Len(f) THEN off + m ELSE Len(f)) |->
     IF k \in off + 1 .. off + m THEN x ELSE f[k]]

InCall(p) == req[p] \notin {Idle, Failed}

AInit == saved = content /\ torn = {} /\ req = [p \in Proc |-> Idle]

ACall(p) == ~InCall(p) /\ req' = [req EXCEPT ![p] = req'[p]] /\ UNCHANGED <<content, saved, torn>>

\* The next m bytes of the call get their value, and are torn no more.
AWrite(p, m) ==
  LET r == req[p] IN
  /\ r.op = "write"
  /\ req' = [req EXCEPT ![p].from = @ + m]
  /\ r.from <= Len(content[r.file])
  /\ content' = [content EXCEPT ![r.file] = Overwritten(@, r.from, m, r.byte)]
  /\ torn' = torn \ ({r.file} \X (r.from .. r.from + m - 1))
  /\ UNCHANGED saved

ATruncate(p) ==
  LET r == req[p] IN
  /\ r.op = "trunc"
  /\ req' = [req EXCEPT ![p].from = r.to]
  /\ content' = [content EXCEPT ![r.file] = <<>>]
  /\ torn' = {t \in torn : t[1] # r.file}
  /\ UNCHANGED saved

\* A write that fails may tear the next bytes of its call.
ATear(p) ==
  LET r == req[p] IN
  /\ r.op = "write" /\ UNCHANGED req
  /\ \E m \in 0 .. r.to - r.from : torn' = torn \cup ({r.file} \X (r.from .. r.from + m - 1))
  /\ \A i \in Inum : Agree(i, content'[i], content[i], torn')
  /\ UNCHANGED saved

\* Torn bytes may change at any time.
AWaver ==
  /\ UNCHANGED <<torn, req, saved>>
  /\ \A i \in Inum : Agree(i, content'[i], content[i], torn)

ASuccess(p) == req[p].from = req[p].to /\ req' = [req EXCEPT ![p] = Idle]
AFailure(p) == req' = [req EXCEPT ![p] = Failed]

\* The files become durable, all of them at once.
ASave == \A i \in Inum : Agree(i, saved'[i], content[i], torn)

AReturn(p) ==
  /\ \/ UNCHANGED req
     \/ InCall(p) /\ (ASuccess(p) \/ AFailure(p))
  /\ UNCHANGED <<torn, content>>
  /\ ASave \/ UNCHANGED saved

ACrash == torn' = {} /\ req' = [p \in Proc |-> Idle] /\ content' = saved /\ UNCHANGED saved

ANext ==
  \/ UNCHANGED avars
  \/ AWaver \/ ACrash
  \/ \E p \in Proc :
       \/ ACall(p) \/ AReturn(p)
       \/ /\ InCall(p)
          /\ \/ ATruncate(p) \/ ATear(p)
             \/ \E m \in 1 .. req[p].to - req[p].from : AWrite(p, m)

ASpec == AInit /\ [][ANext]_avars
=============================================================================
