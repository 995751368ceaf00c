-------------------------------- MODULE Pipe --------------------------------
(***************************************************************************)
(* Pipes, kernel/pipe.c: several writers and readers of one struct pipe.   *)
(* pi->lock is held from its acquisition to the next sleep() or return, so *)
(* that stretch is one step; the unsigned counters wrap at UintMod.        *)
(***************************************************************************)
EXTENDS Integers, Sequences, FiniteSets

CONSTANTS
  Writer, Reader,    \* processes with the write end, with the read end
  Byte,
  PIPESIZE,          \* 512
  UintMod,           \* 2^32, a multiple of PIPESIZE
  MaxWrite,          \* longest write() and read() that programs make
  Faults             \* whether copyin() and copyout() may fail

ASSUME PipeAssumption ==
  /\ PIPESIZE \in Nat \ {0} /\ MaxWrite \in Nat \ {0} /\ Faults \in BOOLEAN
  /\ UintMod \in Nat /\ UintMod >= 2 * PIPESIZE /\ UintMod % PIPESIZE = 0
  /\ Writer \cap Reader = {}

VARIABLES
  data, nread, nwrite, readopen, writeopen,   \* struct pipe
  pc,        \* "idle", "call" (wants pi->lock), "asleep", "closed"
  n,         \* bytes still to be written, or asked for
  killed,
  eof        \* history: a read() has returned 0

pipe == <<data, nread, nwrite, readopen, writeopen>>
vars == <<data, nread, nwrite, readopen, writeopen, pc, n, killed, eof>>

Used == (nwrite - nread) % UintMod

\* A test for a full pipe that does not hold.
Copied_overfull(k, m) == {j \in 0 .. k : Faults \/ j = k}

\* How many of n bytes are copied when there is room for m.
Copied(k, m) == {j \in 0 .. k : j <= m /\ (Faults \/ j = k \/ j = m)}

\* sleep(), after killed() said no; a kill that comes between the two wakes nobody.
KilledLate(p) == killed' \in {killed, [killed EXCEPT ![p] = TRUE]}

\* wakeup(chan) when the processes in S sleep on chan; p itself goes to l.
Wakeup(S, p, l) ==
  pc' = [q \in DOMAIN pc |-> IF q = p THEN l
                             ELSE IF q \in S /\ pc[q] = "asleep" THEN "call" ELSE pc[q]]

Call(p, k) ==
  /\ pc[p] = "idle"
  /\ pc' = [pc EXCEPT ![p] = "call"]
  /\ n' = [n EXCEPT ![p] = k]
  /\ UNCHANGED <<pipe, killed, eof>>

\* k bytes go into the ring at nwrite.
Put(s) ==
  /\ data' = [i \in 0 .. PIPESIZE - 1 |->
                IF \E j \in 1 .. Len(s) : (nwrite + j - 1) % PIPESIZE = i
                THEN s[CHOOSE j \in 1 .. Len(s) : (nwrite + j - 1) % PIPESIZE = i]
                ELSE data[i]]
  /\ nwrite' = (nwrite + Len(s)) % UintMod

\* pipewrite() that goes to sleep on a full pipe without waking the readers.
pipewrite_nowake(p) ==
  /\ pc[p] = "call" /\ readopen /\ ~killed[p]
  /\ \E k \in Copied(n[p], PIPESIZE - Used) : \E s \in [1 .. k -> Byte] :
       /\ Put(s)
       /\ IF k < n[p] /\ k = PIPESIZE - Used
          THEN pc' = [pc EXCEPT ![p] = "asleep"] /\ n' = [n EXCEPT ![p] = @ - k]
          ELSE Wakeup(Reader, p, "idle") /\ n' = [n EXCEPT ![p] = 0]
  /\ UNCHANGED <<nread, readopen, writeopen, killed, eof>>

\* pipewrite(): as many bytes as fit; it returns when all are written or when copyin()
\* fails, and sleeps on &pi->nwrite when the pipe is full.
pipewrite(p) ==
  /\ pc[p] = "call" /\ readopen /\ ~killed[p]
  /\ \E k \in Copied(n[p], PIPESIZE - Used) : \E s \in [1 .. k -> Byte] :
       /\ Put(s)
       /\ IF k < n[p] /\ k = PIPESIZE - Used
          THEN Wakeup(Reader, p, "asleep") /\ n' = [n EXCEPT ![p] = @ - k] /\ KilledLate(p)
          ELSE Wakeup(Reader, p, "idle") /\ n' = [n EXCEPT ![p] = 0] /\ UNCHANGED killed
  /\ UNCHANGED <<nread, readopen, writeopen, eof>>

\* The error exit of pipewrite(): no reader is left, or the writer was killed.
pipewrite_fail(p) ==
  /\ pc[p] = "call" /\ (~readopen \/ killed[p])
  /\ pc' = [pc EXCEPT ![p] = "idle"]
  /\ n' = [n EXCEPT ![p] = 0]
  /\ UNCHANGED <<pipe, killed, eof>>

\* A kill between two bytes: pipewrite() returns -1 and leaves the bytes it has written
\* in the pipe without waking the readers.
pipewrite_killed(p) ==
  /\ pc[p] = "call" /\ readopen /\ ~killed[p]
  /\ \E k \in 1 .. n[p] - 1 : k <= PIPESIZE - Used /\ \E s \in [1 .. k -> Byte] : Put(s)
  /\ killed' = [killed EXCEPT ![p] = TRUE]
  /\ pc' = [pc EXCEPT ![p] = "idle"]
  /\ n' = [n EXCEPT ![p] = 0]
  /\ UNCHANGED <<nread, readopen, writeopen, eof>>

\* piperead() that does not look again after sleep(): if instead of while.
piperead_if(p) ==
  /\ pc[p] = "call"
  /\ IF Used = 0 /\ writeopen /\ n[p] # 0
     THEN pc' = [pc EXCEPT ![p] = "asleep"] /\ n' = [n EXCEPT ![p] = 0] /\ UNCHANGED <<nread, eof>>
     ELSE /\ nread' = nwrite
          /\ eof' = (eof \/ Used = 0)
          /\ Wakeup(Writer, p, "idle")
          /\ n' = [n EXCEPT ![p] = 0]
  /\ UNCHANGED <<data, nwrite, readopen, writeopen, killed>>

\* piperead(): sleeps on &pi->nread while the pipe is empty and a writer is left; takes
\* what is there, up to n bytes or to a failing copyout() (which returns -1 for k = 0).
piperead(p) ==
  /\ pc[p] = "call"
  /\ \/ /\ Used = 0 /\ writeopen /\ killed[p]
        /\ pc' = [pc EXCEPT ![p] = "idle"]
        /\ n' = [n EXCEPT ![p] = 0]
        /\ UNCHANGED <<nread, eof, killed>>
     \/ /\ Used = 0 /\ writeopen /\ ~killed[p]
        /\ pc' = [pc EXCEPT ![p] = "asleep"]
        /\ KilledLate(p)
        /\ UNCHANGED <<nread, eof, n>>
     \/ /\ Used # 0 \/ ~writeopen
        /\ \E k \in Copied(n[p], Used) : nread' = (nread + k) % UintMod
        /\ eof' = (eof \/ Used = 0)
        /\ Wakeup(Writer, p, "idle")
        /\ n' = [n EXCEPT ![p] = 0]
        /\ UNCHANGED killed
  /\ UNCHANGED <<data, nwrite, readopen, writeopen>>

\* pipeclose() that wakes nobody.
pipeclose_quiet(p) ==
  /\ pc[p] = "idle"
  /\ pc' = [pc EXCEPT ![p] = "closed"]
  /\ writeopen' = (writeopen /\ \E q \in Writer \ {p} : pc[q] # "closed")
  /\ readopen' = (readopen /\ \E q \in Reader \ {p} : pc[q] # "closed")
  /\ UNCHANGED <<data, nread, nwrite, n, killed, eof>>

\* close() by the last holder of an end is pipeclose(); the others only drop a count.
pipeclose(p) ==
  LET end == IF p \in Writer THEN Writer ELSE Reader
      last == \A q \in end \ {p} : pc[q] = "closed"
  IN
  /\ pc[p] = "idle"
  /\ writeopen' = (writeopen /\ ~(last /\ p \in Writer))
  /\ readopen' = (readopen /\ ~(last /\ p \in Reader))
  /\ Wakeup(IF last THEN (Writer \cup Reader) \ end ELSE {}, p, "closed")
  /\ UNCHANGED <<data, nread, nwrite, n, killed, eof>>

\* kkill() wakes the process out of sleep().
Kill(p) ==
  /\ ~killed[p]
  /\ killed' = [killed EXCEPT ![p] = TRUE]
  /\ pc' = [pc EXCEPT ![p] = IF @ = "asleep" THEN "call" ELSE @]
  /\ UNCHANGED <<pipe, n, eof>>

\* pipealloc(); the data page comes from kalloc() and is not cleared.
Init ==
  /\ \E x \in Byte : data = [i \in 0 .. PIPESIZE - 1 |-> x]
  /\ nread = 0 /\ nwrite = 0 /\ readopen = TRUE /\ writeopen = TRUE
  /\ pc = [p \in Writer \cup Reader |-> "idle"]
  /\ n = [p \in Writer \cup Reader |-> 0]
  /\ killed = [p \in Writer \cup Reader |-> FALSE]
  /\ eof = FALSE

Write(p) == pipewrite(p) \/ pipewrite_killed(p) \/ pipewrite_fail(p)

Next ==
  \/ \E p \in Writer : Write(p)
  \/ \E p \in Reader : piperead(p)
  \/ \E p \in Writer \cup Reader : pipeclose(p) \/ Kill(p) \/ \E k \in 1 .. MaxWrite : Call(p, k)

Spec == Init /\ [][Next]_vars

\* Processes run when they can; a killed one closes its files in kexit(); readers read
\* on, or close, and do not pass read() a bad buffer for ever.
FairSpec ==
  /\ Spec
  /\ \A p \in Writer : WF_vars(Write(p)) /\ WF_vars(killed[p] /\ pipeclose(p))
  /\ \A p \in Reader : WF_vars(piperead(p)) /\ SF_vars(piperead(p) /\ nread' # nread)
                      /\ WF_vars(pipeclose(p) \/ \E k \in 1 .. MaxWrite : Call(p, k))

----------------------------------------------------------------------------
(* Properties *)

\* Types; the counters never drift further apart than PIPESIZE, also across the wrap.
TypeOK ==
  /\ nread \in 0 .. UintMod - 1 /\ nwrite \in 0 .. UintMod - 1 /\ Used <= PIPESIZE
  /\ pc \in [Writer \cup Reader -> {"idle", "call", "asleep", "closed"}]

\* No lost wakeup: a writer sleeps only while the pipe is full and somebody can read, a
\* reader only while somebody can write and the pipe is empty, or holds bytes of a
\* writer that was killed in the middle of pipewrite().
SleepersHaveReason ==
  /\ \A p \in Writer : pc[p] = "asleep" => Used = PIPESIZE /\ readopen
  /\ \A p \in Reader : pc[p] = "asleep" =>
       writeopen /\ (Used = 0 \/ \E q \in Writer : killed[q])

\* A write() returns, also one longer than the pipe, as long as readers read or go away
\* and the other writers do not write for ever: nothing makes those take turns.
WriteReturns == \A p \in Writer :
  <>[](\A q \in Writer \ {p} : pc[q] # "call") => (pc[p] = "call" ~> pc[p] \in {"idle", "closed"})

Queue == INSTANCE ByteQueue WITH
  Capacity <- PIPESIZE,
  queue <- [i \in 1 .. Used |-> data[(nread + i - 1) % PIPESIZE]],
  open <- writeopen

\* The ring buffer is a queue: bytes arrive in the order they were written, none twice
\* and none lost, and read() reports end of file only when no byte and no writer is left.
PipeIsQueue == Queue!QSpec
=============================================================================
