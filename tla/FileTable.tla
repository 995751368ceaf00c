----------------------------- MODULE FileTable ------------------------------
(***************************************************************************)
(* Open files, kernel/file.c, and the descriptors that name them: what     *)
(* open, pipe, dup, close, fork and exit do to the file table, and to the  *)
(* pipe ends and inode references that the files stand for.                *)
(*                                                                         *)
(* A step is a critical section of ftable.lock; descriptors are private to *)
(* their process.  fileclose() acts on a copy of the file after it has     *)
(* given the entry back, so the entry may be in use again by then.         *)
(***************************************************************************)
EXTENDS Integers, FiniteSets, Sequences, SequencesExt

CONSTANTS
  Proc,
  initproc,    \* the process the system starts with
  Pipe,        \* pages kalloc() has for pipes
  NFILE,       \* entries of ftable (100)
  NOFILE       \* descriptors of a process (16)

ASSUME FileTableAssumption ==
  initproc \in Proc /\ NFILE \in Nat /\ NOFILE \in Nat /\ IsFiniteSet(Proc \cup Pipe)

File == 1 .. NFILE
Fd == 0 .. NOFILE - 1
End == {"read", "write"}

\* struct file, with f->pipe or nothing, and f->writable as the end of the pipe it is
FILE == [ref : Nat, type : {"none", "pipe", "inode"}, pipe : Pipe \cup {0}, end : End]
PipeFile(k, e) == [ref |-> 1, type |-> "pipe", pipe |-> k, end |-> e]
NoFile == [ref |-> 0, type |-> "none", pipe |-> 0, end |-> "read"]

VARIABLES
  ftable,      \* ftable.file
  ofile,       \* p->ofile, 0 where there is none
  open,        \* open[k]: ends of pipe k that are open; k is a free page when none is
  iref,        \* references to inodes that files hold
  pc,          \* where a process is in the kernel
  todo,        \* files it has allocated or taken over and will close
  ff,          \* the copy of the file it is closing
  exiting      \* it is in kexit()

vars == <<ftable, ofile, open, iref, pc, todo, ff, exiting>>

FreeFds(p) == {d \in Fd : ofile[p][d] = 0}
FreeFiles == {f \in File : ftable[f].ref = 0}
Lowest(S) == CHOOSE i \in S : \A j \in S : i <= j
Goto(p, l) == pc' = [pc EXCEPT ![p] = l]

\* Close the files of s one after the other, then go back to where the call came from.
CloseAll(p, s) ==
  /\ todo' = [todo EXCEPT ![p] = s]
  /\ Goto(p, IF s # <<>> THEN "close" ELSE IF exiting[p] THEN "exit" ELSE "user")

\* filealloc() takes the first free entry, and sets nothing but its ref.
NewFile == Lowest(FreeFiles)
filealloc == FreeFiles # {} /\ ftable' = [ftable EXCEPT ![NewFile].ref = 1]

\* filedup(): n more references to f.
filedup(f, n) == [f EXCEPT !.ref = @ + n]

----------------------------------------------------------------------------
\* sys_open(), with an inode in hand: a file and a descriptor, or the file is closed again.
sys_open(p) ==
  /\ pc[p] = "user" /\ FreeFiles # {}
  /\ \/ /\ FreeFds(p) # {}
        /\ ofile' = [ofile EXCEPT ![p][Lowest(FreeFds(p))] = NewFile]
        /\ ftable' = [ftable EXCEPT ![NewFile] = [@ EXCEPT !.ref = 1, !.type = "inode"]]
        /\ iref' = iref + 1
        /\ UNCHANGED <<pc, todo>>
     \/ /\ FreeFds(p) = {}
        /\ filealloc
        /\ CloseAll(p, <<NewFile>>)
        /\ UNCHANGED <<ofile, iref>>
  /\ UNCHANGED <<open, ff, exiting>>

\* sys_pipe(): pipealloc() gets the first file,
pipealloc(p) ==
  /\ pc[p] = "user" /\ filealloc
  /\ todo' = [todo EXCEPT ![p] = <<NewFile>>]
  /\ Goto(p, "pipealloc")
  /\ UNCHANGED <<ofile, open, iref, ff, exiting>>

\* sys_pipe() gives up: both files are closed.
PipeFailed_one(p, rf, wf) == CloseAll(p, <<rf>>)
PipeFailed(p, rf, wf) == CloseAll(p, <<rf, wf>>)

\* then the second and a page, and sys_pipe() two descriptors and a place to put them; when
\* one of these fails the files are closed, as pipe ends if they already are.
sys_pipe(p) ==
  /\ pc[p] = "pipealloc"
  /\ LET rf == Head(todo[p])
         wf == NewFile
         pages == {k \in Pipe : open[k] = {}}
     IN
     \/ /\ FreeFiles = {}
        /\ CloseAll(p, <<rf>>)
        /\ UNCHANGED <<ftable, ofile, open>>
     \/ /\ pages = {} /\ filealloc
        /\ PipeFailed(p, rf, wf)
        /\ UNCHANGED <<ofile, open>>
     \/ /\ FreeFiles # {}
        /\ \E k \in pages :
             /\ open' = [open EXCEPT ![k] = End]
             /\ ftable' = [ftable EXCEPT ![rf] = PipeFile(k, "read"), ![wf] = PipeFile(k, "write")]
        /\ \/ PipeFailed(p, rf, wf) /\ UNCHANGED ofile
           \/ LET d == Lowest(FreeFds(p)) e == Lowest(FreeFds(p) \ {d}) IN
              /\ Cardinality(FreeFds(p)) >= 2
              /\ ofile' = [ofile EXCEPT ![p][d] = rf, ![p][e] = wf]
              /\ CloseAll(p, <<>>)
  /\ UNCHANGED <<iref, ff, exiting>>

sys_dup(p) ==
  /\ pc[p] = "user" /\ FreeFds(p) # {}
  /\ \E d \in Fd \ FreeFds(p) :
       /\ ofile' = [ofile EXCEPT ![p][Lowest(FreeFds(p))] = ofile[p][d]]
       /\ ftable' = [ftable EXCEPT ![ofile[p][d]] = filedup(@, 1)]
  /\ UNCHANGED <<open, iref, pc, todo, ff, exiting>>

sys_close(p) ==
  /\ pc[p] = "user"
  /\ \E d \in Fd \ FreeFds(p) :
       /\ ofile' = [ofile EXCEPT ![p][d] = 0]
       /\ CloseAll(p, <<ofile[p][d]>>)
  /\ UNCHANGED <<ftable, open, iref, ff, exiting>>

\* kfork(): filedup() of every descriptor.
kfork_nodup(p) ==
  /\ pc[p] = "user"
  /\ \E q \in Proc : pc[q] = "unused" /\ Goto(q, "user") /\ ofile' = [ofile EXCEPT ![q] = ofile[p]]
  /\ UNCHANGED <<ftable, open, iref, todo, ff, exiting>>

kfork(p) ==
  /\ pc[p] = "user"
  /\ \E q \in Proc :
       /\ pc[q] = "unused"
       /\ Goto(q, "user")
       /\ ofile' = [ofile EXCEPT ![q] = ofile[p]]
       /\ ftable' = [f \in File |-> filedup(ftable[f], Cardinality({d \in Fd : ofile[p][d] = f}))]
  /\ UNCHANGED <<open, iref, todo, ff, exiting>>

\* kexit(): fileclose() of every descriptor, in order.
kexit(p) ==
  /\ \/ pc[p] = "user" /\ p # initproc /\ exiting' = [exiting EXCEPT ![p] = TRUE]
     \/ pc[p] = "exit" /\ exiting' = exiting
  /\ LET used == Fd \ FreeFds(p) IN
     \/ /\ used # {}
        /\ ofile' = [ofile EXCEPT ![p][Lowest(used)] = 0]
        /\ todo' = [todo EXCEPT ![p] = <<ofile[p][Lowest(used)]>>]
        /\ Goto(p, "close")
     \/ used = {} /\ Goto(p, "zombie") /\ UNCHANGED <<ofile, todo>>
  /\ UNCHANGED <<ftable, open, iref, ff>>

\* kwait() of the parent frees the process.
kwait(p) ==
  /\ pc[p] = "zombie"
  /\ Goto(p, "unused")
  /\ exiting' = [exiting EXCEPT ![p] = FALSE]
  /\ UNCHANGED <<ftable, ofile, open, iref, todo, ff>>

----------------------------------------------------------------------------
\* fileclose() under ftable.lock: one reference less; the last one resets the entry and leaves
\* a copy of it to act on.  (panic with none left: see RefsExact.)
fileclose_keeptype(p) ==
  /\ pc[p] = "close"
  /\ LET f == Head(todo[p]) IN
     /\ ftable' = [ftable EXCEPT ![f].ref = @ - 1]
     /\ IF ftable[f].ref > 1
          THEN CloseAll(p, Tail(todo[p])) /\ UNCHANGED ff
          ELSE /\ ff' = [ff EXCEPT ![p] = ftable[f]]
               /\ todo' = [todo EXCEPT ![p] = Tail(@)] /\ Goto(p, "drop")
  /\ UNCHANGED <<ofile, open, iref, exiting>>

fileclose(p) ==
  /\ pc[p] = "close"
  /\ LET f == Head(todo[p]) IN
     \/ /\ ftable[f].ref > 1
        /\ ftable' = [ftable EXCEPT ![f].ref = @ - 1]
        /\ CloseAll(p, Tail(todo[p]))
        /\ UNCHANGED ff
     \/ /\ ftable[f].ref = 1
        /\ ff' = [ff EXCEPT ![p] = ftable[f]]
        /\ ftable' = [ftable EXCEPT ![f].ref = 0, ![f].type = "none"]
        /\ todo' = [todo EXCEPT ![p] = Tail(@)]
        /\ Goto(p, "drop")
  /\ UNCHANGED <<ofile, open, iref, exiting>>

\* pipeclose(ff.pipe, ff.writable), or iput(ff.ip) in an operation of the log, or neither.
Release_anytype(p) ==
  /\ pc[p] = "drop"
  /\ open' = [k \in Pipe |-> IF ff[p].type = "pipe" /\ ff[p].pipe = k THEN open[k] \ {ff[p].end} ELSE open[k]]
  /\ iref' = IF ff[p].type = "pipe" THEN iref ELSE iref - 1
  /\ ff' = [ff EXCEPT ![p] = NoFile] /\ CloseAll(p, todo[p])
  /\ UNCHANGED <<ftable, ofile, exiting>>

Release(p) ==
  /\ pc[p] = "drop"
  /\ open' = [k \in Pipe |-> IF ff[p].type = "pipe" /\ ff[p].pipe = k THEN open[k] \ {ff[p].end} ELSE open[k]]
  /\ iref' = IF ff[p].type = "inode" THEN iref - 1 ELSE iref
  /\ ff' = [ff EXCEPT ![p] = NoFile]
  /\ CloseAll(p, todo[p])
  /\ UNCHANGED <<ftable, ofile, exiting>>

----------------------------------------------------------------------------
Init ==
  /\ ftable = [f \in File |-> NoFile]
  /\ ofile = [p \in Proc |-> [d \in Fd |-> 0]]
  /\ open = [k \in Pipe |-> {}] /\ iref = 0
  /\ pc = [p \in Proc |-> IF p = initproc THEN "user" ELSE "unused"]
  /\ todo = [p \in Proc |-> <<>>] /\ ff = [p \in Proc |-> NoFile]
  /\ exiting = [p \in Proc |-> FALSE]

\* What a process does on its way through a call.
Kernel(p) == sys_pipe(p) \/ (pc[p] = "exit" /\ kexit(p)) \/ fileclose(p) \/ Release(p)

Next ==
  \E p \in Proc : \/ sys_open(p) \/ pipealloc(p) \/ sys_dup(p) \/ sys_close(p) \/ kfork(p)
                  \/ (pc[p] = "user" /\ kexit(p)) \/ kwait(p) \/ Kernel(p)

Spec == Init /\ [][Next]_vars

\* A process in the kernel is scheduled until its call is over.
FairSpec == Spec /\ \A p \in Proc : WF_vars(Kernel(p))

----------------------------------------------------------------------------
TypeOK ==
  /\ ftable \in [File -> FILE] /\ ofile \in [Proc -> [Fd -> {0} \cup File]]
  /\ open \in [Pipe -> SUBSET End] /\ iref \in Nat
  /\ pc \in [Proc -> {"unused", "user", "pipealloc", "close", "drop", "exit", "zombie"}]
  /\ todo \in [Proc -> Seq(File)] /\ ff \in [Proc -> FILE] /\ exiting \in [Proc -> BOOLEAN]

\* The files, open or just being closed, that satisfy P.
FilesWith(P(_)) ==
  Cardinality({f \in File : ftable[f].ref > 0 /\ P(ftable[f])}) + Cardinality({p \in Proc : P(ff[p])})

\* A file's ref is the number of descriptors that name it and of calls that are about to close
\* it: it is not reused under a descriptor, it is not leaked by a failing open, pipe or fork, and
\* neither panic("filedup") nor panic("fileclose") is reached.  Each file on an inode holds one
\* reference to it, until its iput() is done.
RefsExact ==
  LET OnInode(f) == f.type = "inode" IN
  /\ \A f \in File :
       ftable[f].ref = Cardinality({x \in Proc \X Fd : ofile[x[1]][x[2]] = f})
                       + Cardinality({p \in Proc : f \in ToSet(todo[p])})
  /\ iref = FilesWith(OnInode)

\* An end of a pipe is open exactly as long as there is one file for it, which may have left the
\* table but has not yet gone through pipeclose(): no end is closed twice, or early through the
\* stale type of a recycled entry, and the page is not reused while an end is in use.
EndsExact ==
  \A k \in Pipe, e \in End :
    LET IsEnd(f) == f.type = "pipe" /\ f.pipe = k /\ f.end = e IN
    FilesWith(IsEnd) = IF e \in open[k] THEN 1 ELSE 0

\* When no descriptor names an end of a pipe any more, that end is closed in the end, so that
\* a reader gets its end of file and a writer its error.
EndsClose ==
  \A k \in Pipe, e \in End :
    LET Named == \E p \in Proc, d \in Fd :
                   ofile[p][d] # 0 /\ LET f == ftable[ofile[p][d]] IN f.type = "pipe" /\ f.pipe = k /\ f.end = e
    IN (e \in open[k] /\ ~Named) ~> (e \notin open[k] \/ Named)

=============================================================================
