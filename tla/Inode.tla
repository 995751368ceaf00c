------------------------------- MODULE Inode -------------------------------
(***************************************************************************)
(* The inode table and the life of files, kernel/fs.c, under the calls     *)
(* open, close, link and unlink of kernel/sysfile.c on one directory, with *)
(* crashes and the reclaiming of orphans at boot.                          *)
(*                                                                         *)
(* A step is what happens under itable.lock, or between taking and         *)
(* releasing the sleep-lock of the directory or of an inode.  Every call   *)
(* is one operation of the log (module Log): what a crash leaves is the    *)
(* disk at a moment with no operation in progress.                         *)
(***************************************************************************)
EXTENDS Integers, FiniteSets, Functions

CONSTANTS
  Proc, None,
  Name,        \* names in the directory
  NInum,       \* inodes on the disk
  NINODE,      \* entries of itable (50)
  NOFILE,      \* files a process has open at a time (16)
  Crashes      \* whether power may fail

ASSUME InodeAssumption ==
  /\ None \notin Proc /\ NInum \in Nat \ {0} /\ NINODE \in Nat \ {0} /\ NOFILE \in Nat
  /\ Crashes \in BOOLEAN

Inum == 1 .. NInum
Slot == 1 .. NINODE

VARIABLES
  dtype, dnlink, dir,                \* on disk: dinode.type (used?), dinode.nlink, the directory
  durable,                           \* the disk after a crash
  inum, ref, valid, nlink, locked,   \* of struct inode
  dirlock,                           \* the directory's inode lock
  pc, call, name, ip,                \* where a process is; its call, its name, its inode
  files,                             \* files[p][s]: files of p open on the inode in slot s
  boot                               \* ireclaim() has not finished

disk == <<dtype, dnlink, dir>>
itable == <<inum, ref, valid, nlink, locked>>
vars == <<dtype, dnlink, dir, durable, inum, ref, valid, nlink, locked, dirlock, pc, call, name, ip,
          files, boot>>

Goto(p, l) == pc' = [pc EXCEPT ![p] = l]
Lowest(S) == CHOOSE i \in S : \A j \in S : i <= j
Outstanding == {p \in Proc : pc[p] \notin {"idle", "read"}}
OpenFiles(p) == SumFunction(files[p])

----------------------------------------------------------------------------
(* The inode table *)

\* iget() that does not look for the inode in the table.
iget_fresh(p, i, l) ==
  LET free == {s \in Slot : ref[s] = 0} IN
  IF free = {} THEN Goto(p, "panic") /\ UNCHANGED <<itable, ip>>
  ELSE /\ inum' = [inum EXCEPT ![Lowest(free)] = i]
       /\ ref' = [ref EXCEPT ![Lowest(free)] = 1]
       /\ valid' = [valid EXCEPT ![Lowest(free)] = FALSE]
       /\ ip' = [ip EXCEPT ![p] = Lowest(free)]
       /\ Goto(p, l)
       /\ UNCHANGED <<nlink, locked>>

\* iget() that does not count the reference to an entry it finds.
iget_uncounted(p, i, l) ==
  LET hit == {s \in Slot : ref[s] > 0 /\ inum[s] = i}
      free == {s \in Slot : ref[s] = 0}
      s == Lowest(IF hit # {} THEN hit ELSE free)
  IN
  IF hit \cup free = {} THEN Goto(p, "panic") /\ UNCHANGED <<itable, ip>>
  ELSE /\ inum' = [inum EXCEPT ![s] = i]
       /\ ref' = [ref EXCEPT ![s] = 1]
       /\ valid' = [valid EXCEPT ![s] = @ /\ hit # {}]
       /\ ip' = [ip EXCEPT ![p] = s]
       /\ Goto(p, l)
       /\ UNCHANGED <<nlink, locked>>

\* iget(): the entry of inode i, or a free one, which is not valid yet; p goes on at l.
iget(p, i, l) ==
  LET hit == {s \in Slot : ref[s] > 0 /\ inum[s] = i}
      free == {s \in Slot : ref[s] = 0}
      s == Lowest(IF hit # {} THEN hit ELSE free)
  IN
  IF hit \cup free = {} THEN Goto(p, "panic") /\ UNCHANGED <<itable, ip>>
  ELSE /\ inum' = [inum EXCEPT ![s] = i]
       /\ ref' = [ref EXCEPT ![s] = @ + 1]
       /\ valid' = [valid EXCEPT ![s] = @ /\ hit # {}]
       /\ ip' = [ip EXCEPT ![p] = s]
       /\ Goto(p, l)
       /\ UNCHANGED <<nlink, locked>>

\* What ilock() finds in entry s: the link count, read from the disk if need be.
Loaded(s) == IF valid[s] THEN nlink[s] ELSE dnlink[inum[s]]

\* ilock() of entry s by p, which goes on at l.
ilock(p, s, l) ==
  /\ locked[s] = None
  /\ locked' = [locked EXCEPT ![s] = p]
  /\ valid' = [valid EXCEPT ![s] = TRUE]
  /\ nlink' = [nlink EXCEPT ![s] = Loaded(s)]
  /\ Goto(p, IF valid[s] \/ dtype[inum[s]] THEN l ELSE "panic")
  /\ UNCHANGED <<inum, ref>>

\* ip->nlink = n; iupdate(ip)
iupdate(s, n) ==
  /\ nlink' = [nlink EXCEPT ![s] = n]
  /\ dnlink' = [dnlink EXCEPT ![inum[s]] = n]

----------------------------------------------------------------------------
(* The calls *)

\* begin_op(), on the way to the directory.
Start(p) ==
  /\ pc[p] = "idle" /\ ~boot
  /\ \E c \in {"open", "create", "link", "unlink"}, n \in Name :
       call' = [call EXCEPT ![p] = c] /\ name' = [name EXCEPT ![p] = n]
  /\ Goto(p, "dir")
  /\ UNCHANGED <<disk, durable, itable, dirlock, ip, files, boot>>

\* fileclose() of an open file: begin_op(), on the way to iput().
fileclose(p) ==
  /\ pc[p] = "idle" /\ ~boot
  /\ \E s \in Slot :
       /\ files[p][s] > 0
       /\ files' = [files EXCEPT ![p][s] = @ - 1]
       /\ ip' = [ip EXCEPT ![p] = s]
  /\ Goto(p, "iput")
  /\ UNCHANGED <<disk, durable, itable, dirlock, call, name, boot>>

\* fileread() holds the inode's lock, and no reference but the file's.
fileread(p) ==
  /\ \E s \in Slot :
       \/ pc[p] = "idle" /\ ~boot /\ files[p][s] > 0 /\ ilock(p, s, "read")
       \/ /\ pc[p] = "read" /\ locked[s] = p
          /\ locked' = [locked EXCEPT ![s] = None]
          /\ Goto(p, "idle")
          /\ UNCHANGED <<inum, ref, valid, nlink>>
  /\ UNCHANGED <<disk, durable, dirlock, call, name, ip, files, boot>>

\* dirlookup() of p's name with the directory locked: namei() and create() give that
\* lock up when they have the entry's inode, sys_unlink() keeps it.
dirlookup(p) ==
  /\ pc[p] = "dir" /\ dirlock = None
  /\ \/ /\ dir[name[p]] # 0
        /\ iget(p, dir[name[p]], "ilock")
        /\ dirlock' = IF call[p] = "unlink" THEN p ELSE None
     \/ /\ dir[name[p]] = 0 /\ call[p] # "create"
        /\ Goto(p, "end")
        /\ UNCHANGED <<itable, ip, dirlock>>
  /\ UNCHANGED <<disk, durable, call, name, files, boot>>

\* create() of a name that is not there: ialloc(), with the directory locked.
ialloc(p) ==
  /\ pc[p] = "dir" /\ dirlock = None
  /\ call[p] = "create" /\ dir[name[p]] = 0
  /\ LET unused == {i \in Inum : ~dtype[i]} IN
     IF unused = {} THEN Goto(p, "end") /\ UNCHANGED <<disk, itable, ip, dirlock>>
     ELSE /\ dtype' = [dtype EXCEPT ![Lowest(unused)] = TRUE]
          /\ dnlink' = [dnlink EXCEPT ![Lowest(unused)] = 0]
          /\ iget(p, Lowest(unused), "new")
          /\ dirlock' = p
          /\ UNCHANGED dir
  /\ UNCHANGED <<durable, call, name, files, boot>>

\* dirlink() with room for the entry: the name must not be there yet.
dirlink(n, i) ==
  /\ dir[n] = 0
  /\ dir' = [dir EXCEPT ![n] = i]

\* sys_link() at "bad": it locks the inode again, to take the link back.
bad(p) == pc[p] = "bad" /\ ilock(p, ip[p], "unlinkdone")

\* ilock() of the inode a call got: found by name, new, or, in sys_link(), once more.
Lock(p) ==
  /\ \/ pc[p] = "ilock" /\ ilock(p, ip[p], IF call[p] = "create" THEN "open" ELSE call[p])
     \/ pc[p] = "new" /\ ilock(p, ip[p], "create")
     \/ bad(p)
  /\ UNCHANGED <<disk, durable, dirlock, call, name, ip, files, boot>>

\* create() goes on with the new inode: one link, and the directory's entry, which
\* dirlink() may fail to write: then no link, and iunlockput() of both.
create(p) ==
  /\ pc[p] = "create"
  /\ \/ /\ iupdate(ip[p], 1)
        /\ dirlink(name[p], inum[ip[p]])
        /\ dirlock' = None
        /\ Goto(p, "open")
        /\ UNCHANGED locked
     \/ /\ iupdate(ip[p], 0)
        /\ locked' = [locked EXCEPT ![ip[p]] = None]
        /\ Goto(p, "iput")
        /\ UNCHANGED <<dir, dirlock>>
  /\ UNCHANGED <<dtype, durable, inum, ref, valid, call, name, ip, files, boot>>

\* sys_open() with the inode locked: a file and a descriptor for it, or iunlockput().
sys_open(p) ==
  /\ pc[p] = "open"
  /\ locked' = [locked EXCEPT ![ip[p]] = None]
  /\ \/ /\ OpenFiles(p) < NOFILE
        /\ files' = [files EXCEPT ![p][ip[p]] = @ + 1]
        /\ ip' = [ip EXCEPT ![p] = 0]
        /\ Goto(p, "end")
     \/ /\ OpenFiles(p) = NOFILE
        /\ Goto(p, "iput")
        /\ UNCHANGED <<files, ip>>
  /\ UNCHANGED <<disk, durable, inum, ref, valid, nlink, dirlock, call, name, boot>>

\* sys_link(): first the link count, with the inode locked,
sys_link(p) ==
  /\ pc[p] = "link"
  /\ iupdate(ip[p], nlink[ip[p]] + 1)
  /\ locked' = [locked EXCEPT ![ip[p]] = None]
  /\ Goto(p, "dirlink")
  /\ UNCHANGED <<dtype, dir, durable, inum, ref, valid, dirlock, call, name, ip, files, boot>>

\* sys_link() that tries again when dirlink() fails.
LinkEntry_retry(p) ==
  /\ pc[p] = "dirlink" /\ dirlock = None
  /\ \/ \E n \in Name : dirlink(n, inum[ip[p]]) /\ Goto(p, "iput")
     \/ UNCHANGED <<dir, pc>>
  /\ UNCHANGED <<dtype, dnlink, durable, itable, dirlock, call, name, ip, files, boot>>

\* then the entry, with the directory locked.  dirlink() fails when the name is taken (the
\* reference its dirlookup() takes to that inode it drops again) or cannot be written.
LinkEntry(p) ==
  /\ pc[p] = "dirlink" /\ dirlock = None
  /\ \/ \E n \in Name : dirlink(n, inum[ip[p]]) /\ Goto(p, "iput")
     \/ Goto(p, "bad") /\ UNCHANGED dir
  /\ UNCHANGED <<dtype, dnlink, durable, itable, dirlock, call, name, ip, files, boot>>

\* sys_unlink() has the directory and the inode locked: the entry goes first, and with it
\* the directory's lock,
sys_unlink(p) ==
  /\ pc[p] = "unlink"
  /\ IF nlink[ip[p]] < 1 THEN Goto(p, "panic") /\ UNCHANGED <<dir, dirlock>>
     ELSE /\ dir' = [dir EXCEPT ![name[p]] = 0]
          /\ dirlock' = None
          /\ Goto(p, "unlinkdone")
  /\ UNCHANGED <<dtype, dnlink, durable, itable, call, name, ip, files, boot>>

\* then the link; "bad" of sys_link() takes the link it had counted back the same way.
DropLink(p) ==
  /\ pc[p] = "unlinkdone"
  /\ iupdate(ip[p], nlink[ip[p]] - 1)
  /\ locked' = [locked EXCEPT ![ip[p]] = None]
  /\ Goto(p, "iput")
  /\ UNCHANGED <<dtype, dir, durable, inum, ref, valid, dirlock, call, name, ip, files, boot>>

----------------------------------------------------------------------------
(* iput().  Whoever has the directory locked unlocks it when done. *)

\* ip->ref--; what an entry without references still holds, iget() does not look at.
Drop(p) ==
  LET s == ip[p] IN
  /\ ref' = [ref EXCEPT ![s] = @ - 1]
  /\ inum' = [inum EXCEPT ![s] = IF ref[s] = 1 THEN 0 ELSE @]
  /\ valid' = [valid EXCEPT ![s] = @ /\ ref[s] # 1]
  /\ nlink' = [nlink EXCEPT ![s] = IF ref[s] = 1 THEN 0 ELSE @]
  /\ ip' = [ip EXCEPT ![p] = 0]
  /\ dirlock' = IF dirlock = p THEN None ELSE dirlock
  /\ Goto(p, "end")

\* iput() that frees an inode without links whoever else refers to it.
iput_anyref(p) ==
  /\ pc[p] = "iput"
  /\ IF valid[ip[p]] /\ nlink[ip[p]] = 0
     THEN /\ locked[ip[p]] = None
          /\ locked' = [locked EXCEPT ![ip[p]] = p]
          /\ Goto(p, "itrunc")
          /\ UNCHANGED <<inum, ref, valid, nlink, ip, dirlock>>
     ELSE Drop(p) /\ UNCHANGED locked
  /\ UNCHANGED <<disk, durable, call, name, files, boot>>

\* iput() that drops the reference before it frees the inode, and again after.
iput_early(p) ==
  /\ pc[p] = "iput"
  /\ ref' = [ref EXCEPT ![ip[p]] = @ - 1]
  /\ IF ref[ip[p]] = 1 /\ valid[ip[p]] /\ nlink[ip[p]] = 0
     THEN /\ locked' = [locked EXCEPT ![ip[p]] = p]
          /\ Goto(p, "itrunc")
          /\ UNCHANGED <<inum, valid, nlink, ip, dirlock>>
     ELSE Drop(p) /\ UNCHANGED locked
  /\ UNCHANGED <<disk, durable, call, name, files, boot>>

\* Under itable.lock: drop the reference, unless it is the last one to an inode without links.
iput(p) ==
  /\ pc[p] = "iput"
  /\ IF ref[ip[p]] = 1 /\ valid[ip[p]] /\ nlink[ip[p]] = 0
     THEN /\ locked[ip[p]] = None
          /\ locked' = [locked EXCEPT ![ip[p]] = p]
          /\ Goto(p, "itrunc")
          /\ UNCHANGED <<inum, ref, valid, nlink, ip, dirlock>>
     ELSE Drop(p) /\ UNCHANGED locked
  /\ UNCHANGED <<disk, durable, call, name, files, boot>>

\* That inode is freed: itrunc(), type = 0, iupdate(); then the entry is not valid any more
\* and unlocked; then itable.lock again, for the reference.
FreeInode(p) ==
  /\ \/ /\ pc[p] = "itrunc"
        /\ dtype' = [dtype EXCEPT ![inum[ip[p]]] = FALSE]
        /\ Goto(p, "invalidate")
        /\ UNCHANGED <<itable, ip, dirlock>>
     \/ /\ pc[p] = "invalidate"
        /\ valid' = [valid EXCEPT ![ip[p]] = FALSE]
        /\ locked' = [locked EXCEPT ![ip[p]] = None]
        /\ Goto(p, "drop")
        /\ UNCHANGED <<dtype, inum, ref, nlink, ip, dirlock>>
     \/ pc[p] = "drop" /\ Drop(p) /\ UNCHANGED <<dtype, locked>>
  /\ UNCHANGED <<dnlink, dir, durable, call, name, files, boot>>

\* end_op() that commits while other operations are in progress.
end_op_eager(p) ==
  /\ pc[p] = "end"
  /\ Goto(p, "idle")
  /\ durable' = disk
  /\ call' = [call EXCEPT ![p] = None] /\ name' = [name EXCEPT ![p] = None]
  /\ UNCHANGED <<disk, itable, dirlock, ip, files, boot>>

\* end_op(): the last operation in progress commits them all.
end_op(p) ==
  /\ pc[p] = "end"
  /\ Goto(p, "idle")
  /\ durable' = IF Outstanding = {p} THEN disk ELSE durable
  /\ call' = [call EXCEPT ![p] = None] /\ name' = [name EXCEPT ![p] = None]
  /\ UNCHANGED <<disk, itable, dirlock, ip, files, boot>>

----------------------------------------------------------------------------
(* Crash and boot *)

\* Nothing is in memory.
Fresh ==
  /\ inum' = [s \in Slot |-> 0] /\ ref' = [s \in Slot |-> 0] /\ valid' = [s \in Slot |-> FALSE]
  /\ nlink' = [s \in Slot |-> 0] /\ locked' = [s \in Slot |-> None] /\ dirlock' = None
  /\ pc' = [p \in Proc |-> "idle"] /\ call' = [p \in Proc |-> None] /\ name' = [p \in Proc |-> None]
  /\ ip' = [p \in Proc |-> 0] /\ files' = [p \in Proc |-> [s \in Slot |-> 0]] /\ boot' = TRUE

Crash ==
  /\ Crashes
  /\ dtype' = durable[1] /\ dnlink' = durable[2] /\ dir' = durable[3] /\ UNCHANGED durable
  /\ Fresh

\* ireclaim(), before any process runs: each inode in use without a link is got, locked and
\* put, in an operation of its own.
ireclaim ==
  /\ boot
  /\ LET orphans == {i \in Inum : dtype[i] /\ dnlink[i] = 0} IN
     \/ /\ orphans # {}
        /\ dtype' = [dtype EXCEPT ![Lowest(orphans)] = FALSE]
        /\ durable' = <<dtype', dnlink, dir>>
        /\ UNCHANGED boot
     \/ orphans = {} /\ boot' = FALSE /\ UNCHANGED <<dtype, durable>>
  /\ UNCHANGED <<dnlink, dir, itable, dirlock, pc, call, name, ip, files>>

----------------------------------------------------------------------------
Init ==
  /\ dtype = [i \in Inum |-> FALSE] /\ dnlink = [i \in Inum |-> 0] /\ dir = [n \in Name |-> 0]
  /\ durable = disk
  /\ inum = [s \in Slot |-> 0] /\ ref = [s \in Slot |-> 0] /\ valid = [s \in Slot |-> FALSE]
  /\ nlink = [s \in Slot |-> 0] /\ locked = [s \in Slot |-> None] /\ dirlock = None
  /\ pc = [p \in Proc |-> "idle"] /\ call = [p \in Proc |-> None] /\ name = [p \in Proc |-> None]
  /\ ip = [p \in Proc |-> 0] /\ files = [p \in Proc |-> [s \in Slot |-> 0]] /\ boot = TRUE

\* What a process does once it is in a call.
Step(p) ==
  \/ dirlookup(p) \/ ialloc(p) \/ Lock(p) \/ create(p) \/ sys_open(p) \/ sys_link(p) \/ LinkEntry(p)
  \/ sys_unlink(p) \/ DropLink(p) \/ iput(p) \/ FreeInode(p) \/ end_op(p)

Enter(p) == Start(p) \/ fileclose(p)

Next == (\E p \in Proc : Step(p) \/ Enter(p) \/ fileread(p)) \/ Crash \/ ireclaim

Spec == Init /\ [][Next]_vars

\* A process in a call is scheduled, one that reads finishes reading, and boot finishes.
Fairness ==
  /\ WF_vars(ireclaim)
  /\ \A p \in Proc : WF_vars(Step(p)) /\ WF_vars(pc[p] = "read" /\ fileread(p))

FairSpec == Spec /\ Fairness

----------------------------------------------------------------------------
TypeOK ==
  /\ dtype \in [Inum -> BOOLEAN] /\ dnlink \in [Inum -> Nat] /\ dir \in [Name -> 0 .. NInum]
  /\ inum \in [Slot -> 0 .. NInum] /\ ref \in [Slot -> Nat] /\ valid \in [Slot -> BOOLEAN]
  /\ nlink \in [Slot -> Nat] /\ locked \in [Slot -> Proc \cup {None}] /\ dirlock \in Proc \cup {None}
  /\ ip \in [Proc -> 0 .. NINODE] /\ files \in [Proc -> [Slot -> 0 .. NOFILE]] /\ boot \in BOOLEAN

Entries(d, i) == {n \in Name : d[n] = i}

\* An inode has at most one entry in the table, so one lock and one copy, and the entry's
\* ref is exactly the number of open files and of running calls that have it (iget, idup,
\* iput): not one less, which would let it be recycled in use, nor one more.
RefsExact ==
  /\ \A s, t \in Slot : s # t /\ ref[s] > 0 /\ ref[t] > 0 => inum[s] # inum[t]
  /\ \A s \in Slot : ref[s] = SumFunction([p \in Proc |-> files[p][s]])
                               + Cardinality({p \in Proc : ip[p] = s})

\* The comment of iput(): "ip->ref == 1 means no other process can have ip locked, so this
\* acquiresleep() won't block (or deadlock)", which it must not, with itable.lock held.
IputDoesNotBlock ==
  \A p \in Proc : pc[p] = "iput" /\ ref[ip[p]] = 1 => locked[ip[p]] = None

\* No panic of the inode layer is reached: "ilock: no type", which a name or a file for a freed
\* inode would run into, "unlink: nlink < 1", and, with a table as large as the disk's inodes,
\* "iget: no inodes".
NoPanic == \A p \in Proc : pc[p] # "panic"

\* A file that is open keeps its inode: unlinking the last name does not free it (iput frees
\* only on the last reference), and ialloc() does not hand it out meanwhile.
OpenFilesLive == \A p \in Proc, s \in Slot : files[p][s] > 0 => dtype[inum[s]] /\ ref[s] > 0

\* With no operation in progress, a name leads to an inode in use, and the nlink of an inode in
\* use is the number of its names.
LinksExact ==
  Outstanding = {} /\ ~boot =>
    \A i \in Inum : /\ Entries(dir, i) # {} => dtype[i]
                    /\ dtype[i] => dnlink[i] = Cardinality(Entries(dir, i))

\* The comment of iput(): "If that was the last reference and the inode has no links to it, free
\* the inode (and its content) on disk": with no operation in progress, an inode without links is
\* in use only while it is referred to.
LastPutFrees ==
  Outstanding = {} /\ ~boot =>
    \A i \in Inum : dtype[i] /\ dnlink[i] = 0 => \E s \in Slot : ref[s] > 0 /\ inum[s] = i

\* The same of the disk at every moment at which the power may fail, so after a crash too: names
\* and link counts agree, and what is in use without a name is what ireclaim() looks for.
DiskConsistent ==
  \A i \in Inum :
    /\ Entries(durable[3], i) # {} => durable[1][i]
    /\ durable[1][i] => durable[2][i] = Cardinality(Entries(durable[3], i))

\* Calls that have the directory, an inode or both locked do not wait for each other for ever,
\* whatever the order they lock in: unless new calls keep coming, all calls finish.
CallsFinish == []<>(\A p \in Proc : pc[p] = "idle") \/ []<><<\E p \in Proc : Enter(p) \/ fileread(p)>>_vars

=============================================================================
