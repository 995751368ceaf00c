----------------------------- MODULE FileBlocks -----------------------------
(***************************************************************************)
(* The bytes of files in blocks of the disk: kernel/fs.c from balloc to    *)
(* writei, filewrite of kernel/file.c, and the image mkfs/mkfs.c builds.   *)
(*                                                                         *)
(* Processes write to files and truncate them (sys_open with O_TRUNC, and  *)
(* iput of a file without links).  A write is cut by filewrite into        *)
(* operations of the log of at most WriteMax bytes; the inode lock is held *)
(* for one operation, and between the steps of an operation other          *)
(* processes work on other files and take from or give to the same bitmap. *)
(* A failing copy from the program's memory ends a write in the middle of  *)
(* a block.                                                                *)
(*                                                                         *)
(* The log is here what module Log shows of it: the operations that        *)
(* overlap commit together when the last of them ends, and a crash leaves  *)
(* the blocks of the last commit.  A commit writes the buffers that were   *)
(* given to log_write, with what is in them at that time; a buffer changed *)
(* without log_write may be written with them or be dropped by the cache.  *)
(***************************************************************************)
EXTENDS Integers, Sequences, FiniteSets, FiniteSetsExt, SequencesExt

CONSTANTS
  Proc,
  NInum,        \* inodes are 1 .. NInum; 1 is the root directory
  BSIZE,        \* bytes in a block
  NDIRECT,
  NINDIRECT,
  NBlocks,      \* data blocks are 1 .. NBlocks, and 0 is no block
  MAXOPBLOCKS,
  LOGBLOCKS,
  Image,        \* the lengths of the files given to mkfs
  WriteSizes,   \* bound: the numbers of bytes programs write,
  Offsets,      \* bound: and where, if the file reaches that far
  Writes,       \* Writes[p], Truncates[p]: the files p writes to and truncates
  Truncates,
  Faults,       \* the processes that may pass memory they do not have
  Crashes

ASSUME SizesAssumption ==
  /\ BSIZE \in Nat \ {0} /\ NINDIRECT \in 1 .. BSIZE /\ NDIRECT \in Nat
  /\ NInum > Len(Image) /\ MAXOPBLOCKS \in Nat \ (0 .. 5)

VARIABLES
  fs,       \* the bitmap and data blocks in the cache, and the inodes in memory
  dinode,   \* the inodes in the cached inode blocks
  durable,  \* the same as the last commit left it
  pinned,   \* the blocks given to log_write since then
  lock,     \* lock[i]: the process that holds ip->lock
  proc,     \* proc[p]: its call
  torn      \* history: bytes <<i, off>> that a failed copy may have changed

vars == <<fs, dinode, durable, pinned, lock, proc, torn>>

Inum == 1 .. NInum
Block == 1 .. NBlocks
None == 0
ROOTINO == 1
MAXFILE == NDIRECT + NINDIRECT
Zeroes == [k \in 0 .. BSIZE - 1 |-> 0]
Hole == -1

\* What is left in a free block; balloc clears it before anyone looks.
Stale == [k \in 0 .. BSIZE - 1 |-> 1]

\* The metadata blocks an operation may log, beside data blocks.
BitmapBlock == -1
InodeBlock == -2

\* A byte tells its file and, when a program wrote it, where the write began.
Byte(i, v) == 10 * i + v

Resting == [pc |-> "idle", op |-> "write", file |-> ROOTINO, off |-> 0, to |-> 0,
            end |-> 0, byte |-> 0, logged |-> {}]

------------------------------------------------------------------------------
(* Blocks.  These operators return a record: the new state s, the block b   *)
(* (0 for none) and the blocks log that were given to log_write.            *)

\* balloc, with bzero: the first free block of the bitmap, cleared.
balloc(s) ==
  LET Free == Block \ s.used
      b == Min(Free)
  IN IF Free = {} THEN [s |-> s, b |-> 0, log |-> {}]
     ELSE [s |-> [s EXCEPT !.used = @ \cup {b}, !.data[b] = Zeroes],
           b |-> b, log |-> {BitmapBlock, b}]

\* The block of ip->addrs[k], allocated when there is none.
Addr(s, i, k) ==
  LET r == balloc(s)
  IN IF s.inode[i].addrs[k] # 0 THEN [s |-> s, b |-> s.inode[i].addrs[k], log |-> {}]
     ELSE [r EXCEPT !.s.inode[i].addrs[k] = r.b]

\* bmap: the nth block of the file.  An indirect block that is allocated
\* stays when there is no block left for the data.
bmap(s, i, bn) ==
  IF bn < NDIRECT THEN Addr(s, i, bn)
  ELSE LET ind == Addr(s, i, NDIRECT)
           a == ind.s.data[ind.b][bn - NDIRECT]
           new == balloc(ind.s)
       IN IF ind.b = 0 THEN ind
          ELSE IF a # 0 THEN [ind EXCEPT !.b = a]
          ELSE IF new.b = 0 THEN [ind EXCEPT !.b = 0]
          ELSE [s |-> [new.s EXCEPT !.data[ind.b][bn - NDIRECT] = new.b],
                b |-> new.b, log |-> ind.log \cup new.log \cup {ind.b}]

\* The blocks listed in the indirect block, and in the inode before it.
IndirectBlocks(s, i) ==
  LET b == s.inode[i].addrs[NDIRECT]
  IN IF b = 0 THEN {} ELSE {s.data[b][k] : k \in 0 .. NINDIRECT - 1} \ {0}
DirectBlocks(s, i) == {s.inode[i].addrs[k] : k \in 0 .. NDIRECT - 1} \ {0}

\* st->size.
stati(s, i) == s.inode[i].size

\* What readi finds for the nth block when it has none to allocate.
Lookup(s, i, bn) ==
  IF bn < NDIRECT THEN s.inode[i].addrs[bn]
  ELSE IF s.inode[i].addrs[NDIRECT] = 0 THEN 0
  ELSE s.data[s.inode[i].addrs[NDIRECT]][bn - NDIRECT]

\* The bytes readi(ip, off, n) copies out.
readi(s, i, off, n) ==
  LET size == stati(s, i)
      len == IF off > size THEN 0 ELSE Min({n, size - off})
      At(k) == LET b == Lookup(s, i, k \div BSIZE) IN IF b = 0 THEN Hole ELSE s.data[b][k % BSIZE]
  IN [k \in 1 .. len |-> At(off + k - 1)]

------------------------------------------------------------------------------
(* mkfs: the files of the image, each with an entry of one byte in the      *)
(* root directory after "." and "..".                                       *)

\* freeblock++, for an address that is still 0.
Next0(s, a) == IF a = 0 THEN [b |-> s.freeblock, free |-> s.freeblock + 1]
                        ELSE [b |-> a, free |-> s.freeblock]

\* iappend, byte by byte.
AppendByte(s, i, x) ==
  LET off == s.inode[i].size
      fbn == off \div BSIZE
      k == IF fbn < NDIRECT THEN fbn ELSE NDIRECT
      top == Next0(s, s.inode[i].addrs[k])
      t == [s EXCEPT !.inode[i].addrs[k] = top.b, !.freeblock = top.free, !.inode[i].size = off + 1]
      leaf == Next0(t, t.data[top.b][fbn - NDIRECT])
  IN IF fbn < NDIRECT THEN [t EXCEPT !.data[top.b][off % BSIZE] = x]
     ELSE [t EXCEPT !.data[top.b][fbn - NDIRECT] = leaf.b, !.freeblock = leaf.free,
                    !.data[leaf.b][off % BSIZE] = x]

iappend(s, i, bytes) == FoldLeft(LAMBDA t, x : AppendByte(t, i, x), s, bytes)

\* wsect of zeroes everywhere, ialloc of every inode.
Blank == [freeblock |-> 1, data |-> [b \in Block |-> Zeroes],
          inode |-> [i \in Inum |-> [size |-> 0, addrs |-> [k \in 0 .. NDIRECT |-> 0]]]]

\* The entries "." and "..", then for each file its entry and its bytes.
WithFiles ==
  FoldLeft(LAMBDA s, n : iappend(iappend(s, ROOTINO, <<Byte(ROOTINO, 1 + n)>>), 1 + n,
                                 [k \in 1 .. Image[n] |-> Byte(1 + n, 0)]),
           iappend(Blank, ROOTINO, <<Byte(ROOTINO, 0), Byte(ROOTINO, 1)>>),
           [n \in 1 .. Len(Image) |-> n])

\* balloc(freeblock) of mkfs.
MarkUsed(freeblock) == 1 .. freeblock - 1

\* main: the root directory's size becomes the next multiple of BSIZE.
mkfs ==
  [used |-> MarkUsed(WithFiles.freeblock),
   inode |-> [WithFiles.inode EXCEPT ![ROOTINO].size = ((@ \div BSIZE) + 1) * BSIZE],
   data |-> [b \in Block |-> IF b < WithFiles.freeblock THEN WithFiles.data[b] ELSE Stale]]

------------------------------------------------------------------------------
Init ==
  /\ fs = mkfs /\ dinode = mkfs.inode /\ durable = mkfs
  /\ pinned = {} /\ torn = {}
  /\ lock = [i \in Inum |-> None]
  /\ proc = [p \in Proc |-> Resting]

InOp(p) == proc[p].pc \in {"lock", "writei", "iupdate", "itrunc", "itrunc_indirect", "end"}

\* log_write of the blocks L, in p's operation, as p goes on to r.
Logs(p, r, L) ==
  /\ pinned' = pinned \cup L
  /\ proc' = [proc EXCEPT ![p] = [r EXCEPT !.logged = @ \cup L]]

\* filewrite's max: what fits into one operation (and a variant that takes
\* no account of blocks that are allocated or of unaligned writes).
WriteMax_whole == (MAXOPBLOCKS - 1 - 1) * BSIZE
WriteMax == ((MAXOPBLOCKS - 1 - 1 - 2) \div 2) * BSIZE

\* begin_op waits for room in the log; p goes on to r, with the next n1 bytes.
Begin(p, r) ==
  LET outstanding == Cardinality({q \in Proc : InOp(q)}) IN
  /\ Cardinality(pinned) + (outstanding + 1) * MAXOPBLOCKS <= LOGBLOCKS
  /\ proc' = [proc EXCEPT ![p] = [r EXCEPT !.pc = "lock", !.end = r.off + Min({r.to - r.off, WriteMax})]]
  /\ UNCHANGED <<fs, dinode, durable, pinned, lock, torn>>

\* sys_write on a descriptor whose offset is inside the file.
filewrite(p, i, off, n) ==
  /\ proc[p].pc \in {"idle", "failed"}
  /\ off <= fs.inode[i].size
  /\ Begin(p, [Resting EXCEPT !.file = i, !.off = off, !.to = off + n, !.byte = Byte(i, off + 1)])

\* sys_open with O_TRUNC.
open_trunc(p, i) ==
  /\ proc[p].pc \in {"idle", "failed"}
  /\ Begin(p, [Resting EXCEPT !.op = "trunc", !.file = i, !.to = 1])

\* The next round of filewrite's loop.
filewrite_loop(p) == proc[p].pc = "begin" /\ Begin(p, proc[p])

\* The checks at the start of writei (and a variant without the first).
OutOfRange_unchecked(r) == r.end > MAXFILE * BSIZE
OutOfRange(r) == r.off > fs.inode[r.file].size \/ r.end > MAXFILE * BSIZE

\* ilock, and writei as far as its loop.
ilock(p) ==
  LET r == proc[p]
      bad == r.op = "write" /\ OutOfRange(r)
  IN
  /\ r.pc = "lock" /\ lock[r.file] = None
  /\ lock' = IF bad THEN lock ELSE [lock EXCEPT ![r.file] = p]
  /\ proc' = [proc EXCEPT ![p].pc = IF bad THEN "end" ELSE IF r.op = "write" THEN "writei" ELSE "itrunc"]
  /\ UNCHANGED <<fs, dinode, durable, pinned, torn>>

\* m bytes of the block b become p's byte.
Copied(s, b, p, m) ==
  LET o == proc[p].off % BSIZE
  IN [s EXCEPT !.data[b] = [k \in DOMAIN @ |-> IF k \in o .. o + m - 1 THEN proc[p].byte ELSE @[k]]]

\* The bytes of the file that a copy of m bytes touches.
Touched(p, m) ==
  LET r == proc[p] IN {r.file} \X {k \in r.off .. r.off + m - 1 : k < fs.inode[r.file].size}

\* One round of writei's loop: bmap, bread, either_copyin, log_write.
writei(p) ==
  LET r == proc[p]
      at == bmap(fs, r.file, r.off \div BSIZE)
      m == Min({r.end - r.off, BSIZE - (r.off % BSIZE)})
      Stop == [r EXCEPT !.pc = "iupdate"]
  IN
  /\ r.pc = "writei"
  /\ \/ /\ at.b = 0
        /\ fs' = at.s /\ Logs(p, Stop, at.log)
        /\ UNCHANGED torn
     \/ /\ at.b # 0
        /\ fs' = Copied(at.s, at.b, p, m)
        /\ Logs(p, [r EXCEPT !.pc = IF r.off + m = r.end THEN "iupdate" ELSE "writei", !.off = @ + m],
                at.log \cup {at.b})
        /\ torn' = torn \ Touched(p, m)
     \/ /\ at.b # 0 /\ p \in Faults
        /\ \E k \in 0 .. m - 1 :
             fs' = Copied(at.s, at.b, p, k) /\ torn' = torn \cup Touched(p, k)
        /\ Logs(p, Stop, at.log)
  /\ UNCHANGED <<dinode, durable, lock>>

\* iupdate copies ip to the inode block; then iunlock.  L: other blocks logged.
Updated(p, s, r, L) ==
  /\ fs' = s
  /\ dinode' = [dinode EXCEPT ![r.file] = s.inode[r.file]]
  /\ Logs(p, [r EXCEPT !.pc = "end"], L \cup {InodeBlock})
  /\ lock' = [lock EXCEPT ![r.file] = None]

\* (A faulty variant: iupdate only when the file has grown.)
iupdate_grown(p) ==
  LET r == proc[p] IN
  /\ r.pc = "iupdate"
  /\ IF r.off > fs.inode[r.file].size
     THEN Updated(p, [fs EXCEPT !.inode[r.file].size = r.off], r, {})
     ELSE /\ proc' = [proc EXCEPT ![p].pc = "end"]
          /\ lock' = [lock EXCEPT ![r.file] = None]
          /\ UNCHANGED <<fs, dinode, pinned>>
  /\ UNCHANGED <<durable, torn>>

\* The end of writei.
iupdate(p) ==
  LET r == proc[p] IN
  /\ r.pc = "iupdate"
  /\ Updated(p, [fs EXCEPT !.inode[r.file].size = Max({@, r.off})], r, {})
  /\ UNCHANGED <<durable, torn>>

\* bfree of the blocks B, which panics when one of them is free.
bfree(s, B) == [s EXCEPT !.used = @ \ B, !.data = [b \in Block |-> IF b \in B THEN Stale ELSE @[b]]]

\* itrunc, as far as the direct blocks.
itrunc(p) ==
  LET r == proc[p]
      B == DirectBlocks(fs, r.file)
  IN
  /\ r.pc = "itrunc" /\ B \subseteq fs.used
  /\ fs' = [bfree(fs, B) EXCEPT !.inode[r.file].addrs = [k \in DOMAIN @ |-> IF k < NDIRECT THEN 0 ELSE @[k]]]
  /\ torn' = {t \in torn : t[1] # r.file}
  /\ Logs(p, [r EXCEPT !.pc = "itrunc_indirect"], IF B = {} THEN {} ELSE {BitmapBlock})
  /\ UNCHANGED <<dinode, durable, lock>>

\* The blocks of the indirect block, that block, size = 0 and iupdate.
itrunc_indirect(p) ==
  LET r == proc[p]
      B == IndirectBlocks(fs, r.file) \cup ({fs.inode[r.file].addrs[NDIRECT]} \ {0})
  IN
  /\ r.pc = "itrunc_indirect" /\ B \subseteq fs.used
  /\ Updated(p, [bfree(fs, B) EXCEPT !.inode[r.file].addrs[NDIRECT] = 0, !.inode[r.file].size = 0],
             [r EXCEPT !.off = r.to, !.end = r.to], IF B = {} THEN {} ELSE {BitmapBlock})
  /\ UNCHANGED <<durable, torn>>

\* end_op: the last operation commits.  filewrite goes on while writei wrote
\* all of n1, and succeeds when nothing is left.
end_op(p) ==
  LET r == proc[p]
      last == \A q \in Proc \ {p} : ~InOp(q)
  IN
  /\ r.pc = "end"
  /\ durable' = IF ~last THEN durable
                ELSE [used |-> fs.used, inode |-> dinode,
                      data |-> [b \in Block |-> IF b \in pinned \/ b \notin fs.used THEN fs.data[b]
                                                ELSE durable.data[b]]]
  /\ pinned' = IF last THEN {} ELSE pinned
  /\ proc' = [proc EXCEPT ![p] = IF r.off # r.end THEN [Resting EXCEPT !.pc = "failed"]
                                 ELSE IF r.off < r.to THEN [r EXCEPT !.pc = "begin", !.logged = {}]
                                 ELSE Resting]
  /\ UNCHANGED <<fs, dinode, lock, torn>>

\* bget recycles the buffer of a block that no operation has logged.
Evict(b) ==
  /\ b \in fs.used \ pinned /\ fs.data[b] # durable.data[b]
  /\ fs' = [fs EXCEPT !.data[b] = durable.data[b]]
  /\ UNCHANGED <<dinode, durable, pinned, lock, proc, torn>>

Crash ==
  /\ Crashes
  /\ fs' = durable /\ dinode' = durable.inode
  /\ pinned' = {} /\ torn' = {}
  /\ lock' = [i \in Inum |-> None]
  /\ proc' = [p \in Proc |-> Resting]
  /\ UNCHANGED durable

Next ==
  \/ \E p \in Proc :
       \/ \E i \in Truncates[p] : open_trunc(p, i)
       \/ \E i \in Writes[p], off \in Offsets, n \in WriteSizes : filewrite(p, i, off, n)
       \/ filewrite_loop(p) \/ ilock(p) \/ writei(p) \/ iupdate(p)
       \/ itrunc(p) \/ itrunc_indirect(p) \/ end_op(p)
  \/ \E b \in Block : Evict(b)
  \/ Crash

Spec == Init /\ [][Next]_vars

------------------------------------------------------------------------------
\* Every block in use belongs to one place of one file, and every block of a
\* file is in use.
Exact(s) ==
  LET Places == (Inum \X (0 .. NDIRECT)) \cup (Inum \X (NDIRECT + 1 .. NDIRECT + NINDIRECT))
      BlockAt(pl) == IF pl[2] <= NDIRECT THEN s.inode[pl[1]].addrs[pl[2]]
                     ELSE Lookup(s, pl[1], pl[2] - 1)
      Taken == {pl \in Places : BlockAt(pl) # 0}
  IN /\ s.used = {BlockAt(pl) : pl \in Taken}
     /\ Cardinality(s.used) = Cardinality(Taken)

\* The bitmap and the inodes agree at every step, in the memory of the
\* kernel and on the disk a crash would leave: no block is lost, none is in
\* two files (balloc, bfree, bmap and itrunc, with the commit of the log).
BlocksExact == Exact(fs) /\ Exact(durable)

\* No operation gives log_write as many blocks as begin_op reserved for it:
\* the size of filewrite's pieces leaves room for the indirect block, the
\* bitmap, the inode and an unaligned start.
OpFits == \A p \in Proc : Cardinality(proc[p].logged) < MAXOPBLOCKS

\* readi gives back what was written, through any sequence of writes,
\* truncations, failures and crashes: blocks implement FileBytes.
Contents(s) == [i \in Inum |-> IF \E p \in Proc : proc[p].pc = "itrunc_indirect" /\ proc[p].file = i
                               THEN <<>> ELSE readi(s, i, 0, stati(s, i))]

\* The bytes of a write beyond the size become visible with the size.
Shown(p) ==
  LET r == proc[p] IN
  CASE r.pc \in {"writei", "iupdate"} -> Min({r.off, fs.inode[r.file].size})
    [] r.pc = "itrunc_indirect" -> r.to
    [] OTHER -> r.off

\* No call, the last one having succeeded or failed.
Between(how) == [op |-> how, file |-> 0, from |-> 0, to |-> 0, byte |-> 0]

Bytes == INSTANCE FileBytes WITH
  content <- Contents(fs),
  saved <- [i \in Inum |-> readi(durable, i, 0, stati(durable, i))],
  req <- [p \in Proc |->
            CASE proc[p].pc \in {"idle", "failed"} -> Between(proc[p].pc)
              [] OTHER -> [op |-> proc[p].op, file |-> proc[p].file, from |-> Shown(p),
                           to |-> proc[p].to, byte |-> proc[p].byte]],
  Idle <- Between("idle"), Failed <- Between("failed")

\* FileBlocks implements FileBytes: see Contents.
BlocksAreBytes == Bytes!ASpec
=============================================================================
