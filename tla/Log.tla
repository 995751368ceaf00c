-------------------------------- MODULE Log --------------------------------
(***************************************************************************)
(* The redo log of the file system, kernel/log.c: concurrent operations    *)
(* bracketed by begin_op() and end_op(), group commit by the last of them, *)
(* crashes at any point, also during recovery, and sync().                 *)
(*                                                                         *)
(* The buffer cache appears as cache[]: a logged block is pinned until it  *)
(* is installed, so what operations read is the cached copy.  bwrite() of  *)
(* one block is atomic and synchronous; each is a step.                    *)
(***************************************************************************)
EXTENDS Integers, FiniteSets, Sequences, Functions

CONSTANTS
  Proc,
  Block,         \* home blocks of the file system
  Val,           \* contents of a block
  MAXOPBLOCKS,   \* blocks reserved per operation (10)
  LOGBLOCKS,     \* data blocks of the log (30)
  NBUF,          \* buffers of the cache (30)
  OpBlocks,      \* distinct blocks an operation writes
  Crashes        \* whether power may fail

ASSUME LogAssumption ==
  /\ IsFiniteSet(Proc)
  /\ MAXOPBLOCKS \in Nat /\ LOGBLOCKS \in Nat /\ NBUF \in Nat /\ OpBlocks \in 0 .. MAXOPBLOCKS
  /\ Crashes \in BOOLEAN

VARIABLES
  home, logblk, head,        \* the disk: home blocks, log blocks, header block
  cache,                     \* block contents in memory
  lh,                        \* log.lh: the block numbers, in order
  outstanding, committing,   \* of struct log
  pc, wrote,                 \* where a process is; the blocks its operation wrote
  tail,                      \* of write_log() and install_trans()
  need,                      \* sys_sync(): n - log.ncommit
  up,                        \* "up", "recover", "clear" (boot) or "panic"
  dirty, owed                \* history: an ended operation is not durable; a sync() waits for it

disk == <<home, logblk, head>>
ops == <<pc, wrote, need, owed>>
vars == <<home, logblk, head, cache, lh, outstanding, committing, pc, wrote, tail, need, up, dirty, owed>>

Goto(p, l) == pc' = [pc EXCEPT ![p] = l]
At(p, l) == up = "up" /\ pc[p] = l

Contains(s, e) == \E i \in 1 .. Len(s) : s[i] = e

----------------------------------------------------------------------------
(* Operations.  A sleeping process is woken by wakeup(&log) and tests its  *)
(* condition again, so it is one that waits for the condition.             *)

\* begin_op() that does not wait for a commit.
begin_op_nowait(p) ==
  /\ At(p, "idle")
  /\ Len(lh) + (outstanding + 1) * MAXOPBLOCKS <= LOGBLOCKS
  /\ outstanding' = outstanding + 1
  /\ Goto(p, "op")
  /\ UNCHANGED <<disk, cache, lh, committing, wrote, tail, need, up, dirty, owed>>

\* begin_op() that does not wait for log space.
begin_op_nospace(p) ==
  /\ At(p, "idle")
  /\ ~committing
  /\ outstanding' = outstanding + 1
  /\ Goto(p, "op")
  /\ UNCHANGED <<disk, cache, lh, committing, wrote, tail, need, up, dirty, owed>>

begin_op(p) ==
  /\ At(p, "idle")
  /\ ~committing
  /\ Len(lh) + (outstanding + 1) * MAXOPBLOCKS <= LOGBLOCKS
  /\ outstanding' = outstanding + 1
  /\ Goto(p, "op")
  /\ UNCHANGED <<disk, cache, lh, committing, wrote, tail, need, up, dirty, owed>>

\* An operation modifies a block and calls log_write(), which panics when the log is
\* full, absorbs a block that is logged already, and else appends and pins it.
log_write(p, b, x) ==
  /\ At(p, "op") /\ (b \in wrote[p] \/ Cardinality(wrote[p]) < OpBlocks)
  /\ cache' = [cache EXCEPT ![b] = x]
  /\ IF Len(lh) >= LOGBLOCKS
     THEN up' = "panic" /\ UNCHANGED <<lh, wrote>>
     ELSE /\ lh' = IF Contains(lh, b) THEN lh ELSE Append(lh, b)
          /\ wrote' = [wrote EXCEPT ![p] = @ \cup {b}]
          /\ UNCHANGED up
  /\ UNCHANGED <<disk, outstanding, committing, pc, tail, need, dirty, owed>>

\* end_op() up to the release of log.lock: the last one out commits.
end_op(p) ==
  /\ At(p, "op")
  /\ outstanding' = outstanding - 1
  /\ wrote' = [wrote EXCEPT ![p] = {}]
  /\ dirty' = (dirty \/ wrote[p] # {})
  /\ tail' = 1
  /\ IF committing
     THEN up' = "panic" /\ UNCHANGED <<committing, pc>>      \* panic("log.committing")
     ELSE /\ committing' = (outstanding = 1)
          /\ Goto(p, IF outstanding # 1 THEN "idle"
                     ELSE IF lh = <<>> THEN "done" ELSE "write_log")
          /\ UNCHANGED up
  /\ UNCHANGED <<disk, cache, lh, need, owed>>

----------------------------------------------------------------------------
(* commit(), by the process that ended the last operation *)

\* One block of write_log(); it needs a buffer beside the pinned ones.
write_log(p) ==
  /\ At(p, "write_log")
  /\ IF Len(lh) >= NBUF
     THEN up' = "panic" /\ UNCHANGED <<disk, tail, pc>>      \* panic("bget: no buffers")
     ELSE /\ logblk' = [logblk EXCEPT ![tail] = cache[lh[tail]]]
          /\ tail' = IF tail = Len(lh) THEN 1 ELSE tail + 1
          /\ Goto(p, IF tail = Len(lh) THEN "write_head" ELSE "write_log")
          /\ UNCHANGED <<home, head, up>>
  /\ UNCHANGED <<cache, lh, outstanding, committing, wrote, need, dirty, owed>>

\* The home locations before the header.
write_head_late(p) ==
  /\ At(p, "write_head")
  /\ Goto(p, "install")
  /\ UNCHANGED <<disk, cache, lh, outstanding, committing, wrote, tail, need, up, dirty, owed>>

\* write_head() of the log in memory: the commit point.
write_head(p) ==
  /\ At(p, "write_head")
  /\ head' = lh
  /\ dirty' = FALSE
  /\ owed' = [q \in Proc |-> FALSE]
  /\ Goto(p, "install")
  /\ UNCHANGED <<home, logblk, cache, lh, outstanding, committing, wrote, tail, need, up>>

\* One block of install_trans(): through the cached copy, which is unpinned.
install_trans ==
  /\ home' = [home EXCEPT ![lh[tail]] = logblk[tail]]
  /\ cache' = [cache EXCEPT ![lh[tail]] = logblk[tail]]
  /\ tail' = IF tail = Len(lh) THEN 1 ELSE tail + 1

\* commit() that erases the log before the blocks are installed.
Install_erasefirst(p) ==
  /\ At(p, "install")
  /\ install_trans
  /\ head' = <<>>
  /\ Goto(p, IF tail = Len(lh) THEN "erase" ELSE "install")
  /\ UNCHANGED <<logblk, lh, outstanding, committing, wrote, need, up, dirty, owed>>

Install(p) ==
  /\ At(p, "install")
  /\ install_trans
  /\ Goto(p, IF tail = Len(lh) THEN "erase" ELSE "install")
  /\ UNCHANGED <<logblk, head, lh, outstanding, committing, wrote, need, up, dirty, owed>>

\* log.lh.n = 0; write_head()
Erase(p) ==
  /\ At(p, "erase")
  /\ lh' = <<>> /\ head' = <<>>
  /\ Goto(p, "done")
  /\ UNCHANGED <<home, logblk, cache, outstanding, committing, wrote, tail, need, up, dirty, owed>>

\* end_op() that forgets log.ncommit += 1.
CommitDone_nocount(p) ==
  /\ At(p, "done")
  /\ committing' = FALSE
  /\ Goto(p, "idle")
  /\ UNCHANGED <<disk, cache, lh, outstanding, wrote, tail, need, up, dirty, owed>>

\* The end of end_op(): committing = 0, ncommit + 1, wakeup(&log).
CommitDone(p) ==
  /\ At(p, "done")
  /\ committing' = FALSE
  /\ need' = [q \in Proc |-> 0]
  /\ Goto(p, "idle")
  /\ UNCHANGED <<disk, cache, lh, outstanding, wrote, tail, up, dirty, owed>>

----------------------------------------------------------------------------
(* sys_sync() *)

\* sys_sync() that looks at the operations in progress only.
sys_sync_call_hasty(p) ==
  /\ At(p, "idle")
  /\ need' = [need EXCEPT ![p] = IF outstanding > 0 THEN 1 ELSE 0]
  /\ owed' = [owed EXCEPT ![p] = dirty]
  /\ Goto(p, "sync")
  /\ UNCHANGED <<disk, cache, lh, outstanding, committing, wrote, tail, up, dirty>>

sys_sync_call(p) ==
  /\ At(p, "idle")
  /\ need' = [need EXCEPT ![p] = IF committing \/ outstanding > 0 THEN 1 ELSE 0]
  /\ owed' = [owed EXCEPT ![p] = dirty]
  /\ Goto(p, "sync")
  /\ UNCHANGED <<disk, cache, lh, outstanding, committing, wrote, tail, up, dirty>>

\* while (log.ncommit < n) sleep: it returns once a commit has ended.
sys_sync_return(p) ==
  /\ At(p, "sync") /\ need[p] = 0
  /\ Goto(p, "synced")
  /\ UNCHANGED <<disk, cache, lh, outstanding, committing, wrote, tail, need, up, dirty, owed>>

AfterSync(p) ==
  /\ At(p, "synced")
  /\ Goto(p, "idle")
  /\ owed' = [owed EXCEPT ![p] = FALSE]
  /\ UNCHANGED <<disk, cache, lh, outstanding, committing, wrote, tail, need, up, dirty>>

----------------------------------------------------------------------------
(* Crash and recovery *)

\* What a machine that starts on this disk will find: the log over the home blocks.
Recovered ==
  [b \in Block |-> IF Contains(head, b) THEN logblk[CHOOSE i \in 1 .. Len(head) : head[i] = b]
                                        ELSE home[b]]

\* Power fails; the memory is new, initlog() reads the header.
Crash ==
  /\ Crashes
  /\ up' = IF head = <<>> THEN "clear" ELSE "recover"
  /\ lh' = head                           \* read_head()
  /\ cache' = home
  /\ outstanding' = 0 /\ committing' = FALSE /\ tail' = 1
  /\ pc' = [p \in Proc |-> "idle"] /\ wrote' = [p \in Proc |-> {}]
  /\ need' = [p \in Proc |-> 0] /\ owed' = [p \in Proc |-> FALSE] /\ dirty' = FALSE
  /\ UNCHANGED disk

\* install_trans(1)
Recover ==
  /\ up = "recover"
  /\ install_trans
  /\ up' = IF tail = Len(lh) THEN "clear" ELSE "recover"
  /\ UNCHANGED <<logblk, head, lh, outstanding, committing, ops, dirty>>

\* The rest of recover_from_log(): the log is cleared.
RecoverDone ==
  /\ up = "clear"
  /\ lh' = <<>> /\ head' = <<>>
  /\ up' = "up"
  /\ UNCHANGED <<home, logblk, cache, outstanding, committing, ops, tail, dirty>>

----------------------------------------------------------------------------
\* A new file system after recovery.
Init ==
  /\ home \in {[b \in Block |-> x] : x \in Val} /\ cache = home
  /\ logblk = [i \in 1 .. LOGBLOCKS |-> CHOOSE x \in Val : TRUE] /\ head = <<>>
  /\ lh = <<>> /\ outstanding = 0 /\ committing = FALSE /\ tail = 1 /\ up = "up"
  /\ pc = [p \in Proc |-> "idle"] /\ wrote = [p \in Proc |-> {}]
  /\ need = [p \in Proc |-> 0] /\ owed = [p \in Proc |-> FALSE] /\ dirty = FALSE

Op(p) == begin_op(p) \/ end_op(p) \/ \E b \in Block, x \in Val : log_write(p, b, x)
Commit(p) == write_log(p) \/ write_head(p) \/ Install(p) \/ Erase(p) \/ CommitDone(p)
Sync(p) == sys_sync_call(p) \/ sys_sync_return(p) \/ AfterSync(p)

Next ==
  \/ \E p \in Proc : Op(p) \/ Commit(p) \/ Sync(p)
  \/ Crash \/ Recover \/ RecoverDone

Spec == Init /\ [][Next]_vars

\* Operations end, commit() runs to its end, and a process woken from sleep() runs.
FairSpec ==
  /\ Spec
  /\ \A p \in Proc : WF_vars(end_op(p)) /\ WF_vars(Commit(p)) /\ WF_vars(sys_sync_return(p))

----------------------------------------------------------------------------
(* Properties *)

\* Types of the state; log.outstanding counts the operations in progress, and commit()
\* runs only when there is none.
TypeOK ==
  /\ home \in [Block -> Val] /\ cache \in [Block -> Val] /\ logblk \in [1 .. LOGBLOCKS -> Val]
  /\ IsInjective(lh) /\ IsInjective(head) /\ Len(lh) <= LOGBLOCKS
  /\ up \in {"up", "recover", "clear", "panic"}
  /\ up = "up" => outstanding = Cardinality({p \in Proc : pc[p] = "op"})
  /\ up = "up" => (committing <=> \E p \in Proc : pc[p] \notin {"idle", "op", "sync", "synced"})
  /\ committing => outstanding = 0

\* begin_op() reserves enough: with operations that write fewer than MAXOPBLOCKS
\* blocks each, "too big a transaction" in log_write(), "log.committing" in end_op()
\* and "bget: no buffers" in write_log() are unreachable.
NoPanic == up # "panic"

\* When sync() returns, every operation that had ended when it was called is durable.
SyncDurable == \A p \in Proc : At(p, "synced") => ~owed[p]

\* sync() returns, once programs stop starting new operations.
SyncReturns ==
  \A p \in Proc : <>[][~\E q \in Proc : begin_op(q)]_vars => (pc[p] = "sync" ~> pc[p] # "sync")

Disk == INSTANCE AtomicDisk WITH
  view <- IF up \in {"recover", "clear"} THEN Recovered ELSE cache,
  durable <- Recovered,
  active <- outstanding

\* Group commit is atomic: whenever power fails, in a commit or in a recovery, the disk
\* recovers to the contents at a moment with no operation in progress.
LogIsAtomic == Disk!ASpec
=============================================================================
