------------------------------- MODULE Bcache -------------------------------
(***************************************************************************)
(* The buffer cache, kernel/bio.c, with the sleep-locks of its buffers,    *)
(* kernel/sleeplock.c.  A step is what happens under bcache.lock, under    *)
(* the spinlock of a sleep-lock, or while a process holds a buffer.        *)
(***************************************************************************)
EXTENDS Integers, FiniteSets, Sequences, Functions

CONSTANTS
  Proc, None,
  Block, Val,    \* blocks of the disk and what they may contain
  NBUF,          \* buffers (30)
  MaxPinned      \* blocks the log pins at the same time

ASSUME BcacheAssumption ==
  None \notin Proc \cup Block /\ IsFiniteSet(Proc) /\ Val # {} /\ NBUF \in Nat \ {0} /\ MaxPinned \in Nat

Buf == 1 .. NBUF

VARIABLES
  disk,
  blockno, valid, refcnt, data,   \* of struct buf
  lru,          \* the list of buffers, most recently used first
  locked,       \* holder of b->lock
  pinned,       \* buffers that the log has pinned
  pc,           \* "idle", "lock", "asleep", "read", "hold", "rel", "panic"
  want, buf     \* block asked for, and the buffer found for it

list == <<blockno, valid, refcnt, lru>>
vars == <<disk, blockno, valid, refcnt, data, lru, locked, pinned, pc, want, buf>>

Goto(p, l) == pc' = [pc EXCEPT ![p] = l]

----------------------------------------------------------------------------
(* bget() and bread() *)

Cached(b) == {i \in Buf : blockno[i] = b}
Unused == {i \in Buf : refcnt[i] = 0}

\* The first buffer found from the old end of the list, used or not.
Victim_any == {lru[NBUF]}

\* The least recently used of the unused buffers.
Victim == {i \in Unused : \A j \in Unused \ {i} :
             \E m, n \in 1 .. NBUF : lru[m] = j /\ lru[n] = i /\ m < n}

\* bget(): the cached buffer, or else the victim, which loses its content.
bget(p, b) ==
  /\ pc[p] = "idle"
  /\ want' = [want EXCEPT ![p] = b]
  /\ \/ \E i \in Cached(b) :
          /\ refcnt' = [refcnt EXCEPT ![i] = @ + 1]
          /\ buf' = [buf EXCEPT ![p] = i]
          /\ Goto(p, "lock")
          /\ UNCHANGED <<blockno, valid>>
     \/ /\ Cached(b) = {}
        /\ \E i \in Victim :
             /\ blockno' = [blockno EXCEPT ![i] = b]
             /\ valid' = [valid EXCEPT ![i] = FALSE]
             /\ refcnt' = [refcnt EXCEPT ![i] = 1]
             /\ buf' = [buf EXCEPT ![p] = i]
             /\ Goto(p, "lock")
     \/ /\ Cached(b) = {} /\ Unused = {}
        /\ Goto(p, "panic")                        \* "bget: no buffers"
        /\ UNCHANGED <<blockno, valid, refcnt, buf>>
  /\ UNCHANGED <<disk, data, lru, locked, pinned>>

\* acquiresleep(): sleep while somebody holds the buffer.
acquiresleep(p) ==
  /\ pc[p] = "lock"
  /\ IF locked[buf[p]] # None
     THEN Goto(p, "asleep") /\ UNCHANGED locked
     ELSE /\ locked' = [locked EXCEPT ![buf[p]] = p]
          /\ Goto(p, IF valid[buf[p]] THEN "hold" ELSE "read")
  /\ UNCHANGED <<disk, list, data, pinned, want, buf>>

\* The rest of bread(): virtio_disk_rw(b, 0).
bread(p) ==
  /\ pc[p] = "read"
  /\ data' = [data EXCEPT ![buf[p]] = disk[blockno[buf[p]]]]
  /\ valid' = [valid EXCEPT ![buf[p]] = TRUE]
  /\ Goto(p, "hold")
  /\ UNCHANGED <<disk, blockno, refcnt, lru, locked, pinned, want, buf>>

----------------------------------------------------------------------------
(* What the holder of a buffer does *)

\* A change without bpin().
bpin_none(p, x) ==
  /\ pc[p] = "hold"
  /\ data' = [data EXCEPT ![buf[p]] = x]
  /\ UNCHANGED <<disk, list, locked, pinned, pc, want, buf>>

\* A change that goes through log_write(), which pins the buffer once.
bpin(p, x) ==
  /\ pc[p] = "hold" /\ (buf[p] \in pinned \/ Cardinality(pinned) < MaxPinned)
  /\ data' = [data EXCEPT ![buf[p]] = x]
  /\ refcnt' = IF buf[p] \in pinned THEN refcnt ELSE [refcnt EXCEPT ![buf[p]] = @ + 1]
  /\ pinned' = pinned \cup {buf[p]}
  /\ UNCHANGED <<disk, blockno, valid, lru, locked, pc, want, buf>>

\* install_trans() that forgets to drop the log's reference.
bunpin_leak(p) ==
  /\ pc[p] = "hold" /\ buf[p] \in pinned
  /\ disk' = [disk EXCEPT ![blockno[buf[p]]] = data[buf[p]]]
  /\ pinned' = pinned \ {buf[p]}
  /\ UNCHANGED <<list, data, locked, pc, want, buf>>

\* install_trans(): bwrite() and bunpin().
bunpin(p) ==
  /\ pc[p] = "hold" /\ buf[p] \in pinned
  /\ disk' = [disk EXCEPT ![blockno[buf[p]]] = data[buf[p]]]
  /\ refcnt' = [refcnt EXCEPT ![buf[p]] = @ - 1]
  /\ pinned' = pinned \ {buf[p]}
  /\ UNCHANGED <<blockno, valid, data, lru, locked, pc, want, buf>>

\* A change written at once, as the log does with its own blocks.
bwrite(p, x) ==
  /\ pc[p] = "hold" /\ buf[p] \notin pinned
  /\ data' = [data EXCEPT ![buf[p]] = x]
  /\ disk' = [disk EXCEPT ![blockno[buf[p]]] = x]
  /\ UNCHANGED <<list, locked, pinned, pc, want, buf>>

----------------------------------------------------------------------------
(* brelse() *)

\* releasesleep() that wakes nobody.
releasesleep_quiet(p) ==
  /\ pc[p] = "hold"
  /\ locked' = [locked EXCEPT ![buf[p]] = None]
  /\ Goto(p, "rel")
  /\ UNCHANGED <<disk, list, data, pinned, want, buf>>

\* releasesleep(): everybody who sleeps on the lock tries again.
releasesleep(p) ==
  /\ pc[p] = "hold"
  /\ locked' = [locked EXCEPT ![buf[p]] = None]
  /\ pc' = [q \in Proc |-> IF q = p THEN "rel"
                           ELSE IF pc[q] = "asleep" /\ buf[q] = buf[p] THEN "lock" ELSE pc[q]]
  /\ UNCHANGED <<disk, list, data, pinned, want, buf>>

\* The element e of s before the others, which keep their order.
MoveToFront(s, e) ==
  [n \in 1 .. Len(s) |-> IF n = 1 THEN e ELSE IF \E m \in 1 .. n - 1 : s[m] = e THEN s[n] ELSE s[n - 1]]

\* brelse() that forgets the count of a buffer somebody waits for.
brelse_once(p) ==
  /\ pc[p] = "rel"
  /\ refcnt' = [refcnt EXCEPT ![buf[p]] = 0]
  /\ lru' = MoveToFront(lru, buf[p])
  /\ Goto(p, "idle")
  /\ UNCHANGED <<disk, blockno, valid, data, locked, pinned, want, buf>>

\* The count goes down; an unused buffer moves to the front of the list.
brelse(p) ==
  /\ pc[p] = "rel"
  /\ refcnt' = [refcnt EXCEPT ![buf[p]] = @ - 1]
  /\ lru' = IF refcnt[buf[p]] = 1 THEN MoveToFront(lru, buf[p]) ELSE lru
  /\ Goto(p, "idle")
  /\ UNCHANGED <<disk, blockno, valid, data, locked, pinned, want, buf>>

----------------------------------------------------------------------------
\* After binit(), which builds the list back to front; no buffer has a device yet.
Init ==
  /\ disk \in [Block -> Val]
  /\ blockno = [i \in Buf |-> None] /\ valid = [i \in Buf |-> FALSE]
  /\ refcnt = [i \in Buf |-> 0] /\ data = [i \in Buf |-> CHOOSE x \in Val : TRUE]
  /\ lru = [n \in Buf |-> NBUF + 1 - n]
  /\ locked = [i \in Buf |-> None] /\ pinned = {}
  /\ pc = [p \in Proc |-> "idle"] /\ want = [p \in Proc |-> None] /\ buf = [p \in Proc |-> 1]

Release(p) == releasesleep(p) \/ brelse(p)

Next == \E p \in Proc :
  \/ \E b \in Block : bget(p, b)
  \/ acquiresleep(p) \/ bread(p) \/ Release(p)
  \/ bunpin(p) \/ \E x \in Val : bpin(p, x) \/ bwrite(p, x)

Spec == Init /\ [][Next]_vars

\* A process that runs makes progress and gives its buffer back.
FairSpec == Spec /\ \A p \in Proc : WF_vars(acquiresleep(p) \/ bread(p)) /\ WF_vars(Release(p))

----------------------------------------------------------------------------
(* Properties *)

Uses(i) == {p \in Proc : buf[p] = i /\ pc[p] \in {"lock", "asleep", "read", "hold", "rel"}}

\* Types; b->refcnt counts the processes between bget() and the end of brelse(), and
\* the pin of the log.
TypeOK ==
  /\ disk \in [Block -> Val] /\ data \in [Buf -> Val] /\ Range(lru) = Buf /\ Len(lru) = NBUF
  /\ blockno \in [Buf -> Block \cup {None}] /\ locked \in [Buf -> Proc \cup {None}]
  /\ \A i \in Buf : refcnt[i] = Cardinality(Uses(i)) + Cardinality({i} \cap pinned)

\* No block is cached twice, and whoever comes back from bget() has the buffer of the
\* block it asked for, however long it slept in acquiresleep(): the buffer is recycled
\* only while nobody uses it and the log has not pinned it.
OneCopy ==
  /\ \A i, j \in Buf : blockno[i] = blockno[j] /\ blockno[i] # None => i = j
  /\ \A i \in Buf : \A p \in Uses(i) : blockno[i] = want[p]

\* "bget: no buffers" is out of reach while every process uses one buffer at a time and
\* there is one buffer more than the log can pin for each of them.
NoPanic == \A p \in Proc : pc[p] # "panic"

\* A buffer somebody sleeps for is held by somebody, and is handed on: releasesleep()
\* loses no wakeup.
SleeperServed ==
  \A i \in Buf : (\E p \in Proc : pc[p] = "asleep" /\ buf[p] = i)
                   ~> (\E p \in Proc : pc[p] = "hold" /\ buf[p] = i)

Store == INSTANCE BlockStore WITH
  content <- [b \in Block |-> IF \E i \in Buf : blockno[i] = b /\ valid[i]
                              THEN data[CHOOSE i \in Buf : blockno[i] = b /\ valid[i]]
                              ELSE disk[b]],
  holder <- [b \in Block |-> IF \E p \in Proc : pc[p] = "hold" /\ want[p] = b
                             THEN CHOOSE p \in Proc : pc[p] = "hold" /\ want[p] = b
                             ELSE None]

\* The cache is transparent: a change to a block is what the next reader of the block
\* sees, also when the buffer has been recycled in between.
CacheIsStore == Store!StoreSpec
=============================================================================
