----------------------------- MODULE LogProofs -----------------------------
(***************************************************************************)
(* Theorems about Log: for any number of processes, blocks and log blocks, *)
(* group commit is atomic whenever power fails, sync() makes durable what  *)
(* ended before it, and the space that begin_op() reserves is enough.      *)
(***************************************************************************)
EXTENDS Log, FiniteSetTheorems, TLAPS

----------------------------------------------------------------------------
(* The inductive invariant *)

Label == {"idle", "op", "write_log", "write_head", "install", "erase", "done", "sync", "synced"}

\* The process is in commit().
InCommit(p) == pc[p] \in {"write_log", "write_head", "install", "erase", "done"}

OpSet == {p \in Proc : pc[p] = "op"}

Types ==
  /\ home \in [Block -> Val] /\ cache \in [Block -> Val] /\ logblk \in [1 .. LOGBLOCKS -> Val]
  /\ lh \in Seq(Block) /\ IsInjective(lh) /\ Len(lh) <= LOGBLOCKS
  /\ head \in Seq(Block) /\ IsInjective(head) /\ Len(head) <= LOGBLOCKS
  /\ outstanding \in Nat /\ committing \in BOOLEAN /\ tail \in Nat \ {0}
  /\ pc \in [Proc -> Label] /\ wrote \in [Proc -> SUBSET Block]
  /\ need \in [Proc -> {0, 1}] /\ owed \in [Proc -> BOOLEAN] /\ dirty \in BOOLEAN
  /\ up \in {"up", "recover", "clear", "panic"}

\* Who is where: operations and commit() exclude each other, one process commits, and a
\* log that is not being committed belongs to operations in progress.
Control ==
  /\ outstanding = Cardinality(OpSet)
  /\ committing <=> \E p \in Proc : InCommit(p)
  /\ committing => OpSet = {}
  /\ \A p, q \in Proc : InCommit(p) /\ InCommit(q) => p = q
  /\ \A p \in Proc : pc[p] # "op" => wrote[p] = {}
  /\ \A p \in Proc : \A b \in wrote[p] : Contains(lh, b)
  /\ ~committing /\ OpSet = {} => lh = <<>>

\* The log blocks from the first to before n have what the cache has for them.
Copied(n) == \A i \in 1 .. Len(lh) : i < n => logblk[i] = cache[lh[i]]

\* Blocks that are not logged are on the disk as in the cache.
RestHome == \A b \in Block : ~Contains(lh, b) => home[b] = cache[b]

\* What commit() has written to the disk at each of its steps.
CommitOK(p) ==
  /\ pc[p] = "write_log" => tail \in 1 .. Len(lh) /\ Copied(tail)
  /\ pc[p] = "write_head" => tail = 1 /\ lh # <<>> /\ Copied(Len(lh) + 1)
  /\ pc[p] = "install" => /\ head = lh /\ tail \in 1 .. Len(lh) /\ Copied(Len(lh) + 1)
                          /\ \A i \in 1 .. Len(lh) : i < tail => home[lh[i]] = cache[lh[i]]
  /\ pc[p] = "erase" => head = lh /\ Copied(Len(lh) + 1) /\ home = cache
  /\ pc[p] = "done" => lh = <<>>

Running ==
  /\ Control /\ RestHome
  /\ \A p \in Proc : CommitOK(p)
  /\ (\A p \in Proc : pc[p] \notin {"install", "erase"}) => head = <<>>

\* Recovery installs the blocks of the header that initlog() has read.
Booting ==
  /\ lh = head /\ cache = home
  /\ outstanding = 0 /\ ~committing /\ ~dirty
  /\ \A p \in Proc : pc[p] = "idle" /\ wrote[p] = {} /\ ~owed[p]
  /\ up = "recover" => tail \in 1 .. Len(lh) /\ \A i \in 1 .. Len(lh) : i < tail => home[lh[i]] = logblk[i]
  /\ up = "clear" => \A i \in 1 .. Len(lh) : home[lh[i]] = logblk[i]

\* A sync() that waits for an operation has asked for one more commit, and what ended is
\* durable from write_head() on.
SyncOK ==
  /\ \A p \in Proc : owed[p] => dirty /\ pc[p] = "sync" /\ need[p] = 1
  /\ dirty => lh # <<>> /\ \A p \in Proc : pc[p] \notin {"install", "erase", "done"}

IndInv ==
  /\ Types
  /\ up = "up" => Running /\ SyncOK
  /\ up \in {"recover", "clear"} => Booting

\* Pairs of an operation in progress and a block that it wrote.
Pairs(w) == {x \in Proc \X Block : x[2] \in w[x[1]]}
Writes == Pairs(wrote)

\* What begin_op() reserved and the operations have not used is still free, for
\* operations of at most OpBlocks blocks.
Room ==
  /\ \A p \in Proc : IsFiniteSet(wrote[p]) /\ Cardinality(wrote[p]) <= OpBlocks
  /\ Len(lh) + outstanding * MAXOPBLOCKS <= LOGBLOCKS + Cardinality(Writes)
  /\ lh # <<>> => Len(lh) < LOGBLOCKS

----------------------------------------------------------------------------
(* Operations keep the invariant *)

LEMMA OpCount ==
  /\ \A S \in SUBSET Proc : IsFiniteSet(S) /\ Cardinality(S) \in Nat /\ (Cardinality(S) = 0 <=> S = {})
  /\ \A S \in SUBSET Proc : \A p \in Proc \ S : Cardinality(S \cup {p}) = Cardinality(S) + 1
  /\ \A S \in SUBSET Proc : \A p \in S : Cardinality(S \ {p}) = Cardinality(S) - 1
<1>1. \A S \in SUBSET Proc : IsFiniteSet(S)
  BY Zenon, LogAssumption, FS_Subset
<1> QED BY Zenon, <1>1, FS_CardinalityType, FS_EmptySet, FS_AddElement, FS_RemoveElement

\* Nobody commits while operations are in progress.
LEMMA OpAlone ==
  ASSUME Control, NEW p \in Proc, pc[p] = "op"
  PROVE  ~committing /\ outstanding > 0 /\ \A q \in Proc : ~InCommit(q)
<1>1. p \in OpSet /\ OpSet \in SUBSET Proc
  BY Zenon DEF OpSet
<1>2. ~committing
  BY Zenon, <1>1 DEF Control
<1>3. outstanding > 0
  BY <1>1, OpCount DEF Control
<1> QED BY Zenon, <1>2, <1>3 DEF Control

\* A step that changes no block, no log and no place in commit().
LEMMA SameCommit ==
  ASSUME Running, UNCHANGED <<home, logblk, head, cache, lh>>,
         \A q \in Proc : InCommit(q)' => pc'[q] = pc[q] /\ tail' = tail,
         (\E q \in Proc : pc[q] \in {"install", "erase"}) => \E q \in Proc : pc'[q] \in {"install", "erase"}
  PROVE  RestHome' /\ (\A q \in Proc : CommitOK(q)')
         /\ ((\A q \in Proc : pc'[q] \notin {"install", "erase"}) => head' = <<>>)
<1>1. RestHome'
  BY Zenon DEF Running, RestHome
<1>2. ASSUME NEW q \in Proc PROVE CommitOK(q)'
  <2>1. CASE InCommit(q)'
    BY Zenon, <2>1 DEF Running, CommitOK, Copied
  <2>2. CASE ~InCommit(q)'
    BY Zenon, <2>2 DEF CommitOK, InCommit
  <2> QED BY Zenon, <2>1, <2>2
<1> QED BY Zenon, <1>1, <1>2 DEF Running

LEMMA BeginInd == ASSUME IndInv, NEW p \in Proc, begin_op(p) PROVE IndInv'
<1>1. /\ Types /\ Running /\ Control /\ SyncOK /\ up = "up" /\ up' = up /\ pc[p] = "idle" /\ ~committing /\ committing' = committing
      /\ UNCHANGED <<home, logblk, head, cache, lh, wrote, need, owed, dirty, tail>>
      /\ outstanding' = outstanding + 1 /\ pc' = [pc EXCEPT ![p] = "op"]
  BY Zenon DEF IndInv, Running, begin_op, At, Goto, disk
<1>2. Types'
  <2>1. pc' \in [Proc -> Label]
    BY Zenon, <1>1 DEF Types, Label
  <2> QED BY <1>1, <2>1 DEF Types
<1>3. \A q \in Proc : pc'[q] = IF q = p THEN "op" ELSE pc[q]
  BY Zenon, <1>1 DEF Types
<1>4. \A q \in Proc : ~InCommit(q) /\ ~InCommit(q)'
  BY <1>1, <1>3 DEF Control, InCommit
<1>5. Control'
  <2>1. OpSet' = OpSet \cup {p} /\ p \notin OpSet /\ OpSet \in SUBSET Proc
    BY Zenon, <1>1, <1>3 DEF OpSet
  <2>2. outstanding' = Cardinality(OpSet')
    BY Zenon, <1>1, <2>1, OpCount DEF Control
  <2>3. \A q \in Proc : (pc'[q] # "op" => wrote'[q] = {}) /\ \A b \in wrote'[q] : Contains(lh', b)
    BY Zenon, <1>1, <1>3 DEF Control
  <2> QED BY Zenon, <1>1, <1>4, <2>1, <2>2, <2>3 DEF Control
<1>6. Running'
  BY Zenon, <1>1, <1>3, <1>4, <1>5, SameCommit DEF Running, InCommit
<1>7. SyncOK'
  BY <1>1, <1>3 DEF SyncOK
<1> QED BY Zenon, <1>1, <1>2, <1>6, <1>7 DEF IndInv

\* log_write() adds a block to log.lh unless it is there.
LEMMA AddBlock ==
  ASSUME NEW s \in Seq(Block), IsInjective(s), NEW b \in Block,
         NEW t, t = IF Contains(s, b) THEN s ELSE Append(s, b)
  PROVE  /\ t \in Seq(Block) /\ IsInjective(t) /\ t # <<>> /\ Len(t) <= Len(s) + 1 /\ Len(t) >= Len(s)
         /\ \A c : Contains(t, c) <=> Contains(s, c) \/ c = b
<1>1. CASE Contains(s, b)
  <2>1. t = s
    BY Zenon, <1>1
  <2> QED BY <1>1, <2>1 DEF Contains
<1>2. CASE ~Contains(s, b)
  <2>1. t = Append(s, b)
    BY Zenon, <1>2
  <2>2. t \in Seq(Block) /\ Len(t) = Len(s) + 1 /\ t[Len(s) + 1] = b /\ \A i \in 1 .. Len(s) : t[i] = s[i]
    BY <2>1
  <2>3. \A i \in 1 .. Len(t) : i \in 1 .. Len(s) \/ i = Len(s) + 1
    BY <2>2
  <2>4. IsInjective(t)
    <3> SUFFICES ASSUME NEW i \in 1 .. Len(t), NEW j \in 1 .. Len(t), t[i] = t[j] PROVE i = j
      BY <2>2 DEF IsInjective
    <3>1. CASE i \in 1 .. Len(s) /\ j \in 1 .. Len(s)
      BY <2>2, <3>1 DEF IsInjective
    <3>2. CASE i = Len(s) + 1 /\ j = Len(s) + 1
      BY Zenon, <3>2
    <3>3. CASE i \in 1 .. Len(s) /\ j = Len(s) + 1
      BY Zenon, <1>2, <2>2, <3>3 DEF Contains
    <3>4. CASE j \in 1 .. Len(s) /\ i = Len(s) + 1
      BY Zenon, <1>2, <2>2, <3>4 DEF Contains
    <3> QED BY Zenon, <2>3, <3>1, <3>2, <3>3, <3>4
  <2>5. ASSUME NEW c PROVE Contains(t, c) <=> Contains(s, c) \/ c = b
    <3>1. Len(s) + 1 \in 1 .. Len(t) /\ \A i \in 1 .. Len(s) : i \in 1 .. Len(t)
      BY <2>2
    <3> QED BY Zenon, <2>2, <2>3, <3>1 DEF Contains
  <2> QED BY <2>2, <2>4, <2>5
<1> QED BY Zenon, <1>1, <1>2

LEMMA WriteInd ==
  ASSUME IndInv, NEW p \in Proc, NEW b \in Block, NEW x \in Val, log_write(p, b, x) PROVE IndInv'
<1>1. /\ Types /\ Running /\ Control /\ SyncOK /\ up = "up" /\ pc[p] = "op"
      /\ UNCHANGED <<home, logblk, head, outstanding, committing, pc, tail, need, owed, dirty>>
      /\ cache' = [cache EXCEPT ![b] = x]
  BY Zenon DEF IndInv, Running, log_write, At, disk
<1>2. cache' \in [Block -> Val] /\ \A c \in Block : c # b => cache'[c] = cache[c]
  BY Zenon, <1>1 DEF Types
<1>3. CASE up' = "panic" /\ UNCHANGED <<lh, wrote>>
  <2>1. Types'
    BY Zenon, <1>1, <1>2, <1>3 DEF Types
  <2> QED BY Zenon, <1>3, <2>1 DEF IndInv
<1>4. CASE /\ Len(lh) < LOGBLOCKS /\ lh' = (IF Contains(lh, b) THEN lh ELSE Append(lh, b))
           /\ wrote' = [wrote EXCEPT ![p] = @ \cup {b}] /\ up' = up
  <2>1. /\ lh' \in Seq(Block) /\ IsInjective(lh') /\ lh' # <<>> /\ Len(lh') <= LOGBLOCKS
        /\ \A c : Contains(lh', c) <=> Contains(lh, c) \/ c = b
    <3>1. lh \in Seq(Block) /\ IsInjective(lh) /\ LOGBLOCKS \in Nat
      BY Zenon, <1>1, LogAssumption DEF Types
    <3>2. /\ lh' \in Seq(Block) /\ IsInjective(lh') /\ lh' # <<>> /\ Len(lh') <= Len(lh) + 1
          /\ \A c : Contains(lh', c) <=> Contains(lh, c) \/ c = b
      BY Zenon, <1>4, <3>1, AddBlock
    <3> QED BY <1>4, <3>1, <3>2
  <2>2. wrote' \in [Proc -> SUBSET Block] /\ \A q \in Proc : wrote'[q] = IF q = p THEN wrote[q] \cup {b} ELSE wrote[q]
    BY Zenon, <1>1, <1>4 DEF Types
  <2>3. Types'
    BY Zenon, <1>1, <1>2, <1>4, <2>1, <2>2 DEF Types
  <2>4. \A q \in Proc : ~InCommit(q) /\ ~InCommit(q)'
    BY Zenon, <1>1, OpAlone DEF InCommit
  <2>5. Control'
    <3>1. OpSet' = OpSet /\ p \in OpSet
      BY Zenon, <1>1 DEF OpSet
    <3>2. \A q \in Proc : (pc'[q] # "op" => wrote'[q] = {}) /\ \A c \in wrote'[q] : Contains(lh', c)
      BY Zenon, <1>1, <2>1, <2>2 DEF Control
    <3> QED BY Zenon, <1>1, <2>4, <3>1, <3>2 DEF Control
  <2>6. RestHome'
    BY Zenon, <1>1, <1>2, <2>1 DEF Running, RestHome
  <2>7. \A q \in Proc : CommitOK(q)'
    BY Zenon, <2>4 DEF CommitOK, InCommit
  <2>8. head' = <<>>
    BY Zenon, <1>1, <2>4 DEF Running, InCommit
  <2>9. SyncOK'
    BY Zenon, <1>1, <2>1 DEF SyncOK
  <2> QED BY Zenon, <1>1, <1>4, <2>3, <2>5, <2>6, <2>7, <2>8, <2>9 DEF IndInv, Running
<1>5. (up' = "panic" /\ UNCHANGED <<lh, wrote>>) \/
      (/\ ~(Len(lh) >= LOGBLOCKS) /\ lh' = (IF Contains(lh, b) THEN lh ELSE Append(lh, b))
       /\ wrote' = [wrote EXCEPT ![p] = @ \cup {b}] /\ up' = up)
  BY Zenon DEF log_write
<1>6. ~(Len(lh) >= LOGBLOCKS) => Len(lh) < LOGBLOCKS
  BY <1>1, LogAssumption DEF Types
<1> QED BY Zenon, <1>3, <1>4, <1>5, <1>6

LEMMA EndInd == ASSUME IndInv, NEW p \in Proc, end_op(p) PROVE IndInv'
<1>1. /\ Types /\ Running /\ Control /\ SyncOK /\ up = "up" /\ pc[p] = "op" /\ tail' = 1
      /\ UNCHANGED <<home, logblk, head, cache, lh, need, owed>>
      /\ outstanding' = outstanding - 1 /\ wrote' = [wrote EXCEPT ![p] = {}] /\ dirty' = (dirty \/ wrote[p] # {})
  BY Zenon DEF IndInv, Running, end_op, At, disk
<1>2. ~committing /\ outstanding > 0 /\ \A q \in Proc : ~InCommit(q)
  BY Zenon, <1>1, OpAlone
<1> DEFINE l == IF outstanding # 1 THEN "idle" ELSE IF lh = <<>> THEN "done" ELSE "write_log"
<1>3. up' = up /\ (committing' <=> outstanding = 1) /\ committing' \in BOOLEAN /\ pc' = [pc EXCEPT ![p] = l]
  BY Zenon, <1>2 DEF end_op, Goto
<1>4. l \in {"idle", "done", "write_log"}
  OBVIOUS
<1>5. \A q \in Proc : pc'[q] = (IF q = p THEN l ELSE pc[q]) /\ wrote'[q] = (IF q = p THEN {} ELSE wrote[q])
  BY Zenon, <1>1, <1>3 DEF Types
<1>6. Types'
  <2>1. pc' \in [Proc -> Label]
    BY Zenon, <1>1, <1>3 DEF Types, Label
  <2>2. outstanding' \in Nat /\ dirty' \in BOOLEAN /\ wrote' \in [Proc -> SUBSET Block]
    BY <1>1, <1>2 DEF Types
  <2> QED BY <1>1, <1>3, <2>1, <2>2 DEF Types
<1>7. OpSet' = OpSet \ {p} /\ p \in OpSet /\ OpSet \in SUBSET Proc
  BY Zenon, <1>1, <1>5, <1>4 DEF OpSet
<1>8. outstanding' = Cardinality(OpSet') /\ (outstanding = 1 <=> OpSet' = {})
  <2>1. outstanding = Cardinality(OpSet) /\ Cardinality(OpSet) \in Nat
    BY Zenon, <1>1, <1>7, OpCount DEF Control
  <2>2. Cardinality(OpSet') = Cardinality(OpSet) - 1 /\ (Cardinality(OpSet') = 0 <=> OpSet' = {})
    BY Zenon, <1>7, OpCount
  <2> QED BY <1>1, <2>1, <2>2
<1>9. \A q \in Proc : InCommit(q)' <=> q = p /\ outstanding = 1
  BY Zenon, <1>2, <1>5 DEF InCommit
<1>10. Control'
  <2>1. \A q \in Proc : (pc'[q] # "op" => wrote'[q] = {}) /\ \A c \in wrote'[q] : Contains(lh', c)
    BY <1>1, <1>5 DEF Control
  <2> QED BY Zenon, <1>1, <1>3, <1>8, <1>9, <2>1 DEF Control
<1>11. RestHome' /\ head' = <<>>
  BY Zenon, <1>1, <1>2 DEF Running, RestHome, InCommit
<1>12. \A q \in Proc : CommitOK(q)'
  <2>1. \A q \in Proc : q # p => CommitOK(q)'
    BY Zenon, <1>9 DEF CommitOK, InCommit
  <2>2. CommitOK(p)'
    <3>1. lh # <<>> => tail' \in 1 .. Len(lh') /\ Copied(tail)'
      BY <1>1 DEF Types, Copied
    <3>2. pc'[p] = l
      BY Zenon, <1>5
    <3> QED BY Zenon, <1>1, <3>1, <3>2 DEF CommitOK
  <2> QED BY Zenon, <2>1, <2>2
<1>13. SyncOK'
  <2>1. lh = <<>> => ~dirty /\ wrote[p] = {}
    <3>1. lh = <<>> => \A c : ~Contains(lh, c)
      BY DEF Contains
    <3> QED BY Zenon, <1>1, <3>1 DEF SyncOK, Control
  <2>2. \A q \in Proc : owed'[q] => dirty' /\ pc'[q] = "sync" /\ need'[q] = 1
    BY Zenon, <1>1, <1>5 DEF SyncOK
  <2>3. dirty' => lh' # <<>> /\ \A q \in Proc : pc'[q] \notin {"install", "erase", "done"}
    BY Zenon, <1>1, <1>2, <1>5, <2>1 DEF InCommit
  <2> QED BY Zenon, <2>2, <2>3 DEF SyncOK
<1> QED BY Zenon, <1>1, <1>3, <1>6, <1>10, <1>11, <1>12, <1>13 DEF IndInv, Running

----------------------------------------------------------------------------
(* commit() keeps the invariant *)

\* A step of the one process in commit() to another place in commit().
LEMMA CommitMoves ==
  ASSUME Types, Control, NEW p \in Proc, InCommit(p),
         NEW l \in {"write_log", "write_head", "install", "erase", "done"}, pc' = [pc EXCEPT ![p] = l],
         UNCHANGED <<outstanding, committing, wrote>>
  PROVE  /\ Control' /\ pc' \in [Proc -> Label] /\ pc'[p] = l
         /\ \A q \in Proc : q # p => pc'[q] = pc[q] /\ ~InCommit(q) /\ CommitOK(q)'
<1>1. pc' \in [Proc -> Label] /\ \A q \in Proc : pc'[q] = IF q = p THEN l ELSE pc[q]
  BY Zenon DEF Types, Label
<1>2. \A q \in Proc : (InCommit(q) <=> q = p) /\ (InCommit(q)' <=> q = p)
  BY Zenon, <1>1 DEF Control, InCommit
<1>3. OpSet' = OpSet /\ OpSet = {} /\ committing
  BY Zenon, <1>1, <1>2 DEF Control, OpSet, InCommit
<1>4. \A q \in Proc : wrote'[q] = {}
  BY Zenon, <1>3 DEF Control, OpSet
<1>5. Control'
  BY Zenon, <1>2, <1>3, <1>4 DEF Control
<1>6. \A q \in Proc : q # p => CommitOK(q)'
  BY Zenon, <1>2 DEF CommitOK, InCommit
<1> QED BY Zenon, <1>1, <1>2, <1>5, <1>6

LEMMA WriteLogInd == ASSUME IndInv, NEW p \in Proc, write_log(p) PROVE IndInv'
<1>1. /\ Types /\ Running /\ Control /\ SyncOK /\ up = "up" /\ pc[p] = "write_log" /\ InCommit(p) /\ CommitOK(p)
      /\ UNCHANGED <<cache, lh, outstanding, committing, wrote, need, dirty, owed>>
  BY Zenon DEF IndInv, Running, write_log, At, InCommit
<1>2. CASE up' = "panic" /\ UNCHANGED <<home, logblk, head, tail, pc>>
  BY Zenon, <1>1, <1>2 DEF IndInv, Types
<1>3. CASE /\ logblk' = [logblk EXCEPT ![tail] = cache[lh[tail]]]
           /\ tail' = (IF tail = Len(lh) THEN 1 ELSE tail + 1)
           /\ pc' = [pc EXCEPT ![p] = IF tail = Len(lh) THEN "write_head" ELSE "write_log"]
           /\ UNCHANGED <<home, head, up>>
  <2> DEFINE l == IF tail = Len(lh) THEN "write_head" ELSE "write_log"
  <2>1. /\ Control' /\ pc' \in [Proc -> Label] /\ pc'[p] = l
        /\ \A q \in Proc : q # p => pc'[q] = pc[q] /\ ~InCommit(q) /\ CommitOK(q)'
    BY Zenon, <1>1, <1>3, CommitMoves
  <2>2. /\ tail \in 1 .. Len(lh) /\ Len(lh) \in Nat /\ Copied(tail) /\ lh[tail] \in Block /\ tail \in 1 .. LOGBLOCKS
    BY <1>1, LogAssumption DEF CommitOK, Types
  <2>3. logblk' \in [1 .. LOGBLOCKS -> Val] /\ \A i \in 1 .. LOGBLOCKS : logblk'[i] = IF i = tail THEN cache[lh[tail]] ELSE logblk[i]
    BY Zenon, <1>1, <1>3, <2>2 DEF Types
  <2>4. Types'
    <3>1. tail' \in Nat \ {0}
      BY <1>3, <2>2
    <3> QED BY Zenon, <1>1, <1>3, <2>1, <2>3, <3>1 DEF Types
  <2>5. \A i \in 1 .. Len(lh) : i < tail + 1 => logblk'[i] = cache'[lh'[i]]
    <3>1. \A i \in 1 .. Len(lh) : i < tail + 1 => i = tail \/ i < tail
      BY <2>2
    <3>2. \A i \in 1 .. Len(lh) : i \in 1 .. LOGBLOCKS
      BY <1>1, LogAssumption DEF Types
    <3> QED BY Zenon, <1>1, <2>2, <2>3, <3>1, <3>2 DEF Copied
  <2>6. CommitOK(p)'
    <3>1. CASE tail = Len(lh)
      <4>1. pc'[p] = "write_head" /\ tail' = 1 /\ lh' # <<>> /\ Copied(Len(lh) + 1)'
        BY <1>1, <1>3, <2>1, <2>2, <2>5, <3>1 DEF Copied
      <4> QED BY Zenon, <1>1, <4>1 DEF CommitOK
    <3>2. CASE tail # Len(lh)
      <4>1. pc'[p] = "write_log" /\ tail' = tail + 1 /\ tail' \in 1 .. Len(lh') /\ Copied(tail)'
        BY <1>1, <1>3, <2>1, <2>2, <2>5, <3>2 DEF Copied
      <4> QED BY Zenon, <4>1 DEF CommitOK
    <3> QED BY Zenon, <3>1, <3>2
  <2>7. RestHome' /\ head' = <<>>
    <3>1. \A q \in Proc : pc[q] \notin {"install", "erase"}
      BY Zenon, <1>1, <2>1 DEF InCommit
    <3> QED BY Zenon, <1>1, <1>3, <3>1 DEF Running, RestHome
  <2>8. SyncOK'
    <3>1. \A q \in Proc : pc'[q] = "sync" <=> pc[q] = "sync"
      BY Zenon, <1>1, <2>1
    <3>2. \A q \in Proc : pc'[q] \notin {"install", "erase", "done"}
      BY Zenon, <2>1 DEF InCommit
    <3> QED BY Zenon, <1>1, <3>1, <3>2 DEF SyncOK
  <2>9. \A q \in Proc : CommitOK(q)'
    BY Zenon, <2>1, <2>6
  <2> QED BY Zenon, <1>1, <1>3, <2>1, <2>4, <2>7, <2>8, <2>9 DEF IndInv, Running
<1> QED BY Zenon, <1>2, <1>3 DEF write_log, Goto, disk

LEMMA WriteHeadInd == ASSUME IndInv, NEW p \in Proc, write_head(p) PROVE IndInv'
<1>1. /\ Types /\ Running /\ Control /\ SyncOK /\ up = "up" /\ up' = up /\ pc[p] = "write_head" /\ InCommit(p) /\ CommitOK(p)
      /\ UNCHANGED <<home, logblk, cache, lh, outstanding, committing, wrote, need, tail>>
      /\ head' = lh /\ dirty' = FALSE /\ owed' = [q \in Proc |-> FALSE] /\ pc' = [pc EXCEPT ![p] = "install"]
  BY Zenon DEF IndInv, Running, write_head, At, Goto, InCommit
<1>2. /\ Control' /\ pc' \in [Proc -> Label] /\ pc'[p] = "install"
      /\ \A q \in Proc : q # p => pc'[q] = pc[q] /\ ~InCommit(q) /\ CommitOK(q)'
  BY Zenon, <1>1, CommitMoves
<1>3. Types'
  BY Zenon, <1>1, <1>2 DEF Types
<1>4. CommitOK(p)'
  <2>1. tail' \in 1 .. Len(lh') /\ tail' = 1
    BY <1>1 DEF CommitOK, Types
  <2>2. \A i \in 1 .. Len(lh') : ~(i < tail')
    BY <1>1, <2>1 DEF Types
  <2> QED BY Zenon, <1>1, <1>2, <2>1, <2>2 DEF CommitOK, Copied
<1>5. RestHome'
  BY Zenon, <1>1 DEF Running, RestHome
<1>6. SyncOK'
  BY Zenon, <1>1 DEF SyncOK
<1> QED BY Zenon, <1>1, <1>2, <1>3, <1>4, <1>5, <1>6 DEF IndInv, Running

\* One block of install_trans(), in commit() or in recovery.
LEMMA InstallStep ==
  ASSUME Types, install_trans, tail \in 1 .. Len(lh)
  PROVE  /\ home' \in [Block -> Val] /\ cache' \in [Block -> Val] /\ tail' \in Nat \ {0} /\ lh[tail] \in Block
         /\ \A b \in Block : home'[b] = IF b = lh[tail] THEN logblk[tail] ELSE home[b]
         /\ \A b \in Block : cache'[b] = IF b = lh[tail] THEN logblk[tail] ELSE cache[b]
         /\ \A i \in 1 .. Len(lh) : lh[i] \in Block /\ (lh[i] = lh[tail] => i = tail)
         /\ tail # Len(lh) => tail' = tail + 1 /\ tail' \in 1 .. Len(lh)
         /\ \A i \in 1 .. Len(lh) : i < tail + 1 <=> i < tail \/ i = tail
<1>1. lh \in Seq(Block) /\ Len(lh) \in Nat /\ tail \in 1 .. LOGBLOCKS
  BY LogAssumption DEF Types
<1>2. lh[tail] \in Block /\ logblk[tail] \in Val
  BY <1>1 DEF Types
<1>3. /\ home' \in [Block -> Val] /\ cache' \in [Block -> Val]
      /\ \A b \in Block : home'[b] = IF b = lh[tail] THEN logblk[tail] ELSE home[b]
      /\ \A b \in Block : cache'[b] = IF b = lh[tail] THEN logblk[tail] ELSE cache[b]
  BY Zenon, <1>2 DEF install_trans, Types
<1>4. \A i \in 1 .. Len(lh) : lh[i] \in Block /\ (lh[i] = lh[tail] => i = tail)
  BY <1>1 DEF Types, IsInjective
<1>5. tail' \in Nat \ {0} /\ (tail # Len(lh) => tail' = tail + 1 /\ tail' \in 1 .. Len(lh))
  BY <1>1 DEF install_trans
<1>6. \A i \in 1 .. Len(lh) : i < tail + 1 <=> i < tail \/ i = tail
  BY <1>1
<1> QED BY Zenon, <1>2, <1>3, <1>4, <1>5, <1>6

LEMMA InstallInd == ASSUME IndInv, NEW p \in Proc, Install(p) PROVE IndInv'
<1> DEFINE l == IF tail = Len(lh) THEN "erase" ELSE "install"
<1>1. /\ Types /\ Running /\ Control /\ SyncOK /\ up = "up" /\ up' = up /\ pc[p] = "install" /\ InCommit(p) /\ CommitOK(p)
      /\ UNCHANGED <<logblk, head, lh, outstanding, committing, wrote, need, dirty, owed>>
      /\ install_trans /\ pc' = [pc EXCEPT ![p] = l] /\ l \in {"erase", "install"}
  BY Zenon DEF IndInv, Running, Install, At, Goto, InCommit
<1>2. /\ Control' /\ pc' \in [Proc -> Label] /\ pc'[p] = l
      /\ \A q \in Proc : q # p => pc'[q] = pc[q] /\ ~InCommit(q) /\ CommitOK(q)'
  BY Zenon, <1>1, CommitMoves
<1>3. /\ tail \in 1 .. Len(lh) /\ head = lh /\ Copied(Len(lh) + 1)
      /\ \A i \in 1 .. Len(lh) : i < tail => home[lh[i]] = cache[lh[i]]
  BY Zenon, <1>1 DEF CommitOK
<1>4. /\ home' \in [Block -> Val] /\ cache' \in [Block -> Val] /\ tail' \in Nat \ {0} /\ lh[tail] \in Block
      /\ \A b \in Block : home'[b] = IF b = lh[tail] THEN logblk[tail] ELSE home[b]
      /\ \A b \in Block : cache'[b] = IF b = lh[tail] THEN logblk[tail] ELSE cache[b]
      /\ \A i \in 1 .. Len(lh) : lh[i] \in Block /\ (lh[i] = lh[tail] => i = tail)
      /\ tail # Len(lh) => tail' = tail + 1 /\ tail' \in 1 .. Len(lh)
      /\ \A i \in 1 .. Len(lh) : i < tail + 1 <=> i < tail \/ i = tail
  BY Zenon, <1>1, <1>3, InstallStep
<1>5. logblk[tail] = cache[lh[tail]]
  BY <1>1, <1>3 DEF Copied, Types
<1>6. cache' = cache
  BY <1>1, <1>4, <1>5 DEF Types
<1>7. Types'
  BY Zenon, <1>1, <1>2, <1>4 DEF Types
<1>8. \A i \in 1 .. Len(lh) : i < tail + 1 => home'[lh[i]] = cache[lh[i]]
  BY Zenon, <1>3, <1>4, <1>5
<1>9. RestHome'
  <2>1. Contains(lh, lh[tail])
    BY Zenon, <1>3 DEF Contains
  <2> QED BY Zenon, <1>1, <1>4, <1>6, <2>1 DEF Running, RestHome
<1>10. CommitOK(p)'
  <2>1. Copied(Len(lh) + 1)'
    BY Zenon, <1>1, <1>3, <1>6 DEF Copied
  <2>2. CASE tail = Len(lh)
    <3>1. \A b \in Block : home'[b] = cache'[b]
      <4>1. ASSUME NEW b \in Block, NEW i \in 1 .. Len(lh), lh[i] = b PROVE home'[b] = cache'[b]
        <5>1. i < tail + 1
          BY <1>1, <2>2 DEF Types
        <5> QED BY Zenon, <1>6, <1>8, <4>1, <5>1
      <4>2. ASSUME NEW b \in Block, ~Contains(lh, b) PROVE home'[b] = cache'[b]
        BY Zenon, <1>1, <1>9, <4>2 DEF RestHome
      <4> QED BY Zenon, <4>1, <4>2 DEF Contains
    <3>2. home' = cache'
      BY <1>4, <3>1
    <3> QED BY Zenon, <1>1, <1>2, <1>3, <2>1, <2>2, <3>2 DEF CommitOK
  <2>3. CASE tail # Len(lh)
    <3>1. \A i \in 1 .. Len(lh) : i < tail' => home'[lh[i]] = cache'[lh[i]]
      BY Zenon, <1>4, <1>6, <1>8, <2>3
    <3> QED BY Zenon, <1>1, <1>2, <1>3, <1>4, <2>1, <2>3, <3>1 DEF CommitOK
  <2> QED BY Zenon, <2>2, <2>3
<1>11. SyncOK'
  <2>1. ~dirty
    BY Zenon, <1>1 DEF SyncOK
  <2> QED BY Zenon, <1>1, <2>1 DEF SyncOK
<1>12. \A q \in Proc : CommitOK(q)'
  BY Zenon, <1>2, <1>10
<1> QED BY Zenon, <1>1, <1>2, <1>7, <1>9, <1>11, <1>12 DEF IndInv, Running

LEMMA EraseInd == ASSUME IndInv, NEW p \in Proc, Erase(p) PROVE IndInv'
<1>1. /\ Types /\ Running /\ Control /\ SyncOK /\ up = "up" /\ up' = up /\ pc[p] = "erase" /\ InCommit(p) /\ CommitOK(p)
      /\ UNCHANGED <<home, logblk, cache, outstanding, committing, wrote, need, dirty, owed, tail>>
      /\ lh' = <<>> /\ head' = <<>> /\ pc' = [pc EXCEPT ![p] = "done"]
  BY Zenon DEF IndInv, Running, Erase, At, Goto, InCommit
<1>2. /\ Control' /\ pc' \in [Proc -> Label] /\ pc'[p] = "done"
      /\ \A q \in Proc : q # p => pc'[q] = pc[q] /\ ~InCommit(q) /\ CommitOK(q)'
  BY Zenon, <1>1, CommitMoves
<1>3. Types'
  <2>1. lh' \in Seq(Block) /\ IsInjective(lh') /\ Len(lh') <= LOGBLOCKS
    BY <1>1, LogAssumption DEF IsInjective
  <2> QED BY Zenon, <1>1, <1>2, <2>1 DEF Types
<1>4. RestHome'
  BY Zenon, <1>1 DEF CommitOK, RestHome
<1>5. \A q \in Proc : CommitOK(q)'
  BY Zenon, <1>1, <1>2 DEF CommitOK
<1>6. SyncOK'
  BY Zenon, <1>1 DEF SyncOK
<1> QED BY Zenon, <1>1, <1>2, <1>3, <1>4, <1>5, <1>6 DEF IndInv, Running

LEMMA CommitDoneInd == ASSUME IndInv, NEW p \in Proc, CommitDone(p) PROVE IndInv'
<1>1. /\ Types /\ Running /\ Control /\ SyncOK /\ up = "up" /\ up' = up /\ pc[p] = "done" /\ InCommit(p) /\ CommitOK(p)
      /\ UNCHANGED <<home, logblk, head, cache, lh, outstanding, wrote, tail, dirty, owed>>
      /\ committing' = FALSE /\ need' = [q \in Proc |-> 0] /\ pc' = [pc EXCEPT ![p] = "idle"]
  BY Zenon DEF IndInv, Running, CommitDone, At, Goto, InCommit, disk
<1>2. lh = <<>> /\ ~dirty /\ \A q \in Proc : ~owed[q]
  BY Zenon, <1>1 DEF CommitOK, SyncOK
<1>3. pc' \in [Proc -> Label] /\ \A q \in Proc : pc'[q] = IF q = p THEN "idle" ELSE pc[q]
  BY Zenon, <1>1 DEF Types, Label
<1>4. \A q \in Proc : (InCommit(q) <=> q = p) /\ ~InCommit(q)'
  BY Zenon, <1>1, <1>3 DEF Control, InCommit
<1>5. Types'
  <2>1. need' \in [Proc -> {0, 1}]
    BY Zenon, <1>1
  <2> QED BY Zenon, <1>1, <1>3, <2>1 DEF Types
<1>6. Control'
  <2>1. OpSet' = OpSet /\ OpSet = {} /\ committing
    BY Zenon, <1>1, <1>3, <1>4 DEF Control, OpSet
  <2>2. \A q \in Proc : wrote'[q] = {}
    BY Zenon, <1>1, <2>1 DEF Control, OpSet
  <2> QED BY Zenon, <1>1, <1>2, <1>4, <2>1, <2>2 DEF Control
<1>7. RestHome' /\ (\A q \in Proc : CommitOK(q)')
      /\ ((\A q \in Proc : pc'[q] \notin {"install", "erase"}) => head' = <<>>)
  <2>1. (\E q \in Proc : pc[q] \in {"install", "erase"}) => \E q \in Proc : pc'[q] \in {"install", "erase"}
    BY Zenon, <1>1, <1>4 DEF InCommit
  <2> QED BY Zenon, <1>1, <1>4, <2>1, SameCommit
<1>8. SyncOK'
  BY Zenon, <1>1, <1>2 DEF SyncOK
<1> QED BY Zenon, <1>1, <1>5, <1>6, <1>7, <1>8 DEF IndInv, Running

----------------------------------------------------------------------------
(* sync() keeps the invariant *)

\* A step of a process that is in no operation and not in commit().
LEMMA Bystander ==
  ASSUME Types, Running, NEW p \in Proc, pc[p] \in {"idle", "sync", "synced"},
         NEW l \in {"idle", "sync", "synced"}, pc' = [pc EXCEPT ![p] = l],
         UNCHANGED <<home, logblk, head, cache, lh, outstanding, committing, wrote, tail>>
  PROVE  /\ Running' /\ pc' \in [Proc -> Label]
         /\ \A q \in Proc : pc'[q] = IF q = p THEN l ELSE pc[q]
<1>1. pc' \in [Proc -> Label] /\ \A q \in Proc : pc'[q] = IF q = p THEN l ELSE pc[q]
  BY Zenon DEF Types, Label
<1>2. \A q \in Proc : (InCommit(q)' <=> InCommit(q)) /\ (InCommit(q)' => pc'[q] = pc[q])
  BY Zenon, <1>1 DEF InCommit
<1>3. OpSet' = OpSet
  BY Zenon, <1>1 DEF OpSet
<1>4. Control'
  <2>1. \A q \in Proc : (pc'[q] # "op" => wrote'[q] = {}) /\ \A c \in wrote'[q] : Contains(lh', c)
    BY Zenon, <1>1 DEF Running, Control
  <2> QED BY Zenon, <1>2, <1>3, <2>1 DEF Running, Control
<1>5. (\E q \in Proc : pc[q] \in {"install", "erase"}) => \E q \in Proc : pc'[q] \in {"install", "erase"}
  BY Zenon, <1>1
<1>6. RestHome' /\ (\A q \in Proc : CommitOK(q)')
      /\ ((\A q \in Proc : pc'[q] \notin {"install", "erase"}) => head' = <<>>)
  BY Zenon, <1>2, <1>5, SameCommit
<1> QED BY Zenon, <1>1, <1>4, <1>6 DEF Running

\* What has ended and is not durable is in a log that operations in progress or
\* commit() will write, so sys_sync() waits for it.
LEMMA SyncCallInd == ASSUME IndInv, NEW p \in Proc, sys_sync_call(p) PROVE IndInv'
<1>1. /\ Types /\ Running /\ Control /\ SyncOK /\ up = "up" /\ up' = up /\ pc[p] = "idle"
      /\ UNCHANGED <<home, logblk, head, cache, lh, outstanding, committing, wrote, tail, dirty>>
      /\ need' = [need EXCEPT ![p] = IF committing \/ outstanding > 0 THEN 1 ELSE 0]
      /\ owed' = [owed EXCEPT ![p] = dirty] /\ pc' = [pc EXCEPT ![p] = "sync"]
  BY Zenon DEF IndInv, Running, sys_sync_call, At, Goto, disk
<1>2. Running' /\ pc' \in [Proc -> Label] /\ \A q \in Proc : pc'[q] = IF q = p THEN "sync" ELSE pc[q]
  BY Zenon, <1>1, Bystander
<1>3. dirty => committing \/ outstanding > 0
  <2>1. dirty => committing \/ OpSet # {}
    BY Zenon, <1>1 DEF SyncOK, Control
  <2>2. OpSet # {} => outstanding > 0
    <3>1. OpSet \in SUBSET Proc
      BY Zenon DEF OpSet
    <3>2. Cardinality(OpSet) \in Nat /\ (Cardinality(OpSet) = 0 <=> OpSet = {})
      BY Zenon, <3>1, OpCount
    <3> QED BY <1>1, <3>2 DEF Control
  <2> QED BY Zenon, <2>1, <2>2
<1>4. /\ need' \in [Proc -> {0, 1}] /\ owed' \in [Proc -> BOOLEAN]
      /\ \A q \in Proc : q # p => need'[q] = need[q] /\ owed'[q] = owed[q]
      /\ owed'[p] = dirty /\ need'[p] = IF committing \/ outstanding > 0 THEN 1 ELSE 0
  BY Zenon, <1>1 DEF Types
<1>5. Types'
  BY Zenon, <1>1, <1>2, <1>4 DEF Types
<1>6. SyncOK'
  <2>1. \A q \in Proc : owed'[q] => dirty' /\ pc'[q] = "sync" /\ need'[q] = 1
    BY Zenon, <1>1, <1>2, <1>3, <1>4 DEF SyncOK
  <2>2. dirty' => lh' # <<>> /\ \A q \in Proc : pc'[q] \notin {"install", "erase", "done"}
    BY Zenon, <1>1, <1>2 DEF SyncOK
  <2> QED BY Zenon, <2>1, <2>2 DEF SyncOK
<1> QED BY Zenon, <1>1, <1>2, <1>5, <1>6 DEF IndInv

LEMMA SyncReturnInd == ASSUME IndInv, NEW p \in Proc, sys_sync_return(p) PROVE IndInv'
<1>1. /\ Types /\ Running /\ SyncOK /\ up = "up" /\ up' = up /\ pc[p] = "sync" /\ need[p] = 0
      /\ UNCHANGED <<home, logblk, head, cache, lh, outstanding, committing, wrote, tail, need, dirty, owed>>
      /\ pc' = [pc EXCEPT ![p] = "synced"]
  BY Zenon DEF IndInv, sys_sync_return, At, Goto, disk
<1>2. Running' /\ pc' \in [Proc -> Label] /\ \A q \in Proc : pc'[q] = IF q = p THEN "synced" ELSE pc[q]
  BY Zenon, <1>1, Bystander
<1>3. Types'
  BY Zenon, <1>1, <1>2 DEF Types
<1>4. ~owed[p]
  BY <1>1 DEF SyncOK
<1>5. SyncOK'
  <2>1. \A q \in Proc : owed'[q] => dirty' /\ pc'[q] = "sync" /\ need'[q] = 1
    BY Zenon, <1>1, <1>2, <1>4 DEF SyncOK
  <2>2. dirty' => lh' # <<>> /\ \A q \in Proc : pc'[q] \notin {"install", "erase", "done"}
    BY Zenon, <1>1, <1>2 DEF SyncOK
  <2> QED BY Zenon, <2>1, <2>2 DEF SyncOK
<1> QED BY Zenon, <1>1, <1>2, <1>3, <1>5 DEF IndInv

LEMMA AfterSyncInd == ASSUME IndInv, NEW p \in Proc, AfterSync(p) PROVE IndInv'
<1>1. /\ Types /\ Running /\ SyncOK /\ up = "up" /\ up' = up /\ pc[p] = "synced"
      /\ UNCHANGED <<home, logblk, head, cache, lh, outstanding, committing, wrote, tail, need, dirty>>
      /\ owed' = [owed EXCEPT ![p] = FALSE] /\ pc' = [pc EXCEPT ![p] = "idle"]
  BY Zenon DEF IndInv, AfterSync, At, Goto, disk
<1>2. Running' /\ pc' \in [Proc -> Label] /\ \A q \in Proc : pc'[q] = IF q = p THEN "idle" ELSE pc[q]
  BY Zenon, <1>1, Bystander
<1>3. owed' \in [Proc -> BOOLEAN] /\ \A q \in Proc : owed'[q] = IF q = p THEN FALSE ELSE owed[q]
  BY Zenon, <1>1 DEF Types
<1>4. Types'
  BY Zenon, <1>1, <1>2, <1>3 DEF Types
<1>5. SyncOK'
  <2>1. \A q \in Proc : owed'[q] => dirty' /\ pc'[q] = "sync" /\ need'[q] = 1
    BY Zenon, <1>1, <1>2, <1>3 DEF SyncOK
  <2>2. dirty' => lh' # <<>> /\ \A q \in Proc : pc'[q] \notin {"install", "erase", "done"}
    BY Zenon, <1>1, <1>2 DEF SyncOK
  <2> QED BY Zenon, <2>1, <2>2 DEF SyncOK
<1> QED BY Zenon, <1>1, <1>2, <1>4, <1>5 DEF IndInv

----------------------------------------------------------------------------
(* Crash and recovery keep the invariant *)

LEMMA CrashInd == ASSUME IndInv, Crash PROVE IndInv'
<1>1. /\ Types /\ lh' = head /\ cache' = home /\ outstanding' = 0 /\ committing' = FALSE /\ tail' = 1
      /\ pc' = [q \in Proc |-> "idle"] /\ wrote' = [q \in Proc |-> {}]
      /\ need' = [q \in Proc |-> 0] /\ owed' = [q \in Proc |-> FALSE] /\ dirty' = FALSE
      /\ UNCHANGED <<home, logblk, head>>
      /\ up' \in {"recover", "clear"} /\ (up' = "clear" <=> head = <<>>)
  BY Zenon DEF IndInv, Crash, disk
<1>2. Types'
  <2>1. pc' \in [Proc -> Label]
    BY Zenon, <1>1 DEF Label
  <2>2. wrote' \in [Proc -> SUBSET Block] /\ need' \in [Proc -> {0, 1}] /\ owed' \in [Proc -> BOOLEAN]
    BY Zenon, <1>1
  <2>3. outstanding' \in Nat /\ committing' \in BOOLEAN /\ tail' \in Nat \ {0} /\ dirty' \in BOOLEAN
        /\ up' \in {"up", "recover", "clear", "panic"}
    <3>1. 0 \in Nat /\ 1 \in Nat \ {0}
      OBVIOUS
    <3> QED BY Zenon, <1>1, <3>1
  <2> QED BY Zenon, <1>1, <2>1, <2>2, <2>3 DEF Types
<1>3. head # <<>> => tail' \in 1 .. Len(lh') /\ \A i \in 1 .. Len(lh') : ~(i < tail')
  BY <1>1 DEF Types
<1>4. head = <<>> => \A i \in 1 .. Len(lh') : FALSE
  BY <1>1
<1>5. \A q \in Proc : pc'[q] = "idle" /\ wrote'[q] = {} /\ ~owed'[q]
  BY Zenon, <1>1
<1>6. Booting'
  BY Zenon, <1>1, <1>3, <1>4, <1>5 DEF Booting
<1> QED BY Zenon, <1>1, <1>2, <1>6 DEF IndInv

LEMMA RecoverInd == ASSUME IndInv, Recover PROVE IndInv'
<1>1. /\ Types /\ Booting /\ up = "recover" /\ install_trans /\ up' = IF tail = Len(lh) THEN "clear" ELSE "recover"
      /\ UNCHANGED <<logblk, head, lh, outstanding, committing, pc, wrote, need, owed, dirty>>
  BY Zenon DEF IndInv, Recover, ops
<1>2. /\ tail \in 1 .. Len(lh) /\ lh = head /\ cache = home
      /\ \A i \in 1 .. Len(lh) : i < tail => home[lh[i]] = logblk[i]
  BY Zenon, <1>1 DEF Booting
<1>3. /\ home' \in [Block -> Val] /\ cache' \in [Block -> Val] /\ tail' \in Nat \ {0} /\ lh[tail] \in Block
      /\ \A b \in Block : home'[b] = IF b = lh[tail] THEN logblk[tail] ELSE home[b]
      /\ \A b \in Block : cache'[b] = IF b = lh[tail] THEN logblk[tail] ELSE cache[b]
      /\ \A i \in 1 .. Len(lh) : lh[i] \in Block /\ (lh[i] = lh[tail] => i = tail)
      /\ tail # Len(lh) => tail' = tail + 1 /\ tail' \in 1 .. Len(lh)
      /\ \A i \in 1 .. Len(lh) : i < tail + 1 <=> i < tail \/ i = tail
  BY Zenon, <1>1, <1>2, InstallStep
<1>4. Types'
  <2>1. up' \in {"up", "recover", "clear", "panic"}
    BY Zenon, <1>1
  <2> QED BY Zenon, <1>1, <1>3, <2>1 DEF Types
<1>5. cache' = home'
  BY Zenon, <1>1, <1>2 DEF install_trans
<1>6. \A i \in 1 .. Len(lh) : i < tail + 1 => home'[lh[i]] = logblk[i]
  <2>1. \A i \in 1 .. Len(lh) : i = tail => home'[lh[i]] = logblk[i]
    BY Zenon, <1>3
  <2>2. \A i \in 1 .. Len(lh) : i < tail => home'[lh[i]] = logblk[i]
    <3>1. \A i \in 1 .. Len(lh) : i < tail => i # tail
      BY <1>1 DEF Types
    <3> QED BY Zenon, <1>2, <1>3, <3>1
  <2> QED BY Zenon, <1>3, <2>1, <2>2
<1>7. tail = Len(lh) => \A i \in 1 .. Len(lh) : home'[lh[i]] = logblk[i]
  <2>1. tail = Len(lh) => \A i \in 1 .. Len(lh) : i < tail + 1
    BY <1>1 DEF Types
  <2> QED BY Zenon, <1>6, <2>1
<1>8. Booting'
  <2>1. up' = "clear" => tail = Len(lh)
    BY Zenon, <1>1
  <2>2. up' = "recover" => tail # Len(lh)
    BY Zenon, <1>1
  <2> QED BY Zenon, <1>1, <1>2, <1>3, <1>5, <1>6, <1>7, <2>1, <2>2 DEF Booting
<1> QED BY Zenon, <1>1, <1>4, <1>8 DEF IndInv

LEMMA RecoverDoneInd == ASSUME IndInv, RecoverDone PROVE IndInv'
<1>1. /\ Types /\ Booting /\ up' = "up" /\ lh' = <<>> /\ head' = <<>>
      /\ UNCHANGED <<home, logblk, cache, outstanding, committing, pc, wrote, need, owed, tail, dirty>>
  BY Zenon DEF IndInv, RecoverDone, ops
<1>2. Types'
  <2>1. lh' \in Seq(Block) /\ IsInjective(lh') /\ Len(lh') <= LOGBLOCKS
    BY <1>1, LogAssumption DEF IsInjective
  <2> QED BY Zenon, <1>1, <2>1 DEF Types
<1>3. \A q \in Proc : pc'[q] = "idle" /\ ~InCommit(q)' /\ wrote'[q] = {} /\ ~owed'[q]
  BY Zenon, <1>1 DEF Booting, InCommit
<1>4. Control'
  <2>1. OpSet' = {} /\ Cardinality(OpSet') = 0
    BY Zenon, <1>3, FS_EmptySet DEF OpSet
  <2> QED BY Zenon, <1>1, <1>3, <2>1 DEF Control, Booting
<1>5. RestHome' /\ \A q \in Proc : CommitOK(q)'
  BY Zenon, <1>1, <1>3 DEF Booting, RestHome, CommitOK
<1>6. SyncOK'
  BY Zenon, <1>1, <1>3 DEF Booting, SyncOK
<1> QED BY Zenon, <1>1, <1>2, <1>4, <1>5, <1>6 DEF IndInv, Running

----------------------------------------------------------------------------
LEMMA InitInd == Init => IndInv
<1> SUFFICES ASSUME Init PROVE IndInv
  OBVIOUS
<1>1. PICK x \in Val : home = [b \in Block |-> x]
  BY Zenon DEF Init
<1>2. Types
  <2>1. home \in [Block -> Val] /\ cache \in [Block -> Val]
    BY Zenon, <1>1 DEF Init
  <2>2. logblk \in [1 .. LOGBLOCKS -> Val]
    <3>1. (CHOOSE y \in Val : TRUE) \in Val
      BY Zenon, <1>1
    <3> QED BY Zenon, <3>1 DEF Init
  <2>3. /\ lh \in Seq(Block) /\ IsInjective(lh) /\ Len(lh) <= LOGBLOCKS
        /\ head \in Seq(Block) /\ IsInjective(head) /\ Len(head) <= LOGBLOCKS
    BY LogAssumption DEF Init, IsInjective
  <2>4. pc \in [Proc -> Label] /\ wrote \in [Proc -> SUBSET Block] /\ need \in [Proc -> {0, 1}] /\ owed \in [Proc -> BOOLEAN]
    <3>1. pc \in [Proc -> Label]
      BY Zenon DEF Init, Label
    <3>2. wrote \in [Proc -> SUBSET Block] /\ need \in [Proc -> {0, 1}] /\ owed \in [Proc -> BOOLEAN]
      <4>1. {} \in SUBSET Block /\ 0 \in {0, 1} /\ FALSE \in BOOLEAN
        OBVIOUS
      <4> QED BY Zenon, <4>1 DEF Init
    <3> QED BY Zenon, <3>1, <3>2
  <2>5. outstanding \in Nat /\ committing \in BOOLEAN /\ tail \in Nat \ {0} /\ dirty \in BOOLEAN /\ up = "up"
    <3>1. 0 \in Nat /\ 1 \in Nat \ {0}
      OBVIOUS
    <3> QED BY Zenon, <3>1 DEF Init
  <2> QED BY Zenon, <2>1, <2>2, <2>3, <2>4, <2>5 DEF Types
<1>3. \A q \in Proc : pc[q] = "idle" /\ ~InCommit(q) /\ wrote[q] = {} /\ ~owed[q]
  BY Zenon DEF Init, InCommit
<1>4. Control
  <2>1. OpSet = {} /\ Cardinality(OpSet) = 0
    BY Zenon, <1>3, FS_EmptySet DEF OpSet
  <2> QED BY Zenon, <1>3, <2>1 DEF Control, Init
<1>5. RestHome /\ \A q \in Proc : CommitOK(q)
  BY Zenon, <1>3 DEF Init, RestHome, CommitOK
<1>6. SyncOK
  BY Zenon, <1>3 DEF Init, SyncOK
<1> QED BY Zenon, <1>2, <1>4, <1>5, <1>6 DEF IndInv, Running, Init

LEMMA NextInd == ASSUME IndInv, [Next]_vars PROVE IndInv'
<1>1. ASSUME NEW p \in Proc, Op(p) PROVE IndInv'
  BY Zenon, <1>1, BeginInd, EndInd, WriteInd DEF Op
<1>2. ASSUME NEW p \in Proc, Commit(p) PROVE IndInv'
  BY Zenon, <1>2, WriteLogInd, WriteHeadInd, InstallInd, EraseInd, CommitDoneInd DEF Commit
<1>3. ASSUME NEW p \in Proc, Sync(p) PROVE IndInv'
  BY Zenon, <1>3, SyncCallInd, SyncReturnInd, AfterSyncInd DEF Sync
<1>4. CASE UNCHANGED vars
  <2>1. UNCHANGED <<home, logblk, head, cache, lh, outstanding, committing, pc, wrote, tail, need, up, dirty, owed>>
    BY Zenon, <1>4 DEF vars
  <2>2. Types' = Types /\ SyncOK' = SyncOK /\ Booting' = Booting
    BY Zenon, <2>1 DEF Types, SyncOK, Booting
  <2>3. Running' = Running
    BY <2>1 DEF Running, Control, RestHome, CommitOK, Copied, OpSet, InCommit
  <2> QED BY Zenon, <2>1, <2>2, <2>3 DEF IndInv
<1> QED BY Zenon, <1>1, <1>2, <1>3, <1>4, CrashInd, RecoverInd, RecoverDoneInd DEF Next

----------------------------------------------------------------------------
(* Theorems *)

\* The invariant on which the rest is built: which blocks commit() has copied, and what
\* a crash leaves, at each step of begin_op(), log_write(), end_op(), commit() and recovery.
THEOREM Invariance == Spec => []IndInv
BY InitInd, NextInd, PTL DEF Spec

\* When sync() returns, what had ended when sys_sync() was called is durable.
THEOREM SyncsDurable == Spec => []SyncDurable
<1>1. IndInv => SyncDurable
  BY Zenon DEF IndInv, SyncOK, SyncDurable, At
<1> QED BY <1>1, Invariance, PTL

LEMMA CommitAlone ==
  ASSUME IndInv, IndInv', [Next]_vars, committing => outstanding = 0
  PROVE  (committing => outstanding = 0)'
<1>1. CASE up' = "up"
  <2>1. Control'
    BY Zenon, <1>1 DEF IndInv, Running
  <2>2. OpSet' = {} => outstanding' = 0
    BY Zenon, <2>1, FS_EmptySet DEF Control
  <2> QED BY Zenon, <2>1, <2>2 DEF Control
<1>2. CASE up' \in {"recover", "clear"}
  BY Zenon, <1>2 DEF IndInv, Booting
<1>3. CASE up' = "panic" /\ up = "panic"
  <2>1. UNCHANGED vars
    BY Zenon, <1>3 DEF Next, Op, Commit, Sync, begin_op, end_op, log_write, write_log, write_head, Install, Erase,
                CommitDone, sys_sync_call, sys_sync_return, AfterSync, Crash, Recover, RecoverDone, At
  <2> QED BY Zenon, <2>1 DEF vars
<1>4. CASE up' = "panic" /\ up # "panic"
  <2>1. PICK p \in Proc : end_op(p) \/ write_log(p) \/ \E b \in Block, x \in Val : log_write(p, b, x)
    BY Zenon, <1>4 DEF Next, Op, Commit, Sync, begin_op, write_head, Install, Erase, vars,
                CommitDone, sys_sync_call, sys_sync_return, AfterSync, Crash, Recover, RecoverDone
  <2>2. CASE end_op(p)
    <3>1. ~committing
      BY Zenon, <2>2, OpAlone DEF end_op, At, IndInv, Running
    <3> QED BY Zenon, <1>4, <2>2, <3>1 DEF end_op, At
  <2>3. UNCHANGED <<outstanding, committing>> => (committing => outstanding = 0)'
    OBVIOUS
  <2> QED BY Zenon, <2>1, <2>2, <2>3 DEF write_log, log_write
<1> QED BY Zenon, <1>1, <1>2, <1>3, <1>4 DEF IndInv, Types

\* log.outstanding counts the operations between begin_op() and end_op(), log.lh never
\* has a block twice or more than LOGBLOCKS, and commit() runs with no operation in progress.
THEOREM Typing == Spec => []TypeOK
<1> DEFINE Alone == committing => outstanding = 0
<1>1. Init => Alone
  BY Zenon DEF Init
<1>2. IndInv /\ IndInv' /\ [Next]_vars /\ Alone => Alone'
  BY Zenon, CommitAlone
<1>3. IndInv /\ Alone => TypeOK
  <2> SUFFICES ASSUME IndInv, Alone PROVE TypeOK
    OBVIOUS
  <2>1. up = "up" => (committing <=> \E p \in Proc : pc[p] \notin {"idle", "op", "sync", "synced"})
    BY Zenon DEF IndInv, Types, Running, Control, InCommit, Label
  <2>2. up = "up" => outstanding = Cardinality({p \in Proc : pc[p] = "op"})
    BY Zenon DEF IndInv, Running, Control, OpSet
  <2> QED BY Zenon, <2>1, <2>2 DEF IndInv, Types, TypeOK
<1> HIDE DEF Alone
<1> QED BY <1>1, <1>2, <1>3, Invariance, PTL DEF Spec

----------------------------------------------------------------------------
(* The log implements AtomicDisk *)

\* What recovery makes of a header h, log blocks lb and home blocks hm.
RecoveredFrom(h, lb, hm) ==
  [b \in Block |-> IF Contains(h, b) THEN lb[CHOOSE i \in 1 .. Len(h) : h[i] = b] ELSE hm[b]]

LEMMA RecoveredBlocks ==
  ASSUME NEW h \in Seq(Block), IsInjective(h), Len(h) <= LOGBLOCKS,
         NEW lb \in [1 .. LOGBLOCKS -> Val], NEW hm \in [Block -> Val]
  PROVE  /\ RecoveredFrom(h, lb, hm) \in [Block -> Val]
         /\ \A i \in 1 .. Len(h) : h[i] \in Block /\ RecoveredFrom(h, lb, hm)[h[i]] = lb[i]
         /\ \A b \in Block : ~Contains(h, b) => RecoveredFrom(h, lb, hm)[b] = hm[b]
<1> DEFINE at(b) == CHOOSE i \in 1 .. Len(h) : h[i] = b
<1>1. \A i \in 1 .. Len(h) : h[i] \in Block /\ Contains(h, h[i]) /\ i \in 1 .. LOGBLOCKS
  BY LogAssumption DEF Contains
<1>2. \A b \in Block : Contains(h, b) => at(b) \in 1 .. Len(h) /\ h[at(b)] = b
  BY Zenon DEF Contains
<1>3. \A i \in 1 .. Len(h) : at(h[i]) = i
  <2> SUFFICES ASSUME NEW i \in 1 .. Len(h) PROVE at(h[i]) = i
    OBVIOUS
  <2>1. at(h[i]) \in 1 .. Len(h) /\ h[at(h[i])] = h[i]
    BY Zenon, <1>1, <1>2
  <2> HIDE DEF at
  <2> QED BY <2>1 DEF IsInjective
<1> HIDE DEF at
<1>4. RecoveredFrom(h, lb, hm) = [b \in Block |-> IF Contains(h, b) THEN lb[at(b)] ELSE hm[b]]
  BY Zenon DEF RecoveredFrom, at
<1>5. \A b \in Block : (IF Contains(h, b) THEN lb[at(b)] ELSE hm[b]) \in Val
  BY Zenon, <1>1, <1>2
<1> QED BY <1>1, <1>3, <1>4, <1>5

\* Recovery gives g when g has the logged blocks, and the home blocks elsewhere.
LEMMA RecoversTo ==
  ASSUME NEW h \in Seq(Block), IsInjective(h), Len(h) <= LOGBLOCKS,
         NEW lb \in [1 .. LOGBLOCKS -> Val], NEW hm \in [Block -> Val], NEW g \in [Block -> Val],
         \A i \in 1 .. Len(h) : g[h[i]] = lb[i], \A b \in Block : ~Contains(h, b) => g[b] = hm[b]
  PROVE  RecoveredFrom(h, lb, hm) = g
<1>1. /\ RecoveredFrom(h, lb, hm) \in [Block -> Val]
      /\ \A i \in 1 .. Len(h) : h[i] \in Block /\ RecoveredFrom(h, lb, hm)[h[i]] = lb[i]
      /\ \A b \in Block : ~Contains(h, b) => RecoveredFrom(h, lb, hm)[b] = hm[b]
  BY Zenon, RecoveredBlocks
<1>2. ASSUME NEW b \in Block PROVE RecoveredFrom(h, lb, hm)[b] = g[b]
  <2>1. CASE Contains(h, b)
    <3>1. PICK i \in 1 .. Len(h) : h[i] = b
      BY Zenon, <2>1 DEF Contains
    <3> QED BY Zenon, <1>1, <3>1
  <2> QED BY Zenon, <1>1, <2>1
<1> QED BY <1>1, <1>2

LEMMA RecoveredIs ==
  Recovered = RecoveredFrom(head, logblk, home) /\ Recovered' = RecoveredFrom(head', logblk', home')
BY Zenon DEF Recovered, RecoveredFrom

LEMMA RecoveredSame == ASSUME UNCHANGED <<home, logblk, head>> PROVE Recovered' = Recovered
BY Zenon, RecoveredIs

\* An erased log leaves the home blocks.
LEMMA RecoversHome == ASSUME NEW lb \in [1 .. LOGBLOCKS -> Val], NEW hm \in [Block -> Val]
                      PROVE  RecoveredFrom(<<>>, lb, hm) = hm
<1>1. <<>> \in Seq(Block) /\ IsInjective(<<>>) /\ Len(<<>>) <= LOGBLOCKS /\ Len(<<>>) = 0
  BY LogAssumption DEF IsInjective
<1>2. \A i \in 1 .. Len(<<>>) : FALSE
  BY <1>1
<1> QED BY Zenon, <1>1, <1>2, RecoversTo
\* From write_head() to the erasing of the log, what recovery finds is what the
\* operations have made.
LEMMA Committed ==
  ASSUME IndInv, NEW p \in Proc, up = "up", pc[p] \in {"install", "erase"} PROVE Recovered = cache
<1>1. Types /\ RestHome /\ head = lh /\ Copied(Len(lh) + 1)
  BY Zenon DEF IndInv, Running, CommitOK
<1>2. /\ lh \in Seq(Block) /\ IsInjective(lh) /\ Len(lh) <= LOGBLOCKS
      /\ logblk \in [1 .. LOGBLOCKS -> Val] /\ home \in [Block -> Val] /\ cache \in [Block -> Val]
  BY Zenon, <1>1 DEF Types
<1>3. \A i \in 1 .. Len(lh) : i < Len(lh) + 1
  BY <1>2
<1>4. \A i \in 1 .. Len(lh) : cache[lh[i]] = logblk[i]
  BY Zenon, <1>1, <1>3 DEF Copied
<1>5. \A b \in Block : ~Contains(lh, b) => cache[b] = home[b]
  BY Zenon, <1>1 DEF RestHome
<1> QED BY Zenon, <1>1, <1>2, <1>4, <1>5, RecoversTo, RecoveredIs

LEMMA CommittedNext ==
  ASSUME IndInv', NEW p \in Proc, up' = "up", pc'[p] \in {"install", "erase"} PROVE Recovered' = cache'
<1>1. Types' /\ RestHome' /\ head' = lh' /\ Copied(Len(lh) + 1)'
  BY Zenon DEF IndInv, Running, CommitOK
<1>2. /\ lh' \in Seq(Block) /\ IsInjective(lh') /\ Len(lh') <= LOGBLOCKS
      /\ logblk' \in [1 .. LOGBLOCKS -> Val] /\ home' \in [Block -> Val] /\ cache' \in [Block -> Val]
  BY Zenon, <1>1 DEF Types
<1>3. \A i \in 1 .. Len(lh') : i < Len(lh') + 1
  BY <1>2
<1>4. \A i \in 1 .. Len(lh') : cache'[lh'[i]] = logblk'[i]
  BY Zenon, <1>1, <1>3 DEF Copied
<1>5. \A b \in Block : ~Contains(lh', b) => cache'[b] = home'[b]
  BY Zenon, <1>1 DEF RestHome
<1> QED BY Zenon, <1>1, <1>2, <1>4, <1>5, RecoversTo, RecoveredIs

View == IF up \in {"recover", "clear"} THEN Recovered ELSE cache

LEMMA OpShadow ==
  ASSUME IndInv, NEW p \in Proc, Op(p)
  PROVE  \/ outstanding' = outstanding + 1 /\ View' = View /\ Recovered' = Recovered
         \/ outstanding > 0 /\ outstanding' = outstanding - 1 /\ View' = View /\ Recovered' = Recovered
         \/ /\ outstanding > 0 /\ outstanding' = outstanding /\ Recovered' = Recovered
            /\ \E b \in Block, x \in Val : View' = [View EXCEPT ![b] = x]
<1>1. CASE begin_op(p)
  <2>1. up = "up" /\ up' = up /\ outstanding' = outstanding + 1 /\ cache' = cache /\ UNCHANGED <<home, logblk, head>>
    BY Zenon, <1>1 DEF begin_op, At, disk
  <2> QED BY Zenon, <2>1, RecoveredSame DEF View
<1>2. CASE end_op(p)
  <2>1. /\ up = "up" /\ outstanding' = outstanding - 1 /\ cache' = cache /\ UNCHANGED <<home, logblk, head>>
        /\ up' \in {up, "panic"} /\ pc[p] = "op" /\ Control
    BY Zenon, <1>2 DEF end_op, At, disk, IndInv, Running
  <2> QED BY Zenon, <2>1, RecoveredSame, OpAlone DEF View
<1>3. ASSUME NEW b \in Block, NEW x \in Val, log_write(p, b, x)
      PROVE  /\ outstanding > 0 /\ outstanding' = outstanding /\ Recovered' = Recovered
             /\ View' = [View EXCEPT ![b] = x]
  <2>1. /\ up = "up" /\ outstanding' = outstanding /\ cache' = [cache EXCEPT ![b] = x] /\ UNCHANGED <<home, logblk, head>>
        /\ up' \in {up, "panic"} /\ pc[p] = "op" /\ Control
    BY Zenon, <1>3 DEF log_write, At, disk, IndInv, Running
  <2>2. View = cache /\ View' = cache'
    BY Zenon, <2>1 DEF View
  <2> QED BY Zenon, <2>1, <2>2, RecoveredSame, OpAlone
<1> QED BY Zenon, <1>1, <1>2, <1>3 DEF Op

LEMMA CommitShadow ==
  ASSUME IndInv, IndInv', NEW p \in Proc, Commit(p)
  PROVE  /\ outstanding' = outstanding /\ View' = View
         /\ Recovered' = Recovered \/ (outstanding = 0 /\ Recovered' = View)
<1>1. Types /\ Types' /\ Running /\ Control /\ CommitOK(p)
  BY Zenon DEF IndInv, Running, Commit, write_log, write_head, Install, Erase, CommitDone, At
<1>2. CASE write_log(p)
  <2>1. up = "up" /\ up' \in {up, "panic"} /\ outstanding' = outstanding /\ cache' = cache
    BY Zenon, <1>2 DEF write_log, At
  <2>2. pc[p] = "write_log" /\ InCommit(p) /\ home' = home /\ head' = head
    BY Zenon, <1>2 DEF write_log, At, InCommit, disk
  <2>3. head = <<>>
    BY Zenon, <1>1, <2>2 DEF Running, Control, InCommit
  <2>4. Recovered' = Recovered
    BY Zenon, <1>1, <2>2, <2>3, RecoversHome, RecoveredIs DEF Types
  <2> QED BY Zenon, <2>1, <2>4 DEF View
<1>3. CASE write_head(p)
  <2>1. up = "up" /\ up' = up /\ outstanding' = outstanding /\ cache' = cache /\ pc[p] = "write_head" /\ InCommit(p) /\ pc'[p] = "install"
    BY Zenon, <1>1, <1>3 DEF write_head, At, InCommit, Goto, Types
  <2>2. outstanding = 0
    <3>1. OpSet = {} /\ outstanding = Cardinality(OpSet)
      BY Zenon, <1>1, <2>1 DEF Control
    <3> QED BY Zenon, <3>1, FS_EmptySet
  <2>3. Recovered' = cache'
    BY Zenon, <2>1, CommittedNext
  <2> QED BY Zenon, <2>1, <2>2, <2>3 DEF View
<1>4. CASE Install(p)
  <2>1. up = "up" /\ up' = up /\ outstanding' = outstanding /\ pc[p] = "install" /\ pc'[p] \in {"install", "erase"}
    BY Zenon, <1>1, <1>4 DEF Install, At, Goto, Types
  <2>2. Recovered = cache /\ Recovered' = cache'
    BY Zenon, <2>1, Committed, CommittedNext
  <2>3. cache' = cache
    <3>1. tail \in 1 .. Len(lh) /\ Copied(Len(lh) + 1)
      BY Zenon, <1>1, <2>1 DEF CommitOK
    <3>2. /\ cache' \in [Block -> Val] /\ lh[tail] \in Block
          /\ \A b \in Block : cache'[b] = IF b = lh[tail] THEN logblk[tail] ELSE cache[b]
      BY Zenon, <1>1, <1>4, <3>1, InstallStep DEF Install
    <3>3. logblk[tail] = cache[lh[tail]]
      BY <1>1, <3>1 DEF Copied, Types
    <3> QED BY <1>1, <3>2, <3>3 DEF Types
  <2> QED BY Zenon, <2>1, <2>2, <2>3 DEF View
<1>5. CASE Erase(p)
  <2>1. /\ up = "up" /\ up' = up /\ outstanding' = outstanding /\ cache' = cache /\ home' = home /\ head' = <<>> /\ pc[p] = "erase"
    BY Zenon, <1>5 DEF Erase, At
  <2>2. Recovered = cache /\ home = cache
    BY Zenon, <1>1, <2>1, Committed DEF CommitOK
  <2>3. Recovered' = home'
    BY Zenon, <1>1, <2>1, RecoversHome, RecoveredIs DEF Types
  <2> QED BY Zenon, <2>1, <2>2, <2>3 DEF View
<1>6. CASE CommitDone(p)
  <2>1. up = "up" /\ up' = up /\ outstanding' = outstanding /\ cache' = cache /\ UNCHANGED <<home, logblk, head>>
    BY Zenon, <1>6 DEF CommitDone, At, disk
  <2> QED BY Zenon, <2>1, RecoveredSame DEF View
<1> QED BY Zenon, <1>2, <1>3, <1>4, <1>5, <1>6 DEF Commit

LEMMA SyncShadow ==
  ASSUME NEW p \in Proc, Sync(p) PROVE outstanding' = outstanding /\ View' = View /\ Recovered' = Recovered
<1>1. up = "up" /\ up' = up /\ outstanding' = outstanding /\ cache' = cache /\ UNCHANGED <<home, logblk, head>>
  BY Zenon DEF Sync, sys_sync_call, sys_sync_return, AfterSync, At, disk
<1> QED BY Zenon, <1>1, RecoveredSame DEF View

LEMMA CrashShadow == ASSUME Crash PROVE outstanding' = 0 /\ View' = Recovered /\ Recovered' = Recovered
<1>1. up' \in {"recover", "clear"} /\ outstanding' = 0 /\ UNCHANGED <<home, logblk, head>>
  BY Zenon DEF Crash, disk
<1> QED BY Zenon, <1>1, RecoveredSame DEF View

LEMMA RecoverShadow ==
  ASSUME IndInv, IndInv', Recover PROVE outstanding' = outstanding /\ View' = View /\ Recovered' = Recovered
<1>1. /\ Types /\ Types' /\ up = "recover" /\ up' \in {"recover", "clear"} /\ install_trans
      /\ UNCHANGED <<logblk, head, lh, outstanding>> /\ lh = head /\ tail \in 1 .. Len(head)
  BY Zenon DEF IndInv, Recover, Booting
<1>2. /\ head \in Seq(Block) /\ IsInjective(head) /\ Len(head) <= LOGBLOCKS /\ logblk \in [1 .. LOGBLOCKS -> Val]
      /\ home \in [Block -> Val] /\ home' \in [Block -> Val]
  BY Zenon, <1>1 DEF Types
<1>3. \A b \in Block : home'[b] = IF b = head[tail] THEN logblk[tail] ELSE home[b]
  BY Zenon, <1>1, InstallStep
<1>4. /\ Recovered \in [Block -> Val]
      /\ \A i \in 1 .. Len(head) : Recovered[head[i]] = logblk[i]
      /\ \A b \in Block : ~Contains(head, b) => Recovered[b] = home[b]
  BY <1>2, RecoveredBlocks, RecoveredIs
<1>5. \A b \in Block : ~Contains(head, b) => Recovered[b] = home'[b]
  <2>1. Contains(head, head[tail])
    BY Zenon, <1>1 DEF Contains
  <2> QED BY Zenon, <1>3, <1>4, <2>1
<1>6. RecoveredFrom(head, logblk, home') = Recovered
  BY Zenon, <1>2, <1>4, <1>5, RecoversTo
<1>7. Recovered' = Recovered
  BY Zenon, <1>1, <1>6, RecoveredIs
<1> QED BY Zenon, <1>1, <1>7 DEF View

LEMMA RecoverDoneShadow ==
  ASSUME IndInv, IndInv', RecoverDone PROVE outstanding' = outstanding /\ View' = View /\ Recovered' = Recovered
<1>1. /\ Types /\ up = "clear" /\ up' = "up" /\ head' = <<>> /\ UNCHANGED <<home, logblk, cache, outstanding>>
      /\ lh = head /\ cache = home /\ \A i \in 1 .. Len(head) : home[head[i]] = logblk[i]
  BY Zenon DEF IndInv, RecoverDone, Booting
<1>2. /\ head \in Seq(Block) /\ IsInjective(head) /\ Len(head) <= LOGBLOCKS
      /\ logblk \in [1 .. LOGBLOCKS -> Val] /\ home \in [Block -> Val]
  BY Zenon, <1>1 DEF Types
<1>3. Recovered = home
  BY Zenon, <1>1, <1>2, RecoversTo, RecoveredIs
<1>4. Recovered' = home
  BY Zenon, <1>1, <1>2, RecoversHome, RecoveredIs
<1> QED BY Zenon, <1>1, <1>3, <1>4 DEF View

LEMMA StepShadow == ASSUME IndInv, IndInv', [Next]_vars PROVE [Disk!ANext]_<<View, Recovered, outstanding>>
<1> DEFINE Same == outstanding' = outstanding /\ View' = View /\ Recovered' = Recovered
<1>1. ASSUME NEW p \in Proc, Op(p) PROVE Disk!ABegin \/ Disk!AEnd \/ Disk!AWrite
  BY Zenon, <1>1, OpShadow DEF Disk!ABegin, Disk!AEnd, Disk!AWrite, View
<1>2. ASSUME NEW p \in Proc, Commit(p) PROVE Same \/ Disk!ACommit
  BY Zenon, <1>2, CommitShadow DEF Disk!ACommit, View
<1>3. ASSUME NEW p \in Proc, Sync(p) PROVE Same
  BY Zenon, <1>3, SyncShadow
<1>4. CASE Crash
  <2>1. Disk!ACrash
    BY Zenon, <1>4, CrashShadow DEF Disk!ACrash, View
  <2> QED BY Zenon, <2>1 DEF Disk!ANext
<1>5. CASE Recover \/ RecoverDone
  BY Zenon, <1>5, RecoverShadow, RecoverDoneShadow
<1>6. CASE UNCHANGED vars
  <2>1. Recovered' = Recovered /\ up' = up /\ cache' = cache /\ outstanding' = outstanding
    BY Zenon, <1>6, RecoveredSame DEF vars
  <2> QED BY Zenon, <2>1 DEF View
<1> QED BY Zenon, <1>1, <1>2, <1>3, <1>4, <1>5, <1>6 DEF Next, Disk!ANext

\* Group commit is atomic: commit() and recovery implement AtomicDisk, whose durable
\* contents change only to those of a moment with no operation in progress, whichever
\* step of either a power failure comes after.
THEOREM LogImplementsAtomicDisk == Spec => LogIsAtomic
<1>1. Init => Disk!AInit
  <2> SUFFICES ASSUME Init PROVE Disk!AInit
    OBVIOUS
  <2>1. up = "up" /\ outstanding = 0 /\ cache = home /\ head = <<>>
    BY Zenon DEF Init
  <2>2. home \in [Block -> Val] /\ logblk \in [1 .. LOGBLOCKS -> Val]
    BY Zenon, InitInd DEF IndInv, Types
  <2>3. Recovered = home
    BY Zenon, <2>1, <2>2, RecoversHome, RecoveredIs
  <2> QED BY Zenon, <2>1, <2>2, <2>3 DEF Disk!AInit
<1>2. IndInv /\ IndInv' /\ [Next]_vars
      => [Disk!ANext]_<<IF up \in {"recover", "clear"} THEN Recovered ELSE cache, Recovered, outstanding>>
  BY Zenon, StepShadow DEF View
<1> QED BY <1>1, <1>2, Invariance, PTL DEF Spec, LogIsAtomic, Disk!ASpec

----------------------------------------------------------------------------
(* The space that begin_op() reserves *)

\* Operations S that wrote at most n blocks each wrote at most n times as many.
LEMMA PairCount ==
  ASSUME NEW S \in SUBSET Proc, NEW w \in [Proc -> SUBSET Block], NEW n \in Nat,
         \A p \in Proc : IsFiniteSet(w[p]) /\ Cardinality(w[p]) <= n,
         \A p \in Proc : p \notin S => w[p] = {}
  PROVE  IsFiniteSet(Pairs(w)) /\ Cardinality(Pairs(w)) \in Nat /\ Cardinality(Pairs(w)) <= Cardinality(S) * n
<1> DEFINE Lists(p, f) == \A b \in w[p] : \E i \in 1 .. n : f[i] = b
<1>1. ASSUME NEW p \in Proc PROVE \E f : Lists(p, f)
  <2>1. Cardinality(w[p]) \in Nat /\ ExistsBijection(1 .. Cardinality(w[p]), w[p])
    BY Zenon, FS_CardinalityType
  <2>2. PICK f : f \in Surjection(1 .. Cardinality(w[p]), w[p])
    BY Zenon, <2>1 DEF ExistsBijection, Bijection
  <2>3. \A b \in w[p] : \E i \in 1 .. Cardinality(w[p]) : f[i] = b
    BY Zenon, <2>2 DEF Surjection
  <2>4. \A i \in 1 .. Cardinality(w[p]) : i \in 1 .. n
    BY <2>1
  <2> QED BY <2>3, <2>4
<1> DEFINE F == [p \in Proc |-> CHOOSE f : Lists(p, f)]
           R(x) == CHOOSE i \in 1 .. n : F[x[1]][i] = x[2]
           G == [x \in Pairs(w) |-> <<x[1], R(x)>>]
<1>2. \A p \in Proc : Lists(p, F[p])
  <2> SUFFICES ASSUME NEW p \in Proc PROVE Lists(p, F[p])
    BY Zenon
  <2>1. F[p] = CHOOSE f : Lists(p, f)
    BY Zenon
  <2> HIDE DEF F, Lists
  <2> QED BY Zenon, <1>1, <2>1
<1> HIDE DEF F
<1>3. \A x \in Pairs(w) : x \in Proc \X Block /\ x[2] \in w[x[1]] /\ x[1] \in S
  BY Zenon DEF Pairs
<1>4. ASSUME NEW x \in Pairs(w) PROVE R(x) \in 1 .. n /\ F[x[1]][R(x)] = x[2]
  <2>1. \E i \in 1 .. n : F[x[1]][i] = x[2]
    BY <1>2, <1>3
  <2> QED BY Zenon, <2>1
<1> HIDE DEF R
<1>5. G \in Injection(Pairs(w), S \X (1 .. n))
  <2>1. G \in [Pairs(w) -> S \X (1 .. n)]
    BY Zenon, <1>3, <1>4
  <2>2. ASSUME NEW x \in Pairs(w), NEW y \in Pairs(w), G[x] = G[y] PROVE x = y
    <3>1. x[1] = y[1] /\ R(x) = R(y)
      BY Zenon, <2>2
    <3>2. x[2] = y[2]
      <4>1. F[x[1]][R(x)] = x[2] /\ F[y[1]][R(y)] = y[2]
        BY Zenon, <1>4
      <4> QED BY Zenon, <3>1, <4>1
    <3> QED BY <1>3, <3>1, <3>2
  <2> HIDE DEF G
  <2> QED BY Zenon, <2>1, <2>2 DEF Injection, IsInjective
<1>6. IsFiniteSet(S) /\ IsFiniteSet(1 .. n) /\ Cardinality(S) \in Nat /\ Cardinality(1 .. n) = n
  <2>1. IsFiniteSet(S) /\ Cardinality(S) \in Nat
    BY Zenon, OpCount
  <2>2. IsFiniteSet(1 .. n) /\ Cardinality(1 .. n) = IF 1 > n THEN 0 ELSE n - 1 + 1
    BY FS_Interval
  <2> QED BY <2>1, <2>2
<1>7. IsFiniteSet(S \X (1 .. n)) /\ Cardinality(S \X (1 .. n)) = Cardinality(S) * n
  BY Zenon, <1>6, FS_Product
<1> HIDE DEF G
<1>8. IsFiniteSet(Pairs(w)) /\ Cardinality(Pairs(w)) <= Cardinality(S) * n
  BY <1>5, <1>7, FS_Injection
<1> QED BY Zenon, <1>8, FS_CardinalityType

LEMMA WritesAdd ==
  ASSUME wrote \in [Proc -> SUBSET Block], NEW p \in Proc, NEW b \in Block, b \notin wrote[p],
         \A q \in Proc : wrote'[q] = IF q = p THEN wrote[q] \cup {b} ELSE wrote[q]
  PROVE  Writes' = Writes \cup {<<p, b>>} /\ <<p, b>> \notin Writes
<1>1. <<p, b>> \in Proc \X Block /\ <<p, b>>[1] = p /\ <<p, b>>[2] = b
  OBVIOUS
<1>2. ASSUME NEW x \in Proc \X Block PROVE x[2] \in wrote'[x[1]] <=> x[2] \in wrote[x[1]] \/ x = <<p, b>>
  <2>1. x[1] \in Proc /\ (x = <<p, b>> <=> x[1] = p /\ x[2] = b)
    OBVIOUS
  <2> QED BY Zenon, <2>1
<1> QED BY Zenon, <1>1, <1>2 DEF Writes, Pairs

LEMMA PairsDrop ==
  ASSUME NEW w \in [Proc -> SUBSET Block], NEW v, NEW p \in Proc,
         \A q \in Proc : v[q] = IF q = p THEN {} ELSE w[q]
  PROVE  Pairs(v) = Pairs(w) \ ({p} \X w[p]) /\ Pairs(w) \cap ({p} \X w[p]) = {p} \X w[p]
<1>1. \A x \in {p} \X w[p] : x \in Proc \X Block /\ x[2] \in w[x[1]]
  OBVIOUS
<1>2. ASSUME NEW x \in Proc \X Block PROVE x[2] \in v[x[1]] <=> x[2] \in w[x[1]] /\ x \notin {p} \X w[p]
  <2>1. x[1] \in Proc /\ (x \in {p} \X w[p] <=> x[1] = p /\ x[2] \in w[p])
    OBVIOUS
  <2> QED BY Zenon, <2>1
<1> QED BY Zenon, <1>1, <1>2 DEF Pairs

\* Each operation has room for at least one block more.
LEMMA Products ==
  ASSUME NEW k \in Nat, NEW m \in Nat, NEW o \in Nat, o < m
  PROVE  k * o + k <= k * m /\ (k - 1) * m = k * m - m /\ (k + 1) * m = k * m + m
<1>1. PICK d \in Nat : m = o + 1 + d
  <2>1. m - o - 1 \in Nat /\ m = o + 1 + (m - o - 1)
    OBVIOUS
  <2> QED BY Zenon, <2>1
<1>2. k * m = k * o + k + k * d /\ k * d \in Nat /\ k * o \in Nat
  BY <1>1
<1>3. k * o + k <= k * m
  BY <1>2
<1>4. (k - 1) * m = k * m - m /\ (k + 1) * m = k * m + m
  OBVIOUS
<1> QED BY Zenon, <1>3, <1>4

\* The sizes of param.h: an operation writes fewer blocks than it reserves, and the
\* blocks of a full log have a buffer each.
Sizes == OpBlocks < MAXOPBLOCKS /\ LOGBLOCKS <= NBUF

LEMMA RoomFacts ==
  ASSUME IndInv, up = "up", Room
  PROVE  /\ Types /\ Control /\ Len(lh) \in Nat /\ outstanding \in Nat /\ OpSet \in SUBSET Proc
         /\ IsFiniteSet(Writes) /\ Cardinality(Writes) \in Nat /\ Cardinality(Writes) <= outstanding * OpBlocks
         /\ LOGBLOCKS \in Nat /\ MAXOPBLOCKS \in Nat /\ OpBlocks \in Nat /\ NBUF \in Nat
<1>1. Types /\ Control /\ OpSet \in SUBSET Proc
  BY Zenon DEF IndInv, Running, OpSet
<1>2. LOGBLOCKS \in Nat /\ MAXOPBLOCKS \in Nat /\ OpBlocks \in Nat /\ NBUF \in Nat /\ Len(lh) \in Nat /\ outstanding \in Nat
  BY <1>1, LogAssumption DEF Types
<1>3. wrote \in [Proc -> SUBSET Block] /\ \A p \in Proc : p \notin OpSet => wrote[p] = {}
  BY Zenon, <1>1 DEF Types, Control, OpSet
<1>4. \A p \in Proc : IsFiniteSet(wrote[p]) /\ Cardinality(wrote[p]) <= OpBlocks
  BY Zenon DEF Room
<1>5. IsFiniteSet(Writes) /\ Cardinality(Writes) \in Nat /\ Cardinality(Writes) <= Cardinality(OpSet) * OpBlocks
  BY Zenon, <1>1, <1>2, <1>3, <1>4, PairCount DEF Writes
<1> QED BY Zenon, <1>1, <1>2, <1>5 DEF Control

\* A step after which the log is the same or empty.
LEMMA RoomKept ==
  ASSUME IndInv, up = "up", Room, UNCHANGED <<outstanding, wrote>>, lh' = lh \/ lh' = <<>> PROVE Room'
<1>1. Writes' = Writes
  BY Zenon DEF Writes, Pairs
<1>2. Len(lh) \in Nat /\ outstanding * MAXOPBLOCKS \in Nat /\ LOGBLOCKS + Cardinality(Writes) \in Nat
  BY RoomFacts
<1>3. Len(lh') \in Nat /\ Len(lh') <= Len(lh)
  BY <1>2
<1>4. Len(lh') + outstanding' * MAXOPBLOCKS <= LOGBLOCKS + Cardinality(Writes')
  BY <1>1, <1>2, <1>3 DEF Room
<1> QED BY Zenon, <1>4 DEF Room

LEMMA RoomBegin == ASSUME Sizes, IndInv, Room, NEW p \in Proc, begin_op(p) PROVE up' # "panic" /\ Room'
<1>1. /\ up = "up" /\ up' = up /\ Len(lh) + (outstanding + 1) * MAXOPBLOCKS <= LOGBLOCKS
      /\ outstanding' = outstanding + 1 /\ UNCHANGED <<lh, wrote>>
  BY Zenon DEF begin_op, At
<1>2. Writes' = Writes
  BY Zenon, <1>1 DEF Writes, Pairs
<1>3. Len(lh') + outstanding' * MAXOPBLOCKS <= LOGBLOCKS + Cardinality(Writes')
  <2>1. Cardinality(Writes) \in Nat /\ LOGBLOCKS \in Nat /\ MAXOPBLOCKS \in Nat /\ outstanding \in Nat /\ Len(lh) \in Nat
    BY Zenon, <1>1, RoomFacts
  <2>2. (outstanding + 1) * MAXOPBLOCKS \in Nat
    BY <2>1
  <2> QED BY <1>1, <1>2, <2>1, <2>2
<1> QED BY Zenon, <1>1, <1>3 DEF Room

\* There is room for the block of log_write(), and for another one after it.
LEMMA RoomWrite ==
  ASSUME Sizes, IndInv, IndInv', Room, NEW p \in Proc, NEW b \in Block, NEW x \in Val, log_write(p, b, x)
  PROVE  up' # "panic" /\ Room'
<1>1. /\ up = "up" /\ pc[p] = "op" /\ UNCHANGED <<pc, outstanding>>
      /\ b \in wrote[p] \/ Cardinality(wrote[p]) < OpBlocks
  BY Zenon DEF log_write, At
<1>2. /\ Types /\ Control /\ Len(lh) \in Nat /\ outstanding \in Nat /\ OpSet \in SUBSET Proc
      /\ IsFiniteSet(Writes) /\ Cardinality(Writes) \in Nat /\ Cardinality(Writes) <= outstanding * OpBlocks
      /\ LOGBLOCKS \in Nat /\ MAXOPBLOCKS \in Nat /\ OpBlocks \in Nat /\ NBUF \in Nat
  BY Zenon, <1>1, RoomFacts
<1>3. outstanding > 0
  BY Zenon, <1>1, <1>2, OpAlone
<1>4. ASSUME NEW n \in Nat, NEW k \in Nat, n + outstanding * MAXOPBLOCKS <= LOGBLOCKS + k, k <= outstanding * OpBlocks
      PROVE  n < LOGBLOCKS
  <2>1. outstanding * OpBlocks + outstanding <= outstanding * MAXOPBLOCKS
    BY Zenon, <1>2, Products DEF Sizes
  <2>2. outstanding * OpBlocks \in Nat /\ outstanding * MAXOPBLOCKS \in Nat
    BY <1>2
  <2> HIDE <1>1
  <2> QED BY <1>2, <1>3, <1>4, <2>1, <2>2
<1>5. Len(lh) < LOGBLOCKS
  BY Zenon, <1>2, <1>4 DEF Room
<1>6. /\ up' = up /\ lh' = (IF Contains(lh, b) THEN lh ELSE Append(lh, b))
      /\ wrote' = [wrote EXCEPT ![p] = @ \cup {b}]
  <2>1. ~(Len(lh) >= LOGBLOCKS)
    BY <1>2, <1>5
  <2> QED BY Zenon, <2>1 DEF log_write
<1>7. \A q \in Proc : wrote'[q] = IF q = p THEN wrote[q] \cup {b} ELSE wrote[q]
  BY Zenon, <1>2, <1>6 DEF Types
<1>8. \A q \in Proc : IsFiniteSet(wrote'[q]) /\ Cardinality(wrote'[q]) <= OpBlocks
  <2>1. IsFiniteSet(wrote[p]) /\ Cardinality(wrote[p]) \in Nat /\ Cardinality(wrote[p]) <= OpBlocks
    BY Zenon, FS_CardinalityType DEF Room
  <2>2. /\ IsFiniteSet(wrote[p] \cup {b})
        /\ Cardinality(wrote[p] \cup {b}) = IF b \in wrote[p] THEN Cardinality(wrote[p]) ELSE Cardinality(wrote[p]) + 1
    BY Zenon, <2>1, FS_AddElement
  <2>3. Cardinality(wrote[p] \cup {b}) <= OpBlocks
    BY <1>1, <1>2, <2>1, <2>2
  <2> QED BY Zenon, <1>7, <2>2, <2>3 DEF Room
<1>9. /\ IsFiniteSet(Writes') /\ Cardinality(Writes') \in Nat /\ Cardinality(Writes') <= outstanding * OpBlocks
  <2>1. wrote' \in [Proc -> SUBSET Block] /\ \A q \in Proc : q \notin OpSet => wrote'[q] = {}
    BY Zenon, <1>1, <1>2, <1>6, <1>7 DEF Types, Control, OpSet
  <2> QED BY Zenon, <1>2, <1>8, <2>1, PairCount DEF Writes, Control
<1>10. Len(lh') \in Nat /\ Len(lh') + outstanding * MAXOPBLOCKS <= LOGBLOCKS + Cardinality(Writes')
  <2>1. outstanding * MAXOPBLOCKS \in Nat /\ Len(lh) + outstanding * MAXOPBLOCKS <= LOGBLOCKS + Cardinality(Writes)
    BY <1>2 DEF Room
  <2>2. Len(lh') \in Nat
    BY DEF IndInv, Types
  <2>3. CASE Contains(lh, b)
    <3>1. Writes \subseteq Writes' /\ lh' = lh
      BY <1>6, <1>7, <2>3 DEF Writes, Pairs
    <3>2. Cardinality(Writes) <= Cardinality(Writes')
      BY Zenon, <1>9, <3>1, FS_Subset
    <3> QED BY <1>2, <1>9, <2>1, <2>2, <3>1, <3>2
  <2>4. CASE ~Contains(lh, b)
    <3>1. b \notin wrote[p]
      BY Zenon, <1>2, <2>4 DEF Control
    <3>2. Writes' = Writes \cup {<<p, b>>} /\ <<p, b>> \notin Writes
      <4>1. wrote \in [Proc -> SUBSET Block]
        BY Zenon, <1>2 DEF Types
      <4> QED BY Zenon, <1>7, <3>1, <4>1, WritesAdd
    <3>3. Cardinality(Writes') = Cardinality(Writes) + 1
      BY Zenon, <1>2, <3>2, FS_AddElement
    <3>4. Len(lh') = Len(lh) + 1
      BY <1>2, <1>6, <2>4 DEF Types
    <3> QED BY <1>2, <2>1, <3>3, <3>4
  <2> QED BY Zenon, <2>3, <2>4
<1>11. Len(lh') < LOGBLOCKS
  BY Zenon, <1>4, <1>9, <1>10
<1> QED BY Zenon, <1>1, <1>6, <1>8, <1>10, <1>11 DEF Room

\* end_op() gives back what the operation had reserved and did not use.
LEMMA RoomEnd == ASSUME Sizes, IndInv, Room, NEW p \in Proc, end_op(p) PROVE up' # "panic" /\ Room'
<1>1. /\ up = "up" /\ pc[p] = "op" /\ outstanding' = outstanding - 1 /\ wrote' = [wrote EXCEPT ![p] = {}] /\ lh' = lh
  BY Zenon DEF end_op, At
<1>2. /\ Types /\ Control /\ Len(lh) \in Nat /\ outstanding \in Nat /\ OpSet \in SUBSET Proc
      /\ IsFiniteSet(Writes) /\ Cardinality(Writes) \in Nat /\ Cardinality(Writes) <= outstanding * OpBlocks
      /\ LOGBLOCKS \in Nat /\ MAXOPBLOCKS \in Nat /\ OpBlocks \in Nat /\ NBUF \in Nat
  BY Zenon, <1>1, RoomFacts
<1>3. up' = up
  BY Zenon, <1>1, <1>2, OpAlone DEF end_op
<1>4. wrote \in [Proc -> SUBSET Block] /\ \A q \in Proc : wrote'[q] = IF q = p THEN {} ELSE wrote[q]
  BY Zenon, <1>1, <1>2 DEF Types
<1>5. IsFiniteSet(wrote[p]) /\ Cardinality(wrote[p]) \in Nat /\ Cardinality(wrote[p]) <= OpBlocks
  BY Zenon, FS_CardinalityType DEF Room
<1>6. Cardinality(Writes') = Cardinality(Writes) - Cardinality(wrote[p])
  <2>1. Writes' = Writes \ ({p} \X wrote[p]) /\ Writes \cap ({p} \X wrote[p]) = {p} \X wrote[p]
    <3>1. Pairs(wrote') = Pairs(wrote) \ ({p} \X wrote[p]) /\ Pairs(wrote) \cap ({p} \X wrote[p]) = {p} \X wrote[p]
      BY <1>4, PairsDrop
    <3> QED BY Zenon, <3>1 DEF Writes
  <2>2. IsFiniteSet({p}) /\ Cardinality({p}) = 1
    BY Zenon, FS_Singleton
  <2>3. Cardinality({p} \X wrote[p]) = Cardinality({p}) * Cardinality(wrote[p])
    BY Zenon, <1>5, <2>2, FS_Product
  <2>4. Cardinality({p} \X wrote[p]) = Cardinality(wrote[p])
    BY <1>5, <2>2, <2>3
  <2>5. Cardinality(Writes \ ({p} \X wrote[p])) = Cardinality(Writes) - Cardinality(Writes \cap ({p} \X wrote[p]))
    BY Zenon, <1>2, FS_Difference
  <2> QED BY Zenon, <2>1, <2>4, <2>5
<1>7. Len(lh') + outstanding' * MAXOPBLOCKS <= LOGBLOCKS + Cardinality(Writes')
  <2>1. (outstanding - 1) * MAXOPBLOCKS = outstanding * MAXOPBLOCKS - MAXOPBLOCKS /\ outstanding * MAXOPBLOCKS \in Nat
    BY <1>2, Products DEF Sizes
  <2>2. Len(lh) + outstanding * MAXOPBLOCKS <= LOGBLOCKS + Cardinality(Writes)
    BY Zenon DEF Room
  <2> QED BY <1>1, <1>2, <1>5, <1>6, <2>1, <2>2 DEF Sizes
<1>8. \A q \in Proc : IsFiniteSet(wrote'[q]) /\ Cardinality(wrote'[q]) <= OpBlocks
  <2>1. IsFiniteSet({}) /\ Cardinality({}) <= OpBlocks
    BY <1>2, FS_EmptySet
  <2> QED BY Zenon, <1>4, <2>1 DEF Room
<1> QED BY Zenon, <1>1, <1>3, <1>7, <1>8 DEF Room

LEMMA RoomCommit == ASSUME Sizes, IndInv, Room, NEW p \in Proc, Commit(p) PROVE up' # "panic" /\ Room'
<1>1. up = "up" /\ UNCHANGED <<outstanding, wrote>> /\ (lh' = lh \/ lh' = <<>>)
  BY Zenon DEF Commit, write_log, write_head, Install, Erase, CommitDone, At
<1>2. Room'
  BY Zenon, <1>1, RoomKept
<1>3. CASE write_log(p)
  <2>1. Types /\ tail \in 1 .. Len(lh)
    BY Zenon, <1>3 DEF IndInv, Running, CommitOK, write_log, At
  <2>2. lh # <<>>
    BY <2>1 DEF Types
  <2>3. ~(Len(lh) >= NBUF)
    BY <1>1, <2>2, RoomFacts DEF Room, Sizes
  <2> QED BY Zenon, <1>1, <1>2, <1>3, <2>3 DEF write_log
<1>4. CASE write_head(p) \/ Install(p) \/ Erase(p) \/ CommitDone(p)
  BY Zenon, <1>1, <1>2, <1>4 DEF write_head, Install, Erase, CommitDone
<1> QED BY Zenon, <1>3, <1>4 DEF Commit

\* A log that is empty, with no operation in progress.
LEMMA RoomEmpty ==
  ASSUME NEW w, \A p \in Proc : w[p] = {}
  PROVE  /\ \A p \in Proc : IsFiniteSet(w[p]) /\ Cardinality(w[p]) <= OpBlocks
         /\ 0 + 0 * MAXOPBLOCKS <= LOGBLOCKS + Cardinality(Pairs(w))
<1>1. OpBlocks \in Nat /\ LOGBLOCKS \in Nat /\ MAXOPBLOCKS \in Nat
  BY LogAssumption
<1>2. Pairs(w) = {}
  <2>1. \A x \in Proc \X Block : x[1] \in Proc
    OBVIOUS
  <2> QED BY Zenon, <2>1 DEF Pairs
<1>3. IsFiniteSet({}) /\ Cardinality({}) = 0
  BY Zenon, FS_EmptySet
<1>4. 0 + 0 * MAXOPBLOCKS <= LOGBLOCKS + 0
  BY <1>1
<1>5. 0 <= OpBlocks
  BY <1>1
<1> QED BY Zenon, <1>2, <1>3, <1>4, <1>5

RoomInv == up # "panic" /\ (up = "up" => Room)

LEMMA RoomInd == ASSUME Sizes, IndInv, IndInv', RoomInv, [Next]_vars PROVE RoomInv'
<1>1. ASSUME NEW p \in Proc, Op(p) PROVE RoomInv'
  <2>1. up = "up" /\ Room
    BY Zenon, <1>1 DEF RoomInv, Op, begin_op, end_op, log_write, At
  <2> QED BY Zenon, <1>1, <2>1, RoomBegin, RoomEnd, RoomWrite DEF Op, RoomInv
<1>2. ASSUME NEW p \in Proc, Commit(p) PROVE RoomInv'
  <2>1. up = "up" /\ Room
    BY Zenon, <1>2 DEF RoomInv, Commit, write_log, write_head, Install, Erase, CommitDone, At
  <2> QED BY Zenon, <1>2, <2>1, RoomCommit DEF RoomInv
<1>3. ASSUME NEW p \in Proc, Sync(p) PROVE RoomInv'
  <2>1. up = "up" /\ Room /\ up' = up /\ UNCHANGED <<outstanding, wrote, lh>>
    BY Zenon, <1>3 DEF RoomInv, Sync, sys_sync_call, sys_sync_return, AfterSync, At
  <2> QED BY Zenon, <2>1, RoomKept DEF RoomInv
<1>4. CASE Crash \/ Recover
  BY Zenon, <1>4 DEF Crash, Recover, RoomInv
<1>5. CASE RecoverDone
  <2>1. up' = "up" /\ lh' = <<>> /\ outstanding' = 0 /\ (\A p \in Proc : wrote'[p] = {}) /\ Len(lh') = 0
    BY Zenon, <1>5 DEF RecoverDone, IndInv, Booting, ops
  <2> QED BY Zenon, <2>1, RoomEmpty DEF RoomInv, Room, Writes
<1>6. CASE UNCHANGED vars
  <2>1. UNCHANGED <<outstanding, wrote, lh, up>>
    BY Zenon, <1>6 DEF vars
  <2> QED BY Zenon, <2>1, RoomKept DEF RoomInv
<1> QED BY Zenon, <1>1, <1>2, <1>3, <1>4, <1>5, <1>6 DEF Next

\* What begin_op() reserves is enough: with operations of fewer than MAXOPBLOCKS blocks
\* and a buffer for every log block, log_write() never finds the log full ("too big a
\* transaction"), end_op() never finds a commit, and write_log() finds a buffer.
THEOREM ReservationSuffices == ASSUME Sizes PROVE Spec => []NoPanic
<1>1. Init => RoomInv
  <2> SUFFICES ASSUME Init PROVE RoomInv
    OBVIOUS
  <2>1. up = "up" /\ lh = <<>> /\ outstanding = 0 /\ (\A p \in Proc : wrote[p] = {}) /\ Len(lh) = 0
    BY Zenon DEF Init
  <2> QED BY Zenon, <2>1, RoomEmpty DEF RoomInv, Room, Writes
<1>2. IndInv /\ IndInv' /\ RoomInv /\ [Next]_vars => RoomInv'
  BY Zenon, RoomInd
<1>3. RoomInv => NoPanic
  BY Zenon DEF RoomInv, NoPanic
<1> QED BY <1>1, <1>2, <1>3, Invariance, PTL DEF Spec

=============================================================================
