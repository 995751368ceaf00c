---------------------------- MODULE BcacheProofs ----------------------------
(***************************************************************************)
(* Theorems about Bcache: for any number of processes, buffers and blocks, *)
(* no block is cached twice, a buffer somebody waits for is not recycled,  *)
(* and the cache is transparent.                                           *)
(***************************************************************************)
EXTENDS Bcache, FiniteSetTheorems, TLAPS

----------------------------------------------------------------------------
(* The inductive invariant *)

Label == {"idle", "lock", "asleep", "read", "hold", "rel", "panic"}

\* The process is between bget() and the end of brelse().
Using(p) == pc[p] \in {"lock", "asleep", "read", "hold", "rel"}

Pin(i) == IF i \in pinned THEN 1 ELSE 0

Types ==
  /\ disk \in [Block -> Val] /\ data \in [Buf -> Val] /\ blockno \in [Buf -> Block \cup {None}]
  /\ valid \in [Buf -> BOOLEAN] /\ refcnt \in [Buf -> Nat] /\ locked \in [Buf -> Proc \cup {None}]
  /\ pinned \in SUBSET Buf /\ pc \in [Proc -> Label] /\ buf \in [Proc -> Buf] /\ want \in [Proc -> Block \cup {None}]

\* The list has every buffer once.
List == lru \in Seq(Buf) /\ Len(lru) = NBUF /\ \A i \in Buf : \E n \in 1 .. NBUF : lru[n] = i

Counted == \A i \in Buf : refcnt[i] = Cardinality(Uses(i)) + Pin(i)

\* b->lock is held from acquiresleep() to releasesleep().
Held == \A i \in Buf, p \in Proc : locked[i] = p <=> buf[p] = i /\ pc[p] \in {"read", "hold"}

\* A buffer that is valid and not pinned has what the disk has.
Contents ==
  /\ \A p \in Proc : (pc[p] = "hold" => valid[buf[p]]) /\ (pc[p] = "read" => ~valid[buf[p]])
  /\ \A i \in pinned : valid[i]
  /\ \A i \in Buf : valid[i] => blockno[i] \in Block /\ (i \notin pinned => data[i] = disk[blockno[i]])
  /\ \A p \in Proc : Using(p) => blockno[buf[p]] \in Block /\ blockno[buf[p]] = want[p]

Unique == \A i, j \in Buf : blockno[i] = blockno[j] /\ blockno[i] # None => i = j

IndInv == Types /\ List /\ Counted /\ Held /\ Contents /\ Unique

----------------------------------------------------------------------------
LEMMA ProcCount ==
  /\ \A S \in SUBSET Proc : IsFiniteSet(S) /\ Cardinality(S) \in Nat /\ (Cardinality(S) = 0 <=> S = {})
  /\ \A S \in SUBSET Proc : \A p \in Proc \ S : Cardinality(S \cup {p}) = Cardinality(S) + 1
  /\ \A S \in SUBSET Proc : \A p \in S : Cardinality(S \ {p}) = Cardinality(S) - 1
<1>1. \A S \in SUBSET Proc : IsFiniteSet(S)
  BY Zenon, BcacheAssumption, FS_Subset
<1> QED BY Zenon, <1>1, FS_CardinalityType, FS_EmptySet, FS_AddElement, FS_RemoveElement

LEMMA UsesDef ==
  /\ \A i : Uses(i) = {p \in Proc : buf[p] = i /\ Using(p)} /\ Uses(i) \in SUBSET Proc
  /\ \A i : Uses(i)' = {p \in Proc : buf'[p] = i /\ Using(p)'} /\ Uses(i)' \in SUBSET Proc
BY Zenon DEF Uses, Using

\* A buffer with no reference is used by nobody, not pinned and not locked.
LEMMA Free ==
  ASSUME Types, Counted, Held, NEW i \in Buf, refcnt[i] = 0
  PROVE  i \notin pinned /\ Uses(i) = {} /\ locked[i] = None /\ \A p \in Proc : Using(p) => buf[p] # i
<1>1. Uses(i) \in SUBSET Proc /\ Cardinality(Uses(i)) \in Nat /\ (Cardinality(Uses(i)) = 0 <=> Uses(i) = {})
  BY Zenon, UsesDef, ProcCount
<1>2. i \notin pinned /\ Uses(i) = {}
  BY <1>1 DEF Counted, Pin
<1>3. \A p \in Proc : Using(p) => buf[p] # i
  BY Zenon, <1>2, UsesDef
<1>4. locked[i] = None
  BY <1>3 DEF Held, Types, Using
<1> QED BY Zenon, <1>2, <1>3, <1>4

\* The references of the buffers when a process has entered or left one, or nobody has.
LEMMA UsesSame ==
  ASSUME \A q \in Proc : buf'[q] = buf[q] /\ (Using(q)' <=> Using(q)) PROVE \A i : Uses(i)' = Uses(i)
BY Zenon, UsesDef

LEMMA UsesEnter ==
  ASSUME NEW p \in Proc, ~Using(p), Using(p)', \A q \in Proc : q # p => buf'[q] = buf[q] /\ (Using(q)' <=> Using(q))
  PROVE  \A i : /\ i = buf'[p] => p \notin Uses(i) /\ Uses(i)' = Uses(i) \cup {p}
                /\ i # buf'[p] => Uses(i)' = Uses(i)
BY Zenon, UsesDef

LEMMA UsesLeave ==
  ASSUME NEW p \in Proc, Using(p), ~Using(p)', buf' = buf, \A q \in Proc : q # p => (Using(q)' <=> Using(q))
  PROVE  \A i : /\ i = buf[p] => p \in Uses(i) /\ Uses(i)' = Uses(i) \ {p}
                /\ i # buf[p] => Uses(i)' = Uses(i)
BY Zenon, UsesDef

----------------------------------------------------------------------------
(* bget() keeps the invariant *)

LEMMA HitInd ==
  ASSUME IndInv, NEW p \in Proc, NEW b \in Block, NEW i \in Buf, pc[p] = "idle", blockno[i] = b,
         want' = [want EXCEPT ![p] = b], refcnt' = [refcnt EXCEPT ![i] = @ + 1], buf' = [buf EXCEPT ![p] = i],
         pc' = [pc EXCEPT ![p] = "lock"], UNCHANGED <<blockno, valid, disk, data, lru, locked, pinned>>
  PROVE  IndInv'
<1>1. Types /\ Types'
  <2>1. Types
    BY Zenon DEF IndInv
  <2>2. want' \in [Proc -> Block \cup {None}] /\ buf' \in [Proc -> Buf]
    BY Zenon, <2>1 DEF Types
  <2>3. refcnt' \in [Buf -> Nat]
    BY <2>1 DEF Types
  <2>4. pc' \in [Proc -> Label]
    BY Zenon, <2>1 DEF Types, Label
  <2> QED BY Zenon, <2>1, <2>2, <2>3, <2>4 DEF Types
<1>2. /\ \A q \in Proc : pc'[q] = (IF q = p THEN "lock" ELSE pc[q]) /\ buf'[q] = (IF q = p THEN i ELSE buf[q])
                         /\ want'[q] = (IF q = p THEN b ELSE want[q])
      /\ \A j \in Buf : refcnt'[j] = IF j = i THEN refcnt[j] + 1 ELSE refcnt[j]
  BY Zenon, <1>1 DEF Types
<1>3. ~Using(p) /\ Using(p)' /\ \A q \in Proc : q # p => buf'[q] = buf[q] /\ (Using(q)' <=> Using(q))
  BY Zenon, <1>2 DEF Using
<1>4. Counted'
  <2> SUFFICES ASSUME NEW j \in Buf PROVE refcnt'[j] = Cardinality(Uses(j)') + Pin(j)'
    BY Zenon DEF Counted
  <2>1. /\ j = i => p \notin Uses(j) /\ Uses(j)' = Uses(j) \cup {p}
        /\ j # i => Uses(j)' = Uses(j)
    BY <1>2, <1>3, UsesEnter
  <2>2. refcnt[j] = Cardinality(Uses(j)) + Pin(j) /\ Pin(j)' = Pin(j) /\ Pin(j) \in Nat
    BY Zenon DEF IndInv, Counted, Pin
  <2>3. Uses(j) \in SUBSET Proc
    BY Zenon, UsesDef
  <2>4. Cardinality(Uses(j)) \in Nat /\ (j = i => Cardinality(Uses(j)') = Cardinality(Uses(j)) + 1)
    BY Zenon, <2>1, <2>3, ProcCount
  <2> QED BY <1>2, <2>1, <2>2, <2>4
<1>5. Held'
  <2>1. \A j \in Buf : locked[j] # p
    BY Zenon DEF IndInv, Held
  <2> QED BY <1>2, <2>1 DEF IndInv, Held
<1>6. Contents'
  <2>1. \A q \in Proc : (pc'[q] = "hold" => valid'[buf'[q]]) /\ (pc'[q] = "read" => ~valid'[buf'[q]])
    BY <1>2 DEF IndInv, Contents
  <2>2. \A q \in Proc : Using(q)' => blockno'[buf'[q]] \in Block /\ blockno'[buf'[q]] = want'[q]
    BY <1>2, <1>3 DEF IndInv, Contents
  <2> QED BY Zenon, <2>1, <2>2 DEF IndInv, Contents
<1> QED BY Zenon, <1>1, <1>4, <1>5, <1>6 DEF IndInv, List, Unique

\* The victim is used by nobody and not pinned, so nobody loses the block it had.
LEMMA MissInd ==
  ASSUME IndInv, NEW p \in Proc, NEW b \in Block, NEW i \in Buf, pc[p] = "idle", Cached(b) = {}, refcnt[i] = 0,
         want' = [want EXCEPT ![p] = b], refcnt' = [refcnt EXCEPT ![i] = 1], buf' = [buf EXCEPT ![p] = i],
         blockno' = [blockno EXCEPT ![i] = b], valid' = [valid EXCEPT ![i] = FALSE],
         pc' = [pc EXCEPT ![p] = "lock"], UNCHANGED <<disk, data, lru, locked, pinned>>
  PROVE  IndInv'
<1>1. Types /\ Types'
  <2>1. Types
    BY Zenon DEF IndInv
  <2>2. want' \in [Proc -> Block \cup {None}] /\ buf' \in [Proc -> Buf] /\ blockno' \in [Buf -> Block \cup {None}]
    BY Zenon, <2>1 DEF Types
  <2>3. refcnt' \in [Buf -> Nat]
    BY Zenon, <2>1 DEF Types
  <2>4. pc' \in [Proc -> Label] /\ valid' \in [Buf -> BOOLEAN]
    BY Zenon, <2>1 DEF Types, Label
  <2> QED BY Zenon, <2>1, <2>2, <2>3, <2>4 DEF Types
<1>2. /\ \A q \in Proc : pc'[q] = (IF q = p THEN "lock" ELSE pc[q]) /\ buf'[q] = (IF q = p THEN i ELSE buf[q])
                         /\ want'[q] = (IF q = p THEN b ELSE want[q])
      /\ \A j \in Buf : refcnt'[j] = (IF j = i THEN 1 ELSE refcnt[j]) /\ blockno'[j] = (IF j = i THEN b ELSE blockno[j])
      /\ \A j \in Buf : j # i => valid'[j] = valid[j]
      /\ ~valid'[i]
  BY Zenon, <1>1 DEF Types
<1>3. i \notin pinned /\ Uses(i) = {} /\ locked[i] = None /\ \A q \in Proc : Using(q) => buf[q] # i
  BY Zenon, Free DEF IndInv
<1>4. ~Using(p) /\ Using(p)' /\ \A q \in Proc : q # p => buf'[q] = buf[q] /\ (Using(q)' <=> Using(q))
  BY Zenon, <1>2 DEF Using
<1>5. Counted'
  <2> SUFFICES ASSUME NEW j \in Buf PROVE refcnt'[j] = Cardinality(Uses(j)') + Pin(j)'
    BY Zenon DEF Counted
  <2>1. /\ j = i => Uses(j)' = {p}
        /\ j # i => Uses(j)' = Uses(j)
    BY <1>2, <1>3, <1>4, UsesEnter
  <2>2. refcnt[j] = Cardinality(Uses(j)) + Pin(j) /\ Pin(j)' = Pin(j) /\ (j = i => Pin(j) = 0)
    BY Zenon, <1>3 DEF IndInv, Counted, Pin
  <2>3. Cardinality({p}) = 1
    BY Zenon, FS_Singleton
  <2> QED BY <1>2, <2>1, <2>2, <2>3
<1>6. Held'
  <2>1. \A j \in Buf : locked[j] # p
    BY Zenon DEF IndInv, Held
  <2> QED BY <1>2, <2>1 DEF IndInv, Held
<1>7. Contents'
  <2>1. \A q \in Proc : (pc'[q] = "hold" => valid'[buf'[q]]) /\ (pc'[q] = "read" => ~valid'[buf'[q]])
    BY <1>1, <1>2, <1>3, <1>4 DEF IndInv, Contents, Using, Types
  <2>2. \A q \in Proc : Using(q)' => blockno'[buf'[q]] \in Block /\ blockno'[buf'[q]] = want'[q]
    BY <1>1, <1>2, <1>3, <1>4 DEF IndInv, Contents, Types
  <2>3. \A j \in pinned' : valid'[j]
    BY Zenon, <1>1, <1>2, <1>3 DEF IndInv, Contents, Types
  <2>4. \A j \in Buf : valid'[j] => blockno'[j] \in Block /\ (j \notin pinned' => data'[j] = disk'[blockno'[j]])
    BY <1>2 DEF IndInv, Contents
  <2> QED BY Zenon, <2>1, <2>2, <2>3, <2>4 DEF Contents
<1>8. Unique'
  <2>1. \A j \in Buf : blockno[j] # b
    BY Zenon DEF Cached
  <2> QED BY <1>2, <2>1 DEF IndInv, Unique
<1> QED BY Zenon, <1>1, <1>5, <1>6, <1>7, <1>8 DEF IndInv, List

LEMMA BgetInd == ASSUME IndInv, NEW p \in Proc, NEW b \in Block, bget(p, b) PROVE IndInv'
<1>1. pc[p] = "idle" /\ want' = [want EXCEPT ![p] = b] /\ UNCHANGED <<disk, data, lru, locked, pinned>>
  BY Zenon DEF bget
<1>2. ASSUME NEW i \in Cached(b), refcnt' = [refcnt EXCEPT ![i] = @ + 1], buf' = [buf EXCEPT ![p] = i],
             Goto(p, "lock"), UNCHANGED <<blockno, valid>>
      PROVE  IndInv'
  <2>1. i \in Buf /\ blockno[i] = b
    BY Zenon DEF Cached
  <2> QED BY Zenon, <1>1, <1>2, <2>1, HitInd DEF Goto
<1>3. ASSUME Cached(b) = {}, NEW i \in Victim, blockno' = [blockno EXCEPT ![i] = b], valid' = [valid EXCEPT ![i] = FALSE],
             refcnt' = [refcnt EXCEPT ![i] = 1], buf' = [buf EXCEPT ![p] = i], Goto(p, "lock")
      PROVE  IndInv'
  <2>1. i \in Buf /\ refcnt[i] = 0
    BY Zenon DEF Victim, Unused
  <2> QED BY Zenon, <1>1, <1>3, <2>1, MissInd DEF Goto
<1>4. ASSUME Goto(p, "panic"), UNCHANGED <<blockno, valid, refcnt, buf>> PROVE IndInv'
  <2>1. Types /\ Types'
    <3>1. Types
      BY Zenon DEF IndInv
    <3>2. pc' \in [Proc -> Label] /\ want' \in [Proc -> Block \cup {None}]
      BY Zenon, <1>1, <1>4, <3>1 DEF Types, Label, Goto
    <3> QED BY Zenon, <1>1, <1>4, <3>1, <3>2 DEF Types
  <2>2. \A q \in Proc : pc'[q] = (IF q = p THEN "panic" ELSE pc[q]) /\ (q # p => want'[q] = want[q])
    BY Zenon, <1>1, <1>4, <2>1 DEF Types, Goto
  <2>3. ~Using(p) /\ ~Using(p)' /\ \A q \in Proc : Using(q)' <=> Using(q)
    BY Zenon, <1>1, <2>2 DEF Using
  <2>4. \A j : Uses(j)' = Uses(j)
    BY Zenon, <1>4, <2>3, UsesSame
  <2>5. Counted'
    BY Zenon, <1>1, <1>4, <2>4 DEF IndInv, Counted, Pin
  <2>6. Held'
    BY <1>1, <1>4, <2>2 DEF IndInv, Held
  <2>7. Contents'
    <3>1. \A q \in Proc : (pc'[q] = "hold" => valid'[buf'[q]]) /\ (pc'[q] = "read" => ~valid'[buf'[q]])
      BY <1>1, <1>4, <2>2 DEF IndInv, Contents
    <3>2. \A q \in Proc : Using(q)' => blockno'[buf'[q]] \in Block /\ blockno'[buf'[q]] = want'[q]
      BY Zenon, <1>4, <2>2, <2>3 DEF IndInv, Contents
    <3> QED BY Zenon, <1>1, <1>4, <3>1, <3>2 DEF IndInv, Contents
  <2> QED BY Zenon, <1>1, <1>4, <2>1, <2>5, <2>6, <2>7 DEF IndInv, List, Unique
<1> QED BY Zenon, <1>2, <1>3, <1>4 DEF bget

----------------------------------------------------------------------------
(* acquiresleep(), the reading of a buffer and what its holder does *)

\* A step in which nobody enters or leaves a buffer and no buffer changes its block.
LEMMA Frame ==
  ASSUME IndInv, UNCHANGED <<blockno, want, buf, lru>>, \A q \in Proc : Using(q)' <=> Using(q)
  PROVE  /\ Unique' /\ List'
         /\ \A i : Uses(i)' = Uses(i)
         /\ \A q \in Proc : Using(q)' => blockno'[buf'[q]] \in Block /\ blockno'[buf'[q]] = want'[q]
         /\ UNCHANGED <<refcnt, pinned>> => Counted'
<1>1. \A i : Uses(i)' = Uses(i)
  BY Zenon, UsesSame
<1>2. \A q \in Proc : Using(q)' => blockno'[buf'[q]] \in Block /\ blockno'[buf'[q]] = want'[q]
  BY Zenon DEF IndInv, Contents
<1>3. Unique' /\ List'
  BY Zenon DEF IndInv, Unique, List
<1>4. UNCHANGED <<refcnt, pinned>> => Counted'
  BY Zenon, <1>1 DEF IndInv, Counted, Pin
<1> QED BY Zenon, <1>1, <1>2, <1>3, <1>4

\* Whoever holds a buffer is the only one to.
LEMMA OneHolder ==
  ASSUME IndInv, NEW p \in Proc, pc[p] \in {"read", "hold"}
  PROVE  /\ Types /\ buf[p] \in Buf /\ Using(p) /\ locked[buf[p]] = p /\ blockno[buf[p]] \in Block /\ blockno[buf[p]] = want[p]
         /\ \A q \in Proc : pc[q] \in {"read", "hold"} /\ buf[q] = buf[p] => q = p
<1>1. Types /\ buf[p] \in Buf /\ Using(p)
  BY Zenon DEF IndInv, Types, Using
<1> QED BY <1>1 DEF IndInv, Held, Contents

LEMMA AcquireInd == ASSUME IndInv, NEW p \in Proc, acquiresleep(p) PROVE IndInv'
<1> DEFINE l == IF locked[buf[p]] # None THEN "asleep" ELSE IF valid[buf[p]] THEN "hold" ELSE "read"
<1>1. /\ Types /\ buf[p] \in Buf /\ pc[p] = "lock" /\ pc' = [pc EXCEPT ![p] = l]
      /\ UNCHANGED <<disk, blockno, valid, refcnt, lru, data, pinned, want, buf>>
      /\ locked[buf[p]] # None => locked' = locked
      /\ locked[buf[p]] = None => locked' = [locked EXCEPT ![buf[p]] = p]
  BY Zenon DEF IndInv, Types, acquiresleep, Goto, list
<1>2. pc' \in [Proc -> Label] /\ \A q \in Proc : pc'[q] = IF q = p THEN l ELSE pc[q]
  BY Zenon, <1>1 DEF Types, Label
<1>3. \A q \in Proc : Using(q)' <=> Using(q)
  BY Zenon, <1>1, <1>2 DEF Using
<1>4. /\ locked' \in [Buf -> Proc \cup {None}]
      /\ \A i \in Buf : locked'[i] = IF i = buf[p] /\ locked[i] = None THEN p ELSE locked[i]
  BY <1>1 DEF Types
<1>5. Types'
  BY Zenon, <1>1, <1>2, <1>4 DEF Types
<1>6. Held'
  <2>1. None \notin Proc
    BY Zenon, BcacheAssumption
  <2>2. \A i \in Buf : locked[i] # p
    BY Zenon, <1>1 DEF IndInv, Held
  <2> SUFFICES ASSUME NEW i \in Buf, NEW q \in Proc PROVE locked'[i] = q <=> buf[q] = i /\ pc'[q] \in {"read", "hold"}
    BY <1>1 DEF Held
  <2>3. locked[i] = q <=> buf[q] = i /\ pc[q] \in {"read", "hold"}
    BY Zenon DEF IndInv, Held
  <2>4. CASE q = p
    BY Zenon, <1>2, <1>4, <2>1, <2>2, <2>4
  <2>5. CASE q # p
    BY Zenon, <1>2, <1>4, <2>1, <2>3, <2>5
  <2> QED BY Zenon, <2>4, <2>5
<1>7. \A q \in Proc : (pc'[q] = "hold" => valid'[buf'[q]]) /\ (pc'[q] = "read" => ~valid'[buf'[q]])
  BY Zenon, <1>1, <1>2 DEF IndInv, Contents
<1>8. Contents'
  BY Zenon, <1>1, <1>3, <1>7, Frame DEF IndInv, Contents
<1> QED BY Zenon, <1>1, <1>3, <1>5, <1>6, <1>8, Frame DEF IndInv

LEMMA BreadInd == ASSUME IndInv, NEW p \in Proc, bread(p) PROVE IndInv'
<1>1. /\ pc[p] = "read" /\ pc' = [pc EXCEPT ![p] = "hold"] /\ UNCHANGED <<disk, blockno, refcnt, lru, locked, pinned, want, buf>>
      /\ data' = [data EXCEPT ![buf[p]] = disk[blockno[buf[p]]]] /\ valid' = [valid EXCEPT ![buf[p]] = TRUE]
  BY Zenon DEF bread, Goto
<1>2. /\ Types /\ buf[p] \in Buf /\ Using(p) /\ locked[buf[p]] = p /\ blockno[buf[p]] \in Block
      /\ \A q \in Proc : pc[q] \in {"read", "hold"} /\ buf[q] = buf[p] => q = p
  BY Zenon, <1>1, OneHolder
<1>3. pc' \in [Proc -> Label] /\ \A q \in Proc : pc'[q] = IF q = p THEN "hold" ELSE pc[q]
  BY Zenon, <1>1, <1>2 DEF Types, Label
<1>4. /\ data' \in [Buf -> Val] /\ data'[buf[p]] = disk[blockno[buf[p]]]
      /\ \A i \in Buf : i # buf[p] => data'[i] = data[i]
  BY Zenon, <1>1, <1>2 DEF Types
<1>5. valid' \in [Buf -> BOOLEAN] /\ valid'[buf[p]] /\ \A i \in Buf : i # buf[p] => valid'[i] = valid[i]
  BY Zenon, <1>1, <1>2 DEF Types
<1>6. \A q \in Proc : Using(q)' <=> Using(q)
  BY Zenon, <1>1, <1>3 DEF Using
<1>7. Types'
  BY Zenon, <1>1, <1>2, <1>3, <1>4, <1>5 DEF Types
<1>8. Held'
  BY <1>1, <1>3 DEF IndInv, Held
<1>9. Contents'
  <2>1. \A q \in Proc : (pc'[q] = "hold" => valid'[buf'[q]]) /\ (pc'[q] = "read" => ~valid'[buf'[q]])
    BY <1>1, <1>2, <1>3, <1>5 DEF IndInv, Contents, Types
  <2>2. \A i \in pinned' : valid'[i]
    BY Zenon, <1>1, <1>2, <1>5 DEF IndInv, Contents, Types
  <2>3. \A i \in Buf : valid'[i] => blockno'[i] \in Block /\ (i \notin pinned' => data'[i] = disk'[blockno'[i]])
    BY Zenon, <1>1, <1>2, <1>4, <1>5 DEF IndInv, Contents
  <2> QED BY Zenon, <1>1, <1>6, <2>1, <2>2, <2>3, Frame DEF Contents
<1> QED BY Zenon, <1>1, <1>6, <1>7, <1>8, <1>9, Frame DEF IndInv

LEMMA BpinInd == ASSUME IndInv, NEW p \in Proc, NEW x \in Val, bpin(p, x) PROVE IndInv'
<1>1. /\ pc[p] = "hold" /\ UNCHANGED <<disk, blockno, valid, lru, locked, pc, want, buf>>
      /\ data' = [data EXCEPT ![buf[p]] = x] /\ pinned' = pinned \cup {buf[p]}
      /\ refcnt' = IF buf[p] \in pinned THEN refcnt ELSE [refcnt EXCEPT ![buf[p]] = @ + 1]
  BY Zenon DEF bpin
<1>2. /\ Types /\ buf[p] \in Buf /\ Using(p) /\ blockno[buf[p]] \in Block
  BY Zenon, <1>1, OneHolder
<1>3. data' \in [Buf -> Val] /\ \A i \in Buf : i # buf[p] => data'[i] = data[i]
  BY Zenon, <1>1, <1>2 DEF Types
<1>4. /\ refcnt' \in [Buf -> Nat]
      /\ \A i \in Buf : refcnt'[i] = IF i = buf[p] /\ i \notin pinned THEN refcnt[i] + 1 ELSE refcnt[i]
  BY <1>1, <1>2 DEF Types
<1>5. Types'
  BY <1>1, <1>2, <1>3, <1>4 DEF Types
<1>6. \A q \in Proc : Using(q)' <=> Using(q)
  BY Zenon, <1>1 DEF Using
<1>7. Counted'
  <2> SUFFICES ASSUME NEW i \in Buf PROVE refcnt'[i] = Cardinality(Uses(i)') + Pin(i)'
    BY Zenon DEF Counted
  <2>1. refcnt[i] = Cardinality(Uses(i)) + Pin(i) /\ Uses(i)' = Uses(i) /\ Cardinality(Uses(i)) \in Nat
    BY Zenon, <1>1, <1>6, Frame, ProcCount, UsesDef DEF IndInv, Counted
  <2>2. Pin(i)' = IF i = buf[p] /\ i \notin pinned THEN Pin(i) + 1 ELSE Pin(i)
    BY <1>1 DEF Pin
  <2> QED BY <1>4, <2>1, <2>2 DEF Pin
<1>8. Held'
  BY Zenon, <1>1 DEF IndInv, Held
<1>9. Contents'
  <2>1. \A q \in Proc : (pc'[q] = "hold" => valid'[buf'[q]]) /\ (pc'[q] = "read" => ~valid'[buf'[q]])
    BY Zenon, <1>1 DEF IndInv, Contents
  <2>2. \A i \in pinned' : valid'[i]
    BY Zenon, <1>1 DEF IndInv, Contents
  <2>3. \A i \in Buf : valid'[i] => blockno'[i] \in Block /\ (i \notin pinned' => data'[i] = disk'[blockno'[i]])
    BY Zenon, <1>1, <1>3 DEF IndInv, Contents
  <2> QED BY Zenon, <1>1, <1>6, <2>1, <2>2, <2>3, Frame DEF Contents
<1> QED BY Zenon, <1>1, <1>5, <1>6, <1>7, <1>8, <1>9, Frame DEF IndInv

LEMMA BunpinInd == ASSUME IndInv, NEW p \in Proc, bunpin(p) PROVE IndInv'
<1>1. /\ pc[p] = "hold" /\ buf[p] \in pinned /\ UNCHANGED <<blockno, valid, data, lru, locked, pc, want, buf>>
      /\ disk' = [disk EXCEPT ![blockno[buf[p]]] = data[buf[p]]]
      /\ refcnt' = [refcnt EXCEPT ![buf[p]] = @ - 1] /\ pinned' = pinned \ {buf[p]}
  BY Zenon DEF bunpin
<1>2. Types /\ buf[p] \in Buf /\ Using(p) /\ blockno[buf[p]] \in Block
  BY Zenon, <1>1, OneHolder
<1>3. /\ disk' \in [Block -> Val] /\ disk'[blockno[buf[p]]] = data[buf[p]]
      /\ \A b \in Block : b # blockno[buf[p]] => disk'[b] = disk[b]
  BY Zenon, <1>1, <1>2 DEF Types
<1>4. \A i \in Buf : refcnt'[i] = IF i = buf[p] THEN refcnt[i] - 1 ELSE refcnt[i]
  BY Zenon, <1>1, <1>2 DEF Types
<1>5. \A q \in Proc : Using(q)' <=> Using(q)
  BY Zenon, <1>1 DEF Using
<1>6. ASSUME NEW i \in Buf PROVE refcnt'[i] = Cardinality(Uses(i)') + Pin(i)' /\ refcnt'[i] \in Nat
  <2>1. refcnt[i] = Cardinality(Uses(i)) + Pin(i) /\ Uses(i)' = Uses(i) /\ Cardinality(Uses(i)) \in Nat
    BY Zenon, <1>1, <1>5, Frame, ProcCount, UsesDef DEF IndInv, Counted
  <2>2. Pin(i)' = (IF i = buf[p] THEN Pin(i) - 1 ELSE Pin(i)) /\ Pin(i)' \in Nat /\ Pin(i) \in Nat
    BY <1>1 DEF Pin
  <2> QED BY <1>4, <2>1, <2>2
<1>7. refcnt' \in [Buf -> Nat]
  BY Zenon, <1>1, <1>2, <1>6 DEF Types
<1>8. Types'
  BY Zenon, <1>1, <1>2, <1>3, <1>7 DEF Types
<1>9. Counted'
  BY Zenon, <1>6 DEF Counted
<1>10. Held'
  BY Zenon, <1>1 DEF IndInv, Held
<1>11. Contents'
  <2>1. \A q \in Proc : (pc'[q] = "hold" => valid'[buf'[q]]) /\ (pc'[q] = "read" => ~valid'[buf'[q]])
    BY Zenon, <1>1 DEF IndInv, Contents
  <2>2. \A i \in pinned' : valid'[i]
    BY Zenon, <1>1 DEF IndInv, Contents
  <2>3. ASSUME NEW i \in Buf, valid'[i] PROVE blockno'[i] \in Block /\ (i \notin pinned' => data'[i] = disk'[blockno'[i]])
    <3>1. blockno[i] \in Block /\ (i \notin pinned => data[i] = disk[blockno[i]])
      BY Zenon, <1>1, <2>3 DEF IndInv, Contents
    <3>2. i # buf[p] => blockno[i] # blockno[buf[p]]
      BY Zenon, <1>2, <3>1, BcacheAssumption DEF IndInv, Unique
    <3> QED BY Zenon, <1>1, <1>3, <3>1, <3>2
  <2> QED BY Zenon, <1>1, <1>5, <2>1, <2>2, <2>3, Frame DEF Contents
<1> QED BY Zenon, <1>1, <1>5, <1>8, <1>9, <1>10, <1>11, Frame DEF IndInv

LEMMA BwriteInd == ASSUME IndInv, NEW p \in Proc, NEW x \in Val, bwrite(p, x) PROVE IndInv'
<1>1. /\ pc[p] = "hold" /\ buf[p] \notin pinned /\ UNCHANGED <<blockno, valid, refcnt, lru, locked, pinned, pc, want, buf>>
      /\ data' = [data EXCEPT ![buf[p]] = x] /\ disk' = [disk EXCEPT ![blockno[buf[p]]] = x]
  BY Zenon DEF bwrite, list
<1>2. Types /\ buf[p] \in Buf /\ blockno[buf[p]] \in Block
  BY Zenon, <1>1, OneHolder
<1>3. /\ disk' \in [Block -> Val] /\ disk'[blockno[buf[p]]] = x
      /\ \A b \in Block : b # blockno[buf[p]] => disk'[b] = disk[b]
      /\ data' \in [Buf -> Val] /\ data'[buf[p]] = x /\ \A i \in Buf : i # buf[p] => data'[i] = data[i]
  BY Zenon, <1>1, <1>2 DEF Types
<1>4. \A q \in Proc : Using(q)' <=> Using(q)
  BY Zenon, <1>1 DEF Using
<1>5. Types'
  BY Zenon, <1>1, <1>2, <1>3 DEF Types
<1>6. Held'
  BY Zenon, <1>1 DEF IndInv, Held
<1>7. Contents'
  <2>1. \A q \in Proc : (pc'[q] = "hold" => valid'[buf'[q]]) /\ (pc'[q] = "read" => ~valid'[buf'[q]])
    BY Zenon, <1>1 DEF IndInv, Contents
  <2>2. \A i \in pinned' : valid'[i]
    BY Zenon, <1>1 DEF IndInv, Contents
  <2>3. ASSUME NEW i \in Buf, valid'[i] PROVE blockno'[i] \in Block /\ (i \notin pinned' => data'[i] = disk'[blockno'[i]])
    <3>1. blockno[i] \in Block /\ (i \notin pinned => data[i] = disk[blockno[i]])
      BY Zenon, <1>1, <2>3 DEF IndInv, Contents
    <3>2. i # buf[p] => blockno[i] # blockno[buf[p]]
      BY Zenon, <1>2, <3>1, BcacheAssumption DEF IndInv, Unique
    <3> QED BY Zenon, <1>1, <1>3, <3>1, <3>2
  <2> QED BY Zenon, <1>1, <1>4, <2>1, <2>2, <2>3, Frame DEF Contents
<1> QED BY Zenon, <1>1, <1>4, <1>5, <1>6, <1>7, Frame DEF IndInv

----------------------------------------------------------------------------
(* brelse() keeps the invariant *)

LEMMA ReleaseInd == ASSUME IndInv, NEW p \in Proc, releasesleep(p) PROVE IndInv'
<1>1. /\ pc[p] = "hold" /\ UNCHANGED <<disk, blockno, valid, refcnt, lru, data, pinned, want, buf>>
      /\ locked' = [locked EXCEPT ![buf[p]] = None]
      /\ pc' = [q \in Proc |-> IF q = p THEN "rel" ELSE IF pc[q] = "asleep" /\ buf[q] = buf[p] THEN "lock" ELSE pc[q]]
  BY Zenon DEF releasesleep, list
<1>2. /\ Types /\ buf[p] \in Buf /\ Using(p) /\ locked[buf[p]] = p
      /\ \A q \in Proc : pc[q] \in {"read", "hold"} /\ buf[q] = buf[p] => q = p
  BY Zenon, <1>1, OneHolder
<1>3. /\ pc' \in [Proc -> Label]
      /\ \A q \in Proc : pc'[q] = IF q = p THEN "rel" ELSE IF pc[q] = "asleep" /\ buf[q] = buf[p] THEN "lock" ELSE pc[q]
  BY Zenon, <1>1, <1>2 DEF Types, Label
<1>4. /\ locked' \in [Buf -> Proc \cup {None}]
      /\ \A i \in Buf : locked'[i] = IF i = buf[p] THEN None ELSE locked[i]
  BY Zenon, <1>1, <1>2 DEF Types
<1>5. \A q \in Proc : (Using(q)' <=> Using(q)) /\ (pc'[q] \in {"read", "hold"} <=> q # p /\ pc[q] \in {"read", "hold"})
  BY Zenon, <1>1, <1>3 DEF Using
<1>6. Types'
  BY Zenon, <1>1, <1>2, <1>3, <1>4 DEF Types
<1>7. Held'
  <2> SUFFICES ASSUME NEW i \in Buf, NEW q \in Proc PROVE locked'[i] = q <=> buf[q] = i /\ pc'[q] \in {"read", "hold"}
    BY <1>1 DEF Held
  <2>1. locked[i] = q <=> buf[q] = i /\ pc[q] \in {"read", "hold"}
    BY Zenon DEF IndInv, Held
  <2>2. None \notin Proc
    BY Zenon, BcacheAssumption
  <2> QED BY Zenon, <1>2, <1>4, <1>5, <2>1, <2>2
<1>8. \A q \in Proc : (pc'[q] = "hold" => valid'[buf'[q]]) /\ (pc'[q] = "read" => ~valid'[buf'[q]])
  BY Zenon, <1>1, <1>3 DEF IndInv, Contents
<1>9. Contents'
  BY Zenon, <1>1, <1>5, <1>8, Frame DEF IndInv, Contents
<1> QED BY Zenon, <1>1, <1>5, <1>6, <1>7, <1>9, Frame DEF IndInv

LEMMA FunSeq == ASSUME NEW S, NEW n \in Nat, NEW f \in [1 .. n -> S] PROVE f \in Seq(S) /\ Len(f) = n
OBVIOUS

\* A buffer that moves to the front of the list leaves nobody out.
LEMMA FrontList ==
  ASSUME NEW s \in Seq(Buf), Len(s) = NBUF, \A i \in Buf : \E n \in 1 .. NBUF : s[n] = i, NEW e \in Buf
  PROVE  /\ MoveToFront(s, e) \in Seq(Buf) /\ Len(MoveToFront(s, e)) = NBUF
         /\ \A i \in Buf : \E n \in 1 .. NBUF : MoveToFront(s, e)[n] = i
<1> DEFINE t == MoveToFront(s, e)
<1>1. NBUF \in Nat \ {0}
  BY Zenon, BcacheAssumption
<1>2. \A n \in 1 .. NBUF : t[n] = IF n = 1 THEN e ELSE IF \E m \in 1 .. n - 1 : s[m] = e THEN s[n] ELSE s[n - 1]
  BY Zenon DEF MoveToFront
<1>3. \A n \in 1 .. NBUF : t[n] \in Buf
  <2>1. \A n \in 1 .. NBUF : n # 1 => n - 1 \in 1 .. NBUF
    BY <1>1
  <2>2. \A n \in 1 .. NBUF : s[n] \in Buf
    OBVIOUS
  <2> HIDE DEF t
  <2> QED BY Zenon, <1>2, <2>1, <2>2
<1>4. t = [n \in 1 .. NBUF |-> t[n]]
  BY Zenon DEF MoveToFront
<1>5. t \in Seq(Buf) /\ Len(t) = NBUF
  <2> HIDE DEF t
  <2>1. t \in [1 .. NBUF -> Buf]
    BY Zenon, <1>3, <1>4
  <2> QED BY Zenon, <1>1, <2>1, FunSeq
<1>6. ASSUME NEW i \in Buf PROVE \E n \in 1 .. NBUF : t[n] = i
  <2> HIDE DEF t
  <2>1. PICK m \in 1 .. NBUF : s[m] = i
    OBVIOUS
  <2>2. PICK k \in 1 .. NBUF : s[k] = e
    OBVIOUS
  <2>3. CASE i = e
    <3>1. 1 \in 1 .. NBUF
      BY <1>1
    <3> QED BY Zenon, <1>2, <2>3, <3>1
  <2>4. CASE i # e /\ \E n \in 1 .. m - 1 : s[n] = e
    <3>1. m # 1
      BY <2>4
    <3> QED BY Zenon, <1>2, <2>1, <2>4, <3>1
  <2>5. CASE i # e /\ ~\E n \in 1 .. m - 1 : s[n] = e
    <3>1. k > m
      BY <1>1, <2>1, <2>2, <2>5
    <3>2. m + 1 \in 1 .. NBUF /\ m + 1 # 1 /\ (m + 1) - 1 = m
      BY <1>1, <3>1
    <3>3. ~\E n \in 1 .. (m + 1) - 1 : s[n] = e
      BY <2>1, <2>5, <3>2
    <3>4. t[m + 1] = s[m]
      BY Zenon, <1>2, <3>2, <3>3
    <3> QED BY Zenon, <2>1, <3>2, <3>4
  <2> QED BY Zenon, <2>3, <2>4, <2>5
<1> QED BY Zenon, <1>5, <1>6

LEMMA BrelseInd == ASSUME IndInv, NEW p \in Proc, brelse(p) PROVE IndInv'
<1>1. /\ pc[p] = "rel" /\ UNCHANGED <<disk, blockno, valid, data, locked, pinned, want, buf>>
      /\ refcnt' = [refcnt EXCEPT ![buf[p]] = @ - 1] /\ pc' = [pc EXCEPT ![p] = "idle"]
      /\ lru' = IF refcnt[buf[p]] = 1 THEN MoveToFront(lru, buf[p]) ELSE lru
  BY Zenon DEF brelse, Goto
<1>2. Types /\ buf[p] \in Buf
  BY Zenon DEF IndInv, Types
<1>3. pc' \in [Proc -> Label] /\ \A q \in Proc : pc'[q] = IF q = p THEN "idle" ELSE pc[q]
  BY Zenon, <1>1, <1>2 DEF Types, Label
<1>4. Using(p) /\ ~Using(p)' /\ \A q \in Proc : q # p => (Using(q)' <=> Using(q))
  BY Zenon, <1>1, <1>3 DEF Using
<1>5. \A i \in Buf : refcnt'[i] = IF i = buf[p] THEN refcnt[i] - 1 ELSE refcnt[i]
  BY Zenon, <1>1, <1>2 DEF Types
<1>6. ASSUME NEW i \in Buf PROVE refcnt'[i] = Cardinality(Uses(i)') + Pin(i)' /\ refcnt'[i] \in Nat
  <2>1. /\ i = buf[p] => p \in Uses(i) /\ Uses(i)' = Uses(i) \ {p}
        /\ i # buf[p] => Uses(i)' = Uses(i)
    BY Zenon, <1>1, <1>4, UsesLeave
  <2>2. refcnt[i] = Cardinality(Uses(i)) + Pin(i) /\ Pin(i)' = Pin(i) /\ Pin(i) \in Nat
    BY Zenon, <1>1 DEF IndInv, Counted, Pin
  <2>3. Uses(i) \in SUBSET Proc /\ Uses(i)' \in SUBSET Proc
    BY Zenon, UsesDef
  <2>4. /\ Cardinality(Uses(i)) \in Nat /\ Cardinality(Uses(i)') \in Nat
        /\ i = buf[p] => Cardinality(Uses(i)') = Cardinality(Uses(i)) - 1
    BY Zenon, <2>1, <2>3, ProcCount
  <2> QED BY <1>5, <2>1, <2>2, <2>4
<1>7. refcnt' \in [Buf -> Nat]
  BY Zenon, <1>1, <1>2, <1>6 DEF Types
<1>8. Types'
  BY Zenon, <1>1, <1>2, <1>3, <1>7 DEF Types
<1>9. Counted'
  BY Zenon, <1>6 DEF Counted
<1>10. List'
  <2>1. lru \in Seq(Buf) /\ Len(lru) = NBUF /\ \A i \in Buf : \E n \in 1 .. NBUF : lru[n] = i
    BY Zenon DEF IndInv, List
  <2>2. /\ MoveToFront(lru, buf[p]) \in Seq(Buf) /\ Len(MoveToFront(lru, buf[p])) = NBUF
        /\ \A i \in Buf : \E n \in 1 .. NBUF : MoveToFront(lru, buf[p])[n] = i
    BY Zenon, <1>2, <2>1, FrontList
  <2> QED BY Zenon, <1>1, <2>1, <2>2 DEF List
<1>11. Held'
  BY Zenon, <1>1, <1>3 DEF IndInv, Held
<1>12. Contents'
  <2>1. \A q \in Proc : (pc'[q] = "hold" => valid'[buf'[q]]) /\ (pc'[q] = "read" => ~valid'[buf'[q]])
    BY Zenon, <1>1, <1>3 DEF IndInv, Contents
  <2>2. \A q \in Proc : Using(q)' => blockno'[buf'[q]] \in Block /\ blockno'[buf'[q]] = want'[q]
    BY Zenon, <1>1, <1>4 DEF IndInv, Contents
  <2> QED BY Zenon, <1>1, <2>1, <2>2 DEF IndInv, Contents
<1>13. Unique'
  BY Zenon, <1>1 DEF IndInv, Unique
<1> QED BY Zenon, <1>8, <1>9, <1>10, <1>11, <1>12, <1>13 DEF IndInv

----------------------------------------------------------------------------
LEMMA InitInd == Init => IndInv
<1> SUFFICES ASSUME Init PROVE IndInv
  OBVIOUS
<1>1. NBUF \in Nat \ {0} /\ 1 \in Buf /\ None \notin Proc
  BY BcacheAssumption DEF Buf
<1>2. Types
  <2>1. blockno \in [Buf -> Block \cup {None}] /\ locked \in [Buf -> Proc \cup {None}] /\ want \in [Proc -> Block \cup {None}]
    BY Zenon DEF Init
  <2>2. valid \in [Buf -> BOOLEAN] /\ pc \in [Proc -> Label]
    BY Zenon DEF Init, Label
  <2>3. refcnt \in [Buf -> Nat] /\ buf \in [Proc -> Buf] /\ pinned \in SUBSET Buf /\ disk \in [Block -> Val]
    BY Zenon, <1>1 DEF Init
  <2>4. data \in [Buf -> Val]
    <3>1. Val # {} => (CHOOSE x \in Val : TRUE) \in Val
      BY Zenon
    <3>2. Val # {}
      BY Zenon, BcacheAssumption
    <3> QED BY Zenon, <3>1, <3>2 DEF Init
  <2> QED BY Zenon, <2>1, <2>2, <2>3, <2>4 DEF Types
<1>3. \A p \in Proc : pc[p] = "idle" /\ ~Using(p)
  BY Zenon DEF Init, Using
<1>4. List
  <2>1. lru = [n \in 1 .. NBUF |-> NBUF + 1 - n]
    BY Zenon DEF Init, Buf
  <2>2. lru \in [1 .. NBUF -> Buf]
    <3>1. \A n \in 1 .. NBUF : NBUF + 1 - n \in Buf
      BY <1>1 DEF Buf
    <3> QED BY Zenon, <2>1, <3>1
  <2>3. ASSUME NEW i \in Buf PROVE \E n \in 1 .. NBUF : lru[n] = i
    <3>1. NBUF + 1 - i \in 1 .. NBUF /\ NBUF + 1 - (NBUF + 1 - i) = i
      BY <1>1 DEF Buf
    <3>2. lru[NBUF + 1 - i] = i
      BY Zenon, <2>1, <3>1
    <3> QED BY Zenon, <3>1, <3>2
  <2> QED BY Zenon, <1>1, <2>2, <2>3, FunSeq DEF List
<1>5. Counted
  <2> SUFFICES ASSUME NEW i \in Buf PROVE refcnt[i] = Cardinality(Uses(i)) + Pin(i)
    BY Zenon DEF Counted
  <2>1. Uses(i) = {} /\ Pin(i) = 0 /\ refcnt[i] = 0
    BY Zenon, <1>3, UsesDef DEF Pin, Init
  <2> QED BY <2>1, FS_EmptySet
<1>6. Held
  BY Zenon, <1>1, <1>3 DEF Held, Init
<1>7. Contents
  <2>1. \A i \in Buf : ~valid[i]
    BY Zenon DEF Init
  <2> QED BY Zenon, <1>3, <2>1 DEF Contents, Init
<1>8. Unique
  BY Zenon DEF Unique, Init
<1> QED BY Zenon, <1>2, <1>4, <1>5, <1>6, <1>7, <1>8 DEF IndInv

LEMMA NextInd == ASSUME IndInv, [Next]_vars PROVE IndInv'
<1>1. CASE Next
  BY Zenon, <1>1, BgetInd, AcquireInd, BreadInd, ReleaseInd, BrelseInd, BunpinInd, BpinInd, BwriteInd DEF Next, Release
<1>2. CASE UNCHANGED vars
  <2>1. UNCHANGED <<disk, blockno, valid, refcnt, data, lru, locked, pinned, pc, want, buf>>
    BY Zenon, <1>2 DEF vars
  <2>2. \A i : Uses(i)' = Uses(i)
    BY Zenon, <2>1 DEF Uses
  <2> QED BY <2>1, <2>2 DEF IndInv, Types, List, Counted, Pin, Held, Contents, Using, Unique
<1> QED BY Zenon, <1>1, <1>2

----------------------------------------------------------------------------
(* Theorems *)

\* The invariant on which the rest is built: reference counts, sleep-locks and which
\* buffers have what the disk has.
THEOREM Invariance == Spec => []IndInv
BY InitInd, NextInd, PTL DEF Spec

\* b->refcnt counts the processes from bget() to the end of brelse() and the pin of the
\* log, and brelse() leaves every buffer in the list.
THEOREM Typing == Spec => []TypeOK
<1>1. IndInv => TypeOK
  <2> SUFFICES ASSUME IndInv PROVE TypeOK
    OBVIOUS
  <2>1. ASSUME NEW i \in Buf PROVE refcnt[i] = Cardinality(Uses(i)) + Cardinality({i} \cap pinned)
    <3>1. Cardinality({i}) = 1 /\ Cardinality({}) = 0
      BY Zenon, FS_Singleton, FS_EmptySet
    <3>2. {i} \cap pinned = IF i \in pinned THEN {i} ELSE {}
      OBVIOUS
    <3>3. Cardinality({i} \cap pinned) = Pin(i)
      BY Zenon, <3>1, <3>2 DEF Pin
    <3> QED BY Zenon, <3>3 DEF IndInv, Counted
  <2>2. Range(lru) = Buf
    <3>1. Range(lru) = {lru[n] : n \in 1 .. NBUF}
      BY DEF IndInv, List, Range
    <3>2. \A n \in 1 .. NBUF : lru[n] \in Buf
      BY DEF IndInv, List
    <3> QED BY <3>1, <3>2 DEF IndInv, List
  <2> QED BY Zenon, <2>1, <2>2 DEF TypeOK, IndInv, Types, List
<1> QED BY <1>1, Invariance, PTL

\* No block is in two buffers, and the buffer that bget() returns is that of the block it
\* was asked for, however long acquiresleep() took.
THEOREM CopiesUnique == Spec => []OneCopy
<1>1. IndInv => OneCopy
  <2> SUFFICES ASSUME IndInv PROVE OneCopy
    OBVIOUS
  <2>1. \A i \in Buf : \A p \in Uses(i) : blockno[i] = want[p]
    BY Zenon, UsesDef DEF IndInv, Contents
  <2> QED BY Zenon, <2>1 DEF OneCopy, IndInv, Unique
<1> QED BY <1>1, Invariance, PTL

----------------------------------------------------------------------------
(* The cache implements BlockStore *)

\* What blocks contain, and who has them, from the state of the cache.
Content ==
  [b \in Block |-> IF \E i \in Buf : blockno[i] = b /\ valid[i]
                   THEN data[CHOOSE i \in Buf : blockno[i] = b /\ valid[i]]
                   ELSE disk[b]]

HolderOf(l, w) ==
  [b \in Block |-> IF \E p \in Proc : l[p] = "hold" /\ w[p] = b
                   THEN CHOOSE p \in Proc : l[p] = "hold" /\ w[p] = b
                   ELSE None]

Holder == HolderOf(pc, want)

LEMMA ContentIs ==
  ASSUME NEW g \in [Block -> Val],
         \A i \in Buf : valid'[i] => data'[i] = g[blockno'[i]],
         \A b \in Block : (\A i \in Buf : ~(blockno'[i] = b /\ valid'[i])) => g[b] = disk'[b]
  PROVE  Content' = g
<1> DEFINE at(b) == CHOOSE i \in Buf : blockno'[i] = b /\ valid'[i]
<1>1. Content' = [b \in Block |-> IF \E i \in Buf : blockno'[i] = b /\ valid'[i] THEN data'[at(b)] ELSE disk'[b]]
  BY Zenon DEF Content
<1>2. \A b \in Block : (\E i \in Buf : blockno'[i] = b /\ valid'[i]) => at(b) \in Buf /\ blockno'[at(b)] = b /\ valid'[at(b)]
  BY Zenon
<1> HIDE DEF at
<1>3. \A b \in Block : Content'[b] = g[b]
  BY Zenon, <1>1, <1>2
<1> QED BY Zenon, <1>1, <1>3

LEMMA HolderIs ==
  ASSUME NEW l, NEW w, NEW g \in [Block -> Proc \cup {None}],
         \A p \in Proc : l[p] = "hold" => g[w[p]] = p,
         \A b \in Block : (\A p \in Proc : ~(l[p] = "hold" /\ w[p] = b)) => g[b] = None
  PROVE  HolderOf(l, w) = g
<1> DEFINE by(b) == CHOOSE p \in Proc : l[p] = "hold" /\ w[p] = b
           c == HolderOf(l, w)
<1>1. ASSUME NEW b \in Block PROVE c[b] = g[b]
  <2>1. c[b] = IF \E p \in Proc : l[p] = "hold" /\ w[p] = b THEN by(b) ELSE None
    BY Zenon DEF HolderOf
  <2>2. (\E p \in Proc : l[p] = "hold" /\ w[p] = b) => by(b) \in Proc /\ l[by(b)] = "hold" /\ w[by(b)] = b
    BY Zenon
  <2> HIDE DEF by, c
  <2> QED BY Zenon, <2>1, <2>2
<1>2. c = [b \in Block |-> c[b]]
  BY Zenon DEF HolderOf
<1> HIDE DEF c
<1>3. c = g
  BY Zenon, <1>1, <1>2
<1> QED BY Zenon, <1>3 DEF c

LEMMA ContentAt ==
  ASSUME IndInv
  PROVE  /\ Content \in [Block -> Val]
         /\ \A i \in Buf : valid[i] => data[i] = Content[blockno[i]]
         /\ \A b \in Block : (\A i \in Buf : ~(blockno[i] = b /\ valid[i])) => Content[b] = disk[b]
<1> DEFINE at(b) == CHOOSE i \in Buf : blockno[i] = b /\ valid[i]
           live(b) == \E i \in Buf : blockno[i] = b /\ valid[i]
<1>1. Content = [b \in Block |-> IF live(b) THEN data[at(b)] ELSE disk[b]]
  BY Zenon DEF Content
<1>2. \A b \in Block : live(b) => at(b) \in Buf /\ blockno[at(b)] = b /\ valid[at(b)]
  BY Zenon
<1>3. Types /\ None \notin Block
  BY Zenon, BcacheAssumption DEF IndInv
<1>4. \A i \in Buf : valid[i] => blockno[i] \in Block /\ live(blockno[i])
  BY Zenon DEF IndInv, Contents
<1> HIDE DEF at
<1>5. \A i \in Buf : valid[i] => at(blockno[i]) = i
  BY Zenon, <1>2, <1>3, <1>4 DEF IndInv, Unique
<1>6. \A b \in Block : (IF live(b) THEN data[at(b)] ELSE disk[b]) \in Val
  BY Zenon, <1>2, <1>3 DEF Types
<1>7. \A i \in Buf : valid[i] => data[i] = Content[blockno[i]]
  BY Zenon, <1>1, <1>4, <1>5
<1> QED BY Zenon, <1>1, <1>6, <1>7

\* Two processes never hold the same block.
LEMMA HolderAt ==
  ASSUME IndInv
  PROVE  /\ Holder \in [Block -> Proc \cup {None}]
         /\ \A p \in Proc : pc[p] = "hold" => want[p] \in Block /\ Holder[want[p]] = p
         /\ \A b \in Block : (\A p \in Proc : ~(pc[p] = "hold" /\ want[p] = b)) => Holder[b] = None
         /\ \A p, q \in Proc : pc[p] = "hold" /\ pc[q] \in {"read", "hold"} /\ want[p] = want[q] => p = q
<1> DEFINE by(b) == CHOOSE p \in Proc : pc[p] = "hold" /\ want[p] = b
           held(b) == \E p \in Proc : pc[p] = "hold" /\ want[p] = b
<1>1. Holder = [b \in Block |-> IF held(b) THEN by(b) ELSE None]
  BY Zenon DEF Holder, HolderOf
<1>2. \A b \in Block : held(b) => by(b) \in Proc /\ pc[by(b)] = "hold" /\ want[by(b)] = b
  BY Zenon
<1>3. None \notin Block
  BY Zenon, BcacheAssumption
<1>4. \A p \in Proc : pc[p] \in {"read", "hold"} => buf[p] \in Buf /\ want[p] \in Block /\ blockno[buf[p]] = want[p]
  BY Zenon, OneHolder
<1>5. \A p, q \in Proc : pc[p] = "hold" /\ pc[q] \in {"read", "hold"} /\ want[p] = want[q] => p = q
  <2> SUFFICES ASSUME NEW p \in Proc, NEW q \in Proc, pc[p] = "hold", pc[q] \in {"read", "hold"}, want[p] = want[q] PROVE p = q
    OBVIOUS
  <2>1. buf[p] = buf[q]
    BY Zenon, <1>3, <1>4 DEF IndInv, Unique
  <2> QED BY Zenon, <2>1, OneHolder
<1> HIDE DEF by
<1>6. \A p \in Proc : pc[p] = "hold" => Holder[want[p]] = p
  BY Zenon, <1>1, <1>2, <1>4, <1>5
<1>7. \A b \in Block : (IF held(b) THEN by(b) ELSE None) \in Proc \cup {None}
  BY Zenon, <1>2
<1> QED BY Zenon, <1>1, <1>4, <1>5, <1>6, <1>7

\* The content of the blocks and their holders in a step that changes them, or does not.
LEMMA ContentSame == ASSUME UNCHANGED <<blockno, valid, data, disk>> PROVE Content' = Content
BY Zenon DEF Content

LEMMA HolderSame ==
  ASSUME IndInv, \A q \in Proc : (pc'[q] = "hold" <=> pc[q] = "hold") /\ (pc[q] = "hold" => want'[q] = want[q])
  PROVE  Holder' = Holder
<1>1. Holder' = HolderOf(pc', want')
  BY Zenon DEF Holder
<1>2. /\ Holder \in [Block -> Proc \cup {None}] /\ \A p \in Proc : pc[p] = "hold" => Holder[want[p]] = p
      /\ \A b \in Block : (\A p \in Proc : ~(pc[p] = "hold" /\ want[p] = b)) => Holder[b] = None
  BY Zenon, HolderAt
<1>3. \A p \in Proc : pc'[p] = "hold" => Holder[want'[p]] = p
  BY Zenon, <1>2
<1>4. \A b \in Block : (\A p \in Proc : ~(pc'[p] = "hold" /\ want'[p] = b)) => Holder[b] = None
  BY Zenon, <1>2
<1> QED BY <1>1, <1>2, <1>3, <1>4, HolderIs

LEMMA HolderTake ==
  ASSUME IndInv, NEW p \in Proc, pc'[p] = "hold", want' = want, want[p] \in Block,
         \A q \in Proc : pc[q] = "hold" => want[q] # want[p],
         \A q \in Proc : q # p => (pc'[q] = "hold" <=> pc[q] = "hold")
  PROVE  Holder[want[p]] = None /\ Holder' = [Holder EXCEPT ![want[p]] = p]
<1> DEFINE g == [Holder EXCEPT ![want[p]] = p]
<1>1. Holder' = HolderOf(pc', want')
  BY Zenon DEF Holder
<1>2. /\ Holder \in [Block -> Proc \cup {None}] /\ \A q \in Proc : pc[q] = "hold" => want[q] \in Block /\ Holder[want[q]] = q
      /\ \A b \in Block : (\A q \in Proc : ~(pc[q] = "hold" /\ want[q] = b)) => Holder[b] = None
  BY Zenon, HolderAt
<1>3. g \in [Block -> Proc \cup {None}] /\ \A b \in Block : g[b] = IF b = want[p] THEN p ELSE Holder[b]
  BY Zenon, <1>2
<1> HIDE DEF g
<1>4. \A q \in Proc : pc'[q] = "hold" => g[want'[q]] = q
  BY Zenon, <1>2, <1>3
<1>5. \A b \in Block : (\A q \in Proc : ~(pc'[q] = "hold" /\ want'[q] = b)) => g[b] = None
  BY Zenon, <1>2, <1>3
<1>6. Holder' = g
  BY <1>1, <1>3, <1>4, <1>5, HolderIs
<1> QED BY Zenon, <1>2, <1>6 DEF g

LEMMA HolderGive ==
  ASSUME IndInv, NEW p \in Proc, pc[p] = "hold", pc'[p] # "hold", want' = want,
         \A q \in Proc : q # p => (pc'[q] = "hold" <=> pc[q] = "hold")
  PROVE  want[p] \in Block /\ Holder[want[p]] = p /\ Holder' = [Holder EXCEPT ![want[p]] = None]
<1> DEFINE g == [Holder EXCEPT ![want[p]] = None]
<1>1. Holder' = HolderOf(pc', want')
  BY Zenon DEF Holder
<1>2. /\ Holder \in [Block -> Proc \cup {None}] /\ \A q \in Proc : pc[q] = "hold" => want[q] \in Block /\ Holder[want[q]] = q
      /\ \A b \in Block : (\A q \in Proc : ~(pc[q] = "hold" /\ want[q] = b)) => Holder[b] = None
      /\ \A q \in Proc : pc[q] = "hold" /\ want[q] = want[p] => q = p
  BY Zenon, HolderAt
<1>3. g \in [Block -> Proc \cup {None}] /\ \A b \in Block : g[b] = IF b = want[p] THEN None ELSE Holder[b]
  BY Zenon, <1>2
<1> HIDE DEF g
<1>4. \A q \in Proc : pc'[q] = "hold" => g[want'[q]] = q
  BY Zenon, <1>2, <1>3
<1>5. \A b \in Block : (\A q \in Proc : ~(pc'[q] = "hold" /\ want'[q] = b)) => g[b] = None
  BY Zenon, <1>2, <1>3
<1>6. Holder' = g
  BY <1>1, <1>3, <1>4, <1>5, HolderIs
<1> QED BY Zenon, <1>2, <1>6 DEF g

\* The holder of a block changes it, in its buffer.
LEMMA ContentChange ==
  ASSUME IndInv, NEW p \in Proc, pc[p] = "hold", NEW x \in Val, UNCHANGED <<blockno, valid>>,
         data' = [data EXCEPT ![buf[p]] = x], \A b \in Block : b # want[p] => disk'[b] = disk[b]
  PROVE  want[p] \in Block /\ Content' = [Content EXCEPT ![want[p]] = x]
<1> DEFINE g == [Content EXCEPT ![want[p]] = x]
<1>2. Types /\ buf[p] \in Buf /\ want[p] \in Block /\ blockno[buf[p]] = want[p] /\ valid[buf[p]]
  BY Zenon, OneHolder DEF IndInv, Contents
<1>3. /\ Content \in [Block -> Val] /\ \A i \in Buf : valid[i] => data[i] = Content[blockno[i]]
      /\ \A b \in Block : (\A i \in Buf : ~(blockno[i] = b /\ valid[i])) => Content[b] = disk[b]
  BY Zenon, ContentAt
<1>4. g \in [Block -> Val] /\ \A b \in Block : g[b] = IF b = want[p] THEN x ELSE Content[b]
  BY Zenon, <1>2, <1>3
<1>5. \A i \in Buf : data'[i] = IF i = buf[p] THEN x ELSE data[i]
  BY Zenon, <1>2 DEF Types
<1>6. \A i \in Buf : valid[i] => blockno[i] \in Block /\ (blockno[i] = want[p] <=> i = buf[p])
  BY <1>2, BcacheAssumption DEF IndInv, Contents, Unique
<1> HIDE DEF g
<1>7. \A i \in Buf : valid'[i] => data'[i] = g[blockno'[i]]
  BY <1>2, <1>3, <1>4, <1>5, <1>6
<1>8. \A b \in Block : (\A i \in Buf : ~(blockno'[i] = b /\ valid'[i])) => g[b] = disk'[b]
  BY Zenon, <1>2, <1>3, <1>4
<1>9. Content' = g
  BY Zenon, <1>4, <1>7, <1>8, ContentIs
<1> QED BY Zenon, <1>2, <1>9 DEF g

\* bget() changes no content: what the victim had is on the disk.
LEMMA BgetShadow == ASSUME IndInv, NEW p \in Proc, NEW b \in Block, bget(p, b) PROVE Content' = Content /\ Holder' = Holder
<1>1. /\ Types /\ pc[p] = "idle" /\ UNCHANGED <<disk, data, pinned>> /\ want' = [want EXCEPT ![p] = b]
      /\ pc' = [pc EXCEPT ![p] = "lock"] \/ pc' = [pc EXCEPT ![p] = "panic"]
  BY Zenon DEF IndInv, bget, Goto
<1>2. Holder' = Holder
  <2>1. \A q \in Proc : (pc'[q] = "hold" <=> pc[q] = "hold") /\ (pc[q] = "hold" => want'[q] = want[q])
    BY Zenon, <1>1 DEF Types
  <2> QED BY Zenon, <2>1, HolderSame
<1>3. CASE UNCHANGED <<blockno, valid>>
  BY Zenon, <1>1, <1>2, <1>3, ContentSame
<1>4. ASSUME Cached(b) = {}, NEW i \in Victim, blockno' = [blockno EXCEPT ![i] = b], valid' = [valid EXCEPT ![i] = FALSE]
      PROVE  Content' = Content
  <2>1. i \in Buf /\ refcnt[i] = 0
    BY Zenon DEF Victim, Unused
  <2>2. i \notin pinned
    BY Zenon, <2>1, Free DEF IndInv
  <2>3. ~valid'[i] /\ \A j \in Buf : j # i => valid'[j] = valid[j] /\ blockno'[j] = blockno[j]
    BY Zenon, <1>1, <1>4, <2>1 DEF Types
  <2>4. /\ Content \in [Block -> Val] /\ \A j \in Buf : valid[j] => data[j] = Content[blockno[j]]
        /\ \A c \in Block : (\A j \in Buf : ~(blockno[j] = c /\ valid[j])) => Content[c] = disk[c]
    BY Zenon, ContentAt
  <2>5. \A j \in Buf : valid'[j] => data'[j] = Content[blockno'[j]]
    BY Zenon, <1>1, <2>3, <2>4
  <2>6. valid[i] => Content[blockno[i]] = disk[blockno[i]]
    BY Zenon, <2>1, <2>2, <2>4 DEF IndInv, Contents
  <2>7. ASSUME NEW c \in Block, \A j \in Buf : ~(blockno'[j] = c /\ valid'[j]) PROVE Content[c] = disk'[c]
    <3>1. \A j \in Buf : blockno[j] = c /\ valid[j] => j = i
      BY Zenon, <2>3, <2>7
    <3> QED BY Zenon, <1>1, <2>4, <2>6, <3>1
  <2> QED BY Zenon, <2>4, <2>5, <2>7, ContentIs
<1> QED BY Zenon, <1>2, <1>3, <1>4 DEF bget

LEMMA AcquireShadow ==
  ASSUME IndInv, NEW p \in Proc, acquiresleep(p)
  PROVE  /\ Content' = Content
         /\ Holder' = Holder \/ (want[p] \in Block /\ Holder[want[p]] = None /\ Holder' = [Holder EXCEPT ![want[p]] = p])
<1>1. /\ Types /\ Using(p) /\ buf[p] \in Buf /\ pc[p] = "lock" /\ UNCHANGED <<disk, blockno, valid, data, want, buf>>
      /\ \E l \in {"asleep", "hold", "read"} : pc' = [pc EXCEPT ![p] = l] /\ (l = "hold" => locked[buf[p]] = None)
  BY Zenon DEF IndInv, Types, Using, acquiresleep, Goto, list
<1>2. Content' = Content
  BY Zenon, <1>1, ContentSame
<1>3. \A q \in Proc : q # p => pc'[q] = pc[q]
  BY Zenon, <1>1 DEF Types
<1>4. CASE pc'[p] # "hold"
  BY Zenon, <1>1, <1>2, <1>3, <1>4, HolderSame
<1>5. CASE pc'[p] = "hold"
  <2>1. locked[buf[p]] = None /\ None \notin Proc \cup Block
    BY Zenon, <1>1, <1>5, BcacheAssumption DEF Types
  <2>2. want[p] \in Block /\ blockno[buf[p]] = want[p]
    BY Zenon, <1>1 DEF IndInv, Contents
  <2>3. ASSUME NEW q \in Proc, pc[q] = "hold" PROVE want[q] # want[p]
    <3>1. buf[q] \in Buf /\ blockno[buf[q]] = want[q] /\ locked[buf[q]] = q
      BY Zenon, <2>3, OneHolder
    <3>2. buf[q] # buf[p]
      BY Zenon, <2>1, <3>1
    <3> QED BY Zenon, <1>1, <2>1, <2>2, <3>1, <3>2 DEF IndInv, Unique
  <2> QED BY Zenon, <1>1, <1>2, <1>3, <1>5, <2>2, <2>3, HolderTake
<1> QED BY Zenon, <1>4, <1>5

LEMMA BreadShadow ==
  ASSUME IndInv, NEW p \in Proc, bread(p)
  PROVE  Content' = Content /\ want[p] \in Block /\ Holder[want[p]] = None /\ Holder' = [Holder EXCEPT ![want[p]] = p]
<1>1. /\ pc[p] = "read" /\ pc' = [pc EXCEPT ![p] = "hold"] /\ UNCHANGED <<disk, blockno, want, buf>>
      /\ data' = [data EXCEPT ![buf[p]] = disk[blockno[buf[p]]]] /\ valid' = [valid EXCEPT ![buf[p]] = TRUE]
  BY Zenon DEF bread, Goto
<1>2. Types /\ buf[p] \in Buf /\ want[p] \in Block /\ blockno[buf[p]] = want[p] /\ ~valid[buf[p]] /\ None \notin Block
  BY Zenon, <1>1, OneHolder, BcacheAssumption DEF IndInv, Contents
<1>3. Holder[want[p]] = None /\ Holder' = [Holder EXCEPT ![want[p]] = p]
  <2>1. pc'[p] = "hold" /\ \A q \in Proc : q # p => pc'[q] = pc[q]
    BY Zenon, <1>1, <1>2 DEF Types
  <2>2. \A q \in Proc : pc[q] = "hold" => want[q] # want[p]
    BY Zenon, <1>1, HolderAt
  <2> QED BY Zenon, <1>1, <1>2, <2>1, <2>2, HolderTake
<1>4. /\ valid'[buf[p]] /\ data'[buf[p]] = disk[want[p]]
      /\ \A i \in Buf : i # buf[p] => valid'[i] = valid[i] /\ data'[i] = data[i]
  BY Zenon, <1>1, <1>2 DEF Types
<1>5. /\ Content \in [Block -> Val] /\ \A i \in Buf : valid[i] => data[i] = Content[blockno[i]]
      /\ \A b \in Block : (\A i \in Buf : ~(blockno[i] = b /\ valid[i])) => Content[b] = disk[b]
  BY Zenon, ContentAt
<1>6. Content[want[p]] = disk[want[p]]
  <2>1. \A i \in Buf : ~(blockno[i] = want[p] /\ valid[i])
    BY Zenon, <1>2 DEF IndInv, Unique
  <2> QED BY Zenon, <1>2, <1>5, <2>1
<1>7. \A i \in Buf : valid'[i] => data'[i] = Content[blockno'[i]]
  BY Zenon, <1>1, <1>2, <1>4, <1>5, <1>6
<1>8. \A b \in Block : (\A i \in Buf : ~(blockno'[i] = b /\ valid'[i])) => Content[b] = disk'[b]
  BY <1>1, <1>2, <1>4, <1>5
<1>9. Content' = Content
  BY Zenon, <1>5, <1>7, <1>8, ContentIs
<1> QED BY Zenon, <1>2, <1>3, <1>9

LEMMA ChangeShadow ==
  ASSUME IndInv, NEW p \in Proc, NEW x \in Val, bpin(p, x) \/ bwrite(p, x)
  PROVE  want[p] \in Block /\ Holder[want[p]] = p /\ Holder' = Holder /\ Content' = [Content EXCEPT ![want[p]] = x]
<1>1. /\ pc[p] = "hold" /\ UNCHANGED <<blockno, valid, pc, want>> /\ data' = [data EXCEPT ![buf[p]] = x]
      /\ disk' = disk \/ disk' = [disk EXCEPT ![blockno[buf[p]]] = x]
  BY Zenon DEF bpin, bwrite, list
<1>2. blockno[buf[p]] = want[p] /\ Types
  BY Zenon, <1>1, OneHolder
<1>3. \A b \in Block : b # want[p] => disk'[b] = disk[b]
  BY Zenon, <1>1, <1>2 DEF Types
<1>4. want[p] \in Block /\ Content' = [Content EXCEPT ![want[p]] = x]
  BY Zenon, <1>1, <1>3, ContentChange
<1>5. Holder[want[p]] = p /\ Holder' = Holder
  BY Zenon, <1>1, HolderAt, HolderSame
<1> QED BY Zenon, <1>4, <1>5

LEMMA BunpinShadow == ASSUME IndInv, NEW p \in Proc, bunpin(p) PROVE Content' = Content /\ Holder' = Holder
<1>1. /\ pc[p] = "hold" /\ UNCHANGED <<blockno, valid, data, pc, want>>
      /\ disk' = [disk EXCEPT ![blockno[buf[p]]] = data[buf[p]]]
  BY Zenon DEF bunpin
<1>2. Types /\ buf[p] \in Buf /\ blockno[buf[p]] \in Block /\ valid[buf[p]]
  BY Zenon, <1>1, OneHolder DEF IndInv, Contents
<1>3. /\ Content \in [Block -> Val] /\ \A i \in Buf : valid[i] => data[i] = Content[blockno[i]]
      /\ \A b \in Block : (\A i \in Buf : ~(blockno[i] = b /\ valid[i])) => Content[b] = disk[b]
  BY Zenon, ContentAt
<1>4. \A b \in Block : b # blockno[buf[p]] => disk'[b] = disk[b]
  BY Zenon, <1>1, <1>2 DEF Types
<1>5. \A i \in Buf : valid'[i] => data'[i] = Content[blockno'[i]]
  BY Zenon, <1>1, <1>3
<1>6. \A b \in Block : (\A i \in Buf : ~(blockno'[i] = b /\ valid'[i])) => Content[b] = disk'[b]
  BY Zenon, <1>1, <1>2, <1>3, <1>4
<1>7. Content' = Content
  BY Zenon, <1>3, <1>5, <1>6, ContentIs
<1> QED BY Zenon, <1>1, <1>7, HolderSame

LEMMA ReleaseShadow ==
  ASSUME IndInv, NEW p \in Proc, releasesleep(p)
  PROVE  Content' = Content /\ want[p] \in Block /\ Holder[want[p]] = p /\ Holder' = [Holder EXCEPT ![want[p]] = None]
<1>1. /\ pc[p] = "hold" /\ UNCHANGED <<disk, blockno, valid, data, want>>
      /\ pc' = [q \in Proc |-> IF q = p THEN "rel" ELSE IF pc[q] = "asleep" /\ buf[q] = buf[p] THEN "lock" ELSE pc[q]]
  BY Zenon DEF releasesleep, list
<1>2. pc'[p] # "hold" /\ \A q \in Proc : q # p => (pc'[q] = "hold" <=> pc[q] = "hold")
  BY Zenon, <1>1
<1> QED BY Zenon, <1>1, <1>2, ContentSame, HolderGive

LEMMA BrelseShadow == ASSUME IndInv, NEW p \in Proc, brelse(p) PROVE Content' = Content /\ Holder' = Holder
<1>1. pc[p] = "rel" /\ UNCHANGED <<disk, blockno, valid, data, want>> /\ pc' = [pc EXCEPT ![p] = "idle"] /\ Types
  BY Zenon DEF brelse, Goto, IndInv
<1>2. \A q \in Proc : pc'[q] = "hold" <=> pc[q] = "hold"
  BY Zenon, <1>1 DEF Types
<1> QED BY Zenon, <1>1, <1>2, ContentSame, HolderSame

LEMMA StepShadow == ASSUME IndInv, [Next]_vars PROVE [Store!StoreNext]_<<Content, Holder>>
<1> DEFINE Same == Content' = Content /\ Holder' = Holder
           Move == \E p \in Proc, b \in Block :
                     \/ Holder[b] = None /\ Holder' = [Holder EXCEPT ![b] = p] /\ Content' = Content
                     \/ Holder[b] = p /\ Holder' = [Holder EXCEPT ![b] = None] /\ Content' = Content
                     \/ \E x \in Val : Holder[b] = p /\ Content' = [Content EXCEPT ![b] = x] /\ Holder' = Holder
<1>1. ASSUME NEW p \in Proc, acquiresleep(p) \/ bread(p) PROVE Same \/ Move
  BY Zenon, <1>1, AcquireShadow, BreadShadow
<1>2. ASSUME NEW p \in Proc, NEW x \in Val, bpin(p, x) \/ bwrite(p, x) PROVE Move
  BY <1>2, ChangeShadow
<1>3. ASSUME NEW p \in Proc, releasesleep(p) PROVE Move
  BY Zenon, <1>3, ReleaseShadow
<1>4. ASSUME NEW p \in Proc, bunpin(p) \/ brelse(p) \/ \E b \in Block : bget(p, b) PROVE Same
  BY Zenon, <1>4, BunpinShadow, BrelseShadow, BgetShadow
<1>5. ASSUME UNCHANGED vars PROVE Same
  <2>1. UNCHANGED <<blockno, valid, data, disk, pc, want>>
    BY Zenon, <1>5 DEF vars
  <2> QED BY Zenon, <2>1, ContentSame, HolderSame
<1>6. Same \/ Move
  <2> HIDE DEF Same, Move
  <2> QED BY Zenon, <1>1, <1>2, <1>3, <1>4, <1>5 DEF Next, Release
<1>7. Move => Store!StoreNext
  BY Zenon DEF Store!StoreNext, Store!Take, Store!Give, Store!Change, Content, Holder, HolderOf
<1> QED BY Zenon, <1>6, <1>7

\* The cache is transparent: bio.c implements BlockStore, in which each block has one
\* content that only its holder changes, whatever bget() recycles.
THEOREM CacheImplementsStore == Spec => CacheIsStore
<1>1. Init => Store!StoreInit
  <2> SUFFICES ASSUME Init PROVE Content \in [Block -> Val] /\ Holder = [b \in Block |-> None]
    BY Zenon DEF Store!StoreInit, Content, Holder, HolderOf
  <2>1. \A p \in Proc : pc[p] # "hold"
    BY Zenon DEF Init
  <2>2. /\ Content \in [Block -> Val] /\ Holder \in [Block -> Proc \cup {None}]
        /\ \A b \in Block : (\A p \in Proc : ~(pc[p] = "hold" /\ want[p] = b)) => Holder[b] = None
    BY Zenon, InitInd, ContentAt, HolderAt
  <2> QED BY Zenon, <2>1, <2>2
<1>2. IndInv /\ [Next]_vars
      => [Store!StoreNext]_<<[b \in Block |-> IF \E i \in Buf : blockno[i] = b /\ valid[i]
                                              THEN data[CHOOSE i \in Buf : blockno[i] = b /\ valid[i]]
                                              ELSE disk[b]],
                             [b \in Block |-> IF \E p \in Proc : pc[p] = "hold" /\ want[p] = b
                                              THEN CHOOSE p \in Proc : pc[p] = "hold" /\ want[p] = b
                                              ELSE None]>>
  BY Zenon, StepShadow DEF Content, Holder, HolderOf
<1> QED BY <1>1, <1>2, Invariance, PTL DEF Spec, CacheIsStore, Store!StoreSpec

=============================================================================
