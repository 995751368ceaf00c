-------------------------- MODULE CowMemoryProofs --------------------------
(***************************************************************************)
(* kalloc(), kfree(), mappages() and uvmunmap() keep the inductive         *)
(* invariant of CowMemory, whichever process calls them; so do user        *)
(* accesses, the steps of a copy-on-write fault, which makes a page        *)
(* private, those of uvmcopy(), which shares one, and copyout(), sbrk(),   *)
(* exec, exit and wait. The theorems follow, for any number of             *)
(* processes, pages and frames. The lemmas assume the facts about          *)
(* finite sets they need as Counting, which is proved near the end.        *)
(***************************************************************************)
EXTENDS CowMemory, TLAPS

USE ConstantsAssumption

\* Entries named through Cur and Alt are entries of the page tables.
LEMMA CurAltSlot ==
  ASSUME cur \in [Proc -> {0, 1}], NEW p \in Proc, NEW v \in VPage
  PROVE  Cur(p, v) \in Slot /\ Alt(p, v) \in Slot
BY DEF Cur, Alt, Slot, Table

\* An entry has one name: process, table and page determine it.
LEMMA CurInjective ==
  ASSUME cur \in [Proc -> {0, 1}], NEW p \in Proc, NEW q \in Proc, NEW v \in VPage, NEW w \in VPage
  PROVE  /\ Cur(p, v) = Cur(q, w) => p = q /\ v = w
         /\ Alt(p, v) = Alt(q, w) => p = q /\ v = w
         /\ Cur(p, v) # Alt(q, w)
BY DEF Cur, Alt

LEMMA Labels ==
  /\ "user" \in Label /\ "zombie" \in Label /\ "panic" \in Label /\ "unused" \in Label
  /\ "used" \in Label /\ "copyout" \in Label /\ "cow_ref" \in Label /\ "cow_own" \in Label
  /\ "cow_alloc" \in Label /\ "cow_copy" \in Label /\ "cow_map" \in Label
  /\ "cow_free" \in Label /\ "copy" \in Label /\ "addref" \in Label /\ "undo" \in Label
  /\ "grow" \in Label /\ "ungrow" \in Label /\ "shrink" \in Label /\ "load" \in Label
  /\ "bad" \in Label /\ "freeold" \in Label
BY Zenon DEF Label, KernelPath

LEMMA InitType == Init => TypeOK
<1> SUFFICES ASSUME Init PROVE TypeOK
  OBVIOUS
<1>1. KmemOK /\ LocalsOK BY DEF Init, KmemOK, LocalsOK, NoVal
<1>2. PtOK BY Zenon DEF Init, PtOK, NoPte, Pte
<1>3. pc \in [Proc -> Label] BY Zenon, Labels DEF Init
<1> QED BY Zenon, <1>1, <1>2, <1>3 DEF TypeOK

(* The allocator and the tables stay well formed. *)

LEMMA AllocType ==
  ASSUME TypeOK, NEW s \in Slot, NEW x \in Value, NEW w \in BOOLEAN, NEW u \in BOOLEAN, Alloc(s, x, w, u)
  PROVE  KmemOK' /\ PtOK'
BY DEF TypeOK, Alloc, kalloc, KmemOK, PtOK, MkPte, Pte

LEMMA KfreeType ==
  ASSUME KmemOK, NEW f \in Frame, kfree(f)
  PROVE  KmemOK'
<1>1. refcount[f] - 1 \in Nat
  BY DEF KmemOK, kfree
<1> QED BY Zenon, <1>1 DEF KmemOK, kfree

LEMMA UnmapType ==
  ASSUME TypeOK, NEW s \in Slot, Unmap(s)
  PROVE  KmemOK' /\ PtOK'
<1>1. PtOK'
  BY Zenon DEF TypeOK, PtOK, Unmap, NoPte, Pte
<1> QED BY Zenon, <1>1, KfreeType DEF TypeOK, PtOK, Unmap

LEMMA KmemSame == ASSUME KmemOK, UNCHANGED kmem PROVE KmemOK'
BY Zenon DEF KmemOK, kmem

LEMMA PtSame == ASSUME PtOK, UNCHANGED pt PROVE PtOK'
BY Zenon DEF PtOK


----------------------------------------------------------------------------
(* Reference counts *)

\* What the proofs use about finite sets; CowMemoryProofs derives it from the library.
Counting ==
  /\ IsFiniteSet(Slot)
  /\ \A S, T : IsFiniteSet(S) /\ T \subseteq S => IsFiniteSet(T)
  /\ \A S : IsFiniteSet(S) => Cardinality(S) \in Nat /\ (Cardinality(S) = 0 <=> S = {})
  /\ \A S : IsFiniteSet(S) => (Cardinality(S) = 1 <=> \E x : S = {x})
  /\ Cardinality({}) = 0 /\ \A x : Cardinality({x}) = 1
  /\ \A S, x : IsFiniteSet(S) /\ x \notin S => Cardinality(S \cup {x}) = Cardinality(S) + 1
  /\ \A S, x : IsFiniteSet(S) /\ x \in S => Cardinality(S \ {x}) = Cardinality(S) - 1

LEMMA RefsFinite ==
  ASSUME Counting, NEW f PROVE IsFiniteSet(Mappings(f)) /\ IsFiniteSet(Holders(f))
<1>1. Mappings(f) \subseteq Slot /\ Holders(f) \subseteq Proc
  BY Zenon DEF Mappings, Holders
<1> QED BY <1>1, ProcFinite, Zenon DEF Counting

LEMMA CardNat == ASSUME Counting, NEW S, IsFiniteSet(S) PROVE Cardinality(S) \in Nat
BY Zenon DEF Counting

LEMMA CardEmpty ==
  ASSUME Counting
  PROVE  Cardinality({}) = 0 /\ \A S : IsFiniteSet(S) => (Cardinality(S) = 0 <=> S = {})
BY Zenon DEF Counting

LEMMA CardOne ==
  ASSUME Counting
  PROVE  /\ \A x : Cardinality({x}) = 1
         /\ \A S : IsFiniteSet(S) => (Cardinality(S) = 1 <=> \E x : S = {x})
BY Zenon DEF Counting

LEMMA CardAdd ==
  ASSUME Counting, NEW S, IsFiniteSet(S), NEW x, x \notin S
  PROVE  Cardinality(S \cup {x}) = Cardinality(S) + 1
BY Zenon DEF Counting

LEMMA CardRemove ==
  ASSUME Counting, NEW S, IsFiniteSet(S), NEW x \in S
  PROVE  Cardinality(S \ {x}) = Cardinality(S) - 1
BY Zenon DEF Counting

\* The entries not yet counted stay the same when no process enters or leaves that
\* point of uvmcopy().
LEMMA UncountedSame ==
  ASSUME cur' = cur, child' = child,
         \A q \in Proc : /\ pc'[q] = "addref" <=> pc[q] = "addref"
                         /\ pc[q] = "addref" => va'[q] = va[q],
         NEW s
  PROVE  Uncounted(s)' <=> Uncounted(s)
BY Zenon DEF Uncounted, Cur

LEMMA RefcountSame ==
  ASSUME RefcountExact, pt' = pt, held' = held, refcount' = refcount, freelist' = freelist,
         \A s \in Slot : Uncounted(s)' <=> Uncounted(s)
  PROVE  RefcountExact'
<1>1. ASSUME NEW f \in Frame PROVE Mappings(f)' = Mappings(f) /\ Holders(f)' = Holders(f)
  BY Zenon DEF Mappings, Holders, Maps
<1> QED BY Zenon, <1>1 DEF RefcountExact

\* Nothing refers to a page on the free list.
LEMMA FreeUnused ==
  ASSUME Counting, IndInv, NEW f \in freelist
  PROVE  /\ f \in Frame /\ Mappings(f) = {} /\ Holders(f) = {}
         /\ \A s \in Slot : ~Maps(s, f)
<1>1. f \in Frame /\ refcount[f] = 0
  BY Zenon DEF IndInv, TypeOK, KmemOK, RefcountExact
<1>2. Cardinality(Mappings(f)) = 0 /\ Cardinality(Holders(f)) = 0
  BY <1>1, RefsFinite, CardNat DEF IndInv, RefcountExact
<1>3. Mappings(f) = {} /\ Holders(f) = {}
  BY Zenon, <1>2, RefsFinite, CardEmpty
<1>4. ASSUME NEW s \in Slot, Maps(s, f) PROVE FALSE
  <2>1. PICK q \in Proc : pc[q] = "addref" /\ s = Cur(child[q], va[q])
    BY Zenon, <1>3, <1>4 DEF Mappings, Uncounted
  <2>2. va[q] \in VPage /\ Maps(Cur(q, va[q]), f)
    BY <1>4, <2>1 DEF IndInv, ForkOK, Maps, TypeOK, LocalsOK, VPage
  <2>3. ~Uncounted(Cur(q, va[q]))
    BY Zenon, <2>1 DEF Uncounted, Cur, IndInv, ForkOK
  <2>4. Cur(q, va[q]) \in Slot
    BY Zenon, <2>2, CurAltSlot DEF IndInv, TypeOK, LocalsOK
  <2> QED BY Zenon, <1>3, <2>2, <2>3, <2>4 DEF Mappings
<1> QED BY Zenon, <1>1, <1>3, <1>4

\* A page is mapped: kalloc(), memset() and mappages() on an empty entry.
LEMMA RefcountAlloc ==
  ASSUME Counting, IndInv, NEW f \in freelist, NEW x, NEW s \in Slot, kalloc(f, x),
         ~pt[s].V, pt'[s].V, pt'[s].pa = f, \A t \in Slot : t # s => pt'[t] = pt[t], held' = held,
         ~Uncounted(s), \A t \in Slot : Uncounted(t)' <=> Uncounted(t)
  PROVE  RefcountExact'
<1>1. f \in Frame /\ Mappings(f) = {} /\ Holders(f) = {} /\ \A t \in Slot : ~Maps(t, f)
  BY Zenon, FreeUnused
<1>2. pt \in [Slot -> Pte] /\ refcount \in [Frame -> Nat] /\ freelist \subseteq Frame
  BY Zenon DEF IndInv, TypeOK, PtOK, KmemOK
<1>3. Mappings(f)' = {s} /\ Holders(f)' = {}
  BY Zenon, <1>1, <1>2 DEF Mappings, Maps, Holders
<1>4. Cardinality(Mappings(f)') = 1 /\ Cardinality(Holders(f)') = 0
  BY Zenon, <1>3, CardOne, CardEmpty
<1>5. ASSUME NEW g \in Frame, g # f PROVE Mappings(g)' = Mappings(g) /\ Holders(g)' = Holders(g)
  BY Zenon, <1>2, <1>5 DEF Mappings, Maps, Holders
<1>6. refcount'[f] = 1 /\ f \notin freelist'
  BY Zenon, <1>1, <1>2 DEF kalloc
<1>7. ASSUME NEW g \in Frame, g # f PROVE refcount'[g] = refcount[g] /\ (g \in freelist' <=> g \in freelist)
  BY Zenon, <1>1, <1>2, <1>7 DEF kalloc
<1> QED
  BY <1>4, <1>5, <1>6, <1>7 DEF IndInv, RefcountExact

\* A reference goes: kfree() with one mapping or one holder less.
LEMMA RefcountKfree ==
  ASSUME Counting, IndInv, NEW f \in Frame, kfree(f), NEW r,
         \/ r \in Mappings(f) /\ Mappings(f)' = Mappings(f) \ {r} /\ Holders(f)' = Holders(f)
         \/ r \in Holders(f) /\ Holders(f)' = Holders(f) \ {r} /\ Mappings(f)' = Mappings(f),
         \A g \in Frame : g # f => Mappings(g)' = Mappings(g) /\ Holders(g)' = Holders(g)
  PROVE  RefcountExact'
<1>1. refcount \in [Frame -> Nat] /\ freelist \subseteq Frame /\ RefcountExact
  BY Zenon DEF IndInv, TypeOK, KmemOK
<1>2. IsFiniteSet(Mappings(f)) /\ IsFiniteSet(Holders(f))
  BY Zenon, RefsFinite
<1>3. Cardinality(Mappings(f)) \in Nat /\ Cardinality(Holders(f)) \in Nat
  BY Zenon, <1>2, CardNat
<1>4. Cardinality(Mappings(f)') + Cardinality(Holders(f)')
        = Cardinality(Mappings(f)) + Cardinality(Holders(f)) - 1
  <2>1. CASE r \in Mappings(f) /\ Mappings(f)' = Mappings(f) \ {r} /\ Holders(f)' = Holders(f)
    <3>1. Cardinality(Mappings(f) \ {r}) = Cardinality(Mappings(f)) - 1 BY Zenon, <1>2, <2>1, CardRemove
    <3> QED BY <1>3, <2>1, <3>1
  <2>2. CASE r \in Holders(f) /\ Holders(f)' = Holders(f) \ {r} /\ Mappings(f)' = Mappings(f)
    <3>1. Cardinality(Holders(f) \ {r}) = Cardinality(Holders(f)) - 1 BY Zenon, <1>2, <2>2, CardRemove
    <3> QED BY Zenon, <1>3, <2>2, <3>1
  <2> QED BY Zenon, <2>1, <2>2
<1>5. refcount'[f] = refcount[f] - 1 /\ (f \in freelist' <=> refcount'[f] = 0)
  BY <1>1 DEF kfree, RefcountExact
<1>6. ASSUME NEW g \in Frame, g # f PROVE refcount'[g] = refcount[g] /\ (g \in freelist' <=> g \in freelist)
  BY Zenon, <1>1, <1>6 DEF kfree
<1>7. refcount[f] = Cardinality(Mappings(f)) + Cardinality(Holders(f))
  BY Zenon, <1>1 DEF RefcountExact
<1>8. refcount'[f] = Cardinality(Mappings(f)') + Cardinality(Holders(f)')
  BY <1>1, <1>3, <1>4, <1>5, <1>7
<1>9. ASSUME NEW g \in Frame
      PROVE  /\ refcount'[g] = Cardinality(Mappings(g)') + Cardinality(Holders(g)')
             /\ g \in freelist' <=> refcount'[g] = 0
  <2>1. CASE g = f BY Zenon, <1>5, <1>8, <2>1
  <2>2. CASE g # f BY Zenon, <1>1, <1>6, <2>2 DEF RefcountExact
  <2> QED BY Zenon, <2>1, <2>2
<1> QED BY Zenon, <1>9 DEF RefcountExact

LEMMA RefcountUnmap ==
  ASSUME Counting, IndInv, NEW s \in Slot, Unmap(s), held' = held,
         ~Uncounted(s), \A t \in Slot : Uncounted(t)' <=> Uncounted(t)
  PROVE  RefcountExact'
<1>0. PICK f \in Frame : f = pt[s].pa
  BY Zenon DEF IndInv, TypeOK, PtOK, Unmap
<1>1. pt \in [Slot -> Pte] /\ kfree(f) /\ pt[s].V /\ f = pt[s].pa
  BY Zenon, <1>0 DEF IndInv, TypeOK, PtOK, Unmap
<1>2. s \in Mappings(f) /\ Mappings(f)' = Mappings(f) \ {s} /\ Holders(f)' = Holders(f)
  BY Zenon, <1>1 DEF Mappings, Maps, Holders, Unmap, NoPte
<1>3. ASSUME NEW g \in Frame, g # f PROVE Mappings(g)' = Mappings(g) /\ Holders(g)' = Holders(g)
  BY Zenon, <1>1, <1>3 DEF Mappings, Maps, Holders, Unmap, NoPte
<1> QED BY Zenon, <1>1, <1>2, <1>3, RefcountKfree

\* kgetref() returned 1: the one reference is the faulting entry.
LEMMA SoleOwner ==
  ASSUME Counting, IndInv, NEW p \in Proc, pc[p] = "cow_own"
  PROVE  /\ Mappings(pt[Cur(p, va[p])].pa) = {Cur(p, va[p])}
         /\ Holders(pt[Cur(p, va[p])].pa) = {}
         /\ \A t \in Slot : Maps(t, pt[Cur(p, va[p])].pa) => t = Cur(p, va[p])
<1> DEFINE s == Cur(p, va[p])  f == pt[s].pa
<1>1. va[p] \in VPage /\ s \in Slot /\ pt[s].V /\ refcount[f] = 1 /\ f \in Frame
  BY Zenon, CurAltSlot DEF IndInv, CowOK, TypeOK, PtOK, LocalsOK
<1>2. ~Uncounted(s)
  BY Zenon DEF Uncounted, Cur, IndInv, ForkOK
<1>3. s \in Mappings(f)
  BY Zenon, <1>1, <1>2 DEF Mappings, Maps
<1>4. IsFiniteSet(Mappings(f)) /\ IsFiniteSet(Holders(f)) /\ Cardinality(Mappings(f)) \in Nat /\ Cardinality(Holders(f)) \in Nat
  BY Zenon, RefsFinite, CardNat
<1>5. Cardinality(Mappings(f)) # 0
  BY Zenon, <1>3, <1>4, CardEmpty
<1>6. Cardinality(Mappings(f)) = 1 /\ Cardinality(Holders(f)) = 0
  BY <1>1, <1>4, <1>5 DEF IndInv, RefcountExact
<1>7. Mappings(f) = {s} /\ Holders(f) = {}
  BY <1>3, <1>4, <1>6, CardOne, CardEmpty
<1>8. ASSUME NEW t \in Slot, Maps(t, f), t # s PROVE FALSE
  <2>1. PICK q \in Proc : pc[q] = "addref" /\ t = Cur(child[q], va[q])
    BY Zenon, <1>7, <1>8 DEF Mappings, Uncounted
  <2>2. va[q] \in VPage /\ Maps(Cur(q, va[q]), f)
    BY <1>8, <2>1 DEF IndInv, ForkOK, Maps, TypeOK, LocalsOK, VPage
  <2>3. ~Uncounted(Cur(q, va[q]))
    BY Zenon, <2>1 DEF Uncounted, Cur, IndInv, ForkOK
  <2>4. Cur(q, va[q]) \in Slot
    BY Zenon, <2>2, CurAltSlot DEF IndInv, TypeOK, LocalsOK
  <2>5. Cur(q, va[q]) = s
    BY Zenon, <1>7, <2>2, <2>3, <2>4 DEF Mappings
  <2> QED BY Zenon, <2>1, <2>5 DEF Cur
<1> QED BY Zenon, <1>7, <1>8

----------------------------------------------------------------------------
(* What one process's step leaves of another process's invariant *)

\* The entries of a fork in progress, and of a fault in progress, exist.
LEMMA ForkTypes ==
  ASSUME IndInv, NEW q \in Proc, pc[q] = "addref"
  PROVE  /\ va[q] \in VPage /\ child[q] \in Proc /\ child[q] # q /\ pc[child[q]] = "used"
         /\ Cur(q, va[q]) \in Slot /\ Cur(child[q], va[q]) \in Slot
<1>1. ForkOK(q) /\ cur \in [Proc -> {0, 1}] /\ va[q] \in 0 .. NPages /\ sz[q] \in 0 .. NPages
  BY Zenon DEF IndInv, TypeOK, LocalsOK
<1>2. va[q] \in VPage /\ child[q] \in Proc /\ pc[child[q]] = "used"
  BY <1>1 DEF ForkOK, Forking, VPage
<1> QED BY Zenon, <1>1, <1>2, CurAltSlot

Faulting == {"cow_ref", "cow_own", "cow_alloc", "cow_copy", "cow_map"}

LEMMA CowTypes ==
  ASSUME IndInv, NEW q \in Proc, pc[q] \in Faulting
  PROVE  /\ va[q] \in VPage /\ Cur(q, va[q]) \in Slot
         /\ pt[Cur(q, va[q])].V /\ ~pt[Cur(q, va[q])].W /\ pt[Cur(q, va[q])].pa \in Frame
<1>1. CowOK(q) /\ cur \in [Proc -> {0, 1}] /\ PtOK
  BY Zenon DEF IndInv, TypeOK, LocalsOK
<1>2. va[q] \in VPage /\ pt[Cur(q, va[q])].V /\ ~pt[Cur(q, va[q])].W
  BY Zenon, <1>1 DEF CowOK, Faulting, Holding
<1>3. Cur(q, va[q]) \in Slot
  BY Zenon, <1>1, <1>2, CurAltSlot
<1> QED BY Zenon, <1>1, <1>2, <1>3 DEF PtOK

LEMMA ForkKeeps ==
  ASSUME NEW q \in Proc, ForkOK(q), cur'[q] = cur[q], child'[q] = child[q],
         child[q] \in Proc => \A r \in Proc : child[r] # child[q] => child'[r] # child[q],
         pc'[q] = pc[q], va'[q] = va[q], sz'[q] = sz[q],
         child[q] \in Proc => pc'[child[q]] = pc[child[q]] /\ cur'[child[q]] = cur[child[q]],
         pc[q] = "addref" => /\ pt'[Cur(q, va[q])] = pt[Cur(q, va[q])]
                             /\ pt'[Cur(child[q], va[q])] = pt[Cur(child[q], va[q])]
  PROVE  ForkOK(q)'
<1>1. pc[q] = "addref" => Cur(q, va[q])' = Cur(q, va[q]) /\ Cur(child[q], va[q])' = Cur(child[q], va[q])
  BY Zenon DEF ForkOK, Forking, Cur
<1> QED BY Zenon, <1>1 DEF ForkOK

LEMMA TablesKeep ==
  ASSUME NEW q \in Proc, TablesFit(q), cur'[q] = cur[q],
         pc'[q] = pc[q], va'[q] = va[q], sz'[q] = sz[q], lim'[q] = lim[q],
         \A r \in Proc : child[r] = q => child'[r] = q /\ va'[r] = va[r] /\ (pc[r] = "addref" => pc'[r] = "addref"),
         \A i \in VPage : /\ pt'[Cur(q, i)].V => pt[Cur(q, i)].V
                          /\ pt'[Alt(q, i)].V => pt[Alt(q, i)].V
  PROVE  TablesFit(q)'
<1>1. \A i \in VPage : Cur(q, i)' = Cur(q, i) /\ Alt(q, i)' = Alt(q, i)
  BY Zenon DEF Cur, Alt
<1> QED BY <1>1 DEF TablesFit

LEMMA CowKeeps ==
  ASSUME NEW q \in Proc, CowOK(q), GrowOK(q), cur'[q] = cur[q], held'[q] = held[q],
         pc'[q] = pc[q], va'[q] = va[q], sz'[q] = sz[q], lim'[q] = lim[q],
         pc[q] \in Faulting => pt'[Cur(q, va[q])] = pt[Cur(q, va[q])],
         pc[q] = "cow_own" /\ refcount[pt[Cur(q, va[q])].pa] = 1 => refcount'[pt[Cur(q, va[q])].pa] = 1,
         pc[q] \in {"cow_copy", "cow_map"} =>
           /\ \A r \in Proc : held[r] # held[q] => held'[r] # held[q]
           /\ \A t \in Slot : Maps(t, held[q])' => Maps(t, held[q])
  PROVE  CowOK(q)' /\ GrowOK(q)'
<1>1. GrowOK(q)'
  BY Zenon DEF GrowOK
<1>2. Cur(q, va[q])' = Cur(q, va[q])
  BY Zenon DEF Cur
<1>3. CowOK(q)'
  BY Zenon, <1>2 DEF CowOK, Faulting
<1> QED BY Zenon, <1>1, <1>3

\* What IndInv says of one process.
LEMMA IndOf ==
  ASSUME IndInv, NEW q \in Proc
  PROVE  TablesFit(q) /\ ForkOK(q) /\ CowOK(q) /\ GrowOK(q)
BY Zenon DEF IndInv, TablesFitSize

\* A process that kfork() is not making is nobody's child.
LEMMA NotAChild ==
  ASSUME IndInv, NEW p \in Proc, pc[p] # "used", NEW q \in Proc
  PROVE  child[q] # p
<1>1. ForkOK(q)
  BY Zenon, IndOf
<1> QED BY Zenon, <1>1 DEF ForkOK

----------------------------------------------------------------------------
(* Steps that leave the tables and the counts alone *)

\* Nothing changes but pc, va, lim, val and sz of p, which is not in kfork().
OnlyLocals(p) ==
  /\ UNCHANGED <<cur, child>>
  /\ \A q \in Proc \ {p} : pc'[q] = pc[q] /\ va'[q] = va[q] /\ lim'[q] = lim[q] /\ sz'[q] = sz[q]
  /\ pc[p] \notin Forking \cup {"unused", "used"}
  /\ pc'[p] \notin Forking \cup {"used"}

LEMMA OnlyLocalsUncounted ==
  ASSUME TypeOK, NEW p \in Proc, OnlyLocals(p)
  PROVE  \A s \in Slot : Uncounted(s)' <=> Uncounted(s)
<1>1. \A q \in Proc : (pc'[q] = "addref" <=> pc[q] = "addref") /\ (pc[q] = "addref" => va'[q] = va[q])
  BY Zenon DEF OnlyLocals, Forking
<1> QED BY Zenon, <1>1, UncountedSame DEF OnlyLocals

\* The invariant after a step of p, from what it says of p and of the others.
LEMMA IndFrom ==
  ASSUME TypeOK', RefcountExact', WritableIsPrivate', NEW p \in Proc,
         TablesFit(p)', ForkOK(p)', CowOK(p)', GrowOK(p)',
         \A q \in Proc \ {p} : TablesFit(q)' /\ ForkOK(q)' /\ CowOK(q)' /\ GrowOK(q)'
  PROVE  IndInv'
BY Zenon DEF IndInv, TablesFitSize

\* The others keep theirs when the step leaves their entries and counts alone.
LEMMA OthersKeep ==
  ASSUME IndInv, NEW p \in Proc, OnlyLocals(p), NEW q \in Proc \ {p},
         \A r \in Proc \ {p} : held'[r] = held[r],
         \A r \in Proc \ {p}, i \in VPage :
            pt'[Cur(r, i)] = pt[Cur(r, i)] /\ pt'[Alt(r, i)] = pt[Alt(r, i)],
         pc[q] = "cow_own" /\ refcount[pt[Cur(q, va[q])].pa] = 1 => refcount'[pt[Cur(q, va[q])].pa] = 1,
         pc[q] \in {"cow_copy", "cow_map"} =>
           /\ held[p] # held[q] => held'[p] # held[q]
           /\ \A t \in Slot : Maps(t, held[q])' => Maps(t, held[q])
  PROVE  TablesFit(q)' /\ ForkOK(q)' /\ CowOK(q)' /\ GrowOK(q)'
<1>1. /\ cur' = cur /\ child' = child /\ pc[p] \notin Forking /\ pc[p] # "used"
      /\ \A r \in Proc \ {p} : pc'[r] = pc[r] /\ va'[r] = va[r] /\ lim'[r] = lim[r] /\ sz'[r] = sz[r]
  BY Zenon DEF OnlyLocals
<1>2. child[p] = NoProc
  BY Zenon, <1>1, IndOf DEF ForkOK
<1>3. child[q] # p
  BY Zenon, <1>1, NotAChild
<1>4. TablesFit(q)'
  <2>1. TablesFit(q) /\ NoProc # q
    BY Zenon, IndOf
  <2> QED BY Zenon, <1>1, <1>2, <2>1, TablesKeep
<1>5. pc[q] = "addref" => /\ pt'[Cur(q, va[q])] = pt[Cur(q, va[q])]
                          /\ pt'[Cur(child[q], va[q])] = pt[Cur(child[q], va[q])]
  BY ZenonT(30), <1>3, ForkTypes
<1>6. ForkOK(q)'
  BY Zenon, <1>1, <1>3, <1>5, IndOf, ForkKeeps
<1>7. pc[q] \in Faulting => pt'[Cur(q, va[q])] = pt[Cur(q, va[q])]
  BY Zenon, CowTypes
<1>8. pc[q] \in {"cow_copy", "cow_map"} => \A r \in Proc : held[r] # held[q] => held'[r] # held[q]
  OBVIOUS
<1>9. CowOK(q)' /\ GrowOK(q)'
  BY Zenon, <1>1, <1>7, <1>8, IndOf, CowKeeps
<1> QED BY Zenon, <1>4, <1>6, <1>9

LEMMA LocalForkOK ==
  ASSUME IndInv, NEW p \in Proc, OnlyLocals(p), pc'[p] = "unused" => sz'[p] = 0
  PROVE  ForkOK(p)'
<1>1. ForkOK(p)
  BY Zenon, IndOf
<1> QED BY Zenon, <1>1 DEF ForkOK, OnlyLocals, Forking

\* Between system calls a process has no entry beyond its size.
LEMMA PlainTables ==
  ASSUME IndInv, NEW p \in Proc, pc[p] \notin {"grow", "ungrow", "used", "load", "bad", "freeold"}
  PROVE  \A v \in VPage : (pt[Cur(p, v)].V => v < sz[p]) /\ ~pt[Alt(p, v)].V
<1>1. TablesFit(p)
  BY Zenon, IndOf
<1> QED BY Zenon, <1>1 DEF TablesFit

LEMMA QuietInd ==
  ASSUME IndInv, TypeOK', NEW p \in Proc, OnlyLocals(p),
         UNCHANGED <<freelist, refcount, pt, held>>,
         TablesFit(p)', ForkOK(p)', CowOK(p)', GrowOK(p)'
  PROVE  IndInv'
<1>1. RefcountExact'
  BY Zenon, OnlyLocalsUncounted, RefcountSame DEF IndInv
<1>2. WritableIsPrivate' <=> WritableIsPrivate
  BY Zenon DEF WritableIsPrivate
<1>3. ASSUME NEW q \in Proc \ {p} PROVE TablesFit(q)' /\ ForkOK(q)' /\ CowOK(q)' /\ GrowOK(q)'
  <2>1. \A t \in Slot : Maps(t, held[q])' => Maps(t, held[q])
    BY Zenon DEF Maps
  <2> QED BY Zenon, <2>1, OthersKeep
<1> QED BY Zenon, <1>1, <1>2, <1>3, IndFrom DEF IndInv

----------------------------------------------------------------------------
(* Steps that map or unmap one page *)

LEMMA AllocInd ==
  ASSUME Counting, IndInv, TypeOK', NEW p \in Proc, OnlyLocals(p), UNCHANGED held,
         NEW v \in VPage, NEW s, s = Cur(p, v) \/ s = Alt(p, v), ~pt[s].V,
         NEW x \in Value, NEW w \in BOOLEAN, NEW u \in BOOLEAN, Alloc(s, x, w, u),
         TablesFit(p)', ForkOK(p)', CowOK(p)', GrowOK(p)'
  PROVE  IndInv'
<1>1. s \in Slot /\ pt \in [Slot -> Pte] /\ refcount \in [Frame -> Nat] /\ cur \in [Proc -> {0, 1}]
  BY CurAltSlot DEF IndInv, TypeOK, LocalsOK, PtOK, KmemOK
<1>2. PICK f \in freelist : kalloc(f, x) /\ pt' = [pt EXCEPT ![s] = MkPte(f, w, u, FALSE)]
  BY Zenon DEF Alloc
<1>3. f \in Frame /\ Holders(f) = {} /\ \A t \in Slot : ~Maps(t, f)
  BY Zenon, FreeUnused
<1>4. \A q \in Proc, i \in VPage : q # p => s # Cur(q, i) /\ s # Alt(q, i)
  BY DEF Cur, Alt
<1>5. ~Uncounted(s)
  BY Zenon DEF Uncounted, Cur, Alt, IndInv, ForkOK, OnlyLocals
<1>a. pt'[s].V /\ pt'[s].pa = f /\ \A t \in Slot : t # s => pt'[t] = pt[t]
  BY Zenon, <1>1, <1>2 DEF MkPte
<1>c. \A t \in Slot : Uncounted(t)' <=> Uncounted(t)
  BY Zenon, OnlyLocalsUncounted DEF IndInv
<1>6. RefcountExact'
  BY ZenonT(60), <1>1, <1>2, <1>5, <1>a, <1>c, RefcountAlloc
<1>b. \A q \in Proc, i \in VPage : q # p => pt'[Cur(q, i)] = pt[Cur(q, i)] /\ pt'[Alt(q, i)] = pt[Alt(q, i)]
  BY Zenon, <1>1, <1>4, <1>a, CurAltSlot
<1>7. WritableIsPrivate'
  <2> SUFFICES ASSUME NEW t \in Slot, NEW r \in Slot, t # r, pt'[t].V, pt'[r].V, pt'[t].pa = pt'[r].pa
               PROVE  ~pt'[t].W
    BY Zenon DEF WritableIsPrivate
  <2>1. t # s /\ r # s
    BY Zenon, <1>3, <1>a DEF Maps
  <2> QED BY Zenon, <1>a, <2>1 DEF IndInv, WritableIsPrivate
<1>8. ASSUME NEW q \in Proc \ {p} PROVE TablesFit(q)' /\ ForkOK(q)' /\ CowOK(q)' /\ GrowOK(q)'
  <2>1. \A g \in Frame : g # f => refcount'[g] = refcount[g]
    BY Zenon, <1>1, <1>2 DEF kalloc
  <2>2. pc[q] = "cow_own" => refcount'[pt[Cur(q, va[q])].pa] = refcount[pt[Cur(q, va[q])].pa]
    <3> SUFFICES ASSUME pc[q] = "cow_own" PROVE pt[Cur(q, va[q])].pa \in Frame \ {f}
      BY Zenon, <2>1
    <3> QED BY Zenon, <1>3, CowTypes DEF Faulting, Maps
  <2>3. held[q] # f
    BY Zenon, <1>3 DEF Holders
  <2>4. \A t \in Slot : Maps(t, held[q])' => Maps(t, held[q])
    BY Zenon, <1>a, <2>3 DEF Maps
  <2> QED BY ZenonT(30), <1>b, <2>2, <2>4, OthersKeep
<1> QED BY Zenon, <1>6, <1>7, <1>8, IndFrom

\* vmfault() maps a zeroed page for a process that runs or copies out.
LEMMA VmfaultInd ==
  ASSUME Counting, IndInv, NEW p \in Proc, NEW v \in VPage, pc[p] \in {"user", "copyout"},
         Vmfault(p, v), UNCHANGED <<cur, sz, pc, locals>>
  PROVE  IndInv'
<1>0. /\ TypeOK /\ KmemOK /\ PtOK /\ LocalsOK /\ pc \in [Proc -> Label]
      /\ UNCHANGED <<va, lim, val, held, child>>
  BY Zenon DEF IndInv, TypeOK, locals
<1>1. Cur(p, v) \in Slot
  BY Zenon, <1>0, CurAltSlot DEF LocalsOK
<1>2. TypeOK'
  BY Zenon, <1>0, <1>1, AllocType DEF Vmfault, TypeOK, LocalsOK
<1>3. OnlyLocals(p)
  BY Zenon, <1>0 DEF OnlyLocals, Forking
<1>4. \A i \in VPage : Alt(p, i) # Cur(p, v) /\ (i # v => Cur(p, i) # Cur(p, v))
  BY Zenon, <1>0, CurInjective DEF LocalsOK
<1>5. \A i \in VPage : pt'[Alt(p, i)] = pt[Alt(p, i)] /\ (i # v => pt'[Cur(p, i)] = pt[Cur(p, i)])
  BY Zenon, <1>0, <1>1, <1>4, CurAltSlot DEF Vmfault, Alloc, PtOK, LocalsOK
<1>6. TablesFit(p)'
  <2>1. \A i \in VPage : Cur(p, i)' = Cur(p, i) /\ Alt(p, i)' = Alt(p, i)
    BY Zenon DEF Cur, Alt
  <2>2. \A i \in VPage : (pt'[Cur(p, i)].V => i < sz[p]) /\ ~pt'[Alt(p, i)].V
    BY Zenon, <1>5, PlainTables DEF Vmfault
  <2> QED BY Zenon, <2>1, <2>2 DEF TablesFit
<1>7. CowOK(p)'
  <2>1. CowOK(p)
    BY Zenon, IndOf
  <2> QED BY Zenon, <1>0, <2>1 DEF CowOK, Holding
<1>8. ForkOK(p)'
  BY Zenon, <1>3, LocalForkOK
<1>9. GrowOK(p)'
  BY Zenon DEF GrowOK
<1> QED BY Zenon, <1>0, <1>2, <1>3, <1>6, <1>7, <1>8, <1>9, AllocInd DEF Vmfault

\* The process whose table the entry is in.
Owner(s) == s[1][1]

LEMMA UnmapInd ==
  ASSUME Counting, IndInv, TypeOK', NEW s \in Slot, Unmap(s), UNCHANGED <<cur, sz, pc, locals>>,
         ~Uncounted(s),
         pc[Owner(s)] \notin {"addref", "cow_ref", "cow_own", "cow_alloc", "cow_copy", "cow_map"}
  PROVE  IndInv'
<1>1. /\ pt \in [Slot -> Pte] /\ refcount \in [Frame -> Nat] /\ pt[s].pa \in Frame
      /\ UNCHANGED <<va, lim, val, held, child>>
  BY Zenon DEF IndInv, TypeOK, PtOK, KmemOK, Unmap, locals
<1>2. ~pt'[s].V /\ \A t \in Slot : t # s => pt'[t] = pt[t]
  BY Zenon, <1>1 DEF Unmap, NoPte
<1>3. \A t \in Slot : Uncounted(t)' <=> Uncounted(t)
  BY Zenon, <1>1, UncountedSame
<1>4. RefcountExact'
  BY Zenon, <1>1, <1>3, RefcountUnmap
<1>5. WritableIsPrivate'
  BY Zenon, <1>2 DEF IndInv, WritableIsPrivate
<1>6. \A t \in Slot : (pt'[t].V => pt[t].V) /\ (t # s => pt'[t] = pt[t])
  BY Zenon, <1>2
<1>7. ASSUME NEW q \in Proc PROVE TablesFit(q)'
  <2>1. cur \in [Proc -> {0, 1}]
    BY ZenonT(60) DEF IndInv, TypeOK, LocalsOK
  <2>2. \A i \in VPage : Cur(q, i) \in Slot /\ Alt(q, i) \in Slot
    BY Zenon, <2>1, CurAltSlot
  <2>3. \A i \in VPage : (pt'[Cur(q, i)].V => pt[Cur(q, i)].V) /\ (pt'[Alt(q, i)].V => pt[Alt(q, i)].V)
    BY Zenon, <1>6, <2>2
  <2> QED BY Zenon, <1>1, <2>3, IndOf, TablesKeep
<1>8. ASSUME NEW q \in Proc PROVE ForkOK(q)'
  <2>1. pc[q] = "addref" => s # Cur(q, va[q]) /\ s # Cur(child[q], va[q])
    BY DEF Owner, Cur, Uncounted
  <2>2. pc[q] = "addref" => pt'[Cur(q, va[q])] = pt[Cur(q, va[q])] /\ pt'[Cur(child[q], va[q])] = pt[Cur(child[q], va[q])]
    BY Zenon, <1>6, <2>1, ForkTypes
  <2> QED BY ZenonT(60), <1>1, <2>2, IndOf, ForkKeeps
<1>9. ASSUME NEW q \in Proc PROVE CowOK(q)' /\ GrowOK(q)'
  <2>1. pc[q] \in Faulting => s # Cur(q, va[q])
    <3>1. Owner(Cur(q, va[q])) = q
      BY ZenonT(60) DEF Owner, Cur
    <3>2. pc[Owner(s)] \notin Faulting
      BY Zenon DEF Faulting
    <3> QED BY Zenon, <3>1, <3>2
  <2>2. pc[q] \in Faulting => pt'[Cur(q, va[q])] = pt[Cur(q, va[q])]
    BY Zenon, <1>6, <2>1, CowTypes
  <2>3. pc[q] = "cow_own" => refcount'[pt[Cur(q, va[q])].pa] = refcount[pt[Cur(q, va[q])].pa]
    <3> SUFFICES ASSUME pc[q] = "cow_own" PROVE refcount'[pt[Cur(q, va[q])].pa] = refcount[pt[Cur(q, va[q])].pa]
      OBVIOUS
    <3>1. pt[Cur(q, va[q])].pa \in Frame /\ Cur(q, va[q]) # s
      BY Zenon, <2>1, CowTypes DEF Faulting
    <3>2. pt[Cur(q, va[q])].pa # pt[s].pa
      BY Zenon, <3>1, SoleOwner DEF Maps, Unmap
    <3> QED BY ZenonT(60), <1>1, <3>1, <3>2 DEF Unmap, kfree
  <2>4. \A t \in Slot : Maps(t, held[q])' => Maps(t, held[q])
    BY Zenon, <1>1, <1>2 DEF Maps
  <2> QED BY ZenonT(60), <1>1, <2>2, <2>3, <2>4, IndOf, CowKeeps
<1> QED BY Zenon, <1>4, <1>5, <1>7, <1>8, <1>9 DEF IndInv, TablesFitSize

\* A step of p that changes no page table and leaves p between system calls, or
\* at the start or at the end of one.
LEMMA PlainInd ==
  ASSUME IndInv, TypeOK', NEW p \in Proc, OnlyLocals(p),
         UNCHANGED <<freelist, refcount, pt, held>>, pc[p] \notin Holding,
         pc'[p] \notin {"grow", "ungrow"} \cup Faulting \cup Holding,
         pc'[p] = "copyout" => va'[p] \in VPage,
         pc'[p] = "unused" => sz'[p] = 0,
         \A v \in VPage : (pt[Cur(p, v)].V => v < sz'[p]) /\ ~pt[Alt(p, v)].V
  PROVE  IndInv'
<1>1. TablesFit(p)'
  <2>1. \A v \in VPage : Cur(p, v)' = Cur(p, v) /\ Alt(p, v)' = Alt(p, v)
    BY Zenon DEF OnlyLocals, Cur, Alt
  <2> QED BY Zenon, <2>1 DEF TablesFit
<1>2. CowOK(p)'
  <2>1. held[p] \notin Frame
    BY Zenon, IndOf DEF CowOK
  <2> QED BY Zenon, <2>1 DEF CowOK, Faulting, Holding
<1>3. ForkOK(p)'
  BY Zenon, LocalForkOK
<1>4. GrowOK(p)'
  BY Zenon DEF GrowOK
<1> QED BY Zenon, <1>1, <1>2, <1>3, <1>4, QuietInd

\* A write to a shared page: p enters cowfault(), from a trap or from copyout().
LEMMA TrapInd ==
  ASSUME IndInv, TypeOK', NEW p \in Proc, OnlyLocals(p),
         UNCHANGED <<freelist, refcount, pt, held>>, pc[p] \in {"user", "copyout"},
         pc'[p] = "cow_ref", va'[p] \in VPage, sz'[p] = sz[p],
         pt[Cur(p, va'[p])].V, ~pt[Cur(p, va'[p])].W
  PROVE  IndInv'
<1>1. TablesFit(p)'
  <2>1. \A v \in VPage : Cur(p, v)' = Cur(p, v) /\ Alt(p, v)' = Alt(p, v)
    BY Zenon DEF OnlyLocals, Cur, Alt
  <2> QED BY Zenon, <2>1, PlainTables DEF TablesFit
<1>2. CowOK(p)'
  <2>1. held[p] \notin Frame
    BY Zenon, IndOf DEF CowOK, Holding
  <2>2. Cur(p, va[p])' = Cur(p, va'[p])
    BY Zenon DEF OnlyLocals, Cur
  <2> QED BY Zenon, <2>1, <2>2 DEF CowOK, Holding
<1>3. ForkOK(p)'
  BY Zenon, LocalForkOK
<1>4. GrowOK(p)'
  BY Zenon DEF GrowOK
<1> QED BY Zenon, <1>1, <1>2, <1>3, <1>4, QuietInd

-----------------------------------------------------------------------------
\* User accesses, faults and the loop of uvmcopy().

\* A step of p on one of its entries: what the other processes rely on.
LEMMA OthersInd ==
  ASSUME IndInv, TypeOK', NEW p \in Proc, OnlyLocals(p), NEW v \in VPage,
         \A t \in Slot : t # Cur(p, v) => pt'[t] = pt[t],
         \A q \in Proc : q # p => held'[q] = held[q],
         \A q \in Proc : q # p /\ pc[q] = "cow_own" => refcount'[pt[Cur(q, va[q])].pa] = 1,
         \A q \in Proc : q # p /\ pc[q] \in {"cow_copy", "cow_map"} =>
           held'[p] # held[q] /\ \A t \in Slot : Maps(t, held[q])' => Maps(t, held[q]),
         RefcountExact', WritableIsPrivate', TablesFit(p)', ForkOK(p)', CowOK(p)', GrowOK(p)'
  PROVE  IndInv'
<1>1. cur \in [Proc -> {0, 1}]
  BY Zenon DEF IndInv, TypeOK, LocalsOK
<1>2. \A q \in Proc, i \in VPage : q # p =>
        /\ pt'[Cur(q, i)] = pt[Cur(q, i)] /\ pt'[Alt(q, i)] = pt[Alt(q, i)]
        /\ Cur(q, i)' = Cur(q, i) /\ Alt(q, i)' = Alt(q, i)
  <2>1. ASSUME NEW q \in Proc, NEW i \in VPage, q # p PROVE Cur(p, v) # Cur(q, i) /\ Cur(p, v) # Alt(q, i)
    BY Zenon, <2>1 DEF Cur, Alt
  <2> QED BY Zenon, <1>1, <2>1, CurAltSlot DEF Cur, Alt, OnlyLocals
<1>3. ASSUME NEW q \in Proc \ {p} PROVE TablesFit(q)' /\ ForkOK(q)' /\ CowOK(q)' /\ GrowOK(q)'
  <2>1. pc[q] \in {"cow_copy", "cow_map"} =>
          held'[p] # held[q] /\ \A t \in Slot : Maps(t, held[q])' => Maps(t, held[q])
    OBVIOUS
  <2> QED BY <1>2, <2>1, OthersKeep
<1> QED BY Zenon, <1>3, IndFrom

-----------------------------------------------------------------------------
\* User accesses.

LEMMA AccessInd == ASSUME Counting, IndInv, NEW p \in Proc, Access(p) PROVE IndInv'
<1> USE DEF NoVal
<1>0. /\ TypeOK /\ KmemOK /\ PtOK /\ LocalsOK /\ pc \in [Proc -> Label]
      /\ TablesFit(p) /\ CowOK(p) /\ GrowOK(p)
  BY Zenon DEF IndInv, TypeOK, TablesFitSize
<1>1. PICK v \in VPage :
        \/ \E x \in Value : Store(p, v, x) \/ CopyoutCall(p, v, x)
        \/ LazyFault(p, v) \/ ProtectionFault(p, v) \/ CowTrap(p, v)
  BY ZenonT(60) DEF Access, copyin, LazyFault, Vmfault
<1>2. Cur(p, v) \in Slot
  BY Zenon, <1>0, CurAltSlot DEF LocalsOK
<1>3. ASSUME NEW x \in Value, Store(p, v, x) PROVE IndInv'
  <2>1. KmemOK'
    BY Zenon, <1>0, <1>2, <1>3 DEF Store, KmemOK, PtOK
  <2>2. TypeOK'
    BY Zenon, <1>0, <1>3, <2>1, PtSame DEF Store, TypeOK, LocalsOK, locals
  <2>3. OnlyLocals(p)
    BY Zenon, <1>3 DEF Store, OnlyLocals, Forking, locals
  <2>4. pc[p] = "user" /\ pc' = pc /\ sz' = sz /\ UNCHANGED <<freelist, refcount, pt, held>>
    BY Zenon, <1>3 DEF Store, locals
  <2> QED BY Zenon, <2>2, <2>3, <2>4, PlainTables, PlainInd DEF Faulting, Holding
<1>4. ASSUME NEW x \in Value, CopyoutCall(p, v, x) PROVE IndInv'
  <2>1. LocalsOK' /\ pc' \in [Proc -> Label]
    BY <1>0, <1>4, Labels DEF CopyoutCall, Goto, LocalsOK, VPage
  <2>2. TypeOK'
    BY Zenon, <1>0, <1>4, <2>1, PtSame, KmemSame DEF CopyoutCall, TypeOK
  <2>3. OnlyLocals(p)
    BY Zenon, <1>0, <1>4 DEF CopyoutCall, Goto, LocalsOK, OnlyLocals, Forking
  <2>4. pc[p] = "user" /\ pc'[p] = "copyout" /\ va'[p] = v /\ sz' = sz /\ UNCHANGED <<freelist, refcount, pt, held>>
    BY Zenon, <1>0, <1>4 DEF CopyoutCall, Goto, LocalsOK, kmem
  <2> QED BY Zenon, <2>2, <2>3, <2>4, PlainTables, PlainInd DEF Faulting, Holding
<1>5. CASE LazyFault(p, v)
  <2>1. CASE Vmfault(p, v) /\ UNCHANGED pc
    BY Zenon, <1>5, <2>1, VmfaultInd DEF LazyFault
  <2>2. CASE Kexit(p) /\ UNCHANGED <<kmem, pt>>
    <3>1. TypeOK'
      BY Zenon, <1>0, <1>5, <2>2, PtSame, KmemSame, Labels DEF LazyFault, Kexit, Goto, TypeOK, LocalsOK, locals
    <3>2. OnlyLocals(p)
      BY Zenon, <1>0, <1>5, <2>2 DEF LazyFault, Kexit, Goto, OnlyLocals, Forking, locals
    <3>3. pc[p] = "user" /\ pc'[p] \in {"zombie", "panic"} /\ sz' = sz /\ UNCHANGED <<freelist, refcount, pt, held>>
      BY Zenon, <1>0, <1>5, <2>2 DEF LazyFault, Kexit, Goto, locals, kmem
    <3> QED BY Zenon, <3>1, <3>2, <3>3, PlainTables, PlainInd DEF Faulting, Holding
  <2> QED BY Zenon, <1>5, <2>1, <2>2 DEF LazyFault
<1>6. CASE ProtectionFault(p, v)
  <2>1. TypeOK'
    BY Zenon, <1>0, <1>6, PtSame, KmemSame, Labels DEF ProtectionFault, Kexit, Goto, TypeOK, LocalsOK, locals
  <2>2. OnlyLocals(p)
    BY Zenon, <1>0, <1>6 DEF ProtectionFault, Kexit, Goto, OnlyLocals, Forking, locals
  <2>3. pc[p] = "user" /\ pc'[p] \in {"zombie", "panic"} /\ sz' = sz /\ UNCHANGED <<freelist, refcount, pt, held>>
    BY Zenon, <1>0, <1>6 DEF ProtectionFault, Kexit, Goto, locals, kmem
  <2> QED BY Zenon, <2>1, <2>2, <2>3, PlainTables, PlainInd DEF Faulting, Holding
<1>7. CASE CowTrap(p, v)
  <2>1. TypeOK'
    BY <1>0, <1>7, PtSame, KmemSame, Labels DEF CowTrap, Goto, TypeOK, LocalsOK, VPage
  <2>2. OnlyLocals(p)
    BY Zenon, <1>0, <1>7 DEF CowTrap, Goto, LocalsOK, OnlyLocals, Forking
  <2>3. /\ pc[p] = "user" /\ pc'[p] = "cow_ref" /\ va'[p] = v /\ sz' = sz
        /\ pt[Cur(p, v)].V /\ ~pt[Cur(p, v)].W /\ UNCHANGED <<freelist, refcount, pt, held>>
    BY Zenon, <1>0, <1>7 DEF CowTrap, Goto, LocalsOK, kmem
  <2> QED BY Zenon, <2>1, <2>2, <2>3, TrapInd
<1> QED BY Zenon, <1>1, <1>3, <1>4, <1>5, <1>6, <1>7

-----------------------------------------------------------------------------
\* cowfault() up to the copy of the page.

\* The steps of cowfault() that change no page table.
LEMMA CowRefInd == ASSUME IndInv, NEW p \in Proc, CowRef(p) PROVE IndInv'
<1>0. /\ TypeOK /\ KmemOK /\ PtOK /\ LocalsOK /\ pc \in [Proc -> Label]
      /\ TablesFit(p) /\ CowOK(p) /\ GrowOK(p)
  BY Zenon DEF IndInv, TypeOK, TablesFitSize
<1>1. TypeOK'
  BY Zenon, <1>0, PtSame, KmemSame, Labels DEF CowRef, Goto, TypeOK, LocalsOK, locals
<1>2. OnlyLocals(p)
  BY Zenon, <1>0 DEF CowRef, Goto, OnlyLocals, Forking, locals
<1>3. TablesFit(p)' /\ CowOK(p)' /\ GrowOK(p)' /\ ForkOK(p)'
  BY Zenon, <1>0, <1>2, LocalForkOK DEF CowRef, Goto, locals, kmem, TablesFit, CowOK, GrowOK, Cur, Alt, Holding, Maps
<1> QED BY Zenon, <1>1, <1>2, <1>3, QuietInd DEF CowRef, locals, kmem

LEMMA CowOwnInd == ASSUME Counting, IndInv, NEW p \in Proc, CowOwn(p) PROVE IndInv'
<1>0. /\ TypeOK /\ KmemOK /\ PtOK /\ LocalsOK /\ pc \in [Proc -> Label] /\ TablesFit(p) /\ CowOK(p)
      /\ pc[p] = "cow_own" /\ UNCHANGED <<kmem, cur, sz, lim, val, held, child>>
      /\ freelist' = freelist /\ refcount' = refcount
  BY Zenon DEF IndInv, TypeOK, TablesFitSize, CowOwn, kmem
<1>1. PICK v \in VPage : v = va[p]
  BY Zenon, <1>0 DEF CowOK
<1>2. Cur(p, v) \in Slot
  BY Zenon, <1>0, CurAltSlot DEF LocalsOK
<1>3. LocalsOK' /\ pc' \in [Proc -> Label]
  BY <1>0, Labels DEF CowOwn, CowReturn, Goto, LocalsOK
<1>4. PtOK' /\ pt[Cur(p, v)].V
  BY Zenon, <1>0, <1>1, <1>2 DEF CowOwn, PtOK, MkPte, Pte, CowOK
<1>5. TypeOK'
  BY Zenon, <1>0, <1>3, <1>4, KmemSame DEF TypeOK
<1>6. OnlyLocals(p) /\ pc'[p] \in {"user", "copyout"} /\ (pc'[p] = "copyout" => va'[p] = v)
  BY Zenon, <1>0, <1>1 DEF CowOwn, CowReturn, Goto, LocalsOK, OnlyLocals, Forking
<1>7. /\ \A t \in Slot : t # Cur(p, v) => pt'[t] = pt[t]
      /\ pt'[Cur(p, v)].V /\ pt'[Cur(p, v)].pa = pt[Cur(p, v)].pa
  BY Zenon, <1>0, <1>1, <1>2 DEF CowOwn, MkPte, PtOK
<1>8. \A t \in Slot, f \in Frame : Maps(t, f)' <=> Maps(t, f)
  BY Zenon, <1>4, <1>7 DEF Maps
<1>9. RefcountExact'
  <2>1. \A t \in Slot : Uncounted(t)' <=> Uncounted(t)
    BY Zenon, <1>0, <1>6, OnlyLocalsUncounted
  <2>2. ASSUME NEW f \in Frame PROVE Mappings(f)' = Mappings(f) /\ Holders(f)' = Holders(f)
    BY Zenon, <1>0, <1>8, <2>1 DEF Mappings, Holders
  <2> QED BY Zenon, <1>0, <2>2 DEF IndInv, RefcountExact
<1>10. WritableIsPrivate'
  <2> SUFFICES ASSUME NEW t \in Slot, NEW r \in Slot, t # r, pt'[t].V, pt'[r].V, pt'[t].pa = pt'[r].pa
               PROVE  ~pt'[t].W
    BY Zenon DEF WritableIsPrivate
  <2>1. \A u \in Slot : pt[u].V /\ pt[u].pa = pt[Cur(p, v)].pa => u = Cur(p, v)
    BY Zenon, <1>0, <1>1, SoleOwner DEF Maps
  <2>2. t # Cur(p, v) /\ r # Cur(p, v)
    BY Zenon, <1>7, <2>1
  <2> QED BY Zenon, <1>7, <2>2 DEF IndInv, WritableIsPrivate
<1>11. TablesFit(p)'
  <2>1. \A i \in VPage : (pt'[Cur(p, i)].V => pt[Cur(p, i)].V) /\ (pt'[Alt(p, i)].V => pt[Alt(p, i)].V)
    BY Zenon, <1>0, <1>4, <1>7, CurAltSlot DEF LocalsOK
  <2> QED BY Zenon, <1>0, <1>6, <2>1 DEF TablesFit, Cur, Alt
<1>12. CowOK(p)' /\ GrowOK(p)' /\ ForkOK(p)'
  BY Zenon, <1>0, <1>1, <1>6, LocalForkOK DEF CowOK, GrowOK, Holding
<1>13. \A q \in Proc : q # p /\ pc[q] = "cow_own" => refcount'[pt[Cur(q, va[q])].pa] = 1
  BY Zenon, <1>0 DEF IndInv, CowOK
<1>14. \A q \in Proc : q # p /\ pc[q] \in {"cow_copy", "cow_map"} =>
         held'[p] # held[q] /\ \A t \in Slot : Maps(t, held[q])' => Maps(t, held[q])
  BY Zenon, <1>0, <1>8 DEF IndInv, CowOK, Holding
<1> QED BY Zenon, <1>0, <1>5, <1>6, <1>7, <1>9, <1>10, <1>11, <1>12, <1>13, <1>14, OthersInd

LEMMA CowAllocInd == ASSUME Counting, IndInv, NEW p \in Proc, CowAlloc(p) PROVE IndInv'
<1> USE DEF NoVal
<1>0. /\ TypeOK /\ KmemOK /\ PtOK /\ LocalsOK /\ pc \in [Proc -> Label] /\ TablesFit(p) /\ CowOK(p)
      /\ pc[p] = "cow_alloc" /\ UNCHANGED <<pt, cur, sz, lim, child>>
  BY Zenon DEF IndInv, TypeOK, TablesFitSize, CowAlloc
<1>1. CASE \E f \in freelist : /\ kalloc(f, Junk) /\ held' = [held EXCEPT ![p] = f]
                               /\ Goto(p, "cow_copy") /\ UNCHANGED <<va, val>>
  <2>1. PICK f \in freelist : /\ kalloc(f, Junk) /\ held' = [held EXCEPT ![p] = f]
                              /\ Goto(p, "cow_copy") /\ UNCHANGED <<va, val>>
    BY <1>1, Zenon
  <2>2. f \in Frame /\ Mappings(f) = {} /\ Holders(f) = {} /\ \A t \in Slot : ~Maps(t, f)
    BY Zenon, FreeUnused
  <2>3. KmemOK' /\ LocalsOK' /\ pc' \in [Proc -> Label]
    BY Zenon, <1>0, <2>1, <2>2, Labels DEF kalloc, Goto, KmemOK, LocalsOK
  <2>4. TypeOK'
    BY Zenon, <1>0, <2>3, PtSame DEF TypeOK
  <2>5. OnlyLocals(p) /\ pc'[p] = "cow_copy" /\ held'[p] = f /\ \A q \in Proc : q # p => held'[q] = held[q]
    BY Zenon, <1>0, <2>1 DEF Goto, LocalsOK, OnlyLocals, Forking
  <2>6. \A t \in Slot : Uncounted(t)' <=> Uncounted(t)
    BY Zenon, <1>0, <2>5, OnlyLocalsUncounted
  <2>7. \A q \in Proc : held[q] # f
    BY Zenon, <2>2 DEF Holders
  <2>8. held[p] = NoFrame
    BY Zenon, <1>0 DEF CowOK, LocalsOK, Holding
  <2>9. RefcountExact'
    <3>1. Mappings(f)' = {} /\ Holders(f)' = {p}
      BY Zenon, <1>0, <2>2, <2>5, <2>7 DEF Mappings, Maps, Holders
    <3>2. Cardinality(Mappings(f)') = 0 /\ Cardinality(Holders(f)') = 1
      <4>1. Cardinality({p}) = 1 /\ Cardinality({}) = 0
        BY Zenon, CardOne, CardEmpty
      <4> QED BY <3>1, <4>1, Zenon
    <3>3. refcount'[f] = 1 /\ f \notin freelist'
      BY Zenon, <1>0, <2>1, <2>2 DEF kalloc, KmemOK
    <3>4. ASSUME NEW g \in Frame, g # f PROVE Mappings(g)' = Mappings(g) /\ Holders(g)' = Holders(g)
      BY Zenon, <1>0, <2>5, <2>6, <2>8, <3>4 DEF Mappings, Maps, Holders
    <3>5. ASSUME NEW g \in Frame, g # f PROVE refcount'[g] = refcount[g] /\ (g \in freelist' <=> g \in freelist)
      BY Zenon, <1>0, <2>1, <3>5 DEF kalloc, KmemOK
    <3> QED BY <3>2, <3>3, <3>4, <3>5 DEF IndInv, RefcountExact
  <2>10. WritableIsPrivate'
    BY Zenon, <1>0 DEF IndInv, WritableIsPrivate
  <2>11. TablesFit(p)' /\ GrowOK(p)' /\ ForkOK(p)'
    BY Zenon, <1>0, <2>5, LocalForkOK DEF TablesFit, GrowOK, Cur, Alt
  <2>12. CowOK(p)'
    BY Zenon, <1>0, <2>1, <2>2, <2>5, <2>7 DEF CowOK, Holding, Cur, Maps
  <2>13. \A q \in Proc : q # p /\ pc[q] = "cow_own" => refcount'[pt[Cur(q, va[q])].pa] = 1
    <3>1. ASSUME NEW q \in Proc, pc[q] = "cow_own" PROVE refcount'[pt[Cur(q, va[q])].pa] = 1
      <4>1. CowOK(q) /\ Cur(q, va[q]) \in Slot
        BY Zenon, <1>0, <3>1, CurAltSlot DEF IndInv, CowOK, LocalsOK
      <4>2. pt[Cur(q, va[q])].pa \in Frame \ {f}
        BY Zenon, <1>0, <2>2, <3>1, <4>1 DEF CowOK, Maps, PtOK
      <4> QED BY Zenon, <1>0, <2>1, <3>1, <4>1, <4>2 DEF kalloc, KmemOK, CowOK
    <3> QED BY Zenon, <3>1
  <2>14. \A q \in Proc : q # p /\ pc[q] \in {"cow_copy", "cow_map"} =>
           held'[p] # held[q] /\ \A t \in Slot : Maps(t, held[q])' => Maps(t, held[q])
    BY Zenon, <1>0, <2>5, <2>7 DEF Maps
  <2> QED BY Zenon, <1>0, <2>4, <2>5, <2>9, <2>10, <2>11, <2>12, <2>13, <2>14, OthersInd DEF CowOK
<1>2. CASE /\ IF val[p] = NoVal THEN Kexit(p) /\ va' = [va EXCEPT ![p] = 0] /\ UNCHANGED val
                                ELSE EndCopyout(p)
           /\ UNCHANGED <<kmem, held>>
  <2>1. LocalsOK' /\ pc' \in [Proc -> Label]
    BY <1>0, <1>2, Labels DEF Kexit, EndCopyout, Goto, LocalsOK
  <2>a. UNCHANGED kmem /\ UNCHANGED pt
    BY Zenon, <1>0, <1>2
  <2>2. TypeOK'
    <3>1. KmemOK' BY Zenon, <1>0, <2>a, KmemSame
    <3>2. PtOK' BY Zenon, <1>0, <2>a, PtSame
    <3> QED BY Zenon, <2>1, <3>1, <3>2 DEF TypeOK
  <2>3. OnlyLocals(p) /\ pc'[p] \in {"zombie", "panic", "user"}
    BY <1>0, <1>2 DEF Kexit, EndCopyout, Goto, LocalsOK, OnlyLocals, Forking
  <2>4. sz' = sz /\ UNCHANGED <<freelist, refcount, pt, held>>
    BY Zenon, <1>0, <1>2 DEF kmem
  <2> QED BY Zenon, <1>0, <2>2, <2>3, <2>4, PlainTables, PlainInd DEF Faulting, Holding
<1> QED BY Zenon, <1>1, <1>2 DEF CowAlloc

LEMMA CowCopyInd == ASSUME IndInv, NEW p \in Proc, CowCopy(p) PROVE IndInv'
<1>0. /\ TypeOK /\ KmemOK /\ PtOK /\ LocalsOK /\ pc \in [Proc -> Label] /\ TablesFit(p) /\ CowOK(p)
      /\ pc[p] = "cow_copy"
  BY Zenon DEF IndInv, TypeOK, TablesFitSize, CowCopy
<1>1. held[p] \in Frame /\ pt[Cur(p, va[p])].pa \in Frame
  BY Zenon, <1>0, CurAltSlot DEF CowOK, LocalsOK, PtOK, Holding
<1>2. KmemOK' /\ LocalsOK' /\ pc' \in [Proc -> Label]
  BY Zenon, <1>0, <1>1, Labels DEF CowCopy, Goto, KmemOK, LocalsOK, locals
<1>3. TypeOK'
  BY Zenon, <1>0, <1>2, PtSame DEF CowCopy, TypeOK
<1>4. OnlyLocals(p) /\ pc'[p] = "cow_map"
  BY Zenon, <1>0 DEF CowCopy, Goto, OnlyLocals, Forking, locals
<1>5. TablesFit(p)' /\ CowOK(p)' /\ GrowOK(p)' /\ ForkOK(p)'
  BY Zenon, <1>0, <1>4, LocalForkOK DEF CowCopy, locals, TablesFit, CowOK, GrowOK, Cur, Alt, Holding, Maps
<1> QED BY Zenon, <1>3, <1>4, <1>5, QuietInd DEF CowCopy, locals

-----------------------------------------------------------------------------
\* cowfault() exchanges the page for its copy.

LEMMA CowMapInd == ASSUME Counting, IndInv, NEW p \in Proc, CowMap(p) PROVE IndInv'
<1>0. /\ TypeOK /\ KmemOK /\ PtOK /\ LocalsOK /\ pc \in [Proc -> Label] /\ TablesFit(p) /\ CowOK(p)
      /\ pc[p] = "cow_map" /\ UNCHANGED <<kmem, cur, sz, va, lim, val, child>>
      /\ freelist' = freelist /\ refcount' = refcount
  BY Zenon DEF IndInv, TypeOK, TablesFitSize, CowMap, kmem
<1>1. PICK v \in VPage : v = va[p]
  BY Zenon, <1>0 DEF CowOK, Holding
<1>2. Cur(p, v) \in Slot /\ pt[Cur(p, v)].V
  BY Zenon, <1>0, <1>1, CurAltSlot DEF LocalsOK, CowOK
<1>3. PICK f \in Frame, h \in Frame : f = pt[Cur(p, v)].pa /\ h = held[p]
  BY Zenon, <1>0, <1>2 DEF PtOK, CowOK, Holding
<1>4. /\ pt' = [pt EXCEPT ![Cur(p, v)] = MkPte(h, TRUE, pt[Cur(p, v)].U, FALSE)]
      /\ held' = [held EXCEPT ![p] = f] /\ Goto(p, "cow_free")
  BY Zenon, <1>1, <1>3 DEF CowMap
<1>5. LocalsOK' /\ pc' \in [Proc -> Label]
  BY Zenon, <1>0, <1>4, Labels DEF Goto, LocalsOK
<1>6. PtOK'
  BY Zenon, <1>0, <1>2, <1>4 DEF PtOK, MkPte, Pte
<1>7. TypeOK'
  BY ZenonT(60), <1>0, <1>5, <1>6, KmemSame DEF TypeOK
<1>8. OnlyLocals(p) /\ pc'[p] = "cow_free" /\ held'[p] = f /\ \A q \in Proc : q # p => held'[q] = held[q]
  BY Zenon, <1>0, <1>4 DEF Goto, LocalsOK, OnlyLocals, Forking
<1>9. /\ \A t \in Slot : t # Cur(p, v) => pt'[t] = pt[t]
      /\ pt'[Cur(p, v)].V /\ pt'[Cur(p, v)].pa = h
  BY Zenon, <1>0, <1>2, <1>4 DEF MkPte, PtOK
<1>10. (\A t \in Slot : ~Maps(t, h)) /\ (\A q \in Proc : q # p => held[q] # h) /\ f # h
  BY Zenon, <1>0, <1>2, <1>3 DEF CowOK, Maps
<1>11. \A t \in Slot : Uncounted(t)' <=> Uncounted(t)
  BY Zenon, <1>0, <1>8, OnlyLocalsUncounted
<1>12. ~Uncounted(Cur(p, v))
  <2>1. \A q \in Proc : pc[q] = "addref" => child[q] # p
    BY Zenon, <1>0 DEF IndInv, ForkOK, Forking
  <2> QED BY Zenon, <2>1 DEF Uncounted, Cur
<1>13. RefcountExact'
  <2>1. Mappings(h) = {} /\ Mappings(h)' = {Cur(p, v)} /\ Holders(h) = {p} /\ Holders(h)' = {}
    BY ZenonT(30), <1>2, <1>3, <1>8, <1>9, <1>10, <1>11, <1>12 DEF Mappings, Maps, Holders
  <2>2. /\ Mappings(f)' = Mappings(f) \ {Cur(p, v)} /\ Cur(p, v) \in Mappings(f)
        /\ Holders(f)' = Holders(f) \cup {p} /\ p \notin Holders(f)
    BY Zenon, <1>2, <1>3, <1>8, <1>9, <1>10, <1>11, <1>12 DEF Mappings, Maps, Holders
  <2>3. ASSUME NEW g \in Frame, g # f, g # h PROVE Mappings(g)' = Mappings(g) /\ Holders(g)' = Holders(g)
    BY Zenon, <1>2, <1>3, <1>8, <1>9, <1>11, <2>3 DEF Mappings, Maps, Holders
  <2>4. Cardinality(Mappings(h)') + Cardinality(Holders(h)') = Cardinality(Mappings(h)) + Cardinality(Holders(h))
    <3>1. Cardinality({}) = 0 /\ Cardinality({p}) = 1 /\ Cardinality({Cur(p, v)}) = 1
      BY CardOne, CardEmpty, Zenon
    <3>2. /\ Cardinality(Mappings(h)') = 1 /\ Cardinality(Holders(h)') = 0
          /\ Cardinality(Mappings(h)) = 0 /\ Cardinality(Holders(h)) = 1
      BY <2>1, <3>1, Zenon
    <3> QED BY <3>2
  <2>5. Cardinality(Mappings(f)') + Cardinality(Holders(f)') = Cardinality(Mappings(f)) + Cardinality(Holders(f))
    <3>1. IsFiniteSet(Mappings(f)) /\ IsFiniteSet(Holders(f))
      BY Zenon, RefsFinite
    <3>2. Cardinality(Mappings(f)) \in Nat /\ Cardinality(Holders(f)) \in Nat
      BY Zenon, <3>1, CardNat
    <3>3. Cardinality(Mappings(f) \ {Cur(p, v)}) = Cardinality(Mappings(f)) - 1
      BY <2>2, <3>1, CardRemove, Zenon
    <3>4. Cardinality(Holders(f) \cup {p}) = Cardinality(Holders(f)) + 1
      BY <2>2, <3>1, CardAdd, Zenon
    <3>5. Cardinality(Mappings(f)') = Cardinality(Mappings(f)) - 1 /\ Cardinality(Holders(f)') = Cardinality(Holders(f)) + 1
      BY <2>2, <3>3, <3>4, Zenon
    <3> QED BY <3>2, <3>5
  <2>6. ASSUME NEW g \in Frame
        PROVE  Cardinality(Mappings(g)') + Cardinality(Holders(g)') = Cardinality(Mappings(g)) + Cardinality(Holders(g))
    BY <2>3, <2>4, <2>5, Zenon
  <2>7. ASSUME NEW g \in Frame
        PROVE  /\ refcount'[g] = Cardinality(Mappings(g)') + Cardinality(Holders(g)')
               /\ g \in freelist' <=> refcount'[g] = 0
    BY <1>0, <2>6, Zenon DEF IndInv, RefcountExact
  <2> QED BY <2>7, Zenon DEF RefcountExact
<1>14. WritableIsPrivate'
  <2> SUFFICES ASSUME NEW t \in Slot, NEW r \in Slot, t # r, pt'[t].V, pt'[r].V, pt'[t].pa = pt'[r].pa
               PROVE  ~pt'[t].W
    BY Zenon DEF WritableIsPrivate
  <2>1. t # Cur(p, v) /\ r # Cur(p, v)
    BY Zenon, <1>9, <1>10 DEF Maps
  <2> QED BY Zenon, <1>9, <2>1 DEF IndInv, WritableIsPrivate
<1>15. TablesFit(p)'
  <2>1. \A i \in VPage : (pt'[Cur(p, i)].V => pt[Cur(p, i)].V) /\ (pt'[Alt(p, i)].V => pt[Alt(p, i)].V)
    BY ZenonT(60), <1>0, <1>2, <1>9, CurAltSlot DEF LocalsOK
  <2> QED BY Zenon, <1>0, <1>8, <2>1 DEF TablesFit, Cur, Alt
<1>16. CowOK(p)' /\ GrowOK(p)' /\ ForkOK(p)'
  BY Zenon, <1>0, <1>8, LocalForkOK DEF CowOK, GrowOK, Holding
<1>17. \A q \in Proc : q # p /\ pc[q] = "cow_own" => refcount'[pt[Cur(q, va[q])].pa] = 1
  BY Zenon, <1>0 DEF IndInv, CowOK
<1>18. ASSUME NEW q \in Proc, q # p, pc[q] \in {"cow_copy", "cow_map"}
       PROVE  held'[p] # held[q] /\ \A t \in Slot : Maps(t, held[q])' => Maps(t, held[q])
  <2>1. \A t \in Slot : ~Maps(t, held[q])
    BY ZenonT(60), <1>18 DEF IndInv, CowOK
  <2>2. held'[p] # held[q]
    BY Zenon, <1>2, <1>3, <1>8, <2>1 DEF Maps
  <2> QED BY Zenon, <1>8, <1>9, <1>10, <1>18, <2>2 DEF Maps
<1> QED BY ZenonT(60), <1>7, <1>8, <1>9, <1>13, <1>14, <1>15, <1>16, <1>17, <1>18, OthersInd

LEMMA CowFreeInd == ASSUME Counting, IndInv, NEW p \in Proc, CowFree(p) PROVE IndInv'
<1> USE DEF NoVal
<1>0. /\ TypeOK /\ KmemOK /\ PtOK /\ LocalsOK /\ pc \in [Proc -> Label] /\ TablesFit(p) /\ CowOK(p)
      /\ pc[p] = "cow_free" /\ UNCHANGED <<pt, cur, sz, lim, val, child>>
  BY Zenon DEF IndInv, TypeOK, TablesFitSize, CowFree
<1>1. PICK f \in Frame : f = held[p]
  BY Zenon, <1>0 DEF CowOK, Holding
<1>2. kfree(f) /\ held' = [held EXCEPT ![p] = NoFrame] /\ CowReturn(p)
  BY Zenon, <1>1 DEF CowFree
<1>3. LocalsOK' /\ pc' \in [Proc -> Label]
  BY <1>0, <1>2, Labels DEF CowReturn, Goto, LocalsOK
<1>4. TypeOK'
  BY Zenon, <1>0, <1>2, <1>3, PtSame, KfreeType DEF TypeOK
<1>5. /\ OnlyLocals(p) /\ pc'[p] \in {"user", "copyout"} /\ (pc'[p] = "copyout" => va'[p] = va[p])
      /\ held'[p] = NoFrame /\ \A q \in Proc : q # p => held'[q] = held[q]
  BY Zenon, <1>0, <1>2 DEF CowReturn, Goto, LocalsOK, OnlyLocals, Forking
<1>6. \A t \in Slot : Uncounted(t)' <=> Uncounted(t)
  BY Zenon, <1>0, <1>5, OnlyLocalsUncounted
<1>7. p \in Holders(f) /\ Holders(f)' = Holders(f) \ {p} /\ Mappings(f)' = Mappings(f)
  BY Zenon, <1>0, <1>1, <1>5, <1>6 DEF Holders, Mappings, Maps
<1>8. ASSUME NEW g \in Frame, g # f PROVE Mappings(g)' = Mappings(g) /\ Holders(g)' = Holders(g)
  BY Zenon, <1>0, <1>1, <1>5, <1>6, <1>8 DEF Holders, Mappings, Maps
<1>9. RefcountExact'
  BY Zenon, <1>2, <1>7, <1>8, RefcountKfree
<1>10. WritableIsPrivate'
  BY Zenon, <1>0 DEF IndInv, WritableIsPrivate
<1>11. TablesFit(p)' /\ GrowOK(p)' /\ ForkOK(p)'
  BY Zenon, <1>0, <1>5, LocalForkOK DEF TablesFit, GrowOK, Cur, Alt
<1>12. CowOK(p)'
  BY ZenonT(60), <1>0, <1>5 DEF CowOK, Holding
<1>13. ASSUME NEW q \in Proc, pc[q] = "cow_own" PROVE refcount'[pt[Cur(q, va[q])].pa] = 1
  <2>1. CowOK(q) /\ Cur(q, va[q]) \in Slot
    BY ZenonT(60), <1>0, <1>13, CurAltSlot DEF IndInv, CowOK, LocalsOK
  <2>2. pt[Cur(q, va[q])].pa # f
    BY Zenon, <1>7, <1>13, SoleOwner
  <2>3. pt[Cur(q, va[q])].pa \in Frame /\ refcount[pt[Cur(q, va[q])].pa] = 1
    BY ZenonT(60), <1>0, <1>13, <2>1 DEF CowOK, PtOK
  <2> QED BY Zenon, <1>0, <1>2, <2>2, <2>3 DEF kfree, KmemOK
<1>14. ASSUME NEW q \in Proc, q # p, pc[q] \in {"cow_copy", "cow_map"}
       PROVE  held'[p] # held[q] /\ \A t \in Slot : Maps(t, held[q])' => Maps(t, held[q])
  BY Zenon, <1>0, <1>5, <1>14 DEF IndInv, CowOK, Holding, Maps
<1> QED BY ZenonT(60), <1>0, <1>4, <1>5, <1>9, <1>10, <1>11, <1>12, <1>13, <1>14, OthersInd DEF CowOK, Holding

-----------------------------------------------------------------------------
\* uvmcopy().

\* The slot that kfork() fills is its own, and has only the entries copied so far.
LEMMA ForkChild ==
  ASSUME IndInv, NEW p \in Proc, pc[p] \in Forking
  PROVE  /\ child[p] \in Proc /\ pc[child[p]] = "used" /\ child[p] # p
         /\ \A q \in Proc : q # p => child[q] # child[p]
         /\ \A q \in Proc : child[q] # p
         /\ \A i \in VPage : /\ ~pt[Alt(child[p], i)].V
                             /\ pt[Cur(child[p], i)].V => i < va[p] \/ (i = va[p] /\ pc[p] = "addref")
<1>1. child[p] \in Proc /\ pc[child[p]] = "used" /\ child[p] # p /\ (\A q \in Proc : q # p => child[q] # child[p])
  BY Zenon DEF IndInv, ForkOK, Forking
<1>2. \A q \in Proc : child[q] # p
  BY Zenon DEF IndInv, ForkOK, Forking
<1>3. TablesFit(child[p]) /\ sz[child[p]] = 0
  BY Zenon, <1>1 DEF IndInv, TablesFitSize, ForkOK
<1>4. \A i \in VPage : /\ ~pt[Alt(child[p], i)].V
                       /\ pt[Cur(child[p], i)].V => i < va[p] \/ (i = va[p] /\ pc[p] = "addref")
  BY <1>1, <1>3 DEF TablesFit, VPage
<1> QED BY Zenon, <1>1, <1>2, <1>4

\* Steps of kfork() that change no page table: p is the parent, c the child.
LEMMA ForkQuiet ==
  ASSUME IndInv, TypeOK', UNCHANGED <<freelist, refcount, pt, cur, held, lim>>,
         NEW p \in Proc, NEW c \in Proc, p # c,
         pc[p] \in {"user", "copy", "undo"}, pc'[p] \in {"user", "copy"},
         pc[c] \in {"unused", "used"}, pc'[c] \in {"unused", "used", "user"},
         child[p] \in {c, NoProc}, child'[p] \in {c, NoProc},
         \A q \in Proc : q # p => child'[q] = child[q] /\ child[q] # c,
         \A q \in Proc \ {p, c} : pc'[q] = pc[q] /\ va'[q] = va[q],
         \A q \in Proc \ {c} : sz'[q] = sz[q],
         pc'[c] # "user" => sz'[c] = 0,
         IF pc'[p] = "copy" THEN child'[p] = c /\ pc'[c] = "used" /\ va'[p] <= sz'[p] ELSE child'[p] = NoProc,
         \A i \in VPage : pt[Cur(c, i)].V => i < sz'[c] \/ (pc'[p] = "copy" /\ i < va'[p])
  PROVE  IndInv'
<1>0. child[c] = NoProc
  BY Zenon, IndOf DEF ForkOK, Forking
<1>1. \A t \in Slot : Uncounted(t)' <=> Uncounted(t)
  BY Zenon DEF Uncounted, Cur
<1>2. RefcountExact'
  BY Zenon, <1>1, RefcountSame DEF IndInv
<1>3. WritableIsPrivate'
  BY Zenon DEF IndInv, WritableIsPrivate
<1>4. ASSUME NEW q \in Proc \ {p, c} PROVE TablesFit(q)'
  <2>1. \A r \in Proc : child[r] = q => r \in Proc \ {p, c}
    BY ZenonT(30), <1>0
  <2> QED BY Zenon, <2>1, IndOf, TablesKeep
<1>5. ASSUME NEW q \in Proc \ {p, c} PROVE ForkOK(q)'
  <2>1. ForkOK(q) /\ child'[q] = child[q]
    BY Zenon, IndOf
  <2>2. child[q] \in Proc => pc[child[q]] = "used"
    BY Zenon, <2>1 DEF ForkOK
  <2>3. child[q] \in Proc => pc'[child[q]] = pc[child[q]]
    BY Zenon, <2>2
  <2>4. child[q] \in Proc => \A r \in Proc : child[r] # child[q] => child'[r] # child[q]
    OBVIOUS
  <2> QED BY Zenon, <2>1, <2>3, <2>4, ForkKeeps
<1>6. ASSUME NEW q \in Proc PROVE CowOK(q)' /\ GrowOK(q)'
  <2>1. CASE q \in {p, c}
    <3>1. held[q] \notin Frame
      BY Zenon, <2>1, IndOf DEF CowOK, Holding
    <3> QED BY Zenon, <2>1, <3>1 DEF CowOK, GrowOK, Holding
  <2>2. CASE q \in Proc \ {p, c}
    <3>1. \A r \in Slot : Maps(r, held[q])' => Maps(r, held[q])
      BY Zenon DEF Maps
    <3> QED BY Zenon, <2>2, <3>1, IndOf, CowKeeps
  <2> QED BY Zenon, <2>1, <2>2
<1>7. \A q \in {p, c}, i \in VPage : Cur(q, i)' = Cur(q, i) /\ Alt(q, i)' = Alt(q, i)
  BY Zenon DEF Cur, Alt
<1>8. TablesFit(p)'
  <2>1. \A i \in VPage : (pt[Cur(p, i)].V => i < sz[p]) /\ ~pt[Alt(p, i)].V
    BY Zenon, PlainTables
  <2> QED BY Zenon, <1>7, <2>1 DEF TablesFit
<1>9. TablesFit(c)'
  <2>1. \A i \in VPage : ~pt[Alt(c, i)].V
    BY Zenon, IndOf DEF TablesFit
  <2> QED BY Zenon, <1>7, <2>1 DEF TablesFit
<1>10. ForkOK(p)'
  BY Zenon DEF ForkOK, Forking
<1>11. ForkOK(c)'
  BY Zenon, <1>0 DEF ForkOK, Forking
<1>12. ASSUME NEW q \in Proc PROVE TablesFit(q)' /\ ForkOK(q)'
  BY Zenon, <1>4, <1>5, <1>8, <1>9, <1>10, <1>11
<1> QED BY Zenon, <1>2, <1>3, <1>6, <1>12 DEF IndInv, TablesFitSize

\* uvmcopy() has made an entry read-only, and maybe given the child a copy of it.
LEMMA ShareInd ==
  ASSUME IndInv, TypeOK', NEW p \in Proc, NEW c \in Proc, NEW v \in VPage, NEW s \in Slot, NEW t \in Slot,
         c = child[p], v = va[p], s = Cur(p, v), t = Cur(c, v), pc[p] = "copy", v < sz[p], pt[s].V,
         UNCHANGED <<freelist, refcount, cur, sz, va, lim, held, child>>,
         \A r \in Slot \ {s, t} : pt'[r] = pt[r],
         pt'[s].V, pt'[s].pa = pt[s].pa, ~pt'[s].W,
         \A q \in Proc : q # p => pc'[q] = pc[q],
         \/ pc'[p] = "addref" /\ pt'[t].V /\ pt'[t].pa = pt[s].pa /\ ~pt'[t].W
         \/ pc'[p] = "undo" /\ pt'[t] = pt[t]
  PROVE  IndInv'
<1>1. /\ pc[c] = "used" /\ c # p /\ (\A q \in Proc : q # p => child[q] # c) /\ (\A q \in Proc : child[q] # p)
      /\ \A i \in VPage : ~pt[Alt(c, i)].V /\ (pt[Cur(c, i)].V => i < va[p])
  BY ForkChild DEF Forking
<1>2. ~pt[t].V /\ s # t /\ cur \in [Proc -> {0, 1}]
  BY <1>1 DEF Cur, VPage, IndInv, TypeOK, LocalsOK
<1>3. \A r \in Slot : r # t => (Uncounted(r)' <=> Uncounted(r))
  BY <1>1 DEF Uncounted, Cur
<1>4. ~Uncounted(t) /\ (pc'[p] = "addref" => Uncounted(t)')
  BY Zenon, <1>1 DEF Uncounted, Cur
<1>5. \A r \in Slot, g \in Frame : r # t => (Maps(r, g)' <=> Maps(r, g))
  BY Zenon DEF Maps
<1>6. \A g \in Frame : ~Maps(t, g) /\ (pc'[p] = "undo" => ~Maps(t, g)')
  BY Zenon, <1>2 DEF Maps
<1>7. RefcountExact'
  <2>1. ASSUME NEW g \in Frame PROVE Mappings(g)' = Mappings(g) /\ Holders(g)' = Holders(g)
    BY Zenon, <1>3, <1>4, <1>5, <1>6 DEF Mappings, Holders
  <2> QED BY Zenon, <2>1 DEF IndInv, RefcountExact
<1>8. WritableIsPrivate'
  <2> SUFFICES ASSUME NEW r \in Slot, NEW u \in Slot, r # u, pt'[r].V, pt'[u].V, pt'[r].pa = pt'[u].pa
               PROVE  ~pt'[r].W
    BY Zenon DEF WritableIsPrivate
  <2>1. CASE r = s
    BY Zenon, <2>1
  <2>2. CASE r = t
    BY Zenon, <1>2, <2>2
  <2>3. CASE r \notin {s, t}
    <3>1. pt'[r] = pt[r]
      BY Zenon, <2>3
    <3>2. CASE u \in {s, t}
      BY <1>2, <2>3, <3>1, <3>2 DEF IndInv, WritableIsPrivate
    <3>3. CASE u \notin {s, t}
      BY <3>1, <3>3 DEF IndInv, WritableIsPrivate
    <3> QED BY Zenon, <3>2, <3>3
  <2> QED BY Zenon, <2>1, <2>2, <2>3
<1>9. \A q \in Proc, i \in VPage :
        /\ Cur(q, i)' = Cur(q, i) /\ Alt(q, i)' = Alt(q, i) /\ Cur(q, i) \in Slot /\ Alt(q, i) \in Slot
        /\ Alt(q, i) # s /\ Alt(q, i) # t
        /\ Cur(q, i) = s => q = p /\ i = v
        /\ Cur(q, i) = t => q = c /\ i = v
  <2> SUFFICES ASSUME NEW q \in Proc, NEW i \in VPage
               PROVE  /\ Cur(q, i)' = Cur(q, i) /\ Alt(q, i)' = Alt(q, i) /\ Cur(q, i) \in Slot /\ Alt(q, i) \in Slot
                      /\ Alt(q, i) # s /\ Alt(q, i) # t
                      /\ Cur(q, i) = s => q = p /\ i = v
                      /\ Cur(q, i) = t => q = c /\ i = v
    OBVIOUS
  <2>1. Cur(q, i)' = Cur(q, i) /\ Alt(q, i)' = Alt(q, i) /\ Cur(q, i) \in Slot /\ Alt(q, i) \in Slot
    BY Zenon, <1>2, CurAltSlot DEF Cur, Alt
  <2>2. Alt(q, i) # s /\ Alt(q, i) # t /\ (Cur(q, i) = s => q = p /\ i = v) /\ (Cur(q, i) = t => q = c /\ i = v)
    BY <1>2 DEF Cur, Alt
  <2> QED BY Zenon, <2>1, <2>2
<1>10. ASSUME NEW q \in Proc PROVE TablesFit(q)'
  <2>1. \A i \in VPage : pt'[Alt(q, i)].V => pt[Alt(q, i)].V
    BY Zenon, <1>9
  <2>2. \A i \in VPage : pt'[Cur(q, i)].V =>
          pt[Cur(q, i)].V \/ (q = c /\ i = v /\ pc'[p] = "addref")
    <3> SUFFICES ASSUME NEW i \in VPage, pt'[Cur(q, i)].V
                 PROVE  pt[Cur(q, i)].V \/ (q = c /\ i = v /\ pc'[p] = "addref")
      OBVIOUS
    <3>1. CASE Cur(q, i) = s BY Zenon, <3>1
    <3>2. CASE Cur(q, i) = t BY Zenon, <1>2, <1>9, <3>2
    <3>3. CASE Cur(q, i) \notin {s, t} BY Zenon, <1>9, <3>3
    <3> QED BY Zenon, <3>1, <3>2, <3>3
  <2>3. \A r \in Proc : pc[r] = "addref" => pc'[r] = "addref"
    OBVIOUS
  <2>4. CASE q = p
    <3>1. \A i \in VPage : (pt[Cur(p, i)].V => i < sz[p]) /\ ~pt[Alt(p, i)].V
      BY Zenon, PlainTables
    <3>2. \A i \in VPage : (pt'[Cur(p, i)'].V => i < sz'[p]) /\ ~pt'[Alt(p, i)'].V
      BY <1>1, <1>9, <2>1, <2>2, <2>4, <3>1
    <3> QED BY Zenon, <2>4, <3>2 DEF TablesFit
  <2>5. CASE q = c
    <3>1. \A i \in VPage : ~pt'[Alt(c, i)'].V /\ (pt'[Cur(c, i)'].V => i < va'[p] \/ (i = va'[p] /\ pc'[p] = "addref"))
      BY <1>1, <1>9, <2>1, <2>2, <2>5
    <3>2. child'[p] = c /\ pc'[c] = "used"
      BY Zenon, <1>1
    <3> QED BY Zenon, <2>5, <3>1, <3>2 DEF TablesFit
  <2>6. CASE q \notin {p, c}
    BY Zenon, <2>1, <2>2, <2>3, <2>6, IndOf, TablesKeep
  <2> QED BY Zenon, <2>4, <2>5, <2>6
<1>11. ForkOK(p)'
  <2>1. ForkOK(p)
    BY Zenon, IndOf
  <2>2. Cur(p, va[p])' = s /\ Cur(child[p], va[p])' = t
    BY ZenonT(30), <1>9
  <2> QED BY Zenon, <1>1, <2>1, <2>2 DEF ForkOK, Forking
<1>12. ASSUME NEW q \in Proc, q # p PROVE ForkOK(q)'
  <2>1. ForkOK(q) /\ pc'[q] = pc[q]
    BY Zenon, <1>12, IndOf
  <2>2. pc[q] = "addref" => /\ va[q] \in VPage /\ child[q] \in Proc
                            /\ pt'[Cur(q, va[q])] = pt[Cur(q, va[q])]
                            /\ pt'[Cur(child[q], va[q])] = pt[Cur(child[q], va[q])]
                            /\ Cur(q, va[q])' = Cur(q, va[q]) /\ Cur(child[q], va[q])' = Cur(child[q], va[q])
    <3>1. pc[q] = "addref" => va[q] \in VPage /\ child[q] \in Proc /\ child[q] # p /\ child[q] # c /\ q # c
      BY Zenon, <1>1, <1>12, ForkTypes
    <3> QED BY <1>9, <1>12, <3>1
  <2>3. child[q] \in Proc => pc'[child[q]] = pc[child[q]]
    BY Zenon, <1>1
  <2> QED BY Zenon, <2>1, <2>2, <2>3, ForkKeeps
<1>13. ASSUME NEW q \in Proc PROVE CowOK(q)' /\ GrowOK(q)'
  <2>1. CASE q = p
    <3>1. held[p] \notin Frame
      BY Zenon, IndOf DEF CowOK, Holding
    <3> QED BY Zenon, <2>1, <3>1 DEF CowOK, GrowOK, Holding
  <2>2. CASE q # p
    <3>1. CowOK(q) /\ GrowOK(q) /\ pc'[q] = pc[q]
      BY Zenon, <2>2, IndOf
    <3>2. pc[q] \in Faulting => pt'[Cur(q, va[q])] = pt[Cur(q, va[q])]
      BY <1>1, <1>9, <2>2, CowTypes DEF Faulting
    <3>3. pc[q] \in {"cow_copy", "cow_map"} => \A r \in Slot : Maps(r, held[q])' => Maps(r, held[q])
      <4>1. pc[q] \in {"cow_copy", "cow_map"} => \A r \in Slot : ~Maps(r, held[q])
        BY Zenon, <3>1 DEF CowOK
      <4> QED BY <1>2, <4>1 DEF Maps
    <3> QED BY Zenon, <3>1, <3>2, <3>3, CowKeeps
  <2> QED BY Zenon, <2>1, <2>2
<1> QED BY Zenon, <1>7, <1>8, <1>10, <1>11, <1>12, <1>13 DEF IndInv, TablesFitSize

LEMMA CopyPageInd == ASSUME IndInv, NEW p \in Proc, CopyPage(p) PROVE IndInv'
<1>0. /\ TypeOK /\ KmemOK /\ PtOK /\ LocalsOK /\ pc \in [Proc -> Label] /\ TablesFit(p)
      /\ ForkOK(p) /\ pc[p] = "copy" /\ va[p] < sz[p] /\ UNCHANGED <<kmem, cur, sz, lim, val, held, child>>
      /\ freelist' = freelist /\ refcount' = refcount
  BY Zenon DEF IndInv, TypeOK, TablesFitSize, CopyPage, kmem
<1>1. PICK c \in Proc, v \in VPage : c = child[p] /\ v = va[p]
  BY <1>0 DEF ForkOK, Forking, LocalsOK, VPage
<1>2. PICK s \in Slot, t \in Slot : s = Cur(p, v) /\ t = Cur(c, v)
  BY Zenon, <1>0, CurAltSlot DEF LocalsOK
<1>3. /\ pc[c] = "used" /\ c # p /\ (\A q \in Proc : q # p => child[q] # c)
      /\ \A i \in VPage : ~pt[Alt(c, i)].V /\ (pt[Cur(c, i)].V => i < va[p])
  BY Zenon, <1>0, <1>1, ForkChild DEF Forking
<1>4. s # t
  BY Zenon, <1>2, <1>3 DEF Cur
<1>5. CASE ~pt[s].V /\ va' = [va EXCEPT ![p] = @ + 1] /\ UNCHANGED <<pt, pc>>
  <2>1. LocalsOK' /\ va'[p] = v + 1
    BY <1>0, <1>1, <1>5 DEF LocalsOK
  <2>2. TypeOK'
    BY Zenon, <1>0, <1>5, <2>1, PtSame, KmemSame DEF TypeOK
  <2>3. \A q \in Proc : q # p => va'[q] = va[q]
    BY Zenon, <1>0, <1>5 DEF LocalsOK
  <2>4. va'[p] <= sz'[p] /\ sz'[c] = 0 /\ \A i \in VPage : pt[Cur(c, i)].V => i < va'[p]
    <3>1. sz[c] = 0
      BY Zenon, <1>3, IndOf DEF ForkOK
    <3> QED BY <1>0, <1>1, <1>3, <2>1, <3>1 DEF LocalsOK, VPage
  <2> QED BY ZenonT(30), <1>0, <1>1, <1>3, <1>5, <2>2, <2>3, <2>4, ForkQuiet
<1>6. CASE /\ pt[s].V /\ pt' = [pt EXCEPT ![s] = Shared(@), ![t] = Shared(pt[s])]
           /\ Goto(p, "addref") /\ UNCHANGED va
  <2>1. /\ pt'[s] = Shared(pt[s]) /\ pt'[t] = Shared(pt[s]) /\ (\A r \in Slot \ {s, t} : pt'[r] = pt[r])
        /\ DOMAIN pt' = Slot
    BY <1>0, <1>4, <1>6, Zenon DEF PtOK
  <2>2. Shared(pt[s]) \in Pte /\ Shared(pt[s]).V /\ Shared(pt[s]).pa = pt[s].pa /\ ~Shared(pt[s]).W /\ pt[s].pa \in Frame
    BY Zenon, <1>0, <1>6 DEF PtOK, Shared, MkPte, Pte
  <2>3. PtOK'
    BY Zenon, <1>0, <1>4, <1>6, <2>2 DEF PtOK
  <2>4. LocalsOK' /\ pc' \in [Proc -> Label]
    BY Zenon, <1>0, <1>6, Labels DEF Goto, LocalsOK
  <2>5. TypeOK'
    BY Zenon, <1>0, <2>3, <2>4, KmemSame DEF TypeOK
  <2>6. pc'[p] = "addref" /\ \A q \in Proc : q # p => pc'[q] = pc[q]
    BY Zenon, <1>0, <1>6 DEF Goto
  <2>7. /\ UNCHANGED <<freelist, refcount, cur, sz, va, lim, held, child>>
        /\ pc[p] = "copy" /\ v < sz[p] /\ pt[s].V
    BY Zenon, <1>0, <1>1, <1>6
  <2> QED BY <1>1, <1>2, <2>1, <2>2, <2>5, <2>6, <2>7, ShareInd
<1>7. CASE /\ pt[s].V /\ pt' = [pt EXCEPT ![s] = Shared(@)] /\ Goto(p, "undo") /\ UNCHANGED va
  <2>1. pt'[s] = Shared(pt[s]) /\ pt'[t] = pt[t] /\ (\A r \in Slot \ {s, t} : pt'[r] = pt[r])
    BY <1>0, <1>4, <1>7, Zenon DEF PtOK
  <2>2. Shared(pt[s]) \in Pte /\ Shared(pt[s]).V /\ Shared(pt[s]).pa = pt[s].pa /\ ~Shared(pt[s]).W /\ pt[s].pa \in Frame
    BY Zenon, <1>0, <1>7 DEF PtOK, Shared, MkPte, Pte
  <2>3. PtOK'
    BY Zenon, <1>0, <1>4, <1>7, <2>2 DEF PtOK
  <2>4. LocalsOK' /\ pc' \in [Proc -> Label]
    BY Zenon, <1>0, <1>7, Labels DEF Goto, LocalsOK
  <2>5. TypeOK'
    BY Zenon, <1>0, <2>3, <2>4, KmemSame DEF TypeOK
  <2>6. pc'[p] = "undo" /\ \A q \in Proc : q # p => pc'[q] = pc[q]
    BY Zenon, <1>0, <1>7 DEF Goto
  <2>7. /\ UNCHANGED <<freelist, refcount, cur, sz, va, lim, held, child>>
        /\ pc[p] = "copy" /\ v < sz[p] /\ pt[s].V
    BY Zenon, <1>0, <1>1, <1>7
  <2> QED BY <1>1, <1>2, <2>1, <2>2, <2>5, <2>6, <2>7, ShareInd
<1> QED BY Zenon, <1>1, <1>2, <1>5, <1>6, <1>7 DEF CopyPage

LEMMA AddRefInd == ASSUME Counting, IndInv, NEW p \in Proc, AddRef(p) PROVE IndInv'
<1>0. /\ TypeOK /\ KmemOK /\ PtOK /\ LocalsOK /\ pc \in [Proc -> Label] /\ TablesFit(p)
      /\ ForkOK(p) /\ pc[p] = "addref" /\ UNCHANGED <<pt, cur, sz, lim, val, held, child>>
  BY Zenon DEF IndInv, TypeOK, TablesFitSize, AddRef
<1>1. PICK c \in Proc, v \in VPage : c = child[p] /\ v = va[p]
  BY <1>0 DEF ForkOK, Forking, LocalsOK, VPage
<1>2. PICK s \in Slot, t \in Slot : s = Cur(p, v) /\ t = Cur(c, v)
  BY Zenon, <1>0, CurAltSlot DEF LocalsOK
<1>3. /\ pc[c] = "used" /\ c # p /\ (\A q \in Proc : q # p => child[q] # c) /\ (\A q \in Proc : child[q] # p)
      /\ \A i \in VPage : ~pt[Alt(c, i)].V /\ (pt[Cur(c, i)].V => i <= v)
  BY <1>0, <1>1, ForkChild DEF Forking, VPage
<1>4. s # t
  BY Zenon, <1>2, <1>3 DEF Cur
<1>5. PICK f \in Frame : f = pt[s].pa /\ Maps(s, f) /\ Maps(t, f)
  BY Zenon, <1>0, <1>1, <1>2 DEF ForkOK, PtOK, Maps
<1>6. kaddref(f) /\ va' = [va EXCEPT ![p] = @ + 1] /\ Goto(p, "copy")
  BY Zenon, <1>1, <1>2, <1>5 DEF AddRef
<1>7. KmemOK' /\ LocalsOK' /\ pc' \in [Proc -> Label]
  <2>1. v + 1 \in 0 .. NPages
    BY DEF VPage
  <2>2. KmemOK'
    BY <1>0, <1>6 DEF KmemOK, kaddref
  <2> QED BY Zenon, <1>0, <1>1, <1>6, <2>1, <2>2, Labels DEF Goto, LocalsOK
<1>8. TypeOK'
  BY Zenon, <1>0, <1>7, PtSame DEF TypeOK
<1>9. /\ pc'[p] = "copy" /\ va'[p] = v + 1
      /\ \A q \in Proc : q # p => pc'[q] = pc[q] /\ va'[q] = va[q]
  BY Zenon, <1>0, <1>1, <1>6 DEF Goto, LocalsOK
<1>10. Uncounted(t) /\ ~Uncounted(t)'
  BY Zenon, <1>0, <1>1, <1>2, <1>3, <1>9 DEF Uncounted, Cur
<1>11. \A r \in Slot : r # t => (Uncounted(r)' <=> Uncounted(r))
  BY Zenon, <1>0, <1>1, <1>2, <1>9 DEF Uncounted, Cur
<1>12. RefcountExact'
  <2>1. Mappings(f)' = Mappings(f) \cup {t} /\ t \notin Mappings(f) /\ Holders(f)' = Holders(f)
    BY Zenon, <1>0, <1>5, <1>10, <1>11 DEF Mappings, Holders, Maps
  <2>2. ASSUME NEW g \in Frame, g # f PROVE Mappings(g)' = Mappings(g) /\ Holders(g)' = Holders(g)
    BY Zenon, <1>0, <1>5, <1>11, <2>2 DEF Mappings, Holders, Maps
  <2>3. IsFiniteSet(Mappings(f)) /\ IsFiniteSet(Holders(f))
    BY Zenon, RefsFinite
  <2>4. Cardinality(Mappings(f)) \in Nat /\ Cardinality(Holders(f)) \in Nat
    BY Zenon, <2>3, CardNat
  <2>5. Cardinality(Mappings(f) \cup {t}) = Cardinality(Mappings(f)) + 1
    BY <2>1, <2>3, CardAdd, Zenon
  <2>6. Cardinality(Mappings(f)') = Cardinality(Mappings(f)) + 1 /\ Cardinality(Holders(f)') = Cardinality(Holders(f))
    BY <2>1, <2>5, Zenon
  <2>7. refcount'[f] = refcount[f] + 1 /\ refcount[f] >= 1 /\ freelist' = freelist /\ refcount[f] \in Nat
    BY Zenon, <1>0, <1>6 DEF kaddref, KmemOK
  <2>8. refcount[f] = Cardinality(Mappings(f)) + Cardinality(Holders(f)) /\ f \notin freelist
    BY <2>7 DEF IndInv, RefcountExact
  <2>9. refcount'[f] = Cardinality(Mappings(f)') + Cardinality(Holders(f)') /\ f \notin freelist' /\ refcount'[f] # 0
    BY <2>4, <2>6, <2>7, <2>8
  <2>10. ASSUME NEW g \in Frame, g # f PROVE refcount'[g] = refcount[g]
    BY Zenon, <1>0, <1>6, <2>10 DEF kaddref, KmemOK
  <2>11. ASSUME NEW g \in Frame
         PROVE  /\ refcount'[g] = Cardinality(Mappings(g)') + Cardinality(Holders(g)')
                /\ g \in freelist' <=> refcount'[g] = 0
    <3>1. CASE g = f BY Zenon, <2>9, <3>1
    <3>2. CASE g # f BY Zenon, <2>2, <2>7, <2>10, <3>2 DEF IndInv, RefcountExact
    <3> QED BY Zenon, <3>1, <3>2
  <2> QED BY Zenon, <2>11 DEF RefcountExact
<1>13. WritableIsPrivate'
  BY Zenon, <1>0 DEF IndInv, WritableIsPrivate
<1>14. ASSUME NEW q \in Proc PROVE TablesFit(q)'
  <2>1. /\ TablesFit(q) /\ pt' = pt /\ sz' = sz /\ lim' = lim /\ child' = child /\ cur' = cur
        /\ \A i \in VPage : Cur(q, i)' = Cur(q, i) /\ Alt(q, i)' = Alt(q, i)
    BY Zenon, <1>0, IndOf DEF Cur, Alt
  <2>2. CASE q = p
    <3>1. \A i \in VPage : (pt[Cur(p, i)].V => i < sz[p]) /\ ~pt[Alt(p, i)].V
      BY Zenon, <1>0, PlainTables
    <3> QED BY Zenon, <2>1, <2>2, <3>1 DEF TablesFit
  <2>3. CASE q = c
    <3>1. \A i \in VPage : ~pt[Alt(c, i)].V /\ (pt[Cur(c, i)].V => i < va'[p])
      BY <1>1, <1>3, <1>9 DEF VPage
    <3>2. child[p] = c /\ pc'[c] = "used"
      BY ZenonT(30), <1>1, <1>3, <1>9
    <3> QED BY Zenon, <2>1, <2>3, <3>1, <3>2 DEF TablesFit
  <2>4. CASE q \notin {p, c}
    BY Zenon, <1>1, <1>9, <2>1, <2>4, TablesKeep
  <2> QED BY Zenon, <2>2, <2>3, <2>4
<1>15. ASSUME NEW q \in Proc PROVE ForkOK(q)'
  <2>1. CASE q = p
    <3>1. va'[p] <= sz'[p]
      <4>1. v < sz[p]
        BY Zenon, <1>0, <1>1 DEF ForkOK
      <4> QED BY <1>0, <1>9, <4>1 DEF LocalsOK, VPage
    <3> QED BY Zenon, <1>0, <1>1, <1>3, <1>9, <2>1, <3>1 DEF ForkOK, Forking
  <2>2. CASE q # p
    <3>1. ForkOK(q) /\ pc'[q] = pc[q] /\ va'[q] = va[q] /\ (child[q] \in Proc => pc'[child[q]] = pc[child[q]])
      BY Zenon, <1>3, <1>9, <2>2, IndOf
    <3> QED BY Zenon, <1>0, <3>1, ForkKeeps
  <2> QED BY Zenon, <2>1, <2>2
<1>16. ASSUME NEW q \in Proc PROVE CowOK(q)' /\ GrowOK(q)'
  <2>1. CASE q = p
    <3>1. held[p] \notin Frame
      BY Zenon, <1>0, IndOf DEF CowOK, Holding
    <3> QED BY Zenon, <1>0, <1>9, <2>1, <3>1 DEF CowOK, GrowOK, Holding
  <2>2. CASE q # p
    <3>1. CowOK(q) /\ GrowOK(q) /\ pc'[q] = pc[q] /\ va'[q] = va[q]
      BY Zenon, <1>9, <2>2, IndOf
    <3>2. pc[q] = "cow_own" => pt[Cur(q, va[q])].pa # f
      BY Zenon, <1>4, <1>5, SoleOwner
    <3>3. pc[q] = "cow_own" => pt[Cur(q, va[q])].pa \in Frame
      BY Zenon, CowTypes DEF Faulting
    <3>4. pc[q] = "cow_own" => refcount'[pt[Cur(q, va[q])].pa] = refcount[pt[Cur(q, va[q])].pa]
      BY Zenon, <1>0, <1>6, <3>2, <3>3 DEF kaddref, KmemOK
    <3>5. \A r \in Slot : Maps(r, held[q])' => Maps(r, held[q])
      BY Zenon, <1>0 DEF Maps
    <3> QED BY Zenon, <1>0, <3>1, <3>4, <3>5, CowKeeps
  <2> QED BY Zenon, <2>1, <2>2
<1> QED BY Zenon, <1>8, <1>12, <1>13, <1>14, <1>15, <1>16 DEF IndInv, TablesFitSize

-----------------------------------------------------------------------------
\* copyout() and sbrk().

LEMMA CopyoutInd == ASSUME Counting, IndInv, NEW p \in Proc, Copyout(p) PROVE IndInv'
<1> USE DEF NoVal
<1>0. /\ TypeOK /\ KmemOK /\ PtOK /\ LocalsOK /\ pc \in [Proc -> Label]
      /\ TablesFit(p) /\ CowOK(p) /\ GrowOK(p)
      /\ pc[p] = "copyout" /\ UNCHANGED <<cur, sz, lim, held, child>>
  BY Zenon DEF IndInv, TypeOK, TablesFitSize, Copyout
<1>1. PICK v \in VPage : v = va[p]
  BY Zenon, <1>0 DEF CowOK
<1>2. Cur(p, v) \in Slot
  BY Zenon, <1>0, CurAltSlot DEF LocalsOK
<1>3. CASE Vmfault(p, v) /\ UNCHANGED <<pc, va, val>>
  BY Zenon, <1>0, <1>3, VmfaultInd DEF locals
<1>4. ASSUME pt' = pt, refcount' = refcount, freelist' = freelist, KmemOK',
             \/ EndCopyout(p)
             \/ /\ pt[Cur(p, v)].V /\ ~pt[Cur(p, v)].W
                /\ Goto(p, "cow_ref") /\ UNCHANGED <<va, val>>
      PROVE  IndInv'
  <2>1. TypeOK'
    BY <1>0, <1>4, PtSame, Labels DEF EndCopyout, Goto, TypeOK, LocalsOK
  <2>2. OnlyLocals(p)
    BY Zenon, <1>0, <1>4 DEF EndCopyout, Goto, LocalsOK, OnlyLocals, Forking
  <2>3. pc'[p] \in {"user", "cow_ref"} /\ (pc'[p] = "cow_ref" => pt[Cur(p, v)].V /\ ~pt[Cur(p, v)].W /\ va'[p] = v)
    BY Zenon, <1>0, <1>1, <1>4 DEF EndCopyout, Goto, LocalsOK
  <2>4. CASE pc'[p] = "user"
    BY Zenon, <1>0, <1>4, <2>1, <2>2, <2>4, PlainTables, PlainInd DEF Faulting, Holding
  <2>5. CASE pc'[p] = "cow_ref"
    BY Zenon, <1>0, <1>4, <2>1, <2>2, <2>3, <2>5, TrapInd
  <2> QED BY Zenon, <2>3, <2>4, <2>5
<1>5. \/ Vmfault(p, v) /\ UNCHANGED <<pc, va, val>>
      \/ EndCopyout(p) /\ UNCHANGED <<kmem, pt>>
      \/ pt[Cur(p, v)].V /\ pt[Cur(p, v)].COW /\ Goto(p, "cow_ref") /\ UNCHANGED <<kmem, pt, va, val>>
      \/ /\ pt[Cur(p, v)].V
         /\ mem' = IF pt[Cur(p, v)].W THEN [mem EXCEPT ![pt[Cur(p, v)].pa] = val[p]] ELSE mem
         /\ EndCopyout(p)
         /\ UNCHANGED <<freelist, refcount, pt>>
  BY Zenon, <1>1 DEF Copyout
<1>6. CASE pt[Cur(p, v)].V /\ pt[Cur(p, v)].COW /\ Goto(p, "cow_ref") /\ UNCHANGED <<kmem, pt, va, val>>
  <2>1. ~pt[Cur(p, v)].W
    BY Zenon, <1>0, <1>2, <1>6 DEF PtOK
  <2> QED BY Zenon, <1>0, <1>4, <1>6, <2>1, KmemSame DEF kmem
<1>7. CASE EndCopyout(p) /\ UNCHANGED <<kmem, pt>>
  BY Zenon, <1>0, <1>4, <1>7, KmemSame DEF kmem
<1>8. CASE /\ pt[Cur(p, v)].V
           /\ mem' = IF pt[Cur(p, v)].W THEN [mem EXCEPT ![pt[Cur(p, v)].pa] = val[p]] ELSE mem
           /\ EndCopyout(p)
           /\ UNCHANGED <<freelist, refcount, pt>>
  <2>1. KmemOK'
    BY Zenon, <1>0, <1>2, <1>8 DEF KmemOK, PtOK, LocalsOK
  <2> QED BY Zenon, <1>4, <1>8, <2>1
<1> QED BY Zenon, <1>3, <1>5, <1>6, <1>7, <1>8

LEMMA SbrkCallInd ==
  ASSUME IndInv, NEW p \in Proc, NEW n \in 0 .. NPages, SbrkLazy(p, n) \/ SbrkEager(p, n)
  PROVE  IndInv'
<1>0. /\ TypeOK /\ KmemOK /\ PtOK /\ LocalsOK /\ pc \in [Proc -> Label]
      /\ TablesFit(p) /\ CowOK(p) /\ GrowOK(p) /\ pc[p] = "user"
      /\ UNCHANGED <<kmem, pt, cur, val, held, child>>
  BY Zenon DEF IndInv, TypeOK, TablesFitSize, SbrkLazy, SbrkEager, locals
<1>1. TypeOK'
  BY <1>0, PtSame, KmemSame, Labels DEF SbrkLazy, SbrkEager, Goto, TypeOK, LocalsOK, locals
<1>2. OnlyLocals(p)
  BY Zenon, <1>0 DEF SbrkLazy, SbrkEager, Goto, LocalsOK, OnlyLocals, Forking, locals
<1>3. /\ pc'[p] \in {"user", "grow", "shrink"}
      /\ sz'[p] >= sz[p]
      /\ pc'[p] = "grow" => sz'[p] <= va'[p] /\ va'[p] <= lim'[p]
  BY <1>0 DEF SbrkLazy, SbrkEager, Goto, LocalsOK, locals
<1>4. TablesFit(p)' /\ GrowOK(p)' /\ ForkOK(p)'
  <2>1. ForkOK(p)'
    BY Zenon, <1>2, <1>3, LocalForkOK
  <2>2. GrowOK(p)'
    BY Zenon, <1>3 DEF GrowOK
  <2>3. TablesFit(p)'
    <3>1. \A v \in VPage : ~pt[Alt(p, v)].V /\ (pt[Cur(p, v)].V => v < sz[p])
      BY Zenon, <1>0, PlainTables
    <3>2. \A v \in VPage : Cur(p, v)' = Cur(p, v) /\ Alt(p, v)' = Alt(p, v)
      BY Zenon, <1>0 DEF Cur, Alt
    <3>3. \A v \in VPage : v < sz[p] => v < sz'[p]
      BY <1>0, <1>1, <1>3 DEF TypeOK, LocalsOK, VPage
    <3> QED BY Zenon, <1>0, <3>1, <3>2, <3>3 DEF TablesFit
  <2> QED BY Zenon, <2>1, <2>2, <2>3
<1>5. CowOK(p)'
  BY Zenon, <1>0, <1>3 DEF CowOK, Holding
<1> QED BY Zenon, <1>0, <1>1, <1>2, <1>4, <1>5, QuietInd DEF kmem

LEMMA GrowInd == ASSUME Counting, IndInv, NEW p \in Proc, Grow(p) PROVE IndInv'
<1>0. /\ TypeOK /\ KmemOK /\ PtOK /\ LocalsOK /\ pc \in [Proc -> Label]
      /\ TablesFit(p) /\ CowOK(p) /\ GrowOK(p)
      /\ pc[p] = "grow" /\ UNCHANGED <<cur, val, held, child>>
  BY Zenon DEF IndInv, TypeOK, TablesFitSize, Grow
<1>1. CASE /\ va[p] < lim[p] /\ ~pt[Cur(p, va[p])].V /\ Alloc(Cur(p, va[p]), Zero, TRUE, TRUE)
           /\ va' = [va EXCEPT ![p] = @ + 1] /\ UNCHANGED <<sz, pc, lim>>
  <2>1. PICK v \in VPage : v = va[p]
    BY <1>0, <1>1 DEF LocalsOK, VPage
  <2>2. Cur(p, v) \in Slot
    BY Zenon, <1>0, CurAltSlot DEF LocalsOK
  <2>3. LocalsOK'
    BY <1>0, <1>1 DEF LocalsOK
  <2>4. TypeOK'
    BY Zenon, <1>0, <1>1, <2>1, <2>2, <2>3, AllocType DEF TypeOK
  <2>5. OnlyLocals(p)
    BY Zenon, <1>0, <1>1 DEF OnlyLocals, Forking, LocalsOK
  <2>6. \A i \in VPage : Alt(p, i) # Cur(p, v) /\ (i # v => Cur(p, i) # Cur(p, v))
    BY Zenon, <1>0, CurInjective DEF LocalsOK
  <2>7. \A i \in VPage : pt'[Alt(p, i)] = pt[Alt(p, i)] /\ (i # v => pt'[Cur(p, i)] = pt[Cur(p, i)])
    BY Zenon, <1>0, <1>1, <2>1, <2>2, <2>6, CurAltSlot DEF Alloc, PtOK, LocalsOK
  <2>8. va'[p] = v + 1 /\ v < lim[p]
    BY Zenon, <1>0, <1>1, <2>1 DEF LocalsOK
  <2>9. TablesFit(p)'
    BY <1>0, <1>1, <2>1, <2>7, <2>8 DEF TablesFit, Cur, Alt, VPage
  <2>10. CowOK(p)' /\ GrowOK(p)' /\ ForkOK(p)'
    BY <1>0, <1>1, <2>1, <2>5, <2>8, LocalForkOK DEF CowOK, GrowOK, Holding, LocalsOK
  <2> QED BY Zenon, <1>0, <1>1, <2>1, <2>4, <2>5, <2>9, <2>10, AllocInd
<1>2. CASE /\ \/ va[p] < lim[p] /\ Goto(p, "ungrow") /\ UNCHANGED <<sz, va, lim>>
              \/ va[p] = lim[p] /\ GrowprocReturn(p, lim[p])
           /\ UNCHANGED <<kmem, pt>>
  <2>1. LocalsOK' /\ pc' \in [Proc -> Label]
    BY <1>0, <1>2, Labels DEF GrowprocReturn, Goto, LocalsOK
  <2>2. TypeOK'
    BY Zenon, <1>0, <1>2, <2>1, PtSame, KmemSame DEF TypeOK
  <2>3. OnlyLocals(p)
    BY Zenon, <1>0, <1>2 DEF GrowprocReturn, Goto, LocalsOK, OnlyLocals, Forking
  <2>4. \/ pc'[p] = "ungrow" /\ sz'[p] = sz[p] /\ va'[p] = va[p] /\ lim'[p] = lim[p]
        \/ pc'[p] = "user" /\ sz'[p] = va[p]
    BY Zenon, <1>0, <1>2 DEF GrowprocReturn, Goto, LocalsOK
  <2>5. TablesFit(p)'
    BY <1>0, <1>2, <2>4 DEF TablesFit, GrowOK, Cur, Alt, VPage, LocalsOK
  <2>6. CowOK(p)' /\ GrowOK(p)' /\ ForkOK(p)'
    BY Zenon, <1>0, <2>3, <2>4, LocalForkOK DEF CowOK, GrowOK, Holding
  <2> QED BY Zenon, <1>0, <1>2, <2>2, <2>3, <2>5, <2>6, QuietInd DEF kmem
<1> QED BY Zenon, <1>1, <1>2 DEF Grow

\* The two loops of uvmunmap() over the end of a process's memory.
LEMMA ShrinkInd ==
  ASSUME Counting, IndInv, NEW p \in Proc, Ungrow(p) \/ Shrink(p)
  PROVE  IndInv'
<1>0. /\ TypeOK /\ KmemOK /\ PtOK /\ LocalsOK /\ pc \in [Proc -> Label]
      /\ TablesFit(p) /\ CowOK(p) /\ GrowOK(p)
      /\ pc[p] \in {"ungrow", "shrink"} /\ UNCHANGED <<cur, val, held, child>>
  BY Zenon DEF IndInv, TypeOK, TablesFitSize, Ungrow, Shrink
<1>1. CASE \E v \in VPage : Unmap(Cur(p, v)) /\ UNCHANGED <<sz, pc, va, lim>>
  <2>1. PICK v \in VPage : Unmap(Cur(p, v)) /\ UNCHANGED <<sz, pc, va, lim>>
    BY Zenon, <1>1
  <2>2. Cur(p, v) \in Slot
    BY Zenon, <1>0, CurAltSlot DEF LocalsOK
  <2>3. TypeOK'
    BY Zenon, <1>0, <2>1, <2>2, UnmapType DEF TypeOK, LocalsOK
  <2>4. ~Uncounted(Cur(p, v))
    BY Zenon, <1>0 DEF Uncounted, Cur, IndInv, ForkOK, Forking
  <2>5. Owner(Cur(p, v)) = p
    BY Zenon DEF Owner, Cur
  <2> QED BY Zenon, <1>0, <2>1, <2>2, <2>3, <2>4, <2>5, UnmapInd DEF locals
<1>2. ASSUME NEW n \in 0 .. NPages, GrowprocReturn(p, n), UNCHANGED <<kmem, pt>>,
             \A v \in VPage : v >= n => ~pt[Cur(p, v)].V
      PROVE  IndInv'
  <2>1. LocalsOK' /\ pc' \in [Proc -> Label]
    BY <1>0, <1>2, Labels DEF GrowprocReturn, Goto, LocalsOK
  <2>2. TypeOK'
    BY Zenon, <1>0, <1>2, <2>1, PtSame, KmemSame DEF TypeOK
  <2>3. OnlyLocals(p)
    BY Zenon, <1>0, <1>2 DEF GrowprocReturn, Goto, LocalsOK, OnlyLocals, Forking
  <2>4. pc'[p] = "user" /\ sz'[p] = n
    BY Zenon, <1>0, <1>2 DEF GrowprocReturn, Goto, LocalsOK
  <2>5. \A v \in VPage : (pt[Cur(p, v)].V => v < n) /\ ~pt[Alt(p, v)].V
    BY <1>0, <1>2 DEF TablesFit, VPage
  <2> QED BY Zenon, <1>0, <1>2, <2>2, <2>3, <2>4, <2>5, PlainInd DEF Faulting, Holding, kmem
<1>3. CASE Ungrow(p)
  <2>1. CASE \E v \in sz[p] .. va[p] - 1 : Unmap(Cur(p, v)) /\ UNCHANGED <<sz, pc, va, lim>>
    BY <1>0, <1>1, <2>1 DEF LocalsOK, VPage
  <2>2. CASE /\ \A v \in sz[p] .. va[p] - 1 : ~pt[Cur(p, v)].V
             /\ GrowprocReturn(p, sz[p]) /\ UNCHANGED <<kmem, pt>>
    <3>1. \A v \in VPage : v >= sz[p] => ~pt[Cur(p, v)].V
      BY <1>0, <1>3, <2>2 DEF TablesFit, LocalsOK, VPage, Ungrow
    <3> QED BY Zenon, <1>0, <1>2, <2>2, <3>1 DEF LocalsOK
  <2> QED BY Zenon, <1>3, <2>1, <2>2 DEF Ungrow
<1>4. CASE Shrink(p)
  <2>1. CASE \E v \in lim[p] .. sz[p] - 1 : Unmap(Cur(p, v)) /\ UNCHANGED <<sz, pc, va, lim>>
    BY <1>0, <1>1, <2>1 DEF LocalsOK, VPage
  <2>2. CASE /\ \A v \in lim[p] .. sz[p] - 1 : ~pt[Cur(p, v)].V
             /\ GrowprocReturn(p, lim[p]) /\ UNCHANGED <<kmem, pt>>
    <3>1. \A v \in VPage : v >= lim[p] => ~pt[Cur(p, v)].V
      BY <1>0, <1>4, <2>2 DEF TablesFit, LocalsOK, VPage, Shrink
    <3> QED BY Zenon, <1>0, <1>2, <2>2, <3>1 DEF LocalsOK
  <2> QED BY Zenon, <1>4, <2>1, <2>2 DEF Shrink
<1> QED BY Zenon, <1>3, <1>4

-----------------------------------------------------------------------------
\* exec.

LEMMA ExecCallInd == ASSUME IndInv, NEW p \in Proc, ExecCall(p) PROVE IndInv'
<1>0. /\ TypeOK /\ KmemOK /\ PtOK /\ LocalsOK /\ pc \in [Proc -> Label]
      /\ TablesFit(p) /\ CowOK(p) /\ pc[p] = "user" /\ UNCHANGED <<kmem, pt, cur, sz, lim, val, held, child>>
  BY Zenon DEF IndInv, TypeOK, TablesFitSize, ExecCall
<1>1. TypeOK'
  BY <1>0, PtSame, KmemSame, Labels DEF ExecCall, Goto, TypeOK, LocalsOK
<1>2. OnlyLocals(p) /\ pc'[p] = "load"
  BY Zenon, <1>0 DEF ExecCall, Goto, OnlyLocals, Forking, LocalsOK
<1> QED BY Zenon, <1>0, <1>1, <1>2, PlainTables, PlainInd DEF Faulting, Holding, kmem

LEMMA LoadInd == ASSUME Counting, IndInv, NEW p \in Proc, Load(p) PROVE IndInv'
<1>0. /\ TypeOK /\ KmemOK /\ PtOK /\ LocalsOK /\ pc \in [Proc -> Label]
      /\ TablesFit(p) /\ CowOK(p) /\ GrowOK(p)
      /\ pc[p] = "load" /\ UNCHANGED <<cur, sz, lim, val, held, child>>
  BY Zenon DEF IndInv, TypeOK, TablesFitSize, Load
<1>1. PICK v \in VPage : /\ v = va[p] /\ v + 1 \in 1 .. Len(Image) /\ v + 1 <= NPages
                         /\ Image[v + 1].val \in Value /\ Image[v + 1].W \in BOOLEAN /\ Image[v + 1].U \in BOOLEAN
  BY <1>0, ImageAssumption DEF Load, LocalsOK, VPage
<1>2. CASE /\ ~pt[Alt(p, v)].V
           /\ Alloc(Alt(p, v), Image[v + 1].val, Image[v + 1].W, Image[v + 1].U)
           /\ va' = [va EXCEPT ![p] = v + 1] /\ UNCHANGED pc
  <2>2. Alt(p, v) \in Slot
    BY Zenon, <1>0, CurAltSlot DEF LocalsOK
  <2>3. LocalsOK'
    BY <1>0, <1>1, <1>2 DEF LocalsOK, VPage
  <2>4. TypeOK'
    BY ZenonT(60), <1>0, <1>1, <1>2, <2>2, <2>3, AllocType DEF TypeOK
  <2>5. OnlyLocals(p)
    BY Zenon, <1>0, <1>2 DEF OnlyLocals, Forking, LocalsOK
  <2>6. \A i \in VPage : Cur(p, i) # Alt(p, v) /\ (i # v => Alt(p, i) # Alt(p, v))
    BY Zenon, <1>0, CurInjective DEF LocalsOK
  <2>7. \A i \in VPage : pt'[Cur(p, i)] = pt[Cur(p, i)] /\ (i # v => pt'[Alt(p, i)] = pt[Alt(p, i)])
    BY Zenon, <1>0, <1>2, <2>2, <2>6, CurAltSlot DEF Alloc, PtOK, LocalsOK
  <2>8. va'[p] = v + 1
    BY Zenon, <1>0, <1>2 DEF LocalsOK
  <2>a. \A i \in VPage : Cur(p, i)' = Cur(p, i) /\ Alt(p, i)' = Alt(p, i)
    BY Zenon, <1>0 DEF Cur, Alt
  <2>b. ASSUME NEW i \in VPage, pt'[Alt(p, i)].V PROVE i < va'[p]
    <3>1. CASE i = v BY <2>8, <3>1 DEF VPage
    <3>2. CASE i # v
      <4>1. i < v BY Zenon, <1>0, <1>1, <2>7, <2>b, <3>2 DEF TablesFit
      <4> QED BY <2>8, <4>1 DEF VPage
    <3> QED BY Zenon, <3>1, <3>2
  <2>9. TablesFit(p)'
    BY Zenon, <1>0, <1>2, <2>7, <2>a, <2>b DEF TablesFit
  <2>10. CowOK(p)' /\ GrowOK(p)'
    BY Zenon, <1>0, <1>2 DEF CowOK, GrowOK, Holding
  <2>11. ForkOK(p)'
    BY Zenon, <1>0, <1>2, <2>5, LocalForkOK
  <2> QED BY Zenon, <1>0, <1>1, <1>2, <2>4, <2>5, <2>9, <2>10, <2>11, AllocInd
<1>3. CASE Goto(p, "bad") /\ UNCHANGED <<kmem, pt, va>>
  <2>1. TypeOK'
    BY Zenon, <1>0, <1>3, PtSame, KmemSame, Labels DEF Goto, TypeOK, LocalsOK
  <2>2. OnlyLocals(p)
    BY Zenon, <1>0, <1>3 DEF Goto, OnlyLocals, Forking
  <2>3. TablesFit(p)' /\ CowOK(p)' /\ GrowOK(p)' /\ ForkOK(p)'
    <3>1. TablesFit(p)'
      BY Zenon, <1>0, <1>3 DEF Goto, TablesFit, Cur, Alt
    <3>2. CowOK(p)' /\ GrowOK(p)'
      BY Zenon, <1>0, <1>3 DEF Goto, CowOK, GrowOK, Holding
    <3>3. ForkOK(p)'
      BY Zenon, <1>0, <1>3, <2>2, LocalForkOK DEF Goto
    <3> QED BY Zenon, <3>1, <3>2, <3>3
  <2> QED BY Zenon, <1>0, <1>3, <2>1, <2>2, <2>3, QuietInd DEF kmem
<1>4. v + 1 = va[p] + 1
  BY Zenon, <1>1
<1> QED BY Zenon, <1>1, <1>2, <1>3, <1>4 DEF Load

LEMMA ExecCommitInd == ASSUME IndInv, NEW p \in Proc, ExecCommit(p) PROVE IndInv'
<1>0. /\ TypeOK /\ KmemOK /\ PtOK /\ LocalsOK /\ pc \in [Proc -> Label]
      /\ TablesFit(p) /\ CowOK(p) /\ ForkOK(p)
      /\ pc[p] = "load" /\ UNCHANGED <<kmem, pt, va, val, held, child>>
      /\ freelist' = freelist /\ refcount' = refcount
  BY Zenon DEF IndInv, TypeOK, TablesFitSize, ExecCommit, kmem
<1>1. LocalsOK' /\ pc' \in [Proc -> Label]
  <2>1. pc' \in [Proc -> Label]
    BY Zenon, <1>0, Labels DEF ExecCommit, Goto
  <2>2. cur' \in [Proc -> {0, 1}]
    <3>1. cur \in [Proc -> {0, 1}] /\ cur' = [cur EXCEPT ![p] = 1 - cur[p]]
      BY Zenon, <1>0 DEF ExecCommit, LocalsOK
    <3>2. 1 - cur[p] \in {0, 1}
      BY <3>1
    <3> QED BY Zenon, <3>1, <3>2
  <2>3. sz' \in [Proc -> 0 .. NPages] /\ lim' \in [Proc -> 0 .. NPages]
    BY Zenon, <1>0 DEF ExecCommit, LocalsOK
  <2> QED BY Zenon, <1>0, <2>1, <2>2, <2>3 DEF LocalsOK
<1>2. TypeOK'
  BY Zenon, <1>0, <1>1, PtSame, KmemSame DEF TypeOK
<1>a. cur'[p] = 1 - cur[p] /\ cur[p] \in {0, 1}
  BY Zenon, <1>0 DEF ExecCommit, LocalsOK
<1>3. /\ cur'[p] = 1 - cur[p] /\ 1 - cur'[p] = cur[p] /\ sz'[p] = va[p] /\ lim'[p] = sz[p] /\ pc'[p] = "freeold"
      /\ \A q \in Proc : q # p => cur'[q] = cur[q] /\ sz'[q] = sz[q] /\ lim'[q] = lim[q] /\ pc'[q] = pc[q]
  BY <1>0, <1>a DEF ExecCommit, Goto, LocalsOK
<1>4. \A q \in Proc : child[q] # p
  BY Zenon, <1>0, NotAChild
<1>5. ASSUME NEW s \in Slot PROVE Uncounted(s)' <=> Uncounted(s)
  <2>1. \A q \in Proc : pc[q] = "addref" => child[q] \in Proc
    BY Zenon, ForkTypes
  <2> QED BY Zenon, <1>0, <1>3, <1>4, <2>1 DEF Uncounted, Cur
<1>6. RefcountExact'
  BY Zenon, <1>0, <1>5, RefcountSame DEF IndInv
<1>7. WritableIsPrivate'
  BY Zenon, <1>0 DEF IndInv, WritableIsPrivate
<1>8. \A i \in VPage : Cur(p, i)' = Alt(p, i) /\ Alt(p, i)' = Cur(p, i)
  BY Zenon, <1>3 DEF Cur, Alt
<1>b. TablesFit(p) /\ pt' = pt /\ va' = va /\ child' = child /\ pc[p] = "load"
  BY Zenon, <1>0
<1>9. TablesFit(p)'
  BY Zenon, <1>3, <1>8, <1>b DEF TablesFit
<1>10. ASSUME NEW q \in Proc, q # p PROVE TablesFit(q)'
  <2>1. TablesFit(q) /\ \A r \in Proc : child[r] = q /\ pc[r] = "addref" => pc'[r] = "addref"
    BY Zenon, <1>3, <1>b, IndOf
  <2> QED BY Zenon, <1>3, <1>10, <1>b, <2>1, TablesKeep
<1>11. ASSUME NEW q \in Proc PROVE ForkOK(q)'
  <2>1. CASE q = p
    BY Zenon, <1>0, <1>3, <2>1 DEF ForkOK, Forking
  <2>2. CASE q # p
    <3>1. ForkOK(q) /\ (child[q] \in Proc => pc'[child[q]] = pc[child[q]] /\ cur'[child[q]] = cur[child[q]])
      BY Zenon, <1>3, <1>4, IndOf
    <3> QED BY ZenonT(30), <1>3, <1>b, <2>2, <3>1, ForkKeeps
  <2> QED BY Zenon, <2>1, <2>2
<1>12. ASSUME NEW q \in Proc PROVE CowOK(q)' /\ GrowOK(q)'
  <2>1. CASE q = p
    <3>1. held[p] \notin Frame
      BY Zenon, <1>0 DEF CowOK, Holding
    <3> QED BY Zenon, <1>0, <1>3, <2>1, <3>1 DEF CowOK, GrowOK, Holding
  <2>2. CASE q # p
    <3>1. \A r \in Slot : Maps(r, held[q])' => Maps(r, held[q])
      BY Zenon, <1>0 DEF Maps
    <3> QED BY Zenon, <1>0, <1>3, <2>2, <3>1, IndOf, CowKeeps
  <2> QED BY Zenon, <2>1, <2>2
<1> QED BY Zenon, <1>2, <1>6, <1>7, <1>9, <1>10, <1>11, <1>12 DEF IndInv, TablesFitSize

LEMMA FreeTableInd == ASSUME Counting, IndInv, NEW p \in Proc, FreeTable(p) PROVE IndInv'
<1>0. /\ TypeOK /\ KmemOK /\ PtOK /\ LocalsOK /\ pc \in [Proc -> Label]
      /\ TablesFit(p) /\ CowOK(p) /\ GrowOK(p)
      /\ pc[p] \in {"freeold", "bad"} /\ UNCHANGED <<cur, sz, val, held, child>>
  BY Zenon DEF IndInv, TypeOK, TablesFitSize, FreeTable
<1>1. PICK n \in 0 .. NPages : n = IF pc[p] = "freeold" THEN lim[p] ELSE va[p]
  BY Zenon, <1>0 DEF LocalsOK
<1>2. CASE \E v \in 0 .. n - 1 : Unmap(Alt(p, v)) /\ UNCHANGED <<pc, va, lim>>
  <2>1. PICK v \in VPage : Unmap(Alt(p, v)) /\ UNCHANGED <<pc, va, lim>>
    BY <1>2 DEF VPage
  <2>2. Alt(p, v) \in Slot
    BY Zenon, <1>0, CurAltSlot DEF LocalsOK
  <2>3. TypeOK'
    BY Zenon, <1>0, <2>1, <2>2, UnmapType DEF TypeOK, LocalsOK
  <2>4. ~Uncounted(Alt(p, v))
    BY Zenon, <1>0 DEF Uncounted, Cur, Alt, IndInv, ForkOK, Forking
  <2>5. Owner(Alt(p, v)) = p
    BY Zenon DEF Owner, Alt
  <2> QED BY Zenon, <1>0, <2>1, <2>2, <2>3, <2>4, <2>5, UnmapInd DEF locals
<1>3. CASE /\ \A v \in 0 .. n - 1 : ~pt[Alt(p, v)].V
           /\ Goto(p, IF p = initproc /\ sz[p] = 0 THEN "panic" ELSE "user")
           /\ va' = [va EXCEPT ![p] = 0] /\ lim' = [lim EXCEPT ![p] = 0] /\ UNCHANGED <<kmem, pt>>
  <2>1. LocalsOK' /\ pc' \in [Proc -> Label]
    BY <1>0, <1>3, Labels DEF Goto, LocalsOK
  <2>2. TypeOK'
    BY ZenonT(60), <1>0, <1>3, <2>1, PtSame, KmemSame DEF TypeOK
  <2>3. OnlyLocals(p)
    BY Zenon, <1>0, <1>3 DEF Goto, LocalsOK, OnlyLocals, Forking
  <2>4. \A v \in VPage : ~pt[Alt(p, v)].V
    BY <1>0, <1>1, <1>3 DEF TablesFit, LocalsOK, VPage
  <2>5. pc'[p] \in {"panic", "user"}
    BY Zenon, <1>0, <1>3 DEF Goto
  <2>6. \A v \in VPage : pt[Cur(p, v)].V => v < sz[p]
    BY Zenon, <1>0 DEF TablesFit
  <2> QED BY Zenon, <1>0, <1>3, <2>2, <2>3, <2>4, <2>5, <2>6, PlainInd DEF Faulting, Holding, kmem
<1> QED BY Zenon, <1>1, <1>2, <1>3 DEF FreeTable

-----------------------------------------------------------------------------
\* exit and wait.

LEMMA ExitCallInd == ASSUME IndInv, NEW p \in Proc, ExitCall(p) PROVE IndInv'
<1>0. /\ TypeOK /\ KmemOK /\ PtOK /\ LocalsOK /\ pc \in [Proc -> Label]
      /\ TablesFit(p) /\ CowOK(p) /\ GrowOK(p)
  BY Zenon DEF IndInv, TypeOK, TablesFitSize
<1>1. TypeOK'
  BY Zenon, <1>0, PtSame, KmemSame, Labels DEF ExitCall, Kexit, Goto, TypeOK, LocalsOK, locals
<1>2. OnlyLocals(p)
  BY Zenon, <1>0 DEF ExitCall, Kexit, Goto, OnlyLocals, Forking, locals
<1>3. pc[p] = "user" /\ pc'[p] \in {"zombie", "panic"} /\ sz' = sz /\ UNCHANGED <<freelist, refcount, pt, held>>
  BY Zenon, <1>0 DEF ExitCall, Kexit, Goto, locals, kmem
<1> QED BY Zenon, <1>1, <1>2, <1>3, PlainTables, PlainInd DEF Faulting, Holding

LEMMA FreeProcInd == ASSUME Counting, IndInv, NEW p \in Proc, FreeProc(p) PROVE IndInv'
<1>0. /\ TypeOK /\ KmemOK /\ PtOK /\ LocalsOK /\ pc \in [Proc -> Label]
      /\ TablesFit(p) /\ CowOK(p) /\ GrowOK(p)
      /\ pc[p] = "zombie" /\ UNCHANGED <<cur, locals>>
  BY Zenon DEF IndInv, TypeOK, TablesFitSize, FreeProc
<1>1. CASE \E v \in 0 .. sz[p] - 1 : Unmap(Cur(p, v)) /\ UNCHANGED <<pc, sz>>
  <2>1. PICK v \in VPage : Unmap(Cur(p, v)) /\ UNCHANGED <<pc, sz>>
    BY <1>0, <1>1 DEF LocalsOK, VPage
  <2>2. Cur(p, v) \in Slot
    BY Zenon, <1>0, CurAltSlot DEF LocalsOK
  <2>3. TypeOK'
    BY Zenon, <1>0, <2>1, <2>2, UnmapType DEF TypeOK, LocalsOK, locals
  <2>4. ~Uncounted(Cur(p, v))
    BY Zenon, <1>0 DEF Uncounted, Cur, IndInv, ForkOK, Forking
  <2>5. Owner(Cur(p, v)) = p
    BY Zenon DEF Owner, Cur
  <2> QED BY Zenon, <1>0, <2>1, <2>2, <2>3, <2>4, <2>5, UnmapInd
<1>2. CASE /\ \A v \in 0 .. sz[p] - 1 : ~pt[Cur(p, v)].V
           /\ Goto(p, "unused") /\ sz' = [sz EXCEPT ![p] = 0] /\ UNCHANGED <<kmem, pt>>
  <2>1. TypeOK'
    BY <1>0, <1>2, PtSame, KmemSame, Labels DEF Goto, TypeOK, LocalsOK, locals
  <2>2. OnlyLocals(p)
    BY Zenon, <1>0, <1>2 DEF Goto, LocalsOK, OnlyLocals, Forking, locals
  <2>3. \A v \in VPage : ~pt[Cur(p, v)].V
    BY <1>0, <1>2 DEF TablesFit, LocalsOK, VPage
  <2>4. pc'[p] = "unused" /\ sz'[p] = 0 /\ \A v \in VPage : ~pt[Alt(p, v)].V
    BY Zenon, <1>0, <1>2, PlainTables DEF Goto, LocalsOK
  <2> QED BY Zenon, <1>0, <1>2, <2>1, <2>2, <2>3, <2>4, PlainInd DEF Faulting, Holding, locals, kmem
<1> QED BY Zenon, <1>1, <1>2 DEF FreeProc

-----------------------------------------------------------------------------
\* kfork() around the loop of uvmcopy().

LEMMA ForkCallInd == ASSUME IndInv, NEW p \in Proc, NEW c \in Proc, ForkCall(p, c) PROVE IndInv'
<1>0. /\ TypeOK /\ KmemOK /\ PtOK /\ LocalsOK /\ pc \in [Proc -> Label]
      /\ pc[p] = "user" /\ pc[c] = "unused" /\ p # c
      /\ UNCHANGED <<kmem, pt, cur, sz, lim, val, held>>
  BY Zenon DEF IndInv, TypeOK, ForkCall
<1>1. LocalsOK' /\ pc' \in [Proc -> Label]
  BY <1>0, Labels DEF ForkCall, LocalsOK
<1>2. TypeOK'
  BY Zenon, <1>0, <1>1, PtSame, KmemSame DEF TypeOK
<1>3. /\ pc'[p] = "copy" /\ pc'[c] = "used" /\ child'[p] = c /\ va'[p] = 0 /\ sz[p] >= 0
      /\ \A q \in Proc : q # p => child'[q] = child[q]
      /\ \A q \in Proc \ {p, c} : pc'[q] = pc[q] /\ va'[q] = va[q]
  BY <1>0 DEF ForkCall, LocalsOK
<1>4. \A q \in Proc : child[q] # c
  BY Zenon, <1>0, NotAChild
<1>5. child[p] = NoProc /\ sz[c] = 0
  BY Zenon, <1>0, IndOf DEF ForkOK, Forking
<1>6. \A i \in VPage : pt[Cur(c, i)].V => i < sz[c]
  BY Zenon, <1>0, PlainTables
<1> QED BY <1>0, <1>2, <1>3, <1>4, <1>5, <1>6, ForkQuiet DEF kmem

LEMMA ForkDoneInd == ASSUME IndInv, NEW p \in Proc, ForkDone(p) PROVE IndInv'
<1>0. /\ TypeOK /\ KmemOK /\ PtOK /\ LocalsOK /\ pc \in [Proc -> Label] /\ TablesFit(p)
      /\ ForkOK(p) /\ pc[p] = "copy" /\ UNCHANGED <<kmem, pt, cur, lim, val, held>>
  BY Zenon DEF IndInv, TypeOK, TablesFitSize, ForkDone
<1>1. PICK c \in Proc : c = child[p]
  BY Zenon, <1>0 DEF ForkOK, Forking
<1>2. /\ pc[c] = "used" /\ c # p /\ (\A q \in Proc : q # p => child[q] # c)
      /\ \A i \in VPage : ~pt[Alt(c, i)].V /\ (pt[Cur(c, i)].V => i < va[p])
  BY Zenon, <1>0, <1>1, ForkChild DEF Forking
<1>3. LocalsOK' /\ pc' \in [Proc -> Label]
  BY <1>0, <1>1, Labels DEF ForkDone, LocalsOK
<1>4. TypeOK'
  BY Zenon, <1>0, <1>3, PtSame, KmemSame DEF TypeOK
<1>5. /\ pc'[p] = "user" /\ pc'[c] = "user" /\ child'[p] = NoProc /\ sz'[c] = sz[p] /\ sz'[p] = sz[p]
      /\ va[p] = sz[p]
      /\ \A q \in Proc : q # p => child'[q] = child[q]
      /\ \A q \in Proc \ {p, c} : pc'[q] = pc[q] /\ va'[q] = va[q]
      /\ \A q \in Proc \ {c} : sz'[q] = sz[q]
  BY <1>0, <1>1, <1>2 DEF ForkDone, LocalsOK, ForkOK, Forking
<1>6. \A i \in VPage : pt[Cur(c, i)].V => i < sz'[c]
  BY Zenon, <1>2, <1>5
<1> QED BY <1>0, <1>1, <1>2, <1>4, <1>5, <1>6, ForkQuiet DEF kmem

LEMMA ForkUndoInd == ASSUME Counting, IndInv, NEW p \in Proc, ForkUndo(p) PROVE IndInv'
<1>0. /\ TypeOK /\ KmemOK /\ PtOK /\ LocalsOK /\ pc \in [Proc -> Label] /\ TablesFit(p)
      /\ ForkOK(p) /\ pc[p] = "undo" /\ UNCHANGED <<cur, sz, lim, val, held>>
  BY Zenon DEF IndInv, TypeOK, TablesFitSize, ForkUndo
<1>1. PICK c \in Proc : c = child[p]
  BY Zenon, <1>0 DEF ForkOK, Forking
<1>2. /\ pc[c] = "used" /\ c # p /\ (\A q \in Proc : q # p => child[q] # c)
      /\ \A i \in VPage : ~pt[Alt(c, i)].V /\ (pt[Cur(c, i)].V => i < va[p])
  BY Zenon, <1>0, <1>1, ForkChild DEF Forking
<1>3. CASE \E v \in 0 .. va[p] - 1 : Unmap(Cur(c, v)) /\ UNCHANGED <<pc, va, child>>
  <2>1. PICK v \in VPage : Unmap(Cur(c, v)) /\ UNCHANGED <<pc, va, child>>
    BY <1>0, <1>3 DEF LocalsOK, VPage
  <2>2. Cur(c, v) \in Slot
    BY Zenon, <1>0, CurAltSlot DEF LocalsOK
  <2>3. TypeOK'
    BY Zenon, <1>0, <2>1, <2>2, UnmapType DEF TypeOK, LocalsOK
  <2>4. ~Uncounted(Cur(c, v))
    BY Zenon, <1>0, <1>2 DEF Uncounted, Cur
  <2>5. Owner(Cur(c, v)) = c
    BY Zenon DEF Owner, Cur
  <2> QED BY Zenon, <1>0, <1>2, <2>1, <2>2, <2>3, <2>4, <2>5, UnmapInd DEF locals
<1>4. CASE /\ \A v \in 0 .. va[p] - 1 : ~pt[Cur(c, v)].V
           /\ pc' = [pc EXCEPT ![p] = "user", ![c] = "unused"]
           /\ va' = [va EXCEPT ![p] = 0] /\ child' = [child EXCEPT ![p] = NoProc]
           /\ UNCHANGED <<kmem, pt>>
  <2>1. LocalsOK' /\ pc' \in [Proc -> Label]
    BY <1>0, <1>4, Labels DEF LocalsOK
  <2>2. TypeOK'
    BY Zenon, <1>0, <1>4, <2>1, PtSame, KmemSame DEF TypeOK
  <2>3. /\ pc'[p] = "user" /\ pc'[c] = "unused" /\ child'[p] = NoProc
        /\ \A q \in Proc : q # p => child'[q] = child[q]
        /\ \A q \in Proc \ {p, c} : pc'[q] = pc[q] /\ va'[q] = va[q]
    BY Zenon, <1>0, <1>2, <1>4 DEF LocalsOK
  <2>4. \A i \in VPage : ~pt[Cur(c, i)].V
    BY <1>0, <1>2, <1>4 DEF LocalsOK, VPage
  <2>5. sz[c] = 0
    BY Zenon, <1>2, IndOf DEF ForkOK
  <2> QED BY <1>0, <1>1, <1>2, <1>4, <2>2, <2>3, <2>4, <2>5, ForkQuiet DEF kmem
<1> QED BY Zenon, <1>1, <1>3, <1>4 DEF ForkUndo

-----------------------------------------------------------------------------
\* The facts about finite sets.

INSTANCE FiniteSetTheorems

LEMMA SlotFinite == IsFiniteSet(Slot)
<1>1. IsFiniteSet(VPage) BY FS_Interval DEF VPage
<1>2. IsFiniteSet({0} \cup {1}) BY FS_Singleton, FS_AddElement, Zenon
<1>3. IsFiniteSet({0, 1})
  <2>1. {0, 1} = {0} \cup {1} OBVIOUS
  <2> QED BY <1>2, <2>1, Zenon
<1>4. IsFiniteSet(Table) BY <1>3, FS_Product, ProcFinite, Zenon DEF Table
<1> QED BY <1>1, <1>4, FS_Product, Zenon DEF Slot

LEMMA CountingHolds == Counting
<1>1. \A S, T : IsFiniteSet(S) /\ T \subseteq S => IsFiniteSet(T)
  BY Zenon, FS_Subset
<1>2. \A S : IsFiniteSet(S) => Cardinality(S) \in Nat
  BY FS_CardinalityType, Zenon
<1>3. \A S, x : IsFiniteSet(S) /\ x \notin S => Cardinality(S \cup {x}) = Cardinality(S) + 1
  BY FS_AddElement, Zenon
<1>4. \A S, x : IsFiniteSet(S) /\ x \in S => Cardinality(S \ {x}) = Cardinality(S) - 1
  BY FS_RemoveElement, Zenon
<1> QED BY <1>1, <1>2, <1>3, <1>4, SlotFinite, FS_EmptySet, FS_Singleton, Zenon DEF Counting

-----------------------------------------------------------------------------
\* The theorems.

LEMMA InitInd == ASSUME Counting, Init PROVE IndInv
<1>1. TypeOK
  BY Zenon, InitType
<1>2. RefcountExact
  <2>1. ASSUME NEW f \in Frame PROVE Mappings(f) = {} /\ Holders(f) = {}
    BY Zenon DEF Init, Mappings, Holders, Maps, NoPte
  <2>2. \A f \in Frame : Cardinality(Mappings(f)) = 0 /\ Cardinality(Holders(f)) = 0
    BY <2>1, CardEmpty, Zenon
  <2> QED BY <2>2 DEF Init, RefcountExact
<1>3. \A s \in Slot : ~pt[s].V
  BY Zenon DEF Init, NoPte
<1>4. WritableIsPrivate
  BY Zenon, <1>3 DEF WritableIsPrivate
<1>5. TablesFitSize
  BY Zenon, <1>1, <1>3, CurAltSlot DEF TablesFitSize, TablesFit, TypeOK, LocalsOK
<1>6. ASSUME NEW p \in Proc PROVE ForkOK(p) /\ CowOK(p) /\ GrowOK(p)
  BY Zenon DEF Init, ForkOK, CowOK, GrowOK, Forking, Holding
<1> QED BY Zenon, <1>1, <1>2, <1>4, <1>5, <1>6 DEF IndInv

LEMMA NextInd == ASSUME Counting, IndInv, [Next]_vars PROVE IndInv'
<1>1. CASE UNCHANGED vars
  <2>1. TypeOK'
    BY Zenon, <1>1 DEF vars, IndInv, TypeOK, KmemOK, PtOK, LocalsOK
  <2>2. \A s \in Slot : Uncounted(s)' <=> Uncounted(s)
    BY Zenon, <1>1 DEF vars, Uncounted, Cur
  <2>3. RefcountExact'
    BY Zenon, <1>1, <2>2, RefcountSame DEF vars, IndInv
  <2>4. WritableIsPrivate'
    BY Zenon, <1>1 DEF vars, IndInv, WritableIsPrivate
  <2>5. ASSUME NEW p \in Proc PROVE TablesFit(p)' /\ ForkOK(p)'
    BY Zenon, <1>1, IndOf, TablesKeep, ForkKeeps DEF vars
  <2>6. ASSUME NEW p \in Proc PROVE CowOK(p)' /\ GrowOK(p)'
    <3>1. \A r \in Slot : Maps(r, held[p])' => Maps(r, held[p])
      BY Zenon, <1>1 DEF vars, Maps
    <3> QED BY Zenon, <1>1, <3>1, IndOf, CowKeeps DEF vars
  <2> QED BY Zenon, <2>1, <2>3, <2>4, <2>5, <2>6 DEF IndInv, TablesFitSize
<1>2. CASE Next
  <2>1. PICK p \in Proc : \/ Access(p) \/ Copyout(p) \/ Cowfault(p) \/ Fork(p) \/ ExitCall(p)
                          \/ FreeProc(p) \/ Sbrk(p) \/ Exec(p)
    BY Zenon, <1>2 DEF Next
  <2>2. CASE Cowfault(p)
    BY Zenon, <2>2, CowRefInd, CowOwnInd, CowAllocInd, CowCopyInd, CowMapInd, CowFreeInd DEF Cowfault
  <2>3. CASE Fork(p)
    BY Zenon, <2>3, ForkCallInd, CopyPageInd, AddRefInd, ForkDoneInd, ForkUndoInd DEF Fork
  <2>4. CASE Sbrk(p)
    BY Zenon, <2>4, SbrkCallInd, GrowInd, ShrinkInd DEF Sbrk
  <2>5. CASE Exec(p)
    BY Zenon, <2>5, ExecCallInd, LoadInd, ExecCommitInd, FreeTableInd DEF Exec
  <2> QED BY Zenon, <2>1, <2>2, <2>3, <2>4, <2>5, AccessInd, CopyoutInd, ExitCallInd, FreeProcInd
<1> QED BY Zenon, <1>1, <1>2

\* The inductive invariant: what every step of kalloc.c, vm.c, kfork, kexec, growproc,
\* kexit and cowfault keeps, for any number of processes, pages and frames.
THEOREM Invariance == Spec => []IndInv
<1>1. Init => IndInv BY Zenon, CountingHolds, InitInd
<1>2. IndInv /\ [Next]_vars => IndInv' BY Zenon, CountingHolds, NextInd
<1> QED BY <1>1, <1>2, PTL DEF Spec

\* The state of user memory keeps its types (CowMemory's variables).
THEOREM Typing == Spec => []TypeOK
<1>1. IndInv => TypeOK BY Zenon DEF IndInv
<1> QED BY <1>1, Invariance, PTL

\* kalloc.c's refcount[] is exactly the number of references, and a page is on the
\* free list if and only if nothing refers to it.
THEOREM RefcountsExact == Spec => []RefcountExact
<1>1. IndInv => RefcountExact BY Zenon DEF IndInv
<1> QED BY <1>1, Invariance, PTL

\* No page that one table may write is in another table: fork() leaves nothing
\* shared and writable, and cowfault() makes only a sole owner's page writable.
THEOREM WritablePagesPrivate == Spec => []WritableIsPrivate
<1>1. IndInv => WritableIsPrivate BY Zenon DEF IndInv
<1> QED BY <1>1, Invariance, PTL

\* proc_freepagetable() finds every page it must unmap: freewalk() never panics.
THEOREM TeardownComplete == Spec => []TablesFitSize
<1>1. IndInv => TablesFitSize BY Zenon DEF IndInv
<1> QED BY <1>1, Invariance, PTL

\* mappages() never finds the page mapped already: panic("mappages: remap") is
\* unreachable from uvmalloc(), kexec() and uvmcopy().
THEOREM MappagesNeverRemaps == Spec => []NoRemap
<1>1. ASSUME IndInv PROVE NoRemap
  <2>0. LocalsOK /\ (\A p \in Proc : TablesFit(p) /\ GrowOK(p))
    BY Zenon, <1>1 DEF IndInv, TypeOK, TablesFitSize
  <2>1. ASSUME NEW p \in Proc, pc[p] = "copy", va[p] < sz[p] PROVE ~pt[Cur(child[p], va[p])].V
    <3>1. va[p] \in VPage /\ ~(va[p] < va[p]) /\ pc[p] \in Forking
      BY <2>0, <2>1 DEF LocalsOK, VPage, Forking
    <3> QED BY Zenon, <1>1, <2>1, <3>1, ForkChild
  <2>2. ASSUME NEW p \in Proc, pc[p] = "grow", va[p] < lim[p] PROVE ~pt[Cur(p, va[p])].V
    <3>1. va[p] \in VPage /\ ~(va[p] < va[p]) /\ ~(va[p] < sz[p])
      BY <2>0, <2>2 DEF LocalsOK, VPage, GrowOK
    <3> QED BY Zenon, <2>0, <2>2, <3>1 DEF TablesFit
  <2>3. ASSUME NEW p \in Proc, pc[p] = "load", va[p] < Len(Image) PROVE ~pt[Alt(p, va[p])].V
    <3>1. va[p] \in VPage /\ ~(va[p] < va[p])
      BY <2>0, <2>3, ImageAssumption DEF LocalsOK, VPage
    <3> QED BY Zenon, <2>0, <2>3, <3>1 DEF TablesFit
  <2> QED BY Zenon, <2>1, <2>2, <2>3 DEF NoRemap
<1> QED BY <1>1, Invariance, PTL

=============================================================================
