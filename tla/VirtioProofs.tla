---------------------------- MODULE VirtioProofs ----------------------------
(***************************************************************************)
(* The chains of descriptors and the two rings of virtio_disk.c, for any   *)
(* number of processes and descriptors and any modulus of the indices.     *)
(***************************************************************************)
EXTENDS Virtio, FiniteSetTheorems, WellFoundedInduction, TLAPS

\* The types of all variables.
Types ==
  /\ free \in SUBSET Desc
  /\ next \in [Desc -> Desc]
  /\ addr \in [Desc -> Proc \cup {None}]
  /\ info \in [Desc -> Proc \cup {None}]
  /\ avail \in [Desc -> Desc \cup {None}]
  /\ used \in [Desc -> Desc \cup {None}]
  /\ avail_idx \in 0 .. IdxMod - 1 /\ dev_idx \in 0 .. IdxMod - 1
  /\ used_dev \in 0 .. IdxMod - 1 /\ used_idx \in 0 .. IdxMod - 1
  /\ pc \in [Proc -> {"idle", "alloc", "nodesc", "issued", "woken"}]
  /\ bdisk \in [Proc -> BOOLEAN]
  /\ head \in [Proc -> Desc \cup {None}]
  /\ active \in SUBSET Desc
  /\ served \in [Proc -> BOOLEAN]

\* A request in flight owns three descriptors that are not free and lead the device and
\* the interrupt handler back to it.
Owned ==
  \A p \in InFlight :
    LET h == head[p] IN
    /\ h \in Desc /\ info[h] = p /\ addr[next[h]] = p
    /\ h # next[h] /\ h # next[next[h]] /\ next[h] # next[next[h]]
    /\ Chain(h) \cap free = {}

Apart == \A p, q \in InFlight : p # q => Chain(head[p]) \cap Chain(head[q]) = {}

Counted == IsFiniteSet(InFlight) /\ Cardinality(free) = NUM - 3 * Cardinality(InFlight)

\* The n entries of ring r from index lo on, up to index hi, are the ones not yet read.
Window(r, lo, hi, n) ==
  /\ hi = (lo + n) % IdxMod
  /\ \A i \in Desc : r[i] # None <=> \E k \in 0 .. n - 1 : i = (lo + k) % NUM

Rings ==
  /\ \E n \in 0 .. NUM : Window(avail, dev_idx, avail_idx, n)
  /\ \E n \in 0 .. NUM : Window(used, used_idx, used_dev, n)

\* The heads of the requests whose b->disk is 1.
Pending == {head[p] : p \in {q \in InFlight : bdisk[q]}}

\* Every ring entry is the head of a pending request, and no head is in two places.
Places ==
  /\ \A i \in Desc : avail[i] # None => avail[i] \in Pending /\ avail[i] \notin active
  /\ \A i \in Desc : used[i] # None => used[i] \in Pending /\ used[i] \notin active
  /\ active \subseteq Pending
  /\ \A i, j \in Desc : avail[i] # None /\ avail[i] = avail[j] => i = j
  /\ \A i, j \in Desc : used[i] # None /\ used[i] = used[j] => i = j
  /\ \A i, j \in Desc : avail[i] # None => avail[i] # used[j]

\* What is in the used ring, or was taken from it, has been served.
Served ==
  /\ \A p \in InFlight : ~bdisk[p] => served[p]
  /\ \A p \in InFlight, i \in Desc : used[i] = head[p] => served[p]

IndInv == Types /\ Owned /\ Apart /\ Counted /\ Rings /\ Places /\ Served

-----------------------------------------------------------------------------
\* Arithmetic of the ring indices.

LEMMA Consts == NUM \in Nat /\ NUM >= 3 /\ IdxMod \in Nat /\ IdxMod > NUM /\ IdxMod % NUM = 0
                /\ None \notin Desc /\ None \notin Proc
BY VirtioAssumption DEF Desc

LEMMA Remainder ==
  ASSUME NEW b \in Nat \ {0}, NEW q \in Int, NEW r \in 0 .. b - 1
  PROVE  (b * q + r) % b = r
OBVIOUS

LEMMA Division ==
  ASSUME NEW b \in Nat \ {0}, NEW a \in Nat
  PROVE  /\ a = b * (a \div b) + (a % b)
         /\ a \div b \in Int /\ a % b \in 0 .. b - 1
<1>1. a \div b \in Int
  OBVIOUS
<1>2. a % b \in 0 .. b - 1
  OBVIOUS
<1>3. a = b * (a \div b) + (a % b)
  BY Z3
<1> QED BY <1>1, <1>2, <1>3, Zenon

\* Adding a multiple of the ring's size does not change the slot.
LEMMA SameSlot ==
  ASSUME NEW b \in Nat \ {0}, NEW a \in Nat, NEW m \in Nat, m % b = 0
  PROVE  (m + a) % b = a % b
<1>1. /\ a = b * (a \div b) + (a % b)
      /\ a \div b \in Int /\ a % b \in 0 .. b - 1
  BY Division
<1>2. m = b * (m \div b) /\ m \div b \in Int
  BY Division
<1> DEFINE qm == m \div b
           qa == a \div b
           r == a % b
<1>3. m + a = b * (qm + qa) + r
  <2>1. m = b * qm /\ a = b * qa + r /\ qm \in Int /\ qa \in Int /\ r \in Int
    BY <1>1, <1>2
  <2> HIDE DEF qm, qa, r
  <2>2. b * (qm + qa) = b * qm + b * qa
    BY <2>1
  <2> QED BY <2>1, <2>2
<1>4. qm + qa \in Int /\ r \in 0 .. b - 1
  BY <1>1, <1>2
<1> HIDE DEF qm, qa
<1> QED BY Zenon, <1>3, <1>4, Remainder

\* Slots less than the ring's size apart differ.
LEMMA OtherSlot ==
  ASSUME NEW b \in Nat \ {0}, NEW a \in Nat, NEW k \in 1 .. b - 1
  PROVE  (a + k) % b # a % b
<1> DEFINE q == a \div b
           r == a % b
<1>1. a = b * q + r /\ q \in Int /\ r \in 0 .. b - 1
  BY Division
<1> HIDE DEF q, r
<1>2. CASE r + k < b
  <2>1. a + k = b * q + (r + k) /\ r + k \in 0 .. b - 1
    BY <1>1, <1>2
  <2>2. (a + k) % b = r + k
    BY <1>1, <2>1, Remainder
  <2> QED BY <1>1, <2>2 DEF r
<1>3. CASE r + k >= b
  <2>1. a + k = b * (q + 1) + (r + k - b) /\ r + k - b \in 0 .. b - 1
    BY <1>1, <1>3
  <2>2. (a + k) % b = r + k - b
    <3> DEFINE q1 == q + 1
               r1 == r + k - b
    <3>1. q1 \in Int /\ r1 \in 0 .. b - 1 /\ a + k = b * q1 + r1
      BY <1>1, <2>1
    <3> HIDE DEF q1, r1
    <3>2. (a + k) % b = r1
      BY Zenon, <3>1, Remainder
    <3> QED BY <3>2 DEF r1
  <2> QED BY <1>1, <2>2 DEF r
<1> QED BY <1>1, <1>2, <1>3

\* As many slots in a row as the ring has are all of them.
LEMMA AllSlots ==
  ASSUME NEW b \in Nat \ {0}, NEW a \in Nat, NEW i \in 0 .. b - 1
  PROVE  \E k \in 0 .. b - 1 : i = (a + k) % b
<1> DEFINE q == a \div b
           r == a % b
<1>1. a = b * q + r /\ q \in Int /\ r \in 0 .. b - 1
  BY Division
<1> HIDE DEF q, r
<1>2. CASE r <= i
  <2>1. a + (i - r) = b * q + i /\ i - r \in 0 .. b - 1
    BY <1>1, <1>2
  <2>2. (a + (i - r)) % b = i
    BY <1>1, <2>1, Remainder
  <2> QED BY Zenon, <2>1, <2>2
<1>3. CASE r > i
  <2>1. a + (i - r + b) = b * (q + 1) + i /\ i - r + b \in 0 .. b - 1
    BY <1>1, <1>3
  <2>2. PICK q1 \in Int : q1 = q + 1
    BY <1>1
  <2>3. a + (i - r + b) = b * q1 + i
    BY <2>1, <2>2
  <2>4. (a + (i - r + b)) % b = i
    BY Zenon, <2>2, <2>3, Remainder
  <2> QED BY Zenon, <2>1, <2>4
<1> QED BY <1>1, <1>2, <1>3

\* An index that has wrapped names the same slot.
LEMMA WrappedSlot ==
  ASSUME NEW a \in 0 .. IdxMod - 1, NEW n \in 0 .. NUM, NEW k \in Nat
  PROVE  /\ (((a + n) % IdxMod) + k) % NUM = (a + n + k) % NUM
         /\ (a + n) % IdxMod \in 0 .. IdxMod - 1
<1>1. CASE a + n < IdxMod
  <2>1. (a + n) % IdxMod = a + n
    BY <1>1, Consts
  <2> QED BY <1>1, <2>1, Consts
<1>2. CASE a + n >= IdxMod
  <2> DEFINE d == a + n - IdxMod
  <2>1. d \in 0 .. IdxMod - 1 /\ a + n = IdxMod * 1 + d
    BY <1>2, Consts
  <2>2. (a + n) % IdxMod = d
    BY <2>1, Remainder, Consts
  <2>3. (IdxMod + (d + k)) % NUM = (d + k) % NUM
    <3>1. d + k \in Nat /\ IdxMod \in Nat /\ IdxMod % NUM = 0 /\ NUM \in Nat \ {0}
      BY <2>1, Consts
    <3> HIDE DEF d
    <3> QED BY Zenon, <3>1, SameSlot
  <2> QED BY <2>1, <2>2, <2>3, Consts
<1> QED BY <1>1, <1>2, Consts

LEMMA Advance ==
  ASSUME NEW a \in 0 .. IdxMod - 1, NEW n \in 0 .. NUM - 1
  PROVE  (((a + n) % IdxMod) + 1) % IdxMod = (a + n + 1) % IdxMod
<1>1. CASE a + n < IdxMod
  <2>1. (a + n) % IdxMod = a + n
    BY <1>1, Consts
  <2> QED BY <2>1
<1>2. CASE a + n >= IdxMod
  <2> DEFINE d == a + n - IdxMod
  <2>1. d \in 0 .. IdxMod - 2 /\ a + n = IdxMod * 1 + d
    BY <1>2, Consts
  <2>2. (a + n) % IdxMod = d
    BY <2>1, Remainder, Consts
  <2>3. a + n + 1 = IdxMod * 1 + (d + 1) /\ d + 1 \in 0 .. IdxMod - 1
    BY <2>1, Consts
  <2>4. (a + n + 1) % IdxMod = d + 1
    BY <2>3, Remainder, Consts
  <2>5. (d + 1) % IdxMod = d + 1
    BY <2>3, Consts
  <2> QED BY <2>2, <2>4, <2>5
<1> QED BY <1>1, <1>2, Consts

-----------------------------------------------------------------------------
\* Finite sets of descriptors.

LEMMA DescFinite == IsFiniteSet(Desc) /\ Cardinality(Desc) = NUM
<1>1. 0 \in Int /\ NUM - 1 \in Int /\ ~ (0 > NUM - 1)
  BY Consts
<1>2. IsFiniteSet(0 .. NUM - 1) /\ Cardinality(0 .. NUM - 1) = NUM - 1 - 0 + 1
  BY <1>1, FS_Interval
<1> QED BY <1>2, Consts DEF Desc

LEMMA LowestIn ==
  ASSUME NEW S, S \subseteq Desc, S # {}
  PROVE  Lowest(S) \in S
<1>1. S \subseteq Nat
  BY Consts DEF Desc
<1>2. \E x \in S : \A y \in S : ~ (<<y, x>> \in OpToRel(<, Nat))
  BY Zenon, <1>1, NatLessThanWellFounded, WFMin
<1>3. PICK x \in S : \A y \in S : ~ (<<y, x>> \in OpToRel(<, Nat))
  BY Zenon, <1>2
<1>4. OpToRel(<, Nat) = {ss \in Nat \X Nat : ss[1] < ss[2]}
  BY Zenon DEF OpToRel
<1>5. ASSUME NEW y \in S PROVE x <= y
  <2>1. <<y, x>> \notin {ss \in Nat \X Nat : ss[1] < ss[2]}
    BY Zenon, <1>3, <1>4
  <2> QED BY <1>1, <2>1
<1> QED BY Zenon, <1>5 DEF Lowest

\* alloc3_desc() gets three different descriptors.
LEMMA ThreeOf ==
  ASSUME NEW S, S \subseteq Desc, Cardinality(S) >= 3
  PROVE  \A i, j, k : i = Lowest(S) /\ j = Lowest(S \ {i}) /\ k = Lowest(S \ {i, j}) =>
           /\ i \in S /\ j \in S /\ k \in S /\ i # j /\ i # k /\ j # k
           /\ Cardinality(S \ {i, j, k}) = Cardinality(S) - 3
<1> SUFFICES ASSUME NEW i, i = Lowest(S), NEW j, j = Lowest(S \ {i}), NEW k, k = Lowest(S \ {i, j})
             PROVE  /\ i \in S /\ j \in S /\ k \in S /\ i # j /\ i # k /\ j # k
                    /\ Cardinality(S \ {i, j, k}) = Cardinality(S) - 3
  BY Zenon
<1>1. IsFiniteSet(S) /\ Cardinality(S) \in Nat
  BY DescFinite, FS_Subset, FS_CardinalityType
<1>2. i \in S
  <2>1. S # {}
    BY FS_EmptySet
  <2> QED BY Zenon, <2>1, LowestIn
<1>3. IsFiniteSet(S \ {i}) /\ Cardinality(S \ {i}) = Cardinality(S) - 1
  BY <1>1, <1>2, FS_RemoveElement
<1>4. j \in S \ {i}
  <2>1. S \ {i} # {}
    BY <1>1, <1>3, FS_EmptySet
  <2> QED BY Zenon, <2>1, LowestIn
<1>5. /\ IsFiniteSet((S \ {i}) \ {j})
      /\ Cardinality((S \ {i}) \ {j}) = Cardinality(S) - 2
  <2> DEFINE A == S \ {i}
  <2>1. IsFiniteSet(A) /\ j \in A /\ Cardinality(A) = Cardinality(S) - 1
    BY Zenon, <1>3, <1>4
  <2> HIDE DEF A
  <2>2. IsFiniteSet(A \ {j}) /\ Cardinality(A \ {j}) = Cardinality(A) - 1
    BY Zenon, <2>1, FS_RemoveElement
  <2>3. Cardinality(A) - 1 = Cardinality(S) - 2
    BY <1>1, <2>1
  <2> QED BY <2>2, <2>3 DEF A
<1>6. (S \ {i}) \ {j} = S \ {i, j} /\ (S \ {i, j}) \ {k} = S \ {i, j, k}
  BY Zenon
<1>7. k \in S \ {i, j}
  <2>1. S \ {i, j} # {}
    BY <1>1, <1>5, <1>6, FS_EmptySet
  <2> QED BY Zenon, <2>1, LowestIn
<1>8. Cardinality((S \ {i, j}) \ {k}) = Cardinality(S) - 3
  <2> DEFINE A == S \ {i, j}
  <2>1. IsFiniteSet(A) /\ k \in A /\ Cardinality(A) = Cardinality(S) - 2
    BY Zenon, <1>5, <1>6, <1>7
  <2> HIDE DEF A
  <2>2. Cardinality(A \ {k}) = Cardinality(A) - 1
    BY Zenon, <2>1, FS_RemoveElement
  <2>3. Cardinality(A) - 1 = Cardinality(S) - 3
    BY <1>1, <2>1
  <2> QED BY <2>2, <2>3 DEF A
<1> QED BY <1>2, <1>4, <1>6, <1>7, <1>8

LEMMA ThreeMore ==
  ASSUME NEW S, IsFiniteSet(S), NEW i, NEW j, NEW k, i # j, i # k, j # k, {i, j, k} \cap S = {}
  PROVE  Cardinality(S \cup {i, j, k}) = Cardinality(S) + 3
<1>1. Cardinality(S) \in Nat
  BY FS_CardinalityType
<1> DEFINE A == S \cup {i}
           B == A \cup {j}
<1>2. IsFiniteSet(A) /\ Cardinality(A) = Cardinality(S) + 1 /\ j \notin A
  <2>1. i \notin S /\ j \notin A
    BY Zenon
  <2> QED BY Zenon, <2>1, FS_AddElement
<1>3. IsFiniteSet(B) /\ Cardinality(B) = Cardinality(A) + 1 /\ k \notin B
  <2>1. k \notin B
    BY Zenon
  <2> HIDE DEF A
  <2> QED BY Zenon, <1>2, <2>1, FS_AddElement
<1>4. Cardinality(B \cup {k}) = Cardinality(B) + 1
  <2> HIDE DEF B
  <2> QED BY Zenon, <1>3, FS_AddElement
<1>5. B \cup {k} = S \cup {i, j, k}
  BY Zenon
<1> HIDE DEF A, B
<1>6. Cardinality(B \cup {k}) = Cardinality(S) + 3
  BY <1>1, <1>2, <1>3, <1>4
<1> QED BY Zenon, <1>5, <1>6

LEMMA ThreeElements ==
  ASSUME NEW i, NEW j, NEW k, i # j, i # k, j # k
  PROVE  Cardinality({i, j, k}) = 3
<1>1. IsFiniteSet({}) /\ Cardinality({}) = 0
  BY FS_EmptySet
<1> DEFINE E == {}
<1>2. {i, j, k} \cap E = {} /\ E \cup {i, j, k} = {i, j, k}
  BY Zenon
<1>3. IsFiniteSet(E) /\ Cardinality(E) = 0
  BY <1>1
<1> HIDE DEF E
<1>4. Cardinality(E \cup {i, j, k}) = Cardinality(E) + 3
  BY <1>2, <1>3, ThreeMore
<1> QED BY <1>2, <1>3, <1>4

-----------------------------------------------------------------------------
\* The rings.

\* A ring of different descriptors that lacks one of them is not full.
LEMMA WindowRoom ==
  ASSUME NEW r \in [Desc -> Desc \cup {None}], NEW lo \in 0 .. IdxMod - 1, NEW hi,
         NEW n \in 0 .. NUM, Window(r, lo, hi, n),
         \A i, j \in Desc : r[i] # None /\ r[i] = r[j] => i = j,
         NEW x \in Desc, \A i \in Desc : r[i] # x
  PROVE  n \in 0 .. NUM - 1
<1>1. SUFFICES ASSUME n = NUM PROVE FALSE
  BY Consts
<1>2. ASSUME NEW i \in Desc PROVE r[i] # None
  <2>1. \E k \in 0 .. NUM - 1 : i = (lo + k) % NUM
    <3>1. NUM \in Nat \ {0} /\ lo \in Nat /\ i \in 0 .. NUM - 1
      BY Consts DEF Desc
    <3> QED BY Zenon, <3>1, AllSlots
  <2> QED BY Zenon, <2>1, <1>1 DEF Window
<1>3. r \in [Desc -> Desc \ {x}]
  BY <1>2
<1>4. IsFiniteSet(Desc \ {x}) /\ Cardinality(Desc \ {x}) < Cardinality(Desc)
  <2>1. IsFiniteSet(Desc \ {x}) /\ Cardinality(Desc \ {x}) = Cardinality(Desc) - 1
    BY Zenon, DescFinite, FS_RemoveElement
  <2> QED BY <2>1, DescFinite, Consts
<1>5. \E i, j \in Desc : i # j /\ r[i] = r[j]
  <2> DEFINE A == Desc \ {x}
  <2>1. r \in [Desc -> A] /\ IsFiniteSet(A) /\ Cardinality(A) < Cardinality(Desc)
    BY <1>3, <1>4
  <2> HIDE DEF A
  <2> QED BY <2>1, DescFinite, FS_PigeonHole
<1> QED BY Zenon, <1>2, <1>5

LEMMA SlotIn == ASSUME NEW a \in Nat PROVE a % NUM \in Desc
BY Consts DEF Desc

LEMMA WindowPut ==
  ASSUME NEW r \in [Desc -> Desc \cup {None}], NEW lo \in 0 .. IdxMod - 1, NEW hi,
         NEW n \in 0 .. NUM - 1, Window(r, lo, hi, n), NEW x \in Desc
  PROVE  Window([r EXCEPT ![hi % NUM] = x], lo, (hi + 1) % IdxMod, n + 1)
<1>1. hi = (lo + n) % IdxMod /\ lo + n \in Nat /\ hi \in Nat
  BY WrappedSlot, Consts DEF Window
<1>2. hi % NUM = (lo + n) % NUM
  <2>1. (((lo + n) % IdxMod) + 0) % NUM = (lo + n + 0) % NUM
    <3>1. n \in 0 .. NUM /\ 0 \in Nat
      BY Consts
    <3> QED BY Zenon, <3>1, WrappedSlot
  <2> QED BY <1>1, <2>1
<1>3. (hi + 1) % IdxMod = (lo + (n + 1)) % IdxMod
  <2>1. (hi + 1) % IdxMod = (lo + n + 1) % IdxMod
    BY <1>1, Advance
  <2> QED BY <2>1
<1>4. hi % NUM \in Desc
  BY <1>1, SlotIn
<1>5. ASSUME NEW i \in Desc
      PROVE  [r EXCEPT ![hi % NUM] = x][i] # None
               <=> \E k \in 0 .. (n + 1) - 1 : i = (lo + k) % NUM
  <2>1. (\E k \in 0 .. (n + 1) - 1 : i = (lo + k) % NUM)
          <=> i = (lo + n) % NUM \/ \E k \in 0 .. n - 1 : i = (lo + k) % NUM
    <3>1. ASSUME NEW k \in 0 .. (n + 1) - 1 PROVE k = n \/ k \in 0 .. n - 1
      OBVIOUS
    <3>2. ASSUME NEW k \in 0 .. n - 1 PROVE k \in 0 .. (n + 1) - 1
      OBVIOUS
    <3>3. n \in 0 .. (n + 1) - 1
      OBVIOUS
    <3> QED BY Zenon, <3>1, <3>2, <3>3
  <2>2. [r EXCEPT ![hi % NUM] = x][i] # None <=> i = hi % NUM \/ r[i] # None
    BY <1>4, Consts
  <2>3. r[i] # None <=> \E k \in 0 .. n - 1 : i = (lo + k) % NUM
    BY DEF Window
  <2> QED BY Zenon, <1>2, <2>1, <2>2, <2>3
<1> QED BY Zenon, <1>3, <1>5 DEF Window

LEMMA WindowGet ==
  ASSUME NEW r \in [Desc -> Desc \cup {None}], NEW lo \in 0 .. IdxMod - 1, NEW hi,
         NEW n \in 0 .. NUM, Window(r, lo, hi, n), lo # hi
  PROVE  /\ n - 1 \in 0 .. NUM /\ lo % NUM \in Desc /\ r[lo % NUM] # None
         /\ Window([r EXCEPT ![lo % NUM] = None], (lo + 1) % IdxMod, hi, n - 1)
<1>1. lo % NUM \in Desc
  BY SlotIn
<1>2. hi = (lo + n) % IdxMod
  BY DEF Window
<1>3. n # 0
  <2>1. lo % IdxMod = lo
    BY Consts
  <2> QED BY <1>2, <2>1
<1>4. n - 1 \in 0 .. NUM
  BY <1>3, Consts
<1>5. r[lo % NUM] # None
  <2>1. 0 \in 0 .. n - 1 /\ lo % NUM = (lo + 0) % NUM
    BY <1>3, Consts
  <2>2. \E k \in 0 .. n - 1 : lo % NUM = (lo + k) % NUM
    BY Zenon, <2>1
  <2> QED BY Zenon, <1>1, <2>2 DEF Window
<1>6. hi = (((lo + 1) % IdxMod) + (n - 1)) % IdxMod
  <2>1. CASE lo + 1 < IdxMod
    <3>1. (lo + 1) % IdxMod = lo + 1
      BY <2>1, Consts
    <3>2. (lo + 1) + (n - 1) = lo + n
      OBVIOUS
    <3> QED BY <1>2, <3>1, <3>2
  <2>2. CASE lo + 1 = IdxMod
    <3>1. (lo + 1) % IdxMod = 0
      BY <2>2, Consts
    <3>2. lo + n = IdxMod * 1 + (n - 1) /\ n - 1 \in 0 .. IdxMod - 1
      BY <2>2, <1>4, Consts
    <3>3. (lo + n) % IdxMod = n - 1
      BY <3>2, Remainder, Consts
    <3>4. (0 + (n - 1)) % IdxMod = n - 1
      BY <3>2, Consts
    <3> QED BY <1>2, <3>1, <3>3, <3>4
  <2> QED BY <2>1, <2>2, Consts
<1>7. ASSUME NEW i \in Desc
      PROVE  [r EXCEPT ![lo % NUM] = None][i] # None
               <=> \E k \in 0 .. (n - 1) - 1 : i = (((lo + 1) % IdxMod) + k) % NUM
  <2>1. ASSUME NEW k \in Nat PROVE (((lo + 1) % IdxMod) + k) % NUM = (lo + (k + 1)) % NUM
    <3>1. (((lo + 1) % IdxMod) + k) % NUM = (lo + 1 + k) % NUM
      BY WrappedSlot, Consts
    <3>2. lo + 1 + k = lo + (k + 1)
      OBVIOUS
    <3> QED BY <3>1, <3>2
  <2>2. ASSUME NEW k \in 1 .. n - 1 PROVE (lo + k) % NUM # lo % NUM
    <3>1. k \in 1 .. NUM - 1 /\ lo \in Nat /\ NUM \in Nat \ {0}
      BY Consts
    <3> QED BY Zenon, <3>1, OtherSlot
  <2>3. ASSUME NEW k \in 0 .. (n - 1) - 1, i = (lo + (k + 1)) % NUM
        PROVE  r[i] # None /\ i # lo % NUM
    <3>1. k + 1 \in 1 .. n - 1 /\ k + 1 \in 0 .. n - 1
      BY Consts
    <3> QED BY Zenon, <2>2, <2>3, <3>1 DEF Window
  <2>4. ASSUME r[i] # None, i # lo % NUM
        PROVE  \E k \in 0 .. (n - 1) - 1 : i = (lo + (k + 1)) % NUM
    <3>1. PICK k \in 0 .. n - 1 : i = (lo + k) % NUM
      BY Zenon, <2>4 DEF Window
    <3>2. k # 0
      BY <3>1, <2>4
    <3>3. k - 1 \in 0 .. (n - 1) - 1 /\ (k - 1) + 1 = k
      BY <3>2
    <3> QED BY Zenon, <3>1, <3>3
  <2>5. [r EXCEPT ![lo % NUM] = None][i] # None <=> r[i] # None /\ i # lo % NUM
    BY Zenon
  <2>6. \A k \in 0 .. (n - 1) - 1 : k \in Nat
    OBVIOUS
  <2> QED BY Zenon, <2>1, <2>3, <2>4, <2>5, <2>6
<1> QED BY Zenon, <1>1, <1>4, <1>5, <1>6, <1>7 DEF Window

-----------------------------------------------------------------------------
\* What every step keeps.

LEMMA InitInd == Init => IndInv
<1> SUFFICES ASSUME Init PROVE IndInv
  OBVIOUS
<1>1. InFlight = {} /\ Pending = {}
  BY DEF Init, InFlight, Pending
<1>2. Types
  BY Consts DEF Init, Types, Desc
<1>3. Owned /\ Apart /\ Served
  BY Zenon, <1>1 DEF Owned, Apart, Served
<1>4. Counted
  <2>1. IsFiniteSet(InFlight) /\ Cardinality(InFlight) = 0
    BY Zenon, <1>1, FS_EmptySet
  <2> QED BY <2>1, DescFinite, Consts DEF Counted, Init
<1>5. \A r : r = [i \in Desc |-> None] => \E n \in 0 .. NUM : Window(r, 0, 0, n)
  <2> SUFFICES ASSUME NEW r, r = [i \in Desc |-> None] PROVE Window(r, 0, 0, 0)
    BY Consts
  <2>1. 0 = (0 + 0) % IdxMod
    BY Consts
  <2>2. ~ \E k \in 0 .. 0 - 1 : TRUE
    OBVIOUS
  <2> QED BY Zenon, <2>1, <2>2 DEF Window
<1>6. Rings
  BY Zenon, <1>5 DEF Rings, Init
<1>7. Places
  BY Zenon DEF Places, Init
<1> QED BY Zenon, <1>2, <1>3, <1>4, <1>6, <1>7 DEF IndInv

\* Two requests in flight have different heads.
LEMMA HeadsDiffer ==
  ASSUME Apart, NEW p \in InFlight, NEW q \in InFlight, head[p] = head[q]
  PROVE  p = q
BY Zenon DEF Apart, Chain

\* The head of a request in flight is a descriptor that is not free.
LEMMA PendingHeads ==
  ASSUME Owned
  PROVE  Pending \subseteq Desc /\ Pending \cap free = {}
<1> SUFFICES ASSUME NEW h \in Pending PROVE h \in Desc /\ h \notin free
  BY Zenon
<1>1. PICK p \in InFlight : h = head[p]
  BY Zenon DEF Pending
<1> QED BY <1>1 DEF Owned, Chain

LEMMA ChainsKept ==
  ASSUME Owned, Apart, Counted, InFlight' = InFlight,
         free' = free, next' = next, addr' = addr, info' = info, head' = head
  PROVE  Owned' /\ Apart' /\ Counted'
<1>1. Owned'
  BY Zenon DEF Owned, Chain
<1>2. Apart'
  BY Zenon DEF Apart, Chain
<1>3. Counted'
  BY Zenon DEF Counted
<1> QED BY Zenon, <1>1, <1>2, <1>3

\* A step that only moves a process which is not in flight, or the interrupt handler.
LEMMA QuietInd ==
  ASSUME IndInv, InFlight' = InFlight,
         UNCHANGED <<free, next, addr, info, head, avail, avail_idx, used, used_dev, used_idx,
                     dev_idx, active, bdisk, served>>,
         pc' \in [Proc -> {"idle", "alloc", "nodesc", "issued", "woken"}]
  PROVE  IndInv'
<1>1. /\ free' = free /\ next' = next /\ addr' = addr /\ info' = info /\ head' = head
      /\ avail' = avail /\ avail_idx' = avail_idx /\ used' = used /\ used_dev' = used_dev
      /\ used_idx' = used_idx /\ dev_idx' = dev_idx /\ active' = active /\ bdisk' = bdisk
      /\ served' = served
  OBVIOUS
<1>2. Types'
  BY Zenon, <1>1 DEF IndInv, Types
<1>3. Owned' /\ Apart' /\ Counted'
  <2>1. Owned /\ Apart /\ Counted
    BY Zenon DEF IndInv
  <2> QED BY <1>1, <2>1, ChainsKept
<1>4. Rings'
  BY Zenon, <1>1 DEF IndInv, Rings
<1>5. Pending' = Pending
  BY Zenon, <1>1 DEF Pending
<1>6. Places'
  BY Zenon, <1>1, <1>5 DEF IndInv, Places
<1>7. Served'
  BY Zenon, <1>1 DEF IndInv, Served
<1> QED BY Zenon, <1>2, <1>3, <1>4, <1>6, <1>7 DEF IndInv

LEMMA CallInd == ASSUME IndInv, NEW p \in Proc, Call(p) PROVE IndInv'
<1>1. pc' \in [Proc -> {"idle", "alloc", "nodesc", "issued", "woken"}] /\ InFlight' = InFlight
  BY DEF IndInv, Types, Call, InFlight
<1> QED BY Zenon, <1>1, QuietInd DEF Call, device

LEMMA AllocFailsInd == ASSUME IndInv, NEW p \in Proc, AllocFails(p) PROVE IndInv'
<1>1. pc' \in [Proc -> {"idle", "alloc", "nodesc", "issued", "woken"}] /\ InFlight' = InFlight
  BY DEF IndInv, Types, AllocFails, Wake, InFlight
<1> QED BY Zenon, <1>1, QuietInd DEF AllocFails, device

LEMMA IntrEdgeInd == ASSUME IndInv, IntrStart \/ IntrEnd PROVE IndInv'
<1>1. pc' = pc
  BY Zenon DEF IntrStart, IntrEnd, driver
<1>2. pc' \in [Proc -> {"idle", "alloc", "nodesc", "issued", "woken"}] /\ InFlight' = InFlight
  BY Zenon, <1>1 DEF IndInv, Types, InFlight
<1> QED BY Zenon, <1>2, QuietInd DEF IntrStart, IntrEnd, driver, device

-----------------------------------------------------------------------------
\* virtio_disk_rw() issues a request.

LEMMA IssueInd == ASSUME IndInv, NEW p \in Proc, Issue(p) PROVE IndInv'
<1>1. PICK i, j, k :
        /\ i = Lowest(free) /\ j = Lowest(free \ {i}) /\ k = Lowest(free \ {i, j})
        /\ free' = free \ {i, j, k}
        /\ next' = [next EXCEPT ![i] = j, ![j] = k, ![k] = k]
        /\ addr' = [addr EXCEPT ![j] = p]
        /\ info' = [info EXCEPT ![i] = p]
        /\ avail' = [avail EXCEPT ![avail_idx % NUM] = i]
        /\ head' = [head EXCEPT ![p] = i]
  BY Zenon DEF Issue
<1>2. /\ pc[p] = "alloc" /\ Cardinality(free) >= 3
      /\ avail_idx' = (avail_idx + 1) % IdxMod
      /\ bdisk' = [bdisk EXCEPT ![p] = TRUE]
      /\ served' = [served EXCEPT ![p] = FALSE]
      /\ pc' = [pc EXCEPT ![p] = "issued"]
      /\ used' = used /\ used_dev' = used_dev /\ dev_idx' = dev_idx /\ active' = active
      /\ used_idx' = used_idx
  BY Zenon DEF Issue, device
<1>3. Types /\ Owned /\ Apart /\ Counted /\ Rings /\ Places /\ Served
  BY Zenon DEF IndInv
<1>4. /\ i \in free /\ j \in free /\ k \in free /\ i # j /\ i # k /\ j # k
      /\ Cardinality(free \ {i, j, k}) = Cardinality(free) - 3
  <2>1. free \subseteq Desc
    BY Zenon, <1>3 DEF Types
  <2>2. \A a, b, c : a = Lowest(free) /\ b = Lowest(free \ {a}) /\ c = Lowest(free \ {a, b}) =>
          /\ a \in free /\ b \in free /\ c \in free /\ a # b /\ a # c /\ b # c
          /\ Cardinality(free \ {a, b, c}) = Cardinality(free) - 3
    BY Zenon, <1>2, <2>1, ThreeOf
  <2> QED BY Zenon, <1>1, <2>2
<1>5. i \in Desc /\ j \in Desc /\ k \in Desc
  BY Zenon, <1>3, <1>4 DEF Types
<1>6. p \notin InFlight /\ InFlight' = InFlight \cup {p}
  BY <1>2, <1>3 DEF Types, InFlight
<1>7. avail_idx % NUM \in Desc
  BY <1>3, SlotIn DEF Types
<1>8. Types'
  <2>1. (avail_idx + 1) % IdxMod \in 0 .. IdxMod - 1
    BY <1>3, Consts DEF Types
  <2> QED BY Zenon, <1>1, <1>2, <1>3, <1>5, <2>1 DEF Types
\* The chains of the requests in flight do not meet the three descriptors.
<1>9. ASSUME NEW q \in InFlight
      PROVE  /\ q # p /\ q \in Proc /\ head'[q] = head[q]
             /\ head[q] \in Desc \ {i, j, k} /\ next[head[q]] \in Desc \ {i, j, k}
             /\ next[next[head[q]]] \in Desc \ {i, j, k}
             /\ next'[head[q]] = next[head[q]]
             /\ next'[next[head[q]]] = next[next[head[q]]]
             /\ Chain(head[q])' = Chain(head[q])
  <2>1. q # p /\ q \in Proc
    BY Zenon, <1>6 DEF InFlight
  <2>2. head'[q] = head[q]
    BY <1>1, <1>3, <2>1 DEF Types
  <2>3. head[q] \in Desc /\ next[head[q]] \in Desc /\ next[next[head[q]]] \in Desc
    BY <1>3 DEF Owned, Types
  <2>4. head[q] \notin free /\ next[head[q]] \notin free /\ next[next[head[q]]] \notin free
    BY Zenon, <1>3 DEF Owned, Chain
  <2>5. /\ head[q] \notin {i, j, k} /\ next[head[q]] \notin {i, j, k}
        /\ next[next[head[q]]] \notin {i, j, k}
    BY Zenon, <1>4, <2>4
  <2>6. \A d \in Desc \ {i, j, k} : next'[d] = next[d]
    BY Zenon, <1>1, <1>3 DEF Types
  <2>7. Chain(head[q])' = Chain(head[q])
    BY Zenon, <2>2, <2>3, <2>5, <2>6 DEF Chain
  <2> QED BY Zenon, <2>1, <2>2, <2>3, <2>5, <2>6, <2>7
<1>10. /\ head'[p] = i /\ next'[i] = j /\ next'[j] = k
       /\ Chain(head[p])' = {i, j, k}
  <2>1. head'[p] = i /\ next'[i] = j /\ next'[j] = k
    BY <1>1, <1>3, <1>4, <1>5 DEF Types
  <2> QED BY Zenon, <2>1 DEF Chain
<1>11. Owned'
  <2> SUFFICES ASSUME NEW q \in InFlight'
               PROVE  /\ head'[q] \in Desc /\ info'[head'[q]] = q /\ addr'[next'[head'[q]]] = q
                      /\ head'[q] # next'[head'[q]] /\ head'[q] # next'[next'[head'[q]]]
                      /\ next'[head'[q]] # next'[next'[head'[q]]]
                      /\ Chain(head[q])' \cap free' = {}
    BY Zenon DEF Owned
  <2>1. CASE q = p
    <3>1. info'[i] = p /\ addr'[j] = p
      BY <1>1, <1>3, <1>5 DEF Types
    <3> QED BY Zenon, <2>1, <1>1, <1>4, <1>5, <1>10, <3>1
  <2>2. CASE q \in InFlight
    <3>1. info'[head[q]] = info[head[q]] /\ addr'[next[head[q]]] = addr[next[head[q]]]
      BY Zenon, <1>1, <1>3, <1>9, <2>2 DEF Types
    <3>2. Chain(head[q]) \cap free' = {}
      BY Zenon, <1>1, <1>3, <2>2 DEF Owned
    <3>3. /\ info[head[q]] = q /\ addr[next[head[q]]] = q
          /\ head[q] # next[head[q]] /\ head[q] # next[next[head[q]]]
          /\ next[head[q]] # next[next[head[q]]]
      BY Zenon, <1>3, <2>2 DEF Owned
    <3> QED BY Zenon, <1>9, <2>2, <3>1, <3>2, <3>3
  <2> QED BY Zenon, <1>6, <2>1, <2>2
<1>12. Apart'
  <2>1. ASSUME NEW q \in InFlight PROVE Chain(head[q])' \cap {i, j, k} = {}
    <3>1. Chain(head[q])' = {head[q], next[head[q]], next[next[head[q]]]}
      BY Zenon, <1>9 DEF Chain
    <3> QED BY ZenonT(30), <1>9, <3>1
  <2>2. ASSUME NEW q \in InFlight, NEW t \in InFlight, q # t
        PROVE  Chain(head[q])' \cap Chain(head[t])' = {}
    BY Zenon, <1>3, <1>9, <2>2 DEF Apart
  <2>3. ASSUME NEW q \in InFlight', NEW t \in InFlight', q # t
        PROVE  Chain(head[q])' \cap Chain(head[t])' = {}
    BY Zenon, <1>6, <1>10, <2>1, <2>2, <2>3
  <2> QED BY Zenon, <2>3 DEF Apart
<1>13. Counted'
  <2>1. IsFiniteSet(InFlight) /\ Cardinality(InFlight) \in Nat
    BY Zenon, <1>3, FS_CardinalityType DEF Counted
  <2>2. IsFiniteSet(InFlight \cup {p}) /\ Cardinality(InFlight \cup {p}) = Cardinality(InFlight) + 1
    BY Zenon, <1>6, <2>1, FS_AddElement
  <2>3. IsFiniteSet(InFlight') /\ Cardinality(InFlight') = Cardinality(InFlight) + 1
    BY Zenon, <1>6, <2>2
  <2>4. Cardinality(free') = Cardinality(free) - 3
    BY Zenon, <1>1, <1>4
  <2>5. Cardinality(free) = NUM - 3 * Cardinality(InFlight)
    BY Zenon, <1>3 DEF Counted
  <2>6. Cardinality(free') = NUM - 3 * Cardinality(InFlight')
    BY <2>1, <2>3, <2>4, <2>5, Consts
  <2> QED BY Zenon, <2>3, <2>6 DEF Counted
<1>14. i \notin Pending
  BY Zenon, <1>3, <1>4, PendingHeads
<1>15. \A d \in Desc : avail[d] # i /\ used[d] # i
  <2> SUFFICES ASSUME NEW d \in Desc PROVE avail[d] # i /\ used[d] # i
    BY Zenon
  <2>1. used[d] # None => used[d] \in Pending
    BY Zenon, <1>3 DEF Places
  <2>2. avail[d] # None => avail[d] \in Pending
    BY Zenon, <1>3 DEF Places
  <2>3. i # None
    BY Zenon, <1>5, Consts
  <2> QED BY <1>14, <2>1, <2>2, <2>3
<1>16. Rings'
  <2>1. PICK n \in 0 .. NUM : Window(avail, dev_idx, avail_idx, n)
    BY Zenon, <1>3 DEF Rings
  <2>2. n \in 0 .. NUM - 1
    <3>1. avail \in [Desc -> Desc \cup {None}] /\ dev_idx \in 0 .. IdxMod - 1
      BY Zenon, <1>3 DEF Types
    <3>2. \A x, y \in Desc : avail[x] # None /\ avail[x] = avail[y] => x = y
      BY Zenon, <1>3 DEF Places
    <3> QED BY <1>5, <1>15, <2>1, <3>1, <3>2, WindowRoom
  <2>3. Window(avail', dev_idx, avail_idx', n + 1)
    <3>1. avail \in [Desc -> Desc \cup {None}] /\ dev_idx \in 0 .. IdxMod - 1
      BY Zenon, <1>3 DEF Types
    <3>2. Window([avail EXCEPT ![avail_idx % NUM] = i], dev_idx, (avail_idx + 1) % IdxMod, n + 1)
      BY Zenon, <1>5, <2>1, <2>2, <3>1, WindowPut
    <3> QED BY Zenon, <1>1, <1>2, <3>2
  <2>4. n + 1 \in 0 .. NUM
    BY <2>2, Consts
  <2>5. \E m \in 0 .. NUM : Window(avail', dev_idx', avail_idx', m)
    BY Zenon, <1>2, <2>3, <2>4
  <2> QED BY Zenon, <1>2, <1>3, <2>5 DEF Rings
<1>17. Pending' = Pending \cup {i}
  <2>1. \A q \in InFlight : bdisk'[q] = bdisk[q]
    BY Zenon, <1>2, <1>3, <1>9 DEF Types
  <2>2. bdisk'[p] = TRUE
    BY <1>2, <1>3 DEF Types
  <2>3. ASSUME NEW h \in Pending' PROVE h \in Pending \cup {i}
    <3>1. PICK q \in InFlight' : bdisk'[q] /\ h = head'[q]
      BY Zenon DEF Pending
    <3> QED BY Zenon, <1>6, <1>9, <1>10, <2>1, <3>1 DEF Pending
  <2>4. ASSUME NEW h \in Pending PROVE h \in Pending'
    <3>1. PICK q \in InFlight : bdisk[q] /\ h = head[q]
      BY Zenon DEF Pending
    <3> QED BY Zenon, <1>6, <1>9, <2>1, <3>1 DEF Pending
  <2>5. i \in Pending'
    BY Zenon, <1>6, <1>10, <2>2 DEF Pending
  <2> QED BY Zenon, <2>3, <2>4, <2>5
<1>18. Places'
  <2>1. \A d \in Desc : avail'[d] = IF d = avail_idx % NUM THEN i ELSE avail[d]
    BY <1>1, <1>3, <1>7 DEF Types
  <2>2. i \notin active
    BY Zenon, <1>3, <1>14 DEF Places
  <2>3. \A d \in Desc : avail'[d] # None => avail'[d] \in Pending' /\ avail'[d] \notin active'
    BY Zenon, <1>2, <1>3, <1>17, <2>1, <2>2 DEF Places
  <2>4. \A d \in Desc : used'[d] # None => used'[d] \in Pending' /\ used'[d] \notin active'
    BY Zenon, <1>2, <1>3, <1>17 DEF Places
  <2>5. active' \subseteq Pending'
    BY Zenon, <1>2, <1>3, <1>17 DEF Places
  <2>6. \A d, e \in Desc : avail'[d] # None /\ avail'[d] = avail'[e] => d = e
    BY Zenon, <1>3, <1>15, <2>1 DEF Places
  <2>7. \A d, e \in Desc : used'[d] # None /\ used'[d] = used'[e] => d = e
    BY Zenon, <1>2, <1>3 DEF Places
  <2>8. \A d, e \in Desc : avail'[d] # None => avail'[d] # used'[e]
    BY Zenon, <1>2, <1>3, <1>15, <2>1 DEF Places
  <2> QED BY Zenon, <2>3, <2>4, <2>5, <2>6, <2>7, <2>8 DEF Places
<1>19. Served'
  <2>1. bdisk'[p] = TRUE
    BY <1>2, <1>3 DEF Types
  <2>2. \A q \in InFlight : bdisk'[q] = bdisk[q] /\ served'[q] = served[q]
    BY Zenon, <1>2, <1>3, <1>9 DEF Types
  <2>3. ASSUME NEW q \in InFlight' PROVE ~bdisk'[q] => served'[q]
    BY Zenon, <1>3, <1>6, <2>1, <2>2 DEF Served
  <2>4. ASSUME NEW q \in InFlight', NEW d \in Desc, used'[d] = head'[q] PROVE served'[q]
    <3>1. q \in InFlight
      BY Zenon, <1>2, <1>6, <1>10, <1>15, <2>4
    <3>2. used[d] = head[q]
      BY Zenon, <1>2, <1>9, <2>4, <3>1
    <3> QED BY Zenon, <1>3, <2>2, <3>1, <3>2 DEF Served
  <2> QED BY Zenon, <2>3, <2>4 DEF Served
<1> QED BY Zenon, <1>8, <1>11, <1>12, <1>13, <1>16, <1>18, <1>19 DEF IndInv

-----------------------------------------------------------------------------
\* virtio_disk_rw() frees the chain of a finished request.

LEMMA FinishInd == ASSUME IndInv, NEW p \in Proc, Finish(p) PROVE IndInv'
<1> DEFINE C == Chain(head[p])
           a == head[p]
           b == next[a]
           c == next[b]
<1>1. /\ pc[p] = "woken" /\ ~bdisk[p]
      /\ free' = free \cup C
      /\ next' = [i \in Desc |-> IF i \in C THEN i ELSE next[i]]
      /\ addr' = [i \in Desc |-> IF i \in C THEN None ELSE addr[i]]
      /\ info' = [info EXCEPT ![a] = None]
      /\ head' = [head EXCEPT ![p] = None]
      /\ pc' = [q \in Proc |-> IF q = p THEN "idle"
                               ELSE IF pc[q] = "nodesc" THEN "alloc" ELSE pc[q]]
      /\ avail' = avail /\ avail_idx' = avail_idx /\ bdisk' = bdisk /\ served' = served
      /\ used' = used /\ used_dev' = used_dev /\ dev_idx' = dev_idx /\ active' = active
      /\ used_idx' = used_idx
  BY Zenon DEF Finish, Wake, device
<1>2. Types /\ Owned /\ Apart /\ Counted /\ Rings /\ Places /\ Served
  BY Zenon DEF IndInv
<1>3. p \in InFlight /\ InFlight' = InFlight \ {p}
  BY <1>1, <1>2 DEF Types, InFlight
<1>4. /\ C = {a, b, c} /\ a # b /\ a # c /\ b # c
      /\ {a, b, c} \cap free = {} /\ a \in Desc
  BY Zenon, <1>2, <1>3 DEF Owned, Chain
<1>5. b \in Desc /\ c \in Desc /\ C \subseteq Desc
  <2>1. b \in Desc /\ c \in Desc
    BY Zenon, <1>2, <1>4 DEF Types
  <2> QED BY Zenon, <1>4, <2>1
<1>6. ASSUME NEW q \in InFlight'
      PROVE  /\ q # p /\ q \in Proc /\ q \in InFlight /\ head'[q] = head[q]
             /\ head[q] \in Desc \ C /\ next[head[q]] \in Desc \ C
             /\ next[next[head[q]]] \in Desc \ C
             /\ next'[head[q]] = next[head[q]]
             /\ next'[next[head[q]]] = next[next[head[q]]]
             /\ Chain(head[q])' = Chain(head[q])
  <2>1. q # p /\ q \in InFlight /\ q \in Proc
    BY Zenon, <1>3 DEF InFlight
  <2>2. head'[q] = head[q]
    BY Zenon, <1>1, <1>2, <2>1 DEF Types
  <2>3. head[q] \in Desc /\ next[head[q]] \in Desc /\ next[next[head[q]]] \in Desc
    BY Zenon, <1>2, <2>1 DEF Owned, Types
  <2>4. Chain(head[q]) \cap C = {}
    BY Zenon, <1>2, <1>3, <2>1 DEF Apart
  <2>5. head[q] \notin C /\ next[head[q]] \notin C /\ next[next[head[q]]] \notin C
    <3> HIDE DEF C
    <3> QED BY Zenon, <2>4 DEF Chain
  <2>6. \A d \in Desc \ C : next'[d] = next[d]
    <3> HIDE DEF C
    <3> QED BY Zenon, <1>1
  <2>7. Chain(head[q])' = Chain(head[q])
    <3> HIDE DEF C
    <3> QED BY Zenon, <2>2, <2>3, <2>5, <2>6 DEF Chain
  <2> HIDE DEF C
  <2> QED BY Zenon, <2>1, <2>2, <2>3, <2>5, <2>6, <2>7
<1>7. Types'
  <2>1. next' \in [Desc -> Desc] /\ addr' \in [Desc -> Proc \cup {None}]
    <3> HIDE DEF C
    <3> QED BY <1>1, <1>2 DEF Types
  <2>2. pc' \in [Proc -> {"idle", "alloc", "nodesc", "issued", "woken"}]
    BY <1>1, <1>2 DEF Types
  <2>3. info' \in [Desc -> Proc \cup {None}] /\ head' \in [Proc -> Desc \cup {None}]
    <3> HIDE DEF a
    <3> QED BY Zenon, <1>1, <1>2 DEF Types
  <2>4. free' \in SUBSET Desc
    <3> HIDE DEF C
    <3> QED BY Zenon, <1>1, <1>2, <1>5 DEF Types
  <2> QED BY Zenon, <1>1, <1>2, <2>1, <2>2, <2>3, <2>4 DEF Types
<1> HIDE DEF C, a, b, c
<1>8. Owned'
  <2> SUFFICES ASSUME NEW q \in InFlight'
               PROVE  /\ head'[q] \in Desc /\ info'[head'[q]] = q /\ addr'[next'[head'[q]]] = q
                      /\ head'[q] # next'[head'[q]] /\ head'[q] # next'[next'[head'[q]]]
                      /\ next'[head'[q]] # next'[next'[head'[q]]]
                      /\ Chain(head[q])' \cap free' = {}
    BY Zenon DEF Owned
  <2>1. addr'[next[head[q]]] = addr[next[head[q]]]
    BY Zenon, <1>1, <1>6
  <2>2. head[q] # a
    BY Zenon, <1>4, <1>6
  <2>3. info'[head[q]] = info[head[q]]
    BY <1>1, <1>2, <1>6, <2>2 DEF Types
  <2>4. Chain(head[q]) \cap free' = {}
    <3>1. Chain(head[q]) \cap free = {}
      BY Zenon, <1>2, <1>6 DEF Owned
    <3>2. Chain(head[q]) \cap C = {}
      BY Zenon, <1>6 DEF Chain
    <3> QED BY Zenon, <1>1, <3>1, <3>2
  <2>5. /\ info[head[q]] = q /\ addr[next[head[q]]] = q
        /\ head[q] # next[head[q]] /\ head[q] # next[next[head[q]]]
        /\ next[head[q]] # next[next[head[q]]]
    BY Zenon, <1>2, <1>6 DEF Owned
  <2> QED BY Zenon, <1>6, <2>1, <2>3, <2>4, <2>5
<1>9. Apart'
  <2>1. ASSUME NEW q \in InFlight', NEW t \in InFlight', q # t
        PROVE  Chain(head[q])' \cap Chain(head[t])' = {}
    <3>1. /\ q \in InFlight /\ Chain(head[q])' = Chain(head[q])
          /\ t \in InFlight /\ Chain(head[t])' = Chain(head[t])
      BY Zenon, <1>6
    <3>2. Chain(head[q]) \cap Chain(head[t]) = {}
      BY Zenon, <1>2, <2>1, <3>1 DEF Apart
    <3> QED BY Zenon, <3>1, <3>2
  <2> QED BY Zenon, <2>1 DEF Apart
<1>10. Counted'
  <2>1. IsFiniteSet(InFlight) /\ Cardinality(InFlight) \in Nat
    BY Zenon, <1>2, FS_CardinalityType DEF Counted
  <2>2. /\ IsFiniteSet(InFlight \ {p})
        /\ Cardinality(InFlight \ {p}) = Cardinality(InFlight) - 1
    BY Zenon, <1>3, <2>1, FS_RemoveElement
  <2>3. IsFiniteSet(InFlight') /\ Cardinality(InFlight') = Cardinality(InFlight) - 1
    BY Zenon, <1>3, <2>2
  <2>4. Cardinality(free') = Cardinality(free) + 3
    <3>1. IsFiniteSet(free)
      BY Zenon, <1>2, DescFinite, FS_Subset DEF Types
    <3>2. Cardinality(free \cup {a, b, c}) = Cardinality(free) + 3
      BY Zenon, <1>4, <3>1, ThreeMore
    <3> QED BY Zenon, <1>1, <1>4, <3>2
  <2>5. Cardinality(free) = NUM - 3 * Cardinality(InFlight)
    BY Zenon, <1>2 DEF Counted
  <2>6. Cardinality(free') = NUM - 3 * Cardinality(InFlight')
    BY <2>1, <2>3, <2>4, <2>5, Consts
  <2> QED BY Zenon, <2>3, <2>6 DEF Counted
<1>11. Rings'
  BY Zenon, <1>1, <1>2 DEF Rings
<1>12. Pending' = Pending
  <2>1. ASSUME NEW h \in Pending' PROVE h \in Pending
    <3>1. PICK q \in InFlight' : bdisk'[q] /\ h = head'[q]
      BY Zenon DEF Pending
    <3> QED BY Zenon, <1>1, <1>6, <3>1 DEF Pending
  <2>2. ASSUME NEW h \in Pending PROVE h \in Pending'
    <3>1. PICK q \in InFlight : bdisk[q] /\ h = head[q]
      BY Zenon DEF Pending
    <3>2. q \in InFlight'
      BY Zenon, <1>1, <1>3, <3>1
    <3> QED BY Zenon, <1>1, <1>6, <3>1, <3>2 DEF Pending
  <2> QED BY Zenon, <2>1, <2>2
<1>13. Places'
  BY Zenon, <1>1, <1>2, <1>12 DEF Places
<1>14. Served'
  <2>1. ASSUME NEW q \in InFlight' PROVE ~bdisk'[q] => served'[q]
    BY Zenon, <1>1, <1>2, <1>6 DEF Served
  <2>2. ASSUME NEW q \in InFlight', NEW d \in Desc, used'[d] = head'[q] PROVE served'[q]
    <3>1. q \in InFlight /\ used[d] = head[q]
      BY Zenon, <1>1, <1>6, <2>2
    <3> QED BY Zenon, <1>1, <1>2, <3>1 DEF Served
  <2> QED BY Zenon, <2>1, <2>2 DEF Served
<1> QED BY Zenon, <1>7, <1>8, <1>9, <1>10, <1>11, <1>13, <1>14 DEF IndInv

-----------------------------------------------------------------------------
\* virtio_disk_intr() takes an entry from the used ring.

LEMMA IntrEntryInd == ASSUME IndInv, IntrEntry PROVE IndInv'
<1> DEFINE s == used_idx % NUM
           h == used[s]
<1>1. Types /\ Owned /\ Apart /\ Counted /\ Rings /\ Places /\ Served
  BY Zenon DEF IndInv
<1>2. PICK n \in 0 .. NUM : Window(used, used_idx, used_dev, n)
  BY Zenon, <1>1 DEF Rings
<1>3. /\ n - 1 \in 0 .. NUM /\ s \in Desc /\ h # None
      /\ Window([used EXCEPT ![s] = None], (used_idx + 1) % IdxMod, used_dev, n - 1)
  <2>1. used \in [Desc -> Desc \cup {None}] /\ used_idx \in 0 .. IdxMod - 1
    BY Zenon, <1>1 DEF Types
  <2>2. used_idx # used_dev
    BY Zenon DEF IntrEntry
  <2> QED BY Zenon, <1>2, <2>1, <2>2, WindowGet
<1>4. PICK p \in InFlight : bdisk[p] /\ head[p] = h
  <2>1. h \in Pending
    BY Zenon, <1>1, <1>3 DEF Places
  <2> QED BY Zenon, <2>1 DEF Pending
<1>5. p \in Proc /\ info[h] = p
  BY Zenon, <1>1, <1>4 DEF Owned, InFlight
<1>6. /\ bdisk' = [bdisk EXCEPT ![p] = FALSE]
      /\ pc' = [pc EXCEPT ![p] = IF @ = "issued" THEN "woken" ELSE @]
      /\ used_idx' = (used_idx + 1) % IdxMod
      /\ used' = [used EXCEPT ![s] = None]
  BY Zenon, <1>5 DEF IntrEntry
<1>7. /\ free' = free /\ next' = next /\ addr' = addr /\ info' = info /\ avail' = avail
      /\ avail_idx' = avail_idx /\ head' = head /\ used_dev' = used_dev /\ dev_idx' = dev_idx
      /\ active' = active /\ served' = served
  BY Zenon DEF IntrEntry
<1> HIDE DEF s, h
<1>8. pc' \in [Proc -> {"idle", "alloc", "nodesc", "issued", "woken"}] /\ InFlight' = InFlight
  BY <1>1, <1>5, <1>6 DEF Types, InFlight
<1>9. Types'
  <2>1. (used_idx + 1) % IdxMod \in 0 .. IdxMod - 1
    BY <1>1, Consts DEF Types
  <2>2. used' \in [Desc -> Desc \cup {None}] /\ bdisk' \in [Proc -> BOOLEAN]
    BY Zenon, <1>1, <1>6 DEF Types
  <2> QED BY Zenon, <1>1, <1>6, <1>7, <1>8, <2>1, <2>2 DEF Types
<1>10. Owned' /\ Apart' /\ Counted'
  BY <1>1, <1>7, <1>8, ChainsKept
<1>11. Rings'
  BY Zenon, <1>1, <1>3, <1>6, <1>7 DEF Rings
<1>12. Pending' = Pending \ {h}
  <2>1. \A q \in InFlight : bdisk'[q] <=> bdisk[q] /\ q # p
    BY Zenon, <1>1, <1>6 DEF Types, InFlight
  <2>2. ASSUME NEW q \in InFlight, q # p PROVE head[q] # h
    BY Zenon, <1>1, <1>4, <2>2, HeadsDiffer
  <2>3. ASSUME NEW x \in Pending' PROVE x \in Pending /\ x # h
    <3>1. PICK q \in InFlight : bdisk'[q] /\ x = head[q]
      BY Zenon, <1>7, <1>8 DEF Pending
    <3> QED BY Zenon, <2>1, <2>2, <3>1 DEF Pending
  <2>4. ASSUME NEW x \in Pending, x # h PROVE x \in Pending'
    <3>1. PICK q \in InFlight : bdisk[q] /\ x = head[q]
      BY Zenon DEF Pending
    <3>2. bdisk'[q]
      BY Zenon, <1>4, <2>1, <2>4, <3>1
    <3> QED BY Zenon, <1>7, <1>8, <3>1, <3>2 DEF Pending
  <2> QED BY Zenon, <2>3, <2>4
<1>13. \A d \in Desc : used'[d] = IF d = s THEN None ELSE used[d]
  BY Zenon, <1>1, <1>3, <1>6 DEF Types
<1>14. used[s] = h
  BY DEF h
<1>15. Places'
  <2>1. \A d \in Desc : avail'[d] # None => avail'[d] \in Pending' /\ avail'[d] \notin active'
    BY Zenon, <1>1, <1>3, <1>7, <1>12, <1>14 DEF Places
  <2>2. ASSUME NEW d \in Desc, used'[d] # None PROVE used'[d] \in Pending' /\ used'[d] \notin active'
    <3>1. d # s /\ used'[d] = used[d] /\ used[d] # None
      BY Zenon, <1>13, <2>2
    <3>2. used[d] # h
      BY Zenon, <1>1, <1>3, <1>14, <3>1 DEF Places
    <3> QED BY Zenon, <1>1, <1>7, <1>12, <3>1, <3>2 DEF Places
  <2>3. active' \subseteq Pending'
    <3>1. h \notin active /\ active \subseteq Pending
      BY Zenon, <1>1, <1>3, <1>14 DEF Places
    <3> QED BY Zenon, <1>7, <1>12, <3>1
  <2>4. \A d, e \in Desc : avail'[d] # None /\ avail'[d] = avail'[e] => d = e
    BY Zenon, <1>1, <1>7 DEF Places
  <2>5. \A d, e \in Desc : used'[d] # None /\ used'[d] = used'[e] => d = e
    BY Zenon, <1>1, <1>13 DEF Places
  <2>6. \A d, e \in Desc : avail'[d] # None => avail'[d] # used'[e]
    <3> SUFFICES ASSUME NEW d \in Desc, NEW e \in Desc, avail[d] # None PROVE avail[d] # used'[e]
      BY Zenon, <1>7
    <3>1. avail[d] # used[e]
      BY Zenon, <1>1 DEF Places
    <3> QED BY Zenon, <1>13, <3>1
  <2> QED BY Zenon, <2>1, <2>2, <2>3, <2>4, <2>5, <2>6 DEF Places
<1>16. Served'
  <2>1. served[p]
    BY Zenon, <1>1, <1>3, <1>4, <1>14 DEF Served
  <2>2. ASSUME NEW q \in InFlight', ~bdisk'[q] PROVE served'[q]
    <3>1. q = p \/ ~bdisk[q]
      BY Zenon, <1>1, <1>6, <1>8, <2>2 DEF Types, InFlight
    <3> QED BY Zenon, <1>1, <1>7, <1>8, <2>1, <3>1 DEF Served
  <2>3. ASSUME NEW q \in InFlight', NEW d \in Desc, used'[d] = head'[q] PROVE served'[q]
    <3>1. head[q] # None
      BY Zenon, <1>1, <1>8, Consts DEF Owned
    <3>2. used[d] = head[q]
      BY Zenon, <1>7, <1>13, <2>3, <3>1
    <3> QED BY Zenon, <1>1, <1>7, <1>8, <3>2 DEF Served
  <2> QED BY Zenon, <2>2, <2>3 DEF Served
<1> QED BY Zenon, <1>9, <1>10, <1>11, <1>15, <1>16 DEF IndInv

-----------------------------------------------------------------------------
\* The device takes a request and completes it.

LEMMA DeviceTakeInd == ASSUME IndInv, DeviceTake PROVE IndInv'
<1> DEFINE s == dev_idx % NUM
           h == avail[s]
<1>1. Types /\ Owned /\ Apart /\ Counted /\ Rings /\ Places /\ Served
  BY Zenon DEF IndInv
<1>2. PICK n \in 0 .. NUM : Window(avail, dev_idx, avail_idx, n)
  BY Zenon, <1>1 DEF Rings
<1>3. /\ n - 1 \in 0 .. NUM /\ s \in Desc /\ h # None
      /\ Window([avail EXCEPT ![s] = None], (dev_idx + 1) % IdxMod, avail_idx, n - 1)
  <2>1. avail \in [Desc -> Desc \cup {None}] /\ dev_idx \in 0 .. IdxMod - 1
    BY Zenon, <1>1 DEF Types
  <2>2. dev_idx # avail_idx
    BY Zenon DEF DeviceTake
  <2> QED BY Zenon, <1>2, <2>1, <2>2, WindowGet
<1>4. /\ active' = active \cup {h}
      /\ avail' = [avail EXCEPT ![s] = None]
      /\ dev_idx' = (dev_idx + 1) % IdxMod
      /\ free' = free /\ next' = next /\ addr' = addr /\ info' = info /\ avail_idx' = avail_idx
      /\ pc' = pc /\ bdisk' = bdisk /\ head' = head /\ used' = used /\ used_dev' = used_dev
      /\ used_idx' = used_idx /\ served' = served
  BY Zenon DEF DeviceTake
<1>5. avail[s] = h
  OBVIOUS
<1> HIDE DEF s, h
<1>6. InFlight' = InFlight /\ Pending' = Pending
  BY Zenon, <1>4 DEF InFlight, Pending
<1>7. Types'
  <2>1. (dev_idx + 1) % IdxMod \in 0 .. IdxMod - 1
    BY <1>1, Consts DEF Types
  <2>2. avail' \in [Desc -> Desc \cup {None}]
    BY Zenon, <1>1, <1>4 DEF Types
  <2>3. h \in Desc
    BY Zenon, <1>1, <1>3, <1>5 DEF Types
  <2> QED BY ZenonT(30), <1>1, <1>4, <2>1, <2>2, <2>3 DEF Types
<1>8. Owned' /\ Apart' /\ Counted'
  BY <1>1, <1>4, <1>6, ChainsKept
<1>9. Rings'
  BY Zenon, <1>1, <1>3, <1>4 DEF Rings
<1>10. \A d \in Desc : avail'[d] = IF d = s THEN None ELSE avail[d]
  BY Zenon, <1>1, <1>3, <1>4 DEF Types
<1>11. Places'
  <2>1. ASSUME NEW d \in Desc, avail'[d] # None
        PROVE  avail'[d] \in Pending' /\ avail'[d] \notin active'
    <3>1. d # s /\ avail'[d] = avail[d] /\ avail[d] # None
      BY Zenon, <1>10, <2>1
    <3>2. avail[d] # h
      BY Zenon, <1>1, <1>3, <1>5, <3>1 DEF Places
    <3>3. avail[d] \in Pending /\ avail[d] \notin active
      BY Zenon, <1>1, <3>1 DEF Places
    <3>4. active' = active \cup {h}
      BY Zenon, <1>4
    <3> QED BY Zenon, <1>6, <3>1, <3>2, <3>3, <3>4
  <2>2. ASSUME NEW d \in Desc, used'[d] # None
        PROVE  used'[d] \in Pending' /\ used'[d] \notin active'
    BY Zenon, <1>1, <1>3, <1>4, <1>5, <1>6, <2>2 DEF Places
  <2>3. active' \subseteq Pending'
    <3>1. h \in Pending /\ active \subseteq Pending
      BY Zenon, <1>1, <1>3, <1>5 DEF Places
    <3> QED BY Zenon, <1>4, <1>6, <3>1
  <2>4. \A d, e \in Desc : avail'[d] # None /\ avail'[d] = avail'[e] => d = e
    BY Zenon, <1>1, <1>10 DEF Places
  <2>5. \A d, e \in Desc : used'[d] # None /\ used'[d] = used'[e] => d = e
    BY Zenon, <1>1, <1>4 DEF Places
  <2>6. \A d, e \in Desc : avail'[d] # None => avail'[d] # used'[e]
    <3> SUFFICES ASSUME NEW d \in Desc, NEW e \in Desc, avail'[d] # None
                 PROVE  avail'[d] # used[e]
      BY Zenon, <1>4
    <3>1. avail'[d] = avail[d] /\ avail[d] # None
      BY Zenon, <1>10
    <3> QED BY Zenon, <1>1, <3>1 DEF Places
  <2> QED BY Zenon, <2>1, <2>2, <2>3, <2>4, <2>5, <2>6 DEF Places
<1>12. Served'
  BY Zenon, <1>1, <1>4, <1>6 DEF Served
<1> QED BY Zenon, <1>7, <1>8, <1>9, <1>11, <1>12 DEF IndInv

LEMMA DeviceDoneInd == ASSUME IndInv, NEW h \in Desc, DeviceDone(h) PROVE IndInv'
<1> DEFINE s == used_dev % NUM
<1>1. Types /\ Owned /\ Apart /\ Counted /\ Rings /\ Places /\ Served
  BY Zenon DEF IndInv
<1>2. /\ h \in active /\ active' = active \ {h}
      /\ served' = [x \in Proc |-> served[x] \/ x = addr[next[h]]]
      /\ used' = [used EXCEPT ![s] = h]
      /\ used_dev' = (used_dev + 1) % IdxMod
  BY Zenon DEF DeviceDone
<1>3. /\ free' = free /\ next' = next /\ addr' = addr /\ info' = info /\ avail' = avail
      /\ avail_idx' = avail_idx /\ pc' = pc /\ bdisk' = bdisk /\ head' = head
      /\ used_idx' = used_idx /\ dev_idx' = dev_idx
  BY Zenon DEF DeviceDone, driver
<1>4. s \in Desc
  BY <1>1, SlotIn DEF Types
<1> HIDE DEF s
<1>5. h \in Pending /\ \A d \in Desc : used[d] # h /\ avail[d] # h
  <2>1. h \in Pending
    BY Zenon, <1>1, <1>2 DEF Places
  <2>2. h # None
    BY Zenon, Consts
  <2>3. ASSUME NEW d \in Desc PROVE used[d] # h /\ avail[d] # h
    <3>1. used[d] # None => used[d] \notin active
      BY Zenon, <1>1 DEF Places
    <3>2. avail[d] # None => avail[d] \notin active
      BY Zenon, <1>1 DEF Places
    <3> QED BY <1>2, <2>2, <3>1, <3>2
  <2> QED BY Zenon, <2>1, <2>3
<1>6. PICK p \in InFlight : bdisk[p] /\ head[p] = h
  BY Zenon, <1>5 DEF Pending
<1>7. p \in Proc /\ addr[next[h]] = p
  BY Zenon, <1>1, <1>6 DEF Owned, InFlight
<1>8. InFlight' = InFlight /\ Pending' = Pending
  BY Zenon, <1>3 DEF InFlight, Pending
<1>9. Types'
  <2>1. (used_dev + 1) % IdxMod \in 0 .. IdxMod - 1
    BY <1>1, Consts DEF Types
  <2>2. used' \in [Desc -> Desc \cup {None}] /\ served' \in [Proc -> BOOLEAN]
    BY Zenon, <1>1, <1>2 DEF Types
  <2>3. active' \in SUBSET Desc
    BY Zenon, <1>1, <1>2 DEF Types
  <2> QED BY Zenon, <1>1, <1>2, <1>3, <2>1, <2>2, <2>3 DEF Types
<1>10. Owned' /\ Apart' /\ Counted'
  BY <1>1, <1>3, <1>8, ChainsKept
<1>11. Rings'
  <2>1. PICK n \in 0 .. NUM : Window(used, used_idx, used_dev, n)
    BY Zenon, <1>1 DEF Rings
  <2>2. used \in [Desc -> Desc \cup {None}] /\ used_idx \in 0 .. IdxMod - 1
    BY Zenon, <1>1 DEF Types
  <2>3. n \in 0 .. NUM - 1
    <3>1. \A x, y \in Desc : used[x] # None /\ used[x] = used[y] => x = y
      BY Zenon, <1>1 DEF Places
    <3> QED BY <1>5, <2>1, <2>2, <3>1, WindowRoom
  <2>4. Window([used EXCEPT ![used_dev % NUM] = h], used_idx, (used_dev + 1) % IdxMod, n + 1)
    BY Zenon, <2>1, <2>2, <2>3, WindowPut
  <2>5. n + 1 \in 0 .. NUM
    BY <2>3, Consts
  <2>6. \E m \in 0 .. NUM : Window(used', used_idx', used_dev', m)
    BY Zenon, <1>2, <1>3, <2>4, <2>5 DEF s
  <2> QED BY Zenon, <1>1, <1>3, <2>6 DEF Rings
<1>12. \A d \in Desc : used'[d] = IF d = s THEN h ELSE used[d]
  BY Zenon, <1>1, <1>2, <1>4 DEF Types
<1>13. active' = active \ {h}
  BY Zenon, <1>2
<1>14. Places'
  <2>1. \A d \in Desc : avail'[d] # None => avail'[d] \in Pending' /\ avail'[d] \notin active'
    BY Zenon, <1>1, <1>3, <1>8, <1>13 DEF Places
  <2>2. \A d \in Desc : used'[d] # None => used'[d] \in Pending' /\ used'[d] \notin active'
    BY Zenon, <1>1, <1>5, <1>8, <1>12, <1>13 DEF Places
  <2>3. active' \subseteq Pending'
    BY Zenon, <1>1, <1>8, <1>13 DEF Places
  <2>4. \A d, e \in Desc : avail'[d] # None /\ avail'[d] = avail'[e] => d = e
    BY Zenon, <1>1, <1>3 DEF Places
  <2>5. \A d, e \in Desc : used'[d] # None /\ used'[d] = used'[e] => d = e
    BY Zenon, <1>1, <1>5, <1>12 DEF Places
  <2>6. \A d, e \in Desc : avail'[d] # None => avail'[d] # used'[e]
    <3> SUFFICES ASSUME NEW d \in Desc, NEW e \in Desc, avail[d] # None PROVE avail[d] # used'[e]
      BY Zenon, <1>3
    <3>1. avail[d] # used[e] /\ avail[d] # h
      BY Zenon, <1>1, <1>5 DEF Places
    <3> QED BY Zenon, <1>12, <3>1
  <2> QED BY Zenon, <2>1, <2>2, <2>3, <2>4, <2>5, <2>6 DEF Places
<1>15. Served'
  <2>1. \A q \in InFlight : served'[q] <=> served[q] \/ q = p
    BY Zenon, <1>2, <1>7 DEF InFlight
  <2>2. ASSUME NEW q \in InFlight', ~bdisk'[q] PROVE served'[q]
    BY Zenon, <1>1, <1>3, <1>8, <2>1, <2>2 DEF Served
  <2>3. ASSUME NEW q \in InFlight', NEW d \in Desc, used'[d] = head'[q] PROVE served'[q]
    <3>1. q \in InFlight /\ (h = head[q] \/ used[d] = head[q])
      BY Zenon, <1>3, <1>8, <1>12, <2>3
    <3>2. CASE h = head[q]
      BY Zenon, <1>1, <1>6, <2>1, <3>1, <3>2, HeadsDiffer
    <3>3. CASE used[d] = head[q]
      BY Zenon, <1>1, <2>1, <3>1, <3>3 DEF Served
    <3> QED BY Zenon, <3>1, <3>2, <3>3
  <2> QED BY Zenon, <2>2, <2>3 DEF Served
<1> QED BY Zenon, <1>9, <1>10, <1>11, <1>14, <1>15 DEF IndInv

-----------------------------------------------------------------------------
LEMMA NextInd == IndInv /\ [Next]_vars => IndInv'
<1> SUFFICES ASSUME IndInv, [Next]_vars PROVE IndInv'
  OBVIOUS
<1>1. CASE UNCHANGED vars
  <2>1. pc' = pc
    BY Zenon, <1>1 DEF vars
  <2>2. pc' \in [Proc -> {"idle", "alloc", "nodesc", "issued", "woken"}] /\ InFlight' = InFlight
    BY Zenon, <2>1 DEF IndInv, Types, InFlight
  <2> QED BY Zenon, <1>1, <2>2, QuietInd DEF vars
<1>2. CASE Intr
  BY Zenon, <1>2, IntrEdgeInd, IntrEntryInd DEF Intr
<1>3. CASE Device
  BY Zenon, <1>3, DeviceTakeInd, DeviceDoneInd DEF Device
<1>4. ASSUME NEW p \in Proc, Call(p) \/ Driver(p) PROVE IndInv'
  BY Zenon, <1>4, CallInd, AllocFailsInd, IssueInd, FinishInd DEF Driver
<1> QED BY Zenon, <1>1, <1>2, <1>3, <1>4 DEF Next

\* The inductive invariant of virtio_disk.c: chains, rings and buffers agree.
THEOREM Invariance == Spec => []IndInv
<1> QED BY InitInd, NextInd, PTL DEF Spec

\* free_chain() frees descriptors that exist and are in use, so that neither panic of
\* free_desc() is reached, whatever the number of processes and descriptors.
THEOREM Typing == Spec => []TypeOK
<1>1. IndInv => TypeOK
  <2> SUFFICES ASSUME IndInv PROVE TypeOK
    OBVIOUS
  <2>1. ASSUME NEW p \in InFlight
        PROVE  head[p] \in Desc /\ Chain(head[p]) \subseteq Desc \ free
    <3>1. head[p] \in Desc /\ Chain(head[p]) \cap free = {}
      BY Zenon DEF IndInv, Owned
    <3>2. next[head[p]] \in Desc /\ next[next[head[p]]] \in Desc
      BY Zenon, <3>1 DEF IndInv, Types
    <3> QED BY Zenon, <3>1, <3>2 DEF Chain
  <2> QED BY Zenon, <2>1 DEF IndInv, Types, TypeOK
<1> QED BY <1>1, Invariance, PTL

\* alloc3_desc() gives every request of virtio_disk_rw() three descriptors of its own,
\* which lead to its buffer until it frees them, and none is ever lost.
THEOREM ChainsKeptApart == Spec => []ChainsDisjoint
<1>1. IndInv => ChainsDisjoint
  <2> SUFFICES ASSUME IndInv PROVE ChainsDisjoint
    OBVIOUS
  <2>1. ASSUME NEW p \in InFlight
        PROVE  Cardinality(Chain(head[p])) = 3 /\ addr[next[head[p]]] = p
    <3>1. /\ addr[next[head[p]]] = p /\ head[p] # next[head[p]]
          /\ head[p] # next[next[head[p]]] /\ next[head[p]] # next[next[head[p]]]
      BY Zenon DEF IndInv, Owned
    <3>2. Cardinality({head[p], next[head[p]], next[next[head[p]]]}) = 3
      BY Zenon, <3>1, ThreeElements
    <3> QED BY Zenon, <3>1, <3>2 DEF Chain
  <2> QED BY Zenon, <2>1 DEF IndInv, Apart, Counted, ChainsDisjoint
<1> QED BY <1>1, Invariance, PTL

\* virtio_disk_rw() returns only when the device has done its request: the driver and the
\* device never overtake each other in the avail and used rings, for every size of the
\* rings and every modulus of the indices that it divides, as 8 divides 2^16.
THEOREM CompletionsReal == Spec => []DoneMeansServed
<1>1. IndInv => DoneMeansServed
  BY Zenon DEF IndInv, Served, DoneMeansServed
<1> QED BY <1>1, Invariance, PTL
=============================================================================
