----------------------------- MODULE PipeProofs -----------------------------
(***************************************************************************)
(* Theorems about Pipe: for any size of the ring, any width of the         *)
(* counters and any number of readers and writers, no wakeup is lost and   *)
(* the ring is a queue.                                                    *)
(***************************************************************************)
EXTENDS Pipe, TLAPS

----------------------------------------------------------------------------
(* Arithmetic of the counters *)

LEMMA ModRange == ASSUME NEW m \in Nat \ {0}, NEW x \in Int PROVE x % m \in 0 .. m - 1
OBVIOUS

LEMMA DivMod == ASSUME NEW m \in Int, NEW x \in Int, m > 0 PROVE \E q \in Int : x = q * m + (x % m)
BY SMT

LEMMA ModDiv == ASSUME NEW m \in Nat \ {0}, NEW x \in Int PROVE \E q \in Int : x = q * m + (x % m)
<1>1. m \in Int /\ m > 0
  OBVIOUS
<1> QED BY <1>1, DivMod, Zenon

LEMMA ModZero == ASSUME NEW m \in Nat \ {0}, NEW x \in Int, x % m = 0 PROVE \E q \in Int : x = q * m
<1>1. PICK q \in Int : x = q * m + (x % m)
  BY Zenon, ModDiv
<1>2. q * m \in Int
  OBVIOUS
<1>3. x = q * m
  BY <1>1, <1>2
<1> QED BY <1>3

LEMMA TimesAssoc ==
  ASSUME NEW a \in Int, NEW b \in Int, NEW c \in Int PROVE a * (b * c) = (a * b) * c
OBVIOUS

LEMMA ModUnique ==
  ASSUME NEW m \in Nat \ {0}, NEW q \in Int, NEW r \in 0 .. m - 1 PROVE (q * m + r) % m = r
OBVIOUS

LEMMA ModSmall == ASSUME NEW m \in Nat \ {0}, NEW x \in 0 .. m - 1 PROVE x % m = x
OBVIOUS

LEMMA ModAdd ==
  ASSUME NEW m \in Nat \ {0}, NEW x \in Int, NEW k \in Int PROVE (x + k * m) % m = x % m
<1> DEFINE r == x % m
<1>1. r \in 0 .. m - 1
  BY ModRange
<1>2. PICK q \in Int : x = q * m + r
  BY Zenon, ModDiv
<1> HIDE DEF r
<1>3. x + k * m = (q + k) * m + r
  BY <1>1, <1>2
<1>4. ((q + k) * m + r) % m = r
  <2>1. q + k \in Int
    OBVIOUS
  <2> QED BY <1>1, <2>1, ModUnique
<1> QED BY <1>3, <1>4 DEF r

LEMMA ModAddOnce == ASSUME NEW m \in Nat \ {0}, NEW x \in Int PROVE (x + m) % m = x % m
<1> DEFINE r == x % m
<1>1. r \in 0 .. m - 1
  BY ModRange
<1>2. PICK q \in Int : x = q * m + r
  BY Zenon, ModDiv
<1> HIDE DEF r
<1>3. q + 1 \in Int /\ x + m = (q + 1) * m + r
  BY <1>1, <1>2
<1>4. ((q + 1) * m + r) % m = r
  BY <1>1, <1>3, ModUnique
<1> QED BY <1>3, <1>4 DEF r

\* Places of the ring that are less than its size apart are different.
LEMMA ModApart ==
  ASSUME NEW m \in Nat \ {0}, NEW x \in Int, NEW y \in Int, x < y, y - x < m PROVE x % m # y % m
<1> SUFFICES ASSUME x % m = y % m PROVE FALSE
  OBVIOUS
<1> DEFINE r == x % m
<1>1. r \in 0 .. m - 1
  BY ModRange
<1>2. PICK q \in Int : x = q * m + r
  BY Zenon, ModDiv
<1>3. PICK s \in Int : y = s * m + r
  BY Zenon, ModDiv
<1> HIDE DEF r
<1>4. y - x = (s - q) * m
  BY <1>1, <1>2, <1>3
<1>5. CASE s - q <= 0
  BY <1>4, <1>5
<1>6. CASE s - q >= 1
  BY <1>4, <1>6
<1> QED BY <1>5, <1>6

\* Whether a counter has wrapped makes no difference to its place in the ring.
LEMMA WrapKeepsPlace ==
  ASSUME NEW x \in Int, NEW y \in Int PROVE ((x % UintMod) + y) % PIPESIZE = (x + y) % PIPESIZE
<1>1. UintMod \in Nat \ {0} /\ PIPESIZE \in Nat \ {0} /\ UintMod % PIPESIZE = 0
  BY PipeAssumption
<1>2. PICK q \in Int : x = q * UintMod + (x % UintMod)
  BY Zenon, <1>1, ModDiv
<1>3. PICK k \in Int : UintMod = k * PIPESIZE
  BY <1>1, ModZero
<1> DEFINE r == x % UintMod
<1>4. r \in Int
  BY <1>1, ModRange
<1> HIDE DEF r
<1>5. x + y = (r + y) + (q * k) * PIPESIZE
  <2>1. x = q * (k * PIPESIZE) + r
    BY <1>2, <1>3 DEF r
  <2>2. q * (k * PIPESIZE) = (q * k) * PIPESIZE
    BY <1>1, TimesAssoc
  <2> QED BY <1>1, <1>4, <2>1, <2>2
<1>6. ((r + y) + (q * k) * PIPESIZE) % PIPESIZE = (r + y) % PIPESIZE
  <2>1. r + y \in Int /\ q * k \in Int
    BY <1>4
  <2> QED BY Zenon, <1>1, <2>1, ModAdd
<1> QED BY <1>5, <1>6 DEF r

\* The difference and the sum of counters, without the remainder.
LEMMA Difference ==
  ASSUME NEW a \in 0 .. UintMod - 1, NEW b \in 0 .. UintMod - 1
  PROVE  (b - a) % UintMod = IF b >= a THEN b - a ELSE b - a + UintMod
<1>1. UintMod \in Nat \ {0}
  BY PipeAssumption
<1>2. CASE b >= a
  <2>1. b - a \in 0 .. UintMod - 1
    BY <1>1, <1>2
  <2> QED BY <1>1, <1>2, <2>1, ModSmall
<1>3. CASE b < a
  <2>1. b - a + UintMod \in 0 .. UintMod - 1 /\ b - a \in Int
    BY <1>1, <1>3
  <2>2. (b - a + UintMod) % UintMod = b - a + UintMod
    BY <1>1, <2>1, ModSmall
  <2>3. (b - a + UintMod) % UintMod = (b - a) % UintMod
    BY Zenon, <1>1, <2>1, ModAddOnce
  <2> QED BY <1>1, <1>3, <2>2, <2>3
<1> QED BY <1>1, <1>2, <1>3

LEMMA Sum ==
  ASSUME NEW a \in 0 .. UintMod - 1, NEW k \in 0 .. UintMod - 1
  PROVE  (a + k) % UintMod = IF a + k < UintMod THEN a + k ELSE a + k - UintMod
<1>1. UintMod \in Nat \ {0}
  BY PipeAssumption
<1>2. CASE a + k < UintMod
  <2>1. a + k \in 0 .. UintMod - 1
    BY <1>1, <1>2
  <2> QED BY <1>1, <1>2, <2>1, ModSmall
<1>3. CASE a + k >= UintMod
  <2>1. a + k - UintMod \in 0 .. UintMod - 1 /\ a + k - UintMod \in Int
    BY <1>1, <1>3
  <2>2. (a + k - UintMod) % UintMod = a + k - UintMod
    BY <1>1, <2>1, ModSmall
  <2>3. ((a + k - UintMod) + UintMod) % UintMod = (a + k - UintMod) % UintMod
    BY Zenon, <1>1, <2>1, ModAddOnce
  <2>4. (a + k - UintMod) + UintMod = a + k
    BY <1>1, <2>1
  <2> QED BY <1>1, <1>3, <2>2, <2>3, <2>4
<1> QED BY <1>1, <1>2, <1>3

----------------------------------------------------------------------------
(* The inductive invariant *)

Procs == Writer \cup Reader

Types ==
  /\ data \in [0 .. PIPESIZE - 1 -> Byte]
  /\ nread \in 0 .. UintMod - 1 /\ nwrite \in 0 .. UintMod - 1 /\ Used <= PIPESIZE
  /\ readopen \in BOOLEAN /\ writeopen \in BOOLEAN /\ eof \in BOOLEAN
  /\ pc \in [Procs -> {"idle", "call", "asleep", "closed"}]
  /\ n \in [Procs -> Nat]
  /\ killed \in [Procs -> BOOLEAN]

\* As long as a writer has not closed its end, the write end is open; end of file was
\* reported only after it had been closed.
WriteEnd == (\A p \in Writer : pc[p] # "closed" => writeopen) /\ (eof => ~writeopen)

IndInv == Types /\ SleepersHaveReason /\ WriteEnd

\* Used is the number of bytes between the counters.
LEMMA UsedNat ==
  ASSUME nread \in 0 .. UintMod - 1, nwrite \in 0 .. UintMod - 1
  PROVE  Used \in 0 .. UintMod - 1
BY PipeAssumption, ModRange DEF Used

\* Put() adds to it what it copied, and leaves the counter in its range.
LEMMA UsedPut ==
  ASSUME Types, NEW k \in Nat, k <= PIPESIZE - Used, nwrite' = (nwrite + k) % UintMod, UNCHANGED nread
  PROVE  nwrite' \in 0 .. UintMod - 1 /\ Used' = Used + k
<1> USE PipeAssumption DEF Types
<1>1. Used \in 0 .. UintMod - 1 /\ k \in 0 .. UintMod - 1
  BY UsedNat
<1>2. nwrite' = IF nwrite + k < UintMod THEN nwrite + k ELSE nwrite + k - UintMod
  BY <1>1, Sum
<1>3. nwrite' \in 0 .. UintMod - 1
  BY <1>1, <1>2
<1>4. Used' = IF nwrite' >= nread THEN nwrite' - nread ELSE nwrite' - nread + UintMod
  BY Zenon, <1>3, Difference DEF Used
<1>5. Used = IF nwrite >= nread THEN nwrite - nread ELSE nwrite - nread + UintMod
  BY Difference DEF Used
<1> QED BY <1>1, <1>2, <1>3, <1>4, <1>5

\* A reader takes from it what it copied.
LEMMA UsedTake ==
  ASSUME Types, NEW k \in Nat, k <= Used, nread' = (nread + k) % UintMod, UNCHANGED nwrite
  PROVE  nread' \in 0 .. UintMod - 1 /\ Used' = Used - k
<1> USE PipeAssumption DEF Types
<1>1. Used \in 0 .. UintMod - 1 /\ k \in 0 .. UintMod - 1
  BY UsedNat
<1>2. nread' = IF nread + k < UintMod THEN nread + k ELSE nread + k - UintMod
  BY <1>1, Sum
<1>3. nread' \in 0 .. UintMod - 1
  BY <1>1, <1>2
<1>4. Used' = IF nwrite >= nread' THEN nwrite - nread' ELSE nwrite - nread' + UintMod
  BY Zenon, <1>3, Difference DEF Used
<1>5. Used = IF nwrite >= nread THEN nwrite - nread ELSE nwrite - nread + UintMod
  BY Difference DEF Used
<1> QED BY <1>1, <1>2, <1>3, <1>4, <1>5

----------------------------------------------------------------------------
(* What the steps do *)

LEMMA SeqLen == ASSUME NEW k \in Nat, NEW s \in [1 .. k -> Byte] PROVE s \in Seq(Byte) /\ Len(s) = k
OBVIOUS

LEMMA WakeupPc ==
  ASSUME Types, NEW S, NEW p \in Procs, NEW l \in {"idle", "call", "asleep", "closed"}, Wakeup(S, p, l)
  PROVE  /\ pc' \in [Procs -> {"idle", "call", "asleep", "closed"}]
         /\ pc'[p] = l
         /\ \A q \in Procs : q # p => /\ pc'[q] = "closed" <=> pc[q] = "closed"
                                      /\ pc'[q] = "asleep" => pc[q] = "asleep" /\ q \notin S
BY DEF Types, Wakeup

\* Put() writes s[j] at the j-th place after nwrite, and nowhere else.
LEMMA PutData ==
  ASSUME Types, NEW k \in Nat, k <= PIPESIZE - Used, NEW s \in [1 .. k -> Byte], Put(s), UNCHANGED nread
  PROVE  /\ data' \in [0 .. PIPESIZE - 1 -> Byte]
         /\ nwrite' \in 0 .. UintMod - 1 /\ Used' = Used + k
         /\ \A j \in 1 .. k : data'[(nwrite + j - 1) % PIPESIZE] = s[j]
         /\ \A i \in 0 .. PIPESIZE - 1 :
              (\A j \in 1 .. k : (nwrite + j - 1) % PIPESIZE # i) => data'[i] = data[i]
<1> DEFINE at(j) == (nwrite + j - 1) % PIPESIZE
           pick(i) == CHOOSE j \in 1 .. k : at(j) = i
<1>1. PIPESIZE \in Nat \ {0} /\ nwrite \in Nat /\ Len(s) = k /\ k <= PIPESIZE
  <2>1. Used \in Nat
    BY UsedNat DEF Types
  <2> QED BY <2>1, SeqLen, PipeAssumption DEF Types
<1>2. data' = [i \in 0 .. PIPESIZE - 1 |-> IF \E j \in 1 .. k : at(j) = i THEN s[pick(i)] ELSE data[i]]
  BY <1>1 DEF Put
<1>3. nwrite' \in 0 .. UintMod - 1 /\ Used' = Used + k
  BY <1>1, UsedPut DEF Put
<1>4. \A i : (\E j \in 1 .. k : at(j) = i) => pick(i) \in 1 .. k /\ at(pick(i)) = i
  OBVIOUS
<1>5. \A i, j \in 1 .. k : at(i) = at(j) => i = j
  <2> SUFFICES ASSUME NEW i \in 1 .. k, NEW j \in 1 .. k, i < j PROVE at(i) # at(j)
    OBVIOUS
  <2>1. nwrite + i - 1 \in Int /\ nwrite + j - 1 \in Int /\ nwrite + i - 1 < nwrite + j - 1
        /\ (nwrite + j - 1) - (nwrite + i - 1) < PIPESIZE
    BY <1>1
  <2> QED BY Zenon, <1>1, <2>1, ModApart
<1>6. \A j \in 1 .. k : at(j) \in 0 .. PIPESIZE - 1
  <2>1. \A j \in 1 .. k : nwrite + j - 1 \in Int
    BY <1>1
  <2> QED BY Zenon, <1>1, <2>1, ModRange
<1> HIDE DEF at, pick
<1>7. \A i \in 0 .. PIPESIZE - 1 :
        data'[i] = IF \E j \in 1 .. k : at(j) = i THEN s[pick(i)] ELSE data[i]
  BY <1>2
<1>8. data' \in [0 .. PIPESIZE - 1 -> Byte]
  BY <1>2, <1>4 DEF Types
<1>9. ASSUME NEW j \in 1 .. k PROVE data'[at(j)] = s[j]
  <2>1. pick(at(j)) = j
    BY <1>4, <1>5
  <2> QED BY <1>6, <1>7, <2>1
<1>10. ASSUME NEW i \in 0 .. PIPESIZE - 1, \A j \in 1 .. k : at(j) # i PROVE data'[i] = data[i]
  BY <1>7, <1>10
<1> QED BY <1>3, <1>8, <1>9, <1>10 DEF at

----------------------------------------------------------------------------
(* Every step keeps the invariant *)

LEMMA QuietInd ==
  ASSUME IndInv, NEW p \in Procs, UNCHANGED <<pipe, eof>>,
         pc' = [pc EXCEPT ![p] = pc'[p]], pc'[p] \in {"idle", "call"}, pc[p] # "closed",
         n' \in [Procs -> Nat], killed' \in [Procs -> BOOLEAN], \A q \in Procs : killed[q] => killed'[q]
  PROVE  IndInv'
<1>1. Types'
  BY Zenon DEF IndInv, Types, Used, pipe
<1>2. \A q \in Procs : (pc'[q] = "asleep" => pc[q] = "asleep") /\ (pc'[q] # "closed" => pc[q] # "closed" \/ q = p)
  BY DEF IndInv, Types
<1>3. SleepersHaveReason'
  BY <1>2 DEF IndInv, SleepersHaveReason, Used, pipe, Procs
<1>4. WriteEnd'
  BY <1>2 DEF IndInv, WriteEnd, pipe, Procs
<1> QED BY <1>1, <1>3, <1>4 DEF IndInv

LEMMA CallInd == ASSUME IndInv, NEW p \in Procs, NEW k \in 1 .. MaxWrite, Call(p, k) PROVE IndInv'
<1>1. k \in Nat
  BY PipeAssumption
<1> QED BY Zenon, <1>1, QuietInd DEF Call, IndInv, Types, pipe

LEMMA KillInd == ASSUME IndInv, NEW p \in Procs, Kill(p) PROVE IndInv'
<1>1. Types'
  <2>1. pc' \in [Procs -> {"idle", "call", "asleep", "closed"}]
    BY DEF Kill, IndInv, Types
  <2>2. killed' \in [Procs -> BOOLEAN]
    BY DEF Kill, IndInv, Types
  <2> QED BY <2>1, <2>2 DEF Kill, IndInv, Types, Used, pipe
<1>2. \A q \in Procs : /\ pc'[q] = "asleep" => pc[q] = "asleep"
                       /\ pc'[q] = "closed" <=> pc[q] = "closed"
  BY DEF Kill, IndInv, Types
<1>3. \A q \in Procs : killed[q] => killed'[q]
  BY DEF Kill, IndInv, Types
<1>4. SleepersHaveReason'
  BY <1>2, <1>3 DEF Kill, IndInv, SleepersHaveReason, Used, pipe, Procs
<1>5. WriteEnd'
  BY <1>2 DEF Kill, IndInv, WriteEnd, pipe, Procs
<1> QED BY <1>1, <1>4, <1>5 DEF IndInv

LEMMA WriteFailInd == ASSUME IndInv, NEW p \in Writer, pipewrite_fail(p) PROVE IndInv'
<1>1. n' \in [Procs -> Nat]
  BY Zenon DEF pipewrite_fail, IndInv, Types
<1> QED BY Zenon, <1>1, QuietInd DEF pipewrite_fail, IndInv, Types, pipe, Procs

LEMMA WriteInd == ASSUME IndInv, NEW p \in Writer, pipewrite(p) PROVE IndInv'
<1>0. p \in Procs /\ Types /\ pc[p] = "call" /\ readopen /\ UNCHANGED <<nread, readopen, writeopen, eof>>
  BY DEF pipewrite, IndInv, Procs
<1>1. PICK k \in Copied(n[p], PIPESIZE - Used) : \E s \in [1 .. k -> Byte] :
       /\ Put(s)
       /\ IF k < n[p] /\ k = PIPESIZE - Used
          THEN Wakeup(Reader, p, "asleep") /\ n' = [n EXCEPT ![p] = @ - k] /\ KilledLate(p)
          ELSE Wakeup(Reader, p, "idle") /\ n' = [n EXCEPT ![p] = 0] /\ UNCHANGED killed
  BY DEF pipewrite
<1>2. k \in Nat /\ k <= PIPESIZE - Used /\ k <= n[p] /\ Used \in Nat /\ PIPESIZE \in Nat /\ n[p] \in Nat
  BY <1>0, UsedNat, PipeAssumption DEF Copied, Types
<1>3. PICK s \in [1 .. k -> Byte] : Put(s)
  BY <1>1
<1>4. data' \in [0 .. PIPESIZE - 1 -> Byte] /\ nwrite' \in 0 .. UintMod - 1 /\ Used' = Used + k
  BY <1>0, <1>2, <1>3, PutData
<1>5. PICK l \in {"idle", "asleep"} : Wakeup(Reader, p, l) /\ (l = "asleep" => k = PIPESIZE - Used)
  BY <1>1
<1>6. /\ pc' \in [Procs -> {"idle", "call", "asleep", "closed"}] /\ pc'[p] = l
      /\ \A q \in Procs : q # p => /\ pc'[q] = "closed" <=> pc[q] = "closed"
                                   /\ pc'[q] = "asleep" => pc[q] = "asleep" /\ q \notin Reader
  BY <1>0, <1>5, WakeupPc
<1>7. n' \in [Procs -> Nat]
  <2>1. n[p] - k \in Nat /\ n \in [Procs -> Nat]
    BY <1>0, <1>2 DEF Types
  <2>2. n' = [n EXCEPT ![p] = n[p] - k] \/ n' = [n EXCEPT ![p] = 0]
    BY <1>1
  <2> QED BY <2>1, <2>2
<1>8. killed' \in [Procs -> BOOLEAN] /\ \A q \in Procs : killed[q] => killed'[q]
  BY Zenon, <1>0, <1>1 DEF KilledLate, Types
<1>9. Types'
  BY <1>0, <1>2, <1>4, <1>6, <1>7, <1>8 DEF Types
<1>10. ASSUME NEW q \in Writer, pc'[q] = "asleep" PROVE Used' = PIPESIZE /\ readopen'
  <2>1. CASE q = p
    BY <1>0, <1>2, <1>4, <1>5, <1>6, <1>10, <2>1
  <2>2. CASE q # p
    <3>1. Used = PIPESIZE
      BY <1>6, <1>10, <2>2 DEF IndInv, SleepersHaveReason, Procs
    <3> QED BY <1>0, <1>2, <1>4, <3>1
  <2> QED BY <2>1, <2>2
<1>11. \A q \in Reader : pc'[q] # "asleep"
  BY <1>0, <1>6, PipeAssumption DEF Procs
<1>12. WriteEnd'
  BY <1>0, <1>6 DEF IndInv, WriteEnd, Procs
<1> QED BY <1>9, <1>10, <1>11, <1>12 DEF IndInv, SleepersHaveReason

LEMMA WriteKilledInd == ASSUME IndInv, NEW p \in Writer, pipewrite_killed(p) PROVE IndInv'
<1>0. p \in Procs /\ Types /\ pc[p] = "call" /\ UNCHANGED <<nread, readopen, writeopen, eof>>
  BY DEF pipewrite_killed, IndInv, Procs
<1>1. PICK k \in 1 .. n[p] - 1 : k <= PIPESIZE - Used /\ \E s \in [1 .. k -> Byte] : Put(s)
  BY DEF pipewrite_killed
<1>2. k \in Nat /\ k >= 1 /\ Used \in Nat /\ PIPESIZE \in Nat
  BY <1>0, UsedNat, PipeAssumption DEF Types
<1>3. PICK s \in [1 .. k -> Byte] : Put(s)
  BY <1>1
<1>4. data' \in [0 .. PIPESIZE - 1 -> Byte] /\ nwrite' \in 0 .. UintMod - 1 /\ Used' = Used + k
  BY <1>0, <1>1, <1>2, <1>3, PutData
<1>5. pc' \in [Procs -> {"idle", "call", "asleep", "closed"}] /\ n' \in [Procs -> Nat]
      /\ \A q \in Procs : /\ pc'[q] = "asleep" => pc[q] = "asleep"
                          /\ pc'[q] = "closed" <=> pc[q] = "closed"
  BY <1>0 DEF pipewrite_killed, Types
<1>6. killed' \in [Procs -> BOOLEAN] /\ killed'[p]
  BY <1>0 DEF pipewrite_killed, Types
<1>7. Types'
  BY <1>0, <1>1, <1>2, <1>4, <1>5, <1>6 DEF Types
<1>8. ASSUME NEW q \in Writer PROVE pc'[q] # "asleep"
  <2>1. Used # PIPESIZE
    BY <1>1, <1>2
  <2> QED BY <1>5, <2>1 DEF IndInv, SleepersHaveReason, Procs
<1>9. \A q \in Reader : pc'[q] = "asleep" => writeopen'
  BY <1>0, <1>5 DEF IndInv, SleepersHaveReason, Procs
<1>10. WriteEnd'
  BY <1>0, <1>5 DEF IndInv, WriteEnd, Procs
<1> QED BY <1>6, <1>7, <1>8, <1>9, <1>10 DEF IndInv, SleepersHaveReason

LEMMA ReadInd == ASSUME IndInv, NEW p \in Reader, piperead(p) PROVE IndInv'
<1>0. /\ p \in Procs /\ Types /\ pc[p] = "call" /\ Used \in Nat /\ PIPESIZE \in Nat \ {0}
      /\ UNCHANGED <<data, nwrite, readopen, writeopen>>
  BY UsedNat, PipeAssumption DEF piperead, IndInv, Types, Procs
<1>1. CASE /\ pc' = [pc EXCEPT ![p] = "idle"] /\ n' = [n EXCEPT ![p] = 0] /\ UNCHANGED <<nread, eof, killed>>
  <2>1. n' \in [Procs -> Nat] /\ UNCHANGED <<pipe, eof>> /\ pc'[p] = "idle"
    BY <1>0, <1>1 DEF Types, pipe
  <2> QED BY Zenon, <1>0, <1>1, <2>1, QuietInd DEF Types
<1>2. CASE /\ Used = 0 /\ writeopen /\ pc' = [pc EXCEPT ![p] = "asleep"]
           /\ KilledLate(p) /\ UNCHANGED <<nread, eof, n>>
  <2>1. pc' \in [Procs -> {"idle", "call", "asleep", "closed"}]
        /\ \A q \in Procs : /\ q # p /\ pc'[q] = "asleep" => pc[q] = "asleep"
                            /\ pc'[q] = "closed" <=> pc[q] = "closed"
    BY <1>0, <1>2 DEF Types
  <2>2. killed' \in [Procs -> BOOLEAN]
    BY <1>0, <1>2, Zenon DEF KilledLate, Types
  <2>3. Used' = Used /\ Types'
    BY <1>0, <1>2, <2>1, <2>2 DEF Types, Used
  <2>4. ASSUME NEW q \in Writer PROVE pc'[q] # "asleep"
    <3>1. q # p /\ q \in Procs
      BY PipeAssumption DEF Procs
    <3> QED BY <1>0, <1>2, <2>1, <3>1 DEF IndInv, SleepersHaveReason
  <2>5. WriteEnd'
    BY <1>0, <1>2, <2>1 DEF IndInv, WriteEnd, Procs
  <2> QED BY <1>0, <1>2, <2>3, <2>4, <2>5 DEF IndInv, SleepersHaveReason
<1>3. CASE /\ Used # 0 \/ ~writeopen
           /\ \E k \in Copied(n[p], Used) : nread' = (nread + k) % UintMod
           /\ eof' = (eof \/ Used = 0)
           /\ Wakeup(Writer, p, "idle")
           /\ n' = [n EXCEPT ![p] = 0]
           /\ UNCHANGED killed
  <2>1. PICK k \in Copied(n[p], Used) : nread' = (nread + k) % UintMod
    BY <1>3
  <2>2. k \in Nat /\ k <= Used
    BY <1>0 DEF Copied, Types
  <2>3. nread' \in 0 .. UintMod - 1 /\ Used' = Used - k
    BY <1>0, <2>1, <2>2, UsedTake
  <2>4. /\ pc' \in [Procs -> {"idle", "call", "asleep", "closed"}] /\ pc'[p] = "idle"
        /\ \A q \in Procs : q # p => /\ pc'[q] = "closed" <=> pc[q] = "closed"
                                     /\ pc'[q] = "asleep" => pc[q] = "asleep" /\ q \notin Writer
    BY <1>0, <1>3, WakeupPc
  <2>5. n' \in [Procs -> Nat]
    BY <1>0, <1>3 DEF Types
  <2>6. eof' \in BOOLEAN /\ (eof' => ~writeopen')
    BY <1>0, <1>3, Zenon DEF IndInv, Types, WriteEnd
  <2>7. Types'
    BY <1>0, <1>3, <2>2, <2>3, <2>4, <2>5, <2>6 DEF Types
  <2>8. \A q \in Writer : pc'[q] # "asleep"
    BY <1>0, <2>4 DEF Procs
  <2>9. ASSUME NEW q \in Reader, pc'[q] = "asleep"
        PROVE  writeopen' /\ (Used' = 0 \/ \E r \in Writer : killed'[r])
    <3>1. writeopen /\ (Used = 0 \/ \E r \in Writer : killed[r])
      BY <2>4, <2>9 DEF IndInv, SleepersHaveReason, Procs
    <3> QED BY <1>0, <1>3, <2>2, <2>3, <3>1
  <2>10. WriteEnd'
    BY <1>0, <2>4, <2>6 DEF IndInv, WriteEnd, Procs
  <2> QED BY <2>7, <2>8, <2>9, <2>10 DEF IndInv, SleepersHaveReason
<1> QED BY <1>1, <1>2, <1>3 DEF piperead

LEMMA CloseInd == ASSUME IndInv, NEW p \in Procs, pipeclose(p) PROVE IndInv'
<1> DEFINE end == IF p \in Writer THEN Writer ELSE Reader
           last == \A q \in end \ {p} : pc[q] = "closed"
           S == IF last THEN (Writer \cup Reader) \ end ELSE {}
<1>0. Types /\ pc[p] = "idle" /\ UNCHANGED <<data, nread, nwrite, n, killed, eof>> /\ Used' = Used
  BY DEF pipeclose, IndInv, Used
<1>1. /\ pc' \in [Procs -> {"idle", "call", "asleep", "closed"}] /\ pc'[p] = "closed"
      /\ \A q \in Procs : q # p => /\ pc'[q] = "closed" <=> pc[q] = "closed"
                                   /\ pc'[q] = "asleep" => pc[q] = "asleep" /\ q \notin S
  <2>1. Wakeup(S, p, "closed")
    BY DEF pipeclose
  <2> QED BY <1>0, <2>1, WakeupPc
<1>2. /\ writeopen' = (writeopen /\ ~(last /\ p \in Writer))
      /\ readopen' = (readopen /\ ~(last /\ p \in Reader))
  BY DEF pipeclose
<1>3. writeopen' \in BOOLEAN /\ readopen' \in BOOLEAN
  BY <1>2, Zenon
<1>4. Types'
  BY <1>0, <1>1, <1>3 DEF Types
<1>5. ASSUME NEW q \in Writer, pc'[q] = "asleep" PROVE Used' = PIPESIZE /\ readopen'
  <2>1. q # p /\ Used = PIPESIZE /\ readopen /\ q \notin S
    BY <1>1, <1>5 DEF IndInv, SleepersHaveReason, Procs
  <2>2. ~(last /\ p \in Reader)
    BY <2>1, PipeAssumption
  <2> QED BY Zenon, <1>0, <1>2, <2>1, <2>2
<1>6. ASSUME NEW q \in Reader, pc'[q] = "asleep"
      PROVE  writeopen' /\ (Used' = 0 \/ \E r \in Writer : killed'[r])
  <2>1. q # p /\ writeopen /\ (Used = 0 \/ \E r \in Writer : killed[r]) /\ q \notin S
    BY <1>1, <1>6 DEF IndInv, SleepersHaveReason, Procs
  <2>2. ~(last /\ p \in Writer)
    BY <2>1, PipeAssumption
  <2> QED BY Zenon, <1>0, <1>2, <2>1, <2>2
<1>7. ASSUME NEW q \in Writer, pc'[q] # "closed" PROVE writeopen'
  <2>1. q # p /\ writeopen /\ pc[q] # "closed"
    BY <1>1, <1>7 DEF IndInv, WriteEnd, Procs
  <2> QED BY Zenon, <1>2, <1>7, <2>1
<1>8. eof' => ~writeopen'
  BY Zenon, <1>0, <1>2 DEF IndInv, WriteEnd
<1> QED BY <1>4, <1>5, <1>6, <1>7, <1>8 DEF IndInv, SleepersHaveReason, WriteEnd

LEMMA InitInd == Init => IndInv
<1> SUFFICES ASSUME Init PROVE IndInv
  OBVIOUS
<1>1. 0 \in 0 .. UintMod - 1 /\ PIPESIZE \in Nat
  BY PipeAssumption
<1>2. Used = 0
  BY <1>1, Difference DEF Init, Used
<1>3. Types
  <2>1. data \in [0 .. PIPESIZE - 1 -> Byte]
    BY DEF Init
  <2>2. killed \in [Procs -> BOOLEAN] /\ readopen \in BOOLEAN /\ writeopen \in BOOLEAN /\ eof \in BOOLEAN
    BY Zenon DEF Init, Procs
  <2>3. pc \in [Procs -> {"idle", "call", "asleep", "closed"}] /\ n \in [Procs -> Nat]
    BY DEF Init, Procs
  <2> QED BY <1>1, <1>2, <2>1, <2>2, <2>3 DEF Init, Types
<1> QED BY <1>3 DEF Init, IndInv, SleepersHaveReason, WriteEnd

LEMMA NextInd == IndInv /\ [Next]_vars => IndInv'
<1> SUFFICES ASSUME IndInv, [Next]_vars PROVE IndInv'
  OBVIOUS
<1>1. CASE UNCHANGED vars
  BY <1>1 DEF vars, IndInv, Types, SleepersHaveReason, WriteEnd, Used
<1>2. CASE \E p \in Writer : Write(p)
  BY <1>2, WriteInd, WriteFailInd, WriteKilledInd DEF Write
<1>3. CASE \E p \in Reader : piperead(p)
  BY <1>3, ReadInd
<1>4. CASE \E p \in Writer \cup Reader : pipeclose(p) \/ Kill(p) \/ \E k \in 1 .. MaxWrite : Call(p, k)
  BY <1>4, CloseInd, KillInd, CallInd DEF Procs
<1> QED BY <1>1, <1>2, <1>3, <1>4 DEF Next

\* The inductive invariant of pipe.c: what pipewrite(), piperead(), pipeclose() and a kill
\* keep in every order, across the wrap of nread and nwrite.
THEOREM Invariance == Spec => []IndInv
<1> QED BY InitInd, NextInd, PTL DEF Spec

\* The counters never drift further apart than PIPESIZE.
THEOREM Typing == Spec => []TypeOK
<1>1. IndInv => TypeOK BY DEF IndInv, Types, TypeOK, Procs
<1> QED BY <1>1, Invariance, PTL

\* No wakeup is lost: a writer asleep in pipewrite() faces a full pipe and a reader, a
\* reader asleep in piperead() a writer and an empty pipe (or the bytes of a killed writer).
THEOREM NoLostWakeup == Spec => []SleepersHaveReason
<1>1. IndInv => SleepersHaveReason BY DEF IndInv
<1> QED BY <1>1, Invariance, PTL

----------------------------------------------------------------------------
(* The ring is a queue *)

\* The bytes between the counters, oldest first: the queue of the refinement mapping.
Ring == [i \in 1 .. Used |-> data[(nread + i - 1) % PIPESIZE]]

LEMMA SeqEq ==
  ASSUME NEW m \in Nat, NEW s \in Seq(Byte), NEW t \in Seq(Byte), Len(s) = m, Len(t) = m,
         \A i \in 1 .. m : s[i] = t[i]
  PROVE  s = t
OBVIOUS

LEMMA Concat ==
  ASSUME NEW s \in Seq(Byte), NEW t \in Seq(Byte)
  PROVE  /\ s \o t \in Seq(Byte) /\ Len(s \o t) = Len(s) + Len(t)
         /\ \A i \in 1 .. Len(s) : (s \o t)[i] = s[i]
         /\ \A i \in 1 .. Len(t) : (s \o t)[Len(s) + i] = t[i]
OBVIOUS

LEMMA Suffix ==
  ASSUME NEW s \in Seq(Byte), NEW k \in 0 .. Len(s)
  PROVE  /\ SubSeq(s, k + 1, Len(s)) \in Seq(Byte) /\ Len(SubSeq(s, k + 1, Len(s))) = Len(s) - k
         /\ \A i \in 1 .. Len(s) - k : SubSeq(s, k + 1, Len(s))[i] = s[k + i]
OBVIOUS

LEMMA RingShape ==
  ASSUME NEW d \in [0 .. PIPESIZE - 1 -> Byte], NEW r \in Nat, NEW u \in Nat
  PROVE  [i \in 1 .. u |-> d[(r + i - 1) % PIPESIZE]] \in [1 .. u -> Byte]
<1>1. \A i \in 1 .. u : r + i - 1 \in Int
  OBVIOUS
<1>2. \A i \in 1 .. u : (r + i - 1) % PIPESIZE \in 0 .. PIPESIZE - 1
  BY <1>1, ModRange, PipeAssumption
<1> QED BY Zenon, <1>2

LEMMA RingSeq ==
  ASSUME Types
  PROVE  /\ Used \in Nat /\ Ring \in Seq(Byte) /\ Len(Ring) = Used
         /\ \A i \in 1 .. Used : Ring[i] = data[(nread + i - 1) % PIPESIZE]
<1>1. Used \in Nat /\ nread \in Nat
  BY UsedNat, PipeAssumption DEF Types
<1>2. Ring \in [1 .. Used -> Byte]
  BY Zenon, <1>1, RingShape DEF Ring, Types
<1> QED BY Zenon, <1>1, <1>2, SeqLen DEF Ring

LEMMA RingSeqNext ==
  ASSUME Types', Used' \in Nat
  PROVE  /\ Ring' \in Seq(Byte) /\ Len(Ring') = Used'
         /\ \A i \in 1 .. Used' : Ring'[i] = data'[(nread' + i - 1) % PIPESIZE]
<1>1. nread' \in Nat /\ data' \in [0 .. PIPESIZE - 1 -> Byte]
  BY PipeAssumption DEF Types
<1>2. Ring' \in [1 .. Used' -> Byte]
  BY Zenon, <1>1, RingShape DEF Ring
<1> QED BY Zenon, <1>2, SeqLen DEF Ring

\* The next byte goes to the place after the last one in use.
LEMMA NextPlace ==
  ASSUME Types, NEW j \in Nat \ {0}
  PROVE  (nwrite + j - 1) % PIPESIZE = (nread + Used + j - 1) % PIPESIZE
<1>1. nwrite \in 0 .. UintMod - 1 /\ nread \in 0 .. UintMod - 1 /\ Used \in 0 .. UintMod - 1
  BY UsedNat DEF Types
<1>2. (nread + Used) % UintMod = nwrite
  <2>1. Used = IF nwrite >= nread THEN nwrite - nread ELSE nwrite - nread + UintMod
    BY <1>1, Difference DEF Used
  <2>2. (nread + Used) % UintMod = IF nread + Used < UintMod THEN nread + Used ELSE nread + Used - UintMod
    BY <1>1, Sum
  <2> QED BY <1>1, <2>1, <2>2, PipeAssumption
<1>3. nread + Used \in Int /\ j - 1 \in Int
  BY <1>1
<1>4. (((nread + Used) % UintMod) + (j - 1)) % PIPESIZE = ((nread + Used) + (j - 1)) % PIPESIZE
  BY <1>3, WrapKeepsPlace
<1>5. nwrite + (j - 1) = nwrite + j - 1 /\ (nread + Used) + (j - 1) = nread + Used + j - 1
  BY <1>1
<1> QED BY <1>2, <1>4, <1>5

\* pipewrite() appends what it copies, and overwrites no byte that is still to be read.
LEMMA RingPut ==
  ASSUME Types, Types', NEW k \in Nat, k <= PIPESIZE - Used, NEW s \in [1 .. k -> Byte], Put(s),
         UNCHANGED nread
  PROVE  Ring' = Ring \o s
<1>1. /\ Used \in Nat /\ nread \in Nat /\ PIPESIZE \in Nat \ {0} /\ nwrite \in Nat /\ Used' = Used + k
      /\ \A j \in 1 .. k : data'[(nwrite + j - 1) % PIPESIZE] = s[j]
      /\ \A i \in 0 .. PIPESIZE - 1 :
           (\A j \in 1 .. k : (nwrite + j - 1) % PIPESIZE # i) => data'[i] = data[i]
  <2>1. Used \in Nat /\ nread \in Nat /\ PIPESIZE \in Nat \ {0} /\ nwrite \in Nat
    BY UsedNat, PipeAssumption DEF Types
  <2> QED BY Zenon, <2>1, PutData
<1>2. Ring \in Seq(Byte) /\ Len(Ring) = Used /\ s \in Seq(Byte) /\ Len(s) = k
  BY RingSeq, SeqLen
<1>3. Ring' \in Seq(Byte) /\ Len(Ring') = Used + k
      /\ \A i \in 1 .. Used + k : Ring'[i] = data'[(nread + i - 1) % PIPESIZE]
  <2>1. /\ Used' \in Nat /\ Ring' \in Seq(Byte) /\ Len(Ring') = Used'
        /\ \A i \in 1 .. Used' : Ring'[i] = data'[(nread' + i - 1) % PIPESIZE]
    BY <1>1, RingSeqNext
  <2> QED BY <1>1, <2>1
<1>4. ASSUME NEW i \in 1 .. Used PROVE Ring'[i] = Ring[i]
  <2>1. nread + i - 1 \in Int /\ (nread + i - 1) % PIPESIZE \in 0 .. PIPESIZE - 1
    BY <1>1, ModRange
  <2>2. ASSUME NEW j \in 1 .. k PROVE (nwrite + j - 1) % PIPESIZE # (nread + i - 1) % PIPESIZE
    <3>1. nread + Used + j - 1 \in Int /\ nread + i - 1 < nread + Used + j - 1
          /\ (nread + Used + j - 1) - (nread + i - 1) < PIPESIZE
      BY <1>1
    <3>2. (nread + i - 1) % PIPESIZE # (nread + Used + j - 1) % PIPESIZE
      BY Zenon, <1>1, <2>1, <3>1, ModApart
    <3>3. j \in Nat \ {0}
      OBVIOUS
    <3> QED BY <3>2, <3>3, NextPlace
  <2>3. data'[(nread + i - 1) % PIPESIZE] = data[(nread + i - 1) % PIPESIZE]
    BY Zenon, <1>1, <2>1, <2>2
  <2>4. i \in 1 .. Used + k
    BY <1>1
  <2> QED BY <1>3, <2>3, <2>4, RingSeq
<1>5. ASSUME NEW j \in 1 .. k PROVE Ring'[Used + j] = s[j]
  <2>1. j \in Nat \ {0} /\ Used + j \in 1 .. Used + k /\ nread + (Used + j) - 1 = nread + Used + j - 1
    BY <1>1
  <2> QED BY ZenonT(30), <1>1, <1>3, <2>1, NextPlace
<1>6. /\ Ring \o s \in Seq(Byte) /\ Len(Ring \o s) = Used + k
      /\ \A i \in 1 .. Used : (Ring \o s)[i] = Ring[i]
      /\ \A i \in 1 .. k : (Ring \o s)[Used + i] = s[i]
  BY Zenon, <1>2, Concat
<1>7. ASSUME NEW i \in 1 .. Used + k PROVE Ring'[i] = (Ring \o s)[i]
  <2>1. CASE i <= Used
    BY <1>1, <1>4, <1>6, <2>1
  <2>2. CASE i > Used
    <3>1. i - Used \in 1 .. k /\ i = Used + (i - Used)
      BY <1>1, <2>2
    <3> QED BY Zenon, <1>5, <1>6, <3>1
  <2>3. i <= Used \/ i > Used
    BY <1>1
  <2> QED BY <2>1, <2>2, <2>3, Zenon
<1>8. Used + k \in Nat
  BY <1>1
<1> QED BY <1>3, <1>6, <1>7, <1>8, SeqEq, Zenon

\* piperead() takes the oldest bytes, also when nread wraps.
LEMMA RingTake ==
  ASSUME Types, Types', NEW k \in Nat, k <= Used, nread' = (nread + k) % UintMod, UNCHANGED <<data, nwrite>>
  PROVE  Ring' = SubSeq(Ring, k + 1, Len(Ring))
<1>1. Used \in Nat /\ nread \in Nat /\ Used' = Used - k /\ PIPESIZE \in Nat \ {0}
  BY UsedNat, UsedTake, PipeAssumption DEF Types
<1>2. Ring \in Seq(Byte) /\ Len(Ring) = Used
  BY RingSeq
<1>3. Ring' \in Seq(Byte) /\ Len(Ring') = Used - k
      /\ \A i \in 1 .. Used - k : Ring'[i] = data[(nread' + i - 1) % PIPESIZE]
  <2>1. /\ Used' \in Nat /\ Ring' \in Seq(Byte) /\ Len(Ring') = Used'
        /\ \A i \in 1 .. Used' : Ring'[i] = data'[(nread' + i - 1) % PIPESIZE]
    BY <1>1, RingSeqNext
  <2> QED BY <1>1, <2>1
<1>4. ASSUME NEW i \in 1 .. Used - k PROVE Ring'[i] = Ring[k + i]
  <2>1. nread + k \in Int /\ i - 1 \in Int /\ k + i \in 1 .. Used
    BY <1>1
  <2>2. (((nread + k) % UintMod) + (i - 1)) % PIPESIZE = ((nread + k) + (i - 1)) % PIPESIZE
    BY <2>1, WrapKeepsPlace
  <2>3. nread' \in Int /\ nread' + (i - 1) = nread' + i - 1 /\ (nread + k) + (i - 1) = nread + (k + i) - 1
    BY <1>1 DEF Types
  <2> QED BY ZenonT(30), <1>3, <2>1, <2>2, <2>3, RingSeq
<1>5. /\ SubSeq(Ring, k + 1, Len(Ring)) \in Seq(Byte) /\ Len(SubSeq(Ring, k + 1, Len(Ring))) = Used - k
      /\ \A i \in 1 .. Used - k : SubSeq(Ring, k + 1, Len(Ring))[i] = Ring[k + i]
  BY <1>1, <1>2, Suffix
<1>6. Used - k \in Nat
  BY <1>1
<1> QED BY <1>3, <1>4, <1>5, <1>6, SeqEq

\* Every step of pipe.c is a step of the queue, or none.
LEMMA QueueStep ==
  ASSUME IndInv, IndInv', [Next]_vars
  PROVE  [Queue!QPut \/ Queue!QTake \/ Queue!QClose \/ Queue!QEof]_<<Ring, writeopen, eof>>
<1>0. Types /\ Types' /\ Used \in Nat /\ PIPESIZE \in Nat
  BY RingSeq, PipeAssumption DEF IndInv
<1>1. ASSUME UNCHANGED <<pipe, eof>> PROVE UNCHANGED <<Ring, writeopen, eof>>
  BY <1>1 DEF pipe, Ring, Used
<1>2. ASSUME NEW p \in Writer, NEW k \in Nat, k <= PIPESIZE - Used, pc[p] = "call",
             NEW s \in [1 .. k -> Byte], Put(s), UNCHANGED <<nread, writeopen, eof>>
      PROVE  Queue!QPut \/ UNCHANGED <<Ring, writeopen, eof>>
  <2>1. Ring' = Ring \o s
    BY <1>0, <1>2, RingPut
  <2>2. ~eof /\ writeopen
    BY <1>2 DEF IndInv, WriteEnd
  <2>3. CASE k = 0
    <3>1. Ring \in Seq(Byte) /\ s = <<>>
      BY <1>0, <2>3, RingSeq
    <3>2. Ring \o s = Ring
      BY <3>1
    <3> QED BY <1>2, <2>1, <3>2
  <2>4. CASE k # 0
    <3>1. k \in 1 .. PIPESIZE - Len(Ring)
      BY <1>0, <1>2, <2>4, RingSeq
    <3> QED BY Zenon, <1>2, <2>1, <2>2, <3>1 DEF Queue!QPut, Ring
  <2> QED BY <2>3, <2>4
<1>3. ASSUME NEW p \in Writer, Write(p) PROVE Queue!QPut \/ UNCHANGED <<Ring, writeopen, eof>>
  <2>1. CASE pipewrite(p)
    <3>1. PICK k \in Copied(n[p], PIPESIZE - Used) : \E s \in [1 .. k -> Byte] : Put(s)
      BY <2>1 DEF pipewrite
    <3>2. k \in Nat /\ k <= PIPESIZE - Used
      BY <1>0 DEF Copied, Types
    <3> QED BY <1>2, <2>1, <3>1, <3>2 DEF pipewrite
  <2>2. CASE pipewrite_killed(p)
    <3>1. PICK k \in 1 .. n[p] - 1 : k <= PIPESIZE - Used /\ \E s \in [1 .. k -> Byte] : Put(s)
      BY <2>2 DEF pipewrite_killed
    <3> QED BY <1>2, <2>2, <3>1 DEF pipewrite_killed
  <2>3. CASE pipewrite_fail(p)
    BY <1>1, <2>3 DEF pipewrite_fail
  <2> QED BY <1>3, <2>1, <2>2, <2>3 DEF Write
<1>4. ASSUME NEW p \in Reader, piperead(p)
      PROVE  Queue!QTake \/ Queue!QEof \/ UNCHANGED <<Ring, writeopen, eof>>
  <2>1. CASE UNCHANGED <<nread, eof>>
    BY <1>1, <1>4, <2>1 DEF piperead, pipe
  <2>2. CASE /\ Used # 0 \/ ~writeopen
             /\ \E k \in Copied(n[p], Used) : nread' = (nread + k) % UintMod
             /\ eof' = (eof \/ Used = 0)
    <3>1. PICK k \in Copied(n[p], Used) : nread' = (nread + k) % UintMod
      BY <2>2
    <3>2. k \in Nat /\ k <= Used /\ UNCHANGED <<data, nwrite, writeopen>>
      BY <1>0, <1>4 DEF Copied, Types, piperead
    <3>3. Ring' = SubSeq(Ring, k + 1, Len(Ring)) /\ Ring \in Seq(Byte) /\ Len(Ring) = Used
      BY <1>0, <3>1, <3>2, RingTake, RingSeq
    <3>4. CASE Used = 0
      <4>1. Ring = <<>> /\ Used' = 0
        BY <1>0, <3>1, <3>2, <3>3, <3>4, UsedTake
      <4>2. Ring' = <<>>
        BY <3>3, <4>1
      <4>3. ~writeopen /\ eof' = TRUE
        BY Zenon, <2>2, <3>4
      <4> QED BY Zenon, <3>2, <4>1, <4>2, <4>3 DEF Queue!QEof, Ring
    <3>5. CASE Used # 0 /\ k = 0
      <4>1. Ring' = Ring
        BY <3>3, <3>5
      <4> QED BY <1>0, <2>2, <3>2, <3>5, <4>1 DEF Types
    <3>6. CASE Used # 0 /\ k # 0
      <4>1. k \in 1 .. Len(Ring) /\ eof' = eof
        BY <1>0, <2>2, <3>2, <3>3, <3>6 DEF Types
      <4> QED BY Zenon, <3>2, <3>3, <4>1 DEF Queue!QTake, Ring
    <3> QED BY <3>4, <3>5, <3>6
  <2> QED BY <1>4, <2>1, <2>2 DEF piperead
<1>5. ASSUME NEW p \in Procs, pipeclose(p) PROVE Queue!QClose \/ UNCHANGED <<Ring, writeopen, eof>>
  <2>1. Ring' = Ring /\ eof' = eof
    BY <1>5 DEF pipeclose, Ring, Used
  <2>2. writeopen' = FALSE \/ writeopen' = writeopen
    BY Zenon, <1>0, <1>5 DEF pipeclose, Types
  <2> QED BY <2>1, <2>2 DEF Queue!QClose, Ring
<1>6. CASE UNCHANGED vars
  BY <1>1, <1>6 DEF vars, pipe
<1>7. CASE \E p \in Procs : Kill(p) \/ \E k \in 1 .. MaxWrite : Call(p, k)
  BY <1>1, <1>7 DEF Kill, Call
<1> QED BY <1>3, <1>4, <1>5, <1>6, <1>7 DEF Next, Procs

\* The ring buffer is a queue, whatever its size and however often the counters wrap:
\* the steps of pipe.c put bytes at one end, take them in order at the other, and report
\* end of file only when none is left and the write end is closed.
THEOREM PipeImplementsQueue == Spec => PipeIsQueue
<1>1. Init => Queue!QInit
  <2> SUFFICES ASSUME Init PROVE Queue!QInit
    OBVIOUS
  <2>1. 0 \in 0 .. UintMod - 1
    BY PipeAssumption
  <2>2. Used = 0
    BY <2>1, Difference DEF Init, Used
  <2>3. Ring = <<>>
    BY <2>2 DEF Ring
  <2> QED BY <2>3 DEF Init, Queue!QInit, Ring
<1>2. IndInv /\ IndInv' /\ [Next]_vars
        => [Queue!QPut \/ Queue!QTake \/ Queue!QClose \/ Queue!QEof]_<<Ring, writeopen, eof>>
  BY QueueStep
<1> QED BY <1>1, <1>2, Invariance, PTL DEF Spec, PipeIsQueue, Queue!QSpec, Ring

=============================================================================
