---------------------------- MODULE ConsoleProofs ---------------------------
(***************************************************************************)
(* The locks, interrupts and sleepers of the console, and that its buffer  *)
(* is a queue of lines, for any number of CPUs, any sizes and any input.   *)
(***************************************************************************)
EXTENDS Console, TLAPS

Lock == {"cons", "tx", "pr"}
Spinning == {"read_spin", "write_spin", "printk_spin"}
Holding == {"read", "write", "printk", "printk_put"}
Elsewhere == {"user", "read_sleep", "read_woken", "write_sleep", "write_woken"}
HandlerOff == {"tx_spin", "tx", "cons_spin", "cons", "cons_put"}

Locked ==
  /\ lock \in [Lock -> CPU \cup {NoCpu}]
  /\ noff \in [CPU -> Nat] /\ intena \in [CPU -> BOOLEAN] /\ sie \in [CPU -> BOOLEAN]
  /\ pc \in [CPU -> Spinning \cup Holding \cup Elsewhere]
  /\ hcpu \in CPU \cup {NoCpu} /\ hpc \in {"idle", "isr", "getc"} \cup HandlerOff

\* The process of c, or the interrupt handler, is where it holds lk.
Holds(c, lk) ==
  \/ lk = "cons" /\ pc[c] = "read"
  \/ lk = "tx" /\ pc[c] = "write"
  \/ lk = "pr" /\ pc[c] \in {"printk", "printk_put"}

HandlerHolds(lk) ==
  \/ lk = "tx" /\ hpc = "tx"
  \/ lk = "cons" /\ hpc \in {"cons", "cons_put"}

Holders ==
  \A lk \in Lock, c \in CPU : lock[lk] = c <=> Holds(c, lk) \/ (hcpu = c /\ HandlerHolds(lk))

\* push_off() is in effect exactly from acquire() to release(); the handler runs on a CPU
\* whose process was outside, and with interrupts off.
Nesting(c) ==
  IF hcpu = c
  THEN /\ pc[c] \in Elsewhere /\ sie[c] = FALSE
       /\ IF hpc \in HandlerOff THEN noff[c] = 1 /\ intena[c] = FALSE
          ELSE noff[c] = 0 /\ intena[c] = TRUE
  ELSE /\ intena[c] = TRUE
       /\ IF pc[c] \in Elsewhere THEN noff[c] = 0 /\ sie[c] = TRUE ELSE noff[c] = 1 /\ sie[c] = FALSE

LockInv ==
  /\ Locked /\ Holders /\ panicked = FALSE
  /\ hcpu = NoCpu <=> hpc = "idle"
  /\ \A c \in CPU : Nesting(c)

\* The indices and the device.
Data ==
  /\ r \in 0 .. UintMod - 1 /\ w \in 0 .. UintMod - 1 /\ e \in 0 .. UintMod - 1
  /\ tx_busy \in BOOLEAN /\ fifo \in Nat /\ thri \in BOOLEAN

\* Somebody will see that the device can send again.
Awaited == tx_busy => fifo > 0 \/ thri \/ hpc \in {"tx_spin", "tx"}

Sleepers ==
  \A c \in CPU : (pc[c] = "read_sleep" => r = w) /\ (pc[c] = "write_sleep" => tx_busy)

IndInv == LockInv /\ Data /\ Awaited /\ Sleepers

-----------------------------------------------------------------------------
LEMMA Consts ==
  /\ NoCpu \notin CPU /\ UintMod \in Nat \ {0} /\ FirstIndex \in 0 .. UintMod - 1
BY ConsoleAssumption

LEMMA InIndex == ASSUME NEW i \in Int PROVE i % UintMod \in 0 .. UintMod - 1
BY Consts

LEMMA Labels ==
  /\ Spinning \cap Holding = {} /\ Spinning \cap Elsewhere = {} /\ Holding \cap Elsewhere = {}
BY DEF Spinning, Holding, Elsewhere

LEMMA InitInd == Init => IndInv
<1> SUFFICES ASSUME Init PROVE IndInv
  OBVIOUS
<1>1. Locked /\ Data
  BY Zenon, Consts DEF Init, Locked, Data, Lock, Elsewhere, HandlerOff
<1>2. Holders
  BY Zenon, Consts DEF Init, Holders, Holds, HandlerHolds, Lock
<1>3. /\ hcpu = NoCpu <=> hpc = "idle"
      /\ \A c \in CPU : Nesting(c)
  BY Zenon, Consts DEF Init, Nesting, Elsewhere
<1>4. Awaited /\ Sleepers /\ panicked = FALSE
  BY Zenon DEF Init, Awaited, Sleepers
<1> QED BY Zenon, <1>1, <1>2, <1>3, <1>4 DEF IndInv, LockInv

-----------------------------------------------------------------------------
\* Locks and interrupts.

\* A CPU that a step does not concern.
LEMMA NestingKept ==
  ASSUME NEW d \in CPU, Nesting(d), noff'[d] = noff[d], intena'[d] = intena[d], sie'[d] = sie[d],
         pc'[d] = pc[d] \/ (pc[d] \in Elsewhere /\ pc'[d] \in Elsewhere),
         (hcpu' = hcpu /\ hpc' = hpc) \/ (hcpu # d /\ hcpu' # d)
  PROVE  Nesting(d)'
BY Zenon DEF Nesting

\* Where a process sleeps, or is woken, it holds no lock.
LEMMA HoldsKept ==
  ASSUME NEW d \in CPU, NEW lk,
         pc'[d] = pc[d] \/ (pc[d] \notin Holding /\ pc'[d] \notin Holding)
  PROVE  Holds(d, lk)' <=> Holds(d, lk)
<1>1. CASE pc'[d] = pc[d]
  BY Zenon, <1>1 DEF Holds
<1>2. CASE pc[d] \notin Holding /\ pc'[d] \notin Holding
  BY Zenon, <1>2 DEF Holds, Holding
<1> QED BY Zenon, <1>1, <1>2

\* A step of process c, with its CPU to itself.
LEMMA ThreadLocks ==
  ASSUME LockInv, NEW c \in CPU, hcpu # c, hcpu' = hcpu, hpc' = hpc, Locked', panicked' = FALSE,
         \A d \in CPU \ {c} :
            noff'[d] = noff[d] /\ intena'[d] = intena[d] /\ sie'[d] = sie[d] /\ pc'[d] = pc[d],
         \A lk \in Lock, d \in CPU \ {c} : lock'[lk] = d <=> lock[lk] = d,
         \A lk \in Lock : lock'[lk] = c <=> Holds(c, lk)',
         Nesting(c)'
  PROVE  LockInv'
<1>1. ASSUME NEW d \in CPU PROVE Nesting(d)'
  <2>1. CASE d = c
    BY Zenon, <2>1
  <2>2. CASE d # c
    <3>1. Nesting(d)
      BY Zenon DEF LockInv
    <3> QED BY Zenon, <2>2, <3>1, NestingKept
  <2> QED BY Zenon, <2>1, <2>2
<1>2. ASSUME NEW lk \in Lock, NEW d \in CPU
      PROVE  lock'[lk] = d <=> Holds(d, lk)' \/ (hcpu' = d /\ HandlerHolds(lk)')
  <2>1. CASE d = c
    BY Zenon, <2>1
  <2>2. CASE d # c
    <3>1. Holds(d, lk)' <=> Holds(d, lk)
      BY Zenon, <2>2, HoldsKept
    <3>2. HandlerHolds(lk)' <=> HandlerHolds(lk)
      BY Zenon DEF HandlerHolds
    <3>3. lock[lk] = d <=> Holds(d, lk) \/ (hcpu = d /\ HandlerHolds(lk))
      BY Zenon DEF LockInv, Holders
    <3> QED BY Zenon, <2>2, <3>1, <3>2, <3>3
  <2> QED BY Zenon, <2>1, <2>2
<1>3. Holders'
  BY Zenon, <1>2 DEF Holders
<1>4. hcpu' = NoCpu <=> hpc' = "idle"
  BY Zenon DEF LockInv
<1> QED BY Zenon, <1>1, <1>3, <1>4 DEF LockInv

\* What LockInv says of a process that runs.
LEMMA Running ==
  ASSUME LockInv, NEW c \in CPU, hcpu # c
  PROVE  /\ Locked /\ panicked = FALSE /\ intena[c] = TRUE
         /\ pc[c] \in Elsewhere => noff[c] = 0 /\ sie[c] = TRUE
         /\ pc[c] \notin Elsewhere => noff[c] = 1 /\ sie[c] = FALSE
         /\ \A lk \in Lock : lock[lk] = c <=> Holds(c, lk)
<1>1. Nesting(c) /\ Locked /\ Holders /\ panicked = FALSE
  BY Zenon DEF LockInv
<1>2. \A lk \in Lock : lock[lk] = c <=> Holds(c, lk)
  BY Zenon, <1>1 DEF Holders
<1> QED BY Zenon, <1>1, <1>2 DEF Nesting

\* acquire() of a process that holds nothing, up to the loop.
LEMMA ThreadAcquire ==
  ASSUME LockInv, NEW c \in CPU, hcpu # c, NEW lk \in Lock, NEW l \in Spinning,
         pc[c] \in Elsewhere, acquire(c, lk), Goto(c, l), hcpu' = hcpu, hpc' = hpc
  PROVE  LockInv'
<1>1. /\ Locked /\ panicked = FALSE /\ noff[c] = 0 /\ sie[c] = TRUE /\ intena[c] = TRUE
      /\ \A k \in Lock : lock[k] = c <=> Holds(c, k)
  BY Zenon, Running
<1>2. /\ noff' = [noff EXCEPT ![c] = noff[c] + 1]
      /\ sie' = [sie EXCEPT ![c] = FALSE]
      /\ intena' = [intena EXCEPT ![c] = sie[c]]
      /\ pc' = [pc EXCEPT ![c] = l] /\ lock' = lock
      /\ panicked' = (panicked \/ lock[lk] = c)
  BY Zenon, <1>1 DEF acquire, push_off, Goto, holding
<1>3. \A k \in Lock : ~Holds(c, k)
  BY Zenon DEF Holds, Elsewhere
<1>4. panicked' = FALSE
  BY Zenon, <1>1, <1>2, <1>3
<1>5. noff[c] + 1 = 1 /\ noff[c] + 1 \in Nat
  BY <1>1
<1>6. Locked'
  BY Zenon, <1>1, <1>2, <1>5 DEF Locked
<1>7. \A d \in CPU \ {c} :
        noff'[d] = noff[d] /\ intena'[d] = intena[d] /\ sie'[d] = sie[d] /\ pc'[d] = pc[d]
  BY Zenon, <1>1, <1>2 DEF Locked
<1>8. noff'[c] = 1 /\ sie'[c] = FALSE /\ intena'[c] = TRUE /\ pc'[c] = l
  BY Zenon, <1>1, <1>2, <1>5 DEF Locked
<1>9. Nesting(c)'
  BY Zenon, <1>8, Labels DEF Nesting
<1>10. \A k \in Lock : lock'[k] = c <=> Holds(c, k)'
  <2>1. \A k \in Lock : ~Holds(c, k)'
    BY Zenon, <1>8 DEF Holds, Spinning
  <2> QED BY Zenon, <1>1, <1>2, <1>3, <2>1
<1>11. \A k \in Lock, d \in CPU \ {c} : lock'[k] = d <=> lock[k] = d
  BY Zenon, <1>2
<1> QED BY Zenon, <1>4, <1>6, <1>7, <1>9, <1>10, <1>11, ThreadLocks

\* The end of its loop.
LEMMA ThreadExchange ==
  ASSUME LockInv, NEW c \in CPU, hcpu # c, NEW lk \in Lock, NEW l \in Holding,
         pc[c] \in Spinning, exchange(c, lk), Goto(c, l), hcpu' = hcpu, hpc' = hpc,
         \A k \in Lock : Holds(c, k)' <=> k = lk
  PROVE  LockInv'
<1>1. /\ Locked /\ panicked = FALSE /\ intena[c] = TRUE /\ noff[c] = 1 /\ sie[c] = FALSE
      /\ \A k \in Lock : lock[k] = c <=> Holds(c, k)
  BY Zenon, Running, Labels
<1>2. /\ lock[lk] = NoCpu /\ lock' = [lock EXCEPT ![lk] = c] /\ pc' = [pc EXCEPT ![c] = l]
      /\ noff' = noff /\ sie' = sie /\ intena' = intena /\ panicked' = panicked
  BY Zenon DEF exchange, Goto, cpus
<1>3. Locked'
  BY Zenon, <1>1, <1>2 DEF Locked
<1>4. \A d \in CPU \ {c} : pc'[d] = pc[d]
  BY Zenon, <1>1, <1>2 DEF Locked
<1>5. pc'[c] = l
  BY Zenon, <1>1, <1>2 DEF Locked
<1>6. Nesting(c)'
  BY Zenon, <1>1, <1>2, <1>5, Labels DEF Nesting
<1>7. \A k \in Lock : lock'[k] = IF k = lk THEN c ELSE lock[k]
  BY Zenon, <1>1, <1>2 DEF Locked
<1>8. \A k \in Lock : ~Holds(c, k)
  BY Zenon DEF Holds, Spinning
<1>9. \A k \in Lock : lock'[k] = c <=> Holds(c, k)'
  BY Zenon, <1>1, <1>7, <1>8
<1>10. \A k \in Lock, d \in CPU \ {c} : lock'[k] = d <=> lock[k] = d
  BY Zenon, <1>2, <1>7, Consts
<1>11. \A d \in CPU \ {c} :
        noff'[d] = noff[d] /\ intena'[d] = intena[d] /\ sie'[d] = sie[d] /\ pc'[d] = pc[d]
  BY Zenon, <1>2, <1>4
<1> QED BY Zenon, <1>1, <1>2, <1>3, <1>6, <1>9, <1>10, <1>11, ThreadLocks

\* release(), or sleep(), of the one lock it holds.
LEMMA ThreadRelease ==
  ASSUME LockInv, NEW c \in CPU, hcpu # c, NEW lk \in Lock, NEW l \in Elsewhere,
         pc[c] \in Holding, release(c, lk) \/ sleep(c, lk), Goto(c, l), hcpu' = hcpu, hpc' = hpc,
         \A k \in Lock : Holds(c, k) <=> k = lk
  PROVE  LockInv'
<1>1. /\ Locked /\ panicked = FALSE /\ intena[c] = TRUE /\ noff[c] = 1 /\ sie[c] = FALSE
      /\ \A k \in Lock : lock[k] = c <=> Holds(c, k)
  BY Zenon, Running, Labels
<1>2. lock[lk] = c /\ ~(noff[c] < 1) /\ noff[c] - 1 = 0
  BY <1>1
<1>3. /\ lock' = [lock EXCEPT ![lk] = NoCpu] /\ panicked' = FALSE
      /\ noff' = [noff EXCEPT ![c] = 0]
      /\ sie' = [sie EXCEPT ![c] = TRUE]
      /\ intena' = [intena EXCEPT ![c] = TRUE] \/ intena' = intena
  <2>1. CASE release(c, lk)
    BY Zenon, <1>1, <1>2, <2>1 DEF release, pop_off, holding
  <2>2. CASE sleep(c, lk)
    BY Zenon, <1>1, <1>2, <2>2 DEF sleep, holding
  <2> QED BY Zenon, <2>1, <2>2
<1>4. pc' = [pc EXCEPT ![c] = l]
  BY Zenon DEF Goto
<1>5. intena' \in [CPU -> BOOLEAN] /\ \A d \in CPU : intena'[d] = intena[d]
  BY Zenon, <1>1, <1>3 DEF Locked
<1>6. Locked'
  <2>1. 0 \in Nat
    OBVIOUS
  <2> QED BY Zenon, <1>1, <1>3, <1>4, <1>5, <2>1 DEF Locked
<1>7. \A d \in CPU \ {c} : noff'[d] = noff[d] /\ sie'[d] = sie[d] /\ pc'[d] = pc[d]
  BY Zenon, <1>1, <1>3, <1>4 DEF Locked
<1>8. noff'[c] = 0 /\ sie'[c] = TRUE /\ intena'[c] = TRUE /\ pc'[c] = l
  BY Zenon, <1>1, <1>3, <1>4, <1>5 DEF Locked
<1>9. Nesting(c)'
  BY Zenon, <1>8 DEF Nesting
<1>10. \A k \in Lock : lock'[k] = IF k = lk THEN NoCpu ELSE lock[k]
  BY Zenon, <1>1, <1>3 DEF Locked
<1>11. \A k \in Lock : ~Holds(c, k)'
  BY Zenon, <1>8 DEF Holds, Elsewhere
<1>12. \A k \in Lock : lock'[k] = c <=> Holds(c, k)'
  BY Zenon, <1>1, <1>10, <1>11, Consts
<1>13. \A k \in Lock, d \in CPU \ {c} : lock'[k] = d <=> lock[k] = d
  BY Zenon, <1>2, <1>10, Consts
<1>14. \A d \in CPU \ {c} :
        noff'[d] = noff[d] /\ intena'[d] = intena[d] /\ sie'[d] = sie[d] /\ pc'[d] = pc[d]
  BY Zenon, <1>5, <1>7
<1> QED BY Zenon, <1>3, <1>6, <1>9, <1>12, <1>13, <1>14, ThreadLocks

\* Steps that do nothing to locks: wakeup(), kkill(), and the wait of uartputc_sync().
LEMMA NoLocks ==
  ASSUME LockInv, lock' = lock, noff' = noff, intena' = intena, sie' = sie, panicked' = panicked,
         hcpu' = hcpu, pc' \in [CPU -> Spinning \cup Holding \cup Elsewhere],
         \A d \in CPU : \/ pc'[d] = pc[d]
                        \/ pc[d] \in Elsewhere /\ pc'[d] \in Elsewhere
                        \/ pc[d] \in {"printk", "printk_put"} /\ pc'[d] \in {"printk", "printk_put"},
         hpc' = hpc \/ {hpc, hpc'} \subseteq {"cons", "cons_put"}
  PROVE  LockInv'
<1>1. Locked /\ Holders /\ panicked = FALSE /\ (hcpu = NoCpu <=> hpc = "idle")
  BY Zenon DEF LockInv
<1>2. Locked'
  BY Zenon, <1>1 DEF Locked, HandlerOff
<1>3. hcpu' = NoCpu <=> hpc' = "idle"
  BY Zenon, <1>1
<1>4. \A lk \in Lock : HandlerHolds(lk)' <=> HandlerHolds(lk)
  BY Zenon DEF HandlerHolds
<1>5. ASSUME NEW d \in CPU, NEW lk \in Lock PROVE Holds(d, lk)' <=> Holds(d, lk)
  <2>1. CASE pc'[d] = pc[d]
    BY Zenon, <2>1 DEF Holds
  <2>2. CASE pc[d] \in Elsewhere /\ pc'[d] \in Elsewhere
    BY Zenon, <2>2 DEF Holds, Elsewhere
  <2>3. CASE pc[d] \in {"printk", "printk_put"} /\ pc'[d] \in {"printk", "printk_put"}
    BY Zenon, <2>3 DEF Holds
  <2> QED BY Zenon, <2>1, <2>2, <2>3
<1>6. Holders'
  BY Zenon, <1>1, <1>4, <1>5 DEF Holders
<1>7. ASSUME NEW d \in CPU PROVE Nesting(d)'
  <2>1. Nesting(d)
    BY Zenon DEF LockInv
  <2>2. hpc' \in HandlerOff <=> hpc \in HandlerOff
    BY Zenon DEF HandlerOff
  <2>3. pc'[d] \in Elsewhere <=> pc[d] \in Elsewhere
    BY Zenon DEF Elsewhere
  <2> QED BY Zenon, <2>1, <2>2, <2>3 DEF Nesting
<1> QED BY Zenon, <1>1, <1>2, <1>3, <1>6, <1>7 DEF LockInv

\* A step of the interrupt handler on CPU c.
LEMMA HandlerLocks ==
  ASSUME LockInv, NEW c \in CPU, hcpu \in {c, NoCpu}, hcpu' \in {c, NoCpu}, Locked',
         panicked' = FALSE, hcpu' = NoCpu <=> hpc' = "idle",
         \A d \in CPU : pc'[d] = pc[d] \/ (pc[d] \in Elsewhere /\ pc'[d] \in Elsewhere),
         \A d \in CPU \ {c} : noff'[d] = noff[d] /\ intena'[d] = intena[d] /\ sie'[d] = sie[d],
         \A lk \in Lock, d \in CPU \ {c} : lock'[lk] = d <=> lock[lk] = d,
         \A lk \in Lock : lock'[lk] = c <=> Holds(c, lk)' \/ (hcpu' = c /\ HandlerHolds(lk)'),
         Nesting(c)'
  PROVE  LockInv'
<1>1. ASSUME NEW d \in CPU PROVE Nesting(d)'
  <2>1. CASE d = c
    BY Zenon, <2>1
  <2>2. CASE d # c
    <3>1. Nesting(d)
      BY Zenon DEF LockInv
    <3>2. hcpu # d /\ hcpu' # d
      BY <2>2, Consts
    <3> QED BY Zenon, <2>2, <3>1, <3>2, NestingKept
  <2> QED BY Zenon, <2>1, <2>2
<1>2. ASSUME NEW lk \in Lock, NEW d \in CPU
      PROVE  lock'[lk] = d <=> Holds(d, lk)' \/ (hcpu' = d /\ HandlerHolds(lk)')
  <2>1. CASE d = c
    BY Zenon, <2>1
  <2>2. CASE d # c
    <3>1. Holds(d, lk)' <=> Holds(d, lk)
      BY Zenon, HoldsKept, Labels
    <3>2. hcpu # d /\ hcpu' # d
      BY <2>2, Consts
    <3>3. lock[lk] = d <=> Holds(d, lk) \/ (hcpu = d /\ HandlerHolds(lk))
      BY Zenon DEF LockInv, Holders
    <3> QED BY Zenon, <2>2, <3>1, <3>2, <3>3
  <2> QED BY Zenon, <2>1, <2>2
<1>3. Holders'
  BY Zenon, <1>2 DEF Holders
<1> QED BY Zenon, <1>1, <1>3 DEF LockInv

\* What LockInv says of the handler while it runs.
LEMMA Handling ==
  ASSUME LockInv, hpc # "idle"
  PROVE  /\ hcpu \in CPU /\ Locked /\ panicked = FALSE /\ pc[hcpu] \in Elsewhere /\ sie[hcpu] = FALSE
         /\ IF hpc \in HandlerOff THEN noff[hcpu] = 1 /\ intena[hcpu] = FALSE
            ELSE noff[hcpu] = 0 /\ intena[hcpu] = TRUE
         /\ \A lk \in Lock : lock[lk] = hcpu <=> HandlerHolds(lk)
         /\ \A lk \in Lock : ~Holds(hcpu, lk)
<1>1. /\ Locked /\ Holders /\ panicked = FALSE /\ (hcpu = NoCpu <=> hpc = "idle")
      /\ \A c \in CPU : Nesting(c)
  BY Zenon DEF LockInv
<1>2. hcpu \in CPU
  BY Zenon, <1>1 DEF Locked
<1>3. /\ pc[hcpu] \in Elsewhere /\ sie[hcpu] = FALSE
      /\ IF hpc \in HandlerOff THEN noff[hcpu] = 1 /\ intena[hcpu] = FALSE
         ELSE noff[hcpu] = 0 /\ intena[hcpu] = TRUE
  BY Zenon, <1>1, <1>2 DEF Nesting
<1>4. \A lk \in Lock : ~Holds(hcpu, lk)
  BY Zenon, <1>3 DEF Holds, Elsewhere
<1>5. \A lk \in Lock : lock[lk] = hcpu <=> HandlerHolds(lk)
  BY Zenon, <1>1, <1>2, <1>4 DEF Holders
<1> QED BY Zenon, <1>1, <1>2, <1>3, <1>4, <1>5

LEMMA HandlerAcquire ==
  ASSUME LockInv, hpc \in {"isr", "getc"}, NEW lk \in Lock, acquire(hcpu, lk),
         hpc' \in {"tx_spin", "cons_spin"}, hcpu' = hcpu, pc' = pc
  PROVE  LockInv'
<1>0. PICK c : c = hcpu
  OBVIOUS
<1>1. /\ c \in CPU /\ Locked /\ panicked = FALSE /\ pc[c] \in Elsewhere /\ sie[c] = FALSE
      /\ noff[c] = 0
      /\ \A k \in Lock : lock[k] = c <=> HandlerHolds(k)
      /\ \A k \in Lock : ~Holds(c, k)
  <2>1. hpc # "idle" /\ hpc \notin HandlerOff
    BY Zenon DEF HandlerOff
  <2> QED BY Zenon, <1>0, <2>1, Handling
<1>2. /\ noff' = [noff EXCEPT ![c] = noff[c] + 1]
      /\ sie' = [sie EXCEPT ![c] = FALSE]
      /\ intena' = [intena EXCEPT ![c] = sie[c]]
      /\ lock' = lock
      /\ panicked' = (panicked \/ lock[lk] = c)
  BY Zenon, <1>0, <1>1 DEF acquire, push_off, holding
<1>3. \A k \in Lock : ~HandlerHolds(k) /\ ~HandlerHolds(k)'
  BY Zenon DEF HandlerHolds
<1>4. panicked' = FALSE
  BY Zenon, <1>1, <1>2, <1>3
<1>5. noff[c] + 1 = 1 /\ noff[c] + 1 \in Nat
  BY <1>1
<1>6. hcpu = c /\ hcpu' = c
  BY Zenon, <1>0
<1>7. Locked'
  BY Zenon, <1>1, <1>2, <1>5 DEF Locked, HandlerOff
<1>8. \A d \in CPU \ {c} : noff'[d] = noff[d] /\ intena'[d] = intena[d] /\ sie'[d] = sie[d]
  BY Zenon, <1>1, <1>2 DEF Locked
<1>9. noff'[c] = 1 /\ sie'[c] = FALSE /\ intena'[c] = FALSE
  BY Zenon, <1>1, <1>2, <1>5 DEF Locked
<1>10. Nesting(c)'
  BY Zenon, <1>1, <1>6, <1>9 DEF Nesting, HandlerOff
<1>11. \A k \in Lock : lock'[k] = c <=> Holds(c, k)' \/ (hcpu' = c /\ HandlerHolds(k)')
  BY Zenon, <1>1, <1>2, <1>3 DEF Holds
<1>12. \A k \in Lock, d \in CPU \ {c} : lock'[k] = d <=> lock[k] = d
  BY Zenon, <1>2
<1>13. hcpu' = NoCpu <=> hpc' = "idle"
  BY Zenon, <1>1, <1>6, Consts
<1>14. \A d \in CPU : pc'[d] = pc[d] \/ (pc[d] \in Elsewhere /\ pc'[d] \in Elsewhere)
  BY Zenon
<1>15. hcpu \in {c, NoCpu} /\ hcpu' \in {c, NoCpu}
  BY Zenon, <1>6
<1> QED BY Zenon, <1>1, <1>4, <1>7, <1>8, <1>10, <1>11, <1>12, <1>13, <1>14, <1>15, HandlerLocks

LEMMA HandlerExchange ==
  ASSUME LockInv, hpc \in {"tx_spin", "cons_spin"}, NEW lk \in Lock, exchange(hcpu, lk),
         hpc' \in HandlerOff, hcpu' = hcpu, pc' = pc, \A k \in Lock : HandlerHolds(k)' <=> k = lk
  PROVE  LockInv'
<1>0. PICK c : c = hcpu
  OBVIOUS
<1>1. /\ c \in CPU /\ Locked /\ panicked = FALSE /\ pc[c] \in Elsewhere /\ sie[c] = FALSE
      /\ noff[c] = 1 /\ intena[c] = FALSE
      /\ \A k \in Lock : lock[k] = c <=> HandlerHolds(k)
      /\ \A k \in Lock : ~Holds(c, k)
  <2>1. hpc # "idle" /\ hpc \in HandlerOff
    BY Zenon DEF HandlerOff
  <2> QED BY Zenon, <1>0, <2>1, Handling
<1>2. /\ lock[lk] = NoCpu /\ lock' = [lock EXCEPT ![lk] = c]
      /\ noff' = noff /\ sie' = sie /\ intena' = intena /\ panicked' = panicked
  BY Zenon, <1>0 DEF exchange, cpus
<1>3. hcpu = c /\ hcpu' = c
  BY Zenon, <1>0
<1>4. Locked'
  BY Zenon, <1>1, <1>2 DEF Locked
<1>5. Nesting(c)'
  BY Zenon, <1>1, <1>2, <1>3 DEF Nesting
<1>6. \A k \in Lock : lock'[k] = IF k = lk THEN c ELSE lock[k]
  BY Zenon, <1>1, <1>2 DEF Locked
<1>7. \A k \in Lock : ~HandlerHolds(k) /\ ~Holds(c, k)'
  BY Zenon, <1>1 DEF HandlerHolds, Holds
<1>8. \A k \in Lock : lock'[k] = c <=> Holds(c, k)' \/ (hcpu' = c /\ HandlerHolds(k)')
  BY Zenon, <1>1, <1>3, <1>6, <1>7
<1>9. \A k \in Lock, d \in CPU \ {c} : lock'[k] = d <=> lock[k] = d
  BY Zenon, <1>2, <1>6, Consts
<1>10. hcpu' = NoCpu <=> hpc' = "idle"
  BY Zenon, <1>1, <1>3, Consts DEF HandlerOff
<1>11. \A d \in CPU : pc'[d] = pc[d] \/ (pc[d] \in Elsewhere /\ pc'[d] \in Elsewhere)
  BY Zenon
<1>12. hcpu \in {c, NoCpu} /\ hcpu' \in {c, NoCpu} /\ panicked' = FALSE
  BY Zenon, <1>1, <1>2, <1>3
<1>13. \A d \in CPU \ {c} : noff'[d] = noff[d] /\ intena'[d] = intena[d] /\ sie'[d] = sie[d]
  BY Zenon, <1>2
<1> QED BY Zenon, <1>1, <1>4, <1>5, <1>8, <1>9, <1>10, <1>11, <1>12, <1>13, HandlerLocks

LEMMA HandlerRelease ==
  ASSUME LockInv, hpc \in {"tx", "cons"}, NEW lk \in Lock, release(hcpu, lk),
         hpc' = "getc", hcpu' = hcpu, \A k \in Lock : HandlerHolds(k) <=> k = lk,
         pc' \in [CPU -> Spinning \cup Holding \cup Elsewhere],
         \A d \in CPU : pc'[d] = pc[d] \/ (pc[d] \in Elsewhere /\ pc'[d] \in Elsewhere)
  PROVE  LockInv'
<1>0. PICK c : c = hcpu
  OBVIOUS
<1>1. /\ c \in CPU /\ Locked /\ panicked = FALSE /\ pc[c] \in Elsewhere /\ sie[c] = FALSE
      /\ noff[c] = 1 /\ intena[c] = FALSE
      /\ \A k \in Lock : lock[k] = c <=> HandlerHolds(k)
      /\ \A k \in Lock : ~Holds(c, k)
  <2>1. hpc # "idle" /\ hpc \in HandlerOff
    BY Zenon DEF HandlerOff
  <2> QED BY Zenon, <1>0, <2>1, Handling
<1>2. lock[lk] = c /\ ~(noff[c] < 1) /\ noff[c] - 1 = 0
  BY <1>1
<1>3. /\ lock' = [lock EXCEPT ![lk] = NoCpu] /\ panicked' = FALSE
      /\ noff' = [noff EXCEPT ![c] = 0]
      /\ sie' = [sie EXCEPT ![c] = FALSE]
      /\ intena' = [intena EXCEPT ![c] = TRUE]
  BY Zenon, <1>0, <1>1, <1>2 DEF release, pop_off, holding
<1>4. hcpu = c /\ hcpu' = c
  BY Zenon, <1>0
<1>5. Locked'
  <2>1. 0 \in Nat
    OBVIOUS
  <2> QED BY Zenon, <1>1, <1>3, <2>1 DEF Locked
<1>6. \A d \in CPU \ {c} : noff'[d] = noff[d] /\ intena'[d] = intena[d] /\ sie'[d] = sie[d]
  BY Zenon, <1>1, <1>3 DEF Locked
<1>7. noff'[c] = 0 /\ sie'[c] = FALSE /\ intena'[c] = TRUE /\ pc'[c] \in Elsewhere
  BY Zenon, <1>1, <1>3 DEF Locked
<1>8. Nesting(c)'
  BY Zenon, <1>4, <1>7 DEF Nesting, HandlerOff
<1>9. \A k \in Lock : lock'[k] = IF k = lk THEN NoCpu ELSE lock[k]
  BY Zenon, <1>1, <1>3 DEF Locked
<1>10. \A k \in Lock : ~HandlerHolds(k)' /\ ~Holds(c, k)'
  BY Zenon, <1>7 DEF HandlerHolds, Holds, Elsewhere
<1>11. \A k \in Lock : lock'[k] = c <=> Holds(c, k)' \/ (hcpu' = c /\ HandlerHolds(k)')
  BY Zenon, <1>1, <1>9, <1>10, Consts
<1>12. \A k \in Lock, d \in CPU \ {c} : lock'[k] = d <=> lock[k] = d
  BY Zenon, <1>2, <1>9, Consts
<1>13. hcpu' = NoCpu <=> hpc' = "idle"
  BY Zenon, <1>1, <1>4, Consts
<1>14. hcpu \in {c, NoCpu} /\ hcpu' \in {c, NoCpu}
  BY Zenon, <1>4
<1> QED BY Zenon, <1>1, <1>3, <1>5, <1>6, <1>8, <1>11, <1>12, <1>13, <1>14, HandlerLocks

\* The trap, and the return from it.
LEMMA TrapLocks ==
  ASSUME LockInv, lock' = lock, noff' = noff, intena' = intena, panicked' = panicked, pc' = pc,
         \/ \E c \in CPU : /\ sie[c] /\ hpc = "idle" /\ hcpu' = c /\ hpc' = "isr"
                           /\ sie' = [sie EXCEPT ![c] = FALSE]
         \/ /\ hpc = "getc" /\ hcpu' = NoCpu /\ hpc' = "idle"
            /\ sie' = [sie EXCEPT ![hcpu] = TRUE]
  PROVE  LockInv'
<1>1. /\ Locked /\ Holders /\ panicked = FALSE /\ (hcpu = NoCpu <=> hpc = "idle")
      /\ \A c \in CPU : Nesting(c)
  BY Zenon DEF LockInv
<1>2. hcpu \in CPU \cup {NoCpu}
  BY Zenon, <1>1 DEF Locked
<1>3. PICK c \in CPU : hcpu \in {c, NoCpu} /\ hcpu' \in {c, NoCpu} /\
        \/ /\ sie[c] /\ hpc = "idle" /\ hcpu' = c /\ hpc' = "isr"
           /\ sie' = [sie EXCEPT ![c] = FALSE]
        \/ /\ hpc = "getc" /\ hcpu = c /\ hcpu' = NoCpu /\ hpc' = "idle"
           /\ sie' = [sie EXCEPT ![c] = TRUE]
  BY Zenon, <1>1, <1>2
<1>4. Locked'
  BY Zenon, <1>1, <1>3 DEF Locked
<1>5. Nesting(c)
  BY Zenon, <1>1
<1>6. \A d \in CPU \ {c} : noff'[d] = noff[d] /\ intena'[d] = intena[d] /\ sie'[d] = sie[d]
  BY Zenon, <1>1, <1>3 DEF Locked
<1>7. Nesting(c)'
  <2>1. CASE hpc = "idle"
    <3>1. hcpu # c /\ sie[c]
      BY Zenon, <1>1, <1>3, <2>1, Consts
    <3>2. pc[c] \in Elsewhere /\ noff[c] = 0 /\ intena[c] = TRUE
      BY Zenon, <1>5, <3>1 DEF Nesting
    <3>3. sie'[c] = FALSE /\ hcpu' = c /\ hpc' = "isr"
      BY Zenon, <1>1, <1>3, <2>1 DEF Locked
    <3> QED BY Zenon, <3>2, <3>3 DEF Nesting, HandlerOff
  <2>2. CASE hpc = "getc"
    <3>1. hcpu = c
      BY Zenon, <1>3, <2>2
    <3>2. pc[c] \in Elsewhere /\ noff[c] = 0 /\ intena[c] = TRUE
      BY Zenon, <1>5, <2>2, <3>1 DEF Nesting, HandlerOff
    <3>3. sie'[c] = TRUE /\ hcpu' # c
      BY Zenon, <1>1, <1>3, <2>2, Consts DEF Locked
    <3> QED BY Zenon, <3>2, <3>3 DEF Nesting
  <2> QED BY Zenon, <1>3, <2>1, <2>2
<1>8. \A k \in Lock : ~HandlerHolds(k) /\ ~HandlerHolds(k)'
  BY Zenon, <1>3 DEF HandlerHolds
<1>9. \A k \in Lock : Holds(c, k)' <=> Holds(c, k)
  BY Zenon DEF Holds
<1>10. \A k \in Lock : lock'[k] = c <=> Holds(c, k)' \/ (hcpu' = c /\ HandlerHolds(k)')
  BY Zenon, <1>1, <1>8, <1>9 DEF Holders
<1>11. \A k \in Lock, d \in CPU \ {c} : lock'[k] = d <=> lock[k] = d
  BY Zenon
<1>12. hcpu' = NoCpu <=> hpc' = "idle"
  BY Zenon, <1>3, Consts
<1>13. \A d \in CPU : pc'[d] = pc[d] \/ (pc[d] \in Elsewhere /\ pc'[d] \in Elsewhere)
  BY Zenon
<1>14. panicked' = FALSE /\ hcpu \in {c, NoCpu} /\ hcpu' \in {c, NoCpu}
  BY Zenon, <1>1, <1>3
<1> QED BY Zenon, <1>4, <1>6, <1>7, <1>10, <1>11, <1>12, <1>13, <1>14, HandlerLocks

-----------------------------------------------------------------------------
\* The device, and the traps.

LEMMA DeviceInd == ASSUME IndInv, Transmit \/ Receive PROVE IndInv'
<1>1. /\ r' = r /\ w' = w /\ e' = e /\ tx_busy' = tx_busy /\ lock' = lock /\ noff' = noff
      /\ intena' = intena /\ sie' = sie /\ pc' = pc /\ hcpu' = hcpu /\ hpc' = hpc
      /\ panicked' = panicked
  BY Zenon DEF Transmit, Receive, cons, cpus, thread, handler
<1>2. LockInv /\ Data /\ Awaited /\ Sleepers
  BY Zenon DEF IndInv
<1>3. fifo \in Nat /\ thri \in BOOLEAN
  BY Zenon, <1>2 DEF Data
<1>4. fifo' \in Nat /\ thri' \in BOOLEAN /\ (fifo > 0 \/ thri => fifo' > 0 \/ thri')
  <2>1. CASE Transmit
    <3>1. fifo' \in Nat /\ (fifo = 1 \/ fifo' > 0)
      BY <1>3, <2>1 DEF Transmit
    <3>2. thri' = (thri \/ fifo = 1)
      BY Zenon, <2>1 DEF Transmit
    <3> QED BY Zenon, <3>1, <3>2
  <2>2. CASE Receive
    BY Zenon, <1>3, <2>2 DEF Receive
  <2> QED BY Zenon, <2>1, <2>2
<1>5. LockInv'
  <2>1. pc' \in [CPU -> Spinning \cup Holding \cup Elsewhere]
    BY Zenon, <1>1, <1>2 DEF LockInv, Locked
  <2> QED BY Zenon, <1>1, <1>2, <2>1, NoLocks
<1>6. Data'
  BY Zenon, <1>1, <1>2, <1>4 DEF Data
<1>7. Awaited'
  BY Zenon, <1>1, <1>2, <1>4 DEF Awaited
<1>8. Sleepers'
  BY Zenon, <1>1, <1>2 DEF Sleepers
<1> QED BY Zenon, <1>5, <1>6, <1>7, <1>8 DEF IndInv

LEMMA InterruptInd == ASSUME IndInv, NEW c \in CPU, Interrupt(c) PROVE IndInv'
<1>1. /\ sie[c] /\ hpc = "idle" /\ hcpu' = c /\ hpc' = "isr"
      /\ sie' = [sie EXCEPT ![c] = FALSE]
  BY Zenon DEF Interrupt, plic_claim, HGoto
<1>2. /\ r' = r /\ w' = w /\ e' = e /\ tx_busy' = tx_busy /\ lock' = lock /\ noff' = noff
      /\ intena' = intena /\ pc' = pc /\ panicked' = panicked /\ fifo' = fifo /\ thri' = thri
  BY Zenon DEF Interrupt, cons, thread, uart
<1>3. LockInv /\ Data /\ Awaited /\ Sleepers
  BY Zenon DEF IndInv
<1>4. LockInv'
  BY Zenon, <1>1, <1>2, <1>3, TrapLocks
<1>5. Data'
  BY Zenon, <1>2, <1>3 DEF Data
<1>6. Awaited'
  BY Zenon, <1>1, <1>2, <1>3 DEF Awaited
<1>7. Sleepers'
  BY Zenon, <1>2, <1>3 DEF Sleepers
<1> QED BY Zenon, <1>4, <1>5, <1>6, <1>7 DEF IndInv

-----------------------------------------------------------------------------
\* System calls.

LEMMA LockNames == "cons" \in Lock /\ "tx" \in Lock /\ "pr" \in Lock
BY DEF Lock

LEMMA CallInd == ASSUME IndInv, NEW c \in CPU, hcpu # c, Call(c) PROVE IndInv'
<1>1. /\ r' = r /\ w' = w /\ e' = e /\ tx_busy' = tx_busy /\ fifo' = fifo /\ thri' = thri
      /\ hcpu' = hcpu /\ hpc' = hpc
  BY Zenon DEF Call, cons, handler, uart
<1>2. LockInv /\ Data /\ Awaited /\ Sleepers
  BY Zenon DEF IndInv
<1>3. PICK lk \in Lock, l \in Spinning : acquire(c, lk) /\ Goto(c, l)
  BY Zenon, LockNames DEF Call, Spinning
<1>4. pc[c] \in Elsewhere
  BY Zenon DEF Call, Elsewhere
<1>5. LockInv'
  BY Zenon, <1>1, <1>2, <1>3, <1>4, ThreadAcquire
<1>6. Data'
  BY Zenon, <1>1, <1>2 DEF Data
<1>7. Awaited'
  BY Zenon, <1>1, <1>2 DEF Awaited
<1>8. \A d \in CPU : pc'[d] = IF d = c THEN l ELSE pc[d]
  BY Zenon, <1>2, <1>3 DEF Goto, LockInv, Locked
<1>9. Sleepers'
  BY <1>1, <1>2, <1>8 DEF Sleepers, Spinning
<1> QED BY Zenon, <1>5, <1>6, <1>7, <1>9 DEF IndInv

LEMMA LockStepInd == ASSUME IndInv, NEW c \in CPU, hcpu # c, LockStep(c) PROVE IndInv'
<1>1. /\ r' = r /\ w' = w /\ e' = e /\ tx_busy' = tx_busy /\ fifo' = fifo /\ thri' = thri
      /\ hcpu' = hcpu /\ hpc' = hpc
  BY Zenon DEF LockStep, cons, handler, uart
<1>2. LockInv /\ Data /\ Awaited /\ Sleepers
  BY Zenon DEF IndInv
<1>3. Data'
  BY Zenon, <1>1, <1>2 DEF Data
<1>4. Awaited'
  BY Zenon, <1>1, <1>2 DEF Awaited
<1>5. \A l : Goto(c, l) => \A d \in CPU : pc'[d] = IF d = c THEN l ELSE pc[d]
  BY Zenon, <1>2 DEF Goto, LockInv, Locked
<1>6. ASSUME NEW lk \in Lock, NEW l \in Spinning, pc[c] \in Elsewhere, acquire(c, lk), Goto(c, l)
      PROVE  LockInv' /\ Sleepers'
  <2>1. LockInv'
    BY Zenon, <1>1, <1>2, <1>6, ThreadAcquire
  <2>2. \A d \in CPU : pc'[d] = IF d = c THEN l ELSE pc[d]
    BY Zenon, <1>5, <1>6
  <2>3. Sleepers'
    BY <1>1, <1>2, <2>2 DEF Sleepers, Spinning
  <2> QED BY Zenon, <2>1, <2>3
<1>7. ASSUME NEW lk \in Lock, NEW l \in Holding, pc[c] \in Spinning, exchange(c, lk), Goto(c, l),
             <<lk, l>> \in {<<"cons", "read">>, <<"tx", "write">>, <<"pr", "printk">>}
      PROVE  LockInv' /\ Sleepers'
  <2>1. \A d \in CPU : pc'[d] = IF d = c THEN l ELSE pc[d]
    BY Zenon, <1>5, <1>7
  <2>2. \A k \in Lock : Holds(c, k)' <=> k = lk
    BY <1>7, <2>1 DEF Holds, Lock
  <2>3. LockInv'
    BY Zenon, <1>1, <1>2, <1>7, <2>2, ThreadExchange
  <2>4. Sleepers'
    BY <1>1, <1>2, <2>1 DEF Sleepers, Holding
  <2> QED BY Zenon, <2>3, <2>4
<1>8. CASE pc[c] = "read_spin" /\ exchange(c, "cons") /\ Goto(c, "read")
  <2>1. "read" \in Holding /\ pc[c] \in Spinning
    BY Zenon, <1>8 DEF Holding, Spinning
  <2> QED BY Zenon, <1>3, <1>4, <1>7, <1>8, <2>1, LockNames DEF IndInv
<1>9. CASE pc[c] = "write_spin" /\ exchange(c, "tx") /\ Goto(c, "write")
  <2>1. "write" \in Holding /\ pc[c] \in Spinning
    BY Zenon, <1>9 DEF Holding, Spinning
  <2> QED BY Zenon, <1>3, <1>4, <1>7, <1>9, <2>1, LockNames DEF IndInv
<1>10. CASE pc[c] = "printk_spin" /\ exchange(c, "pr") /\ Goto(c, "printk")
  <2>1. "printk" \in Holding /\ pc[c] \in Spinning
    BY Zenon, <1>10 DEF Holding, Spinning
  <2> QED BY Zenon, <1>3, <1>4, <1>7, <1>10, <2>1, LockNames DEF IndInv
<1>11. CASE pc[c] = "read_woken" /\ acquire(c, "cons") /\ Goto(c, "read_spin")
  <2>1. "read_spin" \in Spinning /\ pc[c] \in Elsewhere
    BY Zenon, <1>11 DEF Elsewhere, Spinning
  <2> QED BY Zenon, <1>3, <1>4, <1>6, <1>11, <2>1, LockNames DEF IndInv
<1>12. CASE pc[c] = "write_woken" /\ acquire(c, "tx") /\ Goto(c, "write_spin")
  <2>1. "write_spin" \in Spinning /\ pc[c] \in Elsewhere
    BY Zenon, <1>12 DEF Elsewhere, Spinning
  <2> QED BY Zenon, <1>3, <1>4, <1>6, <1>12, <2>1, LockNames DEF IndInv
<1> QED BY Zenon, <1>8, <1>9, <1>10, <1>11, <1>12 DEF LockStep

LEMMA WriteInd == ASSUME IndInv, NEW c \in CPU, hcpu # c, uartwrite(c) PROVE IndInv'
<1>1. /\ r' = r /\ w' = w /\ e' = e /\ hcpu' = hcpu /\ hpc' = hpc /\ pc[c] = "write"
  BY Zenon DEF uartwrite, cons, handler
<1>2. LockInv /\ Data /\ Awaited /\ Sleepers /\ fifo \in Nat
  BY Zenon DEF IndInv, Data
<1>3. pc[c] \in Holding /\ \A lk \in Lock : Holds(c, lk) <=> lk = "tx"
  BY Zenon, <1>1 DEF Holds, Holding
<1>4. \A l : Goto(c, l) => \A d \in CPU : pc'[d] = IF d = c THEN l ELSE pc[d]
  BY Zenon, <1>2 DEF Goto, LockInv, Locked
<1>5. ASSUME NEW l \in {"user", "write_sleep"}, release(c, "tx") \/ sleep(c, "tx"), Goto(c, l),
             l = "write_sleep" => tx_busy, UNCHANGED <<tx_busy, uart>>
      PROVE  IndInv'
  <2>1. tx_busy' = tx_busy /\ fifo' = fifo /\ thri' = thri
    BY Zenon, <1>5 DEF uart
  <2>2. l \in Elsewhere
    BY Zenon DEF Elsewhere
  <2>3. LockInv'
    BY Zenon, <1>1, <1>2, <1>3, <1>5, <2>2, LockNames, ThreadRelease
  <2>4. Data' /\ Awaited'
    BY Zenon, <1>1, <1>2, <2>1 DEF Data, Awaited
  <2>5. \A d \in CPU : pc'[d] = IF d = c THEN l ELSE pc[d]
    BY Zenon, <1>4, <1>5
  <2>6. Sleepers'
    BY <1>1, <1>2, <1>5, <2>1, <2>5 DEF Sleepers
  <2> QED BY Zenon, <2>3, <2>4, <2>6 DEF IndInv
<1>6. CASE tx_busy /\ sleep(c, "tx") /\ Goto(c, "write_sleep") /\ UNCHANGED <<tx_busy, uart>>
  <2>1. "write_sleep" \in {"user", "write_sleep"}
    BY Zenon
  <2> QED BY Zenon, <1>5, <1>6, <2>1
<1>7. CASE WriteTHR /\ tx_busy' = TRUE /\ UNCHANGED <<pc, lock, cpus, panicked>>
  <2>1. fifo' \in Nat /\ fifo' > 0
    BY <1>2, <1>7 DEF WriteTHR
  <2>2. /\ thri' = FALSE /\ pc' = pc /\ lock' = lock /\ noff' = noff /\ intena' = intena
        /\ sie' = sie /\ panicked' = panicked
    BY Zenon, <1>7 DEF WriteTHR, cpus
  <2>3. pc' \in [CPU -> Spinning \cup Holding \cup Elsewhere]
    BY Zenon, <1>2, <2>2 DEF LockInv, Locked
  <2>4. LockInv'
    BY Zenon, <1>1, <1>2, <2>2, <2>3, NoLocks
  <2>5. Data' /\ Awaited'
    BY Zenon, <1>1, <1>2, <1>7, <2>1, <2>2 DEF Data, Awaited
  <2>6. Sleepers'
    BY Zenon, <1>1, <1>2, <1>7, <2>2 DEF Sleepers
  <2> QED BY Zenon, <2>4, <2>5, <2>6 DEF IndInv
<1>8. CASE release(c, "tx") /\ Goto(c, "user") /\ UNCHANGED <<tx_busy, uart>>
  <2>1. "user" \in {"user", "write_sleep"} /\ "user" # "write_sleep"
    BY Zenon
  <2> QED BY Zenon, <1>5, <1>8, <2>1
<1> QED BY Zenon, <1>6, <1>7, <1>8 DEF uartwrite

LEMMA PrintkInd == ASSUME IndInv, NEW c \in CPU, hcpu # c, printk(c) PROVE IndInv'
<1>1. /\ r' = r /\ w' = w /\ e' = e /\ hcpu' = hcpu /\ hpc' = hpc /\ tx_busy' = tx_busy
  BY Zenon DEF printk, cons, handler
<1>2. LockInv /\ Data /\ Awaited /\ Sleepers /\ fifo \in Nat
  BY Zenon DEF IndInv, Data
<1>3. \A l : Goto(c, l) => \A d \in CPU : pc'[d] = IF d = c THEN l ELSE pc[d]
  BY Zenon, <1>2 DEF Goto, LockInv, Locked
<1>4. CASE pc[c] = "printk" /\ Goto(c, "printk_put") /\ UNCHANGED <<lock, cpus, panicked, uart>>
  <2>1. /\ thri' = thri /\ fifo' = fifo /\ lock' = lock /\ noff' = noff /\ intena' = intena
        /\ sie' = sie /\ panicked' = panicked
    BY Zenon, <1>4 DEF uart, cpus
  <2>2. \A d \in CPU : pc'[d] = IF d = c THEN "printk_put" ELSE pc[d]
    BY Zenon, <1>3, <1>4
  <2>3. pc' \in [CPU -> Spinning \cup Holding \cup Elsewhere]
    BY Zenon, <1>2, <1>4 DEF LockInv, Locked, Goto, Holding
  <2>4. \A d \in CPU : \/ pc'[d] = pc[d]
                       \/ pc[d] \in Elsewhere /\ pc'[d] \in Elsewhere
                       \/ pc[d] \in {"printk", "printk_put"} /\ pc'[d] \in {"printk", "printk_put"}
    BY <1>4, <2>2
  <2>5. LockInv'
    BY Zenon, <1>1, <1>2, <2>1, <2>3, <2>4, NoLocks
  <2>6. Data' /\ Awaited'
    BY Zenon, <1>1, <1>2, <2>1 DEF Data, Awaited
  <2>7. Sleepers'
    BY <1>1, <1>2, <2>2 DEF Sleepers
  <2> QED BY Zenon, <2>5, <2>6, <2>7 DEF IndInv
<1>5. CASE pc[c] = "printk_put" /\ WriteTHR /\ release(c, "pr") /\ Goto(c, "user")
  <2>1. fifo' \in Nat /\ fifo' > 0
    BY <1>2, <1>5 DEF WriteTHR
  <2>2. thri' = FALSE
    BY Zenon, <1>5 DEF WriteTHR
  <2>3. pc[c] \in Holding /\ "user" \in Elsewhere /\ \A lk \in Lock : Holds(c, lk) <=> lk = "pr"
    BY Zenon, <1>5 DEF Holds, Holding, Elsewhere
  <2>4. LockInv'
    BY Zenon, <1>1, <1>2, <1>5, <2>3, LockNames, ThreadRelease
  <2>5. Data' /\ Awaited'
    BY Zenon, <1>1, <1>2, <2>1, <2>2 DEF Data, Awaited
  <2>6. \A d \in CPU : pc'[d] = IF d = c THEN "user" ELSE pc[d]
    BY Zenon, <1>3, <1>5
  <2>7. Sleepers'
    BY <1>1, <1>2, <2>6 DEF Sleepers
  <2> QED BY Zenon, <2>4, <2>5, <2>7 DEF IndInv
<1> QED BY Zenon, <1>4, <1>5 DEF printk

\* A process that is woken held nothing and holds nothing.
LEMMA Wakes ==
  ASSUME Locked, NEW S \in SUBSET CPU, NEW l \in {"read_sleep", "write_sleep"},
         pc' = [d \in CPU |-> IF d \in S /\ pc[d] = l THEN Woken[l] ELSE pc[d]]
  PROVE  /\ pc' \in [CPU -> Spinning \cup Holding \cup Elsewhere]
         /\ \A d \in CPU : \/ pc'[d] = pc[d] /\ ~(d \in S /\ pc[d] = l)
                           \/ /\ pc[d] \in Elsewhere /\ pc'[d] \in Elsewhere
                              /\ pc'[d] \notin {"read_sleep", "write_sleep"}
<1>1. Woken[l] \in {"read_woken", "write_woken"}
  BY DEF Woken
<1>2. Woken[l] \in Elsewhere /\ Woken[l] \notin {"read_sleep", "write_sleep"} /\ l \in Elsewhere
  BY Zenon, <1>1 DEF Elsewhere
<1>3. \A d \in CPU : pc'[d] = IF d \in S /\ pc[d] = l THEN Woken[l] ELSE pc[d]
  BY Zenon
<1>4. \A d \in CPU : pc[d] \in Spinning \cup Holding \cup Elsewhere
  BY Zenon DEF Locked
<1> QED BY Zenon, <1>2, <1>3, <1>4

LEMMA KillInd == ASSUME IndInv, NEW c \in CPU, Kill(c) PROVE IndInv'
<1>1. /\ r' = r /\ w' = w /\ e' = e /\ tx_busy' = tx_busy /\ lock' = lock /\ noff' = noff
      /\ intena' = intena /\ sie' = sie /\ hcpu' = hcpu /\ hpc' = hpc
      /\ panicked' = panicked /\ fifo' = fifo /\ thri' = thri
  BY Zenon DEF Kill, cons, cpus, handler, uart
<1>2. LockInv /\ Data /\ Awaited /\ Sleepers /\ Locked
  BY Zenon DEF IndInv, LockInv
<1>3. PICK l \in {"read_sleep", "write_sleep"} :
        pc' = [d \in CPU |-> IF d \in {c} /\ pc[d] = l THEN Woken[l] ELSE pc[d]]
  <2>1. pc' = [pc EXCEPT ![c] = IF pc[c] \in DOMAIN Woken THEN Woken[pc[c]] ELSE pc[c]]
    BY Zenon DEF Kill
  <2>2. DOMAIN Woken = {"read_sleep", "write_sleep"}
    BY DEF Woken
  <2>3. pc \in [CPU -> Spinning \cup Holding \cup Elsewhere]
    BY Zenon, <1>2 DEF Locked
  <2> HIDE DEF Woken
  <2>4. CASE pc[c] \in DOMAIN Woken
    <3>1. pc' = [d \in CPU |-> IF d \in {c} /\ pc[d] = pc[c] THEN Woken[pc[c]] ELSE pc[d]]
      BY Zenon, <2>1, <2>3, <2>4
    <3> QED BY Zenon, <2>2, <2>4, <3>1
  <2>5. CASE pc[c] \notin DOMAIN Woken
    <3>1. pc[c] # "read_sleep"
      BY Zenon, <2>2, <2>5
    <3>2. pc' = [d \in CPU |-> IF d \in {c} /\ pc[d] = "read_sleep" THEN Woken["read_sleep"] ELSE pc[d]]
      BY Zenon, <2>1, <2>3, <2>5, <3>1
    <3> QED BY Zenon, <3>2
  <2> QED BY Zenon, <2>4, <2>5
<1>4. /\ pc' \in [CPU -> Spinning \cup Holding \cup Elsewhere]
      /\ \A d \in CPU : \/ pc'[d] = pc[d]
                        \/ /\ pc[d] \in Elsewhere /\ pc'[d] \in Elsewhere
                           /\ pc'[d] \notin {"read_sleep", "write_sleep"}
  BY Zenon, <1>2, <1>3, Wakes
<1>5. LockInv'
  BY Zenon, <1>1, <1>2, <1>4, NoLocks
<1>6. Data' /\ Awaited'
  BY Zenon, <1>1, <1>2 DEF Data, Awaited
<1>7. Sleepers'
  BY Zenon, <1>1, <1>2, <1>4 DEF Sleepers
<1> QED BY Zenon, <1>5, <1>6, <1>7 DEF IndInv

-----------------------------------------------------------------------------
\* The interrupt handler.

LEMMA AckInd == ASSUME IndInv, uartintr_ack PROVE IndInv'
<1>1. /\ r' = r /\ w' = w /\ e' = e /\ tx_busy' = tx_busy /\ pc' = pc /\ hcpu' = hcpu
      /\ fifo' = fifo /\ hpc = "isr" /\ hpc' = "tx_spin" /\ acquire(hcpu, "tx")
      /\ thri' = (thri /\ rx # <<>>)
  BY Zenon DEF uartintr_ack, cons, thread, HGoto
<1>2. LockInv /\ Data /\ Awaited /\ Sleepers
  BY Zenon DEF IndInv
<1>3. LockInv'
  BY Zenon, <1>1, <1>2, LockNames, HandlerAcquire
<1>4. Data' /\ Awaited' /\ Sleepers'
  BY Zenon, <1>1, <1>2 DEF Data, Awaited, Sleepers
<1> QED BY Zenon, <1>3, <1>4 DEF IndInv

LEMMA TxLockInd == ASSUME IndInv, uartintr_lock PROVE IndInv'
<1>1. /\ r' = r /\ w' = w /\ e' = e /\ tx_busy' = tx_busy /\ pc' = pc /\ hcpu' = hcpu
      /\ fifo' = fifo /\ thri' = thri /\ hpc = "tx_spin" /\ hpc' = "tx" /\ exchange(hcpu, "tx")
  BY Zenon DEF uartintr_lock, cons, thread, uart, HGoto
<1>2. LockInv /\ Data /\ Awaited /\ Sleepers
  BY Zenon DEF IndInv
<1>3. hpc' \in HandlerOff /\ \A k \in Lock : HandlerHolds(k)' <=> k = "tx"
  BY <1>1 DEF HandlerHolds, HandlerOff
<1>4. LockInv'
  BY Zenon, <1>1, <1>2, <1>3, LockNames, HandlerExchange
<1>5. Data' /\ Awaited' /\ Sleepers'
  BY Zenon, <1>1, <1>2 DEF Data, Awaited, Sleepers
<1> QED BY Zenon, <1>4, <1>5 DEF IndInv

LEMMA TxInd == ASSUME IndInv, uartintr_tx PROVE IndInv'
<1>1. /\ r' = r /\ w' = w /\ e' = e /\ hcpu' = hcpu /\ fifo' = fifo /\ thri' = thri
      /\ hpc = "tx" /\ hpc' = "getc" /\ release(hcpu, "tx")
  BY Zenon DEF uartintr_tx, cons, uart, HGoto
<1>2. LockInv /\ Data /\ Awaited /\ Sleepers /\ Locked /\ fifo \in Nat
  BY Zenon DEF IndInv, LockInv, Data
<1>3. \A k \in Lock : HandlerHolds(k) <=> k = "tx"
  BY <1>1 DEF HandlerHolds
<1>4. CASE TxIdle /\ tx_busy' = FALSE /\ wakeup("write_sleep")
  <2>1. pc' = [d \in CPU |-> IF d \in CPU /\ pc[d] = "write_sleep" THEN Woken["write_sleep"] ELSE pc[d]]
    BY Zenon, <1>4 DEF wakeup
  <2>2. /\ pc' \in [CPU -> Spinning \cup Holding \cup Elsewhere]
        /\ \A d \in CPU : \/ pc'[d] = pc[d] /\ pc[d] # "write_sleep"
                          \/ /\ pc[d] \in Elsewhere /\ pc'[d] \in Elsewhere
                             /\ pc'[d] \notin {"read_sleep", "write_sleep"}
    <3>1. CPU \in SUBSET CPU /\ "write_sleep" \in {"read_sleep", "write_sleep"}
      BY Zenon
    <3> QED BY Zenon, <1>2, <2>1, <3>1, Wakes
  <2>3. LockInv'
    BY Zenon, <1>1, <1>2, <1>3, <2>2, LockNames, HandlerRelease
  <2>4. Data' /\ Awaited'
    BY Zenon, <1>1, <1>2, <1>4 DEF Data, Awaited
  <2>5. Sleepers'
    BY Zenon, <1>1, <1>2, <2>2 DEF Sleepers
  <2> QED BY Zenon, <2>3, <2>4, <2>5 DEF IndInv
<1>5. CASE ~TxIdle /\ UNCHANGED <<tx_busy, pc>>
  <2>1. fifo > 0
    BY <1>2, <1>5 DEF TxIdle
  <2>2. pc' \in [CPU -> Spinning \cup Holding \cup Elsewhere] /\ pc' = pc /\ tx_busy' = tx_busy
    BY Zenon, <1>2, <1>5 DEF Locked
  <2>3. LockInv'
    BY Zenon, <1>1, <1>2, <1>3, <2>2, LockNames, HandlerRelease
  <2>4. Data' /\ Awaited' /\ Sleepers'
    BY Zenon, <1>1, <1>2, <2>1, <2>2 DEF Data, Awaited, Sleepers
  <2> QED BY Zenon, <2>3, <2>4 DEF IndInv
<1> QED BY Zenon, <1>4, <1>5 DEF uartintr_tx

LEMMA GetcInd == ASSUME IndInv, uartgetc PROVE IndInv'
<1>1. /\ r' = r /\ w' = w /\ e' = e /\ tx_busy' = tx_busy /\ pc' = pc
      /\ fifo' = fifo /\ thri' = thri /\ hpc = "getc"
  BY Zenon DEF uartgetc, cons, thread
<1>2. LockInv /\ Data /\ Awaited /\ Sleepers
  BY Zenon DEF IndInv
<1>3. CASE plic_complete /\ sie' = [sie EXCEPT ![hcpu] = TRUE] /\ UNCHANGED <<lock, noff, intena, panicked>>
  <2>1. /\ hcpu' = NoCpu /\ hpc' = "idle" /\ lock' = lock /\ noff' = noff /\ intena' = intena
        /\ panicked' = panicked
    BY Zenon, <1>3 DEF plic_complete, HGoto
  <2> QED BY Zenon, <1>1, <1>2, <1>3, <2>1, TrapLocks
                 DEF IndInv, Data, Awaited, Sleepers
<1>4. CASE acquire(hcpu, "cons") /\ HGoto("cons_spin") /\ hcpu' = hcpu
  <2>1. hpc' = "cons_spin"
    BY Zenon, <1>4 DEF HGoto
  <2> QED BY Zenon, <1>1, <1>2, <1>4, <2>1, LockNames, HandlerAcquire
                 DEF IndInv, Data, Awaited, Sleepers
<1> QED BY Zenon, <1>3, <1>4 DEF uartgetc

LEMMA ConsLockInd == ASSUME IndInv, consoleintr_lock PROVE IndInv'
<1>1. /\ r' = r /\ w' = w /\ e' = e /\ tx_busy' = tx_busy /\ pc' = pc /\ hcpu' = hcpu
      /\ fifo' = fifo /\ thri' = thri /\ hpc = "cons_spin" /\ hpc' = "cons" /\ exchange(hcpu, "cons")
  BY Zenon DEF consoleintr_lock, cons, thread, uart, HGoto
<1>2. LockInv /\ Data /\ Awaited /\ Sleepers
  BY Zenon DEF IndInv
<1>3. hpc' \in HandlerOff /\ \A k \in Lock : HandlerHolds(k)' <=> k = "cons"
  BY <1>1 DEF HandlerHolds, HandlerOff
<1>4. LockInv'
  BY Zenon, <1>1, <1>2, <1>3, LockNames, HandlerExchange
<1>5. Data' /\ Awaited' /\ Sleepers'
  BY Zenon, <1>1, <1>2 DEF Data, Awaited, Sleepers
<1> QED BY Zenon, <1>4, <1>5 DEF IndInv

LEMMA PutcInd == ASSUME IndInv, uartputc_sync PROVE IndInv'
<1>1. /\ r' = r /\ w' = w /\ e' = e /\ tx_busy' = tx_busy /\ lock' = lock /\ noff' = noff
      /\ intena' = intena /\ sie' = sie /\ pc' = pc /\ hcpu' = hcpu /\ panicked' = panicked
  BY Zenon DEF uartputc_sync, cons, cpus, thread
<1>2. LockInv /\ Data /\ Awaited /\ Sleepers /\ Locked /\ fifo \in Nat
  BY Zenon DEF IndInv, LockInv, Data
<1>3. {hpc, hpc'} \subseteq {"cons", "cons_put"} /\ hpc \notin {"tx_spin", "tx"}
  BY DEF uartputc_sync, HGoto
<1>4. LockInv'
  <2>1. pc' \in [CPU -> Spinning \cup Holding \cup Elsewhere]
    BY Zenon, <1>1, <1>2 DEF Locked
  <2> QED BY Zenon, <1>1, <1>2, <1>3, <2>1, NoLocks
<1>5. fifo' \in Nat /\ thri' \in BOOLEAN /\ (fifo > 0 \/ thri => fifo' > 0 \/ thri')
  <2>1. CASE UNCHANGED uart
    BY Zenon, <1>2, <2>1 DEF uart, Data
  <2>2. CASE WriteTHR
    <3>1. fifo' \in Nat /\ fifo' > 0
      BY <1>2, <2>2 DEF WriteTHR
    <3> QED BY Zenon, <2>2, <3>1 DEF WriteTHR
  <2> QED BY Zenon, <2>1, <2>2 DEF uartputc_sync
<1>6. Data' /\ Awaited' /\ Sleepers'
  BY Zenon, <1>1, <1>2, <1>3, <1>5 DEF Data, Awaited, Sleepers
<1> QED BY Zenon, <1>4, <1>6 DEF IndInv

\* consoleintr() moves the index of the ended lines only when it wakes every reader.
LEMMA EditsIndex ==
  ASSUME Data, consoleintr
  PROVE  /\ e' \in 0 .. UintMod - 1
         /\ (w' = w /\ pc' = pc) \/ (w' = e' /\ wakeup("read_sleep"))
<1>1. e \in 0 .. UintMod - 1 /\ w \in 0 .. UintMod - 1
  BY Zenon DEF Data
<1>2. KillLine \in Int
  BY <1>1, Consts, InIndex DEF KillLine, Dist
<1>3. (e - KillLine) % UintMod \in 0 .. UintMod - 1
  BY <1>1, <1>2, InIndex
<1>4. (e - 1) % UintMod \in 0 .. UintMod - 1 /\ (e + 1) % UintMod \in 0 .. UintMod - 1
  BY <1>1, InIndex
<1>5. CASE /\ e' = CASE hc = "^U" -> (e - KillLine) % UintMod
                     [] hc = "^H" -> IF e # w THEN (e - 1) % UintMod ELSE e
                     [] OTHER     -> e
           /\ UNCHANGED <<buf, w, pc>>
  <2>1. "^U" # "^H"
    BY Zenon
  <2>2. e' \in 0 .. UintMod - 1
    BY Zenon, <1>1, <1>3, <1>4, <1>5, <2>1
  <2> QED BY Zenon, <1>5, <2>2
<1>6. CASE /\ e' = (e + 1) % UintMod
           /\ IF Ends(hc) THEN w' = e' /\ wakeup("read_sleep") ELSE UNCHANGED <<w, pc>>
  BY Zenon, <1>4, <1>6
<1> QED BY Zenon, <1>5, <1>6 DEF consoleintr

LEMMA EditInd == ASSUME IndInv, consoleintr PROVE IndInv'
<1>1. /\ r' = r /\ tx_busy' = tx_busy /\ hcpu' = hcpu /\ fifo' = fifo /\ thri' = thri
      /\ hpc = "cons" /\ hpc' = "getc" /\ release(hcpu, "cons")
  BY Zenon DEF consoleintr, uart, HGoto
<1>2. LockInv /\ Data /\ Awaited /\ Sleepers /\ Locked
  BY Zenon DEF IndInv, LockInv
<1>3. /\ e' \in 0 .. UintMod - 1
      /\ (w' = w /\ pc' = pc) \/ (w' = e' /\ wakeup("read_sleep"))
  BY Zenon, <1>2, EditsIndex
<1>4. \A k \in Lock : HandlerHolds(k) <=> k = "cons"
  BY <1>1 DEF HandlerHolds
<1>5. Data'
  BY Zenon, <1>1, <1>2, <1>3 DEF Data
<1>6. Awaited'
  <2>1. hpc \notin {"tx_spin", "tx"}
    BY Zenon, <1>1
  <2> QED BY Zenon, <1>1, <1>2, <2>1 DEF Awaited
<1>7. CASE w' = w /\ pc' = pc
  <2>1. pc' \in [CPU -> Spinning \cup Holding \cup Elsewhere]
    BY Zenon, <1>2, <1>7 DEF Locked
  <2>2. LockInv'
    BY Zenon, <1>1, <1>2, <1>4, <1>7, <2>1, LockNames, HandlerRelease
  <2>3. Sleepers'
    BY Zenon, <1>1, <1>2, <1>7 DEF Sleepers
  <2> QED BY Zenon, <1>5, <1>6, <2>2, <2>3 DEF IndInv
<1>8. CASE wakeup("read_sleep")
  <2>1. pc' = [d \in CPU |-> IF d \in CPU /\ pc[d] = "read_sleep" THEN Woken["read_sleep"] ELSE pc[d]]
    BY Zenon, <1>8 DEF wakeup
  <2>2. /\ pc' \in [CPU -> Spinning \cup Holding \cup Elsewhere]
        /\ \A d \in CPU : \/ pc'[d] = pc[d] /\ pc[d] # "read_sleep"
                          \/ /\ pc[d] \in Elsewhere /\ pc'[d] \in Elsewhere
                             /\ pc'[d] \notin {"read_sleep", "write_sleep"}
    <3>1. CPU \in SUBSET CPU /\ "read_sleep" \in {"read_sleep", "write_sleep"}
      BY Zenon
    <3> QED BY Zenon, <1>2, <2>1, <3>1, Wakes
  <2>3. LockInv'
    BY Zenon, <1>1, <1>2, <1>4, <2>2, LockNames, HandlerRelease
  <2>4. Sleepers'
    BY Zenon, <1>1, <1>2, <2>2 DEF Sleepers
  <2> QED BY Zenon, <1>5, <1>6, <2>3, <2>4 DEF IndInv
<1> QED BY Zenon, <1>3, <1>7, <1>8

-----------------------------------------------------------------------------
\* Arithmetic of the indices.

LEMMA ModRange == ASSUME NEW m \in Nat \ {0}, NEW x \in Int PROVE x % m \in 0 .. m - 1
OBVIOUS

LEMMA DivMod == ASSUME NEW m \in Int, NEW x \in Int, m > 0 PROVE \E q \in Int : x = q * m + (x % m)
BY SMT

LEMMA ModDiv == ASSUME NEW m \in Nat \ {0}, NEW x \in Int PROVE \E q \in Int : x = q * m + (x % m)
<1>1. m \in Int /\ m > 0
  OBVIOUS
<1> QED BY <1>1, DivMod, Zenon

LEMMA ModZero == ASSUME NEW m \in Nat \ {0}, NEW x \in Int, x % m = 0 PROVE \E q \in Int : x = q * m
<1>1. PICK q \in Int : x = q * m + (x % m)
  BY Zenon, ModDiv
<1>2. q * m \in Int
  OBVIOUS
<1>3. x = q * m
  BY <1>1, <1>2
<1> QED BY <1>3

LEMMA TimesAssoc ==
  ASSUME NEW a \in Int, NEW b \in Int, NEW c \in Int PROVE a * (b * c) = (a * b) * c
OBVIOUS

LEMMA ModUnique ==
  ASSUME NEW m \in Nat \ {0}, NEW q \in Int, NEW z \in 0 .. m - 1 PROVE (q * m + z) % m = z
OBVIOUS

LEMMA ModSmall == ASSUME NEW m \in Nat \ {0}, NEW x \in 0 .. m - 1 PROVE x % m = x
OBVIOUS

LEMMA ModAdd ==
  ASSUME NEW m \in Nat \ {0}, NEW x \in Int, NEW k \in Int PROVE (x + k * m) % m = x % m
<1> DEFINE z == x % m
<1>1. z \in 0 .. m - 1
  BY ModRange
<1>2. PICK q \in Int : x = q * m + z
  BY Zenon, ModDiv
<1> HIDE DEF z
<1>3. x + k * m = (q + k) * m + z
  BY <1>1, <1>2
<1>4. ((q + k) * m + z) % m = z
  <2>1. q + k \in Int
    OBVIOUS
  <2> QED BY <1>1, <2>1, ModUnique
<1> QED BY <1>3, <1>4 DEF z

LEMMA ModAddOnce == ASSUME NEW m \in Nat \ {0}, NEW x \in Int PROVE (x + m) % m = x % m
<1> DEFINE z == x % m
<1>1. z \in 0 .. m - 1
  BY ModRange
<1>2. PICK q \in Int : x = q * m + z
  BY Zenon, ModDiv
<1> HIDE DEF z
<1>3. q + 1 \in Int /\ x + m = (q + 1) * m + z
  BY <1>1, <1>2
<1>4. ((q + 1) * m + z) % m = z
  BY <1>1, <1>3, ModUnique
<1> QED BY <1>3, <1>4 DEF z

\* Places of the ring that are less than its size apart are different.
LEMMA ModApart ==
  ASSUME NEW m \in Nat \ {0}, NEW x \in Int, NEW y \in Int, x < y, y - x < m PROVE x % m # y % m
<1> SUFFICES ASSUME x % m = y % m PROVE FALSE
  OBVIOUS
<1> DEFINE z == x % m
<1>1. z \in 0 .. m - 1
  BY ModRange
<1>2. PICK q \in Int : x = q * m + z
  BY Zenon, ModDiv
<1>3. PICK s \in Int : y = s * m + z
  BY Zenon, ModDiv
<1> HIDE DEF z
<1>4. y - x = (s - q) * m
  BY <1>1, <1>2, <1>3
<1>5. CASE s - q <= 0
  BY <1>4, <1>5
<1>6. CASE s - q >= 1
  BY <1>4, <1>6
<1> QED BY <1>5, <1>6

\* Whether a index has wrapped makes no difference to its place in the ring.
LEMMA WrapKeepsPlace ==
  ASSUME NEW x \in Int, NEW y \in Int
  PROVE  ((x % UintMod) + y) % INPUT_BUF_SIZE = (x + y) % INPUT_BUF_SIZE
<1>1. UintMod \in Nat \ {0} /\ INPUT_BUF_SIZE \in Nat \ {0} /\ UintMod % INPUT_BUF_SIZE = 0
  BY ConsoleAssumption
<1>2. PICK q \in Int : x = q * UintMod + (x % UintMod)
  BY Zenon, <1>1, ModDiv
<1>3. PICK k \in Int : UintMod = k * INPUT_BUF_SIZE
  BY <1>1, ModZero
<1> DEFINE z == x % UintMod
<1>4. z \in Int
  BY <1>1, ModRange
<1> HIDE DEF z
<1>5. x + y = (z + y) + (q * k) * INPUT_BUF_SIZE
  <2>1. x = q * (k * INPUT_BUF_SIZE) + z
    BY <1>2, <1>3 DEF z
  <2>2. q * (k * INPUT_BUF_SIZE) = (q * k) * INPUT_BUF_SIZE
    BY <1>1, TimesAssoc
  <2> QED BY <1>1, <1>4, <2>1, <2>2
<1>6. ((z + y) + (q * k) * INPUT_BUF_SIZE) % INPUT_BUF_SIZE = (z + y) % INPUT_BUF_SIZE
  <2>1. z + y \in Int /\ q * k \in Int
    BY <1>4
  <2> QED BY Zenon, <1>1, <2>1, ModAdd
<1> QED BY <1>5, <1>6 DEF z

\* The difference and the sum of indexs, without the remainder.
LEMMA Difference ==
  ASSUME NEW a \in 0 .. UintMod - 1, NEW b \in 0 .. UintMod - 1
  PROVE  (b - a) % UintMod = IF b >= a THEN b - a ELSE b - a + UintMod
<1>1. UintMod \in Nat \ {0}
  BY ConsoleAssumption
<1>2. CASE b >= a
  <2>1. b - a \in 0 .. UintMod - 1
    BY <1>1, <1>2
  <2> QED BY <1>1, <1>2, <2>1, ModSmall
<1>3. CASE b < a
  <2>1. b - a + UintMod \in 0 .. UintMod - 1 /\ b - a \in Int
    BY <1>1, <1>3
  <2>2. (b - a + UintMod) % UintMod = b - a + UintMod
    BY <1>1, <2>1, ModSmall
  <2>3. (b - a + UintMod) % UintMod = (b - a) % UintMod
    BY Zenon, <1>1, <2>1, ModAddOnce
  <2> QED BY <1>1, <1>3, <2>2, <2>3
<1> QED BY <1>1, <1>2, <1>3

LEMMA Sum ==
  ASSUME NEW a \in 0 .. UintMod - 1, NEW k \in 0 .. UintMod - 1
  PROVE  (a + k) % UintMod = IF a + k < UintMod THEN a + k ELSE a + k - UintMod
<1>1. UintMod \in Nat \ {0}
  BY ConsoleAssumption
<1>2. CASE a + k < UintMod
  <2>1. a + k \in 0 .. UintMod - 1
    BY <1>1, <1>2
  <2> QED BY <1>1, <1>2, <2>1, ModSmall
<1>3. CASE a + k >= UintMod
  <2>1. a + k - UintMod \in 0 .. UintMod - 1 /\ a + k - UintMod \in Int
    BY <1>1, <1>3
  <2>2. (a + k - UintMod) % UintMod = a + k - UintMod
    BY <1>1, <2>1, ModSmall
  <2>3. ((a + k - UintMod) + UintMod) % UintMod = (a + k - UintMod) % UintMod
    BY Zenon, <1>1, <2>1, ModAddOnce
  <2>4. (a + k - UintMod) + UintMod = a + k
    BY <1>1, <2>1
  <2> QED BY <1>1, <1>3, <2>2, <2>3, <2>4
<1> QED BY <1>1, <1>2, <1>3

-----------------------------------------------------------------------------
\* The circular buffer.

\* The m characters of d from index a.
Ring(d, a, m) == [i \in 1 .. m |-> d[(a + i - 1) % INPUT_BUF_SIZE]]

Char == Plain \cup {"nl", "^D"}
Chars == [0 .. INPUT_BUF_SIZE - 1 -> Char]

LEMMA SeqLen == ASSUME NEW k \in Nat, NEW s \in [1 .. k -> Char] PROVE s \in Seq(Char) /\ Len(s) = k
OBVIOUS

LEMMA SeqEq ==
  ASSUME NEW m \in Nat, NEW s \in Seq(Char), NEW t \in Seq(Char), Len(s) = m, Len(t) = m,
         \A i \in 1 .. m : s[i] = t[i]
  PROVE  s = t
OBVIOUS

LEMMA Concat ==
  ASSUME NEW s \in Seq(Char), NEW t \in Seq(Char)
  PROVE  /\ s \o t \in Seq(Char) /\ Len(s \o t) = Len(s) + Len(t)
         /\ \A i \in 1 .. Len(s) : (s \o t)[i] = s[i]
         /\ \A i \in 1 .. Len(t) : (s \o t)[Len(s) + i] = t[i]
OBVIOUS

LEMMA Suffix ==
  ASSUME NEW s \in Seq(Char), NEW k \in 0 .. Len(s)
  PROVE  /\ SubSeq(s, k + 1, Len(s)) \in Seq(Char) /\ Len(SubSeq(s, k + 1, Len(s))) = Len(s) - k
         /\ \A i \in 1 .. Len(s) - k : SubSeq(s, k + 1, Len(s))[i] = s[k + i]
OBVIOUS

LEMMA Prefix ==
  ASSUME NEW s \in Seq(Char), NEW k \in 0 .. Len(s)
  PROVE  /\ SubSeq(s, 1, k) \in Seq(Char) /\ Len(SubSeq(s, 1, k)) = k
         /\ \A i \in 1 .. k : SubSeq(s, 1, k)[i] = s[i]
<1>1. SubSeq(s, 1, k) \in Seq(Char)
  OBVIOUS
<1>2. Len(SubSeq(s, 1, k)) = k
  OBVIOUS
<1>3. \A i \in 1 .. k : SubSeq(s, 1, k)[i] = s[i]
  OBVIOUS
<1> QED BY Zenon, <1>1, <1>2, <1>3

LEMMA Appended ==
  ASSUME NEW s \in Seq(Char), NEW c \in Char
  PROVE  /\ Append(s, c) \in Seq(Char) /\ Len(Append(s, c)) = Len(s) + 1
         /\ \A i \in 1 .. Len(s) : Append(s, c)[i] = s[i]
         /\ Append(s, c)[Len(s) + 1] = c
OBVIOUS

LEMMA RingSeq ==
  ASSUME NEW d \in Chars, NEW a \in Int, NEW m \in Nat
  PROVE  /\ Ring(d, a, m) \in Seq(Char) /\ Len(Ring(d, a, m)) = m
         /\ \A i \in 1 .. m : Ring(d, a, m)[i] = d[(a + i - 1) % INPUT_BUF_SIZE]
<1>1. \A i \in 1 .. m : a + i - 1 \in Int
  OBVIOUS
<1>2. \A i \in 1 .. m : (a + i - 1) % INPUT_BUF_SIZE \in 0 .. INPUT_BUF_SIZE - 1
  BY <1>1, ModRange, ConsoleAssumption
<1>3. Ring(d, a, m) \in [1 .. m -> Char]
  BY Zenon, <1>2 DEF Ring, Chars
<1> QED BY Zenon, <1>3, SeqLen DEF Ring

\* Reading: the first k characters go, and the index may wrap.
LEMMA RingTake ==
  ASSUME NEW d \in Chars, NEW a \in Int, NEW m \in Nat, NEW k \in 0 .. m
  PROVE  Ring(d, (a + k) % UintMod, m - k) = SubSeq(Ring(d, a, m), k + 1, m)
<1> DEFINE b == (a + k) % UintMod
           s == Ring(d, a, m)
           t == Ring(d, b, m - k)
<1>1. a + k \in Int /\ m - k \in Nat /\ b \in Int
  BY InIndex
<1>2. s \in Seq(Char) /\ Len(s) = m /\ \A i \in 1 .. m : s[i] = d[(a + i - 1) % INPUT_BUF_SIZE]
  BY Zenon, RingSeq
<1>3. /\ t \in Seq(Char) /\ Len(t) = m - k
      /\ \A i \in 1 .. m - k : t[i] = d[(b + i - 1) % INPUT_BUF_SIZE]
  BY Zenon, <1>1, RingSeq
<1>4. /\ SubSeq(s, k + 1, m) \in Seq(Char) /\ Len(SubSeq(s, k + 1, m)) = m - k
      /\ \A i \in 1 .. m - k : SubSeq(s, k + 1, m)[i] = s[k + i]
  BY <1>2, Suffix
<1>5. ASSUME NEW i \in 1 .. m - k PROVE (b + i - 1) % INPUT_BUF_SIZE = (a + (k + i) - 1) % INPUT_BUF_SIZE
  <2>1. i - 1 \in Int
    OBVIOUS
  <2>2. (b + (i - 1)) % INPUT_BUF_SIZE = ((a + k) + (i - 1)) % INPUT_BUF_SIZE
    BY Zenon, <1>1, <2>1, WrapKeepsPlace
  <2> HIDE DEF b
  <2>3. b + (i - 1) = b + i - 1 /\ (a + k) + (i - 1) = a + (k + i) - 1
    BY <1>1
  <2> QED BY <2>2, <2>3
<1> HIDE DEF b, s, t
<1>6. \A i \in 1 .. m - k : k + i \in 1 .. m
  OBVIOUS
<1>7. \A i \in 1 .. m - k : t[i] = SubSeq(s, k + 1, m)[i]
  BY Zenon, <1>2, <1>3, <1>4, <1>5, <1>6
<1>8. t = SubSeq(s, k + 1, m)
  BY Zenon, <1>1, <1>3, <1>4, <1>7, SeqEq
<1> QED BY Zenon, <1>8 DEF b, s, t

\* Backspace: the last character goes.
LEMMA RingChop ==
  ASSUME NEW d \in Chars, NEW a \in Int, NEW m \in Nat \ {0}
  PROVE  Ring(d, a, m - 1) = SubSeq(Ring(d, a, m), 1, m - 1)
<1> DEFINE s == Ring(d, a, m)
           t == Ring(d, a, m - 1)
<1>1. m - 1 \in Nat /\ m > 0
  OBVIOUS
<1>2. s \in Seq(Char) /\ Len(s) = m /\ \A i \in 1 .. m : s[i] = d[(a + i - 1) % INPUT_BUF_SIZE]
  BY Zenon, RingSeq
<1>3. /\ t \in Seq(Char) /\ Len(t) = m - 1
      /\ \A i \in 1 .. m - 1 : t[i] = d[(a + i - 1) % INPUT_BUF_SIZE]
  BY Zenon, <1>1, RingSeq
<1> HIDE DEF s, t
<1>4. /\ SubSeq(s, 1, m - 1) \in Seq(Char) /\ Len(SubSeq(s, 1, m - 1)) = m - 1
      /\ \A i \in 1 .. m - 1 : SubSeq(s, 1, m - 1)[i] = s[i]
  <2>1. m - 1 \in 0 .. Len(s)
    BY <1>1, <1>2
  <2> QED BY Zenon, <1>2, <2>1, Prefix
<1>5. \A i \in 1 .. m - 1 : i \in 1 .. m
  OBVIOUS
<1>6. \A i \in 1 .. m - 1 : t[i] = SubSeq(s, 1, m - 1)[i]
  BY Zenon, <1>2, <1>3, <1>4, <1>5
<1>7. t = SubSeq(s, 1, m - 1)
  BY Zenon, <1>1, <1>3, <1>4, <1>6, SeqEq
<1> QED BY Zenon, <1>7 DEF s, t

\* A character stored after the last of M leaves these alone while they are fewer than the
\* buffer has room for.
LEMMA RingKept ==
  ASSUME NEW d \in Chars, NEW a \in Int, NEW m \in Nat, NEW M \in Nat, m <= M, M < INPUT_BUF_SIZE,
         NEW c \in Char
  PROVE  Ring([d EXCEPT ![(a + M) % INPUT_BUF_SIZE] = c], a, m) = Ring(d, a, m)
<1>1. ASSUME NEW i \in 1 .. m PROVE (a + i - 1) % INPUT_BUF_SIZE # (a + M) % INPUT_BUF_SIZE
  <2>1. INPUT_BUF_SIZE \in Nat \ {0}
    BY ConsoleAssumption
  <2>2. a + i - 1 \in Int /\ a + M \in Int /\ a + i - 1 < a + M /\ (a + M) - (a + i - 1) < INPUT_BUF_SIZE
    BY <2>1
  <2> QED BY Zenon, <2>1, <2>2, ModApart
<1>2. \A i \in 1 .. m : (a + i - 1) % INPUT_BUF_SIZE \in 0 .. INPUT_BUF_SIZE - 1
  <2>1. \A i \in 1 .. m : a + i - 1 \in Int
    OBVIOUS
  <2> QED BY <2>1, ModRange, ConsoleAssumption
<1>3. \A i \in 1 .. m : [d EXCEPT ![(a + M) % INPUT_BUF_SIZE] = c][(a + i - 1) % INPUT_BUF_SIZE]
                        = d[(a + i - 1) % INPUT_BUF_SIZE]
  BY Zenon, <1>1, <1>2 DEF Chars
<1> QED BY Zenon, <1>3 DEF Ring

\* Typing: one more character.
LEMMA RingAppend ==
  ASSUME NEW d \in Chars, NEW a \in Int, NEW m \in Nat, m < INPUT_BUF_SIZE, NEW c \in Char
  PROVE  Ring([d EXCEPT ![(a + m) % INPUT_BUF_SIZE] = c], a, m + 1) = Append(Ring(d, a, m), c)
<1> DEFINE f == [d EXCEPT ![(a + m) % INPUT_BUF_SIZE] = c]
           s == Ring(d, a, m)
           t == Ring(f, a, m + 1)
<1>0. m + 1 \in Nat
  OBVIOUS
<1>1. f \in Chars /\ m + 1 \in Nat
  BY Zenon, <1>0 DEF Chars
<1>2. f[(a + m) % INPUT_BUF_SIZE] = c
  <2>1. a + m \in Int
    OBVIOUS
  <2>2. (a + m) % INPUT_BUF_SIZE \in 0 .. INPUT_BUF_SIZE - 1
    BY <2>1, ModRange, ConsoleAssumption
  <2> QED BY Zenon, <2>2 DEF Chars
<1>3. Ring(f, a, m) = s
  <2>1. m <= m
    OBVIOUS
  <2> QED BY Zenon, <2>1, RingKept
<1> HIDE DEF f
<1>4. s \in Seq(Char) /\ Len(s) = m
  BY Zenon, RingSeq
<1>5. \A i \in 1 .. m : s[i] = f[(a + i - 1) % INPUT_BUF_SIZE]
  <2>1. \A i \in 1 .. m : Ring(f, a, m)[i] = f[(a + i - 1) % INPUT_BUF_SIZE]
    BY Zenon, <1>1, RingSeq
  <2> QED BY Zenon, <1>3, <2>1
<1>6. /\ t \in Seq(Char) /\ Len(t) = m + 1
      /\ \A i \in 1 .. m + 1 : t[i] = f[(a + i - 1) % INPUT_BUF_SIZE]
  BY Zenon, <1>1, RingSeq
<1> HIDE DEF s, t
<1>7. /\ Append(s, c) \in Seq(Char) /\ Len(Append(s, c)) = m + 1
      /\ \A i \in 1 .. m : Append(s, c)[i] = s[i]
      /\ Append(s, c)[m + 1] = c
  BY <1>4, Appended
<1>8. ASSUME NEW i \in 1 .. m + 1 PROVE t[i] = Append(s, c)[i]
  <2>1. CASE i \in 1 .. m
    BY Zenon, <1>5, <1>6, <1>7, <2>1
  <2>2. CASE i = m + 1
    <3>1. a + i - 1 = a + m
      BY <2>2
    <3> QED BY Zenon, <1>2, <1>6, <1>7, <2>2, <3>1
  <2>3. i \in 1 .. m \/ i = m + 1
    OBVIOUS
  <2> QED BY Zenon, <2>1, <2>2, <2>3
<1>9. t = Append(s, c)
  BY Zenon, <1>1, <1>6, <1>7, <1>8, SeqEq
<1> QED BY Zenon, <1>9 DEF f, s, t

\* An ended line joins the ones before it.
LEMMA RingSplit ==
  ASSUME NEW d \in Chars, NEW a \in Int, NEW m \in Nat, NEW k \in Nat
  PROVE  Ring(d, a, m + k) = Ring(d, a, m) \o Ring(d, (a + m) % UintMod, k)
<1> DEFINE b == (a + m) % UintMod
           s == Ring(d, a, m)
           t == Ring(d, b, k)
           x == Ring(d, a, m + k)
<1>1. a + m \in Int /\ m + k \in Nat /\ b \in Int
  BY InIndex
<1>2. s \in Seq(Char) /\ Len(s) = m /\ \A i \in 1 .. m : s[i] = d[(a + i - 1) % INPUT_BUF_SIZE]
  BY Zenon, RingSeq
<1>3. t \in Seq(Char) /\ Len(t) = k /\ \A i \in 1 .. k : t[i] = d[(b + i - 1) % INPUT_BUF_SIZE]
  BY Zenon, <1>1, RingSeq
<1>4. /\ x \in Seq(Char) /\ Len(x) = m + k
      /\ \A i \in 1 .. m + k : x[i] = d[(a + i - 1) % INPUT_BUF_SIZE]
  BY Zenon, <1>1, RingSeq
<1>5. ASSUME NEW i \in 1 .. k PROVE (b + i - 1) % INPUT_BUF_SIZE = (a + (m + i) - 1) % INPUT_BUF_SIZE
  <2>1. i - 1 \in Int
    OBVIOUS
  <2>2. (b + (i - 1)) % INPUT_BUF_SIZE = ((a + m) + (i - 1)) % INPUT_BUF_SIZE
    BY Zenon, <1>1, <2>1, WrapKeepsPlace
  <2> HIDE DEF b
  <2>3. b + (i - 1) = b + i - 1 /\ (a + m) + (i - 1) = a + (m + i) - 1
    BY <1>1
  <2> QED BY <2>2, <2>3
<1> HIDE DEF b, s, t, x
<1>6. /\ s \o t \in Seq(Char) /\ Len(s \o t) = m + k
      /\ \A i \in 1 .. m : (s \o t)[i] = s[i]
      /\ \A i \in 1 .. k : (s \o t)[m + i] = t[i]
  BY Zenon, <1>2, <1>3, Concat
<1>7. ASSUME NEW i \in 1 .. m + k PROVE x[i] = (s \o t)[i]
  <2>1. CASE i \in 1 .. m
    BY Zenon, <1>2, <1>4, <1>6, <2>1
  <2>2. CASE i \notin 1 .. m
    <3>1. i - m \in 1 .. k /\ m + (i - m) = i
      BY <2>2
    <3>2. t[i - m] = x[i]
      BY Zenon, <1>3, <1>4, <1>5, <3>1
    <3>3. (s \o t)[m + (i - m)] = t[i - m]
      BY Zenon, <1>6, <3>1
    <3> QED BY Zenon, <3>1, <3>2, <3>3
  <2> QED BY Zenon, <2>1, <2>2
<1>8. x = s \o t
  BY Zenon, <1>1, <1>4, <1>6, <1>7, SeqEq
<1> QED BY Zenon, <1>8 DEF b, s, t, x

\* Distances between indices.
LEMMA Distance ==
  ASSUME NEW a \in 0 .. UintMod - 1, NEW b \in 0 .. UintMod - 1
  PROVE  /\ Dist(a, b) \in 0 .. UintMod - 1 /\ (Dist(a, b) = 0 <=> a = b)
         /\ (a + Dist(a, b)) % UintMod = b /\ (b - Dist(a, b)) % UintMod = a
<1>1. Dist(a, b) = IF b >= a THEN b - a ELSE b - a + UintMod
  BY Difference DEF Dist
<1>2. Dist(a, b) \in 0 .. UintMod - 1 /\ (Dist(a, b) = 0 <=> a = b)
  BY <1>1, Consts
<1>3. (a + Dist(a, b)) % UintMod =
        IF a + Dist(a, b) < UintMod THEN a + Dist(a, b) ELSE a + Dist(a, b) - UintMod
  BY Zenon, <1>2, Sum
<1>4. (b - Dist(a, b)) % UintMod =
        IF b >= Dist(a, b) THEN b - Dist(a, b) ELSE b - Dist(a, b) + UintMod
  BY Zenon, <1>2, Difference
<1>5. (a + Dist(a, b)) % UintMod = b
  BY <1>1, <1>3, Consts
<1>6. (b - Dist(a, b)) % UintMod = a
  BY <1>1, <1>4, Consts
<1> QED BY Zenon, <1>2, <1>5, <1>6

LEMMA DistTake ==
  ASSUME NEW a \in 0 .. UintMod - 1, NEW b \in 0 .. UintMod - 1, NEW k \in 0 .. Dist(a, b)
  PROVE  Dist((a + k) % UintMod, b) = Dist(a, b) - k
<1>1. Dist(a, b) = IF b >= a THEN b - a ELSE b - a + UintMod
  BY Difference DEF Dist
<1>2. k \in 0 .. UintMod - 1
  BY <1>1, Consts
<1> DEFINE c == (a + k) % UintMod
<1>3. c = IF a + k < UintMod THEN a + k ELSE a + k - UintMod
  BY Zenon, <1>2, Sum
<1>4. c \in 0 .. UintMod - 1
  BY <1>2, <1>3, Consts
<1> HIDE DEF c
<1>5. Dist(c, b) = IF b >= c THEN b - c ELSE b - c + UintMod
  BY <1>4, Difference DEF Dist
<1>6. Dist(c, b) = Dist(a, b) - k
  BY <1>1, <1>2, <1>3, <1>5, Consts
<1> QED BY Zenon, <1>6 DEF c

LEMMA DistNext ==
  ASSUME NEW a \in 0 .. UintMod - 1, NEW b \in 0 .. UintMod - 1, Dist(a, b) + 1 < UintMod
  PROVE  Dist(a, (b + 1) % UintMod) = Dist(a, b) + 1
<1>1. Dist(a, b) = IF b >= a THEN b - a ELSE b - a + UintMod
  BY Difference DEF Dist
<1>2. 1 \in 0 .. UintMod - 1
  BY <1>1, Consts
<1> DEFINE c == (b + 1) % UintMod
<1>3. c = IF b + 1 < UintMod THEN b + 1 ELSE b + 1 - UintMod
  BY Zenon, <1>2, Sum
<1>4. c \in 0 .. UintMod - 1
  BY <1>3, Consts
<1> HIDE DEF c
<1>5. Dist(a, c) = IF c >= a THEN c - a ELSE c - a + UintMod
  BY <1>4, Difference DEF Dist
<1>6. Dist(a, c) = Dist(a, b) + 1
  BY <1>1, <1>3, <1>5, Consts
<1> QED BY Zenon, <1>6 DEF c

LEMMA DistBack ==
  ASSUME NEW a \in 0 .. UintMod - 1, NEW b \in 0 .. UintMod - 1, a # b
  PROVE  Dist(a, (b - 1) % UintMod) = Dist(a, b) - 1
<1>1. Dist(a, b) = IF b >= a THEN b - a ELSE b - a + UintMod
  BY Difference DEF Dist
<1>2. 1 \in 0 .. UintMod - 1
  BY Consts
<1> DEFINE c == (b - 1) % UintMod
<1>3. c = IF b >= 1 THEN b - 1 ELSE b - 1 + UintMod
  BY Zenon, <1>2, Difference
<1>4. c \in 0 .. UintMod - 1
  BY <1>3, Consts
<1> HIDE DEF c
<1>5. Dist(a, c) = IF c >= a THEN c - a ELSE c - a + UintMod
  BY <1>4, Difference DEF Dist
<1>6. Dist(a, c) = Dist(a, b) - 1
  BY <1>1, <1>3, <1>5, Consts
<1> QED BY Zenon, <1>6 DEF c

LEMMA DistSum ==
  ASSUME NEW a \in 0 .. UintMod - 1, NEW b \in 0 .. UintMod - 1, NEW c \in 0 .. UintMod - 1,
         Dist(a, b) + Dist(b, c) < UintMod
  PROVE  Dist(a, c) = Dist(a, b) + Dist(b, c)
<1>1. /\ Dist(a, b) = IF b >= a THEN b - a ELSE b - a + UintMod
      /\ Dist(b, c) = IF c >= b THEN c - b ELSE c - b + UintMod
      /\ Dist(a, c) = IF c >= a THEN c - a ELSE c - a + UintMod
  BY Difference DEF Dist
<1> QED BY <1>1, Consts

-----------------------------------------------------------------------------
\* The steps on the buffer are steps of LineQueue.

\* r, w and e are in this order around the ring, and e is at most one round ahead of r.
Buffered == buf \in Chars /\ Dist(r, w) + Dist(w, e) <= INPUT_BUF_SIZE

Untouched == UNCHANGED <<Slice(r, w), Slice(w, e)>>

LEMMA Mapped ==
  /\ Slice(r, w) = Ring(buf, r, Dist(r, w)) /\ Slice(w, e) = Ring(buf, w, Dist(w, e))
  /\ Slice(r, w)' = Ring(buf', r', Dist(r', w')) /\ Slice(w, e)' = Ring(buf', w', Dist(w', e'))
BY Zenon DEF Slice, At, Ring, Dist

\* The ended lines and the line being typed as sequences.
LEMMA Queues ==
  ASSUME Data, Buffered
  PROVE  /\ Dist(r, w) \in Nat /\ Dist(w, e) \in Nat
         /\ Slice(r, w) \in Seq(Char) /\ Len(Slice(r, w)) = Dist(r, w)
         /\ Slice(w, e) \in Seq(Char) /\ Len(Slice(w, e)) = Dist(w, e)
<1>1. r \in 0 .. UintMod - 1 /\ w \in 0 .. UintMod - 1 /\ e \in 0 .. UintMod - 1 /\ buf \in Chars
  BY Zenon DEF Data, Buffered
<1>2. Dist(r, w) \in 0 .. UintMod - 1 /\ Dist(w, e) \in 0 .. UintMod - 1
  BY Zenon, <1>1, Distance
<1>3. Dist(r, w) \in Nat /\ Dist(w, e) \in Nat /\ r \in Int /\ w \in Int
  BY <1>1, <1>2, Consts
<1>4. Ring(buf, r, Dist(r, w)) \in Seq(Char) /\ Len(Ring(buf, r, Dist(r, w))) = Dist(r, w)
  BY Zenon, <1>1, <1>3, RingSeq
<1>5. Ring(buf, w, Dist(w, e)) \in Seq(Char) /\ Len(Ring(buf, w, Dist(w, e))) = Dist(w, e)
  BY Zenon, <1>1, <1>3, RingSeq
<1> QED BY Zenon, <1>3, <1>4, <1>5, Mapped

LEMMA SameLines == ASSUME Buffered, UNCHANGED cons PROVE Buffered' /\ Untouched
<1>1. buf' = buf /\ r' = r /\ w' = w /\ e' = e
  BY Zenon DEF cons
<1> QED BY Zenon, <1>1, Mapped DEF Buffered, Untouched, Dist

\* consoleread() takes j characters.
LEMMA ReadStep ==
  ASSUME Data, Buffered, NEW j \in 0 .. Dist(r, w), r' = (r + j) % UintMod,
         buf' = buf, w' = w, e' = e,
         \A i \in 1 .. j - 1 : Slice(r, w)[i] \in Plain, j > 0 /\ Slice(r, w)[j] = "^D" => j = 1
  PROVE  Buffered' /\ (Lines!LRead \/ Untouched)
<1>1. r \in 0 .. UintMod - 1 /\ w \in 0 .. UintMod - 1 /\ e \in 0 .. UintMod - 1 /\ buf \in Chars
  BY Zenon DEF Data, Buffered
<1>2. /\ Dist(r, w) \in Nat /\ Dist(w, e) \in Nat
      /\ Slice(r, w) \in Seq(Char) /\ Len(Slice(r, w)) = Dist(r, w)
  BY Zenon, Queues
<1>3. Dist(r', w') = Dist(r, w) - j /\ Dist(w', e') = Dist(w, e)
  BY Zenon, <1>1, DistTake
<1>4. Buffered'
  <2>1. Dist(r', w') + Dist(w', e') <= INPUT_BUF_SIZE
    BY <1>2, <1>3, ConsoleAssumption DEF Buffered
  <2> QED BY Zenon, <1>1, <2>1 DEF Buffered, Dist
<1>5. Slice(w, e)' = Slice(w, e)
  BY Zenon, Mapped
<1>6. Slice(r, w)' = SubSeq(Slice(r, w), j + 1, Len(Slice(r, w)))
  <2>1. r \in Int
    BY <1>1
  <2>2. Ring(buf, (r + j) % UintMod, Dist(r, w) - j) = SubSeq(Ring(buf, r, Dist(r, w)), j + 1, Dist(r, w))
    BY Zenon, <1>1, <1>2, <2>1, RingTake
  <2> QED BY Zenon, <1>2, <1>3, <2>2, Mapped
<1>7. CASE j = 0
  <2>1. SubSeq(Slice(r, w), j + 1, Len(Slice(r, w))) = Slice(r, w)
    BY <1>2, <1>7
  <2> QED BY Zenon, <1>4, <1>5, <1>6, <2>1 DEF Untouched
<1>8. CASE j # 0
  <2>1. j \in 1 .. Len(Slice(r, w)) /\ j > 0
    BY <1>2, <1>8
  <2> QED BY Zenon, <1>4, <1>5, <1>6, <2>1 DEF Lines!LRead
<1> QED BY Zenon, <1>7, <1>8

\* consoleintr() for ^U, ^H and ^P.
LEMMA EraseStep ==
  ASSUME Data, Buffered, r' = r, buf' = buf, w' = w,
         e' \in {e, (e - Dist(w, e)) % UintMod} \/ (e # w /\ e' = (e - 1) % UintMod)
  PROVE  Buffered' /\ (Lines!LErase \/ Untouched)
<1>1. r \in 0 .. UintMod - 1 /\ w \in 0 .. UintMod - 1 /\ e \in 0 .. UintMod - 1 /\ buf \in Chars
  BY Zenon DEF Data, Buffered
<1>2. /\ Dist(r, w) \in Nat /\ Dist(w, e) \in Nat
      /\ Slice(w, e) \in Seq(Char) /\ Len(Slice(w, e)) = Dist(w, e)
  BY Zenon, Queues
<1>3. Slice(r, w)' = Slice(r, w) /\ Dist(r', w') = Dist(r, w)
  BY Zenon, Mapped
<1>4. CASE e' = e
  BY Zenon, <1>4, SameLines DEF cons
<1>5. CASE e' = (e - Dist(w, e)) % UintMod
  <2>1. e' = w /\ Dist(w, w) = 0
    BY Zenon, <1>1, <1>5, Distance
  <2>2. Buffered'
    <3>1. Dist(r', w') + Dist(w', e') <= INPUT_BUF_SIZE
      BY <1>2, <1>3, <2>1, ConsoleAssumption DEF Buffered
    <3> QED BY Zenon, <1>1, <3>1 DEF Buffered, Dist
  <2>3. Slice(w, e)' = <<>>
    <3>1. Ring(buf, w, 0) = <<>>
      BY DEF Ring
    <3> QED BY Zenon, <2>1, <3>1, Mapped
  <2>4. CASE Slice(w, e) = <<>>
    BY Zenon, <1>3, <2>2, <2>3, <2>4 DEF Untouched
  <2>5. CASE Slice(w, e) # <<>>
    BY Zenon, <1>3, <2>2, <2>3, <2>5 DEF Lines!LErase
  <2> QED BY Zenon, <2>4, <2>5
<1>6. CASE e # w /\ e' = (e - 1) % UintMod
  <2>1. Dist(w, e) # 0 /\ Dist(w', e') = Dist(w, e) - 1
    BY Zenon, <1>1, <1>6, Distance, DistBack
  <2>2. Buffered'
    <3>1. Dist(r', w') + Dist(w', e') <= INPUT_BUF_SIZE
      BY <1>2, <1>3, <2>1, ConsoleAssumption DEF Buffered
    <3> QED BY Zenon, <1>1, <3>1 DEF Buffered, Dist
  <2>3. Slice(w, e)' = SubSeq(Slice(w, e), 1, Len(Slice(w, e)) - 1)
    <3>1. w \in Int /\ Dist(w, e) \in Nat \ {0}
      BY <1>1, <1>2, <2>1
    <3>2. Ring(buf, w, Dist(w, e) - 1) = SubSeq(Ring(buf, w, Dist(w, e)), 1, Dist(w, e) - 1)
      BY Zenon, <1>1, <3>1, RingChop
    <3> QED BY Zenon, <1>2, <2>1, <3>2, Mapped
  <2>4. Slice(w, e) # <<>>
    BY <1>2, <2>1
  <2> QED BY Zenon, <1>3, <2>2, <2>3, <2>4 DEF Lines!LErase
<1> QED BY Zenon, <1>4, <1>5, <1>6

\* consoleintr() for a character that is stored.
LEMMA TypeStep ==
  ASSUME Data, Buffered, NEW c \in Char, Room, r' = r, e' = (e + 1) % UintMod,
         buf' = [buf EXCEPT ![e % INPUT_BUF_SIZE] = c], IF Ends(c) THEN w' = e' ELSE w' = w
  PROVE  Buffered' /\ (Lines!LType \/ Lines!LEnd)
<1> DEFINE u == Dist(r, w)
           v == Dist(w, e)
<1>1. r \in 0 .. UintMod - 1 /\ w \in 0 .. UintMod - 1 /\ e \in 0 .. UintMod - 1 /\ buf \in Chars
  BY Zenon DEF Data, Buffered
<1>2. /\ u \in Nat /\ v \in Nat /\ r \in Int /\ w \in Int
      /\ Slice(r, w) \in Seq(Char) /\ Len(Slice(r, w)) = u
      /\ Slice(w, e) \in Seq(Char) /\ Len(Slice(w, e)) = v
  BY <1>1, Queues
<1>3. /\ (r + u) % UintMod = w /\ (w + v) % UintMod = e
  BY Zenon, <1>1, Distance
<1>4. /\ Dist(r, e) = u + v /\ u + v < INPUT_BUF_SIZE /\ u + v + 1 < UintMod /\ v + 1 < UintMod
      /\ INPUT_BUF_SIZE \in Nat
  <2>1. u + v <= INPUT_BUF_SIZE /\ INPUT_BUF_SIZE \in Nat \ {0} /\ UintMod >= 2 * INPUT_BUF_SIZE
    BY ConsoleAssumption DEF Buffered
  <2>2. u + v < UintMod
    BY <1>2, <2>1, Consts
  <2>3. Dist(r, e) = u + v
    BY Zenon, <1>1, <2>2, DistSum
  <2>4. u + v < INPUT_BUF_SIZE
    BY Zenon, <2>3 DEF Room
  <2> QED BY <1>2, <2>1, <2>3, <2>4, Consts
<1>5. e % INPUT_BUF_SIZE = (w + v) % INPUT_BUF_SIZE /\ e % INPUT_BUF_SIZE = (r + (u + v)) % INPUT_BUF_SIZE
  <2>1. w + v \in Int /\ r + u \in Int /\ 0 \in Int /\ v \in Int
    BY <1>2
  <2>2. /\ (((w + v) % UintMod) + 0) % INPUT_BUF_SIZE = ((w + v) + 0) % INPUT_BUF_SIZE
        /\ (((r + u) % UintMod) + v) % INPUT_BUF_SIZE = ((r + u) + v) % INPUT_BUF_SIZE
    BY Zenon, <2>1, WrapKeepsPlace
  <2> HIDE DEF u, v
  <2>3. e + 0 = e /\ (w + v) + 0 = w + v /\ (r + u) + v = r + (u + v)
    BY <1>1, <1>2
  <2> QED BY Zenon, <1>3, <2>2, <2>3
<1>6. buf' \in Chars
  BY Zenon, <1>1 DEF Chars
<1>7. Ring(buf', r, u) = Slice(r, w)
  <2>1. u \in Nat /\ u + v \in Nat /\ u <= u + v
    BY <1>2
  <2>2. r \in Int /\ buf \in Chars /\ c \in Char /\ u + v < INPUT_BUF_SIZE
    BY <1>1, <1>2, <1>4
  <2>3. Ring([buf EXCEPT ![(r + (u + v)) % INPUT_BUF_SIZE] = c], r, u) = Ring(buf, r, u)
    <3> DEFINE k == u + v
    <3> HIDE DEF u, k
    <3>1. Ring([buf EXCEPT ![(r + k) % INPUT_BUF_SIZE] = c], r, u) = Ring(buf, r, u)
      <4>1. k \in Nat /\ u <= k /\ k < INPUT_BUF_SIZE
        BY Zenon, <2>1, <2>2 DEF k
      <4> QED BY Zenon, <2>1, <2>2, <4>1, RingKept
    <3> QED BY Zenon, <3>1 DEF k
  <2> QED BY Zenon, <1>5, <2>3, Mapped
<1>8. Ring(buf', w, v + 1) = Append(Slice(w, e), c)
  <2>1. v < INPUT_BUF_SIZE
    BY <1>2, <1>4
  <2>2. Ring([buf EXCEPT ![(w + v) % INPUT_BUF_SIZE] = c], w, v + 1) = Append(Ring(buf, w, v), c)
    BY Zenon, <1>1, <1>2, <2>1, RingAppend
  <2> QED BY Zenon, <1>5, <2>2, Mapped
<1>9. e' \in 0 .. UintMod - 1 /\ Dist(w, e') = v + 1 /\ Dist(r, e') = u + v + 1
  <2>1. e' \in 0 .. UintMod - 1
    BY <1>1, InIndex
  <2>2. Dist(w, e') = v + 1
    BY Zenon, <1>1, <1>4, DistNext
  <2>3. Dist(r, e') = u + v + 1
    BY Zenon, <1>1, <1>4, DistNext
  <2> QED BY Zenon, <2>1, <2>2, <2>3
<1>10. Lines!Room
  BY Zenon, <1>2, <1>4 DEF Lines!Room
<1>11. CASE ~Ends(c)
  <2>1. w' = w /\ c \in Plain /\ u + v + 1 # INPUT_BUF_SIZE
    BY Zenon, <1>4, <1>11 DEF Ends, Char
  <2>2. Dist(r', w') = u /\ Dist(w', e') = v + 1
    BY Zenon, <1>9, <2>1
  <2>3. Buffered'
    <3>1. Dist(r', w') + Dist(w', e') <= INPUT_BUF_SIZE
      BY <1>2, <1>4, <2>2
    <3> QED BY Zenon, <1>6, <3>1 DEF Buffered, Dist
  <2>4. Slice(r, w)' = Slice(r, w) /\ Slice(w, e)' = Append(Slice(w, e), c)
    BY Zenon, <1>7, <1>8, <2>1, <2>2, Mapped
  <2>5. Len(Slice(r, w)) + Len(Slice(w, e)) + 1 # INPUT_BUF_SIZE
    BY Zenon, <1>2, <2>1
  <2> QED BY Zenon, <1>10, <2>1, <2>3, <2>4, <2>5 DEF Lines!LType
<1>12. CASE Ends(c)
  <2>1. w' = e' /\ (c \in {"nl", "^D"} \/ (c \in Plain /\ u + v + 1 = INPUT_BUF_SIZE))
    BY Zenon, <1>4, <1>12 DEF Ends, Char
  <2>2. Dist(r', w') = u + v + 1 /\ Dist(w', e') = 0
    BY Zenon, <1>9, <2>1, Distance
  <2>3. Buffered'
    <3>1. Dist(r', w') + Dist(w', e') <= INPUT_BUF_SIZE
      BY <1>2, <1>4, <2>2
    <3> QED BY Zenon, <1>6, <3>1 DEF Buffered, Dist
  <2>4. Slice(r, w)' = Slice(r, w) \o Append(Slice(w, e), c)
    <3>1. v + 1 \in Nat /\ u + (v + 1) = u + v + 1
      BY <1>2
    <3>2. Ring(buf', r, u + (v + 1)) = Ring(buf', r, u) \o Ring(buf', (r + u) % UintMod, v + 1)
      BY Zenon, <1>2, <1>6, <3>1, RingSplit
    <3> QED BY Zenon, <1>3, <1>7, <1>8, <2>2, <3>1, <3>2, Mapped
  <2>5. Slice(w, e)' = <<>>
    <3>1. Ring(buf', w', 0) = <<>>
      BY DEF Ring
    <3> QED BY Zenon, <2>2, <3>1, Mapped
  <2>6. CASE c \in {"nl", "^D"}
    BY Zenon, <1>10, <2>3, <2>4, <2>5, <2>6 DEF Lines!LEnd
  <2>7. CASE c \in Plain /\ u + v + 1 = INPUT_BUF_SIZE
    <3>1. Len(Slice(r, w)) + Len(Slice(w, e)) + 1 = INPUT_BUF_SIZE
      BY Zenon, <1>2, <2>7
    <3> QED BY Zenon, <1>10, <2>3, <2>4, <2>5, <2>7, <3>1 DEF Lines!LType
  <2> QED BY Zenon, <2>1, <2>6, <2>7
<1> QED BY Zenon, <1>11, <1>12

-----------------------------------------------------------------------------
\* consoleread().

INSTANCE WellFoundedInduction

\* Where consoleread() may stop in the characters s, for k of t still wanted.
Stops(s, k, t) ==
  {i \in 1 .. Len(s) : i = k \/ s[i] = "nl"}
    \cup {IF i = 1 /\ k = t THEN 1 ELSE i - 1 : i \in {j \in 1 .. Len(s) : s[j] = "^D"}}

\* It takes characters up to the first such place, and all when there is none.
LEMMA Takes ==
  ASSUME NEW s, Len(s) \in Nat, NEW k, NEW t
  PROVE  /\ Taken(s, k, t) \in 0 .. Len(s)
         /\ Stops(s, k, t) = {} => Taken(s, k, t) = Len(s)
         /\ Stops(s, k, t) # {} =>
              Taken(s, k, t) \in Stops(s, k, t) /\ \A j \in Stops(s, k, t) : Taken(s, k, t) <= j
<1> DEFINE S == Stops(s, k, t)
<1>1. S \subseteq 0 .. Len(s)
  BY DEF Stops
<1>2. S \subseteq Nat
  BY <1>1
<1>3. Taken(s, k, t) = IF S = {} THEN Len(s) ELSE CHOOSE i \in S : \A j \in S : i <= j
  BY Zenon DEF Taken, Stops
<1> HIDE DEF S
<1>4. ASSUME S # {} PROVE \E i \in S : \A j \in S : i <= j
  <2>1. OpToRel(<, Nat) = {ss \in Nat \X Nat : ss[1] < ss[2]}
    BY Zenon DEF OpToRel
  <2>2. \E i \in S : \A j \in S : ~(<<j, i>> \in OpToRel(<, Nat))
    BY Zenon, <1>2, <1>4, WFMin, NatLessThanWellFounded
  <2>3. PICK i \in S : \A j \in S : ~(<<j, i>> \in OpToRel(<, Nat))
    BY Zenon, <2>2
  <2>4. \A j \in S : ~(j < i)
    BY Zenon, <1>2, <2>1, <2>3
  <2>5. \A j \in S : i <= j
    BY <1>2, <2>4
  <2> QED BY Zenon, <2>5
<1>5. S # {} => Taken(s, k, t) \in S /\ \A j \in S : Taken(s, k, t) <= j
  BY Zenon, <1>3, <1>4
<1>6. S = {} => Taken(s, k, t) = Len(s)
  BY Zenon, <1>3
<1>7. Len(s) \in 0 .. Len(s)
  OBVIOUS
<1>8. Taken(s, k, t) \in 0 .. Len(s)
  BY Zenon, <1>1, <1>5, <1>6, <1>7
<1> QED BY Zenon, <1>5, <1>6, <1>8 DEF S

\* It takes one line at most, and a ^D only on its own; it stops for a reason.
LEMMA TakesLine ==
  ASSUME NEW s \in Seq(Char), NEW k, NEW t
  PROVE  /\ \A i \in 1 .. Taken(s, k, t) - 1 : s[i] \in Plain
         /\ Taken(s, k, t) > 0 /\ s[Taken(s, k, t)] = "^D" => Taken(s, k, t) = 1
         /\ \/ Taken(s, k, t) = Len(s) \/ Taken(s, k, t) = k
            \/ Taken(s, k, t) < Len(s) /\ s[Taken(s, k, t) + 1] = "^D"
            \/ Taken(s, k, t) = 1 /\ s[1] = "^D"
            \/ Taken(s, k, t) > 0 /\ s[Taken(s, k, t)] = "nl"
<1> DEFINE S == Stops(s, k, t)
           K == Taken(s, k, t)
<1>1. Len(s) \in Nat /\ \A i \in 1 .. Len(s) : s[i] \in Char
  OBVIOUS
<1>2. K \in 0 .. Len(s) /\ (S = {} => K = Len(s)) /\ (S # {} => K \in S /\ \A j \in S : K <= j)
  BY Zenon, <1>1, Takes
<1>3. \A i \in 1 .. Len(s) : s[i] = "nl" => i \in S
  BY Zenon DEF Stops
<1>4. \A i \in 1 .. Len(s) : s[i] = "^D" => (IF i = 1 /\ k = t THEN 1 ELSE i - 1) \in S
  BY Zenon DEF Stops
<1>5. ASSUME NEW x \in S
      PROVE  \/ x \in 1 .. Len(s) /\ (x = k \/ s[x] = "nl")
             \/ \E i \in 1 .. Len(s) : s[i] = "^D" /\ x = IF i = 1 /\ k = t THEN 1 ELSE i - 1
  BY Zenon DEF Stops
<1> HIDE DEF S, K
<1>6. ASSUME NEW i \in 1 .. K - 1 PROVE s[i] \in Plain
  <2>1. i \in 1 .. Len(s) /\ i < K
    BY <1>1, <1>2
  <2>2. s[i] # "nl"
    BY <1>1, <1>2, <1>3, <2>1
  <2>3. s[i] # "^D"
    BY <1>1, <1>2, <1>4, <2>1
  <2> QED BY Zenon, <1>1, <2>1, <2>2, <2>3 DEF Char
<1>7. K > 0 /\ s[K] = "^D" => K = 1
  BY <1>1, <1>2, <1>4
<1>8. ASSUME K # Len(s), K # k
      PROVE  \/ K < Len(s) /\ s[K + 1] = "^D"
             \/ K = 1 /\ s[1] = "^D"
             \/ K > 0 /\ s[K] = "nl"
  <2>1. K \in S
    BY Zenon, <1>2, <1>8
  <2>2. CASE K \in 1 .. Len(s) /\ (K = k \/ s[K] = "nl")
    BY <1>8, <2>2
  <2>3. ASSUME NEW i \in 1 .. Len(s), s[i] = "^D", K = IF i = 1 /\ k = t THEN 1 ELSE i - 1
        PROVE  (K < Len(s) /\ s[K + 1] = "^D") \/ (K = 1 /\ s[1] = "^D")
    <3>1. CASE i = 1 /\ k = t
      BY Zenon, <2>3, <3>1
    <3>2. CASE ~(i = 1 /\ k = t)
      <4>1. K = i - 1
        BY Zenon, <2>3, <3>2
      <4>2. K < Len(s) /\ K + 1 = i
        BY <1>1, <4>1
      <4> QED BY Zenon, <2>3, <4>2
    <3> QED BY Zenon, <3>1, <3>2
  <2> QED BY Zenon, <1>5, <2>1, <2>2, <2>3
<1> QED BY Zenon, <1>6, <1>7, <1>8 DEF K

LEMMA SliceLength ==
  ASSUME Data PROVE Len(Slice(r, w)) \in Nat /\ (r = w => Len(Slice(r, w)) = 0)
<1>1. r \in Int /\ w \in Int
  BY Consts DEF Data
<1>2. Dist(r, w) \in Nat
  BY <1>1, InIndex, Consts DEF Dist
<1>3. Len(Slice(r, w)) = Dist(r, w)
  BY <1>2 DEF Slice
<1>4. r = w => Dist(r, w) = 0
  BY <1>1, Consts DEF Dist
<1> QED BY Zenon, <1>2, <1>3, <1>4

\* A reader leaves an empty queue empty, and goes to sleep only beside an empty one.
LEMMA ReadsIndex ==
  ASSUME Data, NEW c \in CPU, consoleread(c)
  PROVE  /\ r' \in 0 .. UintMod - 1 /\ (r = w => r' = w)
         /\ \/ release(c, "cons") /\ Goto(c, "user")
            \/ sleep(c, "cons") /\ Goto(c, "read_sleep") /\ r' = w
<1> DEFINE k == Taken(Slice(r, w), n[c], target[c])
<1>1. r \in 0 .. UintMod - 1 /\ w \in 0 .. UintMod - 1
  BY Zenon DEF Data
<1>2. k \in Nat /\ (r = w => k = 0)
  <2>1. k \in 0 .. Len(Slice(r, w)) /\ Len(Slice(r, w)) \in Nat /\ (r = w => Len(Slice(r, w)) = 0)
    BY Zenon, SliceLength, Takes
  <2> QED BY <2>1
<1>3. \/ r' = (r + k) % UintMod /\ release(c, "cons") /\ Goto(c, "user")
      \/ (\E j \in 1 .. k : r' = (r + j) % UintMod) /\ release(c, "cons") /\ Goto(c, "user")
      \/ r' = w /\ release(c, "cons") /\ Goto(c, "user")
      \/ r' = w /\ sleep(c, "cons") /\ Goto(c, "read_sleep")
  BY Zenon DEF consoleread, Return
<1> HIDE DEF k
<1>4. CASE r' = (r + k) % UintMod
  <2>1. r' \in 0 .. UintMod - 1
    BY <1>1, <1>2, <1>4, InIndex
  <2>2. r = w => r' = w
    BY <1>1, <1>2, <1>4, Consts
  <2> QED BY Zenon, <1>3, <2>1, <2>2
<1>5. CASE \E j \in 1 .. k : r' = (r + j) % UintMod
  <2>1. r' \in 0 .. UintMod - 1 /\ r # w
    BY <1>1, <1>2, <1>5, InIndex
  <2> QED BY Zenon, <1>3, <2>1
<1>6. CASE r' = w
  BY Zenon, <1>1, <1>3, <1>6
<1> QED BY Zenon, <1>3, <1>4, <1>5, <1>6

LEMMA ReadInd == ASSUME IndInv, NEW c \in CPU, hcpu # c, consoleread(c) PROVE IndInv'
<1>1. /\ w' = w /\ e' = e /\ tx_busy' = tx_busy /\ fifo' = fifo /\ thri' = thri
      /\ hcpu' = hcpu /\ hpc' = hpc /\ pc[c] = "read"
  BY Zenon DEF consoleread, handler, uart
<1>2. LockInv /\ Data /\ Awaited /\ Sleepers
  BY Zenon DEF IndInv
<1>3. /\ r' \in 0 .. UintMod - 1 /\ (r = w => r' = w)
      /\ \/ release(c, "cons") /\ Goto(c, "user")
         \/ sleep(c, "cons") /\ Goto(c, "read_sleep") /\ r' = w
  BY Zenon, <1>2, ReadsIndex
<1>4. PICK l \in {"user", "read_sleep"} :
        (release(c, "cons") \/ sleep(c, "cons")) /\ Goto(c, l) /\ (l = "read_sleep" => r' = w)
  <2>1. CASE release(c, "cons") /\ Goto(c, "user")
    <3>1. WITNESS "user" \in {"user", "read_sleep"}
    <3> QED BY <2>1
  <2>2. CASE sleep(c, "cons") /\ Goto(c, "read_sleep") /\ r' = w
    <3>1. WITNESS "read_sleep" \in {"user", "read_sleep"}
    <3> QED BY Zenon, <2>2
  <2> QED BY Zenon, <1>3, <2>1, <2>2
<1>5. LockInv'
  <2>1. l \in Elsewhere /\ pc[c] \in Holding
    BY Zenon, <1>1 DEF Elsewhere, Holding
  <2>2. \A lk \in Lock : Holds(c, lk) <=> lk = "cons"
    BY Zenon, <1>1 DEF Holds
  <2> QED BY Zenon, <1>1, <1>2, <1>4, <2>1, <2>2, LockNames, ThreadRelease
<1>6. Data'
  BY Zenon, <1>1, <1>2, <1>3 DEF Data
<1>7. Awaited'
  BY Zenon, <1>1, <1>2 DEF Awaited
<1>8. \A d \in CPU : pc'[d] = IF d = c THEN l ELSE pc[d]
  BY Zenon, <1>2, <1>4 DEF Goto, LockInv, Locked
<1>9. Sleepers'
  BY <1>1, <1>2, <1>3, <1>4, <1>8 DEF Sleepers
<1> QED BY Zenon, <1>5, <1>6, <1>7, <1>9 DEF IndInv

\* consoleread() takes a line of the queue, a part of one, or nothing.
LEMMA ReadLine ==
  ASSUME Data, Buffered, NEW c \in CPU, consoleread(c)
  PROVE  Buffered' /\ (Lines!LRead \/ Untouched)
<1> DEFINE s == Slice(r, w)
           k == Taken(Slice(r, w), n[c], target[c])
           eof == (k < Len(s) /\ s[k + 1] = "^D") \/ (k = 1 /\ s[1] = "^D")
           done == k = n[c] \/ eof \/ (k > 0 /\ s[k] = "nl")
<1>1. s \in Seq(Char) /\ Len(s) = Dist(r, w) /\ Dist(r, w) \in Nat
  BY Zenon, Queues
<1>2. k \in 0 .. Dist(r, w)
  BY Zenon, <1>1, Takes
<1>3. /\ \A i \in 1 .. k - 1 : s[i] \in Plain
      /\ k > 0 /\ s[k] = "^D" => k = 1
      /\ ~done => k = Dist(r, w)
  BY Zenon, <1>1, TakesLine
<1>4. buf' = buf /\ w' = w /\ e' = e
  BY Zenon DEF consoleread
<1>5. \/ r' = (r + k) % UintMod
      \/ \E j \in 1 .. k : s[j] # "^D" /\ r' = (r + j) % UintMod
      \/ ~done /\ r' = w
  BY Zenon DEF consoleread
<1> HIDE DEF done, k, s
<1>6. CASE r' = (r + k) % UintMod
  BY Zenon, <1>2, <1>3, <1>4, <1>6, ReadStep DEF s
<1>7. CASE \E j \in 1 .. k : s[j] # "^D" /\ r' = (r + j) % UintMod
  <2>1. PICK j \in 1 .. k : s[j] # "^D" /\ r' = (r + j) % UintMod
    BY Zenon, <1>7
  <2>2. j \in 0 .. Dist(r, w) /\ \A i \in 1 .. j - 1 : i \in 1 .. k - 1
    BY <1>1, <1>2
  <2> QED BY Zenon, <1>3, <1>4, <2>1, <2>2, ReadStep DEF s
<1>8. CASE ~done /\ r' = w
  <2>1. r \in 0 .. UintMod - 1 /\ w \in 0 .. UintMod - 1
    BY Zenon DEF Data
  <2>2. k = Dist(r, w) /\ (r + Dist(r, w)) % UintMod = w
    BY Zenon, <1>3, <1>8, <2>1, Distance
  <2>3. r' = (r + k) % UintMod
    BY Zenon, <1>8, <2>2
  <2> QED BY Zenon, <1>6, <2>3
<1> QED BY Zenon, <1>5, <1>6, <1>7, <1>8

-----------------------------------------------------------------------------
LEMMA StutterInd == ASSUME IndInv, UNCHANGED vars PROVE IndInv'
<1>1. /\ r' = r /\ w' = w /\ e' = e /\ tx_busy' = tx_busy /\ lock' = lock /\ noff' = noff
      /\ intena' = intena /\ sie' = sie /\ pc' = pc /\ hcpu' = hcpu /\ hpc' = hpc
      /\ panicked' = panicked /\ fifo' = fifo /\ thri' = thri
  BY Zenon DEF vars
<1>2. LockInv /\ Data /\ Awaited /\ Sleepers
  BY Zenon DEF IndInv
<1>3. pc' \in [CPU -> Spinning \cup Holding \cup Elsewhere]
  BY Zenon, <1>1, <1>2 DEF LockInv, Locked
<1>4. LockInv'
  BY Zenon, <1>1, <1>2, <1>3, NoLocks
<1> QED BY Zenon, <1>1, <1>2, <1>4 DEF IndInv, Data, Awaited, Sleepers

LEMMA NextInd == IndInv /\ [Next]_vars => IndInv'
<1> SUFFICES ASSUME IndInv, [Next]_vars PROVE IndInv'
  OBVIOUS
<1>1. CASE Transmit \/ Receive
  BY Zenon, <1>1, DeviceInd
<1>2. CASE Handler
  BY Zenon, <1>2, AckInd, TxLockInd, TxInd, GetcInd, ConsLockInd, PutcInd, EditInd DEF Handler
<1>3. ASSUME NEW c \in CPU, Interrupt(c) \/ Thread(c) \/ Kill(c) \/ (hcpu # c /\ Call(c))
      PROVE  IndInv'
  <2>1. CASE Thread(c)
    BY Zenon, <2>1, LockStepInd, ReadInd, WriteInd, PrintkInd DEF Thread
  <2> QED BY Zenon, <1>3, <2>1, InterruptInd, KillInd, CallInd
<1>4. CASE UNCHANGED vars
  BY Zenon, <1>4, StutterInd
<1> QED BY Zenon, <1>1, <1>2, <1>3, <1>4 DEF Next

\* Every step of the console is a step of the queue of lines, or none.
LEMMA LineStep ==
  ASSUME IndInv, Buffered, [Next]_vars
  PROVE  Buffered' /\ (Lines!LType \/ Lines!LEnd \/ Lines!LErase \/ Lines!LRead \/ Untouched)
<1>1. Data
  BY Zenon DEF IndInv
<1>2. CASE UNCHANGED cons
  BY Zenon, <1>2, SameLines
<1>3. ASSUME NEW c \in CPU, consoleread(c) PROVE Buffered' /\ (Lines!LRead \/ Untouched)
  BY Zenon, <1>1, <1>3, ReadLine
<1>4. CASE consoleintr
  <2>1. r' = r
    BY Zenon, <1>4 DEF consoleintr
  <2>2. CASE /\ e' = CASE hc = "^U" -> (e - KillLine) % UintMod
                       [] hc = "^H" -> IF e # w THEN (e - 1) % UintMod ELSE e
                       [] OTHER     -> e
             /\ UNCHANGED <<buf, w, pc>>
    <3>1. "^U" # "^H"
      BY Zenon
    <3>2. e' \in {e, (e - Dist(w, e)) % UintMod} \/ (e # w /\ e' = (e - 1) % UintMod)
      BY Zenon, <2>2, <3>1 DEF KillLine
    <3> QED BY Zenon, <1>1, <2>1, <2>2, <3>2, EraseStep
  <2>3. CASE /\ hc \in Plain \cup {"nl", "^D"} /\ Room
             /\ buf' = [buf EXCEPT ![e % INPUT_BUF_SIZE] = hc]
             /\ e' = (e + 1) % UintMod
             /\ IF Ends(hc) THEN w' = e' /\ wakeup("read_sleep") ELSE UNCHANGED <<w, pc>>
    <3>1. hc \in Char /\ IF Ends(hc) THEN w' = e' ELSE w' = w
      BY Zenon, <2>3 DEF Char
    <3> QED BY Zenon, <1>1, <2>1, <2>3, <3>1, TypeStep
  <2> QED BY Zenon, <1>4, <2>2, <2>3 DEF consoleintr
<1>5. CASE Handler
  BY Zenon, <1>2, <1>4, <1>5
     DEF Handler, uartintr_ack, uartintr_lock, uartintr_tx, uartgetc, consoleintr_lock, uartputc_sync
<1>6. CASE Transmit \/ Receive \/ UNCHANGED vars
  BY Zenon, <1>2, <1>6 DEF Transmit, Receive, vars, cons
<1>7. ASSUME NEW c \in CPU, Interrupt(c) \/ Thread(c) \/ Kill(c) \/ Call(c)
      PROVE  Buffered' /\ (Lines!LRead \/ Untouched)
  <2>1. CASE UNCHANGED cons
    BY Zenon, <2>1, SameLines
  <2> QED BY Zenon, <1>3, <1>7, <2>1 DEF Interrupt, Thread, Kill, Call, LockStep, uartwrite, printk
<1> QED BY Zenon, <1>5, <1>6, <1>7 DEF Next

\* The lock discipline of spinlock.c, the indices of cons and the device agree in every
\* reachable state with where each process and the handler of uartintr() are.
THEOREM Invariance == Spec => []IndInv
<1>1. Init => IndInv
  BY InitInd
<1>2. IndInv /\ [Next]_vars => IndInv'
  BY NextInd
<1> QED BY <1>1, <1>2, PTL DEF Spec

\* No acquire(), release(), pop_off() or sched() under consoleread(), uartwrite(), printk(),
\* uartintr() or consoleintr() panics, on any number of CPUs: in particular the interrupt
\* handler never wants a lock that the process it interrupted holds.
THEOREM LocksSafe == Spec => []NoPanic
<1>1. IndInv => NoPanic
  BY Zenon DEF IndInv, LockInv, NoPanic
<1> QED BY <1>1, Invariance, PTL

\* No wakeup() of uartintr() or consoleintr() is lost: a process that sleeps in consoleread()
\* has no ended line to take, one that sleeps in uartwrite() has the device busy and an
\* interrupt to come, pending or in the handler.
THEOREM NoLostWakeup == Spec => []SleepersHaveReason
<1>1. IndInv => SleepersHaveReason
  BY Zenon DEF IndInv, Sleepers, Awaited, SleepersHaveReason
<1> QED BY <1>1, Invariance, PTL

\* The circular buffer of console.c is an editable line and a queue of ended ones, whatever
\* its size, also when r, w and e wrap: consoleintr() edits only the line being typed, and
\* consoleread() takes one line at most, in order, and a ^D only on its own.
THEOREM ConsoleImplementsLineQueue == Spec => ConsoleIsLineQueue
<1>1. Init => Buffered /\ Lines!LInit
  <2> SUFFICES ASSUME Init PROVE Buffered /\ Lines!LInit
    OBVIOUS
  <2>1. r = FirstIndex /\ w = FirstIndex /\ e = FirstIndex /\ FirstIndex \in 0 .. UintMod - 1
    BY Zenon, Consts DEF Init
  <2>2. Dist(r, w) = 0 /\ Dist(w, e) = 0
    BY Zenon, <2>1, Distance
  <2>3. buf \in Chars
    BY Zenon DEF Init, Chars, Char
  <2>4. Dist(r, w) + Dist(w, e) <= INPUT_BUF_SIZE
    BY <2>2, ConsoleAssumption
  <2>5. Slice(r, w) = <<>> /\ Slice(w, e) = <<>>
    BY <2>2 DEF Slice
  <2> QED BY Zenon, <2>3, <2>4, <2>5 DEF Buffered, Lines!LInit
<1>2. IndInv /\ Buffered /\ [Next]_vars =>
        /\ Buffered'
        /\ [Lines!LType \/ Lines!LEnd \/ Lines!LErase \/ Lines!LRead]_<<Slice(r, w), Slice(w, e)>>
  BY Zenon, LineStep DEF Untouched
<1> QED BY <1>1, <1>2, Invariance, PTL DEF Spec, ConsoleIsLineQueue, Lines!LSpec
=============================================================================
