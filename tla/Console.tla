------------------------------ MODULE Console -------------------------------
(***************************************************************************)
(* The console: kernel/console.c over kernel/uart.c, with the spin locks   *)
(* of kernel/spinlock.c and the interrupts that kernel/trap.c and the PLIC *)
(* deliver.  Every CPU runs one process, which reads, writes or prints;    *)
(* while it sleeps its CPU is in scheduler(), with interrupts on.  The     *)
(* interrupt handler runs on top of whatever the CPU does.                 *)
(***************************************************************************)
EXTENDS Integers, Sequences, FiniteSets

CONSTANTS
  CPU, NoCpu,
  Plain,             \* characters that stand for themselves
  Typing,            \* the characters that are typed
  INPUT_BUF_SIZE,    \* 128
  UintMod,           \* 2^32, a multiple of INPUT_BUF_SIZE
  MaxTyped,          \* bound: characters typed in a behaviour
  MaxPrinted,        \* bound: characters printed by printk() in a behaviour
  ReadLen, WriteLen, \* lengths of the read() and write() calls
  RxFifo,            \* bound: characters that arrive before the handler runs
  FirstIndex,        \* where the indices of the buffer are at first
  Readers, Writers, Printers     \* CPUs whose process makes these calls

ASSUME ConsoleAssumption ==
  /\ NoCpu \notin CPU
  /\ INPUT_BUF_SIZE \in Nat \ {0} /\ UintMod \in Nat
  /\ UintMod >= 2 * INPUT_BUF_SIZE /\ UintMod % INPUT_BUF_SIZE = 0
  /\ Plain \cap {"nl", "^D", "^H", "^U", "^P"} = {}
  /\ Typing \subseteq Plain \cup {"nl", "^D", "^H", "^U", "^P"}
  /\ FirstIndex \in 0 .. UintMod - 1
  /\ MaxTyped \in Nat /\ MaxPrinted \in Nat /\ RxFifo \in Nat \ {0}
  /\ ReadLen \cup WriteLen \subseteq Nat \ {0}

VARIABLES
  buf, r, w, e,      \* cons
  tx_busy,
  lock,              \* lk->cpu of cons.lock, tx_lock and pr.lock
  noff, intena, sie, \* struct cpu, and the interrupt enable bit of sstatus
  pc, n, target,     \* the process of each CPU, and how much it has still to move
  killed,
  hcpu, hpc, hc,     \* the interrupt handler: its CPU, place and character
  echo,              \* characters it has still to echo
  fifo, thri, rx,    \* device: bytes to send, "ready for more" interrupt, bytes received
  typed, printed,    \* characters typed, and printed, so far
  panicked

cons == <<buf, r, w, e>>
cpus == <<noff, intena, sie>>
thread == <<pc, n, target, killed>>
handler == <<hcpu, hpc, hc, echo>>
uart == <<fifo, thri, rx>>
vars == <<buf, r, w, e, tx_busy, lock, noff, intena, sie, pc, n, target, killed,
          hcpu, hpc, hc, echo, fifo, thri, rx, typed, printed, panicked>>

Dist(a, b) == (b - a) % UintMod
At(i) == buf[i % INPUT_BUF_SIZE]

\* The characters from index a up to index b.
Slice(a, b) == [i \in 1 .. Dist(a, b) |-> At(a + i - 1)]

----------------------------------------------------------------------------
(* spinlock.c *)

\* A lock that leaves interrupts on.
push_off_none(c) == UNCHANGED cpus

push_off(c) ==
  /\ intena' = IF noff[c] = 0 THEN [intena EXCEPT ![c] = sie[c]] ELSE intena
  /\ noff' = [noff EXCEPT ![c] = @ + 1]
  /\ sie' = [sie EXCEPT ![c] = FALSE]

\* intena is forgotten with the last lock: push_off() sets it before it is used again.
pop_off(c) ==
  /\ noff' = [noff EXCEPT ![c] = @ - 1]
  /\ sie' = [sie EXCEPT ![c] = noff[c] = 1 /\ intena[c]]
  /\ intena' = [intena EXCEPT ![c] = noff[c] = 1 \/ @]

holding(c, lk) == lock[lk] = c

\* acquire() up to the loop, and the exchange that ends the loop.
acquire(c, lk) == push_off(c) /\ panicked' = (panicked \/ holding(c, lk)) /\ UNCHANGED lock
exchange(c, lk) == lock[lk] = NoCpu /\ lock' = [lock EXCEPT ![lk] = c] /\ UNCHANGED <<cpus, panicked>>

release(c, lk) ==
  /\ panicked' = (panicked \/ ~holding(c, lk) \/ sie[c] \/ noff[c] < 1)
  /\ lock' = [lock EXCEPT ![lk] = NoCpu]
  /\ pop_off(c)

\* sleep(): the process lets go of lk and its CPU enters scheduler(); sched() wants
\* that no other lock is held.
sleep(c, lk) ==
  /\ panicked' = (panicked \/ ~holding(c, lk) \/ sie[c] \/ noff[c] # 1)
  /\ lock' = [lock EXCEPT ![lk] = NoCpu]
  /\ noff' = [noff EXCEPT ![c] = 0]
  /\ sie' = [sie EXCEPT ![c] = TRUE]
  /\ UNCHANGED intena

Woken == [read_sleep |-> "read_woken", write_sleep |-> "write_woken"]

\* wakeup(): the processes that sleep at label l run again.
wakeup(l) == pc' = [c \in CPU |-> IF pc[c] = l THEN Woken[l] ELSE pc[c]]

----------------------------------------------------------------------------
(* The device. *)

\* LSR_TX_IDLE, and WriteReg(THR, c).
TxIdle == fifo = 0
WriteTHR == fifo' = fifo + 1 /\ thri' = FALSE /\ UNCHANGED rx

Transmit ==
  /\ fifo > 0
  /\ fifo' = fifo - 1
  /\ thri' = (thri \/ fifo = 1)
  /\ UNCHANGED <<cons, tx_busy, lock, cpus, thread, handler, rx, typed, printed, panicked>>

Receive ==
  /\ typed < MaxTyped /\ Len(rx) < RxFifo
  /\ \E c \in Typing : rx' = Append(rx, c)
  /\ typed' = typed + 1
  /\ UNCHANGED <<cons, tx_busy, lock, cpus, thread, handler, fifo, thri, printed, panicked>>

----------------------------------------------------------------------------
(* System calls *)

Goto(c, l) == pc' = [pc EXCEPT ![c] = l]

\* read() and write() of k bytes; a printk() of the kernel.  usertrap() ends a killed
\* process.
Call(c) ==
  /\ pc[c] = "user" /\ sie[c] /\ ~killed[c]
  /\ \/ /\ c \in Readers /\ acquire(c, "cons") /\ Goto(c, "read_spin")
        /\ \E k \in ReadLen : n' = [n EXCEPT ![c] = k] /\ target' = [target EXCEPT ![c] = k]
        /\ UNCHANGED printed
     \/ /\ c \in Writers /\ acquire(c, "tx") /\ Goto(c, "write_spin")
        /\ \E k \in WriteLen : n' = [n EXCEPT ![c] = k] /\ UNCHANGED <<target, printed>>
     \/ /\ c \in Printers /\ printed < MaxPrinted /\ acquire(c, "pr") /\ Goto(c, "printk_spin")
        /\ printed' = printed + 1 /\ UNCHANGED <<n, target>>
  /\ UNCHANGED <<cons, tx_busy, killed, handler, uart, typed>>

\* A lock is got, or wanted again after sleep().
LockStep(c) ==
  /\ \/ pc[c] = "read_spin" /\ exchange(c, "cons") /\ Goto(c, "read")
     \/ pc[c] = "write_spin" /\ exchange(c, "tx") /\ Goto(c, "write")
     \/ pc[c] = "printk_spin" /\ exchange(c, "pr") /\ Goto(c, "printk")
     \/ pc[c] = "read_woken" /\ sie[c] /\ acquire(c, "cons") /\ Goto(c, "read_spin")
     \/ pc[c] = "write_woken" /\ sie[c] /\ acquire(c, "tx") /\ Goto(c, "write_spin")
  /\ UNCHANGED <<cons, tx_busy, n, target, killed, handler, uart, typed, printed>>

\* The ^D is lost when the line before it has no newline.
Taken_eof(s, k, t) ==
  LET stops == {i \in 1 .. Len(s) : i = k \/ s[i] \in {"nl", "^D"}}
  IN  IF stops = {} THEN Len(s) ELSE CHOOSE i \in stops : \A j \in stops : i <= j

\* How many of the characters s consoleread() takes, for k of t still wanted: up to a
\* newline or k; a ^D is taken only by a call that has nothing else.
Taken(s, k, t) ==
  LET stops == {i \in 1 .. Len(s) : i = k \/ s[i] = "nl"}
      eofs == {i \in 1 .. Len(s) : s[i] = "^D"}
      ends == stops \cup {IF i = 1 /\ k = t THEN 1 ELSE i - 1 : i \in eofs}
  IN  IF ends = {} THEN Len(s) ELSE CHOOSE i \in ends : \A j \in ends : i <= j

Return(c) == Goto(c, "user") /\ n' = [n EXCEPT ![c] = 0] /\ target' = [target EXCEPT ![c] = 0]

\* consoleread() with cons.lock: it returns at a newline, a ^D, n characters or a failing
\* either_copyout(), which loses the character; it sleeps when it has taken all there is,
\* and a kill() that comes after its killed() wakes nobody.
consoleread(c) ==
  LET s == Slice(r, w)
      k == Taken(s, n[c], target[c])
      eof == (k < Len(s) /\ s[k + 1] = "^D") \/ (k = 1 /\ s[1] = "^D")
      done == k = n[c] \/ eof \/ (k > 0 /\ s[k] = "nl")
  IN
  /\ pc[c] = "read"
  /\ \/ /\ done
        /\ r' = (r + k) % UintMod
        /\ release(c, "cons") /\ Return(c) /\ UNCHANGED killed
     \/ /\ \E j \in 1 .. k : s[j] # "^D" /\ r' = (r + j) % UintMod
        /\ release(c, "cons") /\ Return(c) /\ UNCHANGED killed
     \/ /\ ~done /\ killed[c]
        /\ r' = w
        /\ release(c, "cons") /\ Return(c) /\ UNCHANGED killed
     \/ /\ ~done /\ ~killed[c]
        /\ r' = w
        /\ sleep(c, "cons") /\ Goto(c, "read_sleep") /\ n' = [n EXCEPT ![c] = @ - k]
        /\ UNCHANGED target /\ killed' \in {killed, [killed EXCEPT ![c] = TRUE]}
  /\ UNCHANGED <<buf, w, e, tx_busy, handler, uart, typed, printed>>

\* The loop of uartwrite() with tx_lock; consolewrite() calls it for each 32 bytes.
uartwrite(c) ==
  /\ pc[c] = "write"
  /\ \/ /\ n[c] > 0 /\ tx_busy
        /\ sleep(c, "tx") /\ Goto(c, "write_sleep") /\ UNCHANGED <<n, tx_busy, uart>>
     \/ /\ n[c] > 0 /\ ~tx_busy
        /\ WriteTHR /\ tx_busy' = TRUE /\ n' = [n EXCEPT ![c] = @ - 1]
        /\ UNCHANGED <<pc, lock, cpus, panicked>>
     \/ /\ n[c] = 0
        /\ release(c, "tx") /\ Goto(c, "user") /\ UNCHANGED <<n, tx_busy, uart>>
  /\ UNCHANGED <<cons, target, killed, handler, typed, printed>>

\* printk() of one character with pr.lock: uartputc_sync() waits for the device, and
\* writes in a step of its own.
printk(c) ==
  /\ \/ pc[c] = "printk" /\ TxIdle /\ Goto(c, "printk_put") /\ UNCHANGED <<lock, cpus, panicked, uart>>
     \/ pc[c] = "printk_put" /\ WriteTHR /\ release(c, "pr") /\ Goto(c, "user")
  /\ UNCHANGED <<cons, tx_busy, n, target, killed, handler, typed, printed>>

\* kkill()
Kill(c) ==
  /\ c \in Readers /\ ~killed[c]
  /\ killed' = [killed EXCEPT ![c] = TRUE]
  /\ pc' = [pc EXCEPT ![c] = IF @ \in DOMAIN Woken THEN Woken[@] ELSE @]
  /\ UNCHANGED <<cons, tx_busy, lock, cpus, n, target, handler, uart, typed, printed, panicked>>

----------------------------------------------------------------------------
(* The interrupt handler *)

HGoto(l) == hpc' = l

\* The interrupt is given to the CPU that asks first; until plic_complete()
\* the others claim in vain.
plic_claim(c) == hpc = "idle" /\ hcpu' = c
plic_complete == HGoto("idle") /\ hcpu' = NoCpu

\* A CPU that takes interrupts traps, in kerneltrap() or usertrap(), and claims it.
Interrupt(c) ==
  /\ sie[c] /\ (rx # <<>> \/ thri)
  /\ plic_claim(c) /\ HGoto("isr")
  /\ sie' = [sie EXCEPT ![c] = FALSE]
  /\ UNCHANGED <<cons, tx_busy, lock, noff, intena, thread, hc, echo, uart, typed, printed, panicked>>

\* ReadReg(ISR) acknowledges the transmit interrupt, unless input is the one reported.
uartintr_ack ==
  /\ hpc = "isr"
  /\ thri' = (thri /\ rx # <<>>)
  /\ acquire(hcpu, "tx") /\ HGoto("tx_spin")
  /\ UNCHANGED <<cons, tx_busy, thread, hcpu, hc, echo, fifo, rx, typed, printed>>

uartintr_lock ==
  /\ hpc = "tx_spin" /\ exchange(hcpu, "tx") /\ HGoto("tx")
  /\ UNCHANGED <<cons, tx_busy, thread, hcpu, hc, echo, uart, typed, printed>>

\* uartintr() that forgets the sleeping writers.
uartintr_tx_quiet ==
  /\ hpc = "tx"
  /\ tx_busy' = (tx_busy /\ ~TxIdle)
  /\ release(hcpu, "tx") /\ HGoto("getc")
  /\ UNCHANGED <<pc, cons, n, target, killed, hcpu, hc, echo, uart, typed, printed>>

\* The part of uartintr() with tx_lock.
uartintr_tx ==
  /\ hpc = "tx"
  /\ IF TxIdle THEN tx_busy' = FALSE /\ wakeup("write_sleep") ELSE UNCHANGED <<tx_busy, pc>>
  /\ release(hcpu, "tx") /\ HGoto("getc")
  /\ UNCHANGED <<cons, n, target, killed, hcpu, hc, echo, uart, typed, printed>>

\* devintr() that never tells the PLIC that the interrupt has been served.
uartgetc_claimed ==
  /\ hpc = "getc"
  /\ \/ /\ rx = <<>>
        /\ HGoto("claimed") /\ hcpu' = NoCpu /\ UNCHANGED hc
        /\ sie' = [sie EXCEPT ![hcpu] = TRUE]
        /\ UNCHANGED <<rx, lock, noff, intena, panicked>>
     \/ /\ rx # <<>>
        /\ hc' = Head(rx) /\ rx' = Tail(rx)
        /\ acquire(hcpu, "cons") /\ HGoto("cons_spin") /\ UNCHANGED hcpu
  /\ UNCHANGED <<cons, tx_busy, thread, echo, fifo, thri, typed, printed>>

\* uartgetc(): the next character goes to consoleintr(); after the last one
\* plic_complete(), and the trap returns to where interrupts were on.
uartgetc ==
  /\ hpc = "getc"
  /\ \/ /\ rx = <<>>
        /\ plic_complete /\ UNCHANGED hc
        /\ sie' = [sie EXCEPT ![hcpu] = TRUE]
        /\ UNCHANGED <<rx, lock, noff, intena, panicked>>
     \/ /\ rx # <<>>
        /\ hc' = Head(rx) /\ rx' = Tail(rx)
        /\ acquire(hcpu, "cons") /\ HGoto("cons_spin") /\ UNCHANGED hcpu
  /\ UNCHANGED <<cons, tx_busy, thread, echo, fifo, thri, typed, printed>>

\* Whether consoleintr() takes another character.
Room == Dist(r, e) < INPUT_BUF_SIZE

\* How many characters of the line ^U erases.
KillLine == Dist(w, e)

\* How many characters consputc() sends: a backspace is "\b \b".
consputc(backspace) == IF backspace THEN 3 ELSE 1

\* consoleintr() with cons.lock: what consputc() and procdump() print.  Interrupts are off, so that push_off() and pop_off() of
\* uartputc_sync() change nothing.
consoleintr_lock ==
  /\ hpc = "cons_spin" /\ exchange(hcpu, "cons") /\ HGoto("cons")
  /\ echo' = CASE hc = "^P" -> 1
               [] hc = "^U" -> consputc(TRUE) * KillLine
               [] hc = "^H" -> IF e # w THEN consputc(TRUE) ELSE 0
               [] OTHER     -> IF Room THEN consputc(FALSE) ELSE 0
  /\ UNCHANGED <<cons, tx_busy, thread, hcpu, hc, uart, typed, printed>>

uartputc_sync ==
  /\ \/ hpc = "cons" /\ echo > 0 /\ TxIdle /\ HGoto("cons_put") /\ UNCHANGED <<echo, uart>>
     \/ hpc = "cons_put" /\ WriteTHR /\ echo' = echo - 1 /\ HGoto("cons")
  /\ UNCHANGED <<cons, tx_busy, lock, cpus, thread, hcpu, hc, typed, printed, panicked>>

\* The characters at which a line is handed to the readers.
Ends(c) == c \in {"nl", "^D"} \/ Dist(r, e) + 1 = INPUT_BUF_SIZE

\* consoleintr() after the echo: the edit, and release().
consoleintr ==
  /\ hpc = "cons" /\ echo = 0
  /\ \/ /\ hc \in {"^P", "^U", "^H"} \/ ~Room
        /\ e' = CASE hc = "^U" -> (e - KillLine) % UintMod
                  [] hc = "^H" -> IF e # w THEN (e - 1) % UintMod ELSE e
                  [] OTHER     -> e
        /\ UNCHANGED <<buf, w, pc>>
     \/ /\ hc \in Plain \cup {"nl", "^D"} /\ Room
        /\ buf' = [buf EXCEPT ![e % INPUT_BUF_SIZE] = hc]
        /\ e' = (e + 1) % UintMod
        /\ IF Ends(hc) THEN w' = e' /\ wakeup("read_sleep") ELSE UNCHANGED <<w, pc>>
  /\ release(hcpu, "cons") /\ HGoto("getc") /\ hc' = ""
  /\ UNCHANGED <<r, tx_busy, n, target, killed, hcpu, echo, uart, typed, printed>>

\* consoleinit() and uartinit(); FirstIndex is 0 at boot, and any other number after
\* lines have been read.
Init ==
  /\ r = FirstIndex /\ w = FirstIndex /\ e = FirstIndex
  /\ \E x \in Plain : buf = [i \in 0 .. INPUT_BUF_SIZE - 1 |-> x]
  /\ tx_busy = FALSE
  /\ lock = [lk \in {"cons", "tx", "pr"} |-> NoCpu]
  /\ noff = [c \in CPU |-> 0] /\ intena = [c \in CPU |-> TRUE] /\ sie = [c \in CPU |-> TRUE]
  /\ pc = [c \in CPU |-> "user"] /\ n = [c \in CPU |-> 0] /\ target = [c \in CPU |-> 0]
  /\ killed = [c \in CPU |-> FALSE]
  /\ hcpu = NoCpu /\ hpc = "idle" /\ hc = "" /\ echo = 0
  /\ fifo = 0 /\ thri = TRUE /\ rx = <<>> /\ typed = 0 /\ printed = 0 /\ panicked = FALSE

\* The process of c runs unless the handler has its CPU.
Thread(c) == hcpu # c /\ (LockStep(c) \/ consoleread(c) \/ uartwrite(c) \/ printk(c))

Handler ==
  \/ uartintr_ack \/ uartintr_lock \/ uartintr_tx \/ uartgetc
  \/ consoleintr_lock \/ uartputc_sync \/ consoleintr

Next ==
  \/ Transmit \/ Receive \/ Handler
  \/ \E c \in CPU : Interrupt(c) \/ Thread(c) \/ Kill(c) \/ (hcpu # c /\ Call(c))

Spec == Init /\ [][Next]_vars

\* The device sends, CPUs execute, a pending interrupt is taken when a CPU allows it.
FairSpec ==
  /\ Spec /\ WF_vars(Transmit) /\ WF_vars(Handler)
  /\ SF_vars(\E c \in CPU : Interrupt(c))
  /\ \A c \in CPU : WF_vars(Thread(c))

----------------------------------------------------------------------------
(* Properties *)

\* No panic of acquire(), release(), pop_off() or sched(): the handler never meets a lock
\* that the code it interrupted holds, which would spin for ever.
NoPanic == ~panicked

\* No lost wakeup: a reader sleeps only when there is no ended line, a writer only while
\* the device is sending or its interrupt is pending or being handled.
SleepersHaveReason ==
  \A c \in CPU :
    /\ pc[c] = "read_sleep" => r = w
    /\ pc[c] = "write_sleep" =>
         tx_busy /\ (fifo > 0 \/ thri \/ hpc \in {"tx_spin", "tx"})

Lines == INSTANCE LineQueue WITH
  Capacity <- INPUT_BUF_SIZE,
  ready <- Slice(r, w),
  line <- Slice(w, e)

\* The circular buffer with its three indices is an editable line and a queue of ended
\* ones, also when the indices wrap and while interrupts race with readers.
ConsoleIsLineQueue == Lines!LSpec

\* Every write to the console returns, whatever is typed and printed meanwhile.
WriteFinishes == \A c \in Writers : pc[c] = "write_spin" ~> pc[c] = "user"
=============================================================================
