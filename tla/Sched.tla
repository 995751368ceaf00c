------------------------------- MODULE Sched -------------------------------
(***************************************************************************)
(* The priority scheduler with aging: scheduler(), sched(), yield(),       *)
(* sleep(), wakeup(), kkill() and the RUNNABLE transitions of kernel/proc.c*)
(* with clockintr() of kernel/trap.c and sys_setpriority() of              *)
(* kernel/sysproc.c.                                                       *)
(*                                                                         *)
(* Every CPU runs either its scheduler thread or the kernel thread of one  *)
(* process.  A step ends where another CPU may see its effects: at the     *)
(* release of a lock, or at a swtch(), which hands p->lock over from one   *)
(* thread to the other.  Interrupts are off while a CPU holds a lock and   *)
(* during a scheduling round, so CPU 0 counts a tick only while it runs a  *)
(* process or stands at the intr_on() at the top of the loop.              *)
(***************************************************************************)
EXTENDS Integers, FiniteSets

CONSTANTS
  CPU,               \* the harts
  cpu0,              \* the one that counts ticks
  None,              \* no CPU, no process, the scheduler thread
  NPROC,             \* size of proc[]
  PRIORITY_MAX,      \* lowest priority (4); the highest is 0
  DEFAULT_PRIORITY,  \* priority of a new process (2)
  AGING_INTERVAL,    \* ticks per level gained (20)
  UintMod,           \* 2^32: ticks, ready_since and now are unsigned ints
  Moves              \* what processes do, of "sleep", "exit", "setpriority"

ASSUME SchedAssumption ==
  /\ cpu0 \in CPU /\ None \notin CPU
  /\ NPROC \in Nat \ {0} /\ None \notin 1 .. NPROC
  /\ PRIORITY_MAX \in Nat /\ DEFAULT_PRIORITY \in 0 .. PRIORITY_MAX
  /\ AGING_INTERVAL \in Nat \ {0, 1} /\ UintMod \in Nat \ {0}

PRIORITY_MIN == 0
Proc == 1 .. NPROC
Uint == 0 .. UintMod - 1

VARIABLES
  ticks, tickslock,
  state, priority, ready_since, chan,   \* of struct proc
  lock,        \* p->lock: the CPU that holds it
  ppc,         \* where p's kernel thread is: "run", "yield", "off" or "on" (see Swtch)
  thread,      \* the process whose kernel thread the CPU executes, None: scheduler()
  cproc,       \* c->proc
  cpc,         \* where scheduler() is: "boot", "intr", "top", "scan", "swtch", "back", "wfi"
  now, level, idx, found,               \* locals of scheduler()
  clk,         \* 0, or the position of clockintr() in the loop of wakeup(&ticks)
  waiting,     \* history: RUNNABLE at the start of c's round and ever since
  since        \* history: the tick at which p became RUNNABLE

table == <<state, priority, ready_since, chan, since>>
round == <<now, level, idx, found>>
vars == <<ticks, tickslock, state, priority, ready_since, chan, lock, ppc, thread, cproc,
          cpc, now, level, idx, found, clk, waiting, since>>

\* The CPU executes process p, outside clockintr().
Executes(c, p) == thread[c] = p /\ ~(c = cpu0 /\ clk # 0)

MakeRunnable_keep(p) ==
  /\ state' = [state EXCEPT ![p] = "RUNNABLE"]
  /\ since' = [since EXCEPT ![p] = ticks]
  /\ UNCHANGED ready_since

\* Every RUNNABLE transition starts a new waiting period.
MakeRunnable(p) ==
  /\ state' = [state EXCEPT ![p] = "RUNNABLE"]
  /\ ready_since' = [ready_since EXCEPT ![p] = 0]
  /\ since' = [since EXCEPT ![p] = ticks]

----------------------------------------------------------------------------
(* scheduler() *)

\* uint waited = now - p->ready_since, divided, subtracted and clamped.
EffectivePriority(prio, start, t) ==
  LET waited == (t - start) % UintMod
      effective == prio - waited \div AGING_INTERVAL
  IN  IF effective < PRIORITY_MIN THEN PRIORITY_MIN ELSE effective

\* The snapshot of ticks that the whole round uses.
Top(c) ==
  /\ cpc[c] \in {"intr", "top"} /\ ~(c = cpu0 /\ clk # 0)
  /\ tickslock = None
  /\ now' = [now EXCEPT ![c] = ticks]
  /\ level' = [level EXCEPT ![c] = PRIORITY_MIN]
  /\ idx' = [idx EXCEPT ![c] = 1]
  /\ found' = [found EXCEPT ![c] = FALSE]
  /\ cpc' = [cpc EXCEPT ![c] = "scan"]
  /\ waiting' = [waiting EXCEPT ![c] = {p \in Proc : state[p] = "RUNNABLE"}]
  /\ UNCHANGED <<ticks, tickslock, table, lock, ppc, thread, cproc, clk>>

\* Every look starts the waiting period anew.
Stamp_always(c, p) == IF state[p] = "RUNNABLE" THEN now[c] ELSE ready_since[p]

\* ready_since after the first look at a RUNNABLE process: 0 means not stamped yet.
Stamp(c, p) ==
  IF state[p] = "RUNNABLE" /\ ready_since[p] = 0 THEN now[c] ELSE ready_since[p]

Chosen(c, p) ==
  /\ state[p] = "RUNNABLE"
  /\ EffectivePriority(priority[p], Stamp(c, p), now[c]) = level[c]

\* A slot that is not RUNNABLE at this level: stamped under p->lock, and left.
Pass(c) ==
  LET p == idx[c] IN
  /\ cpc[c] = "scan" /\ p <= NPROC
  /\ lock[p] = None
  /\ ~Chosen(c, p)
  /\ ready_since' = [ready_since EXCEPT ![p] = Stamp(c, p)]
  /\ idx' = [idx EXCEPT ![c] = p + 1]
  /\ UNCHANGED <<ticks, tickslock, state, priority, chan, lock, ppc, thread, cproc, cpc, now,
                 level, found, clk, waiting, since>>

Dispatch_unlocked(c) ==
  LET p == idx[c] IN
  /\ cpc[c] = "scan" /\ p <= NPROC
  /\ Chosen(c, p)
  /\ ready_since' = [ready_since EXCEPT ![p] = Stamp(c, p)]
  /\ state' = [state EXCEPT ![p] = "RUNNING"]
  /\ cproc' = [cproc EXCEPT ![c] = p]
  /\ lock' = [lock EXCEPT ![p] = c]
  /\ thread' = [thread EXCEPT ![c] = p]
  /\ cpc' = [cpc EXCEPT ![c] = "swtch"]
  /\ waiting' = [d \in CPU |-> waiting[d] \ {p}]
  /\ since' = [since EXCEPT ![p] = 0]
  /\ UNCHANGED <<ticks, tickslock, priority, chan, ppc, round, clk>>

\* Run the process: swtch() to it with p->lock held.
Dispatch(c) ==
  LET p == idx[c] IN
  /\ cpc[c] = "scan" /\ p <= NPROC
  /\ lock[p] = None
  /\ Chosen(c, p)
  /\ ready_since' = [ready_since EXCEPT ![p] = Stamp(c, p)]
  /\ state' = [state EXCEPT ![p] = "RUNNING"]
  /\ cproc' = [cproc EXCEPT ![c] = p]
  /\ lock' = [lock EXCEPT ![p] = c]
  /\ thread' = [thread EXCEPT ![c] = p]
  /\ cpc' = [cpc EXCEPT ![c] = "swtch"]
  /\ waiting' = [d \in CPU |-> waiting[d] \ {p}]
  /\ since' = [since EXCEPT ![p] = 0]
  /\ UNCHANGED <<ticks, tickslock, priority, chan, ppc, round, clk>>

\* The process came back: c->proc = 0, found, release(&p->lock).
Back(c) ==
  LET p == idx[c] IN
  /\ cpc[c] = "back"
  /\ cproc' = [cproc EXCEPT ![c] = None]
  /\ found' = [found EXCEPT ![c] = TRUE]
  /\ lock' = [lock EXCEPT ![p] = None]
  /\ idx' = [idx EXCEPT ![c] = p + 1]
  /\ cpc' = [cpc EXCEPT ![c] = "scan"]
  /\ UNCHANGED <<ticks, tickslock, table, ppc, thread, now, level, clk, waiting>>

\* The next level that starts at the second slot.
EndLevel_skipfirst(c) ==
  /\ cpc[c] = "scan" /\ idx[c] = NPROC + 1
  /\ IF found[c] \/ level[c] = PRIORITY_MAX
     THEN /\ cpc' = [cpc EXCEPT ![c] = IF found[c] THEN "intr" ELSE "wfi"]
          /\ now' = [now EXCEPT ![c] = 0]
          /\ level' = [level EXCEPT ![c] = PRIORITY_MIN]
          /\ found' = [found EXCEPT ![c] = FALSE]
          /\ waiting' = [waiting EXCEPT ![c] = IF found[c] THEN {} ELSE @]
          /\ idx' = [idx EXCEPT ![c] = 1]
     ELSE /\ level' = [level EXCEPT ![c] = @ + 1]
          /\ idx' = [idx EXCEPT ![c] = 2]
          /\ UNCHANGED <<cpc, now, found, waiting>>
  /\ UNCHANGED <<ticks, tickslock, table, lock, ppc, thread, cproc, clk>>

\* The level is scanned: the round ends if it ran something (found stands for
\* level_found, too: they differ only where found is not read), else the next level.
\* The locals of a round die with it.
EndLevel(c) ==
  /\ cpc[c] = "scan" /\ idx[c] = NPROC + 1
  /\ IF found[c] \/ level[c] = PRIORITY_MAX
     THEN /\ cpc' = [cpc EXCEPT ![c] = IF found[c] THEN "intr" ELSE "wfi"]
          /\ now' = [now EXCEPT ![c] = 0]
          /\ level' = [level EXCEPT ![c] = PRIORITY_MIN]
          /\ found' = [found EXCEPT ![c] = FALSE]
          /\ waiting' = [waiting EXCEPT ![c] = IF found[c] THEN {} ELSE @]
     ELSE /\ level' = [level EXCEPT ![c] = @ + 1]
          /\ UNCHANGED <<cpc, now, found, waiting>>
  /\ idx' = [idx EXCEPT ![c] = 1]
  /\ UNCHANGED <<ticks, tickslock, table, lock, ppc, thread, cproc, clk>>

\* wfi returns when an interrupt is pending; at the latest the next timer interrupt is.
Wfi(c) ==
  /\ cpc[c] = "wfi"
  /\ cpc' = [cpc EXCEPT ![c] = "intr"]
  /\ UNCHANGED <<ticks, tickslock, table, lock, ppc, thread, cproc, round, clk, waiting>>

----------------------------------------------------------------------------
(* Processes: sched() and its callers *)

\* sched(): swtch() to the scheduler of this CPU, p->lock goes along.
Swtch(c) ==
  \E p \in Proc :
    /\ Executes(c, p) /\ ppc[p] = "off"
    /\ lock[p] = c /\ state[p] # "RUNNING"     \* else panic
    /\ thread' = [thread EXCEPT ![c] = None]
    /\ cpc' = [cpc EXCEPT ![c] = "back"]
    /\ ppc' = [ppc EXCEPT ![p] = "on"]
    /\ UNCHANGED <<ticks, tickslock, table, lock, cproc, round, clk, waiting>>

\* After swtch(): yield(), sleep() or forkret() releases p->lock.
Resume(c) ==
  \E p \in Proc :
    /\ Executes(c, p) /\ ppc[p] = "on"
    /\ lock' = [lock EXCEPT ![p] = None]
    /\ ppc' = [ppc EXCEPT ![p] = "run"]
    /\ UNCHANGED <<ticks, tickslock, table, thread, cproc, cpc, round, clk, waiting>>

\* The end of a timer interrupt: yield().  On CPU 0 clockintr() has run before.
Yield(c) ==
  \E p \in Proc :
    /\ Executes(c, p) /\ (ppc[p] = "yield" \/ (c # cpu0 /\ ppc[p] = "run"))
    /\ lock[p] = None
    /\ lock' = [lock EXCEPT ![p] = c]
    /\ MakeRunnable(p)
    /\ ppc' = [ppc EXCEPT ![p] = "off"]
    /\ UNCHANGED <<ticks, tickslock, priority, chan, thread, cproc, cpc, round, clk, waiting>>

\* sleep(ch, lk) and kexit(): acquire p->lock, set the state, call sched().
Leave(c, st, ch) ==
  \E p \in Proc :
    /\ Executes(c, p) /\ ppc[p] = "run" /\ lock[p] = None
    /\ lock' = [lock EXCEPT ![p] = c]
    /\ state' = [state EXCEPT ![p] = st]
    /\ chan' = [chan EXCEPT ![p] = ch]
    /\ ppc' = [ppc EXCEPT ![p] = "off"]
    /\ UNCHANGED <<ticks, tickslock, priority, ready_since, thread, cproc, cpc, round, clk, waiting, since>>

\* sleep(): on &ticks the caller holds tickslock until it has p->lock.
Sleep(c) ==
  /\ "sleep" \in Moves
  /\ \/ Leave(c, "SLEEPING", "event")
     \/ tickslock = None /\ Leave(c, "SLEEPING", "ticks")

\* init (slot 1) never exits.
Exit(c) == "exit" \in Moves /\ thread[c] # 1 /\ Leave(c, "ZOMBIE", "none")

\* Code of another process, or of an interrupt taken at the top of scheduler().
Elsewhere(c, p) ==
  /\ lock[p] = None
  /\ \/ \E q \in Proc \ {p} : Executes(c, q) /\ ppc[q] = "run"
     \/ cpc[c] = "intr" /\ ~(c = cpu0 /\ clk # 0)

\* wakeup() of a channel other than &ticks, and the wakeup in kkill().
Wakeup(c, p) ==
  /\ Elsewhere(c, p) /\ state[p] = "SLEEPING"
  /\ MakeRunnable(p)
  /\ UNCHANGED <<ticks, tickslock, priority, chan, lock, ppc, thread, cproc, cpc, round, clk, waiting>>

\* freeproc() by the parent in kwait().
Reap(c, p) ==
  /\ Elsewhere(c, p) /\ cpc[c] # "intr" /\ state[p] = "ZOMBIE"
  /\ state' = [state EXCEPT ![p] = "UNUSED"]
  /\ priority' = [priority EXCEPT ![p] = DEFAULT_PRIORITY]
  /\ ready_since' = [ready_since EXCEPT ![p] = 0]
  /\ UNCHANGED <<ticks, tickslock, chan, lock, ppc, thread, cproc, cpc, round, clk, waiting, since>>

\* The end of kfork(): the child inherits the priority and starts in forkret().
Fork(c, p) ==
  /\ lock[p] = None /\ state[p] = "UNUSED"
  /\ \E q \in Proc :
       /\ Executes(c, q) /\ ppc[q] = "run"
       /\ priority' = [priority EXCEPT ![p] = priority[q]]
  /\ MakeRunnable(p)
  /\ ppc' = [ppc EXCEPT ![p] = "on"]
  /\ UNCHANGED <<ticks, tickslock, chan, lock, thread, cproc, cpc, round, clk, waiting>>

SetPriority_unchecked(c, prio) ==
  \E p \in Proc :
    /\ "setpriority" \in Moves
    /\ Executes(c, p) /\ ppc[p] = "run" /\ lock[p] = None
    /\ priority' = [priority EXCEPT ![p] = prio]
    /\ UNCHANGED <<ticks, tickslock, state, ready_since, chan, lock, ppc, thread, cproc, cpc, round,
                   clk, waiting, since>>

SetPriority(c, prio) ==
  \E p \in Proc :
    /\ "setpriority" \in Moves
    /\ prio >= PRIORITY_MIN /\ prio <= PRIORITY_MAX    \* else return -1
    /\ Executes(c, p) /\ ppc[p] = "run" /\ lock[p] = None
    /\ priority' = [priority EXCEPT ![p] = prio]
    /\ UNCHANGED <<ticks, tickslock, state, ready_since, chan, lock, ppc, thread, cproc, cpc, round,
                   clk, waiting, since>>

----------------------------------------------------------------------------
(* clockintr() on CPU 0 *)

ClockTick ==
  /\ clk = 0 /\ tickslock = None
  /\ \/ cpc[cpu0] = "intr"
     \/ \E p \in Proc : thread[cpu0] = p /\ ppc[p] = "run"
  /\ ticks' = (ticks + 1) % UintMod
  /\ tickslock' = cpu0
  /\ clk' = 1
  /\ UNCHANGED <<table, lock, ppc, thread, cproc, cpc, round, waiting>>

\* wakeup(&ticks), one process; the interrupted one is skipped.
ClockWake ==
  /\ clk \in Proc
  /\ clk' = clk + 1
  /\ IF clk # thread[cpu0] /\ state[clk] = "SLEEPING" /\ chan[clk] = "ticks"
     THEN lock[clk] = None /\ MakeRunnable(clk)
     ELSE (clk # thread[cpu0] => lock[clk] = None) /\ UNCHANGED <<state, ready_since, since>>
  /\ UNCHANGED <<ticks, tickslock, priority, chan, lock, ppc, thread, cproc, cpc, round, waiting>>

\* Back to the scheduler, or to usertrap()/kerneltrap(), which yields.
ClockDone ==
  /\ clk = NPROC + 1
  /\ tickslock' = None
  /\ clk' = 0
  /\ IF thread[cpu0] = None
     THEN cpc' = [cpc EXCEPT ![cpu0] = "top"] /\ UNCHANGED ppc
     ELSE ppc' = [ppc EXCEPT ![thread[cpu0]] = "yield"] /\ UNCHANGED cpc
  /\ UNCHANGED <<ticks, table, lock, thread, cproc, round, waiting>>

\* Another hart has seen started and enters scheduler().
Start(c) ==
  /\ cpc[c] = "boot"
  /\ cpc' = [cpc EXCEPT ![c] = "intr"]
  /\ UNCHANGED <<ticks, tickslock, table, lock, ppc, thread, cproc, round, clk, waiting>>

Alone == \A c \in CPU \ {cpu0} : cpc[c] = "boot"

----------------------------------------------------------------------------
\* main() on CPU 0, after userinit(): slot 1 is RUNNABLE; the other harts follow.
Init ==
  /\ ticks = 0 /\ tickslock = None /\ clk = 0
  /\ state = [p \in Proc |-> IF p = 1 THEN "RUNNABLE" ELSE "UNUSED"]
  /\ priority = [p \in Proc |-> DEFAULT_PRIORITY]
  /\ ready_since = [p \in Proc |-> 0]
  /\ chan = [p \in Proc |-> "none"]
  /\ lock = [p \in Proc |-> None]
  /\ ppc = [p \in Proc |-> "on"]
  /\ thread = [c \in CPU |-> None] /\ cproc = [c \in CPU |-> None]
  /\ cpc = [c \in CPU |-> IF c = cpu0 THEN "intr" ELSE "boot"]
  /\ now = [c \in CPU |-> 0] /\ level = [c \in CPU |-> 0]
  /\ idx = [c \in CPU |-> 1] /\ found = [c \in CPU |-> FALSE]
  /\ waiting = [c \in CPU |-> {}] /\ since = [p \in Proc |-> 0]

Round(c) == Top(c) \/ Pass(c) \/ Dispatch(c) \/ Back(c) \/ EndLevel(c) \/ Wfi(c)
Handoff(c) == Swtch(c) \/ Resume(c) \/ Yield(c)
Clock == ClockTick \/ ClockWake \/ ClockDone

Next ==
  \/ Clock
  \/ \E c \in CPU : \/ Start(c) \/ Round(c) \/ Handoff(c) \/ Sleep(c) \/ Exit(c)
                    \/ \E p \in Proc : Wakeup(c, p) \/ Reap(c, p) \/ Fork(c, p)
                    \/ \E prio \in PRIORITY_MIN - 1 .. PRIORITY_MAX + 1 : SetPriority(c, prio)

Spec == Init /\ [][Next]_vars

\* The timer interrupt stays pending until interrupts are enabled, so a tick that
\* is possible again and again happens; the rest is straight-line kernel code and
\* spinlocks that their holders release.
Fairness ==
  /\ SF_vars(ClockTick) /\ WF_vars(ClockWake) /\ WF_vars(ClockDone)
  /\ \A c \in CPU : SF_vars(Round(c)) /\ SF_vars(Handoff(c))

FairSpec == Spec /\ Fairness

----------------------------------------------------------------------------
(* Properties *)

\* Every variable stays in its range; in particular, the priorities of proc.c
\* stay within [PRIORITY_MIN, PRIORITY_MAX].
TypeOK ==
  /\ ticks \in Uint /\ tickslock \in {None, cpu0} /\ clk \in 0 .. NPROC + 1
  /\ state \in [Proc -> {"UNUSED", "RUNNABLE", "RUNNING", "SLEEPING", "ZOMBIE"}]
  /\ priority \in [Proc -> PRIORITY_MIN .. PRIORITY_MAX]
  /\ ready_since \in [Proc -> Uint] /\ since \in [Proc -> Uint]
  /\ chan \in [Proc -> {"none", "event", "ticks"}]
  /\ lock \in [Proc -> CPU \cup {None}]
  /\ ppc \in [Proc -> {"run", "yield", "off", "on"}]
  /\ thread \in [CPU -> Proc \cup {None}] /\ cproc \in [CPU -> Proc \cup {None}]
  /\ cpc \in [CPU -> {"boot", "intr", "top", "scan", "swtch", "back", "wfi"}]
  /\ now \in [CPU -> Uint] /\ level \in [CPU -> PRIORITY_MIN .. PRIORITY_MAX]
  /\ idx \in [CPU -> 1 .. NPROC + 1] /\ found \in [CPU -> BOOLEAN]
  /\ waiting \in [CPU -> SUBSET Proc]

\* p->lock, held across swtch(), keeps a process on one CPU: no two CPUs execute
\* the same kernel stack, a process that leaves its CPU cannot be picked up, woken
\* or reaped before that CPU is off its stack, and RUNNING means running.
OneCpuPerThread ==
  /\ \A c, d \in CPU : thread[c] # None /\ thread[c] = thread[d] => c = d
  /\ \A c \in CPU, p \in Proc : thread[c] = p => cproc[c] = p /\ (state[p] = "RUNNING" \/ lock[p] = c)
  /\ \A p \in Proc : state[p] = "RUNNING" => \E c \in CPU : thread[c] = p

\* A round of scheduler() serves the levels in order: when it looks at slot i of
\* level l, nothing that has been RUNNABLE since the round began has an effective
\* priority above l, or one equal to l in a slot already passed.  At the end of the
\* last level this leaves none: a CPU never waits for an interrupt while a process
\* was RUNNABLE during its whole round.  The exception is a round with the snapshot 0,
\* which stamps nothing: another CPU may then do so during the round.
LevelOrder ==
  \A c \in CPU : cpc[c] \in {"scan", "swtch", "back"} /\ (now[c] # 0 \/ Alone) =>
    \A p \in waiting[c] :
      LET e == EffectivePriority(priority[p], Stamp(c, p), now[c])
      IN  e > level[c] \/ (e = level[c] /\ p >= idx[c])

RealWait(p) == (ticks - since[p]) % UintMod

\* Levels gained by a process that scheduler() dispatches are paid for by ticks spent
\* RUNNABLE, up to the other processes' dispatches in the round that stamped it:
\* that round's snapshot of ticks is older than the process's wakeup.  It is so as long
\* as one CPU schedules (see BoostIsEarned for two).
AgingErrorBounded ==
  [][Alone => \A c \in CPU : Dispatch(c) =>
       (priority[idx[c]] - level[c]) * AGING_INTERVAL <= RealWait(idx[c]) + NPROC - 1]_vars

\* The documented formula: a process gains one level for every AGING_INTERVAL ticks
\* that it waits in the RUNNABLE state, and none for other time.
BoostIsEarned ==
  [][\A c \in CPU : Dispatch(c) =>
       (priority[idx[c]] - level[c]) * AGING_INTERVAL <= RealWait(idx[c])]_vars

\* The documented tie-break: of two processes with the same effective priority, the
\* one with the smaller ready_since runs first.
OldestFirst ==
  [][\A c \in CPU : Dispatch(c) =>
       \A q \in waiting[c] :
         EffectivePriority(priority[q], Stamp(c, q), now[c]) = level[c]
           => Stamp(c, q) >= Stamp(c, idx[c])]_vars

\* Aging prevents starvation: a RUNNABLE process eventually runs, whatever the
\* priorities of the others.
NoStarvation == \A p \in Proc : state[p] = "RUNNABLE" ~> state[p] = "RUNNING"
=============================================================================
