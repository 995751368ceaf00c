---------------------------- MODULE SchedProofs ----------------------------
(***************************************************************************)
(* Theorems about Sched: for any number of CPUs, slots of proc[] and       *)
(* priority levels, and any width of the tick counter, p->lock keeps every *)
(* process on one CPU, and a round of scheduler() serves the levels in     *)
(* order.                                                                  *)
(***************************************************************************)
EXTENDS Sched, TLAPS

----------------------------------------------------------------------------
(* The inductive invariant *)

\* What scheduler() on CPU c has in hand: nothing, the process it has switched to, or
\* the one that has switched back, whose lock it then holds.
CpuOK(c) ==
  /\ cpc[c] = "swtch" => idx[c] \in Proc /\ thread[c] = idx[c] /\ cproc[c] = idx[c]
  /\ cpc[c] # "swtch" => thread[c] = None
  /\ cpc[c] = "back" => idx[c] \in Proc /\ lock[idx[c]] = c /\ state[idx[c]] # "RUNNING"

\* A process on CPU c: RUNNING, or on its way off with its lock held.
ThreadOK(c, p) ==
  /\ ppc[p] \in {"run", "yield"} => state[p] = "RUNNING" /\ lock[p] = None
  /\ ppc[p] = "off" => state[p] # "RUNNING" /\ lock[p] = c
  /\ ppc[p] = "on" => state[p] = "RUNNING" /\ lock[p] = c

\* A process on no CPU has its context saved by swtch().
SavedOK(p) == (\A c \in CPU : thread[c] # p) => ppc[p] = "on" /\ state[p] # "RUNNING"

\* clockintr() interrupts the idle loop or a process that holds no lock.
ClockOK == clk # 0 => cpc[cpu0] = "intr" \/ \E p \in Proc : thread[cpu0] = p /\ ppc[p] = "run"

Threads ==
  /\ TypeOK /\ ClockOK
  /\ \A c, d \in CPU : thread[c] # None /\ thread[c] = thread[d] => c = d
  /\ \A c \in CPU : CpuOK(c)
  /\ \A c \in CPU, p \in Proc : thread[c] = p => ThreadOK(c, p)
  /\ \A p \in Proc : SavedOK(p)

\* The effective priority of p in the round of CPU c.
Effective(c, p) == EffectivePriority(priority[p], Stamp(c, p), now[c])

InRound(c) == cpc[c] \in {"scan", "swtch", "back"}

\* What has waited since the round of c began, is RUNNABLE; the slot being run is not part
\* of it; what the round has passed is stamped.
WaitingOK(c) ==
  /\ \A p \in waiting[c] : state[p] = "RUNNABLE"
  /\ cpc[c] \in {"swtch", "back"} => idx[c] \notin waiting[c]
  /\ InRound(c) /\ now[c] # 0 =>
       \A p \in waiting[c] : level[c] > PRIORITY_MIN \/ p < idx[c] => ready_since[p] # 0

OrderOK(c) ==
  InRound(c) /\ (now[c] # 0 \/ Alone) =>
    \A p \in waiting[c] : Effective(c, p) > level[c] \/ (Effective(c, p) = level[c] /\ p >= idx[c])

IndInv == Threads /\ \A c \in CPU : WaitingOK(c) /\ OrderOK(c)

----------------------------------------------------------------------------
(* Every step keeps the threads apart *)

LEMMA ZeroUint == 0 \in Uint
BY SchedAssumption DEF Uint

LEMMA NoneApart == None \notin Proc /\ None \notin CPU /\ cpu0 \in CPU
BY Zenon, SchedAssumption DEF Proc

\* A process that is neither RUNNING nor locked is on no CPU.
LEMMA OffCpu ==
  ASSUME Threads, NEW p \in Proc, state[p] # "RUNNING", lock[p] = None, NEW d \in CPU
  PROVE  thread[d] # p
<1> SUFFICES ASSUME thread[d] = p PROVE FALSE
  OBVIOUS
<1>1. ThreadOK(d, p) /\ ppc[p] \in {"run", "yield", "off", "on"} /\ d # None
  BY NoneApart DEF Threads, TypeOK
<1> QED BY <1>1 DEF ThreadOK

\* A step that changes one process, in place or while it is on no CPU and unlocked.
LEMMA OneProc ==
  ASSUME Threads, TypeOK', NEW p \in Proc, UNCHANGED <<thread, cproc, cpc, idx, clk>>,
         \A q \in Proc \ {p} : state'[q] = state[q] /\ lock'[q] = lock[q] /\ ppc'[q] = ppc[q],
         \A d \in CPU : thread[d] = p => ThreadOK(d, p)' /\ ~(d = cpu0 /\ clk # 0),
         (\A d \in CPU : thread[d] # p) => lock[p] = None /\ ppc'[p] = "on" /\ state'[p] # "RUNNING"
  PROVE  Threads'
<1>1. ClockOK' /\ \A e, d \in CPU : thread'[e] # None /\ thread'[e] = thread'[d] => e = d
  BY Zenon, SchedAssumption DEF Threads, ClockOK
<1>2. ASSUME NEW d \in CPU PROVE CpuOK(d)'
  <2>1. CpuOK(d)
    BY Zenon DEF Threads
  <2>2. cpc[d] = "back" => idx[d] # p
    <3> SUFFICES ASSUME cpc[d] = "back", idx[d] = p PROVE FALSE
      OBVIOUS
    <3>1. lock[p] = d /\ thread[d] = None
      BY Zenon, <2>1 DEF CpuOK
    <3>2. PICK e \in CPU : thread[e] = p
      BY Zenon, <3>1, SchedAssumption
    <3>3. ThreadOK(e, p) /\ ppc[p] \in {"run", "yield", "off", "on"}
      BY Zenon, <3>2 DEF Threads, TypeOK
    <3>4. e # d /\ d # None
      BY Zenon, <3>1, <3>2, NoneApart
    <3> QED BY Zenon, <3>1, <3>3, <3>4 DEF ThreadOK
  <2> QED BY Zenon, <2>1, <2>2 DEF CpuOK
<1>3. ASSUME NEW d \in CPU, NEW q \in Proc, thread'[d] = q PROVE ThreadOK(d, q)'
  <2>1. CASE q = p
    BY Zenon, <1>3, <2>1
  <2>2. CASE q # p
    BY <1>3, <2>2 DEF Threads, ThreadOK
  <2> QED BY Zenon, <2>1, <2>2
<1>4. ASSUME NEW q \in Proc PROVE SavedOK(q)'
  BY Zenon DEF Threads, SavedOK
<1> QED BY Zenon, <1>1, <1>2, <1>3, <1>4 DEF Threads

LEMMA TopTypes == ASSUME TypeOK, NEW c \in CPU, Top(c) PROVE TypeOK'
<1>1. now' \in [CPU -> Uint]
  BY Zenon, ZeroUint DEF Top, table, round, TypeOK
<1>2. level' \in [CPU -> PRIORITY_MIN .. PRIORITY_MAX]
  BY SchedAssumption DEF Top, table, round, TypeOK, PRIORITY_MIN
<1>3. idx' \in [CPU -> 1 .. NPROC + 1]
  BY SchedAssumption DEF Top, table, round, TypeOK, Proc
<1>4. found' \in [CPU -> BOOLEAN]
  BY Zenon DEF Top, table, round, TypeOK
<1>5. cpc' \in [CPU -> {"boot", "intr", "top", "scan", "swtch", "back", "wfi"}]
  BY Zenon DEF Top, table, round, TypeOK
<1>6. waiting' \in [CPU -> SUBSET Proc]
  BY Zenon DEF Top, table, round, TypeOK
<1>7. UNCHANGED <<ticks, tickslock, clk, state, priority, ready_since, since, chan, lock, ppc, thread, cproc>>
  BY Zenon DEF Top, table, round
<1> QED BY Zenon, <1>1, <1>2, <1>3, <1>4, <1>5, <1>6, <1>7 DEF TypeOK

LEMMA TopThreads == ASSUME Threads, NEW c \in CPU, Top(c) PROVE Threads'
<1>1. TypeOK'
  BY Zenon, TopTypes DEF Threads
<1>2. ClockOK' /\ \A e, d \in CPU : thread'[e] # None /\ thread'[e] = thread'[d] => e = d
  BY SchedAssumption DEF Top, table, round, Threads, TypeOK, ClockOK, CpuOK, ThreadOK, Proc
<1>3. ASSUME NEW d \in CPU PROVE CpuOK(d)'
  BY SchedAssumption DEF Top, table, round, Threads, TypeOK, CpuOK, ThreadOK, Proc
<1>4. ASSUME NEW d \in CPU, NEW q \in Proc, thread'[d] = q PROVE ThreadOK(d, q)'
  BY <1>4, SchedAssumption DEF Top, table, round, Threads, TypeOK, CpuOK, ThreadOK, SavedOK, ClockOK, Proc
<1>5. ASSUME NEW q \in Proc PROVE SavedOK(q)'
  BY Zenon, SchedAssumption DEF Top, table, round, Threads, TypeOK, CpuOK, ThreadOK, SavedOK, ClockOK, Proc
<1> QED BY Zenon, <1>1, <1>2, <1>3, <1>4, <1>5 DEF Threads

LEMMA PassTypes == ASSUME TypeOK, NEW c \in CPU, Pass(c) PROVE TypeOK'
<1>1. ready_since' \in [Proc -> Uint]
  BY Zenon, ZeroUint DEF Pass, Stamp, table, round, TypeOK
<1>2. idx' \in [CPU -> 1 .. NPROC + 1]
  BY SchedAssumption DEF Pass, Stamp, table, round, TypeOK, Proc, Proc
<1>3. UNCHANGED <<ticks, tickslock, clk, state, priority, since, chan, lock, ppc, thread, cproc, cpc, now, level, found, waiting>>
  BY Zenon DEF Pass, Stamp, table, round
<1> QED BY Zenon, <1>1, <1>2, <1>3 DEF TypeOK

LEMMA PassThreads == ASSUME Threads, NEW c \in CPU, Pass(c) PROVE Threads'
<1>1. TypeOK'
  BY Zenon, PassTypes DEF Threads
<1>2. ClockOK' /\ \A e, d \in CPU : thread'[e] # None /\ thread'[e] = thread'[d] => e = d
  BY SchedAssumption DEF Pass, Stamp, table, round, Threads, TypeOK, ClockOK, CpuOK, ThreadOK, Proc
<1>3. ASSUME NEW d \in CPU PROVE CpuOK(d)'
  BY SchedAssumption DEF Pass, Stamp, table, round, Threads, TypeOK, CpuOK, ThreadOK, Proc
<1>4. thread' = thread /\ ppc' = ppc /\ state' = state /\ lock' = lock
  BY Zenon DEF Pass
<1>5. ASSUME NEW d \in CPU, NEW q \in Proc, thread'[d] = q PROVE ThreadOK(d, q)'
  BY Zenon, <1>4, <1>5 DEF Threads, ThreadOK
<1>6. ASSUME NEW q \in Proc PROVE SavedOK(q)'
  BY Zenon, <1>4 DEF Threads, SavedOK
<1> QED BY Zenon, <1>1, <1>2, <1>3, <1>5, <1>6 DEF Threads

LEMMA DispatchTypes == ASSUME TypeOK, NEW c \in CPU, Dispatch(c) PROVE TypeOK'
<1>1. ready_since' \in [Proc -> Uint]
  BY Zenon, ZeroUint DEF Dispatch, Stamp, Chosen, table, round, TypeOK
<1>2. state' \in [Proc -> {"UNUSED", "RUNNABLE", "RUNNING", "SLEEPING", "ZOMBIE"}]
  BY Zenon DEF Dispatch, Stamp, Chosen, table, round, TypeOK
<1>3. cproc' \in [CPU -> Proc \cup {None}]
  BY SchedAssumption DEF Dispatch, Stamp, Chosen, table, round, TypeOK, Proc
<1>4. lock' \in [Proc -> CPU \cup {None}]
  BY Zenon, SchedAssumption DEF Dispatch, Stamp, Chosen, table, round, TypeOK, Proc
<1>5. thread' \in [CPU -> Proc \cup {None}]
  BY SchedAssumption DEF Dispatch, Stamp, Chosen, table, round, TypeOK, Proc
<1>6. cpc' \in [CPU -> {"boot", "intr", "top", "scan", "swtch", "back", "wfi"}]
  BY Zenon DEF Dispatch, Stamp, Chosen, table, round, TypeOK
<1>7. waiting' \in [CPU -> SUBSET Proc]
  BY Zenon DEF Dispatch, Stamp, Chosen, table, round, TypeOK
<1>8. since' \in [Proc -> Uint]
  BY Zenon, ZeroUint DEF Dispatch, Stamp, Chosen, table, round, TypeOK
<1>9. UNCHANGED <<ticks, tickslock, clk, priority, chan, ppc, now, level, idx, found>>
  BY Zenon DEF Dispatch, Stamp, Chosen, table, round
<1> QED BY Zenon, <1>1, <1>2, <1>3, <1>4, <1>5, <1>6, <1>7, <1>8, <1>9 DEF TypeOK

LEMMA DispatchThreads == ASSUME Threads, NEW c \in CPU, Dispatch(c) PROVE Threads'
<1>1. TypeOK'
  BY Zenon, DispatchTypes DEF Threads
<1> DEFINE p == idx[c]
<1>2. /\ p \in Proc /\ lock[p] = None /\ state[p] = "RUNNABLE" /\ cpc[c] = "scan" /\ clk' = clk /\ ppc' = ppc
      /\ idx' = idx /\ cproc' = [cproc EXCEPT ![c] = p] /\ state' = [state EXCEPT ![p] = "RUNNING"]
      /\ lock' = [lock EXCEPT ![p] = c] /\ thread' = [thread EXCEPT ![c] = p] /\ cpc' = [cpc EXCEPT ![c] = "swtch"]
  BY DEF Dispatch, Chosen, round, Threads, TypeOK, Proc
<1>3. thread[c] = None /\ \A d \in CPU : thread[d] # p
  <2>1. thread[c] = None
    BY Zenon, <1>2 DEF Threads, CpuOK
  <2>2. ASSUME NEW d \in CPU, thread[d] = p PROVE FALSE
    <3>1. ThreadOK(d, p) /\ ppc[p] \in {"run", "yield", "off", "on"} /\ d # None
      BY Zenon, <1>2, <2>2, SchedAssumption DEF Threads, TypeOK
    <3> QED BY Zenon, <1>2, <3>1 DEF ThreadOK
  <2> QED BY Zenon, <2>1, <2>2
<1> HIDE DEF p
<1>4. ClockOK'
  <2>1. clk # 0 => cpu0 # c
    BY Zenon, <1>2, <1>3, NoneApart DEF Threads, ClockOK
  <2>2. clk # 0 => cpc'[cpu0] = cpc[cpu0] /\ thread'[cpu0] = thread[cpu0]
    BY Zenon, <1>2, <2>1, SchedAssumption DEF Threads, TypeOK
  <2> QED BY Zenon, <1>2, <2>2 DEF Threads, ClockOK
<1>5. \A e, d \in CPU : thread'[e] # None /\ thread'[e] = thread'[d] => e = d
  BY Zenon, <1>2, <1>3 DEF Threads, TypeOK
<1>6. ASSUME NEW d \in CPU PROVE CpuOK(d)'
  BY <1>2, SchedAssumption DEF Threads, TypeOK, CpuOK, p
<1>7. ASSUME NEW d \in CPU, NEW q \in Proc, thread'[d] = q PROVE ThreadOK(d, q)'
  BY <1>2, <1>3, <1>7 DEF Threads, TypeOK, ThreadOK, SavedOK
<1>8. ASSUME NEW q \in Proc PROVE SavedOK(q)'
  <2> SUFFICES ASSUME \A d \in CPU : thread'[d] # q PROVE ppc'[q] = "on" /\ state'[q] # "RUNNING"
    BY Zenon DEF SavedOK
  <2>1. thread'[c] = p /\ \A d \in CPU \ {c} : thread'[d] = thread[d]
    BY Zenon, <1>2 DEF Threads, TypeOK
  <2>2. q # p /\ \A d \in CPU : thread[d] # q
    BY Zenon, <1>3, <2>1, NoneApart
  <2> QED BY Zenon, <1>2, <2>2 DEF Threads, TypeOK, SavedOK
<1> QED BY Zenon, <1>1, <1>4, <1>5, <1>6, <1>7, <1>8 DEF Threads

LEMMA BackTypes == ASSUME TypeOK, NEW c \in CPU, idx[c] \in Proc, Back(c) PROVE TypeOK'
<1>1. cproc' \in [CPU -> Proc \cup {None}]
  BY Zenon, SchedAssumption DEF Back, table, round, TypeOK, Proc
<1>2. found' \in [CPU -> BOOLEAN]
  BY Zenon DEF Back, table, round, TypeOK
<1>3. lock' \in [Proc -> CPU \cup {None}]
  BY Zenon, SchedAssumption DEF Back, table, round, TypeOK, Proc
<1>4. idx' \in [CPU -> 1 .. NPROC + 1]
  BY SchedAssumption DEF Back, table, round, TypeOK, Proc
<1>5. cpc' \in [CPU -> {"boot", "intr", "top", "scan", "swtch", "back", "wfi"}]
  BY Zenon DEF Back, table, round, TypeOK
<1>6. UNCHANGED <<ticks, tickslock, clk, state, priority, ready_since, since, chan, ppc, thread, now, level, waiting>>
  BY Zenon DEF Back, table, round
<1> QED BY Zenon, <1>1, <1>2, <1>3, <1>4, <1>5, <1>6 DEF TypeOK

LEMMA BackThreads == ASSUME Threads, NEW c \in CPU, Back(c) PROVE Threads'
<1>1. TypeOK'
  BY Zenon, BackTypes DEF Threads, Back, CpuOK
<1>2. ClockOK' /\ \A e, d \in CPU : thread'[e] # None /\ thread'[e] = thread'[d] => e = d
  BY SchedAssumption DEF Back, table, round, Threads, TypeOK, ClockOK, CpuOK, ThreadOK, Proc
<1>3. ASSUME NEW d \in CPU PROVE CpuOK(d)'
  BY SchedAssumption DEF Back, table, round, Threads, TypeOK, CpuOK, ThreadOK, Proc
<1>4. ASSUME NEW d \in CPU, NEW q \in Proc, thread'[d] = q PROVE ThreadOK(d, q)'
  <2>1. thread' = thread /\ ppc' = ppc /\ state' = state /\ lock' = [lock EXCEPT ![idx[c]] = None]
    BY Zenon DEF Back, table
  <2>2. ThreadOK(d, q) /\ lock \in [Proc -> CPU \cup {None}]
    BY Zenon, <1>4, <2>1 DEF Threads, TypeOK
  <2>3. cpc[c] = "back" /\ lock[idx[c]] = c /\ thread[c] = None
    BY Zenon DEF Back, Threads, CpuOK
  <2>4. CASE q = idx[c]
    <3>1. lock[q] # d
      BY Zenon, <1>4, <2>1, <2>3, <2>4, NoneApart
    <3>2. lock'[q] = None
      BY Zenon, <2>1, <2>2, <2>4
    <3> QED BY Zenon, <2>1, <2>2, <3>1, <3>2 DEF ThreadOK
  <2>5. CASE q # idx[c]
    <3>1. lock'[q] = lock[q]
      BY Zenon, <2>1, <2>2, <2>5
    <3> QED BY Zenon, <2>1, <2>2, <3>1 DEF ThreadOK
  <2> QED BY Zenon, <2>4, <2>5
<1>5. ASSUME NEW q \in Proc PROVE SavedOK(q)'
  BY SchedAssumption DEF Back, table, round, Threads, TypeOK, CpuOK, ThreadOK, SavedOK, ClockOK, Proc
<1> QED BY Zenon, <1>1, <1>2, <1>3, <1>4, <1>5 DEF Threads

LEMMA EndLevelTypes == ASSUME TypeOK, NEW c \in CPU, EndLevel(c) PROVE TypeOK'
<1>1. cpc' \in [CPU -> {"boot", "intr", "top", "scan", "swtch", "back", "wfi"}]
  BY DEF EndLevel, table, round, TypeOK
<1>2. now' \in [CPU -> Uint]
  BY Zenon, ZeroUint DEF EndLevel, table, round, TypeOK
<1>3. level' \in [CPU -> PRIORITY_MIN .. PRIORITY_MAX]
  BY SchedAssumption DEF EndLevel, table, round, TypeOK, PRIORITY_MIN
<1>4. found' \in [CPU -> BOOLEAN]
  BY Zenon DEF EndLevel, table, round, TypeOK
<1>5. waiting' \in [CPU -> SUBSET Proc]
  BY Zenon DEF EndLevel, table, round, TypeOK
<1>6. idx' \in [CPU -> 1 .. NPROC + 1]
  BY SchedAssumption DEF EndLevel, table, round, TypeOK, Proc
<1>7. UNCHANGED <<ticks, tickslock, clk, state, priority, ready_since, since, chan, lock, ppc, thread, cproc>>
  BY Zenon DEF EndLevel, table, round
<1> QED BY Zenon, <1>1, <1>2, <1>3, <1>4, <1>5, <1>6, <1>7 DEF TypeOK

LEMMA EndLevelThreads == ASSUME Threads, NEW c \in CPU, EndLevel(c) PROVE Threads'
<1>1. TypeOK'
  BY Zenon, EndLevelTypes DEF Threads
<1>2. ClockOK' /\ \A e, d \in CPU : thread'[e] # None /\ thread'[e] = thread'[d] => e = d
  BY SchedAssumption DEF EndLevel, table, round, Threads, TypeOK, ClockOK, CpuOK, ThreadOK, Proc
<1>3. ASSUME NEW d \in CPU PROVE CpuOK(d)'
  BY SchedAssumption DEF EndLevel, table, round, Threads, TypeOK, CpuOK, ThreadOK, Proc
<1>4. ASSUME NEW d \in CPU, NEW q \in Proc, thread'[d] = q PROVE ThreadOK(d, q)'
  BY <1>4, SchedAssumption DEF EndLevel, table, round, Threads, TypeOK, CpuOK, ThreadOK, SavedOK, ClockOK, Proc
<1>5. ASSUME NEW q \in Proc PROVE SavedOK(q)'
  BY SchedAssumption DEF EndLevel, table, round, Threads, TypeOK, CpuOK, ThreadOK, SavedOK, ClockOK, Proc
<1> QED BY Zenon, <1>1, <1>2, <1>3, <1>4, <1>5 DEF Threads

LEMMA WfiTypes == ASSUME TypeOK, NEW c \in CPU, Wfi(c) PROVE TypeOK'
<1>1. cpc' \in [CPU -> {"boot", "intr", "top", "scan", "swtch", "back", "wfi"}]
  BY Zenon DEF Wfi, table, round, TypeOK
<1>2. UNCHANGED <<ticks, tickslock, clk, state, priority, ready_since, since, chan, lock, ppc, thread, cproc, now, level, idx, found, waiting>>
  BY Zenon DEF Wfi, table, round
<1> QED BY Zenon, <1>1, <1>2 DEF TypeOK

LEMMA WfiThreads == ASSUME Threads, NEW c \in CPU, Wfi(c) PROVE Threads'
<1>1. TypeOK'
  BY Zenon, WfiTypes DEF Threads
<1>2. ClockOK' /\ \A e, d \in CPU : thread'[e] # None /\ thread'[e] = thread'[d] => e = d
  BY SchedAssumption DEF Wfi, table, round, Threads, TypeOK, ClockOK, CpuOK, ThreadOK, Proc
<1>3. ASSUME NEW d \in CPU PROVE CpuOK(d)'
  BY SchedAssumption DEF Wfi, table, round, Threads, TypeOK, CpuOK, ThreadOK, Proc
<1>4. ASSUME NEW d \in CPU, NEW q \in Proc, thread'[d] = q PROVE ThreadOK(d, q)'
  BY <1>4, SchedAssumption DEF Wfi, table, round, Threads, TypeOK, CpuOK, ThreadOK, SavedOK, ClockOK, Proc
<1>5. ASSUME NEW q \in Proc PROVE SavedOK(q)'
  BY SchedAssumption DEF Wfi, table, round, Threads, TypeOK, CpuOK, ThreadOK, SavedOK, ClockOK, Proc
<1> QED BY Zenon, <1>1, <1>2, <1>3, <1>4, <1>5 DEF Threads

LEMMA StartTypes == ASSUME TypeOK, NEW c \in CPU, Start(c) PROVE TypeOK'
<1>1. cpc' \in [CPU -> {"boot", "intr", "top", "scan", "swtch", "back", "wfi"}]
  BY Zenon DEF Start, table, round, TypeOK
<1>2. UNCHANGED <<ticks, tickslock, clk, state, priority, ready_since, since, chan, lock, ppc, thread, cproc, now, level, idx, found, waiting>>
  BY Zenon DEF Start, table, round
<1> QED BY Zenon, <1>1, <1>2 DEF TypeOK

LEMMA StartThreads == ASSUME Threads, NEW c \in CPU, Start(c) PROVE Threads'
<1>1. TypeOK'
  BY Zenon, StartTypes DEF Threads
<1>2. ClockOK' /\ \A e, d \in CPU : thread'[e] # None /\ thread'[e] = thread'[d] => e = d
  BY SchedAssumption DEF Start, table, round, Threads, TypeOK, ClockOK, CpuOK, ThreadOK, Proc
<1>3. ASSUME NEW d \in CPU PROVE CpuOK(d)'
  BY SchedAssumption DEF Start, table, round, Threads, TypeOK, CpuOK, ThreadOK, Proc
<1>4. ASSUME NEW d \in CPU, NEW q \in Proc, thread'[d] = q PROVE ThreadOK(d, q)'
  BY <1>4, SchedAssumption DEF Start, table, round, Threads, TypeOK, CpuOK, ThreadOK, SavedOK, ClockOK, Proc
<1>5. ASSUME NEW q \in Proc PROVE SavedOK(q)'
  BY SchedAssumption DEF Start, table, round, Threads, TypeOK, CpuOK, ThreadOK, SavedOK, ClockOK, Proc
<1> QED BY Zenon, <1>1, <1>2, <1>3, <1>4, <1>5 DEF Threads

LEMMA SwtchTypes == ASSUME TypeOK, NEW c \in CPU, Swtch(c) PROVE TypeOK'
<1>1. thread' \in [CPU -> Proc \cup {None}]
  BY Zenon, SchedAssumption DEF Swtch, Executes, table, round, TypeOK, Proc
<1>2. cpc' \in [CPU -> {"boot", "intr", "top", "scan", "swtch", "back", "wfi"}]
  BY DEF Swtch, Executes, table, round, TypeOK
<1>3. ppc' \in [Proc -> {"run", "yield", "off", "on"}]
  BY DEF Swtch, Executes, table, round, TypeOK
<1>4. UNCHANGED <<ticks, tickslock, clk, state, priority, ready_since, since, chan, lock, cproc, now, level, idx, found, waiting>>
  BY Zenon DEF Swtch, Executes, table, round
<1> QED BY Zenon, <1>1, <1>2, <1>3, <1>4 DEF TypeOK

LEMMA SwtchThreads == ASSUME Threads, NEW c \in CPU, Swtch(c) PROVE Threads'
<1>1. TypeOK'
  BY Zenon, SwtchTypes DEF Threads
<1>2. ClockOK' /\ \A e, d \in CPU : thread'[e] # None /\ thread'[e] = thread'[d] => e = d
  BY SchedAssumption DEF Swtch, Executes, table, round, Threads, TypeOK, ClockOK, CpuOK, ThreadOK, Proc
<1>3. ASSUME NEW d \in CPU PROVE CpuOK(d)'
  BY SchedAssumption DEF Swtch, Executes, table, round, Threads, TypeOK, CpuOK, ThreadOK, Proc
<1>4. ASSUME NEW d \in CPU, NEW q \in Proc, thread'[d] = q PROVE ThreadOK(d, q)'
  BY <1>4, SchedAssumption DEF Swtch, Executes, table, round, Threads, TypeOK, CpuOK, ThreadOK, SavedOK, ClockOK, Proc
<1>5. ASSUME NEW q \in Proc PROVE SavedOK(q)'
  BY SchedAssumption DEF Swtch, Executes, table, round, Threads, TypeOK, CpuOK, ThreadOK, SavedOK, ClockOK, Proc
<1> QED BY Zenon, <1>1, <1>2, <1>3, <1>4, <1>5 DEF Threads

LEMMA ResumeTypes == ASSUME TypeOK, NEW c \in CPU, Resume(c) PROVE TypeOK'
<1>1. lock' \in [Proc -> CPU \cup {None}]
  BY SchedAssumption DEF Resume, Executes, table, round, TypeOK, Proc
<1>2. ppc' \in [Proc -> {"run", "yield", "off", "on"}]
  BY DEF Resume, Executes, table, round, TypeOK
<1>3. UNCHANGED <<ticks, tickslock, clk, state, priority, ready_since, since, chan, thread, cproc, cpc, now, level, idx, found, waiting>>
  BY Zenon DEF Resume, Executes, table, round
<1> QED BY Zenon, <1>1, <1>2, <1>3 DEF TypeOK

LEMMA ResumeThreads == ASSUME Threads, NEW c \in CPU, Resume(c) PROVE Threads'
<1>1. TypeOK'
  BY Zenon, ResumeTypes DEF Threads
<1>2. PICK p \in Proc :
      /\ Executes(c, p) /\ ppc[p] = "on"
      /\ lock' = [lock EXCEPT ![p] = None]
      /\ ppc' = [ppc EXCEPT ![p] = "run"]
      /\ UNCHANGED <<ticks, tickslock, table, thread, cproc, cpc, round, clk, waiting>>
  BY Zenon DEF Resume
<1>3. UNCHANGED <<thread, cproc, cpc, idx, clk>>
  BY Zenon, <1>2 DEF Executes, table, round
<1>4. \A q \in Proc \ {p} : state'[q] = state[q] /\ lock'[q] = lock[q] /\ ppc'[q] = ppc[q]
  BY Zenon, <1>2 DEF Executes, table, round, Threads, TypeOK
<1>5. \A d \in CPU : thread[d] = p => ThreadOK(d, p)' /\ ~(d = cpu0 /\ clk # 0)
  BY <1>2, SchedAssumption DEF Executes, table, round, Threads, TypeOK, ThreadOK, Proc
<1>6. (\A d \in CPU : thread[d] # p) => lock[p] = None /\ ppc'[p] = "on" /\ state'[p] # "RUNNING"
  BY Zenon, <1>2, SchedAssumption DEF Executes, table, round, Threads, TypeOK, SavedOK, Proc
<1> QED BY Zenon, <1>1, <1>3, <1>4, <1>5, <1>6, OneProc

LEMMA YieldTypes == ASSUME TypeOK, NEW c \in CPU, Yield(c) PROVE TypeOK'
<1>1. lock' \in [Proc -> CPU \cup {None}]
  BY SchedAssumption DEF Yield, Executes, MakeRunnable, table, round, TypeOK, Proc
<1>2. state' \in [Proc -> {"UNUSED", "RUNNABLE", "RUNNING", "SLEEPING", "ZOMBIE"}]
  BY DEF Yield, Executes, MakeRunnable, table, round, TypeOK
<1>3. ready_since' \in [Proc -> Uint]
  BY ZeroUint DEF Yield, Executes, MakeRunnable, table, round, TypeOK
<1>4. since' \in [Proc -> Uint]
  BY ZeroUint DEF Yield, Executes, MakeRunnable, table, round, TypeOK
<1>5. ppc' \in [Proc -> {"run", "yield", "off", "on"}]
  BY DEF Yield, Executes, MakeRunnable, table, round, TypeOK
<1>6. UNCHANGED <<ticks, tickslock, clk, priority, chan, thread, cproc, cpc, now, level, idx, found, waiting>>
  BY Zenon DEF Yield, Executes, MakeRunnable, table, round
<1> QED BY Zenon, <1>1, <1>2, <1>3, <1>4, <1>5, <1>6 DEF TypeOK

LEMMA YieldThreads == ASSUME Threads, NEW c \in CPU, Yield(c) PROVE Threads'
<1>1. TypeOK'
  BY Zenon, YieldTypes DEF Threads
<1>2. PICK p \in Proc :
      /\ Executes(c, p) /\ (ppc[p] = "yield" \/ (c # cpu0 /\ ppc[p] = "run"))
      /\ lock[p] = None
      /\ lock' = [lock EXCEPT ![p] = c]
      /\ MakeRunnable(p)
      /\ ppc' = [ppc EXCEPT ![p] = "off"]
      /\ UNCHANGED <<ticks, tickslock, priority, chan, thread, cproc, cpc, round, clk, waiting>>
  BY Zenon DEF Yield
<1>3. UNCHANGED <<thread, cproc, cpc, idx, clk>>
  BY Zenon, <1>2 DEF Executes, MakeRunnable, table, round
<1>4. \A q \in Proc \ {p} : state'[q] = state[q] /\ lock'[q] = lock[q] /\ ppc'[q] = ppc[q]
  BY Zenon, <1>2 DEF Executes, MakeRunnable, table, round, Threads, TypeOK
<1>5. \A d \in CPU : thread[d] = p => ThreadOK(d, p)' /\ ~(d = cpu0 /\ clk # 0)
  BY <1>2, SchedAssumption DEF Executes, MakeRunnable, table, round, Threads, TypeOK, ThreadOK, Proc
<1>6. (\A d \in CPU : thread[d] # p) => lock[p] = None /\ ppc'[p] = "on" /\ state'[p] # "RUNNING"
  BY Zenon, <1>2, SchedAssumption DEF Executes, MakeRunnable, table, round, Threads, TypeOK, SavedOK, Proc
<1> QED BY Zenon, <1>1, <1>3, <1>4, <1>5, <1>6, OneProc

LEMMA LeaveTypes == ASSUME TypeOK, NEW c \in CPU, NEW st \in {"SLEEPING", "ZOMBIE"}, NEW ch \in {"none", "event", "ticks"}, Leave(c, st, ch) PROVE TypeOK'
<1>1. lock' \in [Proc -> CPU \cup {None}]
  BY SchedAssumption DEF Leave, Executes, table, round, TypeOK, Proc
<1>2. state' \in [Proc -> {"UNUSED", "RUNNABLE", "RUNNING", "SLEEPING", "ZOMBIE"}]
  BY DEF Leave, Executes, table, round, TypeOK
<1>3. chan' \in [Proc -> {"none", "event", "ticks"}]
  BY DEF Leave, Executes, table, round, TypeOK
<1>4. ppc' \in [Proc -> {"run", "yield", "off", "on"}]
  BY DEF Leave, Executes, table, round, TypeOK
<1>5. UNCHANGED <<ticks, tickslock, clk, priority, ready_since, since, thread, cproc, cpc, now, level, idx, found, waiting>>
  BY Zenon DEF Leave, Executes, table, round
<1> QED BY Zenon, <1>1, <1>2, <1>3, <1>4, <1>5 DEF TypeOK

LEMMA LeaveThreads == ASSUME Threads, NEW c \in CPU, NEW st \in {"SLEEPING", "ZOMBIE"}, NEW ch \in {"none", "event", "ticks"}, Leave(c, st, ch) PROVE Threads'
<1>1. TypeOK'
  BY Zenon, LeaveTypes DEF Threads
<1>2. PICK p \in Proc :
      /\ Executes(c, p) /\ ppc[p] = "run" /\ lock[p] = None
      /\ lock' = [lock EXCEPT ![p] = c]
      /\ state' = [state EXCEPT ![p] = st]
      /\ chan' = [chan EXCEPT ![p] = ch]
      /\ ppc' = [ppc EXCEPT ![p] = "off"]
      /\ UNCHANGED <<ticks, tickslock, priority, ready_since, thread, cproc, cpc, round, clk, waiting, since>>
  BY Zenon DEF Leave
<1>3. UNCHANGED <<thread, cproc, cpc, idx, clk>>
  BY Zenon, <1>2 DEF Executes, table, round
<1>4. \A q \in Proc \ {p} : state'[q] = state[q] /\ lock'[q] = lock[q] /\ ppc'[q] = ppc[q]
  BY Zenon, <1>2 DEF Executes, table, round, Threads, TypeOK
<1>5. \A d \in CPU : thread[d] = p => ThreadOK(d, p)' /\ ~(d = cpu0 /\ clk # 0)
  BY <1>2, SchedAssumption DEF Executes, table, round, Threads, TypeOK, ThreadOK, Proc
<1>6. (\A d \in CPU : thread[d] # p) => lock[p] = None /\ ppc'[p] = "on" /\ state'[p] # "RUNNING"
  BY Zenon, <1>2, SchedAssumption DEF Executes, table, round, Threads, TypeOK, SavedOK, Proc
<1> QED BY Zenon, <1>1, <1>3, <1>4, <1>5, <1>6, OneProc

LEMMA WakeupTypes == ASSUME TypeOK, NEW c \in CPU, NEW p \in Proc, Wakeup(c, p) PROVE TypeOK'
<1>1. state' \in [Proc -> {"UNUSED", "RUNNABLE", "RUNNING", "SLEEPING", "ZOMBIE"}]
  BY Zenon DEF Wakeup, Elsewhere, MakeRunnable, table, round, TypeOK
<1>2. ready_since' \in [Proc -> Uint]
  BY Zenon, ZeroUint DEF Wakeup, Elsewhere, MakeRunnable, table, round, TypeOK
<1>3. since' \in [Proc -> Uint]
  BY Zenon, ZeroUint DEF Wakeup, Elsewhere, MakeRunnable, table, round, TypeOK
<1>4. UNCHANGED <<ticks, tickslock, clk, priority, chan, lock, ppc, thread, cproc, cpc, now, level, idx, found, waiting>>
  BY Zenon DEF Wakeup, Elsewhere, MakeRunnable, table, round
<1> QED BY Zenon, <1>1, <1>2, <1>3, <1>4 DEF TypeOK

LEMMA WakeupThreads == ASSUME Threads, NEW c \in CPU, NEW p \in Proc, Wakeup(c, p) PROVE Threads'
<1>1. TypeOK'
  BY Zenon, WakeupTypes DEF Threads
<1>2. UNCHANGED <<thread, cproc, cpc, idx, clk>>
  BY Zenon DEF Wakeup, Elsewhere, MakeRunnable, table, round
<1>3. \A q \in Proc \ {p} : state'[q] = state[q] /\ lock'[q] = lock[q] /\ ppc'[q] = ppc[q]
  BY Zenon DEF Wakeup, Elsewhere, MakeRunnable, table, round, Threads, TypeOK
<1>4. \A d \in CPU : thread[d] = p => ThreadOK(d, p)' /\ ~(d = cpu0 /\ clk # 0)
  <2>1. state[p] # "RUNNING" /\ lock[p] = None
    BY DEF Wakeup, Elsewhere
  <2> QED BY Zenon, <2>1, OffCpu
<1>5. (\A d \in CPU : thread[d] # p) => lock[p] = None /\ ppc'[p] = "on" /\ state'[p] # "RUNNING"
  BY Zenon, SchedAssumption DEF Wakeup, Elsewhere, MakeRunnable, table, round, Threads, TypeOK, SavedOK, Proc
<1> QED BY Zenon, <1>1, <1>2, <1>3, <1>4, <1>5, OneProc

LEMMA ReapTypes == ASSUME TypeOK, NEW c \in CPU, NEW p \in Proc, Reap(c, p) PROVE TypeOK'
<1>1. state' \in [Proc -> {"UNUSED", "RUNNABLE", "RUNNING", "SLEEPING", "ZOMBIE"}]
  BY Zenon DEF Reap, Elsewhere, table, round, TypeOK
<1>2. priority' \in [Proc -> PRIORITY_MIN .. PRIORITY_MAX]
  BY Zenon, SchedAssumption DEF Reap, Elsewhere, table, round, TypeOK, PRIORITY_MIN, Proc
<1>3. ready_since' \in [Proc -> Uint]
  BY Zenon, ZeroUint DEF Reap, Elsewhere, table, round, TypeOK
<1>4. UNCHANGED <<ticks, tickslock, clk, since, chan, lock, ppc, thread, cproc, cpc, now, level, idx, found, waiting>>
  BY Zenon DEF Reap, Elsewhere, table, round
<1> QED BY Zenon, <1>1, <1>2, <1>3, <1>4 DEF TypeOK

LEMMA ReapThreads == ASSUME Threads, NEW c \in CPU, NEW p \in Proc, Reap(c, p) PROVE Threads'
<1>1. TypeOK'
  BY Zenon, ReapTypes DEF Threads
<1>2. UNCHANGED <<thread, cproc, cpc, idx, clk>>
  BY Zenon DEF Reap, Elsewhere, table, round
<1>3. \A q \in Proc \ {p} : state'[q] = state[q] /\ lock'[q] = lock[q] /\ ppc'[q] = ppc[q]
  BY Zenon DEF Reap, Elsewhere, table, round, Threads, TypeOK
<1>4. \A d \in CPU : thread[d] = p => ThreadOK(d, p)' /\ ~(d = cpu0 /\ clk # 0)
  BY SchedAssumption DEF Reap, Elsewhere, table, round, Threads, TypeOK, ThreadOK, Proc
<1>5. (\A d \in CPU : thread[d] # p) => lock[p] = None /\ ppc'[p] = "on" /\ state'[p] # "RUNNING"
  BY Zenon, SchedAssumption DEF Reap, Elsewhere, table, round, Threads, TypeOK, SavedOK, Proc
<1> QED BY Zenon, <1>1, <1>2, <1>3, <1>4, <1>5, OneProc

LEMMA ForkTypes == ASSUME TypeOK, NEW c \in CPU, NEW p \in Proc, Fork(c, p) PROVE TypeOK'
<1>1. priority' \in [Proc -> PRIORITY_MIN .. PRIORITY_MAX]
  BY SchedAssumption DEF Fork, MakeRunnable, table, round, TypeOK, PRIORITY_MIN, Proc
<1>2. state' \in [Proc -> {"UNUSED", "RUNNABLE", "RUNNING", "SLEEPING", "ZOMBIE"}]
  BY Zenon DEF Fork, MakeRunnable, table, round, TypeOK
<1>3. ready_since' \in [Proc -> Uint]
  BY Zenon, ZeroUint DEF Fork, MakeRunnable, table, round, TypeOK
<1>4. since' \in [Proc -> Uint]
  BY Zenon, ZeroUint DEF Fork, MakeRunnable, table, round, TypeOK
<1>5. ppc' \in [Proc -> {"run", "yield", "off", "on"}]
  BY Zenon DEF Fork, MakeRunnable, table, round, TypeOK
<1>6. UNCHANGED <<ticks, tickslock, clk, chan, lock, thread, cproc, cpc, now, level, idx, found, waiting>>
  BY Zenon DEF Fork, MakeRunnable, table, round
<1> QED BY Zenon, <1>1, <1>2, <1>3, <1>4, <1>5, <1>6 DEF TypeOK

LEMMA ForkThreads == ASSUME Threads, NEW c \in CPU, NEW p \in Proc, Fork(c, p) PROVE Threads'
<1>1. TypeOK'
  BY Zenon, ForkTypes DEF Threads
<1>2. UNCHANGED <<thread, cproc, cpc, idx, clk>>
  BY Zenon DEF Fork, MakeRunnable, table, round
<1>3. \A q \in Proc \ {p} : state'[q] = state[q] /\ lock'[q] = lock[q] /\ ppc'[q] = ppc[q]
  BY Zenon DEF Fork, MakeRunnable, table, round, Threads, TypeOK
<1>4. ASSUME NEW d \in CPU, thread[d] = p PROVE FALSE
  <2>1. ThreadOK(d, p) /\ ppc[p] \in {"run", "yield", "off", "on"}
    BY Zenon, <1>4 DEF Threads, TypeOK
  <2>2. lock[p] = None /\ state[p] = "UNUSED" /\ lock[p] # d
    BY Zenon, NoneApart DEF Fork
  <2> QED BY Zenon, <2>1, <2>2 DEF ThreadOK
<1>5. (\A d \in CPU : thread[d] # p) => lock[p] = None /\ ppc'[p] = "on" /\ state'[p] # "RUNNING"
  BY Zenon, SchedAssumption DEF Fork, MakeRunnable, table, round, Threads, TypeOK, SavedOK, Proc
<1> QED BY Zenon, <1>1, <1>2, <1>3, <1>4, <1>5, OneProc

LEMMA SetPriorityTypes == ASSUME TypeOK, NEW c \in CPU, NEW prio \in Int, SetPriority(c, prio) PROVE TypeOK'
<1>1. priority' \in [Proc -> PRIORITY_MIN .. PRIORITY_MAX]
  BY SchedAssumption DEF SetPriority, Executes, table, round, TypeOK, PRIORITY_MIN, Proc
<1>2. UNCHANGED <<ticks, tickslock, clk, state, ready_since, since, chan, lock, ppc, thread, cproc, cpc, now, level, idx, found, waiting>>
  BY Zenon DEF SetPriority, Executes, table, round
<1> QED BY Zenon, <1>1, <1>2 DEF TypeOK

LEMMA SetPriorityThreads == ASSUME Threads, NEW c \in CPU, NEW prio \in Int, SetPriority(c, prio) PROVE Threads'
<1>1. TypeOK'
  BY Zenon, SetPriorityTypes DEF Threads
<1>2. PICK p \in Proc :
      /\ "setpriority" \in Moves
      /\ prio >= PRIORITY_MIN /\ prio <= PRIORITY_MAX
      /\ Executes(c, p) /\ ppc[p] = "run" /\ lock[p] = None
      /\ priority' = [priority EXCEPT ![p] = prio]
      /\ UNCHANGED <<ticks, tickslock, state, ready_since, chan, lock, ppc, thread, cproc, cpc, round,
         clk, waiting, since>>
  BY Zenon DEF SetPriority
<1>3. UNCHANGED <<thread, cproc, cpc, idx, clk>>
  BY Zenon, <1>2 DEF Executes, table, round
<1>4. \A q \in Proc \ {p} : state'[q] = state[q] /\ lock'[q] = lock[q] /\ ppc'[q] = ppc[q]
  BY Zenon, <1>2 DEF Executes, table, round, Threads, TypeOK
<1>5. \A d \in CPU : thread[d] = p => ThreadOK(d, p)' /\ ~(d = cpu0 /\ clk # 0)
  BY <1>2, SchedAssumption DEF Executes, table, round, Threads, TypeOK, ThreadOK, Proc
<1>6. (\A d \in CPU : thread[d] # p) => lock[p] = None /\ ppc'[p] = "on" /\ state'[p] # "RUNNING"
  BY Zenon, <1>2, SchedAssumption DEF Executes, table, round, Threads, TypeOK, SavedOK, Proc
<1> QED BY Zenon, <1>1, <1>3, <1>4, <1>5, <1>6, OneProc

LEMMA ClockTickTypes == ASSUME TypeOK, ClockTick PROVE TypeOK'
<1>1. ticks' \in Uint
  BY SchedAssumption DEF ClockTick, table, round, TypeOK, Uint
<1>2. tickslock' \in {None, cpu0}
  BY Zenon DEF ClockTick, table, round, TypeOK
<1>3. clk' \in 0 .. NPROC + 1
  BY SchedAssumption DEF ClockTick, table, round, TypeOK, Proc
<1>4. UNCHANGED <<state, priority, ready_since, since, chan, lock, ppc, thread, cproc, cpc, now, level, idx, found, waiting>>
  BY Zenon DEF ClockTick, table, round
<1> QED BY Zenon, <1>1, <1>2, <1>3, <1>4 DEF TypeOK

LEMMA ClockTickThreads == ASSUME Threads, ClockTick PROVE Threads'
<1>1. TypeOK'
  BY Zenon, ClockTickTypes DEF Threads
<1>2. ClockOK' /\ \A e, d \in CPU : thread'[e] # None /\ thread'[e] = thread'[d] => e = d
  BY SchedAssumption DEF ClockTick, table, round, Threads, TypeOK, ClockOK, CpuOK, ThreadOK, Proc
<1>3. ASSUME NEW d \in CPU PROVE CpuOK(d)'
  BY Zenon, SchedAssumption DEF ClockTick, table, round, Threads, TypeOK, CpuOK, ThreadOK, Proc
<1>4. ASSUME NEW d \in CPU, NEW q \in Proc, thread'[d] = q PROVE ThreadOK(d, q)'
  BY <1>4, SchedAssumption DEF ClockTick, table, round, Threads, TypeOK, CpuOK, ThreadOK, SavedOK, ClockOK, Proc
<1>5. ASSUME NEW q \in Proc PROVE SavedOK(q)'
  BY Zenon, SchedAssumption DEF ClockTick, table, round, Threads, TypeOK, CpuOK, ThreadOK, SavedOK, ClockOK, Proc
<1> QED BY Zenon, <1>1, <1>2, <1>3, <1>4, <1>5 DEF Threads

LEMMA ClockWakeTypes == ASSUME TypeOK, ClockWake PROVE TypeOK'
<1>1. clk' \in 0 .. NPROC + 1
  BY SchedAssumption DEF ClockWake, MakeRunnable, table, round, TypeOK, Proc
<1>2. state' \in [Proc -> {"UNUSED", "RUNNABLE", "RUNNING", "SLEEPING", "ZOMBIE"}]
  BY DEF ClockWake, MakeRunnable, table, round, TypeOK
<1>3. ready_since' \in [Proc -> Uint]
  BY Zenon, ZeroUint DEF ClockWake, MakeRunnable, table, round, TypeOK
<1>4. since' \in [Proc -> Uint]
  BY Zenon, ZeroUint DEF ClockWake, MakeRunnable, table, round, TypeOK
<1>5. UNCHANGED <<ticks, tickslock, priority, chan, lock, ppc, thread, cproc, cpc, now, level, idx, found, waiting>>
  BY Zenon DEF ClockWake, MakeRunnable, table, round
<1> QED BY Zenon, <1>1, <1>2, <1>3, <1>4, <1>5 DEF TypeOK

LEMMA ClockWakeThreads == ASSUME Threads, ClockWake PROVE Threads'
<1>1. TypeOK' /\ UNCHANGED <<lock, ppc, thread, cproc, cpc, idx>> /\ clk \in Proc
  BY Zenon, ClockWakeTypes DEF Threads, ClockWake, MakeRunnable, table, round
<1>2. CASE /\ clk # thread[cpu0] /\ state[clk] = "SLEEPING" /\ lock[clk] = None
           /\ state' = [state EXCEPT ![clk] = "RUNNABLE"]
  <2>1. \A d \in CPU : thread[d] # clk
    BY Zenon, <1>1, <1>2, OffCpu
  <2>2. \A q \in Proc : state'[q] = IF q = clk THEN "RUNNABLE" ELSE state[q]
    BY Zenon, <1>1, <1>2 DEF Threads, TypeOK
  <2>3. ClockOK' /\ \A d \in CPU : CpuOK(d)'
    BY <1>1, <1>2, <2>2, SchedAssumption DEF Threads, ClockOK, CpuOK, ClockWake, Proc
  <2>4. \A d \in CPU, q \in Proc : thread'[d] = q => ThreadOK(d, q)'
    BY <1>1, <2>1, <2>2 DEF Threads, ThreadOK
  <2>5. \A q \in Proc : SavedOK(q)'
    BY Zenon, <1>1, <2>2 DEF Threads, SavedOK
  <2> QED BY Zenon, <1>1, <2>3, <2>4, <2>5 DEF Threads
<1>3. CASE UNCHANGED state
  <2>1. ClockOK' /\ \A d \in CPU : CpuOK(d)'
    BY <1>1, <1>3, SchedAssumption DEF Threads, ClockOK, CpuOK, ClockWake, Proc
  <2>2. \A d \in CPU, q \in Proc : thread'[d] = q => ThreadOK(d, q)'
    BY Zenon, <1>1, <1>3 DEF Threads, ThreadOK
  <2>3. \A q \in Proc : SavedOK(q)'
    BY Zenon, <1>1, <1>3 DEF Threads, SavedOK
  <2> QED BY Zenon, <1>1, <2>1, <2>2, <2>3 DEF Threads
<1> QED BY Zenon, <1>2, <1>3 DEF ClockWake, MakeRunnable

LEMMA ClockDoneTypes == ASSUME TypeOK, ClockDone PROVE TypeOK'
<1>1. tickslock' \in {None, cpu0}
  BY Zenon DEF ClockDone, table, round, TypeOK
<1>2. clk' \in 0 .. NPROC + 1
  BY SchedAssumption DEF ClockDone, table, round, TypeOK, Proc
<1>3. cpc' \in [CPU -> {"boot", "intr", "top", "scan", "swtch", "back", "wfi"}]
  BY Zenon DEF ClockDone, table, round, TypeOK
<1>4. ppc' \in [Proc -> {"run", "yield", "off", "on"}]
  BY Zenon DEF ClockDone, table, round, TypeOK
<1>5. UNCHANGED <<ticks, state, priority, ready_since, since, chan, lock, thread, cproc, now, level, idx, found, waiting>>
  BY Zenon DEF ClockDone, table, round
<1> QED BY Zenon, <1>1, <1>2, <1>3, <1>4, <1>5 DEF TypeOK

LEMMA ClockDoneThreads == ASSUME Threads, ClockDone PROVE Threads'
<1>1. TypeOK'
  BY Zenon, ClockDoneTypes DEF Threads
<1>2. ClockOK' /\ \A e, d \in CPU : thread'[e] # None /\ thread'[e] = thread'[d] => e = d
  BY SchedAssumption DEF ClockDone, table, round, Threads, TypeOK, ClockOK, CpuOK, ThreadOK, Proc
<1>3. ASSUME NEW d \in CPU PROVE CpuOK(d)'
  BY SchedAssumption DEF ClockDone, table, round, Threads, TypeOK, CpuOK, ThreadOK, Proc
<1>4. ASSUME NEW d \in CPU, NEW q \in Proc, thread'[d] = q PROVE ThreadOK(d, q)'
  BY <1>4, SchedAssumption DEF ClockDone, table, round, Threads, TypeOK, CpuOK, ThreadOK, SavedOK, ClockOK, Proc
<1>5. ASSUME NEW q \in Proc PROVE SavedOK(q)'
  BY SchedAssumption DEF ClockDone, table, round, Threads, TypeOK, CpuOK, ThreadOK, SavedOK, ClockOK, Proc
<1> QED BY Zenon, <1>1, <1>2, <1>3, <1>4, <1>5 DEF Threads

----------------------------------------------------------------------------
(* Every step keeps the order of the levels *)

\* The clamp in scheduler(): an effective priority is never below PRIORITY_MIN.
LEMMA EffectiveNat == ASSUME NEW prio \in Int, NEW start \in Int, NEW t \in Int
                      PROVE  EffectivePriority(prio, start, t) \in Nat
<1> DEFINE w == (t - start) % UintMod
<1>1. w \in Nat
  BY SchedAssumption
<1>2. EffectivePriority(prio, start, t) =
        IF prio - w \div AGING_INTERVAL < 0 THEN 0 ELSE prio - w \div AGING_INTERVAL
  BY Zenon DEF EffectivePriority, PRIORITY_MIN
<1> HIDE DEF w
<1>3. w \div AGING_INTERVAL \in Int
  BY <1>1, SchedAssumption
<1> QED BY <1>2, <1>3

LEMMA Effectives ==
  ASSUME NEW c \in CPU, NEW p \in Proc
  PROVE  (TypeOK => Effective(c, p) \in Nat) /\ (TypeOK' => Effective(c, p)' \in Nat)
<1>1. \A u \in Uint : u \in Int
  BY SchedAssumption DEF Uint
<1>2. TypeOK => now[c] \in Int /\ Stamp(c, p) \in Int /\ priority[p] \in Int
  BY <1>1, SchedAssumption DEF TypeOK, Stamp, PRIORITY_MIN
<1>3. TypeOK' => now'[c] \in Int /\ Stamp(c, p)' \in Int /\ priority'[p] \in Int
  BY <1>1, SchedAssumption DEF TypeOK, Stamp, PRIORITY_MIN
<1> QED BY Zenon, <1>2, <1>3, EffectiveNat DEF Effective

\* A step that leaves the round of CPU d, and all who wait in it, where they are.
LEMMA Keep ==
  ASSUME TypeOK, TypeOK', NEW d \in CPU, WaitingOK(d), OrderOK(d),
         waiting'[d] \subseteq waiting[d],
         \A e \in CPU : cpc'[e] = "boot" => cpc[e] = "boot",
         InRound(d)' => InRound(d) /\ now'[d] = now[d] /\ level'[d] = level[d],
         cpc'[d] \in {"swtch", "back"} => idx'[d] \notin waiting'[d],
         \A q \in waiting'[d] :
            /\ state'[q] = state[q] /\ priority'[q] = priority[q] /\ ready_since'[q] = ready_since[q]
            /\ InRound(d)' => (q >= idx'[d] <=> q >= idx[d])
  PROVE  WaitingOK(d)' /\ OrderOK(d)'
<1>1. Alone' => Alone
  BY Zenon DEF Alone
<1>2. idx[d] \in Int /\ idx'[d] \in Int /\ \A q \in waiting'[d] : q \in Int
  BY SchedAssumption DEF TypeOK, Proc
<1>3. WaitingOK(d)'
  <2>1. \A q \in waiting'[d] : InRound(d)' => (q < idx'[d] <=> q < idx[d])
    BY <1>2
  <2> QED BY Zenon, <2>1 DEF WaitingOK
<1>4. InRound(d)' => \A q \in waiting'[d] : Effective(d, q)' = Effective(d, q)
  BY Zenon DEF Effective, Stamp
<1> QED BY Zenon, <1>1, <1>3, <1>4 DEF OrderOK

\* A step that changes no RUNNABLE process and no round.
LEMMA Quiet ==
  ASSUME IndInv, TypeOK', UNCHANGED <<waiting, now, level, idx>>,
         \A e \in CPU : cpc'[e] = cpc[e] \/ cpc'[e] \in {"intr", "top"} \/ (cpc[e] = "swtch" /\ cpc'[e] = "back"),
         \A q \in Proc : state[q] = "RUNNABLE" =>
            state'[q] = state[q] /\ priority'[q] = priority[q] /\ ready_since'[q] = ready_since[q]
  PROVE  \A d \in CPU : WaitingOK(d)' /\ OrderOK(d)'
<1> SUFFICES ASSUME NEW d \in CPU PROVE WaitingOK(d)' /\ OrderOK(d)'
  OBVIOUS
<1>1. TypeOK /\ WaitingOK(d) /\ OrderOK(d)
  BY Zenon DEF IndInv, Threads
<1>2. InRound(d)' => InRound(d) /\ (cpc'[d] \in {"swtch", "back"} => cpc[d] \in {"swtch", "back"})
  BY Zenon DEF InRound
<1>3. \A e \in CPU : cpc'[e] = "boot" => cpc[e] = "boot"
  OBVIOUS
<1>4. cpc'[d] \in {"swtch", "back"} => idx'[d] \notin waiting'[d]
  BY Zenon, <1>1 DEF WaitingOK
<1>5. \A q \in waiting'[d] :
        /\ state'[q] = state[q] /\ priority'[q] = priority[q] /\ ready_since'[q] = ready_since[q]
        /\ InRound(d)' => (q >= idx'[d] <=> q >= idx[d])
  BY Zenon, <1>1 DEF WaitingOK, TypeOK
<1> QED BY Zenon, <1>1, <1>2, <1>3, <1>4, <1>5, Keep

LEMMA WfiInd == ASSUME IndInv, NEW c \in CPU, Wfi(c) PROVE IndInv'
<1>1. Threads' /\ TypeOK'
  BY Zenon, WfiThreads DEF IndInv, Threads
<1>2. /\ UNCHANGED <<waiting, now, level, idx>>
      /\ \A e \in CPU : cpc'[e] = cpc[e] \/ cpc'[e] \in {"intr", "top"} \/ (cpc[e] = "swtch" /\ cpc'[e] = "back")
  BY Zenon DEF Wfi, round, IndInv, Threads, TypeOK, CpuOK
<1>3. \A q \in Proc : state[q] = "RUNNABLE" =>
        state'[q] = state[q] /\ priority'[q] = priority[q] /\ ready_since'[q] = ready_since[q]
  BY Zenon DEF Wfi, table, IndInv, Threads, TypeOK
<1> QED BY Zenon, <1>1, <1>2, <1>3, Quiet DEF IndInv

LEMMA StartInd == ASSUME IndInv, NEW c \in CPU, Start(c) PROVE IndInv'
<1>1. Threads' /\ TypeOK'
  BY Zenon, StartThreads DEF IndInv, Threads
<1>2. /\ UNCHANGED <<waiting, now, level, idx>>
      /\ \A e \in CPU : cpc'[e] = cpc[e] \/ cpc'[e] \in {"intr", "top"} \/ (cpc[e] = "swtch" /\ cpc'[e] = "back")
  BY Zenon DEF Start, round, IndInv, Threads, TypeOK, CpuOK
<1>3. \A q \in Proc : state[q] = "RUNNABLE" =>
        state'[q] = state[q] /\ priority'[q] = priority[q] /\ ready_since'[q] = ready_since[q]
  BY Zenon DEF Start, table, IndInv, Threads, TypeOK
<1> QED BY Zenon, <1>1, <1>2, <1>3, Quiet DEF IndInv

LEMMA SwtchInd == ASSUME IndInv, NEW c \in CPU, Swtch(c) PROVE IndInv'
<1>1. Threads' /\ TypeOK'
  BY Zenon, SwtchThreads DEF IndInv, Threads
<1>2. /\ UNCHANGED <<waiting, now, level, idx>>
      /\ \A e \in CPU : cpc'[e] = cpc[e] \/ cpc'[e] \in {"intr", "top"} \/ (cpc[e] = "swtch" /\ cpc'[e] = "back")
  <2>1. PICK p \in Proc : thread[c] = p
    BY Zenon DEF Swtch, Executes
  <2>2. cpc[c] = "swtch"
    BY Zenon, <2>1, NoneApart DEF IndInv, Threads, CpuOK
  <2> QED BY <2>2 DEF Swtch, round, IndInv, Threads, TypeOK
<1>3. \A q \in Proc : state[q] = "RUNNABLE" =>
        state'[q] = state[q] /\ priority'[q] = priority[q] /\ ready_since'[q] = ready_since[q]
  BY Zenon DEF Swtch, table, IndInv, Threads, TypeOK
<1> QED BY Zenon, <1>1, <1>2, <1>3, Quiet DEF IndInv

LEMMA ResumeInd == ASSUME IndInv, NEW c \in CPU, Resume(c) PROVE IndInv'
<1>1. Threads' /\ TypeOK'
  BY Zenon, ResumeThreads DEF IndInv, Threads
<1>2. /\ UNCHANGED <<waiting, now, level, idx>>
      /\ \A e \in CPU : cpc'[e] = cpc[e] \/ cpc'[e] \in {"intr", "top"} \/ (cpc[e] = "swtch" /\ cpc'[e] = "back")
  BY Zenon DEF Resume, round, IndInv, Threads, TypeOK, CpuOK
<1>3. \A q \in Proc : state[q] = "RUNNABLE" =>
        state'[q] = state[q] /\ priority'[q] = priority[q] /\ ready_since'[q] = ready_since[q]
  BY Zenon DEF Resume, table, IndInv, Threads, TypeOK
<1> QED BY Zenon, <1>1, <1>2, <1>3, Quiet DEF IndInv

LEMMA ClockTickInd == ASSUME IndInv, ClockTick PROVE IndInv'
<1>1. Threads' /\ TypeOK'
  BY Zenon, ClockTickThreads DEF IndInv, Threads
<1>2. /\ UNCHANGED <<waiting, now, level, idx>>
      /\ \A e \in CPU : cpc'[e] = cpc[e] \/ cpc'[e] \in {"intr", "top"} \/ (cpc[e] = "swtch" /\ cpc'[e] = "back")
  BY Zenon DEF ClockTick, round, IndInv, Threads, TypeOK, CpuOK
<1>3. \A q \in Proc : state[q] = "RUNNABLE" =>
        state'[q] = state[q] /\ priority'[q] = priority[q] /\ ready_since'[q] = ready_since[q]
  BY Zenon DEF ClockTick, table, IndInv, Threads, TypeOK
<1> QED BY Zenon, <1>1, <1>2, <1>3, Quiet DEF IndInv

LEMMA ClockDoneInd == ASSUME IndInv, ClockDone PROVE IndInv'
<1>1. Threads' /\ TypeOK'
  BY Zenon, ClockDoneThreads DEF IndInv, Threads
<1>2. /\ UNCHANGED <<waiting, now, level, idx>>
      /\ \A e \in CPU : cpc'[e] = cpc[e] \/ cpc'[e] \in {"intr", "top"} \/ (cpc[e] = "swtch" /\ cpc'[e] = "back")
  BY Zenon DEF ClockDone, round, IndInv, Threads, TypeOK, CpuOK
<1>3. \A q \in Proc : state[q] = "RUNNABLE" =>
        state'[q] = state[q] /\ priority'[q] = priority[q] /\ ready_since'[q] = ready_since[q]
  BY Zenon DEF ClockDone, table, IndInv, Threads, TypeOK
<1> QED BY Zenon, <1>1, <1>2, <1>3, Quiet DEF IndInv

LEMMA WakeupInd == ASSUME IndInv, NEW c \in CPU, NEW p \in Proc, Wakeup(c, p) PROVE IndInv'
<1>1. Threads' /\ TypeOK'
  BY Zenon, WakeupThreads DEF IndInv, Threads
<1>2. /\ UNCHANGED <<waiting, now, level, idx>>
      /\ \A e \in CPU : cpc'[e] = cpc[e] \/ cpc'[e] \in {"intr", "top"} \/ (cpc[e] = "swtch" /\ cpc'[e] = "back")
  BY Zenon DEF Wakeup, round, IndInv, Threads, TypeOK, CpuOK
<1>3. \A q \in Proc : state[q] = "RUNNABLE" =>
        state'[q] = state[q] /\ priority'[q] = priority[q] /\ ready_since'[q] = ready_since[q]
  BY Zenon DEF Wakeup, MakeRunnable, table, IndInv, Threads, TypeOK
<1> QED BY Zenon, <1>1, <1>2, <1>3, Quiet DEF IndInv

LEMMA ReapInd == ASSUME IndInv, NEW c \in CPU, NEW p \in Proc, Reap(c, p) PROVE IndInv'
<1>1. Threads' /\ TypeOK'
  BY Zenon, ReapThreads DEF IndInv, Threads
<1>2. /\ UNCHANGED <<waiting, now, level, idx>>
      /\ \A e \in CPU : cpc'[e] = cpc[e] \/ cpc'[e] \in {"intr", "top"} \/ (cpc[e] = "swtch" /\ cpc'[e] = "back")
  BY Zenon DEF Reap, round, IndInv, Threads, TypeOK, CpuOK
<1>3. \A q \in Proc : state[q] = "RUNNABLE" =>
        state'[q] = state[q] /\ priority'[q] = priority[q] /\ ready_since'[q] = ready_since[q]
  BY Zenon DEF Reap, table, IndInv, Threads, TypeOK
<1> QED BY Zenon, <1>1, <1>2, <1>3, Quiet DEF IndInv

LEMMA ForkInd == ASSUME IndInv, NEW c \in CPU, NEW p \in Proc, Fork(c, p) PROVE IndInv'
<1>1. Threads' /\ TypeOK'
  BY Zenon, ForkThreads DEF IndInv, Threads
<1>2. /\ UNCHANGED <<waiting, now, level, idx>>
      /\ \A e \in CPU : cpc'[e] = cpc[e] \/ cpc'[e] \in {"intr", "top"} \/ (cpc[e] = "swtch" /\ cpc'[e] = "back")
  BY Zenon DEF Fork, round, IndInv, Threads, TypeOK, CpuOK
<1>3. \A q \in Proc : state[q] = "RUNNABLE" =>
        state'[q] = state[q] /\ priority'[q] = priority[q] /\ ready_since'[q] = ready_since[q]
  BY Zenon DEF Fork, MakeRunnable, table, IndInv, Threads, TypeOK
<1> QED BY Zenon, <1>1, <1>2, <1>3, Quiet DEF IndInv

LEMMA ClockWakeInd == ASSUME IndInv, ClockWake PROVE IndInv'
<1>1. Threads' /\ TypeOK'
  BY Zenon, ClockWakeThreads DEF IndInv, Threads
<1>2. /\ UNCHANGED <<waiting, now, level, idx>>
      /\ \A e \in CPU : cpc'[e] = cpc[e] \/ cpc'[e] \in {"intr", "top"} \/ (cpc[e] = "swtch" /\ cpc'[e] = "back")
  BY Zenon DEF ClockWake, round, IndInv, Threads, TypeOK, CpuOK
<1>3. \A q \in Proc : state[q] = "RUNNABLE" =>
        state'[q] = state[q] /\ priority'[q] = priority[q] /\ ready_since'[q] = ready_since[q]
  BY Zenon DEF ClockWake, MakeRunnable, table, IndInv, Threads, TypeOK
<1> QED BY Zenon, <1>1, <1>2, <1>3, Quiet DEF IndInv

LEMMA YieldInd == ASSUME IndInv, NEW c \in CPU, Yield(c) PROVE IndInv'
<1>1. Threads' /\ TypeOK'
  BY Zenon, YieldThreads DEF IndInv, Threads
<1>2. PICK p \in Proc : /\ thread[c] = p /\ ppc[p] \in {"run", "yield"} /\ UNCHANGED <<waiting, now, level, idx, cpc>>
                       /\ \A q \in Proc \ {p} : state'[q] = state[q] /\ priority'[q] = priority[q] /\ ready_since'[q] = ready_since[q]
  BY DEF Yield, Executes, MakeRunnable, round, IndInv, Threads, TypeOK
<1>3. state[p] = "RUNNING"
  BY Zenon, <1>2 DEF IndInv, Threads, ThreadOK
<1>4. \A q \in Proc : state[q] = "RUNNABLE" =>
        state'[q] = state[q] /\ priority'[q] = priority[q] /\ ready_since'[q] = ready_since[q]
  BY Zenon, <1>2, <1>3
<1> QED BY Zenon, <1>1, <1>2, <1>4, Quiet DEF IndInv

LEMMA LeaveInd == ASSUME IndInv, NEW c \in CPU, NEW st \in {"SLEEPING", "ZOMBIE"}, NEW ch \in {"none", "event", "ticks"}, Leave(c, st, ch) PROVE IndInv'
<1>1. Threads' /\ TypeOK'
  BY Zenon, LeaveThreads DEF IndInv, Threads
<1>2. PICK p \in Proc : /\ thread[c] = p /\ ppc[p] \in {"run", "yield"} /\ UNCHANGED <<waiting, now, level, idx, cpc>>
                       /\ \A q \in Proc \ {p} : state'[q] = state[q] /\ priority'[q] = priority[q] /\ ready_since'[q] = ready_since[q]
  BY DEF Leave, Executes, round, IndInv, Threads, TypeOK
<1>3. state[p] = "RUNNING"
  BY Zenon, <1>2 DEF IndInv, Threads, ThreadOK
<1>4. \A q \in Proc : state[q] = "RUNNABLE" =>
        state'[q] = state[q] /\ priority'[q] = priority[q] /\ ready_since'[q] = ready_since[q]
  BY Zenon, <1>2, <1>3
<1> QED BY Zenon, <1>1, <1>2, <1>4, Quiet DEF IndInv

LEMMA SetPriorityInd == ASSUME IndInv, NEW c \in CPU, NEW prio \in Int, SetPriority(c, prio) PROVE IndInv'
<1>1. Threads' /\ TypeOK'
  BY Zenon, SetPriorityThreads DEF IndInv, Threads
<1>2. PICK p \in Proc : /\ thread[c] = p /\ ppc[p] \in {"run", "yield"} /\ UNCHANGED <<waiting, now, level, idx, cpc>>
                       /\ \A q \in Proc \ {p} : state'[q] = state[q] /\ priority'[q] = priority[q] /\ ready_since'[q] = ready_since[q]
  BY Zenon DEF SetPriority, Executes, round, IndInv, Threads, TypeOK
<1>3. state[p] = "RUNNING"
  BY Zenon, <1>2 DEF IndInv, Threads, ThreadOK
<1>4. \A q \in Proc : state[q] = "RUNNABLE" =>
        state'[q] = state[q] /\ priority'[q] = priority[q] /\ ready_since'[q] = ready_since[q]
  BY Zenon, <1>2, <1>3
<1> QED BY Zenon, <1>1, <1>2, <1>4, Quiet DEF IndInv

LEMMA TopInd == ASSUME IndInv, NEW c \in CPU, Top(c) PROVE IndInv'
<1>1. Threads' /\ TypeOK /\ TypeOK'
  BY Zenon, TopThreads DEF IndInv, Threads
<1>2. ASSUME NEW d \in CPU, d # c PROVE WaitingOK(d)' /\ OrderOK(d)'
  <2>1. /\ WaitingOK(d) /\ OrderOK(d) /\ UNCHANGED <<state, priority, ready_since>>
        /\ waiting'[d] = waiting[d] /\ now'[d] = now[d] /\ level'[d] = level[d] /\ idx'[d] = idx[d] /\ cpc'[d] = cpc[d]
    BY <1>1, <1>2 DEF Top, table, IndInv, TypeOK
  <2>2. \A e \in CPU : cpc'[e] = "boot" => cpc[e] = "boot"
    BY Zenon, <1>1 DEF Top, TypeOK
  <2>3. cpc'[d] \in {"swtch", "back"} => idx'[d] \notin waiting'[d]
    BY Zenon, <2>1 DEF WaitingOK
  <2> QED BY Zenon, <1>1, <2>1, <2>2, <2>3, Keep DEF InRound
<1>3. WaitingOK(c)' /\ OrderOK(c)'
  <2>1. /\ level'[c] = 0 /\ idx'[c] = 1 /\ cpc'[c] = "scan" /\ state' = state
        /\ waiting'[c] = {p \in Proc : state[p] = "RUNNABLE"}
    BY <1>1 DEF Top, table, TypeOK, PRIORITY_MIN
  <2>2. \A p \in waiting'[c] : p \in Nat /\ p >= 1
    BY <2>1, SchedAssumption DEF Proc
  <2>3. WaitingOK(c)'
    BY <2>1, <2>2 DEF WaitingOK, PRIORITY_MIN
  <2>4. \A p \in waiting'[c] : Effective(c, p)' \in Nat
    BY Zenon, <1>1, <2>1, Effectives
  <2> QED BY <2>1, <2>2, <2>3, <2>4 DEF OrderOK
<1> QED BY Zenon, <1>1, <1>2, <1>3 DEF IndInv

\* The stamp of one CPU can raise a process in the round of another only when that round is
\* at its first level and has not reached it.
LEMMA PassOther ==
  ASSUME IndInv, TypeOK', NEW c \in CPU, Pass(c), NEW d \in CPU \ {c}
  PROVE  WaitingOK(d)' /\ OrderOK(d)'
<1>1. /\ TypeOK /\ WaitingOK(d) /\ OrderOK(d) /\ UNCHANGED <<state, priority, waiting, now, level, cpc>>
      /\ idx'[d] = idx[d] /\ cpc[c] = "scan" /\ idx[c] \in Proc
  <2>1. TypeOK /\ WaitingOK(d) /\ OrderOK(d)
    BY Zenon DEF IndInv, Threads
  <2>2. UNCHANGED <<state, priority, waiting, now, level, cpc>> /\ cpc[c] = "scan"
    BY Zenon DEF Pass
  <2>3. idx'[d] = idx[d] /\ idx[c] \in Proc
    BY <2>1 DEF Pass, TypeOK, Proc
  <2> QED BY Zenon, <2>1, <2>2, <2>3
<1>2. \A q \in Proc : ready_since[q] # 0 => ready_since'[q] = ready_since[q]
  BY Zenon, <1>1 DEF Pass, Stamp, TypeOK
<1>3. WaitingOK(d)'
  <2>1. \A q \in waiting[d] : q \in Proc
    BY Zenon, <1>1 DEF TypeOK
  <2> QED BY Zenon, <1>1, <1>2, <2>1 DEF WaitingOK, InRound
<1>4. ASSUME InRound(d), now[d] # 0 \/ Alone', NEW q \in waiting[d]
      PROVE  Effective(d, q)' > level[d] \/ (Effective(d, q)' = level[d] /\ q >= idx[d])
  <2>0. q \in Proc /\ q \in Int /\ idx[d] \in Int /\ level[d] \in Nat
    BY <1>1, SchedAssumption DEF TypeOK, Proc, PRIORITY_MIN
  <2>1. now[d] # 0
    <3>1. Alone' => Alone
      BY Zenon, <1>1 DEF Alone
    <3>2. ~Alone
      BY Zenon, <1>1, <1>4 DEF Alone, InRound
    <3> QED BY Zenon, <1>4, <3>1, <3>2
  <2>2. CASE ready_since[q] # 0
    <3>1. Effective(d, q)' = Effective(d, q)
      BY Zenon, <1>1, <1>2, <2>0, <2>2 DEF Effective, Stamp
    <3> QED BY Zenon, <1>1, <1>4, <2>1, <3>1 DEF OrderOK
  <2>3. CASE ready_since[q] = 0
    <3>1. ~(level[d] > 0) /\ ~(q < idx[d])
      BY Zenon, <1>1, <1>4, <2>1, <2>3 DEF WaitingOK, PRIORITY_MIN
    <3>2. Effective(d, q)' \in Nat
      BY Zenon, <2>0, Effectives
    <3> QED BY <2>0, <3>1, <3>2
  <2> QED BY Zenon, <2>2, <2>3
<1> QED BY Zenon, <1>1, <1>3, <1>4 DEF OrderOK, InRound

LEMMA PassInd == ASSUME IndInv, NEW c \in CPU, Pass(c) PROVE IndInv'
<1>1. Threads' /\ TypeOK /\ TypeOK' /\ WaitingOK(c) /\ OrderOK(c)
  BY Zenon, PassThreads DEF IndInv, Threads
<1> DEFINE p == idx[c]
<1>2. /\ p \in Proc /\ cpc[c] = "scan" /\ ~Chosen(c, p) /\ UNCHANGED <<state, priority, waiting, now, level, cpc>>
      /\ ready_since' = [ready_since EXCEPT ![p] = Stamp(c, p)] /\ idx'[c] = p + 1
  BY <1>1 DEF Pass, TypeOK, Proc
<1>3. p \in Int /\ level[c] \in Int /\ \A q \in waiting[c] : q \in Proc /\ q \in Int /\ Effective(c, q) \in Int
  <2>1. p \in Int /\ level[c] \in Int /\ \A q \in waiting[c] : q \in Proc /\ q \in Int
    BY <1>1, <1>2, SchedAssumption DEF TypeOK, Proc, PRIORITY_MIN
  <2>2. \A q \in waiting[c] : Effective(c, q) \in Nat
    BY Zenon, <1>1, <2>1, Effectives
  <2> QED BY <2>1, <2>2
<1> HIDE DEF p
<1>4. ready_since'[p] = Stamp(c, p) /\ \A q \in Proc \ {p} : ready_since'[q] = ready_since[q]
  BY ZenonT(30), <1>1, <1>2 DEF TypeOK
<1>5. \A q \in waiting[c] : state[q] = "RUNNABLE" /\ (now[c] # 0 => ready_since[q] # 0 \/ q >= p)
  BY <1>1, <1>2, <1>3 DEF WaitingOK, InRound, p
<1>6. p \in waiting[c] /\ now[c] # 0 => ready_since'[p] # 0
  BY Zenon, <1>4, <1>5 DEF Stamp
<1>7. WaitingOK(c)'
  <2>1. \A q \in waiting[c] : now[c] # 0 /\ (level[c] > PRIORITY_MIN \/ q < p + 1) => ready_since'[q] # 0
    <3> SUFFICES ASSUME NEW q \in waiting[c], now[c] # 0, level[c] > PRIORITY_MIN \/ q < p + 1
                 PROVE  ready_since'[q] # 0
      OBVIOUS
    <3>1. CASE q = p BY Zenon, <1>6, <3>1
    <3>2. CASE q # p
      <4>1. level[c] > PRIORITY_MIN \/ q < p
        BY <1>3, <3>2
      <4>2. ready_since[q] # 0
        BY Zenon, <1>1, <1>2, <4>1 DEF WaitingOK, InRound, p
      <4> QED BY Zenon, <1>3, <1>4, <3>2, <4>2
    <3> QED BY Zenon, <3>1, <3>2
  <2> QED BY Zenon, <1>2, <1>5, <2>1 DEF WaitingOK
<1>8. \A q \in waiting[c] : Stamp(c, q)' = Stamp(c, q)
  BY Zenon, <1>2, <1>3, <1>4 DEF Stamp
<1>9. \A q \in waiting[c] : Effective(c, q)' = Effective(c, q)
  BY Zenon, <1>2, <1>3, <1>8 DEF Effective
<1>10. p \in waiting[c] => Effective(c, p) # level[c]
  BY Zenon, <1>2, <1>5 DEF Chosen, Effective
<1>11. OrderOK(c)'
  <2> SUFFICES ASSUME now[c] # 0 \/ Alone, NEW q \in waiting[c]
               PROVE  Effective(c, q) > level[c] \/ (Effective(c, q) = level[c] /\ q >= p + 1)
    BY Zenon, <1>2, <1>9 DEF OrderOK, Alone
  <2>1. Effective(c, q) > level[c] \/ (Effective(c, q) = level[c] /\ q >= p)
    BY Zenon, <1>1, <1>2 DEF OrderOK, InRound, p
  <2> QED BY <1>3, <1>10, <2>1
<1> QED BY Zenon, <1>1, <1>7, <1>11, PassOther DEF IndInv

LEMMA DispatchInd == ASSUME IndInv, NEW c \in CPU, Dispatch(c) PROVE IndInv'
<1>1. Threads' /\ TypeOK /\ TypeOK'
  BY Zenon, DispatchThreads DEF IndInv, Threads
<1> DEFINE p == idx[c]
<1>2. /\ p \in Proc /\ cpc[c] = "scan" /\ UNCHANGED <<priority, now, level, idx>>
      /\ cpc' = [cpc EXCEPT ![c] = "swtch"] /\ waiting' = [d \in CPU |-> waiting[d] \ {p}]
      /\ \A q \in Proc \ {p} : state'[q] = state[q] /\ ready_since'[q] = ready_since[q]
  BY <1>1 DEF Dispatch, round, TypeOK, Proc
<1>3. ASSUME NEW d \in CPU PROVE WaitingOK(d)' /\ OrderOK(d)'
  <2>1. WaitingOK(d) /\ OrderOK(d) /\ waiting'[d] = waiting[d] \ {p} /\ waiting[d] \subseteq Proc
    BY Zenon, <1>1, <1>2 DEF IndInv, TypeOK
  <2>2. \A e \in CPU : cpc'[e] = "boot" => cpc[e] = "boot"
    BY Zenon, <1>1, <1>2 DEF TypeOK
  <2>3. InRound(d)' => InRound(d)
    BY Zenon, <1>1, <1>2 DEF TypeOK, InRound
  <2>4. cpc'[d] \in {"swtch", "back"} => idx'[d] \notin waiting'[d]
    <3>1. CASE d = c BY Zenon, <1>2, <2>1, <3>1
    <3>2. CASE d # c
      <4>1. cpc'[d] = cpc[d]
        BY Zenon, <1>1, <1>2, <3>2 DEF TypeOK
      <4> QED BY Zenon, <1>2, <2>1, <4>1 DEF WaitingOK
    <3> QED BY Zenon, <3>1, <3>2
  <2>5. \A q \in waiting'[d] :
          /\ state'[q] = state[q] /\ priority'[q] = priority[q] /\ ready_since'[q] = ready_since[q]
          /\ InRound(d)' => (q >= idx'[d] <=> q >= idx[d])
    BY Zenon, <1>2, <2>1
  <2> QED BY Zenon, <1>1, <1>2, <2>1, <2>2, <2>3, <2>4, <2>5, Keep
<1> QED BY Zenon, <1>1, <1>3 DEF IndInv

LEMMA BackInd == ASSUME IndInv, NEW c \in CPU, Back(c) PROVE IndInv'
<1>1. Threads' /\ TypeOK /\ TypeOK'
  BY Zenon, BackThreads DEF IndInv, Threads
<1>2. /\ cpc[c] = "back" /\ UNCHANGED <<state, priority, ready_since, waiting, now, level>>
      /\ cpc' = [cpc EXCEPT ![c] = "scan"] /\ idx' = [idx EXCEPT ![c] = idx[c] + 1]
  BY Zenon DEF Back, table
<1>3. ASSUME NEW d \in CPU PROVE WaitingOK(d)' /\ OrderOK(d)'
  <2>1. WaitingOK(d) /\ OrderOK(d) /\ waiting[d] \subseteq Proc
    BY Zenon, <1>1 DEF IndInv, TypeOK
  <2>2. \A e \in CPU : cpc'[e] = "boot" => cpc[e] = "boot"
    BY Zenon, <1>1, <1>2 DEF TypeOK
  <2>3. InRound(d)' => InRound(d)
    BY Zenon, <1>1, <1>2 DEF TypeOK, InRound
  <2>4. cpc'[d] \in {"swtch", "back"} => cpc'[d] = cpc[d] /\ idx'[d] = idx[d]
    BY Zenon, <1>1, <1>2 DEF TypeOK
  <2>5. \A q \in waiting[d] : q >= idx'[d] <=> q >= idx[d]
    <3>1. \A q \in waiting[d] : q \in Int /\ idx[d] \in Int
      BY <1>1, <2>1, SchedAssumption DEF TypeOK, Proc
    <3>2. CASE d = c
      <4>1. idx[c] \notin waiting[c] /\ idx'[c] = idx[c] + 1
        BY <1>1, <1>2, <2>1, <3>2 DEF WaitingOK, TypeOK
      <4> QED BY <3>1, <3>2, <4>1
    <3>3. CASE d # c
      <4>1. idx'[d] = idx[d]
        BY <1>1, <1>2, <3>3 DEF TypeOK
      <4> QED BY Zenon, <4>1
    <3> QED BY Zenon, <3>2, <3>3
  <2>6. cpc'[d] \in {"swtch", "back"} => idx'[d] \notin waiting'[d]
    BY Zenon, <1>2, <2>1, <2>4 DEF WaitingOK
  <2> QED BY Zenon, <1>1, <1>2, <2>1, <2>2, <2>3, <2>5, <2>6, Keep
<1> QED BY Zenon, <1>1, <1>3 DEF IndInv

LEMMA EndLevelInd == ASSUME IndInv, NEW c \in CPU, EndLevel(c) PROVE IndInv'
<1>1. Threads' /\ TypeOK /\ TypeOK'
  BY Zenon, EndLevelThreads DEF IndInv, Threads
<1>2. /\ cpc[c] = "scan" /\ idx[c] = NPROC + 1 /\ idx'[c] = 1 /\ UNCHANGED <<state, priority, ready_since>>
      /\ \A d \in CPU : waiting'[d] \subseteq waiting[d] /\ waiting[d] \subseteq Proc
      /\ \A d \in CPU \ {c} : cpc'[d] = cpc[d] /\ now'[d] = now[d] /\ level'[d] = level[d] /\ idx'[d] = idx[d]
  BY <1>1 DEF EndLevel, table, TypeOK
<1>3. \/ cpc'[c] \in {"intr", "wfi"}
      \/ cpc' = cpc /\ now' = now /\ waiting' = waiting /\ level'[c] = level[c] + 1
  BY <1>1 DEF EndLevel, TypeOK
<1>4. \A e \in CPU : cpc'[e] = "boot" => cpc[e] = "boot"
  BY Zenon, <1>2, <1>3
<1>5. ASSUME NEW d \in CPU, d # c \/ cpc'[c] \in {"intr", "wfi"} PROVE WaitingOK(d)' /\ OrderOK(d)'
  <2>1. WaitingOK(d) /\ OrderOK(d)
    BY Zenon DEF IndInv
  <2>2. InRound(d)' => InRound(d) /\ now'[d] = now[d] /\ level'[d] = level[d] /\ idx'[d] = idx[d]
    BY Zenon, <1>2, <1>5 DEF InRound
  <2>3. cpc'[d] \in {"swtch", "back"} => idx'[d] \notin waiting'[d]
    BY Zenon, <1>2, <1>5, <2>1 DEF WaitingOK
  <2> QED BY Zenon, <1>1, <1>2, <1>4, <2>1, <2>2, <2>3, Keep
<1>6. ASSUME cpc' = cpc, now' = now, waiting' = waiting, level'[c] = level[c] + 1 PROVE WaitingOK(c)' /\ OrderOK(c)'
  <2>1. WaitingOK(c) /\ OrderOK(c) /\ NPROC \in Nat /\ level[c] \in Nat
    BY <1>1, SchedAssumption DEF IndInv, TypeOK, PRIORITY_MIN
  <2>2. \A q \in waiting[c] : q \in Int /\ q >= 1 /\ q < NPROC + 1 /\ Effective(c, q) \in Nat
    <3>1. \A q \in waiting[c] : q \in Proc
      BY Zenon, <1>2
    <3>2. \A q \in waiting[c] : Effective(c, q) \in Nat
      BY Zenon, <1>1, <3>1, Effectives
    <3> QED BY <3>1, <3>2, SchedAssumption DEF Proc
  <2>3. WaitingOK(c)'
    BY Zenon, <1>2, <1>6, <2>1, <2>2 DEF WaitingOK, InRound
  <2>4. \A q \in waiting[c] : Effective(c, q)' = Effective(c, q)
    BY Zenon, <1>2, <1>6 DEF Effective, Stamp
  <2>5. ASSUME now[c] # 0 \/ Alone, NEW q \in waiting[c]
        PROVE  Effective(c, q) >= level[c] + 1
    <3>1. Effective(c, q) > level[c] \/ (Effective(c, q) = level[c] /\ q >= idx[c])
      BY Zenon, <1>2, <2>1, <2>5 DEF OrderOK, InRound
    <3> QED BY <1>2, <2>1, <2>2, <3>1
  <2>6. OrderOK(c)'
    <3>1. Alone' => Alone
      BY Zenon, <1>6 DEF Alone
    <3>2. \A q \in waiting[c] : now[c] # 0 \/ Alone => Effective(c, q) > level[c] + 1 \/ (Effective(c, q) = level[c] + 1 /\ q >= 1)
      BY <2>1, <2>2, <2>5
    <3> QED BY Zenon, <1>2, <1>6, <2>4, <3>1, <3>2 DEF OrderOK
  <2> QED BY Zenon, <2>3, <2>6
<1> QED BY Zenon, <1>1, <1>3, <1>5, <1>6 DEF IndInv

----------------------------------------------------------------------------
(* The theorems *)

\* main() on CPU 0 after userinit() establishes the invariant.
LEMMA InitInd == Init => IndInv
<1> SUFFICES ASSUME Init PROVE IndInv
  OBVIOUS
<1>1. TypeOK
  <2>1. ticks \in Uint /\ tickslock \in {None, cpu0} /\ clk \in 0 .. NPROC + 1
    BY ZeroUint, SchedAssumption DEF Init
  <2>2. state \in [Proc -> {"UNUSED", "RUNNABLE", "RUNNING", "SLEEPING", "ZOMBIE"}]
    BY Zenon DEF Init
  <2>3. priority \in [Proc -> PRIORITY_MIN .. PRIORITY_MAX]
    BY Zenon, SchedAssumption DEF Init, PRIORITY_MIN
  <2>4. ready_since \in [Proc -> Uint] /\ since \in [Proc -> Uint] /\ now \in [CPU -> Uint]
    BY Zenon, ZeroUint DEF Init
  <2>5. /\ chan \in [Proc -> {"none", "event", "ticks"}] /\ lock \in [Proc -> CPU \cup {None}]
        /\ ppc \in [Proc -> {"run", "yield", "off", "on"}]
    BY Zenon DEF Init
  <2>6. /\ thread \in [CPU -> Proc \cup {None}] /\ cproc \in [CPU -> Proc \cup {None}]
        /\ waiting \in [CPU -> SUBSET Proc]
    BY Zenon DEF Init
  <2>7. cpc \in [CPU -> {"boot", "intr", "top", "scan", "swtch", "back", "wfi"}]
    BY Zenon DEF Init
  <2>8. level \in [CPU -> PRIORITY_MIN .. PRIORITY_MAX] /\ idx \in [CPU -> 1 .. NPROC + 1]
    BY SchedAssumption DEF Init, PRIORITY_MIN
  <2>9. found \in [CPU -> BOOLEAN]
    BY Zenon DEF Init
  <2> QED BY Zenon, <2>1, <2>2, <2>3, <2>4, <2>5, <2>6, <2>7, <2>8, <2>9 DEF TypeOK
<1>2. ClockOK /\ (\A c \in CPU : CpuOK(c)) /\ \A p \in Proc : SavedOK(p)
  BY Zenon DEF Init, ClockOK, CpuOK, SavedOK
<1>3. \A c \in CPU : thread[c] = None /\ ~InRound(c) /\ waiting[c] = {}
  BY Zenon DEF Init, InRound
<1>4. Threads
  BY Zenon, <1>1, <1>2, <1>3, NoneApart DEF Threads
<1>5. \A c \in CPU : WaitingOK(c) /\ OrderOK(c)
  BY Zenon, <1>3 DEF WaitingOK, OrderOK, InRound
<1> QED BY Zenon, <1>4, <1>5 DEF IndInv

\* Every step of the CPUs, the processes and the clock keeps the invariant.
LEMMA NextInd == IndInv /\ [Next]_vars => IndInv'
<1> SUFFICES ASSUME IndInv, [Next]_vars PROVE IndInv'
  OBVIOUS
<1>1. CASE UNCHANGED vars
  <2>1. Threads'
    <3>1. TypeOK' /\ ClockOK'
      BY Zenon, <1>1 DEF vars, IndInv, Threads, TypeOK, ClockOK
    <3>2. \A d \in CPU : CpuOK(d)'
      BY Zenon, <1>1 DEF vars, IndInv, Threads, CpuOK
    <3>3. \A d \in CPU, q \in Proc : thread'[d] = q => ThreadOK(d, q)'
      BY Zenon, <1>1 DEF vars, IndInv, Threads, ThreadOK
    <3>4. \A q \in Proc : SavedOK(q)'
      BY Zenon, <1>1 DEF vars, IndInv, Threads, SavedOK
    <3>5. \A c, d \in CPU : thread'[c] # None /\ thread'[c] = thread'[d] => c = d
      BY Zenon, <1>1 DEF vars, IndInv, Threads
    <3> QED BY Zenon, <3>1, <3>2, <3>3, <3>4, <3>5 DEF Threads
  <2>2. \A d \in CPU : WaitingOK(d)' /\ OrderOK(d)'
    BY ZenonT(30), <1>1 DEF vars, IndInv, WaitingOK, OrderOK, InRound, Alone, Effective, Stamp
  <2> QED BY ZenonT(30), <2>1, <2>2 DEF IndInv
<1>2. CASE Clock
  BY Zenon, <1>2, ClockTickInd, ClockWakeInd, ClockDoneInd DEF Clock
<1>3. ASSUME NEW c \in CPU, Start(c) \/ Round(c) \/ Handoff(c) PROVE IndInv'
  BY Zenon, <1>3, StartInd, TopInd, PassInd, DispatchInd, BackInd, EndLevelInd, WfiInd, SwtchInd, ResumeInd, YieldInd
     DEF Round, Handoff
<1>4. ASSUME NEW c \in CPU, Sleep(c) \/ Exit(c) PROVE IndInv'
  BY Zenon, <1>4, LeaveInd DEF Sleep, Exit
<1>5. ASSUME NEW c \in CPU, NEW p \in Proc, Wakeup(c, p) \/ Reap(c, p) \/ Fork(c, p) PROVE IndInv'
  BY Zenon, <1>5, WakeupInd, ReapInd, ForkInd
<1>6. ASSUME NEW c \in CPU, NEW prio \in PRIORITY_MIN - 1 .. PRIORITY_MAX + 1, SetPriority(c, prio) PROVE IndInv'
  <2>1. prio \in Int
    BY SchedAssumption DEF PRIORITY_MIN
  <2> QED BY Zenon, <1>6, <2>1, SetPriorityInd
<1> QED BY Zenon, <1>1, <1>2, <1>3, <1>4, <1>5, <1>6 DEF Next

\* The inductive invariant of scheduler(), sched(), yield(), sleep(), wakeup() and
\* clockintr(): which thread has which p->lock, and what each round has served.
THEOREM Invariance == Spec => []IndInv
BY InitInd, NextInd, PTL DEF Spec

\* Every variable stays in its range: among others sys_setpriority() and kfork() keep the
\* priorities between PRIORITY_MIN and PRIORITY_MAX, and the ticks wrap.
THEOREM Typing == Spec => []TypeOK
<1>1. IndInv => TypeOK
  BY Zenon DEF IndInv, Threads
<1> QED BY <1>1, Invariance, PTL

\* p->lock, handed over in swtch(), keeps each kernel stack on one CPU, for any number of
\* CPUs and processes.
THEOREM StacksNotShared == Spec => []OneCpuPerThread
<1>1. IndInv => OneCpuPerThread
  <2> SUFFICES ASSUME IndInv PROVE OneCpuPerThread
    OBVIOUS
  <2>1. ASSUME NEW c \in CPU, NEW p \in Proc, thread[c] = p
        PROVE  cproc[c] = p /\ (state[p] = "RUNNING" \/ lock[p] = c)
    <3>1. cproc[c] = p
      BY Zenon, <2>1, NoneApart DEF IndInv, Threads, CpuOK
    <3>2. ThreadOK(c, p) /\ ppc[p] \in {"run", "yield", "off", "on"}
      BY Zenon, <2>1 DEF IndInv, Threads, TypeOK
    <3> QED BY Zenon, <3>1, <3>2 DEF ThreadOK
  <2>2. \A p \in Proc : state[p] = "RUNNING" => \E c \in CPU : thread[c] = p
    BY Zenon DEF IndInv, Threads, SavedOK
  <2>3. \A c, d \in CPU : thread[c] # None /\ thread[c] = thread[d] => c = d
    BY Zenon DEF IndInv, Threads
  <2> QED BY Zenon, <2>1, <2>2, <2>3 DEF OneCpuPerThread
<1> QED BY <1>1, Invariance, PTL

\* A round of scheduler() serves the levels in order, whatever the other CPUs stamp,
\* dispatch and wake meanwhile.
THEOREM LevelsInOrder == Spec => []LevelOrder
<1>1. IndInv => LevelOrder
  BY Zenon DEF IndInv, OrderOK, InRound, Effective, LevelOrder
<1> QED BY <1>1, Invariance, PTL

\* Aging only raises a process: its effective priority is at most its priority.
LEMMA EffectiveAtMost == ASSUME NEW prio \in Nat, NEW start \in Int, NEW t \in Int
                         PROVE  EffectivePriority(prio, start, t) <= prio
<1> DEFINE w == (t - start) % UintMod
<1>1. w \in Nat
  BY SchedAssumption
<1>2. EffectivePriority(prio, start, t) =
        IF prio - w \div AGING_INTERVAL < 0 THEN 0 ELSE prio - w \div AGING_INTERVAL
  BY Zenon DEF EffectivePriority, PRIORITY_MIN
<1> HIDE DEF w
<1>3. w \div AGING_INTERVAL \in Nat
  BY <1>1, SchedAssumption
<1> QED BY <1>2, <1>3

\* A CPU that goes to wfi has missed nobody: after a round that dispatched nothing, no
\* process was RUNNABLE during the whole round.
IdleHasReason ==
  [][\A c \in CPU : EndLevel(c) /\ cpc'[c] = "wfi" /\ (now[c] # 0 \/ Alone) => waiting[c] = {}]_vars

\* scheduler() stops for an interrupt only when it really found nothing to run: the last
\* level is PRIORITY_MAX, and aging never moves a process beyond it.
THEOREM NoIdleBesideWork == Spec => IdleHasReason
<1>1. ASSUME IndInv, NEW c \in CPU, EndLevel(c), cpc'[c] = "wfi", now[c] # 0 \/ Alone, NEW q \in waiting[c]
      PROVE  FALSE
  <2>1. TypeOK /\ OrderOK(c)
    BY Zenon, <1>1 DEF IndInv, Threads
  <2>2. cpc[c] = "scan" /\ idx[c] = NPROC + 1 /\ level[c] = PRIORITY_MAX
    BY Zenon, <1>1, <2>1 DEF EndLevel, TypeOK
  <2>3. q \in Proc /\ priority[q] \in Nat /\ priority[q] <= PRIORITY_MAX
    BY <1>1, <2>1, SchedAssumption DEF TypeOK, PRIORITY_MIN
  <2>4. now[c] \in Int /\ Stamp(c, q) \in Int
    <3>1. \A u \in Uint : u \in Int
      BY SchedAssumption DEF Uint
    <3> QED BY Zenon, <2>1, <2>3, <3>1 DEF TypeOK, Stamp
  <2>5. Effective(c, q) <= priority[q] /\ Effective(c, q) \in Nat
    BY Zenon, <2>1, <2>3, <2>4, EffectiveAtMost, Effectives DEF Effective
  <2>6. Effective(c, q) > level[c] \/ (Effective(c, q) = level[c] /\ q >= idx[c])
    BY Zenon, <1>1, <2>1, <2>2 DEF OrderOK, InRound
  <2>7. q \in Int /\ q <= NPROC /\ NPROC \in Nat /\ PRIORITY_MAX \in Nat
    BY <2>3, SchedAssumption DEF Proc
  <2> QED BY <2>2, <2>3, <2>5, <2>6, <2>7
<1>2. IndInv /\ [Next]_vars =>
        [\A c \in CPU : EndLevel(c) /\ cpc'[c] = "wfi" /\ (now[c] # 0 \/ Alone) => waiting[c] = {}]_vars
  <2>1. ASSUME IndInv, NEW c \in CPU, EndLevel(c), cpc'[c] = "wfi", now[c] # 0 \/ Alone PROVE waiting[c] = {}
    BY Zenon, <1>1, <2>1
  <2> QED BY Zenon, <2>1
<1> QED BY <1>2, Invariance, PTL DEF Spec, IdleHasReason

=============================================================================
