--------------------------- MODULE ProcLifeProofs ---------------------------
(***************************************************************************)
(* Theorems about ProcLife: for any number of processes, kwait() loses no  *)
(* exit and every process has a parent that can still wait for it.         *)
(***************************************************************************)
EXTENDS ProcLife, TLAPS

USE ProcLifeAssumption DEF Free

Label == {"user", "ret", "fork", "copy", "adopt", "start", "exit", "reparent", "wakeparent",
          "die", "dead", "wait", "scan", "waitkilled", "waitsleep", "pause", "pausesleep"}

Live == {"SLEEPING", "RUNNABLE", "RUNNING"}
Forking == {"copy", "adopt", "start"}
Locked == {"reparent", "wakeparent", "die", "scan", "waitkilled", "waitsleep"}

Types ==
  /\ state \in [Proc -> {"UNUSED", "USED", "SLEEPING", "RUNNABLE", "RUNNING", "ZOMBIE"}]
  /\ parent \in [Proc -> Proc \cup {None}] /\ np \in [Proc -> Proc \cup {None}]
  /\ lock \in [Proc -> Proc \cup {None}] /\ wait_lock \in Proc \cup {None}
  /\ chan \in [Proc -> Proc \cup {None, "ticks"}]
  /\ killed \in [Proc -> BOOLEAN] /\ named \in [Proc -> BOOLEAN]
  /\ pc \in [Proc -> Label]

\* Where the thread of a process can be, by its state.
PcOK(p) ==
  /\ state[p] \in {"UNUSED", "USED"} => pc[p] \in {"user", "dead"}
  /\ state[p] = "SLEEPING" => pc[p] \in {"wait", "pause"}
  /\ state[p] = "RUNNABLE" => pc[p] \in {"user", "wait", "pause"}
  /\ state[p] = "ZOMBIE" <=> pc[p] = "dead" /\ state[p] \notin {"UNUSED", "USED"}

\* init is alive, and never in kexit().
InitOK == state[initproc] \in Live /\ pc[initproc] \notin {"exit", "reparent", "wakeparent", "die"}

\* wait_lock is held by the thread that is in a section it protects, and by no other.
LockOK(p) == pc[p] \in Locked <=> wait_lock = p

\* The slot that kfork() fills is in nobody else's hands.
ForkOK(p) == pc[p] \in Forking =>
  /\ np[p] \in Proc /\ state[np[p]] = "USED"
  /\ pc[p] = "copy" => lock[np[p]] = p
  /\ pc[p] = "start" => parent[np[p]] = p
ForksApart(p, q) == pc[p] \in Forking /\ pc[q] \in Forking /\ np[p] = np[q] => p = q

\* A process that has been started has a parent that is alive and whose reparent() is not over.
HasParent(c) == c # initproc /\ state[c] \in Live \cup {"ZOMBIE"} =>
  parent[c] \in Proc /\ state[parent[c]] \in Live
NoKids(p, c) == pc[p] \in {"wakeparent", "die"} => parent[c] # p

\* Nobody sleeps in kwait() with an exited child, nor goes to sleep there, and whoever
\* is about to become a ZOMBIE has a parent that is awake.
NoZombie(p, c) ==
  (Woken(p, p) \/ pc[p] \in {"waitkilled", "waitsleep"}) /\ parent[c] = p => state[c] # "ZOMBIE"
ParentAwake(p) == pc[p] = "die" => ~Woken(parent[p], parent[p])

IndInv ==
  /\ Types /\ InitOK
  /\ \A p \in Proc : PcOK(p) /\ LockOK(p) /\ ForkOK(p) /\ HasParent(p) /\ ParentAwake(p)
  /\ \A p, q \in Proc : ForksApart(p, q) /\ NoKids(p, q) /\ NoZombie(p, q)


----------------------------------------------------------------------------
\* A step that only moves the thread of p, outside kfork() and the sections of wait_lock.
LEMMA MoveInd ==
  ASSUME IndInv, NEW p \in Proc, NEW l \in Label, state[p] = "RUNNING",
         pc[p] \notin Locked \cup Forking, l \notin Locked \cup Forking \cup {"dead"},
         p = initproc => l # "exit",
         UNCHANGED <<state, parent, chan, killed, lock, wait_lock, np, named>>, Goto(p, l)
  PROVE  IndInv'
<1> USE DEF Goto, IndInv, Types
<1>1. Types' /\ InitOK'
  BY DEF InitOK, Live, Label, Locked, PcOK
<1>2. ASSUME NEW q \in Proc PROVE PcOK(q)' /\ LockOK(q)'
  BY <1>2 DEF PcOK, LockOK, Locked, Forking, Label
<1>3. ASSUME NEW q \in Proc PROVE ForkOK(q)' /\ (\A r \in Proc : ForksApart(q, r)')
  BY <1>3 DEF ForkOK, ForksApart, Forking, PcOK, Locked
<1>4. ASSUME NEW q \in Proc
      PROVE  HasParent(q)' /\ ParentAwake(q)' /\ (\A r \in Proc : NoKids(q, r)' /\ NoZombie(q, r)')
  BY <1>4 DEF HasParent, ParentAwake, NoKids, NoZombie, Woken, PcOK, InitOK, Live, LockOK, Locked
<1> QED BY <1>1, <1>2, <1>3, <1>4

\* A step that only wakes p up, or finds it awake.
LEMMA WakeInd ==
  ASSUME IndInv, NEW p \in Proc,
         state' = state \/ (state[p] = "SLEEPING" /\ state' = [state EXCEPT ![p] = "RUNNABLE"]),
         UNCHANGED <<parent, chan, lock, wait_lock, pc, np>>,
         killed' \in [Proc -> BOOLEAN], named' \in [Proc -> BOOLEAN]
  PROVE  IndInv'
<1> USE DEF Woken, IndInv, Types
<1>1. Types' /\ InitOK'
  BY DEF InitOK, Live, Label, Locked, PcOK
<1>2. ASSUME NEW q \in Proc PROVE PcOK(q)' /\ LockOK(q)'
  BY <1>2 DEF PcOK, LockOK, Locked, Forking, Label
<1>3. ASSUME NEW q \in Proc PROVE ForkOK(q)' /\ (\A r \in Proc : ForksApart(q, r)')
  BY <1>3 DEF ForkOK, ForksApart, Forking, PcOK, Locked
<1>4. ASSUME NEW q \in Proc
      PROVE  HasParent(q)' /\ ParentAwake(q)' /\ (\A r \in Proc : NoKids(q, r)' /\ NoZombie(q, r)')
  BY <1>4 DEF HasParent, ParentAwake, NoKids, NoZombie, Woken, PcOK, InitOK, Live, LockOK, Locked
<1> QED BY <1>1, <1>2, <1>3, <1>4

\* The end of swtch().
LEMMA SwtchDoneInd == ASSUME IndInv, NEW p \in Proc, SwtchDone(p) PROVE IndInv'
<1> USE DEF SwtchDone, IndInv, Types
<1>1. Types' /\ InitOK'
  BY DEF InitOK, Live, Label, Locked, PcOK
<1>2. ASSUME NEW q \in Proc PROVE PcOK(q)' /\ LockOK(q)'
  BY <1>2 DEF PcOK, LockOK, Locked, Forking, Label
<1>3. ASSUME NEW q \in Proc PROVE ForkOK(q)' /\ (\A r \in Proc : ForksApart(q, r)')
  BY <1>3 DEF ForkOK, ForksApart, Forking, PcOK, Locked
<1>4. ASSUME NEW q \in Proc
      PROVE  HasParent(q)' /\ ParentAwake(q)' /\ (\A r \in Proc : NoKids(q, r)' /\ NoZombie(q, r)')
  BY <1>4 DEF HasParent, ParentAwake, NoKids, NoZombie, Woken, PcOK, InitOK, Live, LockOK, Locked
<1> QED BY <1>1, <1>2, <1>3, <1>4

\* scheduler() runs p.
LEMMA RunInd == ASSUME IndInv, NEW p \in Proc, Run(p) PROVE IndInv'
<1> USE DEF Run, IndInv, Types
<1>1. Types' /\ InitOK'
  BY DEF InitOK, Live, Label, Locked, PcOK
<1>2. ASSUME NEW q \in Proc PROVE PcOK(q)' /\ LockOK(q)'
  BY <1>2 DEF PcOK, LockOK, Locked, Forking, Label
<1>3. ASSUME NEW q \in Proc PROVE ForkOK(q)' /\ (\A r \in Proc : ForksApart(q, r)')
  BY <1>3 DEF ForkOK, ForksApart, Forking, PcOK, Locked
<1>4. ASSUME NEW q \in Proc
      PROVE  HasParent(q)' /\ ParentAwake(q)' /\ (\A r \in Proc : NoKids(q, r)' /\ NoZombie(q, r)')
  BY <1>4 DEF HasParent, ParentAwake, NoKids, NoZombie, Woken, PcOK, InitOK, Live, LockOK, Locked
<1> QED BY <1>1, <1>2, <1>3, <1>4

\* kfork() takes a slot: nobody else has it, since it was UNUSED.
LEMMA AllocprocInd == ASSUME IndInv, NEW p \in Proc, NEW c \in Proc, Allocproc(p, c) PROVE IndInv'
<1> USE DEF Allocproc, At, Goto, IndInv, Types
<1>1. Types'
  BY DEF Label
<1>2. InitOK'
  BY DEF InitOK, Live, PcOK, ForkOK, Forking, Woken
<1>3. ASSUME NEW q \in Proc PROVE PcOK(q)'
  BY <1>3 DEF PcOK, ForkOK, Forking, Label, Woken
<1>4. ASSUME NEW q \in Proc PROVE LockOK(q)'
  BY <1>4 DEF LockOK, Locked, PcOK, ForkOK, Forking
<1>5. ASSUME NEW q \in Proc PROVE ForkOK(q)' /\ (\A r \in Proc : ForksApart(q, r)')
  BY <1>5 DEF ForkOK, ForksApart, Forking, PcOK, LockOK, Locked, Woken
<1>6. ASSUME NEW q \in Proc PROVE HasParent(q)' /\ (\A r \in Proc : NoKids(q, r)')
  BY <1>6 DEF HasParent, NoKids, InitOK, Live, ForkOK, Forking, PcOK, LockOK, Locked, Woken
<1>7. ASSUME NEW q \in Proc PROVE ParentAwake(q)' /\ (\A r \in Proc : NoZombie(q, r)')
  BY <1>7 DEF ParentAwake, NoZombie, Woken, PcOK, LockOK, Locked, ForkOK, Forking, HasParent, InitOK, Live
<1> QED BY <1>1, <1>2, <1>3, <1>4, <1>5, <1>6, <1>7

\* kfork() gives the slot up, which has never run.
LEMMA ForkFailInd == ASSUME IndInv, NEW p \in Proc, ForkFail(p) PROVE IndInv'
<1> USE DEF ForkFail, FreedState, At, Goto, IndInv, Types
<1>1. Types'
  BY Zenon DEF Label
<1>2. InitOK'
  BY DEF InitOK, Live, PcOK, ForkOK, Forking, Woken
<1>3. ASSUME NEW q \in Proc PROVE PcOK(q)'
  BY <1>3 DEF PcOK, ForkOK, Forking, Label, Woken
<1>4. ASSUME NEW q \in Proc PROVE LockOK(q)'
  BY <1>4 DEF LockOK, Locked, PcOK, ForkOK, Forking
<1>5. ASSUME NEW q \in Proc PROVE ForkOK(q)' /\ (\A r \in Proc : ForksApart(q, r)')
  BY <1>5 DEF ForkOK, ForksApart, Forking, PcOK, LockOK, Locked, Woken
<1>6. ASSUME NEW q \in Proc PROVE HasParent(q)' /\ (\A r \in Proc : NoKids(q, r)')
  BY <1>6 DEF HasParent, NoKids, InitOK, Live, ForkOK, Forking, PcOK, LockOK, Locked, Woken
<1>7. ASSUME NEW q \in Proc PROVE ParentAwake(q)' /\ (\A r \in Proc : NoZombie(q, r)')
  BY <1>7 DEF ParentAwake, NoZombie, Woken, PcOK, LockOK, Locked, ForkOK, Forking, HasParent, InitOK, Live
<1> QED BY <1>1, <1>2, <1>3, <1>4, <1>5, <1>6, <1>7

\* kfork() releases the lock of the slot.
LEMMA ForkCopiedInd == ASSUME IndInv, NEW p \in Proc, ForkCopied(p) PROVE IndInv'
<1> USE DEF ForkCopied, At, Goto, IndInv, Types
<1>1. Types' /\ InitOK'
  BY Zenon DEF InitOK, Live, Label, Locked, PcOK
<1>2. ASSUME NEW q \in Proc PROVE PcOK(q)' /\ LockOK(q)'
  BY <1>2 DEF PcOK, LockOK, Locked, Forking, Label
<1>3. ASSUME NEW q \in Proc PROVE ForkOK(q)' /\ (\A r \in Proc : ForksApart(q, r)')
  BY <1>3 DEF ForkOK, ForksApart, Forking, PcOK, Locked
<1>4. ASSUME NEW q \in Proc
      PROVE  HasParent(q)' /\ ParentAwake(q)' /\ (\A r \in Proc : NoKids(q, r)' /\ NoZombie(q, r)')
  BY <1>4 DEF HasParent, ParentAwake, NoKids, NoZombie, Woken, PcOK, InitOK, Live, LockOK, Locked
<1> QED BY <1>1, <1>2, <1>3, <1>4

\* kfork() enters itself as the parent.
LEMMA ForkParentInd == ASSUME IndInv, NEW p \in Proc, ForkParent(p) PROVE IndInv'
<1> USE DEF ForkParent, At, Goto, IndInv, Types
<1>1. Types'
  BY Zenon DEF Label
<1>2. InitOK'
  BY DEF InitOK, Live, PcOK, ForkOK, Forking, Woken
<1>3. ASSUME NEW q \in Proc PROVE PcOK(q)'
  BY <1>3 DEF PcOK, ForkOK, Forking, Label, Woken
<1>4. ASSUME NEW q \in Proc PROVE LockOK(q)'
  BY <1>4 DEF LockOK, Locked, PcOK, ForkOK, Forking
<1>5. ASSUME NEW q \in Proc PROVE ForkOK(q)' /\ (\A r \in Proc : ForksApart(q, r)')
  BY <1>5 DEF ForkOK, ForksApart, Forking, PcOK, LockOK, Locked, Woken
<1>6. ASSUME NEW q \in Proc PROVE HasParent(q)' /\ (\A r \in Proc : NoKids(q, r)')
  BY <1>6 DEF HasParent, NoKids, InitOK, Live, ForkOK, Forking, PcOK, LockOK, Locked, Woken
<1>7. ASSUME NEW q \in Proc PROVE ParentAwake(q)' /\ (\A r \in Proc : NoZombie(q, r)')
  BY <1>7 DEF ParentAwake, NoZombie, Woken, PcOK, LockOK, Locked, ForkOK, Forking, HasParent, InitOK, Live
<1> QED BY <1>1, <1>2, <1>3, <1>4, <1>5, <1>6, <1>7

\* The child starts, and its parent is running.
LEMMA ForkStartInd == ASSUME IndInv, NEW p \in Proc, ForkStart(p) PROVE IndInv'
<1> USE DEF ForkStart, At, Goto, IndInv, Types
<1>1. Types'
  BY Zenon DEF Label
<1>2. InitOK'
  BY DEF InitOK, Live, PcOK, ForkOK, Forking, Woken
<1>3. ASSUME NEW q \in Proc PROVE PcOK(q)'
  BY <1>3 DEF PcOK, ForkOK, Forking, Label, Woken
<1>4. ASSUME NEW q \in Proc PROVE LockOK(q)'
  BY <1>4 DEF LockOK, Locked, PcOK, ForkOK, Forking
<1>5. ASSUME NEW q \in Proc PROVE ForkOK(q)' /\ (\A r \in Proc : ForksApart(q, r)')
  BY <1>5 DEF ForkOK, ForksApart, Forking, PcOK, LockOK, Locked, Woken
<1>6. ASSUME NEW q \in Proc PROVE HasParent(q)' /\ (\A r \in Proc : NoKids(q, r)')
  BY <1>6 DEF HasParent, NoKids, InitOK, Live, ForkOK, Forking, PcOK, LockOK, Locked, Woken
<1>7. ASSUME NEW q \in Proc PROVE ParentAwake(q)' /\ (\A r \in Proc : NoZombie(q, r)')
  BY <1>7 DEF ParentAwake, NoZombie, Woken, PcOK, LockOK, Locked, ForkOK, Forking, HasParent, InitOK, Live
<1> QED BY <1>1, <1>2, <1>3, <1>4, <1>5, <1>6, <1>7

\* kexit() takes wait_lock.
LEMMA ExitLockInd == ASSUME IndInv, NEW p \in Proc, ExitLock(p) PROVE IndInv'
<1> USE DEF ExitLock, At, Goto, IndInv, Types
<1>1. Types' /\ InitOK'
  BY DEF InitOK, Live, Label, Locked, PcOK
<1>2. ASSUME NEW q \in Proc PROVE PcOK(q)' /\ LockOK(q)'
  BY <1>2 DEF PcOK, LockOK, Locked, Forking, Label
<1>3. ASSUME NEW q \in Proc PROVE ForkOK(q)' /\ (\A r \in Proc : ForksApart(q, r)')
  BY <1>3 DEF ForkOK, ForksApart, Forking, PcOK, Locked
<1>4. ASSUME NEW q \in Proc
      PROVE  HasParent(q)' /\ ParentAwake(q)' /\ (\A r \in Proc : NoKids(q, r)' /\ NoZombie(q, r)')
  BY <1>4 DEF HasParent, ParentAwake, NoKids, NoZombie, Woken, PcOK, InitOK, Live, LockOK, Locked
<1> QED BY <1>1, <1>2, <1>3, <1>4

\* reparent(): init gets the children, is alive, and is awake if one has exited.
LEMMA ReparentInd == ASSUME IndInv, NEW p \in Proc, Reparent(p) PROVE IndInv'
<1> USE DEF Reparent, At, Goto, IndInv, Types
<1>1. Types'
  BY DEF Label
<1>2. InitOK'
  BY DEF InitOK, Live, PcOK, ForkOK, Forking, Woken
<1>3. ASSUME NEW q \in Proc PROVE PcOK(q)'
  BY <1>3 DEF PcOK, ForkOK, Forking, Label, Woken
<1>4. ASSUME NEW q \in Proc PROVE LockOK(q)'
  BY <1>4 DEF LockOK, Locked, PcOK, ForkOK, Forking
<1>5. ASSUME NEW q \in Proc PROVE ForkOK(q)' /\ (\A r \in Proc : ForksApart(q, r)')
  BY <1>5 DEF ForkOK, ForksApart, Forking, PcOK, LockOK, Locked, Woken
<1>6. ASSUME NEW q \in Proc PROVE HasParent(q)' /\ (\A r \in Proc : NoKids(q, r)')
  BY <1>6 DEF HasParent, NoKids, InitOK, Live, ForkOK, Forking, PcOK, LockOK, Locked, Woken
<1>7. ASSUME NEW q \in Proc PROVE ParentAwake(q)' /\ (\A r \in Proc : NoZombie(q, r)')
  BY <1>7 DEF ParentAwake, NoZombie, Woken, PcOK, LockOK, Locked, ForkOK, Forking, HasParent, InitOK, Live
<1> QED BY <1>1, <1>2, <1>3, <1>4, <1>5, <1>6, <1>7

\* kexit() wakes the parent, which cannot go back to sleep in kwait() without wait_lock.
LEMMA WakeParentInd == ASSUME IndInv, NEW p \in Proc, WakeParent(p) PROVE IndInv'
<1> USE DEF WakeParent, At, Goto, IndInv, Types
<1>1. Types'
  BY Zenon DEF Label
<1>2. InitOK'
  BY DEF InitOK, Live, PcOK, ForkOK, Forking, Woken
<1>3. ASSUME NEW q \in Proc PROVE PcOK(q)'
  BY <1>3 DEF PcOK, ForkOK, Forking, Label, Woken
<1>4. ASSUME NEW q \in Proc PROVE LockOK(q)'
  BY <1>4 DEF LockOK, Locked, PcOK, ForkOK, Forking
<1>5. ASSUME NEW q \in Proc PROVE ForkOK(q)' /\ (\A r \in Proc : ForksApart(q, r)')
  BY <1>5 DEF ForkOK, ForksApart, Forking, PcOK, LockOK, Locked, Woken
<1>6. ASSUME NEW q \in Proc PROVE HasParent(q)' /\ (\A r \in Proc : NoKids(q, r)')
  BY <1>6 DEF HasParent, NoKids, InitOK, Live, ForkOK, Forking, PcOK, LockOK, Locked, Woken
<1>7. ASSUME NEW q \in Proc PROVE ParentAwake(q)' /\ (\A r \in Proc : NoZombie(q, r)')
  BY <1>7 DEF ParentAwake, NoZombie, Woken, PcOK, LockOK, Locked, ForkOK, Forking, HasParent, InitOK, Live
<1> QED BY <1>1, <1>2, <1>3, <1>4, <1>5, <1>6, <1>7

\* p becomes a ZOMBIE: it has no children left, and its parent is awake.
LEMMA DieInd == ASSUME IndInv, NEW p \in Proc, Die(p) PROVE IndInv'
<1> USE DEF Die, At, Goto, IndInv, Types
<1>1. Types'
  BY DEF Label
<1>2. InitOK'
  BY DEF InitOK, Live, PcOK, ForkOK, Forking, Woken
<1>3. ASSUME NEW q \in Proc PROVE PcOK(q)'
  BY <1>3 DEF PcOK, ForkOK, Forking, Label, Woken
<1>4. ASSUME NEW q \in Proc PROVE LockOK(q)'
  BY <1>4 DEF LockOK, Locked, PcOK, ForkOK, Forking
<1>5. ASSUME NEW q \in Proc PROVE ForkOK(q)' /\ (\A r \in Proc : ForksApart(q, r)')
  BY <1>5 DEF ForkOK, ForksApart, Forking, PcOK, LockOK, Locked, Woken
<1>6. ASSUME NEW q \in Proc PROVE HasParent(q)' /\ (\A r \in Proc : NoKids(q, r)')
  BY <1>6 DEF HasParent, NoKids, InitOK, Live, ForkOK, Forking, PcOK, LockOK, Locked, Woken
<1>7. ASSUME NEW q \in Proc PROVE ParentAwake(q)' /\ (\A r \in Proc : NoZombie(q, r)')
  BY <1>7 DEF ParentAwake, NoZombie, Woken, PcOK, LockOK, Locked, ForkOK, Forking, HasParent, InitOK, Live
<1> QED BY <1>1, <1>2, <1>3, <1>4, <1>5, <1>6, <1>7

\* kwait() takes wait_lock.
LEMMA WaitLockInd == ASSUME IndInv, NEW p \in Proc, WaitLock(p) PROVE IndInv'
<1> USE DEF WaitLock, At, Goto, IndInv, Types
<1>1. Types' /\ InitOK'
  BY DEF InitOK, Live, Label, Locked, PcOK
<1>2. ASSUME NEW q \in Proc PROVE PcOK(q)' /\ LockOK(q)'
  BY <1>2 DEF PcOK, LockOK, Locked, Forking, Label
<1>3. ASSUME NEW q \in Proc PROVE ForkOK(q)' /\ (\A r \in Proc : ForksApart(q, r)')
  BY <1>3 DEF ForkOK, ForksApart, Forking, PcOK, Locked
<1>4. ASSUME NEW q \in Proc
      PROVE  HasParent(q)' /\ ParentAwake(q)' /\ (\A r \in Proc : NoKids(q, r)' /\ NoZombie(q, r)')
  BY <1>4 DEF HasParent, ParentAwake, NoKids, NoZombie, Woken, PcOK, InitOK, Live, LockOK, Locked
<1> QED BY <1>1, <1>2, <1>3, <1>4

\* kwait() frees an exited child, or fails: nobody has a ZOMBIE as its parent.
LEMMA WaitReapInd == ASSUME IndInv, NEW p \in Proc, NEW c \in Proc, WaitReap(p, c) PROVE IndInv'
<1> USE DEF WaitReap, FreedState, At, Goto, IndInv, Types
<1>1. Types'
  BY Zenon DEF Label
<1>2. InitOK'
  BY DEF InitOK, Live, PcOK, ForkOK, Forking, Woken
<1>3. ASSUME NEW q \in Proc PROVE PcOK(q)'
  BY <1>3 DEF PcOK, ForkOK, Forking, Label, Woken
<1>4. ASSUME NEW q \in Proc PROVE LockOK(q)'
  BY <1>4 DEF LockOK, Locked, PcOK, ForkOK, Forking
<1>5. ASSUME NEW q \in Proc PROVE ForkOK(q)' /\ (\A r \in Proc : ForksApart(q, r)')
  BY <1>5 DEF ForkOK, ForksApart, Forking, PcOK, LockOK, Locked, Woken
<1>6. ASSUME NEW q \in Proc PROVE HasParent(q)' /\ (\A r \in Proc : NoKids(q, r)')
  BY <1>6 DEF HasParent, NoKids, InitOK, Live, ForkOK, Forking, PcOK, LockOK, Locked, Woken
<1>7. ASSUME NEW q \in Proc PROVE ParentAwake(q)' /\ (\A r \in Proc : NoZombie(q, r)')
  BY <1>7 DEF ParentAwake, NoZombie, Woken, PcOK, LockOK, Locked, ForkOK, Forking, HasParent, InitOK, Live
<1> QED BY <1>1, <1>2, <1>3, <1>4, <1>5, <1>6, <1>7

\* kwait() finds no exited child.
LEMMA WaitNoneInd == ASSUME IndInv, NEW p \in Proc, WaitNone(p) PROVE IndInv'
<1> USE DEF WaitNone, At, Goto, IndInv, Types
<1>1. Types' /\ InitOK'
  BY DEF InitOK, Live, Label, Locked, PcOK
<1>2. ASSUME NEW q \in Proc PROVE PcOK(q)' /\ LockOK(q)'
  BY <1>2 DEF PcOK, LockOK, Locked, Forking, Label
<1>3. ASSUME NEW q \in Proc PROVE ForkOK(q)' /\ (\A r \in Proc : ForksApart(q, r)')
  BY <1>3 DEF ForkOK, ForksApart, Forking, PcOK, Locked
<1>4. ASSUME NEW q \in Proc
      PROVE  HasParent(q)' /\ ParentAwake(q)' /\ (\A r \in Proc : NoKids(q, r)' /\ NoZombie(q, r)')
  BY <1>4 DEF HasParent, ParentAwake, NoKids, NoZombie, Woken, PcOK, InitOK, Live, LockOK, Locked
<1> QED BY <1>1, <1>2, <1>3, <1>4

\* kwait() looks at killed.
LEMMA WaitKilledInd == ASSUME IndInv, NEW p \in Proc, WaitKilled(p) PROVE IndInv'
<1> USE DEF WaitKilled, At, Goto, IndInv, Types
<1>1. Types' /\ InitOK'
  BY DEF InitOK, Live, Label, Locked, PcOK
<1>2. ASSUME NEW q \in Proc PROVE PcOK(q)' /\ LockOK(q)'
  BY <1>2 DEF PcOK, LockOK, Locked, Forking, Label
<1>3. ASSUME NEW q \in Proc PROVE ForkOK(q)' /\ (\A r \in Proc : ForksApart(q, r)')
  BY <1>3 DEF ForkOK, ForksApart, Forking, PcOK, Locked
<1>4. ASSUME NEW q \in Proc
      PROVE  HasParent(q)' /\ ParentAwake(q)' /\ (\A r \in Proc : NoKids(q, r)' /\ NoZombie(q, r)')
  BY <1>4 DEF HasParent, ParentAwake, NoKids, NoZombie, Woken, PcOK, InitOK, Live, LockOK, Locked
<1> QED BY <1>1, <1>2, <1>3, <1>4

\* sleep() in kwait(): no child has exited since the scan, which held wait_lock.
LEMMA WaitSleepInd == ASSUME IndInv, NEW p \in Proc, WaitSleep(p) PROVE IndInv'
<1> USE DEF WaitSleep, GoToSleep, At, Goto, IndInv, Types
<1>1. Types'
  BY DEF Label
<1>2. InitOK'
  BY DEF InitOK, Live, PcOK, ForkOK, Forking, Woken
<1>3. ASSUME NEW q \in Proc PROVE PcOK(q)'
  BY <1>3 DEF PcOK, ForkOK, Forking, Label, Woken
<1>4. ASSUME NEW q \in Proc PROVE LockOK(q)'
  BY <1>4 DEF LockOK, Locked, PcOK, ForkOK, Forking
<1>5. ASSUME NEW q \in Proc PROVE ForkOK(q)' /\ (\A r \in Proc : ForksApart(q, r)')
  BY <1>5 DEF ForkOK, ForksApart, Forking, PcOK, LockOK, Locked, Woken
<1>6. ASSUME NEW q \in Proc PROVE HasParent(q)' /\ (\A r \in Proc : NoKids(q, r)')
  BY <1>6 DEF HasParent, NoKids, InitOK, Live, ForkOK, Forking, PcOK, LockOK, Locked, Woken
<1>7. ASSUME NEW q \in Proc PROVE ParentAwake(q)' /\ (\A r \in Proc : NoZombie(q, r)')
  BY <1>7 DEF ParentAwake, NoZombie, Woken, PcOK, LockOK, Locked, ForkOK, Forking, HasParent, InitOK, Live
<1> QED BY <1>1, <1>2, <1>3, <1>4, <1>5, <1>6, <1>7

\* sleep() in sys_pause().
LEMMA PauseSleepInd == ASSUME IndInv, NEW p \in Proc, PauseSleep(p) PROVE IndInv'
<1> USE DEF PauseSleep, GoToSleep, At, Goto, IndInv, Types
<1>1. Types' /\ InitOK'
  BY DEF InitOK, Live, Label, Locked, PcOK
<1>2. ASSUME NEW q \in Proc PROVE PcOK(q)' /\ LockOK(q)'
  BY <1>2 DEF PcOK, LockOK, Locked, Forking, Label
<1>3. ASSUME NEW q \in Proc PROVE ForkOK(q)' /\ (\A r \in Proc : ForksApart(q, r)')
  BY <1>3 DEF ForkOK, ForksApart, Forking, PcOK, Locked
<1>4. ASSUME NEW q \in Proc
      PROVE  HasParent(q)' /\ ParentAwake(q)' /\ (\A r \in Proc : NoKids(q, r)' /\ NoZombie(q, r)')
  BY <1>4 DEF HasParent, ParentAwake, NoKids, NoZombie, Woken, PcOK, InitOK, Live, LockOK, Locked
<1> QED BY <1>1, <1>2, <1>3, <1>4

LEMMA InitInd == Init => IndInv
BY DEF Init, IndInv, Types, Label, InitOK, Live, PcOK, LockOK, Locked, ForkOK, Forking, HasParent,
       ParentAwake, ForksApart, NoKids, NoZombie, Woken

LEMMA KernelInd == ASSUME IndInv, NEW p \in Proc, Kernel(p) PROVE IndInv'
<1>1. CASE Trap(p) \/ ForkNoSlot(p) \/ PauseKilled(p)
  <2>1. PICK l \in {"exit", "user", "ret", "pausesleep"} : Goto(p, l) /\ (p = initproc => l # "exit")
    BY <1>1 DEF Trap, ForkNoSlot, PauseKilled
  <2> QED BY <1>1, <2>1, MoveInd DEF Trap, ForkNoSlot, PauseKilled, At, Label, Locked, Forking
<1>2. CASE Tick(p)
  BY Zenon, <1>2, WakeInd DEF Tick, Woken, IndInv, Types
<1> QED
  BY <1>1, <1>2, SwtchDoneInd, RunInd, AllocprocInd, ForkFailInd, ForkCopiedInd, ForkParentInd,
     ForkStartInd, ExitLockInd, ReparentInd, WakeParentInd, DieInd, WaitLockInd, WaitReapInd,
     WaitNoneInd, WaitKilledInd, WaitSleepInd, PauseSleepInd DEF Kernel

LEMMA NextInd == IndInv /\ [Next]_vars => IndInv'
<1> SUFFICES ASSUME IndInv, [Next]_vars PROVE IndInv'
  OBVIOUS
<1>1. CASE UNCHANGED vars
  BY <1>1 DEF vars, IndInv, Types, InitOK, PcOK, LockOK, ForkOK, HasParent, ParentAwake, ForksApart,
              NoKids, NoZombie, Woken
<1>2. ASSUME NEW p \in Proc, Calls(p) PROVE IndInv'
  <2>1. PICK l \in {"fork", "wait", "exit", "pause"} :
          (\E call \in {"fork", "wait", "exit", "pause"} : Syscall(p, call, l)) /\ (p = initproc => l # "exit")
    BY <1>2 DEF Calls, init_main
  <2> QED BY <2>1, MoveInd DEF Syscall, At, Label, Locked, Forking
<1>3. ASSUME NEW p \in Proc, NEW q \in Proc, Kill(p, q) \/ KillZero(p, q) PROVE IndInv'
  <2>1. /\ state' = state \/ (state[q] = "SLEEPING" /\ state' = [state EXCEPT ![q] = "RUNNABLE"])
        /\ UNCHANGED <<parent, chan, lock, wait_lock, pc, np>>
    BY <1>3 DEF Kill, KillZero, Killing
  <2>2. killed' \in [Proc -> BOOLEAN] /\ named' \in [Proc -> BOOLEAN]
    BY Zenon, <1>3 DEF Kill, KillZero, Killing, IndInv, Types
  <2> QED BY <2>1, <2>2, WakeInd
<1> QED BY <1>1, <1>2, <1>3, KernelInd DEF Next

\* The inductive invariant holds of every behaviour: who holds wait_lock, whose slot
\* kfork() is filling, that parents are alive and that exits are not lost.
THEOREM Invariance == Spec => []IndInv
BY InitInd, NextInd, PTL DEF Spec

\* Every variable stays in its type, and a slot that kfork() is filling stays locked by it.
THEOREM Typing == Spec => []TypeOK
<1>1. IndInv => TypeOK
  BY DEF IndInv, Types, TypeOK, ForkOK, Forking, At
<1> QED BY <1>1, Invariance, PTL

\* No lost wakeup in kwait(): kexit() wakes the parent and becomes a ZOMBIE under
\* wait_lock, which the parent holds from its scan of the table to its sleep.
THEOREM ExitsNotLost == Spec => []NoLostExit
<1>1. IndInv => NoLostExit
  BY DEF IndInv, NoLostExit, NoZombie
<1> QED BY <1>1, Invariance, PTL

\* Every process that was started has a parent that can still wait for it: kexit() hands
\* its children over before it becomes a ZOMBIE, and init never exits.
THEOREM ParentsAlive == Spec => []ParentAlive
<1>1. IndInv => ParentAlive
  BY DEF IndInv, ParentAlive, HasParent, Live
<1> QED BY <1>1, Invariance, PTL

=============================================================================
