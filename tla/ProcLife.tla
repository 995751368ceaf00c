------------------------------ MODULE ProcLife ------------------------------
(***************************************************************************)
(* The life of a process: kfork(), kexit(), reparent(), kwait(), kkill()   *)
(* with sleep() and wakeup(), under wait_lock and the p->lock of every     *)
(* process (kernel/proc.c), and a sleep loop that checks killed()          *)
(* (sys_pause() of kernel/sysproc.c).                                      *)
(*                                                                         *)
(* Every RUNNABLE process may get a CPU (module Sched has the choice).     *)
(* A step ends where a lock is taken or released.  parent[] is read and    *)
(* written, and a process becomes a ZOMBIE, only under wait_lock, so a     *)
(* loop over the table under wait_lock is one step.                        *)
(***************************************************************************)
EXTENDS FiniteSets

CONSTANTS
  Proc, initproc,
  None,       \* no process; a free lock
  Moves       \* what programs do, of "fork", "exit", "wait", "pause", "kill", "kill0"

\* The channel &ticks is not the address of a process.
ASSUME ProcLifeAssumption == initproc \in Proc /\ None \notin Proc /\ "ticks" \notin Proc

VARIABLES
  state, parent, chan, killed,   \* of struct proc
  lock,         \* p->lock: the process whose thread holds it
  wait_lock,
  pc,           \* where p's thread is
  np,           \* local of kfork()
  named         \* history: some kkill() named this process

vars == <<state, parent, chan, killed, lock, wait_lock, pc, np, named>>

Goto(p, l) == pc' = [pc EXCEPT ![p] = l]
At(p, l) == pc[p] = l /\ state[p] = "RUNNING"
Free(l) == l = None

\* The part of wakeup(ch) that has an effect: q sleeps on ch.
Woken(q, ch) == state[q] = "SLEEPING" /\ chan[q] = ch

----------------------------------------------------------------------------
(* Scheduling: p->lock is held from the state change to the end of swtch() *)

\* swtch() is done: scheduler() releases p->lock.
SwtchDone(p) ==
  /\ lock[p] = p /\ state[p] \in {"SLEEPING", "ZOMBIE"}
  /\ lock' = [lock EXCEPT ![p] = None]
  /\ UNCHANGED <<state, parent, chan, killed, wait_lock, pc, np, named>>

\* scheduler() runs p; sleep() clears p->chan and releases p->lock.
Run(p) ==
  /\ state[p] = "RUNNABLE" /\ Free(lock[p])
  /\ state' = [state EXCEPT ![p] = "RUNNING"]
  /\ chan' = [chan EXCEPT ![p] = None]
  /\ UNCHANGED <<parent, killed, lock, wait_lock, pc, np, named>>

\* sleep(ch, lk) from the acquisition of p->lock on.
GoToSleep(p, ch, next) ==
  /\ Free(lock[p])
  /\ lock' = [lock EXCEPT ![p] = p]
  /\ chan' = [chan EXCEPT ![p] = ch]
  /\ state' = [state EXCEPT ![p] = "SLEEPING"]
  /\ Goto(p, next)

\* usertrap(): killed(p) is looked at on the way in and on the way out.
Trap(p) ==
  /\ At(p, "user") \/ At(p, "ret")
  /\ Free(lock[p])
  /\ p = initproc => ~killed[p]                \* else panic("init exiting")
  /\ IF killed[p] THEN Goto(p, "exit") ELSE pc[p] = "ret" /\ Goto(p, "user")
  /\ UNCHANGED <<state, parent, chan, killed, lock, wait_lock, np, named>>

Syscall(p, call, l) ==
  /\ At(p, "user") /\ ~killed[p] /\ Free(lock[p])
  /\ call \in Moves
  /\ Goto(p, l)
  /\ UNCHANGED <<state, parent, chan, killed, lock, wait_lock, np, named>>

----------------------------------------------------------------------------
(* kfork() *)

\* allocproc() that returns with np->lock released.
Allocproc_unlocked(p, c) ==
  /\ At(p, "fork")
  /\ state[c] = "UNUSED" /\ Free(lock[c])
  /\ state' = [state EXCEPT ![c] = "USED"]
  /\ np' = [np EXCEPT ![p] = c]
  /\ named' = [named EXCEPT ![c] = FALSE]
  /\ Goto(p, "copy")
  /\ UNCHANGED <<parent, chan, killed, lock, wait_lock>>

\* allocproc(): np->lock stays held while the memory is copied.
Allocproc(p, c) ==
  /\ At(p, "fork")
  /\ state[c] = "UNUSED" /\ Free(lock[c])
  /\ state' = [state EXCEPT ![c] = "USED"]
  /\ lock' = [lock EXCEPT ![c] = p]
  /\ np' = [np EXCEPT ![p] = c]
  /\ named' = [named EXCEPT ![c] = FALSE]
  /\ Goto(p, "copy")
  /\ UNCHANGED <<parent, chan, killed, wait_lock>>

\* No free slot: kfork() returns -1.
ForkNoSlot(p) ==
  /\ At(p, "fork") /\ \A c \in Proc : state[c] # "UNUSED"
  /\ Goto(p, "ret")
  /\ UNCHANGED <<state, parent, chan, killed, lock, wait_lock, np, named>>

FreedState(c) ==
  /\ state' = [state EXCEPT ![c] = "UNUSED"]
  /\ parent' = [parent EXCEPT ![c] = None]
  /\ chan' = [chan EXCEPT ![c] = None]
  /\ killed' = [killed EXCEPT ![c] = FALSE]

\* uvmcopy() fails: freeproc(np).
ForkFail(p) ==
  /\ At(p, "copy")
  /\ FreedState(np[p])
  /\ lock' = [lock EXCEPT ![np[p]] = None]
  /\ np' = [np EXCEPT ![p] = None]
  /\ Goto(p, "ret")
  /\ UNCHANGED <<wait_lock, named>>

\* release(&np->lock): from here on np can be found by kkill().
ForkCopied(p) ==
  /\ At(p, "copy")
  /\ lock' = [lock EXCEPT ![np[p]] = None]
  /\ Goto(p, "adopt")
  /\ UNCHANGED <<state, parent, chan, killed, wait_lock, np, named>>

ForkParent(p) ==
  /\ At(p, "adopt") /\ Free(wait_lock)
  /\ parent' = [parent EXCEPT ![np[p]] = p]
  /\ Goto(p, "start")
  /\ UNCHANGED <<state, chan, killed, lock, wait_lock, np, named>>

\* np->state = RUNNABLE; np starts in forkret(), which does not look at killed.
ForkStart(p) ==
  /\ At(p, "start") /\ Free(lock[np[p]])
  /\ state' = [state EXCEPT ![np[p]] = "RUNNABLE"]
  /\ pc' = [pc EXCEPT ![p] = "ret", ![np[p]] = "user"]
  /\ np' = [np EXCEPT ![p] = None]
  /\ UNCHANGED <<parent, chan, killed, lock, wait_lock, named>>

----------------------------------------------------------------------------
(* kexit() *)

ExitLock(p) ==
  /\ At(p, "exit") /\ Free(wait_lock)
  /\ wait_lock' = p
  /\ Goto(p, "reparent")
  /\ UNCHANGED <<state, parent, chan, killed, lock, np, named>>

\* reparent() that hands no child over.
Reparent_none(p) ==
  /\ At(p, "reparent")
  /\ Goto(p, "wakeparent")
  /\ UNCHANGED <<state, parent, chan, killed, lock, wait_lock, np, named>>

\* reparent(): the children go to init, which is woken for each of them.
Reparent(p) ==
  LET kids == {c \in Proc : parent[c] = p} IN
  /\ At(p, "reparent")
  /\ parent' = [c \in Proc |-> IF c \in kids THEN initproc ELSE parent[c]]
  /\ kids # {} => Free(lock[initproc])
  /\ state' = IF kids # {} /\ Woken(initproc, initproc)
              THEN [state EXCEPT ![initproc] = "RUNNABLE"] ELSE state
  /\ Goto(p, "wakeparent")
  /\ UNCHANGED <<chan, killed, lock, wait_lock, np, named>>

\* wakeup(p->parent)
WakeParent(p) ==
  LET q == parent[p] IN
  /\ At(p, "wakeparent") /\ Free(lock[q])
  /\ state' = IF Woken(q, q) THEN [state EXCEPT ![q] = "RUNNABLE"] ELSE state
  /\ Goto(p, "die")
  /\ UNCHANGED <<parent, chan, killed, lock, wait_lock, np, named>>

\* p->state = ZOMBIE under both locks; p->lock is kept until swtch() is done.
Die(p) ==
  /\ At(p, "die") /\ Free(lock[p])
  /\ lock' = [lock EXCEPT ![p] = p]
  /\ state' = [state EXCEPT ![p] = "ZOMBIE"]
  /\ wait_lock' = None
  /\ Goto(p, "dead")
  /\ UNCHANGED <<parent, chan, killed, np, named>>

----------------------------------------------------------------------------
(* kwait() *)

WaitLock(p) ==
  /\ At(p, "wait") /\ Free(wait_lock)
  /\ wait_lock' = p
  /\ Goto(p, "scan")
  /\ UNCHANGED <<state, parent, chan, killed, lock, np, named>>

\* An exited child: freeproc() it, or give up if copyout() of its status fails (init
\* asks for no status).
WaitReap(p, c) ==
  /\ At(p, "scan") /\ parent[c] = p /\ Free(lock[c]) /\ state[c] = "ZOMBIE"
  /\ \/ FreedState(c)
     \/ p # initproc /\ UNCHANGED <<state, parent, chan, killed>>
  /\ wait_lock' = None
  /\ Goto(p, "ret")
  /\ UNCHANGED <<lock, np, named>>

\* No exited child: return if there are no children, else look at killed.
WaitNone(p) ==
  LET kids == {c \in Proc : parent[c] = p} IN
  /\ At(p, "scan")
  /\ \A c \in kids : state[c] # "ZOMBIE"
  /\ IF kids = {} THEN wait_lock' = None /\ Goto(p, "ret")
                  ELSE Goto(p, "waitkilled") /\ UNCHANGED wait_lock
  /\ UNCHANGED <<state, parent, chan, killed, lock, np, named>>

\* kwait() without the killed(p) test.
WaitKilled_unchecked(p) ==
  /\ At(p, "waitkilled") /\ Free(lock[p])
  /\ Goto(p, "waitsleep")
  /\ UNCHANGED <<state, parent, chan, killed, lock, wait_lock, np, named>>

WaitKilled(p) ==
  /\ At(p, "waitkilled") /\ Free(lock[p])
  /\ IF killed[p] THEN wait_lock' = None /\ Goto(p, "ret")
                  ELSE Goto(p, "waitsleep") /\ UNCHANGED wait_lock
  /\ UNCHANGED <<state, parent, chan, killed, lock, np, named>>

\* sleep() that releases the condition lock before it takes p->lock.
WaitSleep_early(p) ==
  \/ /\ At(p, "waitsleep") /\ wait_lock = p
     /\ wait_lock' = None
     /\ UNCHANGED <<state, parent, chan, killed, lock, pc, np, named>>
  \/ /\ At(p, "waitsleep") /\ wait_lock # p
     /\ GoToSleep(p, p, "wait")
     /\ UNCHANGED <<parent, killed, wait_lock, np, named>>

\* sleep(p, &wait_lock), which takes the lock again when it returns.
WaitSleep(p) ==
  /\ At(p, "waitsleep")
  /\ GoToSleep(p, p, "wait")
  /\ wait_lock' = None
  /\ UNCHANGED <<parent, killed, np, named>>

----------------------------------------------------------------------------
(* sys_pause(), clockintr() and kkill() *)

PauseKilled(p) ==
  /\ At(p, "pause") /\ Free(lock[p])
  /\ IF killed[p] THEN Goto(p, "ret") ELSE Goto(p, "pausesleep") \/ Goto(p, "ret")
  /\ UNCHANGED <<state, parent, chan, killed, lock, wait_lock, np, named>>

PauseSleep(p) ==
  /\ At(p, "pausesleep")
  /\ GoToSleep(p, "ticks", "pause")
  /\ UNCHANGED <<parent, killed, wait_lock, np, named>>

\* wakeup(&ticks)
Tick(p) ==
  /\ Woken(p, "ticks") /\ Free(lock[p])
  /\ state' = [state EXCEPT ![p] = "RUNNABLE"]
  /\ UNCHANGED <<parent, chan, killed, lock, wait_lock, pc, np, named>>

\* What kkill() does to the process it found.
Killing(q) ==
  /\ Free(lock[q])
  /\ killed' = [killed EXCEPT ![q] = TRUE]
  /\ state' = IF state[q] = "SLEEPING" THEN [state EXCEPT ![q] = "RUNNABLE"] ELSE state
  /\ UNCHANGED <<parent, chan, lock, wait_lock, pc, np>>

\* kkill(pid) of a process.  Programs do not kill init: kexit() panics if they do.
Kill(p, q) ==
  /\ At(p, "user") /\ ~killed[p] /\ "kill" \in Moves
  /\ state[q] # "UNUSED" /\ q # initproc
  /\ Killing(q)
  /\ named' = [named EXCEPT ![q] = TRUE]

\* kkill(0): the first slot with pid 0 is an unused one.
KillZero(p, q) ==
  /\ At(p, "user") /\ ~killed[p] /\ "kill0" \in Moves
  /\ state[q] = "UNUSED"
  /\ Killing(q)
  /\ UNCHANGED named

----------------------------------------------------------------------------
\* userinit(): init is the only process.
Init ==
  /\ state = [p \in Proc |-> IF p = initproc THEN "RUNNABLE" ELSE "UNUSED"]
  /\ parent = [p \in Proc |-> None]
  /\ chan = [p \in Proc |-> None]
  /\ killed = [p \in Proc |-> FALSE]
  /\ lock = [p \in Proc |-> None]
  /\ wait_lock = None
  /\ pc = [p \in Proc |-> "user"]
  /\ np = [p \in Proc |-> None]
  /\ named = [p \in Proc |-> FALSE]

\* The program of init: it forks a shell, and waits for it and for the orphans it is
\* given, for ever.  It would exit when its fork or its wait fails, and kexit() would
\* panic ("init exiting"): here it tries again, so that the others go on.
init_main == Syscall(initproc, "fork", "fork") \/ Syscall(initproc, "wait", "wait")

\* Other programs call what they like.
Calls(p) ==
  \/ p = initproc /\ init_main
  \/ /\ p # initproc
     /\ \/ Syscall(p, "fork", "fork") \/ Syscall(p, "wait", "wait")
        \/ Syscall(p, "exit", "exit") \/ Syscall(p, "pause", "pause")

\* The kernel code of p: it runs to its end, fair scheduling provided.
Kernel(p) ==
  \/ SwtchDone(p) \/ Run(p) \/ Trap(p)
  \/ \E c \in Proc : Allocproc(p, c)
  \/ ForkNoSlot(p) \/ ForkFail(p) \/ ForkCopied(p) \/ ForkParent(p) \/ ForkStart(p)
  \/ ExitLock(p) \/ Reparent(p) \/ WakeParent(p) \/ Die(p)
  \/ WaitLock(p) \/ (\E c \in Proc : WaitReap(p, c)) \/ WaitNone(p) \/ WaitKilled(p) \/ WaitSleep(p)
  \/ PauseKilled(p) \/ PauseSleep(p) \/ Tick(p)

Next == \E p \in Proc :
  \/ Kernel(p) \/ Calls(p)
  \/ \E q \in Proc : Kill(p, q) \/ KillZero(p, q)

Spec == Init /\ [][Next]_vars

\* Kernel code makes progress (module Sched has the argument for Run; a spinlock that
\* is free again and again is obtained), and init calls wait() for ever.
Fairness ==
  /\ \A p \in Proc : SF_vars(Kernel(p))
  /\ SF_vars(Syscall(initproc, "wait", "wait"))

FairSpec == Spec /\ Fairness

----------------------------------------------------------------------------
(* Properties *)

\* Types of the state.
TypeOK ==
  /\ state \in [Proc -> {"UNUSED", "USED", "SLEEPING", "RUNNABLE", "RUNNING", "ZOMBIE"}]
  /\ parent \in [Proc -> Proc \cup {None}] /\ np \in [Proc -> Proc \cup {None}]
  /\ lock \in [Proc -> Proc \cup {None}] /\ wait_lock \in Proc \cup {None}
  /\ \A p \in Proc : At(p, "copy") => lock[np[p]] = p /\ state[np[p]] = "USED"

\* No lost wakeup in kwait(): when wait_lock is free, no process sleeps there while
\* it has an exited child, because kexit() wakes the parent and becomes a ZOMBIE
\* under wait_lock, which sleep() gives up only once it holds p->lock.
NoLostExit ==
  Free(wait_lock) => \A p, c \in Proc :
    Woken(p, p) /\ parent[c] = p => state[c] # "ZOMBIE"

\* Every process has a parent that can still wait for it: kexit() hands its children
\* to init before anyone can find it dead, and kfork() enters the child while it runs.
ParentAlive ==
  Free(wait_lock) => \A c \in Proc \ {initproc} :
    state[c] \in {"SLEEPING", "RUNNABLE", "RUNNING", "ZOMBIE"} =>
      parent[c] \in Proc /\ state[parent[c]] \in {"SLEEPING", "RUNNABLE", "RUNNING"}

\* The process table does not stay full of dead processes: while init has an exited
\* child, a slot becomes free again, whatever the orphans and killers do.
SlotsComeBack ==
  \A c \in Proc : (state[c] = "ZOMBIE" /\ parent[c] = initproc)
                    ~> (\E d \in Proc : state[d] = "UNUSED")

\* kkill() takes effect: a killed process exits, unless the kill came between the
\* killed() test of kwait() and its sleep(); then it waits for a child first.
KilledDies ==
  \A p \in Proc :
    (killed[p] /\ state[p] \notin {"UNUSED", "USED"}
       /\ pc[p] # "waitsleep" /\ ~(state[p] = "SLEEPING" /\ pc[p] = "wait"))
      ~> state[p] \in {"ZOMBIE", "UNUSED"}

\* "Kill the process with the given pid": no other process dies of a kkill().
OnlyNamedKilled == \A p \in Proc : state[p] # "UNUSED" /\ killed[p] => named[p]
=============================================================================
