----------------------------- MODULE CowMemory -----------------------------
(***************************************************************************)
(* User memory with copy-on-write fork: the page allocator with reference  *)
(* counts (kernel/kalloc.c), the page-table operations (kernel/vm.c) and   *)
(* the system calls and traps that use them (kfork, kexit, kwait, growproc *)
(* in kernel/proc.c, kexec in kernel/exec.c, usertrap in kernel/trap.c).   *)
(*                                                                         *)
(* Every live process may be running on a CPU of its own.  Each critical   *)
(* section of kmem.lock is a step; so is every access to a page or a count *)
(* that another process can observe.  Page tables are private to the       *)
(* process that works on them, so their updates are part of a neighbouring *)
(* step.  Sizes and addresses are counted in pages.  Frames used for page- *)
(* table pages and trapframes are not tracked: a mappages() that needs one *)
(* may fail at any time (the failing disjuncts below).                     *)
(***************************************************************************)
EXTENDS Integers, Sequences, FiniteSets

CONSTANTS
  Proc,       \* slots of proc[NPROC]
  initproc,   \* the slot userinit() filled
  NPages,     \* user virtual pages below TRAPFRAME
  Frame,      \* physical pages kinit() put on the free list
  NoFrame,    \* no physical page (0 in the code)
  NoProc,     \* no process
  Value,      \* contents of a page that programs can tell apart
  Zero,       \* contents after memset(mem, 0, PGSIZE)
  Junk,       \* contents after memset(pa, 1, PGSIZE) or memset(r, 5, PGSIZE)
  Image,      \* the executable: per page its contents and its PTE_W, PTE_U
  Syscalls    \* Syscalls[p]: what p calls, of "fork", "exit", "read", "sbrk", "exec"

VPage == 0 .. NPages - 1
NoVal == Junk    \* "no pending kernel write": the fault came from a trap

ASSUME ConstantsAssumption ==
  /\ initproc \in Proc /\ NoProc \notin Proc
  /\ NoFrame \notin Frame
  /\ NPages \in Nat
  /\ Zero \in Value /\ Junk \notin Value

ASSUME ImageAssumption ==
  /\ Len(Image) \in 1 .. NPages
  /\ \A i \in 1 .. Len(Image) :
       Image[i].val \in Value /\ Image[i].W \in BOOLEAN /\ Image[i].U \in BOOLEAN

ASSUME ProcFinite == IsFiniteSet(Proc)

VARIABLES
  freelist,   \* kmem.freelist, as a set: which free page comes next is left open
  refcount,   \* refcount[f], kernel/kalloc.c
  mem,        \* contents of each physical page
  pt,         \* page-table entries of the two tables a process may have (see Slot)
  cur,        \* cur[p]: which of its two tables is p->pagetable
  sz,         \* p->sz
  pc,         \* where p is: "user", or a step of a kernel path
  va,         \* loop index or faulting page of the path
  lim,        \* newsz of growproc()
  val,        \* value copyout() is to write, NoVal in a trap
  held,       \* page cowfault() holds outside any page table
  child       \* np of kfork()

kmem == <<freelist, refcount, mem>>
locals == <<va, lim, val, held, child>>
vars == <<freelist, refcount, mem, pt, cur, sz, pc, va, lim, val, held, child>>

(* kexec() builds a second table beside p->pagetable, and frees one of the *)
(* two at the end.  A page-table entry is named by its table and its page. *)
Table == Proc \X {0, 1}
Slot == Table \X VPage
Cur(p, v) == << <<p, cur[p]>>, v >>
Alt(p, v) == << <<p, 1 - cur[p]>>, v >>

NoPte == [V |-> FALSE, pa |-> NoFrame, W |-> FALSE, U |-> FALSE, COW |-> FALSE]
Pte == [V : BOOLEAN, pa : Frame \cup {NoFrame}, W : BOOLEAN, U : BOOLEAN, COW : BOOLEAN]
MkPte(f, w, u, cow) == [V |-> TRUE, pa |-> f, W |-> w, U |-> u, COW |-> cow]

Goto(p, label) == pc' = [pc EXCEPT ![p] = label]

----------------------------------------------------------------------------
(* kernel/kalloc.c *)

kalloc(f, contents) ==
  /\ f \in freelist
  /\ freelist' = freelist \ {f}
  /\ refcount' = [refcount EXCEPT ![f] = 1]
  /\ mem' = [mem EXCEPT ![f] = contents]

\* kfree() that puts the page on the free list whatever the count.
kfree_always(f) ==
  /\ refcount' = [refcount EXCEPT ![f] = @ - 1]
  /\ freelist' = freelist \cup {f}
  /\ UNCHANGED mem

\* refcount[f] < 1 is panic("kfree refcount"): the step does not exist.
kfree(f) ==
  /\ refcount[f] >= 1
  /\ refcount' = [refcount EXCEPT ![f] = @ - 1]
  /\ IF refcount[f] > 1
     THEN UNCHANGED <<freelist, mem>>
     ELSE /\ mem' = [mem EXCEPT ![f] = Junk]
          /\ freelist' = freelist \cup {f}

\* kaddref() without the increment.
kaddref_lost(f) == UNCHANGED kmem

kaddref(f) ==
  /\ refcount[f] >= 1
  /\ refcount' = [refcount EXCEPT ![f] = @ + 1]
  /\ UNCHANGED <<freelist, mem>>

----------------------------------------------------------------------------
(* Page-table helpers of kernel/vm.c *)

\* uvmunmap() with do_free = 0.
Unmap_nofree(s) ==
  /\ pt[s].V
  /\ pt' = [pt EXCEPT ![s] = NoPte]
  /\ UNCHANGED kmem

\* One iteration of uvmunmap(pagetable, va, npages, 1) on a valid entry.
Unmap(s) ==
  /\ pt[s].V
  /\ kfree(pt[s].pa)
  /\ pt' = [pt EXCEPT ![s] = NoPte]

\* uvmalloc() of one page: kalloc, memset, mappages; the caller loads contents.
Alloc(s, x, w, u) ==
  \E f \in freelist :
    /\ kalloc(f, x)
    /\ pt' = [pt EXCEPT ![s] = MkPte(f, w, u, FALSE)]

\* kexit(): the address space stays until kwait() frees it; init may not exit.
Kexit(p) ==
  Goto(p, IF p = initproc THEN "panic" ELSE "zombie")

----------------------------------------------------------------------------
(* Loads, stores and page faults: the hardware, usertrap, vmfault, copyout *)

\* A store the page table permits.
Store(p, v, x) ==
  /\ pc[p] = "user"
  /\ pt[Cur(p, v)].V /\ pt[Cur(p, v)].U /\ pt[Cur(p, v)].W
  /\ mem' = [mem EXCEPT ![pt[Cur(p, v)].pa] = x]
  /\ UNCHANGED <<freelist, refcount, pt, cur, sz, pc, locals>>

\* vmfault() without memset(mem, 0, PGSIZE).
Vmfault_dirty(p, v) ==
  /\ v < sz[p] /\ ~pt[Cur(p, v)].V
  /\ Alloc(Cur(p, v), Junk, TRUE, TRUE)

\* vmfault() that succeeds: v is below p->sz and has no page, and gets a zeroed one.
Vmfault(p, v) ==
  /\ v < sz[p] /\ ~pt[Cur(p, v)].V
  /\ Alloc(Cur(p, v), Zero, TRUE, TRUE)

\* A load or store of an invalid entry traps: usertrap() tries vmfault(), which
\* fails for va >= p->sz, without a page or without a page-table page; then it
\* kills.
LazyFault(p, v) ==
  /\ pc[p] = "user"
  /\ ~pt[Cur(p, v)].V
  /\ \/ Vmfault(p, v) /\ UNCHANGED pc
     \/ Kexit(p) /\ UNCHANGED <<kmem, pt>>
  /\ UNCHANGED <<cur, sz, locals>>

\* copyin() of a system call reads a page that is not there yet: the same
\* vmfault(), but a failure is only an error of the call.
copyin(p, v) ==
  /\ pc[p] = "user"
  /\ Vmfault(p, v)
  /\ UNCHANGED <<pc, cur, sz, locals>>

\* An access the entry forbids for good: no PTE_U, or a store to text.
ProtectionFault(p, v) ==
  /\ pc[p] = "user"
  /\ pt[Cur(p, v)].V
  /\ ~pt[Cur(p, v)].U \/ (~pt[Cur(p, v)].W /\ ~pt[Cur(p, v)].COW)
  /\ Kexit(p)
  /\ UNCHANGED <<kmem, pt, cur, sz, locals>>

\* Store page fault on a copy-on-write page: usertrap() calls cowfault().
CowTrap(p, v) ==
  /\ pc[p] = "user"
  /\ pt[Cur(p, v)].V /\ pt[Cur(p, v)].U /\ ~pt[Cur(p, v)].W /\ pt[Cur(p, v)].COW
  /\ Goto(p, "cow_ref")
  /\ va' = [va EXCEPT ![p] = v]
  /\ UNCHANGED <<kmem, pt, cur, sz, lim, val, held, child>>

\* A system call hands the process data: copyout(p->pagetable, v, x).
CopyoutCall(p, v, x) ==
  /\ pc[p] = "user" /\ "read" \in Syscalls[p]
  /\ Goto(p, "copyout")
  /\ va' = [va EXCEPT ![p] = v]
  /\ val' = [val EXCEPT ![p] = x]
  /\ UNCHANGED <<kmem, pt, cur, sz, lim, held, child>>

\* copyout() leaves its loop; -1 and 0 look alike to memory.
EndCopyout(p) ==
  /\ Goto(p, "user")
  /\ va' = [va EXCEPT ![p] = 0]
  /\ val' = [val EXCEPT ![p] = NoVal]

\* copyout() without the copy-on-write case: it writes through a shared page.
Copyout_nocow(p) ==
  LET s == Cur(p, va[p]) IN
  /\ pc[p] = "copyout"
  /\ mem' = IF pt[s].V /\ pt[s].U THEN [mem EXCEPT ![pt[s].pa] = val[p]] ELSE mem
  /\ EndCopyout(p)
  /\ UNCHANGED <<freelist, refcount, pt, cur, sz, lim, held, child>>

\* copyout(): one page, up to the memmove or to the call of cowfault().
Copyout(p) ==
  LET s == Cur(p, va[p]) IN
  /\ pc[p] = "copyout"
  /\ \/ Vmfault(p, va[p]) /\ UNCHANGED <<pc, va, val>>
     \/ /\ ~pt[s].V \/ ~pt[s].U                        \* vmfault() returned 0
        /\ EndCopyout(p)
        /\ UNCHANGED <<kmem, pt>>
     \/ /\ pt[s].V /\ pt[s].U /\ pt[s].COW
        /\ Goto(p, "cow_ref")
        /\ UNCHANGED <<kmem, pt, va, val>>
     \/ /\ pt[s].V /\ pt[s].U /\ ~pt[s].COW
        /\ mem' = IF pt[s].W THEN [mem EXCEPT ![pt[s].pa] = val[p]] ELSE mem
        /\ EndCopyout(p)
        /\ UNCHANGED <<freelist, refcount, pt>>
  /\ UNCHANGED <<cur, sz, lim, held, child>>

----------------------------------------------------------------------------
(* cowfault(), one step per access that other processes can observe *)

\* cowfault() is done: the trap retries the store, copyout() goes on.
CowReturn(p) ==
  IF val[p] = NoVal
  THEN Goto(p, "user") /\ va' = [va EXCEPT ![p] = 0]
  ELSE Goto(p, "copyout") /\ UNCHANGED va

\* cowfault() that counts one reference too many as its own.
CowRef_offbyone(p) ==
  /\ pc[p] = "cow_ref"
  /\ Goto(p, IF refcount[pt[Cur(p, va[p])].pa] <= 2 THEN "cow_own" ELSE "cow_alloc")
  /\ UNCHANGED <<kmem, pt, cur, sz, locals>>

\* kgetref(): decides between the two ways, and is not looked at again.
CowRef(p) ==
  /\ pc[p] = "cow_ref"
  /\ Goto(p, IF refcount[pt[Cur(p, va[p])].pa] = 1 THEN "cow_own" ELSE "cow_alloc")
  /\ UNCHANGED <<kmem, pt, cur, sz, locals>>

\* Sole owner: give write permission back in place.
CowOwn(p) ==
  LET s == Cur(p, va[p]) IN
  /\ pc[p] = "cow_own"
  /\ pt' = [pt EXCEPT ![s] = MkPte(@.pa, TRUE, @.U, FALSE)]
  /\ CowReturn(p)
  /\ UNCHANGED <<kmem, cur, sz, lim, val, held, child>>

\* kalloc() of the private copy.  Out of memory kills (trap) or fails (copyout).
CowAlloc(p) ==
  /\ pc[p] = "cow_alloc"
  /\ \/ \E f \in freelist :
          /\ kalloc(f, Junk)
          /\ held' = [held EXCEPT ![p] = f]
          /\ Goto(p, "cow_copy")
          /\ UNCHANGED <<va, val>>
     \/ /\ freelist = {}
        /\ IF val[p] = NoVal THEN Kexit(p) /\ va' = [va EXCEPT ![p] = 0] /\ UNCHANGED val
                             ELSE EndCopyout(p)
        /\ UNCHANGED <<kmem, held>>
  /\ UNCHANGED <<pt, cur, sz, lim, child>>

\* memmove(mem, pa, PGSIZE)
CowCopy(p) ==
  /\ pc[p] = "cow_copy"
  /\ mem' = [mem EXCEPT ![held[p]] = mem[pt[Cur(p, va[p])].pa]]
  /\ Goto(p, "cow_map")
  /\ UNCHANGED <<freelist, refcount, pt, cur, sz, locals>>

\* *pte = PA2PTE(mem) | flags: the old page is now only in the local variable pa.
CowMap(p) ==
  LET s == Cur(p, va[p]) IN
  /\ pc[p] = "cow_map"
  /\ pt' = [pt EXCEPT ![s] = MkPte(held[p], TRUE, pt[s].U, FALSE)]
  /\ held' = [held EXCEPT ![p] = pt[s].pa]
  /\ Goto(p, "cow_free")
  /\ UNCHANGED <<kmem, cur, sz, va, lim, val, child>>

\* kfree(pa): drop this process's reference to the shared page.
CowFree(p) ==
  /\ pc[p] = "cow_free"
  /\ kfree(held[p])
  /\ held' = [held EXCEPT ![p] = NoFrame]
  /\ CowReturn(p)
  /\ UNCHANGED <<pt, cur, sz, lim, val, child>>

----------------------------------------------------------------------------
(* kfork() and uvmcopy() *)

\* allocproc() found slot c; when it fails, kfork() returns -1 and nothing changed.
ForkCall(p, c) ==
  /\ pc[p] = "user" /\ pc[c] = "unused" /\ "fork" \in Syscalls[p]
  /\ pc' = [pc EXCEPT ![p] = "copy", ![c] = "used"]
  /\ child' = [child EXCEPT ![p] = c]
  /\ va' = [va EXCEPT ![p] = 0]
  /\ UNCHANGED <<kmem, pt, cur, sz, lim, val, held>>

\* uvmcopy() that sets PTE_COW and leaves PTE_W.
Shared_writable(e) == MkPte(e.pa, e.W, e.U, e.W \/ e.COW)

\* The entry uvmcopy() gives to parent and child: PTE_W becomes PTE_COW.
Shared(e) == MkPte(e.pa, FALSE, e.U, e.W \/ e.COW)

\* uvmcopy() that forgets to write the parent's entry back.
CopyPage_childonly(p) ==
  LET s == Cur(p, va[p])  c == child[p] IN
  /\ pc[p] = "copy" /\ va[p] < sz[p]
  /\ IF pt[s].V
     THEN /\ pt' = [pt EXCEPT ![Cur(c, va[p])] = Shared(pt[s])]
          /\ Goto(p, "addref") /\ UNCHANGED va
     ELSE va' = [va EXCEPT ![p] = @ + 1] /\ UNCHANGED <<pt, pc>>
  /\ UNCHANGED <<kmem, cur, sz, lim, val, held, child>>

\* One iteration of the loop of uvmcopy(), up to mappages().
CopyPage(p) ==
  LET s == Cur(p, va[p])  c == child[p] IN
  /\ pc[p] = "copy" /\ va[p] < sz[p]
  /\ \/ /\ ~pt[s].V
        /\ va' = [va EXCEPT ![p] = @ + 1]
        /\ UNCHANGED <<pt, pc>>
     \/ /\ pt[s].V
        /\ pt' = [pt EXCEPT ![s] = Shared(@), ![Cur(c, va[p])] = Shared(pt[s])]
        /\ Goto(p, "addref")
        /\ UNCHANGED va
     \/ /\ pt[s].V                                   \* mappages() fails: goto err
        /\ pt' = [pt EXCEPT ![s] = Shared(@)]
        /\ Goto(p, "undo")
        /\ UNCHANGED va
  /\ UNCHANGED <<kmem, cur, sz, lim, val, held, child>>

\* kaddref() for the entry just made; until then the child's entry is uncounted.
AddRef(p) ==
  /\ pc[p] = "addref"
  /\ kaddref(pt[Cur(p, va[p])].pa)
  /\ va' = [va EXCEPT ![p] = @ + 1]
  /\ Goto(p, "copy")
  /\ UNCHANGED <<pt, cur, sz, lim, val, held, child>>

\* uvmcopy() returned 0: np->sz, registers, ... , np->state = RUNNABLE.
ForkDone(p) ==
  LET c == child[p] IN
  /\ pc[p] = "copy" /\ va[p] >= sz[p]
  /\ sz' = [sz EXCEPT ![c] = sz[p]]
  /\ pc' = [pc EXCEPT ![p] = "user", ![c] = "user"]
  /\ va' = [va EXCEPT ![p] = 0]
  /\ child' = [child EXCEPT ![p] = NoProc]
  /\ UNCHANGED <<kmem, pt, cur, lim, val, held>>

\* err: uvmunmap(new, 0, i / PGSIZE, 1), then freeproc(np).
ForkUndo(p) ==
  LET c == child[p] IN
  /\ pc[p] = "undo"
  /\ \/ /\ \E v \in 0 .. va[p] - 1 : Unmap(Cur(c, v))
        /\ UNCHANGED <<pc, va, child>>
     \/ /\ \A v \in 0 .. va[p] - 1 : ~pt[Cur(c, v)].V
        /\ pc' = [pc EXCEPT ![p] = "user", ![c] = "unused"]
        /\ va' = [va EXCEPT ![p] = 0]
        /\ child' = [child EXCEPT ![p] = NoProc]
        /\ UNCHANGED <<kmem, pt>>
  /\ UNCHANGED <<cur, sz, lim, val, held>>

----------------------------------------------------------------------------
(* kexit() and the freeproc() of kwait() *)

ExitCall(p) ==
  /\ pc[p] = "user" /\ "exit" \in Syscalls[p]
  /\ Kexit(p)
  /\ UNCHANGED <<kmem, pt, cur, sz, locals>>

\* proc_freepagetable(p->pagetable, p->sz): uvmunmap below sz, then the slot is free.
FreeProc(p) ==
  /\ pc[p] = "zombie"
  /\ \/ /\ \E v \in 0 .. sz[p] - 1 : Unmap(Cur(p, v))
        /\ UNCHANGED <<pc, sz>>
     \/ /\ \A v \in 0 .. sz[p] - 1 : ~pt[Cur(p, v)].V
        /\ Goto(p, "unused")
        /\ sz' = [sz EXCEPT ![p] = 0]
        /\ UNCHANGED <<kmem, pt>>
  /\ UNCHANGED <<cur, locals>>

----------------------------------------------------------------------------
(* sys_sbrk() and growproc() *)

SbrkLazy(p, n) ==
  /\ pc[p] = "user" /\ n > sz[p] /\ "sbrk" \in Syscalls[p]
  /\ sz' = [sz EXCEPT ![p] = n]
  /\ UNCHANGED <<kmem, pt, cur, pc, locals>>

\* growproc(): uvmalloc() for n above the size, uvmdealloc() for n below it.
SbrkEager(p, n) ==
  /\ pc[p] = "user" /\ n # sz[p] /\ "sbrk" \in Syscalls[p]
  /\ Goto(p, IF n > sz[p] THEN "grow" ELSE "shrink")
  /\ va' = [va EXCEPT ![p] = sz[p]]
  /\ lim' = [lim EXCEPT ![p] = n]
  /\ UNCHANGED <<kmem, pt, cur, sz, val, held, child>>

\* growproc() returns with p->sz = n.
GrowprocReturn(p, n) ==
  /\ Goto(p, "user")
  /\ sz' = [sz EXCEPT ![p] = n]
  /\ va' = [va EXCEPT ![p] = 0]
  /\ lim' = [lim EXCEPT ![p] = 0]

\* The loop of uvmalloc(); a kalloc or mappages failure turns back.
Grow(p) ==
  /\ pc[p] = "grow"
  /\ \/ /\ va[p] < lim[p]
        /\ ~pt[Cur(p, va[p])].V                      \* else panic("mappages: remap")
        /\ Alloc(Cur(p, va[p]), Zero, TRUE, TRUE)
        /\ va' = [va EXCEPT ![p] = @ + 1]
        /\ UNCHANGED <<sz, pc, lim>>
     \/ /\ va[p] < lim[p]
        /\ Goto(p, "ungrow")
        /\ UNCHANGED <<kmem, pt, sz, va, lim>>
     \/ /\ va[p] = lim[p]
        /\ GrowprocReturn(p, lim[p])
        /\ UNCHANGED <<kmem, pt>>
  /\ UNCHANGED <<cur, val, held, child>>

\* uvmalloc() that returns 0 and leaves the pages it has mapped.
Ungrow_none(p) ==
  /\ pc[p] = "ungrow"
  /\ GrowprocReturn(p, sz[p])
  /\ UNCHANGED <<kmem, pt, cur, val, held, child>>

\* uvmdealloc(pagetable, a, oldsz) on uvmalloc()'s error path; p->sz stays.
Ungrow(p) ==
  /\ pc[p] = "ungrow"
  /\ \/ /\ \E v \in sz[p] .. va[p] - 1 : Unmap(Cur(p, v))
        /\ UNCHANGED <<sz, pc, va, lim>>
     \/ /\ \A v \in sz[p] .. va[p] - 1 : ~pt[Cur(p, v)].V
        /\ GrowprocReturn(p, sz[p])
        /\ UNCHANGED <<kmem, pt>>
  /\ UNCHANGED <<cur, val, held, child>>

\* uvmdealloc(pagetable, sz, newsz), then p->sz = newsz.
Shrink(p) ==
  /\ pc[p] = "shrink"
  /\ \/ /\ \E v \in lim[p] .. sz[p] - 1 : Unmap(Cur(p, v))
        /\ UNCHANGED <<sz, pc, va, lim>>
     \/ /\ \A v \in lim[p] .. sz[p] - 1 : ~pt[Cur(p, v)].V
        /\ GrowprocReturn(p, lim[p])
        /\ UNCHANGED <<kmem, pt>>
  /\ UNCHANGED <<cur, val, held, child>>

----------------------------------------------------------------------------
(* kexec() *)

ExecCall(p) ==
  /\ pc[p] = "user" /\ "exec" \in Syscalls[p]
  /\ Goto(p, "load")
  /\ va' = [va EXCEPT ![p] = 0]
  /\ UNCHANGED <<kmem, pt, cur, sz, lim, val, held, child>>

\* One page of the image: uvmalloc and loadseg, uvmclear or copyout to the stack.
Load(p) ==
  LET i == va[p] + 1 IN
  /\ pc[p] = "load" /\ i <= Len(Image)
  /\ \/ /\ ~pt[Alt(p, va[p])].V                      \* else panic("mappages: remap")
        /\ Alloc(Alt(p, va[p]), Image[i].val, Image[i].W, Image[i].U)
        /\ va' = [va EXCEPT ![p] = i]
        /\ UNCHANGED pc
     \/ /\ Goto(p, "bad")
        /\ UNCHANGED <<kmem, pt, va>>
  /\ UNCHANGED <<cur, sz, lim, val, held, child>>

\* kexec() that forgets p->sz = sz.
ExecCommit_oldsz(p) ==
  /\ pc[p] = "load" /\ va[p] = Len(Image)
  /\ cur' = [cur EXCEPT ![p] = 1 - @]
  /\ lim' = [lim EXCEPT ![p] = sz[p]]
  /\ Goto(p, "freeold")
  /\ UNCHANGED <<kmem, pt, sz, va, val, held, child>>

\* Commit to the user image.  lim keeps oldsz.
ExecCommit(p) ==
  /\ pc[p] = "load" /\ va[p] = Len(Image)
  /\ cur' = [cur EXCEPT ![p] = 1 - @]
  /\ sz' = [sz EXCEPT ![p] = Len(Image)]
  /\ lim' = [lim EXCEPT ![p] = sz[p]]
  /\ Goto(p, "freeold")
  /\ UNCHANGED <<kmem, pt, va, val, held, child>>

\* kexec() that returns -1 without proc_freepagetable().
FreeTable_leak(p) ==
  /\ pc[p] \in {"freeold", "bad"}
  /\ Goto(p, IF p = initproc /\ sz[p] = 0 THEN "panic" ELSE "user")
  /\ va' = [va EXCEPT ![p] = 0]
  /\ lim' = [lim EXCEPT ![p] = 0]
  /\ UNCHANGED <<kmem, pt, cur, sz, val, held, child>>

\* proc_freepagetable() of the table that is no longer wanted: below oldsz after
\* a commit, below sz of the half-built image on the way out through bad.
FreeTable(p) ==
  LET n == IF pc[p] = "freeold" THEN lim[p] ELSE va[p] IN
  /\ pc[p] \in {"freeold", "bad"}
  /\ \/ /\ \E v \in 0 .. n - 1 : Unmap(Alt(p, v))
        /\ UNCHANGED <<pc, va, lim>>
     \/ /\ \A v \in 0 .. n - 1 : ~pt[Alt(p, v)].V
        /\ \* forkret() panics when the first exec of all fails
           Goto(p, IF p = initproc /\ sz[p] = 0 THEN "panic" ELSE "user")
        /\ va' = [va EXCEPT ![p] = 0]
        /\ lim' = [lim EXCEPT ![p] = 0]
        /\ UNCHANGED <<kmem, pt>>
  /\ UNCHANGED <<cur, sz, val, held, child>>

----------------------------------------------------------------------------
(* kinit() and userinit(); forkret() makes the first process call kexec(). *)
Init ==
  /\ freelist = Frame
  /\ refcount = [f \in Frame |-> 0]
  /\ mem = [f \in Frame |-> Junk]
  /\ pt = [s \in Slot |-> NoPte]
  /\ cur = [p \in Proc |-> 0]
  /\ sz = [p \in Proc |-> 0]
  /\ pc = [p \in Proc |-> IF p = initproc THEN "load" ELSE "unused"]
  /\ va = [p \in Proc |-> 0]
  /\ lim = [p \in Proc |-> 0]
  /\ val = [p \in Proc |-> NoVal]
  /\ held = [p \in Proc |-> NoFrame]
  /\ child = [p \in Proc |-> NoProc]

Access(p) == \E v \in VPage :
  \/ \E x \in Value : Store(p, v, x) \/ CopyoutCall(p, v, x)
  \/ LazyFault(p, v) \/ copyin(p, v)
  \/ ProtectionFault(p, v)
  \/ CowTrap(p, v)

Cowfault(p) ==
  CowRef(p) \/ CowOwn(p) \/ CowAlloc(p) \/ CowCopy(p) \/ CowMap(p) \/ CowFree(p)

Fork(p) ==
  \/ \E c \in Proc : ForkCall(p, c)
  \/ CopyPage(p) \/ AddRef(p) \/ ForkDone(p) \/ ForkUndo(p)

Sbrk(p) ==
  \/ \E n \in 0 .. NPages : SbrkLazy(p, n) \/ SbrkEager(p, n)
  \/ Grow(p) \/ Ungrow(p) \/ Shrink(p)

Exec(p) == ExecCall(p) \/ Load(p) \/ ExecCommit(p) \/ FreeTable(p)

Next == \E p \in Proc :
  Access(p) \/ Copyout(p) \/ Cowfault(p) \/ Fork(p) \/ ExitCall(p) \/ FreeProc(p)
    \/ Sbrk(p) \/ Exec(p)

Spec == Init /\ [][Next]_vars

----------------------------------------------------------------------------
(* Properties *)

KernelPath == {"copyout", "cow_ref", "cow_own", "cow_alloc", "cow_copy", "cow_map",
               "cow_free", "copy", "addref", "undo", "grow", "ungrow", "shrink",
               "load", "bad", "freeold"}

Label == KernelPath \cup {"unused", "used", "user", "zombie", "panic"}

KmemOK ==
  /\ freelist \subseteq Frame
  /\ refcount \in [Frame -> Nat]
  /\ mem \in [Frame -> Value \cup {Junk}]

PtOK ==
  /\ pt \in [Slot -> Pte]
  /\ \A s \in Slot : (pt[s].V => pt[s].pa \in Frame) /\ (pt[s].COW => ~pt[s].W)

LocalsOK ==
  /\ cur \in [Proc -> {0, 1}]
  /\ sz \in [Proc -> 0 .. NPages]
  /\ va \in [Proc -> 0 .. NPages]
  /\ lim \in [Proc -> 0 .. NPages]
  /\ val \in [Proc -> Value \cup {NoVal}]
  /\ held \in [Proc -> Frame \cup {NoFrame}]
  /\ child \in [Proc -> Proc \cup {NoProc}]

\* Types of the state; a valid page-table entry names a physical page, and no entry
\* has both PTE_W and PTE_COW.
TypeOK == KmemOK /\ PtOK /\ LocalsOK /\ pc \in [Proc -> Label]

Maps(s, f) == pt[s].V /\ pt[s].pa = f

\* The entry uvmcopy() has made for the child and not yet counted with kaddref().
Uncounted(s) == \E p \in Proc :
  /\ pc[p] = "addref"
  /\ s = Cur(child[p], va[p])

Mappings(f) == {s \in Slot : Maps(s, f) /\ ~Uncounted(s)}
Holders(f) == {p \in Proc : held[p] = f}

\* refcount[] of kalloc.c counts exactly the page-table entries that name the
\* page (but for the one uvmcopy() is about to count) and the cowfault() calls
\* that hold it; the page is on the free list exactly when the count is zero.
\* So no page is leaked, freed twice, or freed while something still uses it,
\* whatever forks, faults, exits, execs and failures run concurrently.
RefcountExact ==
  \A f \in Frame :
    /\ refcount[f] = Cardinality(Mappings(f)) + Cardinality(Holders(f))
    /\ f \in freelist <=> refcount[f] = 0

\* A page that some entry may write through is in no other page table: uvmcopy()
\* takes PTE_W away from both sides, and cowfault() gives it back only to a sole
\* owner, although kgetref() has released kmem.lock by then.
WritableIsPrivate ==
  \A s, t \in Slot :
    s # t /\ pt[s].V /\ pt[t].V /\ pt[s].pa = pt[t].pa => ~pt[s].W

\* The entries of p's tables lie in the range that their teardown covers.
TablesFit(p) ==
  \A v \in VPage :
    /\ pt[Cur(p, v)].V =>
         \/ v < sz[p]
         \/ pc[p] \in {"grow", "ungrow"} /\ v < va[p]
         \/ pc[p] = "used" /\ \E q \in Proc :
              child[q] = p /\ (v < va[q] \/ (v = va[q] /\ pc[q] = "addref"))
    /\ pt[Alt(p, v)].V =>
         \/ pc[p] \in {"load", "bad"} /\ v < va[p]
         \/ pc[p] = "freeold" /\ v < lim[p]

\* A page table is torn down by unmapping what lies below the size recorded for
\* it, and freewalk() panics ("freewalk: leaf") on anything left over.  Entries
\* never lie outside that range: not after a partly failed uvmalloc(), uvmcopy()
\* or kexec(), nor after lazy growth and shrinking.
TablesFitSize == \A p \in Proc : TablesFit(p)

\* The page that uvmalloc(), kexec() or uvmcopy() is about to map is not mapped:
\* panic("mappages: remap") is unreachable.
NoRemap ==
  \A p \in Proc :
    /\ pc[p] = "grow" /\ va[p] < lim[p] => ~pt[Cur(p, va[p])].V
    /\ pc[p] = "load" /\ va[p] < Len(Image) => ~pt[Alt(p, va[p])].V
    /\ pc[p] = "copy" /\ va[p] < sz[p] => ~pt[Cur(child[p], va[p])].V

Forking == {"copy", "addref", "undo"}
Holding == {"cow_copy", "cow_map", "cow_free"}

\* What holds along kfork(): the child's slot is reserved and belongs to one parent;
\* when an entry has been copied and not yet counted, both sides are read-only.
ForkOK(p) ==
  /\ IF pc[p] \in Forking THEN child[p] \in Proc /\ pc[child[p]] = "used"
                          ELSE child[p] = NoProc
  /\ \A q \in Proc : p # q /\ child[p] \in Proc => child[p] # child[q]
  /\ pc[p] \in {"unused", "used"} => sz[p] = 0
  /\ pc[p] \in Forking => va[p] <= sz[p]
  /\ pc[p] = "addref" =>
       LET s == Cur(p, va[p])  t == Cur(child[p], va[p]) IN
       /\ va[p] < sz[p]
       /\ pt[s].V /\ pt[t].V /\ pt[s].pa = pt[t].pa
       /\ ~pt[s].W /\ ~pt[t].W

\* What holds along cowfault(): the faulting entry stays valid and read-only until
\* it is rewritten, a count of 1 read with kgetref() stays 1, and the page that
\* kalloc() returned is nobody else's.
CowOK(p) ==
  LET s == Cur(p, va[p]) IN
  /\ pc[p] \in {"copyout", "cow_ref", "cow_own", "cow_alloc"} \cup Holding => va[p] \in VPage
  /\ pc[p] \in {"cow_ref", "cow_own", "cow_alloc", "cow_copy", "cow_map"} => pt[s].V /\ ~pt[s].W
  /\ pc[p] = "cow_own" => refcount[pt[s].pa] = 1
  /\ held[p] \in Frame <=> pc[p] \in Holding
  /\ pc[p] \in {"cow_copy", "cow_map"} =>
       /\ \A t \in Slot : ~Maps(t, held[p])
       /\ \A q \in Proc : p # q => held[q] # held[p]

\* uvmalloc() works above the old size.
GrowOK(p) == pc[p] \in {"grow", "ungrow"} => sz[p] <= va[p] /\ va[p] <= lim[p]

\* The inductive invariant behind RefcountExact, WritableIsPrivate and TablesFitSize.
IndInv ==
  /\ TypeOK /\ RefcountExact /\ WritableIsPrivate /\ TablesFitSize
  /\ \A p \in Proc : ForkOK(p) /\ CowOK(p) /\ GrowOK(p)

(* Refinement: the memory each process sees. *)
Gone == {"unused", "used", "zombie", "panic"}
Live == {p \in Proc : pc[p] \notin Gone}

\* growproc() gives memory up from the moment it starts to shrink.
SeenSize(p) == IF pc[p] = "shrink" THEN lim[p] ELSE sz[p]

SeenCell(p, v) ==
  LET e == pt[Cur(p, v)] IN
  IF pc[p] \in Gone \/ v >= SeenSize(p)
  THEN [ok |-> FALSE, val |-> Zero, W |-> FALSE, U |-> FALSE]
  ELSE IF e.V THEN [ok |-> TRUE, val |-> mem[e.pa], W |-> e.W \/ e.COW, U |-> e.U]
              ELSE [ok |-> TRUE, val |-> Zero, W |-> TRUE, U |-> TRUE]

Private == INSTANCE PrivateMemory WITH
  live <- Live,
  memory <- [p \in Proc |-> [v \in VPage |-> SeenCell(p, v)]]

\* Copy-on-write is invisible: with shared pages, lazily allocated pages and
\* concurrent faults, every process sees what it would see if fork() copied the
\* whole memory at once (uvmcopy, cowfault, vmfault, copyout, kexec, growproc).
CowIsPrivateMemory == Private!ASpec
=============================================================================
