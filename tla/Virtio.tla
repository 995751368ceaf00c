------------------------------- MODULE Virtio -------------------------------
(***************************************************************************)
(* The disk driver, kernel/virtio_disk.c: descriptor allocation, the avail *)
(* and used rings shared with the device, and the completion interrupt.    *)
(* disk.vdisk_lock is held from its acquisition to the next sleep() or to  *)
(* the return, so that stretch of virtio_disk_rw() is one step; the device *)
(* runs concurrently with the interrupt handler and is modelled from how   *)
(* the driver uses it.                                                     *)
(***************************************************************************)
EXTENDS Integers, FiniteSets

CONSTANTS
  Proc,       \* processes, each with the one buffer it reads or writes
  None,
  NUM,        \* descriptors and ring entries (8)
  IdxMod      \* 2^16: avail->idx, used->idx and used_idx wrap, a multiple of NUM

ASSUME VirtioAssumption ==
  /\ NUM \in Nat /\ NUM >= 3 /\ None \notin Proc \cup 0 .. NUM - 1
  /\ IdxMod \in Nat /\ IdxMod > NUM /\ IdxMod % NUM = 0

Desc == 0 .. NUM - 1

VARIABLES
  free,                    \* disk.free[]
  next, addr,              \* disk.desc[]: next (itself: no VRING_DESC_F_NEXT), buffer
  info,                    \* disk.info[].b
  avail, avail_idx,        \* ring written by the driver; None once the device has read it
  used, used_dev,          \* ring written by the device, with used->idx; None once read
  used_idx,                \* disk.used_idx
  irq,                     \* the device requests an interrupt
  intr,                    \* virtio_disk_intr() is running (and holds vdisk_lock)
  pc,                      \* "idle", "alloc", "nodesc" (asleep), "issued" (asleep), "woken"
  bdisk,                   \* b->disk
  head,                    \* idx[0]
  dev_idx, active,         \* device: how far it has read avail; requests it works on
  served                   \* history: the device has done the current request of the buffer

driver == <<free, next, addr, info, avail, avail_idx, pc, bdisk, head>>
device == <<used, used_dev, dev_idx, active>>
vars == <<free, next, addr, info, avail, avail_idx, used, used_dev, used_idx, irq, intr, pc, bdisk,
          head, dev_idx, active, served>>

Lowest(S) == CHOOSE i \in S : \A j \in S : i <= j

\* The descriptors of the chain that starts at h.
Chain(h) == {h, next[h], next[next[h]]}

Wake(from, p, l) ==
  pc' = [q \in Proc |-> IF q = p THEN l
                        ELSE IF pc[q] = from THEN "alloc" ELSE pc[q]]

----------------------------------------------------------------------------
(* virtio_disk_rw() *)

Call(p) ==
  /\ pc[p] = "idle"
  /\ pc' = [pc EXCEPT ![p] = "alloc"]
  /\ UNCHANGED <<free, next, addr, info, avail, avail_idx, bdisk, head, device, used_idx, irq, intr, served>>

\* alloc3_desc() fails.  Undoing a partial allocation wakes the other sleepers,
\* as free_desc() always does.
AllocFails(p) ==
  /\ ~intr /\ pc[p] = "alloc" /\ Cardinality(free) < 3
  /\ IF free = {} THEN pc' = [pc EXCEPT ![p] = "nodesc"] ELSE Wake("nodesc", p, "nodesc")
  /\ UNCHANGED <<free, next, addr, info, avail, avail_idx, bdisk, head, device, used_idx, irq, intr, served>>

\* A request that makes do with two descriptors and has no place for its status.
Issue_two(p) ==
  LET i == Lowest(free)
      j == Lowest(free \ {i})
  IN
  /\ ~intr /\ pc[p] = "alloc" /\ Cardinality(free) >= 2
  /\ free' = free \ {i, j}
  /\ next' = [next EXCEPT ![i] = j, ![j] = i]
  /\ addr' = [addr EXCEPT ![j] = p]
  /\ info' = [info EXCEPT ![i] = p]
  /\ avail' = [avail EXCEPT ![avail_idx % NUM] = i]
  /\ avail_idx' = (avail_idx + 1) % IdxMod
  /\ bdisk' = [bdisk EXCEPT ![p] = TRUE]
  /\ head' = [head EXCEPT ![p] = i]
  /\ served' = [served EXCEPT ![p] = FALSE]
  /\ pc' = [pc EXCEPT ![p] = "issued"]
  /\ UNCHANGED <<device, used_idx, irq, intr>>

\* Three descriptors, the ring entry, avail->idx, the notification, and sleep().
Issue(p) ==
  LET i == Lowest(free)
      j == Lowest(free \ {i})
      k == Lowest(free \ {i, j})
  IN
  /\ ~intr /\ pc[p] = "alloc" /\ Cardinality(free) >= 3
  /\ free' = free \ {i, j, k}
  /\ next' = [next EXCEPT ![i] = j, ![j] = k, ![k] = k]
  /\ addr' = [addr EXCEPT ![j] = p]
  /\ info' = [info EXCEPT ![i] = p]
  /\ avail' = [avail EXCEPT ![avail_idx % NUM] = i]
  /\ avail_idx' = (avail_idx + 1) % IdxMod
  /\ bdisk' = [bdisk EXCEPT ![p] = TRUE]
  /\ head' = [head EXCEPT ![p] = i]
  /\ served' = [served EXCEPT ![p] = FALSE]
  /\ pc' = [pc EXCEPT ![p] = "issued"]
  /\ UNCHANGED <<device, used_idx, irq, intr>>

\* free_chain() that wakes nobody.
Finish_quiet(p) ==
  LET C == Chain(head[p]) IN
  /\ ~intr /\ pc[p] = "woken" /\ ~bdisk[p]
  /\ free' = free \cup C
  /\ next' = [i \in Desc |-> IF i \in C THEN i ELSE next[i]]
  /\ addr' = [i \in Desc |-> IF i \in C THEN None ELSE addr[i]]
  /\ info' = [info EXCEPT ![head[p]] = None]
  /\ head' = [head EXCEPT ![p] = None]
  /\ pc' = [pc EXCEPT ![p] = "idle"]
  /\ UNCHANGED <<avail, avail_idx, bdisk, device, used_idx, irq, intr, served>>

\* free_chain() and return, once b->disk is 0.
Finish(p) ==
  LET C == Chain(head[p]) IN
  /\ ~intr /\ pc[p] = "woken" /\ ~bdisk[p]
  /\ free' = free \cup C
  /\ next' = [i \in Desc |-> IF i \in C THEN i ELSE next[i]]
  /\ addr' = [i \in Desc |-> IF i \in C THEN None ELSE addr[i]]
  /\ info' = [info EXCEPT ![head[p]] = None]
  /\ head' = [head EXCEPT ![p] = None]
  /\ Wake("nodesc", p, "idle")
  /\ UNCHANGED <<avail, avail_idx, bdisk, device, used_idx, irq, intr, served>>

----------------------------------------------------------------------------
(* virtio_disk_intr() *)

\* Acknowledge first, then look at the used ring.
IntrStart ==
  /\ irq /\ ~intr
  /\ intr' = TRUE
  /\ irq' = FALSE
  /\ UNCHANGED <<driver, device, used_idx, served>>

\* The position in the used ring taken for the request's id.
IntrEntry_position ==
  LET p == info[used_idx % NUM] IN
  /\ intr /\ used_idx # used_dev
  /\ bdisk' = [q \in Proc |-> bdisk[q] /\ q # p]
  /\ pc' = [q \in Proc |-> IF q = p /\ pc[q] = "issued" THEN "woken" ELSE pc[q]]
  /\ used_idx' = (used_idx + 1) % IdxMod
  /\ used' = [used EXCEPT ![used_idx % NUM] = None]
  /\ UNCHANGED <<free, next, addr, info, avail, avail_idx, head, used_dev, dev_idx, active, irq, intr, served>>

\* One entry of the used ring.
IntrEntry ==
  LET p == info[used[used_idx % NUM]] IN
  /\ intr /\ used_idx # used_dev
  /\ bdisk' = [bdisk EXCEPT ![p] = FALSE]
  /\ pc' = [pc EXCEPT ![p] = IF @ = "issued" THEN "woken" ELSE @]
  /\ used_idx' = (used_idx + 1) % IdxMod
  /\ used' = [used EXCEPT ![used_idx % NUM] = None]
  /\ UNCHANGED <<free, next, addr, info, avail, avail_idx, head, used_dev, dev_idx, active, irq, intr, served>>

IntrEnd ==
  /\ intr /\ used_idx = used_dev
  /\ intr' = FALSE
  /\ UNCHANGED <<driver, device, used_idx, irq, served>>

----------------------------------------------------------------------------
(* The device: it takes requests in order and completes them in any order *)

DeviceTake ==
  /\ dev_idx # avail_idx
  /\ active' = active \cup {avail[dev_idx % NUM]}
  /\ avail' = [avail EXCEPT ![dev_idx % NUM] = None]
  /\ dev_idx' = (dev_idx + 1) % IdxMod
  /\ UNCHANGED <<free, next, addr, info, avail_idx, pc, bdisk, head, used, used_dev, used_idx, irq, intr,
                 served>>

\* DMA to the buffer of the second descriptor, then the used ring and the interrupt.
DeviceDone(h) ==
  /\ h \in active
  /\ active' = active \ {h}
  /\ served' = [p \in Proc |-> served[p] \/ p = addr[next[h]]]
  /\ used' = [used EXCEPT ![used_dev % NUM] = h]
  /\ used_dev' = (used_dev + 1) % IdxMod
  /\ irq' = TRUE
  /\ UNCHANGED <<driver, used_idx, dev_idx, intr>>

----------------------------------------------------------------------------
\* After virtio_disk_init().
Init ==
  /\ free = Desc /\ next = [i \in Desc |-> i] /\ addr = [i \in Desc |-> None]
  /\ info = [i \in Desc |-> None]
  /\ avail = [i \in Desc |-> None] /\ avail_idx = 0 /\ used = [i \in Desc |-> None]
  /\ used_dev = 0 /\ used_idx = 0 /\ irq = FALSE /\ intr = FALSE
  /\ pc = [p \in Proc |-> "idle"] /\ bdisk = [p \in Proc |-> FALSE]
  /\ head = [p \in Proc |-> None] /\ dev_idx = 0 /\ active = {}
  /\ served = [p \in Proc |-> FALSE]

Driver(p) == AllocFails(p) \/ Issue(p) \/ Finish(p)
Intr == IntrStart \/ IntrEntry \/ IntrEnd
Device == DeviceTake \/ \E h \in Desc : DeviceDone(h)

Next == Intr \/ Device \/ \E p \in Proc : Call(p) \/ Driver(p)

Spec == Init /\ [][Next]_vars

\* The device serves every request, a requested interrupt is taken, and a process that
\* was woken runs, although interrupts may keep vdisk_lock busy.
FairSpec ==
  /\ Spec
  /\ WF_vars(Intr) /\ WF_vars(DeviceTake) /\ \A h \in Desc : WF_vars(DeviceDone(h))
  /\ \A p \in Proc : SF_vars(Driver(p))

----------------------------------------------------------------------------
(* Properties *)

InFlight == {p \in Proc : pc[p] \in {"issued", "woken"}}

\* Types; free_desc() never meets a free descriptor or one that does not exist.
TypeOK ==
  /\ free \subseteq Desc /\ avail_idx \in 0 .. IdxMod - 1 /\ used_idx \in 0 .. IdxMod - 1
  /\ pc \in [Proc -> {"idle", "alloc", "nodesc", "issued", "woken"}]
  /\ \A p \in InFlight : head[p] \in Desc /\ Chain(head[p]) \subseteq Desc \ free

\* The chains of requests in flight have three descriptors each and do not overlap, and
\* the device follows them to the right buffer: none is freed or reused before its
\* completion has been seen.
ChainsDisjoint ==
  /\ \A p \in InFlight : Cardinality(Chain(head[p])) = 3 /\ addr[next[head[p]]] = p
  /\ \A p, q \in InFlight : p # q => Chain(head[p]) \cap Chain(head[q]) = {}
  /\ Cardinality(free) = NUM - 3 * Cardinality(InFlight)

\* A request that virtio_disk_rw() takes for finished has been served by the device:
\* neither ring overtakes the other, also when the 16-bit indices wrap.
DoneMeansServed == \A p \in InFlight : ~bdisk[p] => served[p]

\* Every request that was issued finishes: acknowledging the interrupt before reading
\* the used ring loses no completion.  One that waits for descriptors gets them when the
\* others stop: no process is left asleep on disk.free[] beside free descriptors.
RequestsFinish ==
  \A p \in Proc :
    /\ pc[p] = "issued" ~> pc[p] = "idle"
    /\ <>[](\A q \in Proc \ {p} : pc[q] = "idle") => (pc[p] = "alloc" ~> pc[p] = "idle")
=============================================================================
