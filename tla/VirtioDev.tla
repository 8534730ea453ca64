----------------------------- MODULE VirtioDev -----------------------------
(***************************************************************************)
(* What the virtio block and network drivers share (kernel/include/        *)
(* virtio.h): the registers by which they know their device, and the pair  *)
(* of 16-bit indices of a queue.  The device is external: it takes buffers *)
(* in the order of avail and gives them back in used, when it likes.       *)
(***************************************************************************)
EXTENDS Integers, Sequences

CONSTANTS
  VIRTIO_QUEUE_SIZE,
  IDX_MOD,    \* the indices are uint16_t: 2^16, a multiple of the queue size
  MAX_HEAP    \* bound: blocks mm_alloc can still give

ASSUME VirtioConstants ==
  /\ VIRTIO_QUEUE_SIZE \in Nat \ {0}
  /\ IDX_MOD \in Nat \ {0} /\ \E k \in 1 .. IDX_MOD : IDX_MOD = k * VIRTIO_QUEUE_SIZE
  /\ MAX_HEAP \in Nat

VARIABLE heap  \* blocks mm_alloc can still give

VIRTIO_MAGIC == 1953655158           \* 0x74726976
VIRTIO_MMIO_MAGIC_VALUE == 0         \* the offset of the register
VENDOR == 6900                       \* 0x1af4
Registers == [magic : {VIRTIO_MMIO_MAGIC_VALUE, VIRTIO_MAGIC}, version : 1 .. 3,
              device_id : {1, 2}, vendor_id : {VENDOR, 0}]

Idx == 0 .. IDX_MOD - 1
\* An index wider than its 16 bits.
AdvanceWide(i) == i + 1

Advance(i) == (i + 1) % IDX_MOD
Slot(i) == i % VIRTIO_QUEUE_SIZE

\* The checks both init functions make on the registers they find.
Accepts(regs, id) ==
  /\ regs.magic = VIRTIO_MMIO_MAGIC_VALUE
  /\ regs.version \in {1, 2}
  /\ regs.device_id = id
  /\ regs.vendor_id = VENDOR

\* A queue: not allocated (a NULL pointer), or its two indices.
Queues == [up : BOOLEAN, avail : Idx, used : Idx]
NoQueue == [up |-> FALSE, avail |-> 0, used |-> 0]
NewQueue == [NoQueue EXCEPT !.up = TRUE]
Post(q) == [q EXCEPT !.avail = Advance(@)]
Complete(q) == [q EXCEPT !.used = Advance(@)]
Outstanding(q) == q.up /\ q.used # q.avail

=============================================================================
