----------------------------- MODULE VirtioBlk -----------------------------
(***************************************************************************)
(* The virtio block driver (kernel/src/virtio_blk.c), called by tasks that *)
(* may preempt each other.  A request fills descriptors 0 to 2, posts them *)
(* and polls; all callers use the same descriptors and the same status     *)
(* byte, which is the id of used element 0.                                *)
(***************************************************************************)
EXTENDS VirtioDev

CONSTANT Caller

VARIABLES
  virtio_mmio,   \* not NULL
  virtio_queue,
  init_ret,      \* result of virtio_init: 1 before it, then 0 or -1
  desc,          \* whose request descriptors 0 to 2 describe
  ring0,         \* used.ring[0].id
  device_status, \* the device has written the status of the request it serves
  pc, ret,       \* per caller: place in a call, last result (1: none yet)
  alone,         \* history: who is in a call that met an idle device and no other call
  outcome        \* history: "none" until the device served that call, then "ok" or "failed"
queueState == <<virtio_queue, desc, ring0, device_status>>
callState == <<pc, ret, alone, outcome>>
blkVars == <<virtio_mmio, init_ret, queueState, callState>>

BlkInit ==
  /\ virtio_mmio = FALSE /\ virtio_queue = NoQueue /\ init_ret = 1
  /\ desc \in Caller /\ ring0 = 0 /\ device_status = FALSE
  /\ pc = [c \in Caller |-> "idle"] /\ ret = [c \in Caller |-> 1]
  /\ alone = {} /\ outcome = "none"

-----------------------------------------------------------------------------
(* virtio_init.  The MMIO pointer is set before the device is looked at. *)

virtio_queue_setup ==
  IF heap > 0
  THEN virtio_queue' = NewQueue /\ heap' = heap - 1 /\ ring0' = 0
  ELSE UNCHANGED <<virtio_queue, heap, ring0>>

VirtioInit(regs) ==
  /\ init_ret = 1
  /\ virtio_mmio' = TRUE
  /\ \/ Accepts(regs, 2) /\ virtio_queue_setup /\ init_ret' = 0
     \/ ~Accepts(regs, 2) /\ init_ret' = -1 /\ UNCHANGED <<virtio_queue, heap, ring0>>
  /\ UNCHANGED <<desc, device_status, callState>>

-----------------------------------------------------------------------------
(* virtio_blk_read, virtio_blk_write, virtio_blk_flush *)

Busy(c) == pc[c] \in {"post", "poll", "check"}

Return(c, code) ==
  /\ pc' = [pc EXCEPT ![c] = "idle"]
  /\ ret' = [ret EXCEPT ![c] = code]

\* The checks up to virtio_submit_request.  Without a queue the request is
\* written through a NULL pointer, and nothing is known of the rest of the call.
BlkCall(c, type, count) ==
  /\ pc[c] = "idle"
  /\ \/ ~virtio_mmio /\ Return(c, -1) /\ UNCHANGED heap
     \/ virtio_mmio /\ type # "flush" /\ count = 0 /\ Return(c, 0) /\ UNCHANGED heap
     \/ virtio_mmio /\ type = "in" /\ count # 0 /\ heap = 0 /\ Return(c, -1) /\ UNCHANGED heap
     \/ /\ virtio_mmio /\ (type = "flush" \/ count # 0)
        /\ type = "in" => heap > 0
        /\ heap' = IF type = "in" THEN heap - 1 ELSE heap
        /\ pc' = [pc EXCEPT ![c] = IF virtio_queue.up THEN "fill" ELSE "wild"]
        /\ UNCHANGED ret
  /\ UNCHANGED <<virtio_mmio, init_ret, queueState, alone, outcome>>

WildReturn(c) ==
  /\ pc[c] = "wild"
  /\ \E code \in {0, -1} : Return(c, code)
  /\ UNCHANGED <<heap, virtio_mmio, init_ret, queueState, alone, outcome>>

\* virtio_submit_request up to the avail ring: from here on the descriptors
\* are this caller's, whoever's request is still under way.
SubmitFill(c) ==
  /\ pc[c] = "fill"
  /\ pc' = [pc EXCEPT ![c] = "post"]
  /\ desc' = c
  /\ alone' = IF Outstanding(virtio_queue) \/ (\E d \in Caller : Busy(d)) THEN {} ELSE {c}
  /\ outcome' = "none"
  /\ UNCHANGED <<heap, virtio_mmio, init_ret, virtio_queue, ring0, device_status, ret>>

\* Bound: fewer than IDX_MOD (2^16) requests are unanswered at a time.
SubmitPost(c) ==
  /\ pc[c] = "post"
  /\ Advance(virtio_queue.avail) # virtio_queue.used
  /\ pc' = [pc EXCEPT ![c] = "poll"]
  /\ virtio_queue' = Post(virtio_queue)
  /\ UNCHANGED <<heap, virtio_mmio, init_ret, desc, ring0, device_status, ret, alone, outcome>>

\* A wait for anything the device has ever answered.
PollAnyUsed(c) ==
  /\ pc[c] = "poll"
  /\ virtio_queue.used # 0
  /\ pc' = [pc EXCEPT ![c] = "check"]
  /\ UNCHANGED <<heap, virtio_mmio, init_ret, queueState, ret, alone, outcome>>

\* A wait for one answer more than there are requests.
PollAhead(c) ==
  /\ pc[c] = "poll"
  /\ virtio_queue.used > virtio_queue.avail
  /\ pc' = [pc EXCEPT ![c] = "check"]
  /\ UNCHANGED <<heap, virtio_mmio, init_ret, queueState, ret, alone, outcome>>

\* while (used.idx == avail.idx - 1): the indices are promoted to int, so that
\* behind avail.idx = 0 the right side is -1 and the wait is over at once.
Poll(c) ==
  /\ pc[c] = "poll"
  /\ virtio_queue.used # virtio_queue.avail - 1
  /\ pc' = [pc EXCEPT ![c] = "check"]
  /\ UNCHANGED <<heap, virtio_mmio, init_ret, queueState, ret, alone, outcome>>

Check(c) ==
  /\ pc[c] = "check"
  /\ Return(c, IF ring0 # 0 THEN -1 ELSE 0)
  /\ alone' = alone \ {c} /\ outcome' = "none"
  /\ UNCHANGED <<heap, virtio_mmio, init_ret, queueState>>

-----------------------------------------------------------------------------
(* The device executes what descriptors 0 to 2 say when it comes to a posted *)
(* request, writes the status byte, and then the used element and index.     *)

BlkServe ==
  /\ Outstanding(virtio_queue) /\ ~device_status
  /\ device_status' = TRUE
  /\ \E ok \in BOOLEAN :
       /\ ring0' = IF ok THEN 0 ELSE 1
       /\ outcome' = IF desc \in alone THEN IF ok THEN "ok" ELSE "failed" ELSE outcome
  /\ UNCHANGED <<heap, virtio_mmio, init_ret, virtio_queue, desc, pc, ret, alone>>

BlkUsed ==
  /\ device_status
  /\ device_status' = FALSE
  /\ ring0' = IF Slot(virtio_queue.used) = 0 THEN 0 ELSE ring0
  /\ virtio_queue' = Complete(virtio_queue)
  /\ UNCHANGED <<heap, virtio_mmio, init_ret, desc, callState>>

BlkNext ==
  \/ \E regs \in Registers : VirtioInit(regs)
  \/ \E c \in Caller :
       \/ \E type \in {"in", "out", "flush"}, count \in {0, 1} : BlkCall(c, type, count)
       \/ WildReturn(c) \/ SubmitFill(c) \/ SubmitPost(c) \/ Poll(c) \/ Check(c)
  \/ BlkServe \/ BlkUsed

\* The device answers what it was given, and a caller that has the driver to itself
\* goes round its loop: it spins on the CPU and nothing takes the CPU from it.
BlkFairness ==
  /\ WF_blkVars(BlkServe) /\ WF_blkVars(BlkUsed)
  /\ \A c \in Caller : WF_blkVars(c \in alone /\ Poll(c))

-----------------------------------------------------------------------------
BlkTypeOK ==
  /\ virtio_mmio \in BOOLEAN /\ virtio_queue \in Queues /\ init_ret \in {1, 0, -1}
  /\ desc \in Caller /\ ring0 \in {0, 1} /\ device_status \in BOOLEAN
  /\ pc \in [Caller -> {"idle", "fill", "post", "poll", "check", "wild"}]
  /\ ret \in [Caller -> {1, 0, -1}]
  /\ alone \subseteq Caller /\ outcome \in {"none", "ok", "failed"}
=============================================================================
