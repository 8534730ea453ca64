---------------------------- MODULE VirtioProofs ----------------------------
(* Proofs about the virtio drivers, for every queue size, index width, set *)
(* of callers, heap and sequence of packets.                               *)
EXTENDS Virtio, SequenceTheorems, TLAPS

-----------------------------------------------------------------------------
(* Queues *)

LEMMA IndexFacts ==
  /\ VIRTIO_QUEUE_SIZE \in Nat \ {0} /\ IDX_MOD \in Nat \ {0} /\ MAX_HEAP \in Nat
  /\ 0 \in Idx
  /\ \A i \in Idx : Advance(i) \in Idx /\ i \in Nat
  /\ \A i \in Idx : Advance(i) = 0 \/ Advance(i) = i + 1
  /\ \A i \in Idx : Slot(i) \in 0 .. VIRTIO_QUEUE_SIZE - 1
<1>1. /\ VIRTIO_QUEUE_SIZE \in Nat \ {0} /\ IDX_MOD \in Nat \ {0} /\ MAX_HEAP \in Nat
  BY VirtioConstants, Zenon
<1>2. 0 \in Idx /\ \A i \in Idx : i \in Nat  BY <1>1 DEF Idx
<1>3. ASSUME NEW i \in Idx PROVE Advance(i) \in Idx /\ (Advance(i) = 0 \/ Advance(i) = i + 1)
  <2>1. i \in Nat /\ i <= IDX_MOD - 1  BY <1>1 DEF Idx
  <2>2. CASE i + 1 = IDX_MOD
    <3>1. IDX_MOD % IDX_MOD = 0  BY <1>1
    <3> QED  BY <1>2, <2>2, <3>1 DEF Advance
  <2>3. CASE i + 1 < IDX_MOD
    <3>1. (i + 1) % IDX_MOD = i + 1  BY <1>1, <2>1, <2>3
    <3> QED  BY <1>1, <2>1, <2>3, <3>1 DEF Advance, Idx
  <2> QED  BY <1>1, <2>1, <2>2, <2>3
<1>4. ASSUME NEW i \in Idx PROVE Slot(i) \in 0 .. VIRTIO_QUEUE_SIZE - 1
  BY <1>1, <1>2 DEF Slot
<1> QED  BY <1>1, <1>2, <1>3, <1>4

LEMMA QueueFacts ==
  ASSUME NEW q \in Queues
  PROVE  /\ q.up \in BOOLEAN /\ q.avail \in Idx /\ q.used \in Idx
         /\ Post(q) \in Queues /\ Post(q).up = q.up
         /\ Post(q).avail = Advance(q.avail) /\ Post(q).used = q.used
         /\ Complete(q) \in Queues /\ Complete(q).up = q.up
         /\ Complete(q).avail = q.avail /\ Complete(q).used = Advance(q.used)
BY IndexFacts DEF Queues, Post, Complete

LEMMA FreshQueues ==
  /\ NoQueue \in Queues /\ ~NoQueue.up /\ NoQueue.avail = 0 /\ NoQueue.used = 0
  /\ NewQueue \in Queues /\ NewQueue.up /\ NewQueue.avail = 0 /\ NewQueue.used = 0
BY IndexFacts DEF Queues, NoQueue, NewQueue

-----------------------------------------------------------------------------
(* The block driver *)

\* Every step of a caller changes its own place only.
PCs == {"idle", "fill", "post", "poll", "check", "wild"}

LEMMA BlkTypeNext ==
  ASSUME BlkTypeOK, heap \in 0 .. MAX_HEAP, BlkNext
  PROVE  BlkTypeOK' /\ heap' \in 0 .. MAX_HEAP
<1> USE DEF BlkTypeOK
<1>0. MAX_HEAP \in Nat /\ \A h \in 0 .. MAX_HEAP : h > 0 => h - 1 \in 0 .. MAX_HEAP
  BY IndexFacts
<1>1. ASSUME NEW regs \in Registers, VirtioInit(regs) PROVE BlkTypeOK' /\ heap' \in 0 .. MAX_HEAP
  BY <1>0, <1>1, FreshQueues DEF VirtioInit, virtio_queue_setup, callState
<1>2. ASSUME NEW c \in Caller, NEW type, NEW count, BlkCall(c, type, count)
      PROVE  BlkTypeOK' /\ heap' \in 0 .. MAX_HEAP
  BY <1>0, <1>2 DEF BlkCall, Return, queueState
<1>3. ASSUME NEW c \in Caller, WildReturn(c) PROVE BlkTypeOK' /\ heap' \in 0 .. MAX_HEAP
  BY <1>3 DEF WildReturn, Return, queueState
<1>4. ASSUME NEW c \in Caller, SubmitFill(c) PROVE BlkTypeOK' /\ heap' \in 0 .. MAX_HEAP
  BY <1>4 DEF SubmitFill
<1>5. ASSUME NEW c \in Caller, SubmitPost(c) PROVE BlkTypeOK' /\ heap' \in 0 .. MAX_HEAP
  BY <1>5, QueueFacts DEF SubmitPost
<1>6. ASSUME NEW c \in Caller, Poll(c) PROVE BlkTypeOK' /\ heap' \in 0 .. MAX_HEAP
  BY <1>6 DEF Poll, queueState
<1>7. ASSUME NEW c \in Caller, Check(c) PROVE BlkTypeOK' /\ heap' \in 0 .. MAX_HEAP
  BY <1>7 DEF Check, Return, queueState
<1>8. ASSUME BlkServe PROVE BlkTypeOK' /\ heap' \in 0 .. MAX_HEAP
  BY <1>8 DEF BlkServe
<1>9. ASSUME BlkUsed PROVE BlkTypeOK' /\ heap' \in 0 .. MAX_HEAP
  BY <1>9, QueueFacts DEF BlkUsed, callState
<1> QED  BY <1>1, <1>2, <1>3, <1>4, <1>5, <1>6, <1>7, <1>8, <1>9 DEF BlkNext

\* A step of a caller outside of virtio_submit_request, which is not alone with the
\* device and leaves the queue as it is.
LEMMA OtherStepInv ==
  ASSUME BlkTypeOK, BlkInv, NEW c \in Caller, ~Busy(c),
         NEW p \in {"idle", "fill", "wild"}, pc' = [pc EXCEPT ![c] = p],
         p = "idle" \/ virtio_mmio, p = "fill" => virtio_queue.up,
         UNCHANGED <<virtio_mmio, init_ret, queueState, alone, outcome>>
  PROVE  BlkInv'
<1>0. pc \in [Caller -> PCs] /\ alone \subseteq Caller  BY DEF BlkTypeOK, PCs
<1>1. UNCHANGED <<virtio_mmio, init_ret, virtio_queue, desc, ring0, device_status, alone, outcome>>
  BY DEF queueState
<1>2. \A d \in Caller : pc'[d] = IF d = c THEN p ELSE pc[d]  BY <1>0
<1>3. \A d \in Caller : Busy(d)' <=> Busy(d)  BY <1>2 DEF Busy
<1>4. c \notin alone  BY DEF BlkInv
<1>5. (Waiting' <=> Waiting) /\ (Served' <=> Served) /\ (Answered' <=> Answered)
  BY <1>1 DEF Waiting, Served, Answered, Outstanding
<1>6. init_ret' = 1 => ~virtio_mmio' /\ virtio_queue' = NoQueue /\ \A d \in Caller : pc'[d] = "idle"
  BY <1>1, <1>2 DEF BlkInv
<1>7. \A d \in Caller : pc'[d] = "fill" \/ Busy(d)' => virtio_queue'.up
  BY <1>1, <1>2, <1>3 DEF BlkInv
<1>8. device_status' => Outstanding(virtio_queue')  BY <1>1 DEF BlkInv
<1>9. ASSUME NEW d \in alone'
      PROVE  /\ Busy(d)' /\ desc' = d /\ \A e \in Caller : Busy(e)' => e = d
             /\ pc'[d] = "post" =>
                  ~Outstanding(virtio_queue') /\ ~device_status' /\ outcome' = "none"
             /\ pc'[d] \in {"poll", "check"} => Waiting' \/ Served' \/ Answered'
             /\ pc'[d] = "check" /\ virtio_queue'.avail # 0 => Answered'
  <2>1. d \in alone /\ d \in Caller /\ d # c /\ pc'[d] = pc[d]  BY <1>0, <1>1, <1>2, <1>4
  <2> QED  BY <1>1, <1>3, <1>5, <2>1 DEF BlkInv
<1> QED  BY <1>6, <1>7, <1>8, <1>9 DEF BlkInv

LEMMA BlkInitInv == ASSUME BlkTypeOK, BlkInv, NEW regs, VirtioInit(regs) PROVE BlkInv'
<1>1. /\ virtio_queue = NoQueue /\ \A c \in Caller : pc[c] = "idle"
      /\ UNCHANGED <<desc, device_status, pc, ret, alone, outcome>> /\ init_ret' # 1
  BY DEF VirtioInit, BlkInv, callState
<1>2. alone = {}  BY <1>1 DEF BlkInv, Busy, BlkTypeOK
<1>3. ~device_status  BY <1>1, FreshQueues DEF BlkInv, Outstanding
<1> QED  BY <1>1, <1>2, <1>3 DEF BlkInv, Busy

LEMMA BlkFillInv == ASSUME BlkTypeOK, BlkInv, NEW c \in Caller, SubmitFill(c) PROVE BlkInv'
<1>0. pc \in [Caller -> PCs] /\ alone \subseteq Caller  BY DEF BlkTypeOK, PCs
<1>1. /\ pc[c] = "fill" /\ pc' = [pc EXCEPT ![c] = "post"] /\ desc' = c /\ outcome' = "none"
      /\ alone' = IF Outstanding(virtio_queue) \/ (\E d \in Caller : Busy(d)) THEN {} ELSE {c}
      /\ UNCHANGED <<virtio_mmio, init_ret, virtio_queue, ring0, device_status>>
  BY DEF SubmitFill
<1>2. \A d \in Caller : pc'[d] = IF d = c THEN "post" ELSE pc[d]  BY <1>0, <1>1
<1>3. \A d \in Caller : Busy(d)' <=> Busy(d) \/ d = c  BY <1>2 DEF Busy
<1>4. init_ret' # 1 /\ virtio_queue'.up  BY <1>1 DEF BlkInv
<1>5. device_status' => Outstanding(virtio_queue')  BY <1>1 DEF BlkInv
<1>6. \A d \in Caller : pc'[d] = "fill" \/ Busy(d)' => virtio_queue'.up  BY <1>4
<1>7. ASSUME NEW d \in alone'
      PROVE  /\ Busy(d)' /\ desc' = d /\ \A e \in Caller : Busy(e)' => e = d
             /\ pc'[d] = "post" =>
                  ~Outstanding(virtio_queue') /\ ~device_status' /\ outcome' = "none"
             /\ pc'[d] = "post"
  <2>1. d = c /\ ~Outstanding(virtio_queue) /\ \A e \in Caller : ~Busy(e)  BY <1>1
  <2> QED  BY <1>1, <1>2, <1>3, <1>5, <2>1
<1> QED  BY <1>4, <1>5, <1>6, <1>7 DEF BlkInv

LEMMA BlkPostInv == ASSUME BlkTypeOK, BlkInv, NEW c \in Caller, SubmitPost(c) PROVE BlkInv'
<1>0. pc \in [Caller -> PCs] /\ alone \subseteq Caller /\ virtio_queue \in Queues
  BY DEF BlkTypeOK, PCs
<1>1. /\ pc[c] = "post" /\ pc' = [pc EXCEPT ![c] = "poll"] /\ virtio_queue' = Post(virtio_queue)
      /\ Advance(virtio_queue.avail) # virtio_queue.used
      /\ UNCHANGED <<virtio_mmio, init_ret, desc, ring0, device_status, alone, outcome>>
  BY DEF SubmitPost
<1>2. \A d \in Caller : pc'[d] = IF d = c THEN "poll" ELSE pc[d]  BY <1>0, <1>1
<1>3. \A d \in Caller : Busy(d)' <=> Busy(d)  BY <1>1, <1>2 DEF Busy
<1>4. Busy(c) /\ init_ret' # 1 /\ virtio_queue.up  BY <1>1 DEF BlkInv, Busy
<1>5. /\ virtio_queue'.up /\ virtio_queue'.avail = Advance(virtio_queue.avail)
      /\ virtio_queue'.used = virtio_queue.used
  BY <1>0, <1>1, <1>4, QueueFacts
<1>6. Outstanding(virtio_queue')  BY <1>1, <1>5 DEF Outstanding
<1>7. \A d \in Caller : pc'[d] = "fill" \/ Busy(d)' => virtio_queue'.up  BY <1>5
<1>8. ASSUME NEW d \in alone'
      PROVE  /\ Busy(d)' /\ desc' = d /\ \A e \in Caller : Busy(e)' => e = d
             /\ pc'[d] = "poll" /\ Waiting'
  <2>1. d \in alone /\ d = c  BY <1>0, <1>1, <1>4 DEF BlkInv
  <2>2. ~Outstanding(virtio_queue) /\ ~device_status /\ outcome = "none"
    BY <1>1, <2>1 DEF BlkInv
  <2>3. virtio_queue.avail = virtio_queue.used  BY <1>4, <2>2 DEF Outstanding
  <2>4. Waiting'  BY <1>1, <1>5, <1>6, <2>2, <2>3 DEF Waiting
  <2> QED  BY <1>1, <1>2, <1>3, <2>1, <2>4 DEF BlkInv
<1> QED  BY <1>4, <1>6, <1>7, <1>8 DEF BlkInv

LEMMA BlkPollInv == ASSUME BlkTypeOK, BlkInv, NEW c \in Caller, Poll(c) PROVE BlkInv'
<1>0. pc \in [Caller -> PCs] /\ alone \subseteq Caller /\ virtio_queue \in Queues
  BY DEF BlkTypeOK, PCs
<1>1. /\ pc[c] = "poll" /\ pc' = [pc EXCEPT ![c] = "check"]
      /\ virtio_queue.used # virtio_queue.avail - 1
      /\ UNCHANGED <<virtio_mmio, init_ret, virtio_queue, desc, ring0, device_status, alone, outcome>>
  BY DEF Poll, queueState
<1>2. \A d \in Caller : pc'[d] = IF d = c THEN "check" ELSE pc[d]  BY <1>0, <1>1
<1>3. \A d \in Caller : Busy(d)' <=> Busy(d)  BY <1>1, <1>2 DEF Busy
<1>4. Busy(c) /\ init_ret' # 1 /\ virtio_queue.up  BY <1>1 DEF BlkInv, Busy
<1>5. (Waiting' <=> Waiting) /\ (Served' <=> Served) /\ (Answered' <=> Answered)
  BY <1>1 DEF Waiting, Served, Answered, Outstanding
<1>6. virtio_queue.avail # 0 => ~Waiting /\ ~Served
  <2>1. virtio_queue.used \in Idx /\ virtio_queue.used \in Nat  BY <1>0, QueueFacts, IndexFacts
  <2>2. Advance(virtio_queue.used) = 0 \/ Advance(virtio_queue.used) = virtio_queue.used + 1
    BY <2>1, IndexFacts
  <2> QED  BY <1>1, <2>1, <2>2 DEF Waiting, Served
<1>7. \A d \in Caller : pc'[d] = "fill" \/ Busy(d)' => virtio_queue'.up  BY <1>1, <1>4
<1>8. device_status' => Outstanding(virtio_queue')  BY <1>1 DEF BlkInv
<1>9. ASSUME NEW d \in alone'
      PROVE  /\ Busy(d)' /\ desc' = d /\ \A e \in Caller : Busy(e)' => e = d
             /\ pc'[d] = "check" /\ (Waiting' \/ Served' \/ Answered')
             /\ virtio_queue'.avail # 0 => Answered'
  <2>1. d \in alone /\ d = c  BY <1>0, <1>1, <1>4 DEF BlkInv
  <2>2. Waiting \/ Served \/ Answered  BY <1>1, <2>1 DEF BlkInv
  <2> QED  BY <1>1, <1>2, <1>3, <1>5, <1>6, <2>1, <2>2 DEF BlkInv
<1> QED  BY <1>4, <1>7, <1>8, <1>9 DEF BlkInv

LEMMA BlkCheckInv == ASSUME BlkTypeOK, BlkInv, NEW c \in Caller, Check(c) PROVE BlkInv'
<1>0. pc \in [Caller -> PCs] /\ alone \subseteq Caller  BY DEF BlkTypeOK, PCs
<1>1. /\ pc[c] = "check" /\ pc' = [pc EXCEPT ![c] = "idle"] /\ alone' = alone \ {c}
      /\ UNCHANGED <<virtio_mmio, init_ret, virtio_queue, desc, ring0, device_status>>
  BY DEF Check, Return, queueState
<1>2. \A d \in Caller : pc'[d] = IF d = c THEN "idle" ELSE pc[d]  BY <1>0, <1>1
<1>3. Busy(c)  BY <1>1 DEF Busy
<1>4. alone' = {}  BY <1>0, <1>1, <1>3 DEF BlkInv
<1>5. \A d \in Caller : Busy(d)' => Busy(d)  BY <1>2 DEF Busy
<1>6. init_ret' # 1  BY <1>1 DEF BlkInv
<1>7. \A d \in Caller : pc'[d] = "fill" \/ Busy(d)' => virtio_queue'.up
  BY <1>1, <1>2, <1>5 DEF BlkInv
<1>8. device_status' => Outstanding(virtio_queue')  BY <1>1 DEF BlkInv
<1> QED  BY <1>4, <1>6, <1>7, <1>8 DEF BlkInv

LEMMA BlkServeInv == ASSUME BlkTypeOK, BlkInv, BlkServe PROVE BlkInv'
<1>1. /\ Outstanding(virtio_queue) /\ ~device_status /\ device_status'
      /\ UNCHANGED <<virtio_mmio, init_ret, virtio_queue, desc, pc, alone>>
  BY DEF BlkServe
<1>2. PICK ok \in BOOLEAN :
        /\ ring0' = IF ok THEN 0 ELSE 1
        /\ outcome' = IF desc \in alone THEN IF ok THEN "ok" ELSE "failed" ELSE outcome
  BY DEF BlkServe
<1>3. \A d \in Caller : Busy(d)' <=> Busy(d)  BY <1>1 DEF Busy
<1>4. ASSUME NEW d \in alone
      PROVE  pc[d] \in {"poll", "check"} /\ Served'
             /\ (pc[d] = "check" => virtio_queue.avail = 0)
  <2>1. Busy(d) /\ desc = d /\ pc[d] # "post"  BY <1>1, <1>4 DEF BlkInv
  <2>2. pc[d] \in {"poll", "check"}  BY <2>1 DEF Busy
  <2>3. Waiting \/ Served \/ Answered  BY <1>4, <2>2 DEF BlkInv
  <2>4. Waiting  BY <1>1, <2>3 DEF Served, Answered
  <2>5. virtio_queue' = virtio_queue /\ outcome' # "none" /\ (ring0' # 0 <=> outcome' = "failed")
    BY <1>1, <1>2, <1>4, <2>1
  <2>6. Served'  BY <1>1, <2>4, <2>5 DEF Served, Waiting
  <2>7. pc[d] = "check" => virtio_queue.avail = 0  BY <1>1, <1>4 DEF BlkInv, Answered
  <2> QED  BY <2>2, <2>6, <2>7
<1>5. ASSUME NEW d \in alone'
      PROVE  /\ Busy(d)' /\ desc' = d /\ \A e \in Caller : Busy(e)' => e = d
             /\ pc'[d] \in {"poll", "check"} /\ Served'
             /\ (pc'[d] = "check" => virtio_queue'.avail = 0)
  BY <1>1, <1>3, <1>4, <1>5 DEF BlkInv, BlkTypeOK
<1>6. /\ init_ret' = 1 =>
           ~virtio_mmio' /\ virtio_queue' = NoQueue /\ \A d \in Caller : pc'[d] = "idle"
      /\ \A d \in Caller : pc'[d] = "fill" \/ Busy(d)' => virtio_queue'.up
  BY <1>1, <1>3 DEF BlkInv
<1>7. Outstanding(virtio_queue')  BY <1>1
<1> QED  BY <1>5, <1>6, <1>7 DEF BlkInv

LEMMA BlkUsedInv == ASSUME BlkTypeOK, BlkInv, BlkUsed PROVE BlkInv'
<1>0. virtio_queue \in Queues /\ alone \subseteq Caller  BY DEF BlkTypeOK
<1>1. /\ device_status /\ ~device_status' /\ virtio_queue' = Complete(virtio_queue)
      /\ ring0' = IF Slot(virtio_queue.used) = 0 THEN 0 ELSE ring0
      /\ UNCHANGED <<virtio_mmio, init_ret, desc, pc, alone, outcome>>
  BY DEF BlkUsed, callState
<1>2. Outstanding(virtio_queue) /\ init_ret # 1
  BY <1>1, FreshQueues DEF BlkInv, Outstanding
<1>3. /\ virtio_queue'.up /\ virtio_queue'.avail = virtio_queue.avail
      /\ virtio_queue'.used = Advance(virtio_queue.used)
  BY <1>0, <1>1, <1>2, QueueFacts DEF Outstanding
<1>4. \A d \in Caller : Busy(d)' <=> Busy(d)  BY <1>1 DEF Busy
<1>5. ASSUME NEW d \in alone PROVE pc[d] # "post" /\ Answered'
  <2>1. Busy(d) /\ pc[d] # "post"  BY <1>1, <1>5 DEF BlkInv
  <2>2. pc[d] \in {"poll", "check"}  BY <2>1 DEF Busy
  <2>3. Waiting \/ Served \/ Answered  BY <1>5, <2>2 DEF BlkInv
  <2>4. Served  BY <1>1, <2>3 DEF Waiting, Answered
  <2>5. virtio_queue'.used = virtio_queue'.avail  BY <1>3, <2>4 DEF Served
  <2>6. ~Outstanding(virtio_queue')  BY <2>5 DEF Outstanding
  <2>7. virtio_queue.avail # 0 => virtio_queue.used = virtio_queue.avail - 1
    <3>1. virtio_queue.used \in Idx /\ virtio_queue.used \in Nat  BY <1>0, QueueFacts, IndexFacts
    <3>2. Advance(virtio_queue.used) = 0 \/ Advance(virtio_queue.used) = virtio_queue.used + 1
      BY <3>1, IndexFacts
    <3> QED  BY <2>4, <3>1, <3>2 DEF Served
  <2>8. virtio_queue'.avail # 0 =>
          (ring0' # 0 <=> outcome' = "failed" /\ Slot(virtio_queue'.avail - 1) # 0)
    <3> SUFFICES ASSUME virtio_queue.avail # 0
                 PROVE  ring0' # 0 <=> outcome = "failed" /\ Slot(virtio_queue.avail - 1) # 0
      BY <1>1, <1>3
    <3>1. virtio_queue.used = virtio_queue.avail - 1  BY <2>7
    <3> QED  BY <1>1, <2>4, <3>1 DEF Served
  <2>9. outcome' # "none"  BY <1>1, <2>4 DEF Served
  <2> QED  BY <1>1, <2>1, <2>6, <2>8, <2>9 DEF Answered
<1>6. ASSUME NEW d \in alone'
      PROVE  /\ Busy(d)' /\ desc' = d /\ \A e \in Caller : Busy(e)' => e = d
             /\ pc'[d] # "post" /\ Answered'
  BY <1>0, <1>1, <1>4, <1>5 DEF BlkInv
<1>7. \A d \in Caller : pc'[d] = "fill" \/ Busy(d)' => virtio_queue'.up  BY <1>3
<1> QED  BY <1>1, <1>2, <1>6, <1>7 DEF BlkInv

LEMMA BlkInvNext == ASSUME BlkTypeOK, BlkInv, BlkNext PROVE BlkInv'
<1>1. ASSUME NEW c \in Caller, NEW type, NEW count, BlkCall(c, type, count) PROVE BlkInv'
  <2>1. ~Busy(c) /\ UNCHANGED <<virtio_mmio, init_ret, queueState, alone, outcome>>
    BY <1>1 DEF BlkCall, Busy
  <2>2. \/ pc' = [pc EXCEPT ![c] = "idle"]
        \/ virtio_mmio /\ pc' = [pc EXCEPT ![c] = IF virtio_queue.up THEN "fill" ELSE "wild"]
    BY <1>1 DEF BlkCall, Return
  <2>3. CASE pc' = [pc EXCEPT ![c] = "idle"]  BY <2>1, <2>3, OtherStepInv
  <2>4. CASE virtio_mmio /\ virtio_queue.up /\ pc' = [pc EXCEPT ![c] = "fill"]
    BY <2>1, <2>4, OtherStepInv
  <2>5. CASE virtio_mmio /\ ~virtio_queue.up /\ pc' = [pc EXCEPT ![c] = "wild"]
    BY <2>1, <2>5, OtherStepInv
  <2> QED  BY <2>2, <2>3, <2>4, <2>5
<1>2. ASSUME NEW c \in Caller, WildReturn(c) PROVE BlkInv'
  <2>1. ~Busy(c) /\ UNCHANGED <<virtio_mmio, init_ret, queueState, alone, outcome>>
    BY <1>2 DEF WildReturn, Busy
  <2>2. pc' = [pc EXCEPT ![c] = "idle"]  BY <1>2 DEF WildReturn, Return
  <2> QED  BY <2>1, <2>2, OtherStepInv
<1> QED
  BY <1>1, <1>2, BlkInitInv, BlkFillInv, BlkPostInv, BlkPollInv, BlkCheckInv, BlkServeInv,
     BlkUsedInv DEF BlkNext

-----------------------------------------------------------------------------
(* The network driver *)

LEMMA NetFacts ==
  /\ HDR \in Nat /\ RX_ROOM \in Nat /\ MAX_SENT \in Nat /\ MAX_ARRIVED \in Nat
  /\ \A n \in 1 .. MAX_ARRIVED : PacketLen[n] \in 0 .. RX_ROOM /\ PacketLen[n] \in Nat
<1>1. /\ HDR \in Nat /\ RX_ROOM \in Nat /\ MAX_SENT \in Nat /\ MAX_ARRIVED \in Nat
      /\ PacketLen \in [1 .. MAX_ARRIVED -> 0 .. RX_ROOM]
  BY NetConstants, Zenon
<1> QED  BY <1>1

\* The places of the network driver's sequences.
Got == [packet : 0 .. MAX_ARRIVED, whole : BOOLEAN]
LEMMA GotEntry ==
  ASSUME NEW p \in 0 .. MAX_ARRIVED, NEW w \in BOOLEAN
  PROVE  [packet |-> p, whole |-> w] \in Got
BY DEF Got

\* What the steps of virtio_net_recv do: the first half of the packet, the second.
First(max_len) ==
  [packet |-> rx_buffer, whole |-> Min2(rx_len, max_len) = Min2(PacketLen[rx_buffer], max_len)]
Taken == [packet |-> rx_buffer, whole |-> half.whole /\ half.packet = rx_buffer]

LEMMA RecvCallStep ==
  ASSUME NetTypeOK, NEW max_len, RecvCall(max_len)
  PROVE  /\ rpc = "idle" /\ rpc' = "copy" /\ rx.up /\ rx_ready
         /\ half' = First(max_len) /\ half' \in Got
         /\ UNCHANGED <<heap, virtio_net_mmio, net_ret, tx, rx, rx_lens, tx_ready, rx_ready, rx_len,
                        tx_buffer, rx_buffer, isr, spc, sent, wire, arrived, got>>
<1>1. rx_buffer \in 0 .. MAX_ARRIVED  BY DEF NetTypeOK
<1>2. (Min2(rx_len, max_len) = Min2(PacketLen[rx_buffer], max_len)) \in BOOLEAN  OBVIOUS
<1>3. First(max_len) \in Got  BY <1>1, <1>2, GotEntry DEF First
<1> QED  BY <1>3 DEF RecvCall, First, netQueues, netFlags

LEMMA RecvCopyStep ==
  ASSUME NetTypeOK, RecvCopy
  PROVE  /\ rpc = "copy" /\ rpc' = "clear" /\ half' = NoHalf /\ half' \in Got
         /\ got' = Append(got, Taken) /\ Taken \in Got /\ got \in Seq(Got) /\ got' \in Seq(Got)
         /\ UNCHANGED <<heap, virtio_net_mmio, net_ret, tx, rx, rx_lens, tx_ready, rx_ready, rx_len,
                        tx_buffer, rx_buffer, isr, spc, sent, wire, arrived>>
<1>1. /\ rpc = "copy" /\ rpc' = "clear" /\ half' = NoHalf /\ got' = Append(got, Taken)
      /\ UNCHANGED <<heap, virtio_net_mmio, net_ret, tx, rx, rx_lens, tx_ready, rx_ready, rx_len,
                     tx_buffer, rx_buffer, isr, spc, sent, wire, arrived>>
  BY DEF RecvCopy, Taken, netQueues, netFlags
<1>2. got \in Seq(Got) /\ rx_buffer \in 0 .. MAX_ARRIVED  BY DEF NetTypeOK, Got
<1>3. (half.whole /\ half.packet = rx_buffer) \in BOOLEAN  OBVIOUS
<1>4. Taken \in Got  BY <1>2, <1>3, GotEntry DEF Taken
<1>5. NoHalf \in Got
  <2>1. 0 \in 0 .. MAX_ARRIVED /\ FALSE \in BOOLEAN  BY NetFacts
  <2> QED  BY <2>1, GotEntry DEF NoHalf
<1>6. got' \in Seq(Got)  BY <1>1, <1>2, <1>4, AppendProperties
<1> QED  BY <1>1, <1>2, <1>4, <1>5, <1>6

LEMMA NetInitStep ==
  ASSUME NetTypeOK, heap \in 0 .. MAX_HEAP, NEW regs, VirtioNetInit(regs), NetInv
  PROVE  /\ net_ret = 1 /\ net_ret' \in {0, -1} /\ virtio_net_mmio' = TRUE
         /\ tx = NoQueue /\ rx = NoQueue
         /\ tx' \in {NoQueue, NewQueue} /\ rx' \in {NoQueue, Post(NewQueue)}
         /\ heap' \in 0 .. MAX_HEAP
         /\ UNCHANGED <<rx_lens, tx_ready, rx_ready, rx_len, tx_buffer, rx_buffer, isr, spc, sent,
                        wire, arrived, got, rpc, half>>
<1>1. net_ret = 1 /\ tx = NoQueue /\ rx = NoQueue  BY DEF VirtioNetInit, NetInv
<1>2. UNCHANGED <<rx_lens, tx_ready, rx_ready, rx_len, tx_buffer, rx_buffer, isr, spc, sent,
                  wire, arrived, got, rpc, half>>
  BY DEF VirtioNetInit, netFlags
<1>3. \/ /\ tx' = IF heap > 0 THEN NewQueue ELSE NoQueue
         /\ rx' = SetupRx(IF heap > 1 THEN NewQueue ELSE NoQueue)
         /\ heap' = IF heap > 1 THEN heap - 2 ELSE 0
         /\ net_ret' = 0
      \/ net_ret' = -1 /\ UNCHANGED <<tx, rx, heap>>
  BY DEF VirtioNetInit
<1>4. SetupRx(NewQueue) = Post(NewQueue) /\ SetupRx(NoQueue) = NoQueue
  BY FreshQueues DEF SetupRx
<1>5. rx' \in {NoQueue, Post(NewQueue)}  BY <1>1, <1>3, <1>4
<1>6. heap' \in 0 .. MAX_HEAP  BY <1>3, IndexFacts
<1> QED  BY <1>1, <1>2, <1>3, <1>5, <1>6 DEF VirtioNetInit

LEMMA NetTypeNext ==
  ASSUME NetTypeOK, NetInv, heap \in 0 .. MAX_HEAP, NetNext
  PROVE  NetTypeOK' /\ heap' \in 0 .. MAX_HEAP
<1>1. ASSUME NEW regs, VirtioNetInit(regs) PROVE NetTypeOK' /\ heap' \in 0 .. MAX_HEAP
  <2>0. tx' \in {NoQueue, NewQueue} /\ rx' \in {NoQueue, Post(NewQueue)}
    BY <1>1, NetInitStep
  <2>1. tx' \in Queues /\ rx' \in Queues
    BY <2>0, FreshQueues, QueueFacts
  <2> QED  BY <1>1, <2>1, NetInitStep DEF NetTypeOK
<1>2. ASSUME Send PROVE NetTypeOK' /\ heap' \in 0 .. MAX_HEAP
  <2>1. sent' \in 0 .. MAX_SENT  BY <1>2, NetFacts DEF Send, NetTypeOK
  <2> QED  BY <1>2, <2>1 DEF Send, NetTypeOK, netQueues, netFlags
<1>3. ASSUME SendFill PROVE NetTypeOK' /\ heap' \in 0 .. MAX_HEAP
  BY <1>3 DEF SendFill, NetTypeOK, netQueues
<1>4. ASSUME SendPost PROVE NetTypeOK' /\ heap' \in 0 .. MAX_HEAP
  BY <1>4, QueueFacts DEF SendPost, NetTypeOK, netFlags
<1>5. ASSUME NEW max_len, RecvCall(max_len) PROVE NetTypeOK' /\ heap' \in 0 .. MAX_HEAP
  BY <1>5, RecvCallStep DEF NetTypeOK, Got
<1>9. ASSUME RecvCopy PROVE NetTypeOK' /\ heap' \in 0 .. MAX_HEAP
  BY <1>9, RecvCopyStep DEF NetTypeOK, Got
<1>10. ASSUME RecvClear PROVE NetTypeOK' /\ heap' \in 0 .. MAX_HEAP
  BY <1>10 DEF RecvClear, NetTypeOK, netQueues
<1>11. ASSUME RecvPost PROVE NetTypeOK' /\ heap' \in 0 .. MAX_HEAP
  <2>1. rx' \in Queues  BY <1>11, QueueFacts DEF RecvPost, SetupRx, NetTypeOK
  <2> QED  BY <1>11, <2>1 DEF RecvPost, NetTypeOK, netFlags
<1>6. ASSUME HandleIrq PROVE NetTypeOK' /\ heap' \in 0 .. MAX_HEAP
  <2>1. tx_ready' \in BOOLEAN  BY <1>6 DEF HandleIrq
  <2>2. rx_ready' \in BOOLEAN /\ rx_len' \in 0 .. RX_ROOM
    <3>1. CASE rx.up /\ rx.used > 0
      <4> DEFINE l == rx_lens[Slot(rx.used - 1)]
      <4>0. rx.used \in Idx  BY QueueFacts DEF NetTypeOK
      <4>1. rx.used - 1 \in Idx  BY <3>1, <4>0, IndexFacts DEF Idx
      <4>2. Slot(rx.used - 1) \in 0 .. VIRTIO_QUEUE_SIZE - 1  BY <4>1, IndexFacts
      <4>3. l \in 0 .. HDR + RX_ROOM  BY <4>2 DEF NetTypeOK
      <4>4. rx_ready' = TRUE /\ rx_len' = IF l > HDR THEN l - HDR ELSE 0
        BY <1>6, <3>1 DEF HandleIrq
      <4> HIDE DEF l
      <4> QED  BY <4>3, <4>4, NetFacts
    <3>2. CASE ~(rx.up /\ rx.used > 0)  BY <1>6, <3>2 DEF HandleIrq, NetTypeOK
    <3> QED  BY <3>1, <3>2
  <2> QED  BY <1>6, <2>1, <2>2 DEF HandleIrq, NetTypeOK, netQueues
<1>7. ASSUME NetTransmit PROVE NetTypeOK' /\ heap' \in 0 .. MAX_HEAP
  <2>1. tx' \in Queues  BY <1>7, QueueFacts DEF NetTransmit, NetTypeOK
  <2>2. wire' \in Seq(0 .. MAX_SENT)  BY <1>7, AppendProperties DEF NetTransmit, NetTypeOK
  <2> QED  BY <1>7, <2>1, <2>2 DEF NetTransmit, NetTypeOK, netFlags
<1>8. ASSUME NetArrive PROVE NetTypeOK' /\ heap' \in 0 .. MAX_HEAP
  <2>1. rx' \in Queues  BY <1>8, QueueFacts DEF NetArrive, NetTypeOK
  <2>2. arrived' \in 1 .. MAX_ARRIVED  BY <1>8, NetFacts DEF NetArrive, NetTypeOK
  <2>3. HDR + PacketLen[arrived'] \in 0 .. HDR + RX_ROOM  BY <2>2, NetFacts
  <2>4. rx_lens' \in [0 .. VIRTIO_QUEUE_SIZE - 1 -> 0 .. HDR + RX_ROOM]
    BY <1>8, <2>3 DEF NetArrive, NetTypeOK
  <2>5. arrived' \in 0 .. MAX_ARRIVED  BY <2>2, NetFacts
  <2> QED  BY <1>8, <2>1, <2>4, <2>5 DEF NetArrive, NetTypeOK, netFlags
<1> QED  BY <1>1, <1>2, <1>3, <1>4, <1>5, <1>6, <1>7, <1>8, <1>9, <1>10, <1>11 DEF NetNext

\* What a step keeps that touches one direction only.
LEMMA TxFrame ==
  ASSUME NetInv, UNCHANGED <<tx, wire, spc, sent, tx_buffer, tx_ready, isr, arrived>>
  PROVE  arrived' = 0 => TxInv'
BY DEF NetInv, TxInv, Posted

LEMMA RxFrame ==
  ASSUME NetInv, UNCHANGED <<rx, got, arrived, rx_ready, rx_len, isr, wire, rpc, half>>
  PROVE  wire' = <<>> => RxInv'
BY DEF NetInv, RxInv, Returned

LEMMA IntactFrame == ASSUME TxIntact, UNCHANGED <<wire, arrived>> PROVE TxIntact'
BY DEF TxIntact

LEMMA OnceFrame == ASSUME RxOnce, UNCHANGED <<got, arrived, wire>> PROVE RxOnce'
BY DEF RxOnce

NetGood == NetInv /\ TxIntact /\ RxOnce

LEMMA NetInitGood ==
  ASSUME NetTypeOK, NetGood, heap \in 0 .. MAX_HEAP, NEW regs, VirtioNetInit(regs)
  PROVE  NetGood'
<1>0. /\ net_ret = 1 /\ net_ret' \in {0, -1} /\ virtio_net_mmio' = TRUE
      /\ tx = NoQueue /\ rx = NoQueue
      /\ tx' \in {NoQueue, NewQueue} /\ rx' \in {NoQueue, Post(NewQueue)}
      /\ UNCHANGED <<rx_lens, tx_ready, rx_ready, rx_len, tx_buffer, rx_buffer, isr, spc, sent,
                     wire, arrived, got, rpc, half>>
  BY NetInitStep DEF NetGood
<1>1. /\ sent = 0 /\ spc = "idle" /\ wire = <<>> /\ arrived = 0 /\ got = <<>> /\ ~rx_ready
      /\ rpc = "idle"
  BY <1>0, FreshQueues DEF NetGood, NetInv
<1>2. TxInv /\ RxInv  BY <1>1 DEF NetGood, NetInv
<1>3. tx'.avail = 0 /\ tx'.used = 0  BY <1>0, FreshQueues
<1>4. Len(wire) = 0 /\ Len(got) = 0 /\ DOMAIN wire = {} /\ DOMAIN got = {}  BY <1>1
<1>5. TxInv'  BY <1>0, <1>1, <1>2, <1>3, <1>4 DEF TxInv, Posted
<1>6. rx'.used = 0 /\ (rx'.up => rx'.avail = Advance(rx'.used))
  BY <1>0, FreshQueues, QueueFacts
<1>7. RxInv'
  <2>1. ~isr  BY <1>0 DEF NetGood, NetInv
  <2> QED  BY <1>0, <1>1, <1>4, <1>6, <2>1 DEF RxInv, Returned
<1>8. NetInv'  BY <1>0, <1>1, <1>4, <1>5, <1>6, <1>7 DEF NetGood, NetInv
<1> QED  BY <1>0, <1>8, IntactFrame, OnceFrame DEF NetGood

LEMMA SendGood == ASSUME NetTypeOK, NetGood, Send PROVE NetGood'
<1>0. /\ virtio_net_mmio /\ tx.up /\ spc = "idle" /\ spc' = "wait" /\ sent' = sent + 1
      /\ UNCHANGED <<virtio_net_mmio, net_ret, tx, rx, rx_lens, tx_ready, rx_ready, rx_len,
                     tx_buffer, rx_buffer, isr, wire, arrived, got, rpc, half>>
  BY DEF Send, netQueues, netFlags
<1>1. sent \in Nat /\ tx_buffer \in Nat  BY NetFacts DEF NetTypeOK
<1>2. arrived' = 0 => TxInv'
  <2> SUFFICES ASSUME arrived = 0 PROVE TxInv'  BY <1>0
  <2>1. TxInv  BY DEF NetGood, NetInv
  <2>2. Posted' = Posted  BY <1>0, <1>1 DEF Posted
  <2>3. tx_buffer' = sent' - 1  BY <1>0, <1>1, <2>1 DEF TxInv
  <2> QED  BY <1>0, <2>1, <2>2, <2>3 DEF TxInv
<1>3. wire' = <<>> => RxInv'  BY <1>0, RxFrame DEF NetGood
<1>4. tx_buffer' <= sent' /\ sent' > 0  BY <1>0, <1>1 DEF NetGood, NetInv
<1>5. NetInv'  BY <1>0, <1>2, <1>3, <1>4 DEF NetGood, NetInv
<1> QED  BY <1>0, <1>5, IntactFrame, OnceFrame DEF NetGood

LEMMA SendFillGood == ASSUME NetTypeOK, NetGood, SendFill PROVE NetGood'
<1>0. /\ spc = "wait" /\ tx_ready /\ spc' = "post" /\ tx_ready' = FALSE /\ tx_buffer' = sent
      /\ UNCHANGED <<virtio_net_mmio, net_ret, tx, rx, rx_lens, rx_ready, rx_len,
                     rx_buffer, isr, sent, wire, arrived, got, rpc, half>>
  BY DEF SendFill, netQueues
<1>1. /\ sent \in Nat /\ tx_buffer \in Nat /\ wire \in Seq(0 .. MAX_SENT)
  BY NetFacts DEF NetTypeOK
<1>2. \A i \in DOMAIN wire : wire[i] \in Nat
  BY <1>1, NetFacts
<1>3. arrived' = 0 => TxInv'
  <2> SUFFICES ASSUME arrived = 0 PROVE TxInv'  BY <1>0
  <2>1. TxInv  BY DEF NetGood, NetInv
  <2>2. Posted' = Posted  BY <1>0 DEF Posted
  <2>3. ~isr /\ Len(wire) = Posted  BY <1>0, <2>1 DEF TxInv
  <2> QED  BY <1>0, <2>1, <2>2, <2>3 DEF TxInv
<1>4. wire' = <<>> => RxInv'  BY <1>0, RxFrame DEF NetGood
<1>5. \A i \in DOMAIN wire' : wire'[i] <= tx_buffer'  BY <1>0, <1>1, <1>2 DEF NetGood, NetInv
<1>6. NetInv'  BY <1>0, <1>1, <1>3, <1>4, <1>5 DEF NetGood, NetInv
<1> QED  BY <1>0, <1>6, IntactFrame, OnceFrame DEF NetGood

LEMMA SendPostGood == ASSUME NetTypeOK, NetGood, SendPost PROVE NetGood'
<1>0. /\ spc = "post" /\ spc' = "idle" /\ tx' = Post(tx)
      /\ UNCHANGED <<virtio_net_mmio, net_ret, rx, rx_lens, tx_ready, rx_ready, rx_len, tx_buffer,
                     rx_buffer, isr, sent, wire, arrived, got, rpc, half>>
  BY DEF SendPost, netFlags
<1>1. sent \in Nat /\ tx_buffer \in Nat /\ tx \in Queues  BY NetFacts DEF NetTypeOK
<1>2. /\ tx'.up = tx.up /\ tx'.avail = Advance(tx.avail) /\ tx'.used = tx.used
      /\ tx.up /\ virtio_net_mmio
  BY <1>0, <1>1, QueueFacts, FreshQueues DEF NetGood, NetInv
<1>3. arrived' = 0 => TxInv'
  <2> SUFFICES ASSUME arrived = 0 PROVE TxInv'  BY <1>0
  <2>1. TxInv  BY DEF NetGood, NetInv
  <2>2. Posted = sent - 1 /\ Posted' = sent  BY <1>0 DEF Posted
  <2>3. ~isr /\ ~tx_ready /\ Len(wire) = Posted /\ tx.avail = tx.used  BY <1>0, <2>1 DEF TxInv
  <2>4. Len(wire') = Posted' - 1 /\ Len(wire') # Posted'  BY <1>0, <1>1, <2>2, <2>3
  <2> QED  BY <1>0, <1>2, <2>1, <2>3, <2>4 DEF TxInv
<1>4. wire' = <<>> => RxInv'  BY <1>0, RxFrame DEF NetGood
<1>5. NetInv'  BY <1>0, <1>1, <1>2, <1>3, <1>4 DEF NetGood, NetInv
<1> QED  BY <1>0, <1>5, IntactFrame, OnceFrame DEF NetGood

LEMMA RecvCallGood == ASSUME NetTypeOK, NetGood, NEW max_len, RecvCall(max_len) PROVE NetGood'
<1>0. /\ rpc = "idle" /\ rpc' = "copy" /\ rx.up /\ rx_ready /\ half' = First(max_len)
      /\ UNCHANGED <<virtio_net_mmio, net_ret, tx, rx, rx_lens, tx_ready, rx_ready, rx_len,
                     tx_buffer, rx_buffer, isr, spc, sent, wire, arrived, got>>
  BY RecvCallStep
<1>1. arrived \in Nat /\ arrived > 0 /\ rx_buffer = arrived
  BY <1>0, NetFacts DEF NetTypeOK, NetGood, NetInv
<1>2. wire' = <<>> => RxInv'
  <2> SUFFICES ASSUME wire = <<>> PROVE RxInv'  BY <1>0
  <2>1. RxInv  BY DEF NetGood, NetInv
  <2>2. rx_len = PacketLen[rx_buffer] /\ arrived = Returned + 1  BY <1>0, <1>1, <2>1 DEF RxInv
  <2>3. half' = [packet |-> arrived, whole |-> TRUE]  BY <1>0, <1>1, <2>2 DEF First
  <2>4. Returned' = Returned  BY <1>0 DEF Returned
  <2> QED  BY <1>0, <2>1, <2>2, <2>3, <2>4 DEF RxInv
<1>3. arrived' = 0 => TxInv'  BY <1>0, <1>1
<1>4. NetInv'  BY <1>0, <1>1, <1>2, <1>3 DEF NetGood, NetInv
<1> QED  BY <1>0, <1>4, IntactFrame, OnceFrame DEF NetGood

LEMMA RecvCopyGood == ASSUME NetTypeOK, NetGood, RecvCopy PROVE NetGood'
<1>0. /\ rpc = "copy" /\ rpc' = "clear"
      /\ got' = Append(got, Taken) /\ Taken \in Got /\ got \in Seq(Got)
      /\ UNCHANGED <<virtio_net_mmio, net_ret, tx, rx, rx_lens, tx_ready, rx_ready, rx_len,
                     tx_buffer, rx_buffer, isr, spc, sent, wire, arrived>>
  BY RecvCopyStep
<1>1. arrived \in Nat /\ arrived > 0 /\ rx_buffer = arrived
  BY <1>0, NetFacts DEF NetTypeOK, NetGood, NetInv
<1>3. /\ Len(got) \in Nat /\ DOMAIN got = 1 .. Len(got) /\ Len(got') = Len(got) + 1
      /\ DOMAIN got' = 1 .. Len(got) + 1 /\ got'[Len(got) + 1] = Taken
      /\ \A i \in DOMAIN got : got'[i] = got[i]
  BY <1>0, AppendProperties
<1>4. Taken.packet = arrived  BY <1>1 DEF Taken
<1>5. wire' = <<>> => RxInv /\ arrived = Len(got) + 1 /\ rx_ready
                      /\ half = [packet |-> arrived, whole |-> TRUE]
  BY <1>0 DEF NetGood, NetInv, RxInv, Returned
<1>6. wire' = <<>> => RxInv'
  <2> SUFFICES ASSUME wire' = <<>> PROVE RxInv'  OBVIOUS
  <2>1. Returned = Len(got) /\ Returned' = Len(got)  BY <1>0, <1>3 DEF Returned
  <2> QED  BY <1>0, <1>5, <2>1 DEF RxInv
<1>7. arrived' = 0 => TxInv'  BY <1>0, <1>1
<1>8. NetInv'
  <2>1. (~rx.up)' => (arrived = 0 /\ got = <<>> /\ ~rx_ready)'  BY <1>0 DEF NetGood, NetInv
  <2> QED  BY <1>0, <1>1, <1>6, <1>7, <2>1 DEF NetGood, NetInv
<1>9. \A i \in DOMAIN got : got[i].packet \in Nat /\ got[i].packet \in 1 .. arrived
  BY <1>0 DEF NetGood, RxOnce
<1>10. ASSUME NEW i \in DOMAIN got', NEW j \in DOMAIN got', i < j
       PROVE  got'[i].packet <= got'[j].packet
  <2>1. i \in DOMAIN got  BY <1>3, <1>10
  <2>2. CASE j \in DOMAIN got  BY <1>3, <1>10, <2>1, <2>2 DEF NetGood, RxOnce
  <2>3. CASE j = Len(got) + 1  BY <1>1, <1>3, <1>4, <1>9, <2>1, <2>3
  <2> QED  BY <1>3, <2>2, <2>3
<1>11. \A i \in DOMAIN got' : got'[i].packet \in 1 .. arrived'
  BY <1>0, <1>1, <1>3, <1>4, <1>9
<1>12. ASSUME wire' = <<>>, NEW i \in DOMAIN got' PROVE got'[i].packet = i /\ got'[i].whole
  <2>1. CASE i \in DOMAIN got  BY <1>0, <1>3, <1>12, <2>1 DEF NetGood, RxOnce
  <2>2. CASE i = Len(got) + 1
    <3>1. half = [packet |-> arrived, whole |-> TRUE]  BY <1>5, <1>12
    <3>2. half.whole = TRUE /\ half.packet = arrived  BY <3>1
    <3>3. Taken.whole = (half.whole /\ half.packet = rx_buffer)  BY DEF Taken
    <3>4. Taken.whole  BY <1>1, <3>2, <3>3
    <3> QED  BY <1>3, <1>4, <1>5, <1>12, <2>2, <3>4
  <2> QED  BY <1>3, <2>1, <2>2
<1>13. RxOnce'  BY <1>10, <1>11, <1>12 DEF RxOnce
<1> QED  BY <1>0, <1>8, <1>13, IntactFrame DEF NetGood

LEMMA RecvClearGood == ASSUME NetTypeOK, NetGood, RecvClear PROVE NetGood'
<1>0. /\ rpc = "clear" /\ rpc' = "post" /\ rx_ready' = FALSE
      /\ UNCHANGED <<virtio_net_mmio, net_ret, tx, rx, rx_lens, tx_ready, rx_len, tx_buffer,
                     rx_buffer, isr, spc, sent, wire, arrived, got, half>>
  BY DEF RecvClear, netQueues
<1>1. arrived > 0  BY <1>0 DEF NetGood, NetInv
<1>2. wire' = <<>> => RxInv'
  <2> SUFFICES ASSUME wire = <<>> PROVE RxInv'  BY <1>0
  <2>1. RxInv  BY DEF NetGood, NetInv
  <2>2. Returned' = Returned /\ ~isr  BY <1>0, <2>1 DEF RxInv, Returned
  <2> QED  BY <1>0, <2>1, <2>2 DEF RxInv
<1>3. arrived' = 0 => TxInv'  BY <1>0, <1>1, NetFacts DEF NetTypeOK
<1>4. NetInv'  BY <1>0, <1>1, <1>2, <1>3 DEF NetGood, NetInv
<1> QED  BY <1>0, <1>4, IntactFrame, OnceFrame DEF NetGood

LEMMA RecvPostGood == ASSUME NetTypeOK, NetGood, RecvPost PROVE NetGood'
<1>0. /\ rpc = "post" /\ rpc' = "idle" /\ rx.up /\ rx' = Post(rx) /\ arrived > 0
      /\ UNCHANGED <<virtio_net_mmio, net_ret, tx, rx_lens, tx_ready, rx_ready, rx_len, tx_buffer,
                     rx_buffer, isr, spc, sent, wire, arrived, got, half>>
  BY DEF RecvPost, SetupRx, netFlags, NetGood, NetInv
<1>1. rx \in Queues /\ arrived \in Nat /\ Len(got) \in Nat
  <2>1. got \in Seq(Got)  BY DEF NetTypeOK, Got
  <2> QED  BY <2>1, NetFacts DEF NetTypeOK
<1>2. /\ rx'.up = rx.up /\ rx'.avail = Advance(rx.avail) /\ rx'.used = rx.used
  BY <1>0, <1>1, QueueFacts
<1>3. wire' = <<>> => RxInv'
  <2> SUFFICES ASSUME wire = <<>> PROVE RxInv'  BY <1>0
  <2>1. RxInv  BY DEF NetGood, NetInv
  <2>2. Returned = Len(got) - 1 /\ Returned' = Len(got)  BY <1>0 DEF Returned
  <2>3. arrived = Len(got) /\ arrived # Returned /\ ~rx_ready /\ ~isr
    BY <1>0, <1>1, <2>1, <2>2 DEF RxInv
  <2>4. rx.avail = rx.used  BY <2>1, <2>3 DEF RxInv
  <2> QED  BY <1>0, <1>2, <2>2, <2>3, <2>4 DEF RxInv
<1>4. arrived' = 0 => TxInv'  BY <1>0, <1>1
<1>5. virtio_net_mmio  BY <1>0, FreshQueues DEF NetGood, NetInv
<1>6. NetInv'  BY <1>0, <1>1, <1>2, <1>3, <1>4, <1>5 DEF NetGood, NetInv
<1> QED  BY <1>0, <1>6, IntactFrame, OnceFrame DEF NetGood

LEMMA HandleIrqGood == ASSUME NetTypeOK, NetGood, HandleIrq PROVE NetGood'
<1>0. /\ virtio_net_mmio /\ isr /\ isr' = FALSE
      /\ tx_ready' = (tx_ready \/ (tx.up /\ tx.used > 0))
      /\ UNCHANGED <<virtio_net_mmio, net_ret, tx, rx, rx_lens, tx_buffer, rx_buffer,
                     spc, sent, wire, arrived, got, rpc, half>>
  BY DEF HandleIrq, netQueues
<1>1. arrived' = 0 => TxInv'
  <2> SUFFICES ASSUME arrived = 0 PROVE TxInv'  BY <1>0
  <2>1. TxInv  BY DEF NetGood, NetInv
  <2>2. spc # "post" /\ Len(wire) = Posted  BY <1>0, <2>1 DEF TxInv
  <2>3. Posted' = Posted  BY <1>0 DEF Posted
  <2> QED  BY <1>0, <2>1, <2>2, <2>3 DEF TxInv
<1>2. CASE rx.up /\ rx.used > 0
  <2> DEFINE l == rx_lens[Slot(rx.used - 1)]
  <2>1. rx_ready' = TRUE /\ rx_len' = IF l > HDR THEN l - HDR ELSE 0
    BY <1>2 DEF HandleIrq
  <2>2. arrived > 0 /\ l = HDR + PacketLen[arrived]  BY <1>2 DEF NetGood, NetInv
  <2>3. PacketLen[arrived] \in Nat /\ HDR \in Nat
    BY <2>2, NetFacts DEF NetTypeOK
  <2> HIDE DEF l
  <2>4. rx_len' = PacketLen[arrived]  BY <2>1, <2>2, <2>3
  <2>5. wire' = <<>> => RxInv'
    <3> SUFFICES ASSUME wire = <<>> PROVE RxInv'  BY <1>0
    <3>1. RxInv  BY DEF NetGood, NetInv
    <3>2. arrived # Returned /\ rpc # "post"  BY <1>0, <1>2, <3>1 DEF RxInv
    <3>3. Returned' = Returned  BY <1>0 DEF Returned
    <3> QED  BY <1>0, <2>1, <2>4, <3>1, <3>2, <3>3 DEF RxInv
  <2>6. NetInv'  BY <1>0, <1>1, <1>2, <2>1, <2>2, <2>5 DEF NetGood, NetInv
  <2> QED  BY <1>0, <2>6, IntactFrame, OnceFrame DEF NetGood
<1>3. CASE ~(rx.up /\ rx.used > 0)
  <2>1. rx_ready' = rx_ready /\ rx_len' = rx_len  BY <1>3 DEF HandleIrq
  <2>2. wire' = <<>> => RxInv'
    <3> SUFFICES ASSUME wire = <<>> PROVE RxInv'  BY <1>0
    <3>1. RxInv  BY DEF NetGood, NetInv
    <3> QED  BY <1>0, <2>1, <3>1 DEF RxInv, Returned
  <2>3. NetInv'  BY <1>0, <1>1, <2>1, <2>2 DEF NetGood, NetInv
  <2> QED  BY <1>0, <2>3, IntactFrame, OnceFrame DEF NetGood
<1> QED  BY <1>2, <1>3

LEMMA NetTransmitGood == ASSUME NetTypeOK, NetGood, NetTransmit PROVE NetGood'
<1>0. /\ Outstanding(tx) /\ wire' = Append(wire, tx_buffer) /\ tx' = Complete(tx) /\ isr' = TRUE
      /\ UNCHANGED <<virtio_net_mmio, net_ret, rx, rx_lens, tx_ready, rx_ready, rx_len, tx_buffer,
                     rx_buffer, spc, sent, arrived, got, rpc, half>>
  BY DEF NetTransmit, netFlags
<1>1. /\ sent \in Nat /\ tx_buffer \in 0 .. MAX_SENT /\ tx_buffer \in Nat
      /\ wire \in Seq(0 .. MAX_SENT) /\ tx \in Queues
  BY NetFacts DEF NetTypeOK
<1>2. /\ tx'.up = tx.up /\ tx'.avail = tx.avail /\ tx'.used = Advance(tx.used)
      /\ tx.up /\ tx.used # tx.avail /\ virtio_net_mmio
  BY <1>0, <1>1, QueueFacts, FreshQueues DEF Outstanding, NetGood, NetInv
<1>3. /\ Len(wire) \in Nat /\ DOMAIN wire = 1 .. Len(wire) /\ Len(wire') = Len(wire) + 1
      /\ DOMAIN wire' = 1 .. Len(wire) + 1 /\ wire'[Len(wire) + 1] = tx_buffer
      /\ \A i \in DOMAIN wire : wire'[i] = wire[i]
      /\ wire' # <<>> /\ wire' \in Seq(0 .. MAX_SENT)
  BY <1>0, <1>1, AppendProperties
<1>4. arrived = 0 => /\ TxInv /\ Len(wire) = Posted - 1 /\ tx_buffer = Posted
                     /\ tx.avail = Advance(tx.used) /\ spc # "post" /\ ~tx_ready
  <2> SUFFICES ASSUME arrived = 0
               PROVE  /\ TxInv /\ Len(wire) = Posted - 1 /\ tx_buffer = Posted
                      /\ tx.avail = Advance(tx.used) /\ spc # "post" /\ ~tx_ready
    OBVIOUS
  <2>1. TxInv  BY DEF NetGood, NetInv
  <2>2. Len(wire) # Posted  BY <1>2, <2>1 DEF TxInv
  <2>3. Len(wire) = Posted - 1 /\ spc # "post"  BY <2>1, <2>2 DEF TxInv
  <2>4. spc \in {"idle", "wait"}  BY <2>3 DEF NetTypeOK
  <2>5. tx_buffer = Posted  BY <2>1, <2>4 DEF TxInv, Posted
  <2> QED  BY <2>1, <2>2, <2>3, <2>5 DEF TxInv
<1>5. arrived' = 0 => TxInv'
  <2> SUFFICES ASSUME arrived = 0 PROVE TxInv'  BY <1>0
  <2>1. Posted' = Posted /\ Posted \in Int  BY <1>0, <1>1 DEF Posted
  <2>2. Len(wire') = Posted'  BY <1>3, <1>4, <2>1
  <2> QED  BY <1>0, <1>2, <1>4, <2>1, <2>2 DEF TxInv
<1>6. \A i \in DOMAIN wire : wire[i] \in Nat /\ wire[i] <= tx_buffer
  BY <1>1, NetFacts DEF NetGood, NetInv
<1>7. \A i \in DOMAIN wire' : wire'[i] <= tx_buffer'  BY <1>0, <1>1, <1>3, <1>6
<1>8. NetInv'  BY <1>0, <1>2, <1>3, <1>5, <1>7 DEF NetGood, NetInv
<1>9. ASSUME NEW i \in DOMAIN wire', NEW j \in DOMAIN wire', i < j PROVE wire'[i] <= wire'[j]
  <2>1. i \in DOMAIN wire  BY <1>3, <1>9
  <2>2. CASE j \in DOMAIN wire  BY <1>3, <1>9, <2>1, <2>2 DEF NetGood, TxIntact
  <2>3. CASE j = Len(wire) + 1  BY <1>3, <1>6, <2>1, <2>3
  <2> QED  BY <1>3, <2>2, <2>3
<1>10. arrived' = 0 => wire' = [i \in 1 .. Len(wire') |-> i]
  <2> SUFFICES ASSUME arrived = 0 PROVE wire' = [i \in 1 .. Len(wire') |-> i]  BY <1>0
  <2>1. wire = [i \in 1 .. Len(wire) |-> i]  BY DEF NetGood, TxIntact
  <2>2. tx_buffer = Len(wire) + 1
    <3>1. Posted \in Int  BY <1>1 DEF Posted
    <3> QED  BY <1>3, <1>4, <3>1
  <2>3. \A i \in 1 .. Len(wire) + 1 : wire'[i] = i
    <3> SUFFICES ASSUME NEW i \in 1 .. Len(wire) + 1 PROVE wire'[i] = i  OBVIOUS
    <3>1. CASE i \in DOMAIN wire
      <4>1. wire[i] = i  BY <1>3, <2>1, <3>1
      <4> QED  BY <1>3, <3>1, <4>1
    <3>2. CASE i = Len(wire) + 1  BY <1>3, <2>2, <3>2
    <3> QED  BY <1>3, <3>1, <3>2
  <2>4. wire' = [i \in DOMAIN wire' |-> wire'[i]]  BY <1>3
  <2> QED  BY <1>3, <2>3, <2>4
<1>11. TxIntact'  BY <1>9, <1>10 DEF TxIntact
<1>12. RxOnce'  BY <1>0, <1>3 DEF NetGood, RxOnce
<1> QED  BY <1>8, <1>11, <1>12 DEF NetGood

LEMMA NetArriveGood == ASSUME NetTypeOK, NetGood, NetArrive PROVE NetGood'
<1>0. /\ Outstanding(rx) /\ arrived < MAX_ARRIVED /\ arrived' = arrived + 1
      /\ rx_buffer' = arrived' /\ rx' = Complete(rx) /\ isr' = TRUE
      /\ rx_lens' = [rx_lens EXCEPT ![Slot(rx.used)] = HDR + PacketLen[arrived']]
      /\ UNCHANGED <<virtio_net_mmio, net_ret, tx, tx_ready, rx_ready, rx_len, tx_buffer,
                     spc, sent, wire, got, rpc, half>>
  BY DEF NetArrive, netFlags
<1>1. /\ arrived \in Nat /\ rx \in Queues /\ got \in Seq(Got) /\ arrived' \in Nat /\ arrived' > 0
      /\ rx_lens \in [0 .. VIRTIO_QUEUE_SIZE - 1 -> 0 .. HDR + RX_ROOM]
  BY <1>0, NetFacts DEF NetTypeOK, Got
<1>2. /\ rx'.up = rx.up /\ rx'.avail = rx.avail /\ rx'.used = Advance(rx.used)
      /\ rx.up /\ rx.used # rx.avail /\ rx.used \in Idx /\ virtio_net_mmio
  BY <1>0, <1>1, QueueFacts, FreshQueues DEF Outstanding, NetGood, NetInv
<1>3. rx'.used > 0 => rx_lens'[Slot(rx'.used - 1)] = HDR + PacketLen[arrived']
  <2> SUFFICES ASSUME rx'.used > 0
               PROVE  rx_lens'[Slot(rx'.used - 1)] = HDR + PacketLen[arrived']
    OBVIOUS
  <2>1. rx'.used = rx.used + 1  BY <1>2, IndexFacts
  <2>2. rx'.used - 1 = rx.used  BY <1>2, <2>1, IndexFacts
  <2>3. Slot(rx.used) \in 0 .. VIRTIO_QUEUE_SIZE - 1  BY <1>2, IndexFacts
  <2> QED  BY <1>0, <1>1, <2>2, <2>3
<1>4. wire' = <<>> => RxInv'
  <2> SUFFICES ASSUME wire = <<>> PROVE RxInv'  BY <1>0
  <2>1. RxInv  BY DEF NetGood, NetInv
  <2>2. arrived = Returned /\ ~rx_ready /\ rx.avail = Advance(rx.used)  BY <1>2, <2>1 DEF RxInv
  <2>3. Returned' = Returned  BY <1>0 DEF Returned
  <2>4. arrived' = Returned' + 1 /\ arrived' # Returned'  BY <1>0, <1>1, <2>2, <2>3
  <2>5. rpc = "idle"  BY <1>1, <2>1, <2>2 DEF RxInv
  <2> QED  BY <1>0, <1>2, <2>2, <2>4, <2>5 DEF RxInv
<1>5. NetInv'  BY <1>0, <1>1, <1>2, <1>3, <1>4 DEF NetGood, NetInv
<1>6. TxIntact'  BY <1>0, <1>1 DEF NetGood, TxIntact
<1>7. RxOnce'
  <2>1. \A i \in DOMAIN got : got[i].packet \in 1 .. arrived  BY DEF NetGood, RxOnce
  <2>2. 1 .. arrived \subseteq 1 .. arrived'  BY <1>0, <1>1
  <2> QED  BY <1>0, <2>1, <2>2 DEF NetGood, RxOnce
<1> QED  BY <1>5, <1>6, <1>7 DEF NetGood

LEMMA NetGoodNext == ASSUME NetTypeOK, NetGood, heap \in 0 .. MAX_HEAP, NetNext PROVE NetGood'
BY NetInitGood, SendGood, SendFillGood, SendPostGood, RecvCallGood, RecvCopyGood, RecvClearGood, RecvPostGood, HandleIrqGood,
   NetTransmitGood, NetArriveGood DEF NetNext

-----------------------------------------------------------------------------
(* Either driver on the device *)

LEMMA VirtioInit0 == Init => IInv
<1> SUFFICES ASSUME Init PROVE IInv  OBVIOUS
<1>0. BlkInit /\ NetInit /\ driver \in {"blk", "net"} /\ heap \in 0 .. MAX_HEAP  BY DEF Init
<1>1. BlkTypeOK  BY <1>0, FreshQueues DEF BlkInit, BlkTypeOK
<1>2. BlkInv  BY <1>0 DEF BlkInit, BlkInv, Busy
<1>3. Len(wire) = 0 /\ Len(got) = 0 /\ DOMAIN wire = {} /\ DOMAIN got = {}
  BY <1>0 DEF NetInit
<1>4. NetTypeOK
  <2>1. /\ 0 \in 0 .. HDR + RX_ROOM /\ 0 \in 0 .. RX_ROOM /\ 0 \in 0 .. MAX_SENT
        /\ 0 \in 0 .. MAX_ARRIVED
    BY NetFacts
  <2>2. wire \in Seq(0 .. MAX_SENT) /\ got \in Seq(Got)  BY <1>0 DEF NetInit
  <2> QED  BY <1>0, <2>1, <2>2, FreshQueues DEF NetInit, NetTypeOK, Got, NoHalf
<1>5. TxInv /\ RxInv  BY <1>0, <1>3, FreshQueues DEF NetInit, TxInv, RxInv, Posted, Returned
<1>6. NetInv  BY <1>0, <1>3, <1>5, FreshQueues DEF NetInit, NetInv
<1>7. TxIntact
  <2>1. wire = [i \in 1 .. Len(wire) |-> i]  BY <1>0, <1>3 DEF NetInit
  <2> QED  BY <1>3, <2>1 DEF TxIntact
<1>8. RxOnce  BY <1>3 DEF RxOnce
<1> QED  BY <1>0, <1>1, <1>2, <1>4, <1>6, <1>7, <1>8 DEF IInv, TypeOK

\* A driver that is not on the device stays as it is.
LEMMA BlkFrame == ASSUME UNCHANGED blkVars, BlkTypeOK, BlkInv PROVE BlkTypeOK' /\ BlkInv'
<1>1. UNCHANGED <<virtio_mmio, init_ret, virtio_queue, desc, ring0, device_status, pc, ret, alone,
                  outcome>>
  BY DEF blkVars, queueState, callState
<1>2. BlkTypeOK'  BY <1>1 DEF BlkTypeOK
<1>3. BlkInv'  BY <1>1 DEF BlkInv, Busy, Waiting, Served, Answered, Outstanding
<1> QED  BY <1>2, <1>3

LEMMA NetFrame == ASSUME UNCHANGED netVars, NetTypeOK, NetGood PROVE NetTypeOK' /\ NetGood'
<1>1. UNCHANGED <<virtio_net_mmio, net_ret, tx, rx, rx_lens, tx_ready, rx_ready, rx_len, tx_buffer,
                  rx_buffer, isr, spc, sent, wire, arrived, got, rpc, half>>
  BY DEF netVars, netQueues, netFlags
<1>2. NetTypeOK'  BY <1>1 DEF NetTypeOK
<1>3. NetInv'  BY <1>1 DEF NetGood, NetInv, TxInv, RxInv, Posted, Returned
<1>4. TxIntact' /\ RxOnce'  BY <1>1 DEF NetGood, TxIntact, RxOnce
<1> QED  BY <1>2, <1>3, <1>4 DEF NetGood

LEMMA VirtioNextInv == IInv /\ [Next]_vars => IInv'
<1> SUFFICES ASSUME IInv, [Next]_vars PROVE IInv'  OBVIOUS
<1>0. /\ BlkTypeOK /\ NetTypeOK /\ BlkInv /\ NetGood /\ NetInv /\ heap \in 0 .. MAX_HEAP
      /\ driver \in {"blk", "net"}
  BY DEF IInv, TypeOK, NetGood
<1>1. CASE driver = "blk" /\ BlkNext /\ UNCHANGED <<driver, netVars>>
  <2>1. BlkTypeOK' /\ heap' \in 0 .. MAX_HEAP /\ BlkInv'  BY <1>0, <1>1, BlkTypeNext, BlkInvNext
  <2>2. NetTypeOK' /\ NetGood'  BY <1>0, <1>1, NetFrame
  <2>3. driver' \in {"blk", "net"}  BY <1>0, <1>1
  <2> QED  BY <2>1, <2>2, <2>3 DEF IInv, TypeOK, NetGood
<1>2. CASE driver = "net" /\ NetNext /\ UNCHANGED <<driver, blkVars>>
  <2>1. NetTypeOK' /\ heap' \in 0 .. MAX_HEAP /\ NetGood'  BY <1>0, <1>2, NetTypeNext, NetGoodNext
  <2>2. BlkTypeOK' /\ BlkInv'  BY <1>0, <1>2, BlkFrame
  <2>3. driver' \in {"blk", "net"}  BY <1>0, <1>2
  <2> QED  BY <2>1, <2>2, <2>3 DEF IInv, TypeOK, NetGood
<1>3. CASE UNCHANGED vars
  <2>1. UNCHANGED blkVars /\ UNCHANGED netVars /\ driver' = driver /\ heap' = heap
    BY <1>3 DEF vars
  <2>2. BlkTypeOK' /\ BlkInv' /\ NetTypeOK' /\ NetGood'  BY <1>0, <2>1, BlkFrame, NetFrame
  <2> QED  BY <1>0, <2>1, <2>2 DEF IInv, TypeOK, NetGood
<1> QED  BY <1>1, <1>2, <1>3 DEF Next

\* The invariants of both drivers hold whatever the device does, and whenever it does it.
THEOREM VirtioInv == Spec => []IInv
BY VirtioInit0, VirtioNextInv, PTL DEF Spec

\* Indices, flags, buffers and results of both drivers stay in their types, though
\* the indices (virtio.h) wrap and a length is what the device wrote
\* (virtio_net.c:273).
THEOREM VirtioTypeOK == Spec => []TypeOK
<1>1. IInv => TypeOK  BY DEF IInv
<1> QED  BY <1>1, VirtioInv, PTL

\* virtio_net_send: packets go out in order, and exactly once each for as long as no
\* interrupt of the receive queue is mistaken for one of the transmit queue
\* (virtio_net.c:268).
THEOREM VirtioTxIntact == Spec => []TxIntact
<1>1. IInv => TxIntact  BY DEF IInv
<1> QED  BY <1>1, VirtioInv, PTL

\* virtio_net_recv: packets come in order, none before it arrived, and each at most
\* once and at its own length until something was transmitted (virtio_net.c:249).
THEOREM VirtioRxOnce == Spec => []RxOnce
<1>1. IInv => RxOnce  BY DEF IInv
<1> QED  BY <1>1, VirtioInv, PTL

\* virtio_submit_request: a call that had the device to itself returns what the device
\* answered, but for a failure that used element 0 overwrites and an avail.idx that
\* has come round to 0 (virtio_blk.c:215, :219).
THEOREM VirtioBlkAnswered == Spec => BlkAnswered
<1> DEFINE A == \A c \in alone : pc[c] = "check" /\ pc'[c] = "idle" /\ virtio_queue.avail # 0 =>
                  /\ outcome # "none"
                  /\ ret'[c] = -1 <=> outcome = "failed" /\ Slot(virtio_queue.avail - 1) # 0
<1>1. IInv /\ [Next]_vars => [A]_vars
  <2> SUFFICES ASSUME IInv, Next, NEW c \in alone, pc[c] = "check", pc'[c] = "idle",
                      virtio_queue.avail # 0
               PROVE  /\ outcome # "none"
                      /\ ret'[c] = -1 <=> outcome = "failed" /\ Slot(virtio_queue.avail - 1) # 0
    OBVIOUS
  <2>0. BlkTypeOK /\ BlkInv /\ c \in Caller  BY DEF IInv, TypeOK, BlkTypeOK
  <2>1. Answered  BY <2>0 DEF BlkInv
  <2>2. BlkNext
    <3>1. UNCHANGED blkVars => pc' = pc  BY DEF blkVars, callState
    <3> QED  BY <3>1 DEF Next
  <2>3. Check(c)
    <3>1. \A regs : VirtioInit(regs) => pc' = pc  BY DEF VirtioInit, callState
    <3>2. BlkServe \/ BlkUsed => pc' = pc  BY DEF BlkServe, BlkUsed, callState
    <3>3. ASSUME NEW d \in Caller, NEW type, NEW count,
                 BlkCall(d, type, count) \/ WildReturn(d) \/ SubmitFill(d) \/ SubmitPost(d)
                 \/ Poll(d) \/ (Check(d) /\ d # c)
          PROVE  pc'[c] = pc[c]
      <4>0. pc \in [Caller -> PCs]  BY <2>0 DEF BlkTypeOK, PCs
      <4>1. CASE BlkCall(d, type, count)  BY <2>0, <4>0, <4>1 DEF BlkCall, Return
      <4>2. CASE WildReturn(d)  BY <2>0, <4>0, <4>2 DEF WildReturn, Return
      <4>3. CASE SubmitFill(d)  BY <2>0, <4>0, <4>3 DEF SubmitFill
      <4>4. CASE SubmitPost(d)  BY <2>0, <4>0, <4>4 DEF SubmitPost
      <4>5. CASE Poll(d) \/ (Check(d) /\ d # c)
        <5>1. Poll(d) => d # c
          <6> SUFFICES ASSUME Poll(d), d = c PROVE FALSE  OBVIOUS
          <6> QED  BY DEF Poll
        <5> QED  BY <2>0, <4>0, <4>5, <5>1 DEF Poll, Check, Return
      <4> QED  BY <3>3, <4>1, <4>2, <4>3, <4>4, <4>5
    <3> QED  BY <2>2, <3>1, <3>2, <3>3 DEF BlkNext
  <2>4. ret' = [ret EXCEPT ![c] = IF ring0 # 0 THEN -1 ELSE 0]  BY <2>3 DEF Check, Return
  <2>5. ret'[c] = -1 <=> ring0 # 0  BY <2>0, <2>4 DEF BlkTypeOK
  <2> QED  BY <2>1, <2>5 DEF Answered
<1> QED  BY <1>1, VirtioInv, PTL DEF Spec, BlkAnswered
=============================================================================
