------------------------------- MODULE Virtio -------------------------------
(***************************************************************************)
(* A device window and the driver the kernel starts on it: either of the   *)
(* two, on whatever device is there.  The drivers share nothing but the    *)
(* heap, so each is checked on its own.                                    *)
(***************************************************************************)
EXTENDS VirtioBlk, VirtioNet

VARIABLE driver
vars == <<driver, heap, blkVars, netVars>>

Init == driver \in {"blk", "net"} /\ heap \in 0 .. MAX_HEAP /\ BlkInit /\ NetInit

Next ==
  \/ driver = "blk" /\ BlkNext /\ UNCHANGED <<driver, netVars>>
  \/ driver = "net" /\ NetNext /\ UNCHANGED <<driver, blkVars>>

Spec == Init /\ [][Next]_vars
FairSpec == Spec /\ BlkFairness

TypeOK == driver \in {"blk", "net"} /\ heap \in 0 .. MAX_HEAP
          /\ BlkTypeOK /\ NetTypeOK

\* A block request that found the device idle and met no other caller has been
\* served when its call is over (virtio_blk.c:215), unless it moved avail.idx
\* round to 0; and the call reports a failure (virtio_blk.c:219) exactly when the
\* device failed the request and answered it elsewhere than in used slot 0, where
\* the element overwrites the status.
BlkAnswered ==
  [][\A c \in alone : pc[c] = "check" /\ pc'[c] = "idle" /\ virtio_queue.avail # 0 =>
       /\ outcome # "none"
       /\ ret'[c] = -1 <=> outcome = "failed" /\ Slot(virtio_queue.avail - 1) # 0]_vars

\* Packets go out in the order of the sends.  As long as nothing has been received
\* each goes out exactly once; after that a late interrupt of the receive queue may
\* announce a transmit buffer that is still in use (virtio_net.c:268).
TxIntact ==
  /\ \A i, j \in DOMAIN wire : i < j => wire[i] <= wire[j]
  /\ arrived = 0 => wire = [i \in 1 .. Len(wire) |-> i]

\* As long as nothing has been transmitted every packet that arrived is received at
\* most once, in order, untorn and with its own length; in any case none is taken before it
\* arrived, or after a later one (virtio_net.c:273, virtio_net.c:249).
RxOnce ==
  /\ \A i, j \in DOMAIN got : i < j => got[i].packet <= got[j].packet
  /\ \A i \in DOMAIN got : got[i].packet \in 1 .. arrived
  /\ wire = <<>> => \A i \in DOMAIN got : got[i].packet = i /\ got[i].whole

\* A block call that met an idle device and no other call gets out of its poll
\* (virtio_blk.c:215), given a device that answers: the loop compares indices for
\* equality only, so it must not miss the answer, at any index and with any others
\* answered before it.
Released ==
  \A c \in Caller : pc[c] = "poll" ~> (pc[c] # "poll" \/ c \notin alone)

-----------------------------------------------------------------------------
(* The inductive invariants behind BlkAnswered, TxIntact and RxOnce *)

\* What the device has done for the request that caller c posted alone: nothing yet,
\* written the status, or answered.
Waiting == virtio_queue.avail = Advance(virtio_queue.used) /\ Outstanding(virtio_queue)
           /\ ~device_status /\ outcome = "none"
Served == virtio_queue.avail = Advance(virtio_queue.used) /\ Outstanding(virtio_queue)
          /\ device_status /\ outcome # "none" /\ (ring0 # 0 <=> outcome = "failed")
Answered ==
  /\ ~Outstanding(virtio_queue) /\ ~device_status /\ outcome # "none"
  /\ virtio_queue.avail # 0 =>
       (ring0 # 0 <=> outcome = "failed" /\ Slot(virtio_queue.avail - 1) # 0)

BlkInv ==
  /\ init_ret = 1 => ~virtio_mmio /\ virtio_queue = NoQueue /\ \A c \in Caller : pc[c] = "idle"
  /\ device_status => Outstanding(virtio_queue)
  /\ \A c \in Caller : pc[c] = "fill" \/ Busy(c) => virtio_queue.up
  /\ \A c \in alone :
       /\ Busy(c) /\ desc = c /\ \A d \in Caller : Busy(d) => d = c
       /\ pc[c] = "post" => ~Outstanding(virtio_queue) /\ ~device_status /\ outcome = "none"
       /\ pc[c] \in {"poll", "check"} => Waiting \/ Served \/ Answered
       /\ pc[c] = "check" /\ virtio_queue.avail # 0 => Answered

\* How many packets were posted, and that a buffer in transit is neither announced
\* nor about to be.
Posted == IF spc = "idle" THEN sent ELSE sent - 1
TxInv ==
  /\ Len(wire) \in {Posted, Posted - 1}
  /\ Len(wire) = Posted => tx.avail = tx.used
  /\ Len(wire) # Posted => tx.avail = Advance(tx.used) /\ spc # "post" /\ ~tx_ready /\ ~isr
  /\ isr => ~tx_ready
  /\ spc = "post" => ~tx_ready /\ ~isr
  /\ tx_buffer = IF spc = "wait" THEN sent - 1 ELSE sent

\* The same for the receive buffer, which the device has or had once more often than
\* it was given back; while it is read nobody has it but the reader.
Returned == IF rpc \in {"clear", "post"} THEN Len(got) - 1 ELSE Len(got)
RxInv ==
  /\ arrived \in {Returned, Returned + 1}
  /\ rx.up /\ arrived = Returned => rx.avail = Advance(rx.used) /\ ~rx_ready /\ ~isr
  /\ arrived # Returned => rx.avail = rx.used
  /\ isr => ~rx_ready
  /\ rx_ready => rx_len = PacketLen[arrived]
  /\ rpc # "idle" => arrived = Returned + 1
  /\ rpc \in {"copy", "clear"} => rx_ready
  /\ rpc = "post" => ~rx_ready /\ ~isr
  /\ rpc = "copy" => half = [packet |-> arrived, whole |-> TRUE]

NetInv ==
  /\ net_ret = 1 => ~virtio_net_mmio
  /\ ~virtio_net_mmio => tx = NoQueue /\ rx = NoQueue /\ ~isr
  /\ ~tx.up => sent = 0 /\ spc = "idle" /\ wire = <<>>
  /\ ~rx.up => arrived = 0 /\ got = <<>> /\ ~rx_ready
  /\ spc # "idle" => sent > 0
  /\ tx_buffer <= sent /\ rx_buffer = arrived
  /\ \A i \in DOMAIN wire : wire[i] <= tx_buffer
  /\ rx.used > 0 => arrived > 0 /\ rx_lens[Slot(rx.used - 1)] = HDR + PacketLen[arrived]
  /\ rx_ready => arrived > 0
  /\ rpc # "idle" => rx.up /\ arrived > 0
  /\ arrived = 0 => TxInv
  /\ wire = <<>> => RxInv

IInv == TypeOK /\ BlkInv /\ NetInv /\ TxIntact /\ RxOnce
=============================================================================
