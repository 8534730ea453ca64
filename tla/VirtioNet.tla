----------------------------- MODULE VirtioNet -----------------------------
(***************************************************************************)
(* The virtio network driver (kernel/src/virtio_net.c): one transmit and   *)
(* one receive buffer, each handed over by a ready flag that the interrupt *)
(* handler sets.  The handler runs masked and may come between any two     *)
(* steps of send and of receive; packets are numbered in the order they are sent and in   *)
(* the order they arrive.                                                  *)
(***************************************************************************)
EXTENDS VirtioDev

CONSTANTS
  HDR,         \* sizeof(virtio_net_hdr_t)
  RX_ROOM,     \* bytes rx_buffer has behind the header
  PacketLen,   \* PacketLen[n]: bytes of the n-th packet that arrives
  MAX_SENT, MAX_ARRIVED  \* bounds: packets sent, and packets that arrive

ASSUME NetConstants ==
  /\ HDR \in Nat /\ RX_ROOM \in Nat /\ MAX_SENT \in Nat /\ MAX_ARRIVED \in Nat
  /\ PacketLen \in [1 .. MAX_ARRIVED -> 0 .. RX_ROOM]

VARIABLES
  virtio_net_mmio, net_ret,  \* as in the block driver
  tx, rx,                    \* virtio_net_tx_queue, virtio_net_rx_queue
  rx_lens,                   \* used.ring[i].len of the receive queue
  tx_ready, rx_ready, rx_len,
  tx_buffer, rx_buffer,      \* the packet in it, 0: none
  isr,                       \* the device asks for an interrupt
  spc, sent,                 \* place in virtio_net_send; packets given to it
  wire,                      \* history: what the device transmitted
  arrived, got,              \* history: packets put into rx_buffer; what recv
                             \* returned, and whether it is that packet, by its own length
  rpc, half                  \* place in virtio_net_recv, by one task, and what it has
                             \* copied so far
netQueues == <<tx, rx, rx_lens>>
netFlags == <<tx_ready, rx_ready, rx_len>>
netVars == <<virtio_net_mmio, net_ret, netQueues, netFlags, tx_buffer, rx_buffer, isr,
             spc, sent, wire, arrived, got, rpc, half>>

NoHalf == [packet |-> 0, whole |-> FALSE]
NetInit ==
  /\ virtio_net_mmio = FALSE /\ net_ret = 1
  /\ tx = NoQueue /\ rx = NoQueue /\ rx_lens = [i \in 0 .. VIRTIO_QUEUE_SIZE - 1 |-> 0]
  /\ tx_ready = TRUE /\ rx_ready = FALSE /\ rx_len = 0
  /\ tx_buffer = 0 /\ rx_buffer = 0 /\ isr = FALSE
  /\ spc = "idle" /\ sent = 0 /\ wire = <<>> /\ arrived = 0 /\ got = <<>>
  /\ rpc = "idle" /\ half = NoHalf

\* virtio_net_setup_rx: give the receive buffer to the device.
SetupRx(q) == IF q.up THEN Post(q) ELSE q

VirtioNetInit(regs) ==
  /\ net_ret = 1
  /\ virtio_net_mmio' = TRUE
  /\ \/ /\ Accepts(regs, 1)
        /\ tx' = IF heap > 0 THEN NewQueue ELSE NoQueue
        /\ rx' = SetupRx(IF heap > 1 THEN NewQueue ELSE NoQueue)
        /\ heap' = IF heap > 1 THEN heap - 2 ELSE 0
        /\ net_ret' = 0
     \/ ~Accepts(regs, 1) /\ net_ret' = -1 /\ UNCHANGED <<tx, rx, heap>>
  /\ UNCHANGED <<rx_lens, netFlags, tx_buffer, rx_buffer, isr, spc, sent, wire, arrived, got, rpc, half>>

-----------------------------------------------------------------------------
(* virtio_net_send, by one task.  Calls that return -1 change nothing. *)

Send ==
  /\ virtio_net_mmio /\ tx.up
  /\ spc = "idle" /\ sent < MAX_SENT
  /\ spc' = "wait" /\ sent' = sent + 1
  /\ UNCHANGED <<heap, virtio_net_mmio, net_ret, netQueues, netFlags, tx_buffer,
                 rx_buffer, isr, wire, arrived, got, rpc, half>>

\* Fills the buffer whether or not it is free.
SendFillAtOnce ==
  /\ spc = "wait"
  /\ spc' = "post" /\ tx_ready' = FALSE
  /\ tx_buffer' = sent
  /\ UNCHANGED <<heap, virtio_net_mmio, net_ret, netQueues, rx_ready, rx_len,
                 rx_buffer, isr, sent, wire, arrived, got, rpc, half>>

SendFill ==
  /\ spc = "wait" /\ tx_ready
  /\ spc' = "post" /\ tx_ready' = FALSE
  /\ tx_buffer' = sent
  /\ UNCHANGED <<heap, virtio_net_mmio, net_ret, netQueues, rx_ready, rx_len,
                 rx_buffer, isr, sent, wire, arrived, got, rpc, half>>

SendPost ==
  /\ spc = "post"
  /\ spc' = "idle"
  /\ tx' = Post(tx)
  /\ UNCHANGED <<heap, virtio_net_mmio, net_ret, rx, rx_lens, netFlags, tx_buffer,
                 rx_buffer, isr, sent, wire, arrived, got, rpc, half>>

-----------------------------------------------------------------------------
(* virtio_net_recv; without a packet it returns 0 and changes nothing. *)

Min2(a, b) == IF a < b THEN a ELSE b

\* The packet is copied in two halves, then the flag is dropped and the buffer
\* given back to the device; the handler and the device may come in between.
RecvCall(max_len) ==
  /\ rpc = "idle" /\ rpc' = "copy"
  /\ virtio_net_mmio /\ rx.up /\ rx_ready
  /\ half' = [packet |-> rx_buffer,
       whole |-> Min2(rx_len, max_len) = Min2(PacketLen[rx_buffer], max_len)]
  /\ UNCHANGED <<heap, virtio_net_mmio, net_ret, netQueues, netFlags, tx_buffer, rx_buffer,
                 isr, spc, sent, wire, arrived, got>>

RecvCopy ==
  /\ rpc = "copy" /\ rpc' = "clear"
  /\ got' = Append(got, [packet |-> rx_buffer,
                         whole |-> half.whole /\ half.packet = rx_buffer])
  /\ half' = NoHalf
  /\ UNCHANGED <<heap, virtio_net_mmio, net_ret, netQueues, netFlags, tx_buffer, rx_buffer,
                 isr, spc, sent, wire, arrived>>

\* Leaves the packet announced.
RecvClearForgets ==
  /\ rpc = "clear" /\ rpc' = "post"
  /\ UNCHANGED <<heap, virtio_net_mmio, net_ret, netQueues, netFlags, tx_buffer, rx_buffer,
                 isr, spc, sent, wire, arrived, got, half>>

RecvClear ==
  /\ rpc = "clear" /\ rpc' = "post"
  /\ rx_ready' = FALSE
  /\ UNCHANGED <<heap, virtio_net_mmio, net_ret, netQueues, tx_ready, rx_len, tx_buffer,
                 rx_buffer, isr, spc, sent, wire, arrived, got, half>>

RecvPost ==
  /\ rpc = "post" /\ rpc' = "idle"
  /\ rx' = SetupRx(rx)
  /\ UNCHANGED <<heap, virtio_net_mmio, net_ret, tx, rx_lens, netFlags, tx_buffer, rx_buffer,
                 isr, spc, sent, wire, arrived, got, half>>

-----------------------------------------------------------------------------
(* virtio_net_handle_irq.  A queue whose used.idx is not 0 is taken to have *)
(* just completed something.                                                *)

HandleIrq ==
  /\ virtio_net_mmio
  /\ isr /\ isr' = FALSE
  /\ tx_ready' = (tx_ready \/ (tx.up /\ tx.used > 0))
  /\ IF rx.up /\ rx.used > 0
     THEN LET len == rx_lens[Slot(rx.used - 1)]
          IN  rx_ready' = TRUE /\ rx_len' = IF len > HDR THEN len - HDR ELSE 0
     ELSE UNCHANGED <<rx_ready, rx_len>>
  /\ UNCHANGED <<heap, virtio_net_mmio, net_ret, netQueues, tx_buffer, rx_buffer,
                 spc, sent, wire, arrived, got, rpc, half>>

-----------------------------------------------------------------------------
(* The device sends what is in the transmit buffer when it comes to it, and *)
(* fills the receive buffer when a packet arrives and it has been given one.*)

NetTransmit ==
  /\ Outstanding(tx)
  /\ wire' = Append(wire, tx_buffer)
  /\ tx' = Complete(tx)
  /\ isr' = TRUE
  /\ UNCHANGED <<heap, virtio_net_mmio, net_ret, rx, rx_lens, netFlags, tx_buffer,
                 rx_buffer, spc, sent, arrived, got, rpc, half>>

NetArrive ==
  /\ Outstanding(rx) /\ arrived < MAX_ARRIVED
  /\ arrived' = arrived + 1
  /\ rx_buffer' = arrived'
  /\ rx_lens' = [rx_lens EXCEPT ![Slot(rx.used)] = HDR + PacketLen[arrived']]
  /\ rx' = Complete(rx)
  /\ isr' = TRUE
  /\ UNCHANGED <<heap, virtio_net_mmio, net_ret, tx, netFlags, tx_buffer, spc, sent, wire, got, rpc, half>>

NetNext ==
  \/ \E regs \in Registers : VirtioNetInit(regs)
  \/ Send \/ SendFill \/ SendPost
  \/ (\E max_len \in 0 .. RX_ROOM : RecvCall(max_len))
  \/ RecvCopy \/ RecvClear \/ RecvPost
  \/ HandleIrq \/ NetTransmit \/ NetArrive

-----------------------------------------------------------------------------
NetTypeOK ==
  /\ virtio_net_mmio \in BOOLEAN /\ net_ret \in {1, 0, -1}
  /\ tx \in Queues /\ rx \in Queues
  /\ rx_lens \in [0 .. VIRTIO_QUEUE_SIZE - 1 -> 0 .. HDR + RX_ROOM]
  /\ tx_ready \in BOOLEAN /\ rx_ready \in BOOLEAN /\ rx_len \in 0 .. RX_ROOM
  /\ tx_buffer \in 0 .. MAX_SENT /\ rx_buffer \in 0 .. MAX_ARRIVED /\ isr \in BOOLEAN
  /\ spc \in {"idle", "wait", "post"} /\ sent \in 0 .. MAX_SENT /\ arrived \in 0 .. MAX_ARRIVED
  /\ wire \in Seq(0 .. MAX_SENT)
  /\ got \in Seq([packet : 0 .. MAX_ARRIVED, whole : BOOLEAN])
  /\ rpc \in {"idle", "copy", "clear", "post"}
  /\ half \in [packet : 0 .. MAX_ARRIVED, whole : BOOLEAN]
=============================================================================
