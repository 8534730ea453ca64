------------------------------ MODULE MCVirtio ------------------------------
(* Virtio for TLC: indices that wrap after two rounds of the queue. *)
EXTENDS Virtio, TLC
CONSTANTS c1, c2
MCPacketLen == [n \in 1 .. MAX_ARRIVED |-> n % (RX_ROOM + 1)]
=============================================================================
