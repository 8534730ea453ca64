SPECIFICATION FairSpec
CONSTANTS
  VIRTIO_QUEUE_SIZE = 2
  IDX_MOD = 4
  MAX_HEAP = 2
  c1 = c1
  c2 = c2
  Caller = {c1, c2}
  HDR = 1
  RX_ROOM = 2
  PacketLen <- MCPacketLen
  MAX_SENT = 5
  MAX_ARRIVED = 4
INVARIANTS
  TypeOK
  TxIntact
  RxOnce
PROPERTIES
  BlkAnswered
  Released
CHECK_DEADLOCK FALSE
