SPECIFICATION Spec
CONSTANTS
  SeqMod = 32
  alice = alice
  bob = bob
  Peers = {alice, bob}
  PacketTypes = {"Messages", "KeepAlive"}
  MaxUnacked = 2
  AckBitsPerByte = 2
  SentSize = 2
  RecvSize = 2
  MaxSeq = 3
  Reliable = {1}
  Unreliable = {0}
  SeenSize = 5
  FragSize = 15
  ResendTicks = 1
  MaxParts = 2
  MaxPerPacket = 2
  Workload <- FragmentedWorkload
INVARIANTS TypeOK DeliveredIntact DeliveredOnce AckedWasDelivered ReliableKept GoneMeansReported HandlesRetained RefusedLate NeverPanics
PROPERTY ImplementsMessages
CHECK_DEADLOCK FALSE
