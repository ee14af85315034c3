SPECIFICATION Spec
CONSTANTS
  SeqMod = 8
  alice = alice
  bob = bob
  Peers = {alice, bob}
  PacketTypes = {"Messages", "KeepAlive"}
  MaxUnacked = 2
  AckBitsPerByte = 2
  SentSize = 2
  RecvSize = 2
  MaxSeq = 3
  Reliable = {1}
  Unreliable = {0}
  SeenSize = 4
  FragSize = 4
  ResendTicks = 1
  MaxParts = 2
  MaxPerPacket = 2
  Workload <- OneMessage
INVARIANT NeverPanics
CHECK_DEADLOCK FALSE
