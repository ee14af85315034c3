SPECIFICATION Spec
CONSTANTS
  SeqMod = 32
  Peers = {alice, bob}
  Payloads = {"data"}
  PacketTypes = {"Messages", "KeepAlive"}
  MaxUnacked = 2
  AckBitsPerByte = 2
  SentSize = 2
  RecvSize = 2
  MaxSeq = 4
VIEW MCView
INVARIANTS TypeOK AckedWasReceived NeverFreshAgain NoFalseDuplicate AckFieldFits WatermarkKnown AckableStillHeld
PROPERTY ImplementsService
CHECK_DEADLOCK FALSE
