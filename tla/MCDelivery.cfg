SPECIFICATION Spec
CONSTANTS
  SeqMod = 16
  Peers = {alice, bob}
  Sender = alice
  MaxUnacked = 3
  AckBitsPerByte = 2
  SentSize = 4
  RecvSize = 4
  SeenSize = 2
  ResendTicks = 1
  MaxQueued = 1
  MaxIdle = 1
  IdMod = 16
  LinkCapacity = 1
  MaxLosses = 1
  MaxSkew = 1
  Watched = {0}
  MaxMessages = 2
INVARIANTS NeverWedged FilterExact
PROPERTIES Delivered Acked
CHECK_DEADLOCK FALSE
