SPECIFICATION Spec
CONSTANTS
  Pools <- DefaultPools
  Channels <- DefaultChannels
  Reliable = {1}
  MaxPacketSize = 1150
  FirstId = 65535
  Lengths <- Boundaries
  AckBytes = {0, 50}
  Controls = {"ConnectionRequest", "ConnectionDenied", "KeepAlive"}
  MaxSetbacks = 1
INVARIANTS ParsedAsWritten DeliveredWhole PacketsUseful BuffersAccounted
CHECK_DEADLOCK FALSE
