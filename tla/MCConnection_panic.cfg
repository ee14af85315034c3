SPECIFICATION Spec
CONSTANTS
  Clients = {c1}
  OldClients = {}
  Duplicating = TRUE
  MaxInFlight = 2
  Timeout = 1
  ConnectFrom = {"Disconnected", "SendingConnectionRequest", "SendingChallengeResponse", "Connected", "SelfInitiatedDisconnect"}
  DisconnectFrom = {"Disconnected", "SendingConnectionRequest", "SendingChallengeResponse", "Connected", "SelfInitiatedDisconnect"}
  MaxConnects = 2
  MaxPackets = 3
  MaxSalts = 2
INVARIANT NeverPanics
CHECK_DEADLOCK FALSE
