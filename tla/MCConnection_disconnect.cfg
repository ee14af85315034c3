SPECIFICATION Spec
CONSTANTS
  Clients = {c1}
  OldClients = {}
  Duplicating = TRUE
  MaxInFlight = 2
  Timeout = 1
  ConnectFrom = {"Disconnected"}
  DisconnectFrom = {"Connected", "SendingChallengeResponse"}
  MaxConnects = 1
  MaxPackets = 3
  MaxSalts = 1
PROPERTY DisconnectSent
CHECK_DEADLOCK FALSE
