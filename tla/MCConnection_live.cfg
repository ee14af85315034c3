SPECIFICATION FairSpec
CONSTANTS
  Clients = {c1}
  OldClients = {}
  Duplicating = FALSE
  MaxInFlight = 2
  Timeout = 2
  ConnectFrom = {"Disconnected"}
  DisconnectFrom = {"Disconnected", "SendingConnectionRequest", "SendingChallengeResponse", "Connected", "SelfInitiatedDisconnect"}
  MaxConnects = 1
  MaxPackets = 3
  MaxSalts = 2
PROPERTIES AttemptEnds DeadSessionNoticed AbandonedEnds
CHECK_DEADLOCK FALSE
