SPECIFICATION Spec
CONSTANTS
  Clients = {c1}
  OldClients = {old}
  Duplicating = TRUE
  MaxInFlight = 2
  Timeout = 1
  ConnectFrom = {"Disconnected"}
  DisconnectFrom = {"Disconnected", "SendingConnectionRequest", "SendingChallengeResponse", "Connected", "SelfInitiatedDisconnect"}
  MaxConnects = 2
  MaxPackets = 3
  MaxSalts = 2
INVARIANTS TypeOK SessionAgreed OpenedOnce SeenWereSent
PROPERTY NeverReopened
CHECK_DEADLOCK FALSE
